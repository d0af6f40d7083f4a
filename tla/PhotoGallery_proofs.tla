-------------------------- MODULE PhotoGallery_proofs --------------------------
(***************************************************************************)
(* Proofs about PhotoGallery, for any threads, items, ids of photos and    *)
(* names clients give, and any number of files of an upload.               *)
(***************************************************************************)
EXTENDS PhotoGallery, TLAPS

-----------------------------------------------------------------------------
(***************************************************************************)
(* The types                                                               *)
(***************************************************************************)

\* A request under way has an item, only an upload has files to enter, and what is removed
\* is a file.
PlacesOK ==
    \A t \in Thread :
      /\ pc[t] # "idle" => req[t].item \in Item
      /\ pc[t] \in {"unlink", "drop"} => req[t].file # NoName
      /\ req[t].parts # {} => pc[t] \in {"write", "insert", "ref"}

RequestType ==
    [item : Item \cup {Nothing}, photo : used \cup {Nothing},
     file : Name \cup {NoName}, parts : SUBSET Name, prim : BOOLEAN]

RowType == [item : items, file : Name, primary : BOOLEAN]

TableOK ==
    /\ items \subseteq Item /\ ref \in [Item -> Name \cup {NoName}]
    /\ used \subseteq PhotoId /\ DOMAIN photo \subseteq used
    /\ \A p \in DOMAIN photo : photo[p] \in RowType

ThreadsOK ==
    /\ pc \in [Thread -> Label]
    /\ req \in [Thread -> RequestType]
    /\ PlacesOK

FilesTyped == disk \subseteq Name /\ disturbed \subseteq Item /\ taken \subseteq Name

TypedInv == TypeOK /\ PlacesOK

LEMMA TypedParts == TypedInv <=> TableOK /\ ThreadsOK /\ FilesTyped
  BY DEF TypedInv, TypeOK, TableOK, ThreadsOK, FilesTyped, RequestType, RowType

LEMMA TypedFrom == ASSUME TableOK', ThreadsOK', FilesTyped' PROVE TypedInv'
  BY DEF TypedInv, TypeOK, TableOK, ThreadsOK, FilesTyped, RequestType, RowType

LEMMA ThreadTypes ==
  ASSUME TypedInv, NEW t \in Thread
  PROVE  /\ pc[t] \in Label /\ req[t] \in RequestType
         /\ req[t].item \in Item \cup {Nothing} /\ req[t].photo \in used \cup {Nothing}
         /\ req[t].file \in Name \cup {NoName}
         /\ req[t].parts \in SUBSET Name /\ req[t].prim \in BOOLEAN
         /\ pc[t] # "idle" => req[t].item \in Item
         /\ pc[t] \in {"unlink", "drop"} => req[t].file # NoName
         /\ req[t].parts # {} => pc[t] \in {"write", "insert", "ref"}
  BY DEF TypedInv, TypeOK, PlacesOK, RequestType

\* A thread goes on with a request.
LEMMA ThreadGoes ==
  ASSUME TypedInv, NEW t \in Thread, NEW label \in Label, NEW r \in RequestType,
         Goes(t, label, r), used \subseteq used',
         label # "idle" => r.item \in Item,
         label \in {"unlink", "drop"} => r.file # NoName,
         r.parts # {} => label \in {"write", "insert", "ref"}
  PROVE  ThreadsOK'
<1>1. r \in RequestType'
  BY DEF RequestType
<1>2. \A u \in Thread : req[u] \in RequestType'
  BY ThreadTypes DEF RequestType
<1>3. pc' \in [Thread -> Label] /\ req' \in [Thread -> RequestType']
  BY <1>1, <1>2 DEF Goes, TypedInv, TypeOK
<1>4. PlacesOK'
  BY DEF Goes, TypedInv, TypeOK, PlacesOK
<1> QED
  BY <1>3, <1>4 DEF ThreadsOK, RequestType

LEMMA RequestIs ==
  ASSUME NEW i, NEW p, NEW f, NEW parts, NEW prim
  PROVE  LET r == Request(i, p, f, parts, prim)
         IN  /\ r.item = i /\ r.photo = p /\ r.file = f /\ r.parts = parts /\ r.prim = prim
             /\ i \in Item \cup {Nothing} /\ p \in used \cup {Nothing} /\ f \in Name \cup {NoName}
                /\ parts \in SUBSET Name /\ prim \in BOOLEAN
                => r \in RequestType
  BY DEF Request, RequestType

LEMMA NoRequestIs ==
  /\ NoRequest \in RequestType /\ NoRequest.item = Nothing /\ NoRequest.photo = Nothing
  /\ NoRequest.file = NoName /\ NoRequest.parts = {} /\ ~NoRequest.prim
  BY DEF NoRequest, Request, RequestType

LEMMA ThreadEnds ==
  ASSUME TypedInv, NEW t \in Thread, Ends(t), used \subseteq used' PROVE ThreadsOK'
<1>1. Goes(t, "idle", NoRequest) /\ "idle" \in Label
  BY DEF Ends, Label
<1> QED
  BY <1>1, NoRequestIs, ThreadGoes

\* A request comes in.
LEMMA ThreadComes ==
  ASSUME TypedInv, NEW t \in Thread, NEW label \in Label \ {"idle"}, NEW i \in Item,
         NEW p \in used \cup {Nothing}, NEW f \in Name \cup {NoName},
         NEW parts \in SUBSET Name, NEW b \in BOOLEAN, NEW upsets \in SUBSET Item, NEW rights,
         Comes(t, label, Request(i, p, f, parts, b), upsets, rights), UNCHANGED used,
         label \in {"unlink", "drop"} => f # NoName,
         parts # {} => label \in {"write", "insert", "ref"}
  PROVE  ThreadsOK' /\ disturbed' \subseteq Item
<1> DEFINE r == Request(i, p, f, parts, b)
<1>1. r \in RequestType /\ r.item = i /\ r.photo = p /\ r.file = f /\ r.parts = parts
  BY RequestIs
<1>2. ThreadsOK'
  <2>1. Goes(t, label, r)
    BY DEF Comes
  <2> HIDE DEF r
  <2> QED
    BY <1>1, <2>1, ThreadGoes
<1>3. About(i, p) \subseteq Item
  BY DEF About, TypedInv, TypeOK
<1>4. Disturbs(label, r) \subseteq Item
  BY <1>1, <1>3 DEF Disturbs
<1> QED
  BY <1>2, <1>4 DEF Comes, TypedInv, TypeOK

\* The other threads' types stay, whatever is done to the table.
LEMMA ThreadsStay ==
  ASSUME TypedInv, UNCHANGED threads, UNCHANGED used PROVE ThreadsOK'
  BY DEF threads, TypedInv, TypeOK, PlacesOK, ThreadsOK, RequestType

LEMMA TableStays ==
  ASSUME TypedInv, UNCHANGED table PROVE TableOK'
  BY DEF table, TypedInv, TypeOK, TableOK, RowType

\* Rows are marked.
LEMMA RowsMarked ==
  ASSUME TypedInv, UNCHANGED <<items, ref, used>>, NEW S, NEW b \in BOOLEAN,
         photo' = [q \in DOMAIN photo |->
                     IF q \in S THEN [photo[q] EXCEPT !.primary = b] ELSE photo[q]]
  PROVE  TableOK'
<1>1. \A q \in DOMAIN photo : photo[q] \in RowType
  BY DEF TypedInv, TypeOK, RowType
<1>2. \A q \in DOMAIN photo : [photo[q] EXCEPT !.primary = b] \in RowType
  BY <1>1 DEF RowType
<1>3. DOMAIN photo' = DOMAIN photo /\ \A q \in DOMAIN photo : photo'[q] \in RowType
  BY <1>1, <1>2
<1> QED
  BY <1>3 DEF TypedInv, TypeOK, TableOK, RowType

\* Rows are dropped.
LEMMA RowsDropped ==
  ASSUME TypedInv, UNCHANGED <<items, ref, used>>, NEW S,
         photo' = [q \in DOMAIN photo \ S |-> photo[q]]
  PROVE  TableOK'
<1>1. DOMAIN photo' = DOMAIN photo \ S
  OBVIOUS
<1>2. \A q \in DOMAIN photo' : photo'[q] = photo[q]
  BY <1>1
<1> QED
  BY <1>1, <1>2 DEF TypedInv, TypeOK, TableOK, RowType

-----------------------------------------------------------------------------
(***************************************************************************)
(* Every action keeps the types                                            *)
(***************************************************************************)
LEMMA BodiesAre == ASSUME NEW i \in Item, NEW files \in Bodies(i) PROVE files \in SUBSET Name
  BY PhotoGalleryAssumption DEF Bodies, Name

LEMMA NamesAre == NoName \notin Name
  BY PhotoGalleryAssumption DEF NoName, Name

LEMMA UploadTyped == ASSUME TypedInv, NEW t \in Thread, Upload(t) PROVE TypedInv'
<1>0. PICK i \in Item : \E files \in Bodies(i) :
        /\ Comes(t, "write", Request(i, Nothing, NoName, files, Primaries(i) = {}), {}, {})
        /\ UNCHANGED <<table, disk, taken>>
  BY DEF Upload
<1>1. PICK files \in Bodies(i) :
        /\ Comes(t, "write", Request(i, Nothing, NoName, files, Primaries(i) = {}), {}, {})
        /\ UNCHANGED <<table, disk, taken>>
  BY <1>0
<1>2. files \in SUBSET Name
  BY BodiesAre
<1>3. PICK b \in BOOLEAN : b = (Primaries(i) = {})
  OBVIOUS
<1>4. Comes(t, "write", Request(i, Nothing, NoName, files, b), {}, {})
  BY <1>1, <1>3
<1>5. ThreadsOK' /\ disturbed' \subseteq Item
  <2>1. "write" \in Label \ {"idle"} /\ {} \in SUBSET Item /\ UNCHANGED used
    BY <1>1 DEF Label, table
  <2> QED
    BY <1>2, <1>4, <2>1, ThreadComes
<1> QED
  BY <1>1, <1>5, TableStays, TypedFrom DEF FilesTyped, TypedInv, TypeOK

LEMMA WriteFilesTyped == ASSUME TypedInv, NEW t \in Thread, WriteFiles(t) PROVE TypedInv'
<1>1. PICK files \in SUBSET req[t].parts : Written(t, files, files)
  BY DEF WriteFiles
<1>2. pc[t] = "write" /\ files \in SUBSET Name /\ UNCHANGED used
  BY <1>1, ThreadTypes DEF WriteFiles, Written, table
<1>3. ThreadsOK'
  <2>1. CASE files = {}
    BY <1>1, <1>2, <2>1, ThreadEnds DEF Written
  <2>2. CASE files # {}
    <3>1. PICK r : r = [req[t] EXCEPT !.parts = files]
      OBVIOUS
    <3>2. r \in RequestType /\ r.item = req[t].item /\ r.parts = files
      BY <1>2, <3>1, ThreadTypes DEF RequestType
    <3>3. Goes(t, "insert", r) /\ "insert" \in Label
      BY <1>1, <2>2, <3>1 DEF Written, Label
    <3> QED
      BY <1>2, <3>2, <3>3, ThreadTypes, ThreadGoes
  <2> QED
    BY <2>1, <2>2
<1> QED
  BY <1>1, <1>2, <1>3, TableStays, TypedFrom DEF Written, FilesTyped, TypedInv, TypeOK

\* The request of an upload after the row of a file.
InsertRest(t, f) ==
    [req[t] EXCEPT !.parts = @ \ {f}, !.prim = FALSE,
                   !.file = IF req[t].prim THEN f ELSE NoName]

LEMMA InsertIs ==
  ASSUME TypedInv, NEW t \in Thread, InsertPhoto(t)
  PROVE  /\ pc[t] = "insert" /\ req[t].item \in Item
         /\ UNCHANGED <<items, ref, disk, disturbed, taken>>
         /\ \E f \in req[t].parts, p \in PhotoId \ used :
              LET r == InsertRest(t, f)
              IN  /\ f \in Name /\ r \in RequestType /\ r.item = req[t].item
                  /\ r.photo = req[t].photo /\ r.parts = req[t].parts \ {f} /\ ~r.prim
                  /\ r.file = (IF req[t].prim THEN f ELSE NoName)
                  /\ IF req[t].item \in items
                     THEN /\ used' = used \cup {p}
                          /\ photo' = [q \in DOMAIN photo \cup {p} |->
                                         IF q = p THEN PhotoRow(req[t].item, f, req[t].prim)
                                         ELSE photo[q]]
                     ELSE UNCHANGED <<photo, used>>
                  /\ IF req[t].prim THEN Goes(t, "ref", r)
                     ELSE IF r.parts = {} THEN Ends(t) ELSE Goes(t, "insert", r)
<1>1. /\ pc[t] = "insert" /\ UNCHANGED <<items, ref, disk, disturbed, taken>>
  BY DEF InsertPhoto
<1>2. PICK f \in req[t].parts, p \in PhotoId \ used :
        /\ (IF req[t].item \in items
            THEN /\ used' = used \cup {p}
                 /\ photo' = [q \in DOMAIN photo \cup {p} |->
                                IF q = p THEN PhotoRow(req[t].item, f, req[t].prim)
                                ELSE photo[q]]
            ELSE UNCHANGED <<photo, used>>)
        /\ (IF req[t].prim THEN Goes(t, "ref", InsertRest(t, f))
            ELSE IF InsertRest(t, f).parts = {} THEN Ends(t)
            ELSE Goes(t, "insert", InsertRest(t, f)))
  BY DEF InsertPhoto, InsertRest
<1>3. PICK r : r = InsertRest(t, f)
  OBVIOUS
<1>4. req[t] \in RequestType /\ req[t].item \in Item /\ f \in Name
  BY <1>1, ThreadTypes
<1>5. /\ r \in RequestType /\ r.item = req[t].item /\ r.photo = req[t].photo
      /\ r.parts = req[t].parts \ {f} /\ ~r.prim
      /\ r.file = (IF req[t].prim THEN f ELSE NoName)
  <2>1. /\ req[t].parts \ {f} \in SUBSET Name /\ FALSE \in BOOLEAN
        /\ (IF req[t].prim THEN f ELSE NoName) \in Name \cup {NoName}
    BY <1>4 DEF RequestType
  <2> QED
    BY <1>3, <1>4, <2>1 DEF InsertRest, RequestType
<1> QED
  BY <1>1, <1>2, <1>3, <1>4, <1>5

LEMMA InsertTyped == ASSUME TypedInv, NEW t \in Thread, InsertPhoto(t) PROVE TypedInv'
<1>1. PICK f \in req[t].parts, p \in PhotoId \ used, r \in RequestType :
        /\ r = InsertRest(t, f) /\ f \in Name /\ r \in RequestType /\ r.item = req[t].item
        /\ r.parts = req[t].parts \ {f}
        /\ (IF req[t].item \in items
            THEN /\ used' = used \cup {p}
                 /\ photo' = [q \in DOMAIN photo \cup {p} |->
                                IF q = p THEN PhotoRow(req[t].item, f, req[t].prim)
                                ELSE photo[q]]
            ELSE UNCHANGED <<photo, used>>)
        /\ (IF req[t].prim THEN Goes(t, "ref", r)
            ELSE IF r.parts = {} THEN Ends(t) ELSE Goes(t, "insert", r))
  BY InsertIs
<1>2. used \subseteq used' /\ UNCHANGED <<items, ref, disk, disturbed, taken>> /\ req[t].item \in Item
  BY <1>1, InsertIs
<1>3. ThreadsOK'
  <2>1. CASE Ends(t)
    BY <1>2, <2>1, ThreadEnds
  <2>2. CASE Goes(t, "ref", r) \/ Goes(t, "insert", r)
    BY <1>1, <1>2, <2>2, ThreadGoes DEF Label
  <2> QED
    BY <1>1, <2>1, <2>2
<1>4. TableOK'
  <2>1. CASE req[t].item \in items
    <3>1. req[t].prim \in BOOLEAN
      BY ThreadTypes
    <3>2. PhotoRow(req[t].item, f, req[t].prim) \in RowType
      BY <1>1, <2>1, <3>1 DEF PhotoRow, RowType
    <3>3. DOMAIN photo' = DOMAIN photo \cup {p}
          /\ \A q \in DOMAIN photo' : photo'[q] \in RowType
      BY <1>1, <2>1, <3>2 DEF TypedInv, TypeOK, RowType
    <3> QED
      BY <1>1, <1>2, <2>1, <3>3 DEF TypedInv, TypeOK, TableOK, RowType
  <2>2. CASE req[t].item \notin items
    BY <1>1, <1>2, <2>2, TableStays DEF table
  <2> QED
    BY <2>1, <2>2
<1> QED
  BY <1>2, <1>3, <1>4, TypedFrom DEF FilesTyped, TypedInv, TypeOK

LEMMA SetRefTyped == ASSUME TypedInv, NEW t \in Thread, SetRef(t) PROVE TypedInv'
<1>1. pc[t] = "ref" /\ UNCHANGED <<items, photo, used, disk, disturbed, taken>>
  BY DEF SetRef
<1>2. ref' \in [Item -> Name \cup {NoName}]
  BY ThreadTypes DEF SetRef, TypedInv, TypeOK
<1>3. TableOK'
  BY <1>1, <1>2 DEF TypedInv, TypeOK, TableOK, RowType
<1>4. ThreadsOK'
  <2>1. CASE Ends(t)
    BY <1>1, <2>1, ThreadEnds
  <2>2. CASE Goes(t, "insert", [req[t] EXCEPT !.file = NoName])
    <3>1. PICK r : r = [req[t] EXCEPT !.file = NoName]
      OBVIOUS
    <3>2. r \in RequestType /\ r.item = req[t].item /\ r.parts = req[t].parts
      BY <3>1, ThreadTypes DEF RequestType
    <3> QED
      BY <1>1, <2>2, <3>1, <3>2, ThreadTypes, ThreadGoes DEF Label
  <2> QED
    BY <2>1, <2>2 DEF SetRef
<1> QED
  BY <1>1, <1>3, <1>4, TypedFrom DEF FilesTyped, TypedInv, TypeOK

LEMMA PutPrimaryTyped == ASSUME TypedInv, NEW t \in Thread, PutPrimary(t) PROVE TypedInv'
<1>1. PICK i \in Item, p \in used :
      /\ Comes(t, "set", Request(i, p, NoName, {}, FALSE), {}, {i})
      /\ photo' = [q \in DOMAIN photo |->
                     IF q \in Photos(i) THEN [photo[q] EXCEPT !.primary = FALSE] ELSE photo[q]]
      /\ UNCHANGED <<items, ref, used, disk, taken>>
  BY DEF PutPrimary
<1>2. ThreadsOK' /\ disturbed' \subseteq Item
  <2>1. /\ "set" \in Label \ {"idle"} /\ p \in used \cup {Nothing} /\ FALSE \in BOOLEAN
        /\ NoName \in Name \cup {NoName} /\ {} \in SUBSET Name /\ {} \in SUBSET Item
        /\ UNCHANGED used
    BY <1>1 DEF Label
  <2> QED
    BY <1>1, <2>1, ThreadComes
<1>3. TableOK'
  BY <1>1, RowsMarked
<1> QED
  BY <1>1, <1>2, <1>3, TypedFrom DEF FilesTyped, TypedInv, TypeOK

LEMMA SetPrimaryTyped ==
  ASSUME TypedInv, NEW t \in Thread, NEW label \in {"name", "ref"}, pc[t] \in {"set", "promote"},
         SetPrimary(t, label)
  PROVE  TypedInv'
<1>1. PICK S : S = {req[t].photo}
  OBVIOUS
<1>2. photo' = [q \in DOMAIN photo |->
                  IF q \in S THEN [photo[q] EXCEPT !.primary = TRUE] ELSE photo[q]]
  BY <1>1 DEF SetPrimary
<1>3. UNCHANGED <<items, ref, used, disk, disturbed, taken>> /\ Goes(t, label, req[t])
  BY DEF SetPrimary
<1>4. TableOK'
  BY <1>2, <1>3, RowsMarked
<1>5. ThreadsOK'
  BY <1>3, ThreadTypes, ThreadGoes DEF Label
<1> QED
  BY <1>3, <1>4, <1>5, TypedFrom DEF FilesTyped, TypedInv, TypeOK

LEMMA ReadNameTyped == ASSUME TypedInv, NEW t \in Thread, ReadName(t) PROVE TypedInv'
<1>1. pc[t] = "name" /\ UNCHANGED <<table, disk, disturbed, taken>>
  BY DEF ReadName
<1>2. ThreadsOK'
  <2>1. CASE Ends(t)
    BY <1>1, <2>1, ThreadEnds DEF table
  <2>2. CASE /\ req[t].photo \in DOMAIN photo
             /\ Goes(t, "ref", [req[t] EXCEPT !.file = photo[req[t].photo].file])
    <3>1. PICK f : f = photo[req[t].photo].file
      OBVIOUS
    <3>2. f \in Name
      BY <2>2, <3>1 DEF TypedInv, TypeOK
    <3>3. PICK r : r = [req[t] EXCEPT !.file = f]
      OBVIOUS
    <3>4. r \in RequestType /\ r.item = req[t].item /\ r.parts = req[t].parts
      BY <3>2, <3>3, ThreadTypes DEF RequestType
    <3>5. Goes(t, "ref", r) /\ used' = used
      BY <1>1, <2>2, <3>1, <3>3 DEF table
    <3> QED
      BY <1>1, <3>4, <3>5, ThreadTypes, ThreadGoes DEF Label
  <2> QED
    BY <2>1, <2>2 DEF ReadName
<1> QED
  BY <1>1, <1>2, TableStays, TypedFrom DEF FilesTyped, TypedInv, TypeOK

LEMMA DeletePhotoTyped == ASSUME TypedInv, NEW t \in Thread, DeletePhoto(t) PROVE TypedInv'
<1>1. PICK i \in Item, p \in DOMAIN photo :
      /\ Comes(t, "unlink", Request(i, p, photo[p].file, {}, photo[p].primary), {}, {})
      /\ UNCHANGED <<table, disk, taken>>
  BY DEF DeletePhoto
<1>2. /\ p \in used \cup {Nothing} /\ photo[p].file \in Name \cup {NoName}
      /\ photo[p].file # NoName /\ photo[p].primary \in BOOLEAN /\ UNCHANGED used
  BY <1>1, NamesAre DEF TypedInv, TypeOK, table
<1>3. ThreadsOK' /\ disturbed' \subseteq Item
  BY <1>1, <1>2, ThreadComes DEF Label
<1> QED
  BY <1>1, <1>3, TableStays, TypedFrom DEF FilesTyped, TypedInv, TypeOK

LEMMA UnlinkTyped == ASSUME TypedInv, NEW t \in Thread, Unlink(t) PROVE TypedInv'
<1>1. pc[t] = "unlink" /\ UNCHANGED <<table, disturbed>> /\ disk' = disk \ {req[t].file}
  BY DEF Unlink
<1>2. taken' \subseteq Name
  <2>1. CASE \E p \in DOMAIN photo : photo[p].file = req[t].file
    BY <2>1 DEF Unlink, TypedInv, TypeOK
  <2>2. CASE \E u \in Thread : req[t].file \in req[u].parts
    BY <2>2, ThreadTypes DEF Unlink, TypedInv, TypeOK
  <2> QED
    BY <2>1, <2>2 DEF Unlink, Shared, TypedInv, TypeOK
<1>3. ThreadsOK'
  <2>1. PICK label, r :
          /\ Goes(t, label, r) /\ label \in {"ref", "drop"}
          /\ \/ r = [req[t] EXCEPT !.file = NoName]
             \/ r = req[t]
          /\ label = "drop" => r = req[t]
    BY DEF Unlink
  <2>2. /\ r \in RequestType /\ r.item = req[t].item /\ r.parts = req[t].parts
        /\ label = "drop" => r.file # NoName
    BY <1>1, <2>1, ThreadTypes DEF RequestType
  <2> QED
    BY <1>1, <2>1, <2>2, ThreadTypes, ThreadGoes DEF Label, table
<1> QED
  BY <1>1, <1>2, <1>3, TableStays, TypedFrom DEF FilesTyped, TypedInv, TypeOK

LEMMA DropRowTyped == ASSUME TypedInv, NEW t \in Thread, DropRow(t) PROVE TypedInv'
<1>1. /\ pc[t] = "drop" /\ UNCHANGED <<items, ref, used, disk, disturbed, taken>>
      /\ photo' = [q \in DOMAIN photo \ {req[t].photo} |-> photo[q]]
  BY DEF DropRow
<1>2. TableOK'
  BY <1>1, RowsDropped
<1>3. ThreadsOK'
  <2>1. CASE Ends(t)
    BY <1>1, <2>1, ThreadEnds
  <2>2. CASE Goes(t, "next", [req[t] EXCEPT !.photo = Nothing])
    <3>1. PICK r : r = [req[t] EXCEPT !.photo = Nothing]
      OBVIOUS
    <3>2. r \in RequestType /\ r.item = req[t].item /\ r.parts = req[t].parts
      BY <3>1, ThreadTypes DEF RequestType
    <3> QED
      BY <1>1, <2>2, <3>1, <3>2, ThreadTypes, ThreadGoes DEF Label
  <2> QED
    BY <2>1, <2>2 DEF DropRow
<1> QED
  BY <1>1, <1>2, <1>3, TypedFrom DEF FilesTyped, TypedInv, TypeOK

LEMMA NextPhotoTyped == ASSUME TypedInv, NEW t \in Thread, NextPhoto(t) PROVE TypedInv'
<1>1. pc[t] = "next" /\ UNCHANGED <<table, disk, disturbed, taken>>
  BY DEF NextPhoto
<1>2. ThreadsOK'
  <2>1. CASE Goes(t, "ref", [req[t] EXCEPT !.prim = FALSE, !.file = NoName])
    <3>1. PICK r : r = [req[t] EXCEPT !.prim = FALSE, !.file = NoName]
      OBVIOUS
    <3>2. r \in RequestType /\ r.item = req[t].item /\ r.parts = req[t].parts
      BY <3>1, ThreadTypes DEF RequestType
    <3>3. Goes(t, "ref", r) /\ used' = used
      BY <1>1, <2>1, <3>1 DEF table
    <3> QED
      BY <1>1, <3>2, <3>3, ThreadTypes, ThreadGoes DEF Label
  <2>2. CASE \E p \in Photos(req[t].item) :
               Goes(t, "promote", [req[t] EXCEPT !.prim = FALSE, !.photo = p,
                                                 !.file = photo[p].file])
    <3>1. PICK p \in Photos(req[t].item) :
               Goes(t, "promote", [req[t] EXCEPT !.prim = FALSE, !.photo = p,
                                                 !.file = photo[p].file])
      BY <2>2
    <3>2. PICK f : f = photo[p].file
      OBVIOUS
    <3>3. p \in used \cup {Nothing} /\ f \in Name \cup {NoName}
      BY <3>2 DEF Photos, TypedInv, TypeOK
    <3>4. PICK r : r = [req[t] EXCEPT !.prim = FALSE, !.photo = p, !.file = f]
      OBVIOUS
    <3>5. r \in RequestType /\ r.item = req[t].item /\ r.parts = req[t].parts
      BY <3>3, <3>4, ThreadTypes DEF RequestType
    <3>6. Goes(t, "promote", r) /\ used' = used
      BY <1>1, <3>1, <3>2, <3>4 DEF table
    <3> QED
      BY <1>1, <3>5, <3>6, ThreadTypes, ThreadGoes DEF Label
  <2> QED
    BY <2>1, <2>2 DEF NextPhoto
<1> QED
  BY <1>1, <1>2, TableStays, TypedFrom DEF FilesTyped, TypedInv, TypeOK

LEMMA OldUploadTyped == ASSUME TypedInv, NEW t \in Thread, OldUpload(t) PROVE TypedInv'
<1>1. PICK i \in Item :
      /\ Comes(t, "ref", Request(i, Nothing, <<i, 0>>, {}, FALSE), {i}, {})
      /\ disk' = disk \cup {<<i, 0>>} /\ taken' = taken \ {<<i, 0>>}
      /\ UNCHANGED table
  BY DEF OldUpload
<1>2. <<i, 0>> \in Name
  BY PhotoGalleryAssumption DEF Name
<1>3. UNCHANGED used
  BY <1>1 DEF table
<1>4. ThreadsOK' /\ disturbed' \subseteq Item
  BY <1>1, <1>2, <1>3, ThreadComes DEF Label
<1> QED
  BY <1>1, <1>2, <1>4, TableStays, TypedFrom DEF FilesTyped, TypedInv, TypeOK

LEMMA OldDeleteTyped == ASSUME TypedInv, NEW t \in Thread, OldDelete(t) PROVE TypedInv'
<1>1. PICK i \in Item, label \in {"ref", "unlink"} :
      /\ Comes(t, label, Request(i, Nothing, ref[i], {}, FALSE), {i}, {})
      /\ label = "unlink" => ref[i] # NoName
      /\ UNCHANGED <<table, disk, taken>>
  BY DEF OldDelete
<1>2. ref[i] \in Name \cup {NoName} /\ UNCHANGED used
  BY <1>1 DEF table, TypedInv, TypeOK
<1>3. ThreadsOK' /\ disturbed' \subseteq Item
  BY <1>1, <1>2, ThreadComes DEF Label
<1> QED
  BY <1>1, <1>3, TableStays, TypedFrom DEF FilesTyped, TypedInv, TypeOK

LEMMA PutItemTyped == ASSUME TypedInv, NEW t \in Thread, PutItem(t) PROVE TypedInv'
<1>0. PICK i \in items : \E f \in {ref[i], NoName} :
      /\ Comes(t, "ref", Request(i, Nothing, f, {}, FALSE), IF f = ref[i] THEN {} ELSE {i}, {})
      /\ UNCHANGED <<table, disk, taken>>
  BY DEF PutItem
<1>1. PICK f \in {ref[i], NoName}, upsets \in {{}, {i}} :
      /\ Comes(t, "ref", Request(i, Nothing, f, {}, FALSE), upsets, {})
      /\ UNCHANGED <<table, disk, taken>>
  BY <1>0
<1>2. i \in Item /\ f \in Name \cup {NoName} /\ UNCHANGED used /\ upsets \in SUBSET Item
  BY <1>1 DEF table, TypedInv, TypeOK
<1>3. ThreadsOK' /\ disturbed' \subseteq Item
  BY <1>1, <1>2, ThreadComes DEF Label
<1> QED
  BY <1>1, <1>3, TableStays, TypedFrom DEF FilesTyped, TypedInv, TypeOK

LEMMA DeleteItemTyped == ASSUME TypedInv, DeleteItem PROVE TypedInv'
<1>1. PICK i \in items :
         /\ items' = items \ {i}
         /\ ref'   = [ref EXCEPT ![i] = NoName]
         /\ photo' = [p \in DOMAIN photo \ Photos(i) |-> photo[p]]
  BY DEF DeleteItem
<1>2. UNCHANGED <<used, disk, threads, disturbed, taken>>
  BY DEF DeleteItem
<1>3. DOMAIN photo' = DOMAIN photo \ Photos(i)
      /\ \A p \in DOMAIN photo' : photo'[p] = photo[p] /\ photo[p].item # i
  BY <1>1 DEF Photos
<1>4. \A p \in DOMAIN photo' : photo'[p] \in RowType'
  BY <1>1, <1>3 DEF RowType, TypedInv, TypeOK
<1>5. ref' \in [Item -> Name \cup {NoName}]
  BY <1>1 DEF TypedInv, TypeOK
<1>6. TableOK'
  BY <1>1, <1>2, <1>3, <1>4, <1>5 DEF TypedInv, TypeOK, TableOK
<1> QED
  BY <1>2, <1>6, ThreadsStay, TypedFrom DEF FilesTyped, TypedInv, TypeOK

LEMMA CrashTyped == ASSUME TypedInv, Crash PROVE TypedInv'
<1>1. /\ pc' = [t \in Thread |-> "idle"] /\ req' = [t \in Thread |-> NoRequest]
      /\ disturbed' = disturbed \cup UNION {Busy(t) : t \in {u \in UnderWay : ~Aside(u)}}
      /\ taken' = taken \cup ({req[t].file : t \in {u \in UnderWay : pc[u] = "drop"}} \ disk)
      /\ UNCHANGED <<table, disk>>
  BY DEF Crash
<1>2. ThreadsOK'
  <2>1. PICK r \in RequestType : r = NoRequest
    BY NoRequestIs
  <2>2. RequestType' = RequestType /\ r.parts = {}
    BY <1>1, <2>1, NoRequestIs DEF RequestType, table
  <2>3. \A t \in Thread : req'[t] = r /\ pc'[t] = "idle"
    BY <1>1, <2>1
  <2>4. pc' \in [Thread -> Label] /\ req' \in [Thread -> RequestType']
    BY <1>1, <2>1, <2>2 DEF Label
  <2> QED
    BY <2>2, <2>3, <2>4 DEF ThreadsOK, PlacesOK
<1>3. disturbed' \subseteq Item
  <2>1. ASSUME NEW t \in UnderWay PROVE Busy(t) \subseteq Item
    <3>1. req[t].item \in Item
      BY ThreadTypes DEF UnderWay
    <3> QED
      BY <3>1 DEF Busy, About, TypedInv, TypeOK
  <2>2. disturbed \subseteq Item
    BY DEF TypedInv, TypeOK
  <2> QED
    BY <1>1, <2>1, <2>2
<1>4. taken' \subseteq Name
  <2>1. \A t \in Thread : pc[t] = "drop" => req[t].file \in Name
    BY ThreadTypes
  <2>2. taken \subseteq Name
    BY DEF TypedInv, TypeOK
  <2> QED
    BY <1>1, <2>1, <2>2 DEF UnderWay
<1> QED
  BY <1>1, <1>2, <1>3, <1>4, TableStays, TypedFrom DEF FilesTyped, TypedInv, TypeOK

LEMMA TypedInit == ASSUME Init PROVE TypedInv
<1>1. TableOK
  BY DEF Init, TableOK
<1>2. ThreadsOK
  BY NoRequestIs DEF Init, ThreadsOK, PlacesOK, Label
<1> QED
  BY <1>1, <1>2, TypedParts DEF Init, FilesTyped

LEMMA TypedStep == ASSUME TypedInv, Next PROVE TypedInv'
  BY UploadTyped, WriteFilesTyped, InsertTyped, SetRefTyped, PutPrimaryTyped, SetPrimaryTyped,
     ReadNameTyped, DeletePhotoTyped, UnlinkTyped, DropRowTyped, NextPhotoTyped, OldUploadTyped,
     OldDeleteTyped, PutItemTyped, DeleteItemTyped, CrashTyped
     DEF Next, Step, MakePrimary, Promote

LEMMA TypedStutters == ASSUME TypedInv, UNCHANGED vars PROVE TypedInv'
  BY TableStays, ThreadsStay, TypedFrom DEF vars, table, FilesTyped, TypedInv, TypeOK

\* The variables keep their types: whatever comes between a request's statements, photos are
\* of items there are, and requests and rows have ids that were given.
THEOREM GalleryTypeCorrect == Spec => []TypeOK
<1>1. Init => TypedInv
  BY TypedInit
<1>2. TypedInv /\ [Next]_vars => TypedInv'
  BY TypedStep, TypedStutters
<1>3. TypedInv => TypeOK
  BY DEF TypedInv
<1> QED
  BY <1>1, <1>2, <1>3, PTL DEF Spec

-----------------------------------------------------------------------------
(***************************************************************************)
(* The files: those an upload has written stay until a row has them, and a *)
(* deletion removes the file of the row it drops                           *)
(***************************************************************************)
RequestHasFiles(t) ==
    /\ pc[t] # "write" => req[t].parts \subseteq disk \cup taken
    /\ pc[t] \in {"unlink", "drop"} /\ req[t].photo \in DOMAIN photo =>
         req[t].file = photo[req[t].photo].file

FilesInv == TypedInv /\ PhotosHaveFiles /\ \A t \in Thread : RequestHasFiles(t)

\* A statement that removes no file: rows it does not enter keep their files, the one it
\* enters has one.
LEMMA FilesStep ==
  ASSUME FilesInv, TypedInv', NEW t \in Thread, NEW label, NEW r, Goes(t, label, r),
         disk \cup taken \subseteq disk' \cup taken',
         \A p \in DOMAIN photo' : p \in DOMAIN photo => photo'[p].file = photo[p].file,
         \A p \in DOMAIN photo' : p \notin DOMAIN photo =>
            photo'[p].file \in disk' \cup taken' /\ \A u \in Thread : req[u].photo # p,
         pc[t] = "drop" => req[t].photo \notin DOMAIN photo',
         label # "write" => r.parts \subseteq disk' \cup taken',
         label \in {"unlink", "drop"} /\ r.photo \in DOMAIN photo' => r.file = photo'[r.photo].file
  PROVE  FilesInv'
<1>1. /\ pc'[t] = label /\ req'[t] = r
      /\ \A u \in Thread \ {t} : pc'[u] = pc[u] /\ req'[u] = req[u]
  BY DEF Goes, FilesInv, TypedInv, TypeOK
<1>2. ASSUME NEW p \in DOMAIN photo'
      PROVE  \/ photo'[p].file \in disk' \cup taken'
             \/ \E u \in Thread : pc'[u] = "drop" /\ req'[u].photo = p
  <2>1. CASE p \notin DOMAIN photo
    BY <2>1
  <2>2. CASE p \in DOMAIN photo /\ photo[p].file \in disk \cup taken
    BY <2>2
  <2>3. CASE p \in DOMAIN photo /\ \E u \in Thread : pc[u] = "drop" /\ req[u].photo = p
    BY <1>1, <2>3
  <2> QED
    BY <2>1, <2>2, <2>3 DEF FilesInv, PhotosHaveFiles
<1>3. ASSUME NEW u \in Thread PROVE RequestHasFiles(u)'
  <2>1. CASE u = t
    BY <1>1, <2>1 DEF RequestHasFiles
  <2>2. CASE u # t
    BY <1>1, <2>2 DEF RequestHasFiles, FilesInv
  <2> QED
    BY <2>1, <2>2
<1> QED
  BY <1>2, <1>3 DEF FilesInv, PhotosHaveFiles

\* A statement that changes no row and no file.
LEMMA FilesGo ==
  ASSUME FilesInv, TypedInv', NEW t \in Thread, NEW label, NEW r, Goes(t, label, r),
         UNCHANGED <<photo, disk, taken>>, pc[t] # "drop",
         label # "write" => r.parts \subseteq disk \cup taken,
         label \in {"unlink", "drop"} /\ r.photo \in DOMAIN photo => r.file = photo[r.photo].file
  PROVE  FilesInv'
  BY FilesStep

LEMMA UploadFiles == ASSUME FilesInv, TypedInv', NEW t \in Thread, Upload(t) PROVE FilesInv'
<1>1. PICK r : Goes(t, "write", r) /\ UNCHANGED <<photo, disk, taken>> /\ pc[t] = "idle"
  BY DEF Upload, Comes, table
<1> QED
  BY <1>1, FilesGo

LEMMA WriteFilesFiles ==
  ASSUME FilesInv, TypedInv', NEW t \in Thread, WriteFiles(t) PROVE FilesInv'
<1>1. PICK files \in SUBSET req[t].parts : Written(t, files, files)
  BY DEF WriteFiles
<1>2. disk' = disk \cup files /\ taken' = taken \ files /\ photo' = photo /\ pc[t] = "write"
  BY <1>1 DEF Written, WriteFiles, table
<1>3. CASE Goes(t, "idle", NoRequest)
  BY <1>2, <1>3, NoRequestIs, FilesStep
<1>4. CASE Goes(t, "insert", [req[t] EXCEPT !.parts = files])
  <2>1. PICK r : r = [req[t] EXCEPT !.parts = files]
    OBVIOUS
  <2>2. r.parts = files /\ Goes(t, "insert", r)
    BY <1>4, <2>1, ThreadTypes DEF RequestType, FilesInv
  <2> QED
    BY <1>2, <2>2, FilesStep
<1> QED
  BY <1>1, <1>3, <1>4 DEF Written, Ends

LEMMA InsertFiles == ASSUME FilesInv, TypedInv', NEW t \in Thread, InsertPhoto(t) PROVE FilesInv'
<1>1. PICK f \in req[t].parts, p \in PhotoId \ used, r \in RequestType :
        /\ r.parts = req[t].parts \ {f}
        /\ (IF req[t].item \in items
            THEN /\ used' = used \cup {p}
                 /\ photo' = [q \in DOMAIN photo \cup {p} |->
                                IF q = p THEN PhotoRow(req[t].item, f, req[t].prim)
                                ELSE photo[q]]
            ELSE UNCHANGED <<photo, used>>)
        /\ (IF req[t].prim THEN Goes(t, "ref", r)
            ELSE IF r.parts = {} THEN Ends(t) ELSE Goes(t, "insert", r))
  BY InsertIs DEF FilesInv
<1>2. pc[t] = "insert" /\ UNCHANGED <<disk, taken>>
  BY InsertIs DEF FilesInv
<1>3. req[t].parts \subseteq disk \cup taken
  BY <1>2 DEF FilesInv, RequestHasFiles
<1>4. p \notin DOMAIN photo /\ \A u \in Thread : req[u].photo # p
  BY <1>1, ThreadTypes, PhotoGalleryAssumption DEF FilesInv, TypedInv, TypeOK
<1>5. /\ \A q \in DOMAIN photo' : q \in DOMAIN photo => photo'[q].file = photo[q].file
      /\ \A q \in DOMAIN photo' : q \notin DOMAIN photo => q = p /\ photo'[q].file = f
  <2>1. CASE req[t].item \in items
    BY <1>1, <1>4, <2>1 DEF PhotoRow
  <2>2. CASE req[t].item \notin items
    BY <1>1, <2>2
  <2> QED
    BY <2>1, <2>2
<1>6. PICK label, s :
         Goes(t, label, s) /\ label \in {"ref", "insert", "idle"} /\ s.parts \subseteq disk \cup taken
  BY <1>1, <1>3, NoRequestIs DEF Ends
<1> QED
  BY <1>2, <1>3, <1>4, <1>5, <1>6, FilesStep

LEMMA SetRefFiles == ASSUME FilesInv, TypedInv', NEW t \in Thread, SetRef(t) PROVE FilesInv'
<1>1. pc[t] = "ref" /\ UNCHANGED <<photo, disk, taken>>
  BY DEF SetRef
<1>2. CASE Goes(t, "idle", NoRequest)
  BY <1>1, <1>2, NoRequestIs, FilesGo
<1>3. CASE Goes(t, "insert", [req[t] EXCEPT !.file = NoName])
  <2>1. PICK r : r = [req[t] EXCEPT !.file = NoName]
    OBVIOUS
  <2>2. r.parts = req[t].parts /\ Goes(t, "insert", r)
    BY <1>3, <2>1, ThreadTypes DEF RequestType, FilesInv
  <2>3. r.parts \subseteq disk \cup taken
    BY <1>1, <2>2 DEF FilesInv, RequestHasFiles
  <2> QED
    BY <1>1, <2>2, <2>3, FilesGo
<1> QED
  BY <1>2, <1>3 DEF SetRef, Ends

\* Marks leave the files of rows as they are.
LEMMA FilesOfMarked ==
  ASSUME TypedInv, NEW S, NEW b,
         photo' = [q \in DOMAIN photo |->
                     IF q \in S THEN [photo[q] EXCEPT !.primary = b] ELSE photo[q]]
  PROVE  /\ DOMAIN photo' = DOMAIN photo
         /\ \A q \in DOMAIN photo : photo'[q].file = photo[q].file /\ photo'[q].item = photo[q].item
  BY DEF TypedInv, TypeOK

LEMMA PutPrimaryFiles ==
  ASSUME FilesInv, TypedInv', NEW t \in Thread, PutPrimary(t) PROVE FilesInv'
<1>1. PICK i \in Item, p \in used :
      /\ Comes(t, "set", Request(i, p, NoName, {}, FALSE), {}, {i})
      /\ photo' = [q \in DOMAIN photo |->
                     IF q \in Photos(i) THEN [photo[q] EXCEPT !.primary = FALSE] ELSE photo[q]]
      /\ UNCHANGED <<disk, taken>>
  BY DEF PutPrimary
<1>2. PICK r : r = Request(i, p, NoName, {}, FALSE)
  OBVIOUS
<1>3. Goes(t, "set", r) /\ pc[t] = "idle"
  BY <1>1, <1>2 DEF Comes
<1>5. r.parts = {}
  BY <1>2 DEF Request
<1>4. /\ DOMAIN photo' = DOMAIN photo
      /\ \A q \in DOMAIN photo : photo'[q].file = photo[q].file
  BY <1>1, FilesOfMarked DEF FilesInv
<1> QED
  BY <1>1, <1>3, <1>4, <1>5, FilesStep

LEMMA SetPrimaryFiles ==
  ASSUME FilesInv, TypedInv', NEW t \in Thread, NEW label \in {"name", "ref"},
         pc[t] \in {"set", "promote"}, SetPrimary(t, label)
  PROVE  FilesInv'
<1>1. PICK S : S = {req[t].photo}
  OBVIOUS
<1>2. photo' = [q \in DOMAIN photo |->
                  IF q \in S THEN [photo[q] EXCEPT !.primary = TRUE] ELSE photo[q]]
  BY <1>1 DEF SetPrimary
<1>3. UNCHANGED <<disk, taken>> /\ Goes(t, label, req[t])
  BY DEF SetPrimary
<1>4. /\ DOMAIN photo' = DOMAIN photo
      /\ \A q \in DOMAIN photo : photo'[q].file = photo[q].file
  BY <1>2, FilesOfMarked DEF FilesInv
<1>5. req[t].parts = {}
  BY ThreadTypes DEF FilesInv
<1> QED
  BY <1>3, <1>4, <1>5, FilesStep

LEMMA ReadNameFiles == ASSUME FilesInv, TypedInv', NEW t \in Thread, ReadName(t) PROVE FilesInv'
<1>1. pc[t] = "name" /\ UNCHANGED <<photo, disk, taken>> /\ req[t].parts = {}
  BY ThreadTypes DEF ReadName, FilesInv, table
<1>2. CASE Goes(t, "idle", NoRequest)
  BY <1>1, <1>2, NoRequestIs, FilesGo
<1>3. CASE Goes(t, "ref", [req[t] EXCEPT !.file = photo[req[t].photo].file])
  <2>1. PICK r : r = [req[t] EXCEPT !.file = photo[req[t].photo].file]
    OBVIOUS
  <2>2. r.parts = {} /\ Goes(t, "ref", r)
    BY <1>1, <1>3, <2>1, ThreadTypes DEF RequestType, FilesInv
  <2> QED
    BY <1>1, <2>2, FilesGo
<1> QED
  BY <1>2, <1>3 DEF ReadName, Ends

LEMMA DeletePhotoFiles ==
  ASSUME FilesInv, TypedInv', NEW t \in Thread, DeletePhoto(t) PROVE FilesInv'
<1>1. PICK i \in Item, p \in DOMAIN photo :
      /\ Comes(t, "unlink", Request(i, p, photo[p].file, {}, photo[p].primary), {}, {})
      /\ UNCHANGED <<table, disk, taken>>
  BY DEF DeletePhoto
<1>2. PICK r : r = Request(i, p, photo[p].file, {}, photo[p].primary)
  OBVIOUS
<1>3. r.parts = {} /\ r.photo = p /\ r.file = photo[p].file
  BY <1>2, RequestIs
<1>4. Goes(t, "unlink", r) /\ pc[t] = "idle" /\ UNCHANGED <<photo, disk, taken>>
  BY <1>1, <1>2 DEF Comes, table
<1> QED
  BY <1>3, <1>4, FilesGo

\* The file of another photo is in taken when it is removed, and that of the photo itself has
\* the request now about to drop it.
LEMMA UnlinkFiles == ASSUME FilesInv, TypedInv', NEW t \in Thread, Unlink(t) PROVE FilesInv'
<1>1. /\ pc[t] = "unlink" /\ UNCHANGED photo /\ disk' = disk \ {req[t].file}
      /\ taken' = (IF Shared(t) THEN taken \cup {req[t].file} ELSE taken)
  BY DEF Unlink, table
<1>2. PICK label, r :
        /\ Goes(t, label, r) /\ label \in {"ref", "drop"} /\ r.parts = {} /\ r.photo = req[t].photo
        /\ label = "drop" => r.file = req[t].file
        /\ req[t].photo # Nothing => label = "drop"
  <2>1. req[t].parts = {}
    BY <1>1, ThreadTypes DEF FilesInv
  <2>2. CASE Goes(t, "drop", req[t])
    BY <2>1, <2>2
  <2>3. CASE req[t].photo = Nothing /\ Goes(t, "ref", [req[t] EXCEPT !.file = NoName])
    <3>1. PICK r : r = [req[t] EXCEPT !.file = NoName]
      OBVIOUS
    <3>2. r.parts = {} /\ r.photo = req[t].photo /\ Goes(t, "ref", r)
      BY <2>1, <2>3, <3>1, ThreadTypes DEF RequestType, FilesInv
    <3> QED
      BY <2>3, <3>2
  <2> QED
    BY <2>2, <2>3 DEF Unlink
<1>3. /\ pc'[t] = label /\ req'[t] = r
      /\ \A u \in Thread \ {t} : pc'[u] = pc[u] /\ req'[u] = req[u]
  BY <1>2 DEF Goes, FilesInv, TypedInv, TypeOK
<1>4. ASSUME NEW p \in DOMAIN photo
      PROVE  \/ photo[p].file \in disk' \cup taken'
             \/ \E u \in Thread : pc'[u] = "drop" /\ req'[u].photo = p
  <2>0. p # Nothing
    BY PhotoGalleryAssumption DEF FilesInv, TypedInv, TypeOK
  <2>1. CASE photo[p].file = req[t].file /\ p = req[t].photo
    BY <1>2, <1>3, <2>0, <2>1
  <2>2. CASE photo[p].file = req[t].file /\ p # req[t].photo
    BY <1>1, <2>2 DEF Shared
  <2>3. CASE photo[p].file # req[t].file /\ photo[p].file \in disk \cup taken
    BY <1>1, <2>3
  <2>4. CASE \E u \in Thread : pc[u] = "drop" /\ req[u].photo = p
    BY <1>1, <1>3, <2>4
  <2> QED
    BY <2>1, <2>2, <2>3, <2>4 DEF FilesInv, PhotosHaveFiles
<1>5. ASSUME NEW u \in Thread PROVE RequestHasFiles(u)'
  <2>1. CASE u = t
    BY <1>1, <1>2, <1>3, <2>1 DEF RequestHasFiles, FilesInv
  <2>2. CASE u # t
    <3>1. pc[u] # "write" => req[u].parts \subseteq disk' \cup taken'
      BY <1>1 DEF Shared, RequestHasFiles, FilesInv
    <3> QED
      BY <1>1, <1>3, <2>2, <3>1 DEF RequestHasFiles, FilesInv
  <2> QED
    BY <2>1, <2>2
<1> QED
  BY <1>1, <1>4, <1>5 DEF FilesInv, PhotosHaveFiles

LEMMA DropRowFiles == ASSUME FilesInv, TypedInv', NEW t \in Thread, DropRow(t) PROVE FilesInv'
<1>1. pc[t] = "drop" /\ UNCHANGED <<disk, taken>> /\ req[t].parts = {}
  BY ThreadTypes DEF DropRow, FilesInv
<1>2. DOMAIN photo' = DOMAIN photo \ {req[t].photo} /\ \A p \in DOMAIN photo' : photo'[p] = photo[p]
  BY DEF DropRow
<1>3. CASE Goes(t, "idle", NoRequest)
  BY <1>1, <1>2, <1>3, NoRequestIs, FilesStep
<1>4. CASE Goes(t, "next", [req[t] EXCEPT !.photo = Nothing])
  <2>1. PICK r : r = [req[t] EXCEPT !.photo = Nothing]
    OBVIOUS
  <2>2. r.parts = {} /\ Goes(t, "next", r)
    BY <1>1, <1>4, <2>1, ThreadTypes DEF RequestType, FilesInv
  <2> QED
    BY <1>1, <1>2, <2>2, FilesStep
<1> QED
  BY <1>3, <1>4 DEF DropRow, Ends

LEMMA NextPhotoFiles ==
  ASSUME FilesInv, TypedInv', NEW t \in Thread, NextPhoto(t) PROVE FilesInv'
<1>1. pc[t] = "next" /\ UNCHANGED <<photo, disk, taken>> /\ req[t].parts = {}
  BY ThreadTypes DEF NextPhoto, FilesInv, table
<1>2. PICK label, p, f, r :
        /\ Goes(t, label, r) /\ label \in {"ref", "promote"}
        /\ \/ r = [req[t] EXCEPT !.prim = FALSE, !.file = f]
           \/ r = [req[t] EXCEPT !.prim = FALSE, !.photo = p, !.file = f]
  BY DEF NextPhoto
<1>3. r.parts = {}
  BY <1>1, <1>2, ThreadTypes DEF RequestType, FilesInv
<1> QED
  BY <1>1, <1>2, <1>3, FilesGo

LEMMA OldUploadFiles ==
  ASSUME FilesInv, TypedInv', NEW t \in Thread, OldUpload(t) PROVE FilesInv'
<1>1. PICK i \in Item :
      /\ Comes(t, "ref", Request(i, Nothing, <<i, 0>>, {}, FALSE), {i}, {})
      /\ disk' = disk \cup {<<i, 0>>} /\ taken' = taken \ {<<i, 0>>}
      /\ UNCHANGED table
  BY DEF OldUpload
<1>2. PICK r : r = Request(i, Nothing, <<i, 0>>, {}, FALSE)
  OBVIOUS
<1>3. Goes(t, "ref", r) /\ pc[t] = "idle" /\ photo' = photo
  BY <1>1, <1>2 DEF Comes, table
<1>4. r.parts = {}
  BY <1>2 DEF Request
<1> QED
  BY <1>1, <1>3, <1>4, FilesStep

LEMMA OldDeleteFiles ==
  ASSUME FilesInv, TypedInv', NEW t \in Thread, OldDelete(t) PROVE FilesInv'
<1>1. PICK i \in Item, label \in {"ref", "unlink"} :
      /\ Comes(t, label, Request(i, Nothing, ref[i], {}, FALSE), {i}, {})
      /\ UNCHANGED <<table, disk, taken>>
  BY DEF OldDelete
<1>2. PICK r : r = Request(i, Nothing, ref[i], {}, FALSE)
  OBVIOUS
<1>3. Goes(t, label, r) /\ pc[t] = "idle" /\ UNCHANGED <<photo, disk, taken>>
  BY <1>1, <1>2 DEF Comes, table
<1>4. r.parts = {} /\ r.photo = Nothing
  BY <1>2 DEF Request
<1>5. Nothing \notin DOMAIN photo
  BY PhotoGalleryAssumption DEF FilesInv, TypedInv, TypeOK
<1> QED
  BY <1>3, <1>4, <1>5, FilesGo

LEMMA PutItemFiles == ASSUME FilesInv, TypedInv', NEW t \in Thread, PutItem(t) PROVE FilesInv'
<1>1. PICK i, f, upsets :
      /\ Comes(t, "ref", Request(i, Nothing, f, {}, FALSE), upsets, {})
      /\ UNCHANGED <<table, disk, taken>>
  BY DEF PutItem
<1>2. PICK r : r = Request(i, Nothing, f, {}, FALSE)
  OBVIOUS
<1>3. Goes(t, "ref", r) /\ pc[t] = "idle" /\ UNCHANGED <<photo, disk, taken>>
  BY <1>1, <1>2 DEF Comes, table
<1>4. r.parts = {}
  BY <1>2 DEF Request
<1> QED
  BY <1>3, <1>4, FilesGo

LEMMA DeleteItemFiles == ASSUME FilesInv, TypedInv', DeleteItem PROVE FilesInv'
<1>1. /\ UNCHANGED <<pc, req, disk, taken>>
      /\ \E S : photo' = [p \in DOMAIN photo \ S |-> photo[p]]
  BY DEF DeleteItem, threads
<1>2. DOMAIN photo' \subseteq DOMAIN photo /\ \A p \in DOMAIN photo' : photo'[p] = photo[p]
  BY <1>1
<1> QED
  BY <1>1, <1>2 DEF FilesInv, PhotosHaveFiles, RequestHasFiles

\* The row a deletion was about to drop stays, without its file.
LEMMA CrashFiles == ASSUME FilesInv, TypedInv', Crash PROVE FilesInv'
<1>1. /\ pc' = [t \in Thread |-> "idle"] /\ req' = [t \in Thread |-> NoRequest]
      /\ taken' = taken \cup ({req[t].file : t \in {u \in UnderWay : pc[u] = "drop"}} \ disk)
      /\ UNCHANGED <<photo, disk>>
  BY DEF Crash, table
<1>2. ASSUME NEW p \in DOMAIN photo PROVE photo[p].file \in disk \cup taken'
  <2>1. CASE photo[p].file \in disk \cup taken
    BY <1>1, <2>1
  <2>2. ASSUME NEW t \in Thread, pc[t] = "drop", req[t].photo = p
        PROVE  photo[p].file \in disk \cup taken'
    <3>1. req[t].file = photo[p].file /\ t \in UnderWay
      BY <2>2 DEF FilesInv, RequestHasFiles, UnderWay
    <3> QED
      BY <1>1, <2>2, <3>1
  <2> QED
    BY <2>1, <2>2 DEF FilesInv, PhotosHaveFiles
<1>3. \A t \in Thread : pc'[t] = "idle" /\ req'[t].parts = {}
  BY <1>1, NoRequestIs
<1> QED
  BY <1>1, <1>2, <1>3 DEF FilesInv, PhotosHaveFiles, RequestHasFiles

LEMMA FilesInit == ASSUME Init PROVE FilesInv
<1>1. DOMAIN photo = {} /\ \A t \in Thread : pc[t] = "idle" /\ req[t].parts = {}
  BY NoRequestIs DEF Init
<1> QED
  BY <1>1, TypedInit DEF FilesInv, PhotosHaveFiles, RequestHasFiles

LEMMA FilesNext == ASSUME FilesInv, Next PROVE FilesInv'
<1>1. TypedInv'
  BY TypedStep DEF FilesInv
<1> QED
  BY <1>1, UploadFiles, WriteFilesFiles, InsertFiles, SetRefFiles, PutPrimaryFiles, SetPrimaryFiles,
     ReadNameFiles, DeletePhotoFiles, UnlinkFiles, DropRowFiles, NextPhotoFiles, OldUploadFiles,
     OldDeleteFiles, PutItemFiles, DeleteItemFiles, CrashFiles
     DEF Next, Step, MakePrimary, Promote

LEMMA FilesStutter == ASSUME FilesInv, UNCHANGED vars PROVE FilesInv'
<1>1. TypedInv' /\ UNCHANGED <<photo, disk, pc, req, taken>>
  BY TypedStutters DEF FilesInv, vars, table, threads
<1> QED
  BY <1>1 DEF FilesInv, PhotosHaveFiles, RequestHasFiles

\* Every photo's file is there until the photo's own deletion removes it, unless another
\* request removed it for a photo of the same name or a crash cut its deletion: whatever
\* requests of whatever threads come in between.
THEOREM PhotosKeepTheirFiles == Spec => []PhotosHaveFiles
<1>1. Init => FilesInv
  BY FilesInit
<1>2. FilesInv /\ [Next]_vars => FilesInv'
  BY FilesNext, FilesStutter
<1>3. FilesInv => PhotosHaveFiles
  BY DEF FilesInv
<1> QED
  BY <1>1, <1>2, <1>3, PTL DEF Spec

-----------------------------------------------------------------------------
(***************************************************************************)
(* The primary photo: where an item is not disturbed, the requests about   *)
(* it are its own.  One that is not aside is the only one, and what it has *)
(* found and is still to do is told by its next statement; with only those *)
(* aside the item is as it should be.                                      *)
(***************************************************************************)
At(t, i) == pc[t] # "idle" /\ i \in Busy(t)

\* The item is as it should be once photo_ref names the file.
Settles(i, file) ==
    \/ file = NoName /\ Photos(i) = {}
    \/ \E p \in Photos(i) : Primaries(i) = {p} /\ photo[p].file = file

Settled(i) == Settles(i, ref[i])

Main(label, r, i) ==
    /\ label \in {"write", "insert"} => Settled(i) /\ Photos(i) = {}
    /\ label = "ref" => Settles(i, r.file) /\ (r.parts # {} => ~r.prim /\ r.file # NoName)
    /\ label = "set" => Primaries(i) = {} /\ r.photo \in Photos(i)
    /\ label = "name" => Primaries(i) = {r.photo}
    /\ label \in {"unlink", "drop"} =>
         Settled(i) /\ r.photo \in Photos(i) /\ photo[r.photo].primary
    /\ label \in {"next", "promote"} => Primaries(i) = {}
    /\ label = "promote" => r.photo \in Photos(i) /\ r.file = photo[r.photo].file

Beside(label, r, i) ==
    /\ label \in {"write", "insert"} => Photos(i) # {}
    /\ label \in {"unlink", "drop"} => r.photo \notin Primaries(i)

Own(t, i) == req[t].item = i /\ (req[t].photo \in DOMAIN photo => req[t].photo \in Photos(i))

PrimaryOK(i) ==
    /\ \A t \in Thread : At(t, i) => Own(t, i)
    /\ \A t \in Thread : At(t, i) /\ ~Aside(t) =>
         Main(pc[t], req[t], i) /\ \A u \in Thread : At(u, i) => u = t
    /\ (\A t \in Thread : At(t, i) => Aside(t)) =>
         Settled(i) /\ \A t \in Thread : At(t, i) => Beside(pc[t], req[t], i)

PrimaryInv == TypedInv /\ \A i \in items \ disturbed : PrimaryOK(i)

LEMMA AtIs ==
  ASSUME NEW t, NEW i
  PROVE  At(t, i) <=> pc[t] # "idle" /\ (req[t].item = i \/ req[t].photo \in Photos(i))
  BY DEF At, Busy, About, Photos

LEMMA AtAfter ==
  ASSUME NEW t, NEW i
  PROVE  At(t, i)' <=> pc'[t] # "idle" /\ (req'[t].item = i \/ req'[t].photo \in Photos(i)')
  BY DEF At, Busy, About, Photos

(***************************************************************************)
(* A step changes one thread, and no row's item; a row it enters is of no  *)
(* request.                                                                *)
(***************************************************************************)
RowsKeep ==
    \A p \in DOMAIN photo' :
      \/ p \in DOMAIN photo /\ photo'[p].item = photo[p].item
      \/ p \notin DOMAIN photo /\ \A u \in Thread : req[u].photo # p

OthersKeep(t) == \A u \in Thread \ {t} : pc'[u] = pc[u] /\ req'[u] = req[u]

SameRows(i) ==
    /\ Photos(i)' = Photos(i) /\ ref'[i] = ref[i]
    /\ \A p \in Photos(i) : photo'[p] = photo[p]

LEMMA OthersAt ==
  ASSUME NEW t \in Thread, NEW i, PrimaryOK(i), RowsKeep, OthersKeep(t),
         NEW u \in Thread \ {t}
  PROVE  /\ At(u, i)' <=> At(u, i)
         /\ At(u, i) => Own(u, i)'
         /\ Aside(u)' <=> Aside(u)
<1>1. pc'[u] = pc[u] /\ req'[u] = req[u]
  BY DEF OthersKeep
<1>2. req[u].photo \in Photos(i)' => req[u].photo \in Photos(i)
  BY DEF RowsKeep, Photos
<1>3. At(u, i) => Own(u, i)
  BY DEF PrimaryOK
<1>4. At(u, i)' => At(u, i)
  BY <1>1, <1>2, AtIs, AtAfter
<1>5. At(u, i) => At(u, i)'
  BY <1>1, <1>3, AtIs, AtAfter DEF Own
<1>6. At(u, i) => Own(u, i)'
  BY <1>1, <1>3 DEF Own, RowsKeep, Photos
<1>7. Aside(u)' <=> Aside(u)
  BY <1>1 DEF Aside, Spares
<1> QED
  BY <1>4, <1>5, <1>6, <1>7

\* What is known of the item stays with its rows.
LEMMA SameItem ==
  ASSUME NEW i, SameRows(i), NEW label, NEW r
  PROVE  /\ Primaries(i)' = Primaries(i)
         /\ \A f : Settles(i, f)' <=> Settles(i, f)
         /\ Settled(i)' <=> Settled(i)
         /\ Main(label, r, i) => Main(label, r, i)'
         /\ Beside(label, r, i) => Beside(label, r, i)'
<1>1. Primaries(i)' = Primaries(i)
  BY DEF Primaries, SameRows
<1>2. ASSUME NEW f PROVE Settles(i, f)' <=> Settles(i, f)
  BY <1>1 DEF Settles, SameRows
<1>3. Settled(i)' <=> Settled(i)
  BY <1>2 DEF Settled, SameRows
<1>4. Main(label, r, i) => Main(label, r, i)'
  <2>1. r.photo \in Photos(i) => photo'[r.photo] = photo[r.photo]
    BY DEF SameRows
  <2> QED
    BY <1>1, <1>2, <1>3, <2>1 DEF Main, SameRows
<1>5. Beside(label, r, i) => Beside(label, r, i)'
  BY <1>1 DEF Beside, SameRows
<1> QED
  BY <1>1, <1>2, <1>3, <1>4, <1>5

\* A thread steps that is not about the item.
LEMMA ElsewhereKeeps ==
  ASSUME NEW t \in Thread, NEW i, PrimaryOK(i), RowsKeep, OthersKeep(t), SameRows(i),
         ~At(t, i), ~At(t, i)'
  PROVE  PrimaryOK(i)'
<1>1. \A u \in Thread : At(u, i)' <=> At(u, i)
  BY OthersAt
<1>2. ASSUME NEW u \in Thread, At(u, i)
      PROVE  /\ u # t /\ Own(u, i)' /\ (Aside(u)' <=> Aside(u))
             /\ Main(pc[u], req[u], i) => Main(pc[u], req[u], i)'
             /\ Beside(pc[u], req[u], i) => Beside(pc[u], req[u], i)'
             /\ pc'[u] = pc[u] /\ req'[u] = req[u]
  <2>1. u # t
    BY <1>2
  <2>2. Own(u, i)' /\ (Aside(u)' <=> Aside(u))
    BY <1>2, <2>1, OthersAt
  <2>3. PICK label, r : label = pc[u] /\ r = req[u]
    OBVIOUS
  <2>4. pc'[u] = pc[u] /\ req'[u] = req[u]
    BY <2>1 DEF OthersKeep
  <2>5. /\ Main(label, r, i) => Main(label, r, i)'
        /\ Beside(label, r, i) => Beside(label, r, i)'
    BY SameItem
  <2>6. /\ Main(pc[u], req[u], i)' <=> Main(label, r, i)'
        /\ Beside(pc[u], req[u], i)' <=> Beside(label, r, i)'
    BY <2>3, <2>4 DEF Main, Beside
  <2> QED
    BY <2>1, <2>2, <2>3, <2>4, <2>5, <2>6
<1>3. \A u \in Thread : At(u, i)' => Own(u, i)'
  BY <1>1, <1>2
<1>4. \A u \in Thread : At(u, i)' /\ ~Aside(u)' =>
         Main(pc[u], req[u], i)' /\ \A v \in Thread : At(v, i)' => v = u
  BY <1>1, <1>2 DEF PrimaryOK
<1>5. (\A u \in Thread : At(u, i)' => Aside(u)') =>
         Settled(i)' /\ \A u \in Thread : At(u, i)' => Beside(pc[u], req[u], i)'
  BY <1>1, <1>2, SameItem DEF PrimaryOK
<1> QED
  BY <1>3, <1>4, <1>5 DEF PrimaryOK

LEMMA GoesIs ==
  ASSUME TypedInv, NEW t \in Thread, NEW label, NEW r, Goes(t, label, r)
  PROVE  pc'[t] = label /\ req'[t] = r /\ OthersKeep(t)
  BY DEF Goes, OthersKeep, TypedInv, TypeOK

\* The one request that may change the item's primary steps.
LEMMA MainKeeps ==
  ASSUME TypedInv, NEW t \in Thread, NEW i, PrimaryOK(i), RowsKeep,
         NEW label, NEW r, Goes(t, label, r), At(t, i), ~Aside(t),
         label # "idle" => r.item = i /\ (r.photo \in DOMAIN photo' => r.photo \in Photos(i)'),
         label = "idle" => Settled(i)' /\ r.item \notin Item /\ r.photo \notin Photos(i)',
         label # "idle" /\ ~Spares(label, r) => Main(label, r, i)',
         label # "idle" /\ Spares(label, r) => Settled(i)' /\ Beside(label, r, i)'
  PROVE  PrimaryOK(i)'
<1>1. pc'[t] = label /\ req'[t] = r /\ OthersKeep(t)
  BY GoesIs
<1>2. \A u \in Thread : At(u, i) => u = t
  BY DEF PrimaryOK
<1>3. \A u \in Thread : At(u, i)' => u = t
  BY <1>1, <1>2, OthersAt
<1>4. At(t, i)' <=> label # "idle"
  BY <1>1, AtAfter
<1>5. label # "idle" => Own(t, i)'
  BY <1>1 DEF Own
<1>6. Aside(t)' <=> Spares(label, r)
  BY <1>1 DEF Aside, Spares
<1>7. /\ Main(pc[t], req[t], i)' <=> Main(label, r, i)'
      /\ Beside(pc[t], req[t], i)' <=> Beside(label, r, i)'
  BY <1>1 DEF Main, Beside
<1>8. \A u \in Thread : At(u, i)' => Own(u, i)'
  BY <1>3, <1>4, <1>5
<1>9. \A u \in Thread : At(u, i)' /\ ~Aside(u)' =>
         Main(pc[u], req[u], i)' /\ \A v \in Thread : At(v, i)' => v = u
  BY <1>3, <1>4, <1>6, <1>7
<1>10. (\A u \in Thread : At(u, i)' => Aside(u)') =>
         Settled(i)' /\ \A u \in Thread : At(u, i)' => Beside(pc[u], req[u], i)'
  BY <1>3, <1>4, <1>6, <1>7
<1> QED
  BY <1>8, <1>9, <1>10 DEF PrimaryOK

\* A request that leaves the primary alone steps: all the others about the item do as well.
LEMMA AsideKeeps ==
  ASSUME TypedInv, NEW t \in Thread, NEW i, PrimaryOK(i), RowsKeep,
         NEW label, NEW r, Goes(t, label, r), At(t, i), Aside(t),
         label # "idle" => /\ Spares(label, r) /\ Beside(label, r, i)' /\ r.item = i
                           /\ r.photo \in DOMAIN photo' => r.photo \in Photos(i)',
         Settled(i)', Photos(i) # {} => Photos(i)' # {}, Primaries(i)' \subseteq Primaries(i)
  PROVE  PrimaryOK(i)'
<1>1. pc'[t] = label /\ req'[t] = r /\ OthersKeep(t)
  BY GoesIs
<1>2. \A u \in Thread : At(u, i) => Aside(u)
  BY DEF PrimaryOK
<1>3. \A u \in Thread : At(u, i) => Own(u, i) /\ Beside(pc[u], req[u], i)
  BY <1>2 DEF PrimaryOK
<1>4. ASSUME NEW u \in Thread \ {t}, At(u, i)'
      PROVE  Own(u, i)' /\ Aside(u)' /\ Beside(pc[u], req[u], i)'
  <2>1. At(u, i) /\ Own(u, i)' /\ Aside(u)'
    BY <1>1, <1>2, <1>4, OthersAt
  <2>2. Beside(pc[u], req[u], i) /\ pc'[u] = pc[u] /\ req'[u] = req[u]
    BY <1>1, <1>3, <2>1 DEF OthersKeep
  <2>3. Beside(pc[u], req[u], i)'
    BY <2>2 DEF Beside
  <2> QED
    BY <2>1, <2>3
<1>5. ASSUME At(t, i)' PROVE Own(t, i)' /\ Aside(t)' /\ Beside(pc[t], req[t], i)'
  <2>1. label # "idle"
    BY <1>1, <1>5, AtAfter
  <2>2. Own(t, i)'
    BY <1>1, <2>1 DEF Own
  <2>3. Aside(t)'
    BY <1>1, <2>1 DEF Aside, Spares
  <2>4. Beside(pc[t], req[t], i)'
    BY <1>1, <2>1 DEF Beside
  <2> QED
    BY <2>2, <2>3, <2>4
<1>6. \A u \in Thread : At(u, i)' => Own(u, i)' /\ Aside(u)' /\ Beside(pc[u], req[u], i)'
  BY <1>4, <1>5
<1> QED
  BY <1>6 DEF PrimaryOK

\* A request comes in: it disturbs the item, or only requests aside are about the item
\* when it is aside itself, and none when it is not.
LEMMA ComesKeeps ==
  ASSUME TypedInv, NEW t \in Thread, NEW label \in Label \ {"idle"}, NEW r, NEW k \in Item, r.item = k,
         NEW upsets, NEW rights \in SUBSET {k}, Comes(t, label, r, upsets, rights),
         UNCHANGED items, \A j : Photos(j)' = Photos(j), RowsKeep,
         \A i \in items \ disturbed : PrimaryOK(i),
         \A i \in items \ {k} : SameRows(i),
         Spares(label, r) => rights = {} /\ SameRows(k),
         (/\ k \in items
          /\ r.photo # Nothing => r.photo \in Photos(k)
          /\ k \notin rights => Settled(k) /\ k \notin upsets)
           => /\ Spares(label, r) => Beside(label, r, k)
              /\ ~Spares(label, r) => Main(label, r, k)'
  PROVE  \A i \in items' \ disturbed' : PrimaryOK(i)'
<1> SUFFICES ASSUME NEW i \in items' \ disturbed' PROVE PrimaryOK(i)'
  OBVIOUS
<1>1. /\ Goes(t, label, r) /\ pc[t] = "idle" /\ i \notin Disturbs(label, r)
      /\ i \notin rights => i \notin disturbed /\ i \notin upsets
  BY DEF Comes
<1>2. pc'[t] = label /\ req'[t] = r /\ OthersKeep(t) /\ i \in items
  BY <1>1, GoesIs
<1>3. ~At(t, i)
  BY <1>1, AtIs
<1>4. CASE i \notin About(r.item, r.photo)
  <2>1. i # r.item /\ r.photo \notin Photos(i)
    BY <1>4 DEF About, Photos
  <2>2. PrimaryOK(i) /\ SameRows(i) /\ ~At(t, i)'
    BY <1>1, <1>2, <2>1, AtAfter
  <2> QED
    BY <1>2, <1>3, <2>2, ElsewhereKeeps
<1>5. CASE i \in About(r.item, r.photo)
  <2>1. /\ r.photo # Nothing => r.photo \in Photos(r.item)
        /\ \A u \in UnderWay : Busy(u) \cap About(r.item, r.photo) # {} =>
             Spares(label, r) /\ Aside(u)
    BY <1>1, <1>5 DEF Disturbs
  <2>2. Nothing \notin DOMAIN photo
    BY PhotoGalleryAssumption DEF TypedInv, TypeOK
  <2>3. i = r.item /\ i = k
    BY <1>5, <2>1, <2>2 DEF About, Photos
  <2>4. \A u \in Thread : At(u, i) => Spares(label, r) /\ Aside(u)
    BY <1>5, <2>1 DEF At, UnderWay
  <2>5. \A u \in Thread \ {t} : At(u, i)' <=> At(u, i)
    BY <1>2, AtIs, AtAfter DEF OthersKeep
  <2>6. At(t, i)' /\ (Aside(t)' <=> Spares(label, r))
    BY <1>2, <2>3, AtAfter DEF Aside, Spares
  <2>7. /\ Main(pc[t], req[t], i)' <=> Main(label, r, i)'
        /\ Beside(pc[t], req[t], i)' <=> Beside(label, r, i)'
    BY <1>2 DEF Main, Beside
  <2>8. Own(t, i)'
    <3>1. r.photo \in DOMAIN photo' => r.photo \in Photos(i)'
      <4>1. r.photo \in DOMAIN photo' => r.photo \in DOMAIN photo
        BY DEF Photos
      <4> QED
        BY <2>1, <2>2, <2>3, <4>1
    <3> QED
      BY <1>2, <2>3, <3>1 DEF Own
  <2>9. CASE ~Spares(label, r)
    <3>1. \A u \in Thread : ~At(u, i)
      BY <2>4, <2>9
    <3>2. i \notin rights => Settled(i)
      BY <1>1, <1>2, <3>1 DEF PrimaryOK
    <3>3. Main(label, r, i)'
      <4>1. k \in items /\ (r.photo # Nothing => r.photo \in Photos(k))
        BY <1>2, <2>1, <2>3
      <4>2. k \notin rights => Settled(k) /\ k \notin upsets
        BY <1>1, <2>3, <3>2
      <4>3. Main(label, r, k)'
        BY <2>9, <4>1, <4>2
      <4> QED
        BY <2>3, <4>3
    <3>4. \A u \in Thread : At(u, i)' => u = t
      BY <2>5, <3>1
    <3> QED
      BY <2>6, <2>7, <2>8, <2>9, <3>3, <3>4 DEF PrimaryOK
  <2>10. CASE Spares(label, r)
    <3>1. PrimaryOK(i) /\ SameRows(i) /\ i \notin upsets /\ i \notin rights
      BY <1>1, <1>2, <2>3, <2>10
    <3>2. Settled(i) /\ \A u \in Thread : At(u, i) => Beside(pc[u], req[u], i)
      BY <2>4, <3>1 DEF PrimaryOK
    <3>3. Beside(label, r, i)
      BY <1>2, <2>1, <2>3, <2>10, <3>1, <3>2
    <3>4. Settled(i)' /\ Beside(label, r, i)'
      BY <3>1, <3>2, <3>3, SameItem
    <3>5. ASSUME NEW u \in Thread \ {t}, At(u, i)'
          PROVE  Own(u, i)' /\ Aside(u)' /\ Beside(pc[u], req[u], i)'
      <4>1. At(u, i) /\ Aside(u) /\ Beside(pc[u], req[u], i) /\ pc'[u] = pc[u] /\ req'[u] = req[u]
        BY <1>2, <2>4, <2>5, <3>2, <3>5 DEF OthersKeep
      <4>2. Own(u, i)' /\ Aside(u)'
        BY <1>2, <3>1, <4>1, OthersAt
      <4>3. Primaries(i)' = Primaries(i) /\ Photos(i)' = Photos(i)
        BY <3>1, SameItem DEF SameRows
      <4> QED
        BY <4>1, <4>2, <4>3 DEF Beside
    <3>6. \A u \in Thread : At(u, i)' => Own(u, i)' /\ Aside(u)' /\ Beside(pc[u], req[u], i)'
      BY <2>6, <2>7, <2>8, <2>10, <3>4, <3>5
    <3> QED
      BY <3>4, <3>6 DEF PrimaryOK
  <2> QED
    BY <2>9, <2>10
<1> QED
  BY <1>4, <1>5

\* A request goes on: what it was not about stays, and what it is about is its own item.
LEMMA StepKeeps ==
  ASSUME PrimaryInv, NEW t \in Thread, pc[t] # "idle", NEW label, NEW r, Goes(t, label, r),
         UNCHANGED <<items, disturbed>>, RowsKeep, NEW k, k = req[t].item,
         label # "idle" => r.item = k,
         \A i : r.photo \in Photos(i)' => i = k \/ req[t].photo \in Photos(i),
         \A i \in items : ~At(t, i) => SameRows(i),
         k \in items \ disturbed /\ PrimaryOK(k) /\ At(t, k) => PrimaryOK(k)'
  PROVE  \A i \in items' \ disturbed' : PrimaryOK(i)'
<1> SUFFICES ASSUME NEW i \in items' \ disturbed' PROVE PrimaryOK(i)'
  OBVIOUS
<1>1. pc'[t] = label /\ req'[t] = r /\ OthersKeep(t)
  BY GoesIs DEF PrimaryInv
<1>2. i \in items /\ PrimaryOK(i)
  BY DEF PrimaryInv
<1>3. CASE ~At(t, i)
  <2>1. ~At(t, i)'
    BY <1>1, <1>3, AtIs, AtAfter
  <2> QED
    BY <1>1, <1>2, <1>3, <2>1, ElsewhereKeeps
<1>4. CASE At(t, i)
  <2>1. i = k
    BY <1>2, <1>4 DEF PrimaryOK, Own
  <2>2. PrimaryOK(k)'
    BY <1>2, <1>4, <2>1
  <2> QED
    BY <2>1, <2>2
<1> QED
  BY <1>3, <1>4

\* Rows as they were.
LEMMA SamePhotos ==
  ASSUME UNCHANGED photo
  PROVE  /\ RowsKeep
         /\ \A i : Photos(i)' = Photos(i) /\ Primaries(i)' = Primaries(i)
         /\ \A i, f : Settles(i, f)' <=> Settles(i, f)
         /\ \A i : ref'[i] = ref[i] => SameRows(i)
  BY DEF RowsKeep, Photos, Primaries, Settles, SameRows

\* A request has ended.
LEMMA NoneIs ==
  ASSUME TypedInv
  PROVE  /\ NoRequest.item \notin Item
         /\ TypedInv' => \A i : NoRequest.photo \notin Photos(i)'
         /\ \A i : NoRequest.photo \notin Photos(i)
  BY NoRequestIs, PhotoGalleryAssumption DEF TypedInv, TypeOK, Photos

\* A settled item has no primary, and no photo, or has one of its photos as its primary.
LEMMA SettlesIs ==
  ASSUME NEW i, NEW f, Settles(i, f)
  PROVE  /\ Primaries(i) = {} => Photos(i) = {}
         /\ \A p, q \in Primaries(i) : p = q
         /\ TypedInv /\ f # NoName => Photos(i) # {}
         /\ TypedInv /\ Photos(i) # {} => f # NoName
  BY NamesAre DEF Settles, Primaries, Photos, TypedInv, TypeOK

LEMMA SettledAfter ==
  ASSUME NEW i, NEW f, ref'[i] = f, Settles(i, f)' PROVE Settled(i)'
  BY DEF Settled, Settles

LEMMA SetRefKeeps ==
  ASSUME PrimaryInv, TypedInv', NEW t \in Thread, SetRef(t)
  PROVE  \A i \in items' \ disturbed' : PrimaryOK(i)'
<1>1. /\ pc[t] = "ref" /\ UNCHANGED <<items, photo, disturbed>>
      /\ ref' = [ref EXCEPT ![req[t].item] = IF req[t].item \in items THEN req[t].file ELSE @]
  BY DEF SetRef
<1>2. PICK k : k = req[t].item
  OBVIOUS
<1>3. k \in Item /\ req[t].file \in Name \cup {NoName}
  BY <1>1, <1>2, ThreadTypes DEF PrimaryInv
<1>4. ref'[k] = (IF k \in items THEN req[t].file ELSE ref[k]) /\ \A i \in Item \ {k} : ref'[i] = ref[i]
  BY <1>1, <1>2, <1>3 DEF PrimaryInv, TypedInv, TypeOK
<1>5. PICK label, r :
        /\ Goes(t, label, r)
        /\ \/ label = "idle" /\ r = NoRequest
           \/ /\ label = "insert" /\ r.item = k /\ r.photo = req[t].photo /\ r.parts = req[t].parts
              /\ r.prim = req[t].prim /\ req[t].parts # {}
  <2>1. CASE Ends(t)
    BY <2>1 DEF Ends
  <2>2. CASE req[t].parts # {} /\ Goes(t, "insert", [req[t] EXCEPT !.file = NoName])
    <3>1. PICK r : r = [req[t] EXCEPT !.file = NoName]
      OBVIOUS
    <3>2. r.item = k /\ r.photo = req[t].photo /\ r.parts = req[t].parts /\ r.prim = req[t].prim
      BY <1>2, <3>1, ThreadTypes DEF RequestType, PrimaryInv
    <3> QED
      BY <2>2, <3>1, <3>2
  <2> QED
    BY <2>1, <2>2 DEF SetRef
<1>6. \A i \in items : ~At(t, i) => SameRows(i)
  BY <1>1, <1>2, <1>3, <1>4, AtIs, SamePhotos DEF PrimaryInv, TypedInv, TypeOK
<1>7. ASSUME k \in items \ disturbed, PrimaryOK(k), At(t, k) PROVE PrimaryOK(k)'
  <2>1. ~Aside(t)
    BY <1>1 DEF Aside, Spares
  <2>2. Main(pc[t], req[t], k) /\ Own(t, k)
    BY <1>7, <2>1 DEF PrimaryOK
  <2>3. Settles(k, req[t].file) /\ (req[t].parts # {} => ~req[t].prim /\ req[t].file # NoName)
    BY <1>1, <2>2 DEF Main
  <2>4. Settled(k)'
    BY <1>1, <1>4, <1>7, <2>3, SamePhotos, SettledAfter
  <2>5. label = "insert" => Spares(label, r) /\ Beside(label, r, k)'
    <3>1. label = "insert" => ~r.prim /\ Photos(k) # {}
      BY <1>5, <2>3, SettlesIs DEF PrimaryInv
    <3>2. Photos(k)' = Photos(k)
      BY <1>1, SamePhotos
    <3> QED
      BY <1>5, <3>1, <3>2 DEF Spares, Beside
  <2>6. label = "insert" => r.item = k /\ (r.photo \in DOMAIN photo' => r.photo \in Photos(k)')
    BY <1>1, <1>5, <2>2, SamePhotos DEF Own
  <2>7. label = "idle" => r.item \notin Item /\ r.photo \notin Photos(k)'
    BY <1>5, NoneIs DEF PrimaryInv
  <2>8. label \in {"idle", "insert"} /\ RowsKeep
    BY <1>1, <1>5, SamePhotos
  <2> QED
    BY <1>5, <1>7, <2>1, <2>4, <2>5, <2>6, <2>7, <2>8, MainKeeps DEF PrimaryInv
<1>8. /\ label # "idle" => r.item = k
      /\ \A i : r.photo \in Photos(i)' => i = k \/ req[t].photo \in Photos(i)
  BY <1>1, <1>5, NoneIs, SamePhotos DEF PrimaryInv
<1> QED
  BY <1>1, <1>2, <1>5, <1>6, <1>7, <1>8, SamePhotos, StepKeeps

LEMMA WriteFilesKeeps ==
  ASSUME PrimaryInv, TypedInv', NEW t \in Thread, WriteFiles(t)
  PROVE  \A i \in items' \ disturbed' : PrimaryOK(i)'
<1>1. /\ pc[t] = "write" /\ UNCHANGED <<items, ref, photo, disturbed>>
      /\ \E files \in SUBSET req[t].parts : Written(t, files, files)
  BY DEF WriteFiles, Written, table
<1>2. PICK k : k = req[t].item
  OBVIOUS
<1>3. PICK label, r :
        /\ Goes(t, label, r)
        /\ \/ label = "idle" /\ r = NoRequest
           \/ /\ label = "insert" /\ r.item = k /\ r.photo = req[t].photo /\ r.prim = req[t].prim
  <2>1. CASE Ends(t)
    BY <2>1 DEF Ends
  <2>2. CASE \E files : Goes(t, "insert", [req[t] EXCEPT !.parts = files])
    <3>1. PICK files, r : r = [req[t] EXCEPT !.parts = files] /\ Goes(t, "insert", r)
      BY <2>2
    <3>2. r.item = k /\ r.photo = req[t].photo /\ r.prim = req[t].prim
      BY <1>2, <3>1, ThreadTypes DEF RequestType, PrimaryInv
    <3> QED
      BY <3>1, <3>2
  <2> QED
    BY <1>1, <2>1, <2>2 DEF Written
<1>4. \A i : SameRows(i)
  BY <1>1, SamePhotos
<1>5. ASSUME k \in items \ disturbed, PrimaryOK(k), At(t, k) PROVE PrimaryOK(k)'
  <2>1. Own(t, k)
    BY <1>5 DEF PrimaryOK
  <2>2. label # "idle" => r.item = k /\ (r.photo \in DOMAIN photo' => r.photo \in Photos(k)')
    BY <1>1, <1>3, <2>1, SamePhotos DEF Own
  <2>3. label = "idle" => r.item \notin Item /\ r.photo \notin Photos(k)'
    BY <1>3, NoneIs DEF PrimaryInv
  <2>4. CASE Aside(t)
    <3>1. Settled(k) /\ Beside(pc[t], req[t], k)
      BY <1>5, <2>4 DEF PrimaryOK
    <3>2. Photos(k) # {} /\ ~req[t].prim
      BY <1>1, <2>4, <3>1 DEF Beside, Aside, Spares
    <3>3. /\ Settled(k)' /\ Photos(k)' = Photos(k) /\ Primaries(k)' = Primaries(k) /\ RowsKeep
      BY <1>1, <1>4, <3>1, SamePhotos, SameItem
    <3>4. label # "idle" => Spares(label, r) /\ Beside(label, r, k)'
      BY <1>3, <3>2, <3>3 DEF Spares, Beside
    <3> QED
      BY <1>3, <1>5, <2>2, <2>4, <3>3, <3>4, AsideKeeps DEF PrimaryInv
  <2>5. CASE ~Aside(t)
    <3>1. Main(pc[t], req[t], k)
      BY <1>5, <2>5 DEF PrimaryOK
    <3>2. Settled(k) /\ Photos(k) = {} /\ req[t].prim
      BY <1>1, <2>5, <3>1 DEF Main, Aside, Spares
    <3>3. Settled(k)' /\ Photos(k)' = {} /\ RowsKeep
      BY <1>1, <1>4, <3>2, SamePhotos, SameItem
    <3>4. label # "idle" => ~Spares(label, r) /\ Main(label, r, k)'
      BY <1>3, <3>2, <3>3 DEF Spares, Main
    <3> QED
      BY <1>3, <1>5, <2>2, <2>3, <2>5, <3>3, <3>4, MainKeeps DEF PrimaryInv
  <2> QED
    BY <2>4, <2>5
<1>6. /\ label # "idle" => r.item = k
      /\ \A i : r.photo \in Photos(i)' => i = k \/ req[t].photo \in Photos(i)
  BY <1>1, <1>3, NoneIs, SamePhotos DEF PrimaryInv
<1> QED
  BY <1>1, <1>2, <1>3, <1>4, <1>5, <1>6, SamePhotos, StepKeeps

\* The first photo is the primary of an item without one, and the others go behind it.
LEMMA InsertKeeps ==
  ASSUME PrimaryInv, TypedInv', NEW t \in Thread, InsertPhoto(t)
  PROVE  \A i \in items' \ disturbed' : PrimaryOK(i)'
<1>1. PICK f \in req[t].parts, p \in PhotoId \ used, s \in RequestType :
        /\ f \in Name /\ s.item = req[t].item /\ s.photo = req[t].photo
        /\ s.parts = req[t].parts \ {f} /\ ~s.prim
        /\ s.file = (IF req[t].prim THEN f ELSE NoName)
        /\ (IF req[t].item \in items
            THEN /\ used' = used \cup {p}
                 /\ photo' = [q \in DOMAIN photo \cup {p} |->
                                IF q = p THEN PhotoRow(req[t].item, f, req[t].prim)
                                ELSE photo[q]]
            ELSE UNCHANGED <<photo, used>>)
        /\ (IF req[t].prim THEN Goes(t, "ref", s)
            ELSE IF s.parts = {} THEN Ends(t) ELSE Goes(t, "insert", s))
  BY InsertIs DEF PrimaryInv
<1>2. pc[t] = "insert" /\ UNCHANGED <<items, ref, disturbed>> /\ req[t].item \in Item
  BY InsertIs DEF PrimaryInv
<1>3. PICK k : k = req[t].item
  OBVIOUS
<1>4. p \notin DOMAIN photo /\ \A u \in Thread : req[u].photo # p
  BY <1>1, ThreadTypes, PhotoGalleryAssumption DEF PrimaryInv, TypedInv, TypeOK
<1>5. PICK label, r :
        /\ Goes(t, label, r)
        /\ \/ label = "ref" /\ r = s /\ req[t].prim
           \/ label = "idle" /\ r = NoRequest /\ ~req[t].prim
           \/ label = "insert" /\ r = s /\ ~req[t].prim
  <2>1. CASE req[t].prim
    BY <1>1, <2>1
  <2>2. CASE ~req[t].prim
    BY <1>1, <2>2 DEF Ends
  <2> QED
    BY <2>1, <2>2
<1>6. /\ DOMAIN photo \subseteq DOMAIN photo' /\ DOMAIN photo' \subseteq DOMAIN photo \cup {p}
      /\ \A q \in DOMAIN photo : photo'[q] = photo[q]
      /\ p \in DOMAIN photo' => k \in items
      /\ k \in items => /\ p \in DOMAIN photo' /\ photo'[p].item = k /\ photo'[p].file = f
                        /\ photo'[p].primary = req[t].prim
  <2>1. CASE k \in items
    BY <1>1, <1>3, <1>4, <2>1 DEF PhotoRow
  <2>2. CASE k \notin items
    BY <1>1, <1>3, <1>4, <2>2
  <2> QED
    BY <2>1, <2>2
<1>7. RowsKeep
  BY <1>4, <1>6 DEF RowsKeep
<1>8. \A i : i # k => SameRows(i)
  <2>1. \A i : i # k => Photos(i)' = Photos(i)
    BY <1>6 DEF Photos
  <2> QED
    BY <1>2, <1>6, <2>1 DEF SameRows, Photos
<1>9. k \in items => Photos(k)' = Photos(k) \cup {p}
  BY <1>6 DEF Photos
<1>10. ASSUME k \in items \ disturbed, PrimaryOK(k), At(t, k) PROVE PrimaryOK(k)'
  <2>1. Own(t, k)
    BY <1>10 DEF PrimaryOK
  <2>2. label # "idle" => r.item = k /\ (r.photo \in DOMAIN photo' => r.photo \in Photos(k)')
    <3>1. req[t].photo \in DOMAIN photo' => req[t].photo \in Photos(k)'
      BY <1>4, <1>6, <1>9, <1>10, <2>1 DEF Own
    <3> QED
      BY <1>1, <1>3, <1>5, <3>1
  <2>3. CASE Aside(t)
    <3>1. ~req[t].prim
      BY <1>2, <2>3 DEF Aside, Spares
    <3>2. Settled(k) /\ Beside(pc[t], req[t], k)
      BY <1>10, <2>3 DEF PrimaryOK
    <3>3. Primaries(k)' = Primaries(k)
      BY <1>6, <1>9, <1>10, <3>1 DEF Primaries, Photos
    <3>4. Photos(k) # {}
      BY <1>2, <3>2 DEF Beside
    <3>5. Settled(k)'
      <4>1. PICK q \in Photos(k) : Primaries(k) = {q} /\ photo[q].file = ref[k]
        BY <3>2, <3>4 DEF Settled, Settles
      <4>2. q \in Photos(k)' /\ photo'[q].file = photo[q].file
        BY <1>6, <1>9, <1>10 DEF Photos
      <4> QED
        BY <1>2, <3>3, <4>1, <4>2 DEF Settled, Settles
    <3>6. label # "idle" => Spares(label, r) /\ Beside(label, r, k)'
      BY <1>1, <1>5, <1>9, <1>10, <3>1 DEF Spares, Beside
    <3> QED
      BY <1>5, <1>7, <1>9, <1>10, <2>2, <2>3, <3>3, <3>5, <3>6, AsideKeeps DEF PrimaryInv
  <2>4. CASE ~Aside(t)
    <3>1. req[t].prim
      BY <1>2, <2>4 DEF Aside, Spares
    <3>2. Main(pc[t], req[t], k)
      BY <1>10, <2>4 DEF PrimaryOK
    <3>3. Photos(k) = {}
      BY <1>2, <3>2 DEF Main
    <3>4. Photos(k)' = {p} /\ Primaries(k)' = {p} /\ photo'[p].file = f
      BY <1>6, <1>9, <1>10, <3>1, <3>3 DEF Primaries
    <3>5. Settles(k, f)'
      BY <3>4 DEF Settles
    <3>6. label = "ref" /\ r = s /\ r.file = f
      BY <1>1, <1>5, <3>1
    <3>7. Main(label, r, k)' /\ ~Spares(label, r) /\ label # "idle"
      <4>1. f # NoName
        BY <1>1, NamesAre
      <4>2. Settles(k, r.file)'
        BY <3>5, <3>6
      <4> QED
        BY <1>1, <3>6, <4>1, <4>2 DEF Main, Spares
    <3> QED
      BY <1>5, <1>7, <1>10, <2>2, <2>4, <3>7, MainKeeps DEF PrimaryInv
  <2> QED
    BY <2>3, <2>4
<1>11. /\ label # "idle" => r.item = k
       /\ \A i : r.photo \in Photos(i)' => i = k \/ req[t].photo \in Photos(i)
  <2>1. \A i : req[t].photo \in Photos(i)' => req[t].photo \in Photos(i)
    BY <1>4, <1>6 DEF Photos
  <2>2. \A i : NoRequest.photo \notin Photos(i)'
    BY NoneIs DEF PrimaryInv
  <2> QED
    BY <1>1, <1>3, <1>5, <2>1, <2>2
<1>12. \A i \in items : ~At(t, i) => SameRows(i)
  BY <1>2, <1>3, <1>8, AtIs
<1> QED
  BY <1>2, <1>3, <1>5, <1>7, <1>10, <1>11, <1>12, StepKeeps

\* Marks of photos that are no other item's.
LEMMA MarksKeep ==
  ASSUME TypedInv, NEW S, NEW b, UNCHANGED ref,
         photo' = [q \in DOMAIN photo |->
                     IF q \in S THEN [photo[q] EXCEPT !.primary = b] ELSE photo[q]]
  PROVE  /\ RowsKeep /\ \A i : Photos(i)' = Photos(i)
         /\ \A i : Photos(i) \cap S = {} => SameRows(i)
<1>1. /\ DOMAIN photo' = DOMAIN photo
      /\ \A q \in DOMAIN photo : photo'[q].file = photo[q].file /\ photo'[q].item = photo[q].item
  BY FilesOfMarked
<1>2. \A q \in DOMAIN photo : q \notin S => photo'[q] = photo[q]
  OBVIOUS
<1>3. \A i : Photos(i)' = Photos(i)
  BY <1>1 DEF Photos
<1> QED
  BY <1>1, <1>2, <1>3 DEF RowsKeep, SameRows, Photos

LEMMA SetPrimaryKeeps ==
  ASSUME PrimaryInv, TypedInv', NEW t \in Thread, NEW label,
         \/ pc[t] = "set" /\ label = "name"
         \/ pc[t] = "promote" /\ label = "ref",
         SetPrimary(t, label)
  PROVE  \A i \in items' \ disturbed' : PrimaryOK(i)'
<1>1. UNCHANGED <<items, ref, disturbed>> /\ Goes(t, label, req[t])
  BY DEF SetPrimary
<1>2. PICK S : S = {req[t].photo}
  OBVIOUS
<1>3. photo' = [q \in DOMAIN photo |->
                  IF q \in S THEN [photo[q] EXCEPT !.primary = TRUE] ELSE photo[q]]
  BY <1>2 DEF SetPrimary
<1>4. /\ RowsKeep /\ \A i : Photos(i)' = Photos(i)
      /\ \A i : req[t].photo \notin Photos(i) => SameRows(i)
  <2>1. /\ RowsKeep /\ \A i : Photos(i)' = Photos(i)
        /\ \A i : Photos(i) \cap S = {} => SameRows(i)
    BY <1>1, <1>3, MarksKeep DEF PrimaryInv
  <2> QED
    BY <1>2, <2>1
<1>5. PICK k, r : k = req[t].item /\ r = req[t]
  OBVIOUS
<1>6. ASSUME k \in items \ disturbed, PrimaryOK(k), At(t, k) PROVE PrimaryOK(k)'
  <2>1. ~Aside(t)
    BY DEF Aside, Spares
  <2>2. Main(pc[t], req[t], k) /\ Own(t, k)
    BY <1>6, <2>1 DEF PrimaryOK
  <2>3. /\ Primaries(k) = {} /\ r.photo \in Photos(k)
        /\ label = "ref" => r.file = photo[r.photo].file
    BY <1>5, <2>2 DEF Main
  <2>4. Primaries(k)' = {r.photo} /\ photo'[r.photo].file = photo[r.photo].file
    <3>1. \A q \in Photos(k) : q # r.photo => photo'[q] = photo[q]
      BY <1>2, <1>3, <1>5 DEF Photos
    <3>2. photo'[r.photo].primary /\ photo'[r.photo].file = photo[r.photo].file
      BY <1>2, <1>3, <1>5, <2>3 DEF Photos, PrimaryInv, TypedInv, TypeOK
    <3>3. Photos(k)' = Photos(k)
      BY <1>4
    <3> QED
      BY <2>3, <3>1, <3>2, <3>3 DEF Primaries
  <2>5. label = "ref" => Settles(k, r.file)'
    BY <1>4, <2>3, <2>4 DEF Settles
  <2>6. r.parts = {}
    BY <1>5, ThreadTypes DEF PrimaryInv
  <2>7. Main(label, r, k)' /\ ~Spares(label, r) /\ label # "idle"
    BY <2>4, <2>5, <2>6 DEF Main, Spares
  <2>8. r.item = k /\ (r.photo \in DOMAIN photo' => r.photo \in Photos(k)')
    BY <1>4, <1>5, <2>3
  <2> QED
    BY <1>1, <1>4, <1>5, <1>6, <2>1, <2>7, <2>8, MainKeeps DEF PrimaryInv
<1>7. \A i \in items : ~At(t, i) => SameRows(i)
  BY <1>4, AtIs
<1>8. /\ Goes(t, label, r) /\ r.item = k /\ pc[t] # "idle"
      /\ \A i : r.photo \in Photos(i)' => i = k \/ req[t].photo \in Photos(i)
  BY <1>1, <1>4, <1>5
<1>9. k = req[t].item
  BY <1>5
<1> QED
  BY <1>1, <1>4, <1>6, <1>7, <1>8, <1>9, StepKeeps

LEMMA ReadNameKeeps ==
  ASSUME PrimaryInv, TypedInv', NEW t \in Thread, ReadName(t)
  PROVE  \A i \in items' \ disturbed' : PrimaryOK(i)'
<1>1. pc[t] = "name" /\ UNCHANGED <<items, ref, photo, disturbed>>
  BY DEF ReadName, table
<1>2. PICK k : k = req[t].item
  OBVIOUS
<1>3. PICK label, r :
        /\ Goes(t, label, r)
        /\ \/ label = "idle" /\ r = NoRequest /\ req[t].photo \notin DOMAIN photo
           \/ /\ label = "ref" /\ r.item = k /\ r.photo = req[t].photo /\ r.parts = req[t].parts
              /\ r.file = photo[req[t].photo].file
  <2>1. CASE req[t].photo \notin DOMAIN photo /\ Ends(t)
    BY <2>1 DEF Ends
  <2>2. CASE Goes(t, "ref", [req[t] EXCEPT !.file = photo[req[t].photo].file])
    <3>1. PICK f : f = photo[req[t].photo].file
      OBVIOUS
    <3>2. PICK r : r = [req[t] EXCEPT !.file = f]
      OBVIOUS
    <3>3. r.item = k /\ r.photo = req[t].photo /\ r.parts = req[t].parts /\ r.file = f
      BY <1>2, <3>2, ThreadTypes DEF RequestType, PrimaryInv
    <3> QED
      BY <2>2, <3>1, <3>2, <3>3
  <2> QED
    BY <2>1, <2>2 DEF ReadName
<1>4. /\ RowsKeep /\ \A i : SameRows(i) /\ Photos(i)' = Photos(i)
      /\ \A i, f : Settles(i, f)' <=> Settles(i, f)
  BY <1>1, SamePhotos
<1>5. ASSUME k \in items \ disturbed, PrimaryOK(k), At(t, k) PROVE PrimaryOK(k)'
  <2>1. ~Aside(t)
    BY <1>1 DEF Aside, Spares
  <2>2. Main(pc[t], req[t], k) /\ Own(t, k)
    BY <1>5, <2>1 DEF PrimaryOK
  <2>3. Primaries(k) = {req[t].photo}
    BY <1>1, <2>2 DEF Main
  <2>4. label = "ref" /\ Settles(k, r.file)'
    <3>1. req[t].photo \in Photos(k)
      BY <2>3 DEF Primaries
    <3>2. label = "ref" /\ r.file = photo[req[t].photo].file
      BY <1>3, <3>1 DEF Photos
    <3>3. Settles(k, r.file)
      BY <2>3, <3>1, <3>2 DEF Settles
    <3> QED
      BY <1>4, <3>2, <3>3
  <2>5. r.parts = {}
    BY <1>1, <1>3, <2>4, ThreadTypes DEF PrimaryInv
  <2>6. Main(label, r, k)' /\ ~Spares(label, r)
    BY <2>4, <2>5 DEF Main, Spares
  <2>7. r.item = k /\ (r.photo \in DOMAIN photo' => r.photo \in Photos(k)')
    BY <1>1, <1>3, <1>4, <2>2, <2>4 DEF Own
  <2> QED
    BY <1>3, <1>4, <1>5, <2>1, <2>4, <2>6, <2>7, MainKeeps DEF PrimaryInv
<1>6. /\ label # "idle" => r.item = k
      /\ \A i : r.photo \in Photos(i)' => i = k \/ req[t].photo \in Photos(i)
  BY <1>3, <1>4, NoneIs DEF PrimaryInv
<1> QED
  BY <1>1, <1>2, <1>3, <1>4, <1>5, <1>6, StepKeeps

LEMMA UnlinkKeeps ==
  ASSUME PrimaryInv, TypedInv', NEW t \in Thread, Unlink(t)
  PROVE  \A i \in items' \ disturbed' : PrimaryOK(i)'
<1>1. pc[t] = "unlink" /\ UNCHANGED <<items, ref, photo, disturbed>>
  BY DEF Unlink, table
<1>2. PICK k : k = req[t].item
  OBVIOUS
<1>3. PICK label, r :
        /\ Goes(t, label, r) /\ r.item = k /\ r.photo = req[t].photo
        /\ \/ label = "drop" /\ r = req[t]
           \/ label = "ref" /\ req[t].photo = Nothing
  <2>1. CASE Goes(t, "drop", req[t])
    BY <1>2, <2>1
  <2>2. CASE req[t].photo = Nothing /\ Goes(t, "ref", [req[t] EXCEPT !.file = NoName])
    <3>1. PICK r : r = [req[t] EXCEPT !.file = NoName]
      OBVIOUS
    <3>2. r.item = k /\ r.photo = req[t].photo
      BY <1>2, <3>1, ThreadTypes DEF RequestType, PrimaryInv
    <3> QED
      BY <2>2, <3>1, <3>2
  <2> QED
    BY <2>1, <2>2 DEF Unlink
<1>4. RowsKeep /\ \A i : SameRows(i) /\ Photos(i)' = Photos(i)
  BY <1>1, SamePhotos
<1>5. ASSUME k \in items \ disturbed, PrimaryOK(k), At(t, k) PROVE PrimaryOK(k)'
  <2>1. Own(t, k)
    BY <1>5 DEF PrimaryOK
  <2>2. r.photo \in DOMAIN photo' => r.photo \in Photos(k)'
    BY <1>1, <1>3, <1>4, <2>1 DEF Own
  <2>3. CASE Aside(t)
    <3>1. ~req[t].prim /\ req[t].photo # Nothing
      BY <1>1, <2>3 DEF Aside, Spares
    <3>2. Settled(k) /\ Beside(pc[t], req[t], k)
      BY <1>5, <2>3 DEF PrimaryOK
    <3>3. Settled(k)' /\ Photos(k)' = Photos(k) /\ Primaries(k)' = Primaries(k)
      BY <1>4, <3>2, SameItem
    <3>4. label = "drop" /\ Spares(label, r) /\ Beside(label, r, k)'
      <4>1. label = "drop" /\ r = req[t]
        BY <1>3, <3>1
      <4>2. req[t].photo \notin Primaries(k)'
        BY <1>1, <3>2, <3>3 DEF Beside
      <4> QED
        BY <3>1, <4>1, <4>2 DEF Spares, Beside
    <3> QED
      BY <1>3, <1>4, <1>5, <2>2, <2>3, <3>3, <3>4, AsideKeeps DEF PrimaryInv
  <2>4. CASE ~Aside(t)
    <3>1. Main(pc[t], req[t], k)
      BY <1>5, <2>4 DEF PrimaryOK
    <3>2. Settled(k) /\ req[t].photo \in Photos(k) /\ photo[req[t].photo].primary
      BY <1>1, <3>1 DEF Main
    <3>3. label = "drop" /\ r = req[t]
      BY <1>3, <3>2, PhotoGalleryAssumption DEF Photos, PrimaryInv, TypedInv, TypeOK
    <3>4. Main(label, r, k)
      BY <3>2, <3>3 DEF Main
    <3>5. Main(label, r, k)'
      BY <1>4, <3>4, SameItem
    <3>6. ~Spares(label, r)
      BY <1>1, <2>4, <3>3 DEF Spares, Aside
    <3> QED
      BY <1>3, <1>4, <1>5, <2>2, <2>4, <3>3, <3>5, <3>6, MainKeeps DEF PrimaryInv
  <2> QED
    BY <2>3, <2>4
<1> QED
  BY <1>1, <1>2, <1>3, <1>4, <1>5, StepKeeps

\* Without the primary photo another is to be found; without another the primary stays.
LEMMA DropRowKeeps ==
  ASSUME PrimaryInv, TypedInv', NEW t \in Thread, DropRow(t)
  PROVE  \A i \in items' \ disturbed' : PrimaryOK(i)'
<1>1. /\ pc[t] = "drop" /\ UNCHANGED <<items, ref, disturbed>>
      /\ photo' = [q \in DOMAIN photo \ {req[t].photo} |-> photo[q]]
  BY DEF DropRow
<1>2. PICK k, p : k = req[t].item /\ p = req[t].photo
  OBVIOUS
<1>3. PICK label, r :
        /\ Goes(t, label, r)
        /\ \/ label = "idle" /\ r = NoRequest /\ ~req[t].prim
           \/ label = "next" /\ r.item = k /\ r.photo = Nothing /\ req[t].prim
  <2>1. CASE ~req[t].prim
    BY <2>1 DEF DropRow, Ends
  <2>2. CASE req[t].prim
    <3>1. PICK r : r = [req[t] EXCEPT !.photo = Nothing]
      OBVIOUS
    <3>2. r.item = k /\ r.photo = Nothing
      BY <1>2, <3>1, ThreadTypes DEF RequestType, PrimaryInv
    <3> QED
      BY <2>2, <3>1, <3>2 DEF DropRow
  <2> QED
    BY <2>1, <2>2
<1>4. DOMAIN photo' = DOMAIN photo \ {p} /\ \A q \in DOMAIN photo' : photo'[q] = photo[q]
  BY <1>1, <1>2
<1>5. RowsKeep /\ \A i : Photos(i)' = Photos(i) \ {p} /\ Primaries(i)' = Primaries(i) \ {p}
  BY <1>4 DEF RowsKeep, Photos, Primaries
<1>6. \A i : p \notin Photos(i) => SameRows(i)
  BY <1>1, <1>4, <1>5 DEF SameRows, Photos
<1>7. Nothing \notin DOMAIN photo
  BY PhotoGalleryAssumption DEF PrimaryInv, TypedInv, TypeOK
<1>8. ASSUME k \in items \ disturbed, PrimaryOK(k), At(t, k) PROVE PrimaryOK(k)'
  <2>1. CASE Aside(t)
    <3>1. label = "idle"
      BY <1>1, <1>3, <2>1 DEF Aside, Spares
    <3>2. Settled(k) /\ Beside(pc[t], req[t], k)
      BY <1>8, <2>1 DEF PrimaryOK
    <3>3. p \notin Primaries(k)
      BY <1>1, <1>2, <3>2 DEF Beside
    <3>4. Primaries(k)' = Primaries(k)
      BY <1>5, <3>3
    <3>5. CASE Photos(k) = {}
      <4>1. SameRows(k)
        BY <1>6, <3>5
      <4>2. Settled(k)' /\ Photos(k)' = Photos(k)
        BY <3>2, <4>1, SameItem DEF SameRows
      <4> QED
        BY <1>3, <1>5, <1>8, <2>1, <3>1, <3>4, <4>2, AsideKeeps DEF PrimaryInv
    <3>6. CASE Photos(k) # {}
      <4>1. PICK q \in Photos(k) : Primaries(k) = {q} /\ photo[q].file = ref[k]
        BY <3>2, <3>6 DEF Settled, Settles
      <4>2. q # p /\ q \in Photos(k)' /\ photo'[q].file = photo[q].file
        <5>1. q # p
          BY <3>3, <4>1
        <5> QED
          BY <1>4, <1>5, <5>1 DEF Photos
      <4>3. Settled(k)'
        BY <1>1, <3>4, <4>1, <4>2 DEF Settled, Settles
      <4> QED
        BY <1>3, <1>5, <1>8, <2>1, <3>1, <3>4, <4>2, <4>3, AsideKeeps DEF PrimaryInv
    <3> QED
      BY <3>5, <3>6
  <2>2. CASE ~Aside(t)
    <3>1. Main(pc[t], req[t], k)
      BY <1>8, <2>2 DEF PrimaryOK
    <3>2. Settled(k) /\ p \in Photos(k) /\ photo[p].primary
      BY <1>1, <1>2, <3>1 DEF Main
    <3>3. label = "next"
      <4>1. p # Nothing
        BY <1>7, <3>2 DEF Photos
      <4> QED
        BY <1>1, <1>2, <1>3, <2>2, <4>1 DEF Aside, Spares
    <3>4. Primaries(k)' = {}
      <4>1. p \in Primaries(k)
        BY <3>2 DEF Primaries
      <4> QED
        BY <1>5, <3>2, <4>1, SettlesIs DEF Settled
    <3>5. Main(label, r, k)' /\ ~Spares(label, r)
      BY <3>3, <3>4 DEF Main, Spares
    <3>6. r.item = k /\ r.photo \notin DOMAIN photo'
      BY <1>3, <1>4, <1>7, <3>3
    <3> QED
      BY <1>3, <1>5, <1>8, <2>2, <3>3, <3>5, <3>6, MainKeeps DEF PrimaryInv
  <2> QED
    BY <2>1, <2>2
<1>9. /\ label # "idle" => r.item = k
      /\ \A i : r.photo \in Photos(i)' => i = k \/ req[t].photo \in Photos(i)
  <2>1. \A i : Nothing \notin Photos(i)'
    BY <1>4, <1>7 DEF Photos
  <2> QED
    BY <1>3, <2>1, NoneIs DEF PrimaryInv
<1>10. \A i \in items : ~At(t, i) => SameRows(i)
  BY <1>1, <1>2, <1>6, AtIs
<1> QED
  BY <1>1, <1>2, <1>3, <1>5, <1>8, <1>9, <1>10, StepKeeps

LEMMA NextPhotoKeeps ==
  ASSUME PrimaryInv, TypedInv', NEW t \in Thread, NextPhoto(t)
  PROVE  \A i \in items' \ disturbed' : PrimaryOK(i)'
<1>1. pc[t] = "next" /\ UNCHANGED <<items, ref, photo, disturbed>>
  BY DEF NextPhoto, table
<1>2. PICK k : k = req[t].item
  OBVIOUS
<1>3. PICK label, r :
        /\ Goes(t, label, r) /\ r.item = k /\ r.parts = req[t].parts
        /\ \/ /\ label = "ref" /\ r.photo = req[t].photo /\ r.file = NoName /\ Photos(k) = {}
           \/ /\ label = "promote" /\ r.photo \in Photos(k) /\ r.file = photo[r.photo].file
  <2>1. CASE Photos(k) = {}
    <3>1. PICK r : r = [req[t] EXCEPT !.prim = FALSE, !.file = NoName]
      OBVIOUS
    <3>2. r.item = k /\ r.photo = req[t].photo /\ r.parts = req[t].parts /\ r.file = NoName
      BY <1>2, <3>1, ThreadTypes DEF RequestType, PrimaryInv
    <3>3. Goes(t, "ref", r)
      BY <1>2, <2>1, <3>1 DEF NextPhoto
    <3> QED
      BY <2>1, <3>2, <3>3
  <2>2. CASE Photos(k) # {}
    <3>1. PICK p \in Photos(k) :
            Goes(t, "promote", [req[t] EXCEPT !.prim = FALSE, !.photo = p,
                                              !.file = photo[p].file])
      BY <1>2, <2>2 DEF NextPhoto
    <3>2. PICK f : f = photo[p].file
      OBVIOUS
    <3>3. PICK r : r = [req[t] EXCEPT !.prim = FALSE, !.photo = p, !.file = f]
      OBVIOUS
    <3>4. r.item = k /\ r.photo = p /\ r.parts = req[t].parts /\ r.file = f
      BY <1>2, <3>3, ThreadTypes DEF RequestType, PrimaryInv
    <3> QED
      BY <3>1, <3>2, <3>3, <3>4
  <2> QED
    BY <2>1, <2>2
<1>4. /\ RowsKeep /\ \A i : SameRows(i) /\ Photos(i)' = Photos(i) /\ Primaries(i)' = Primaries(i)
      /\ \A i, f : Settles(i, f)' <=> Settles(i, f)
  BY <1>1, SamePhotos
<1>5. ASSUME k \in items \ disturbed, PrimaryOK(k), At(t, k) PROVE PrimaryOK(k)'
  <2>1. ~Aside(t)
    BY <1>1 DEF Aside, Spares
  <2>2. Main(pc[t], req[t], k) /\ Own(t, k)
    BY <1>5, <2>1 DEF PrimaryOK
  <2>3. Primaries(k) = {} /\ r.parts = {}
    BY <1>1, <1>3, <2>2, ThreadTypes DEF Main, PrimaryInv
  <2>4. Main(label, r, k)
    BY <1>3, <2>3 DEF Main, Settles
  <2>5. Main(label, r, k)' /\ ~Spares(label, r) /\ label # "idle"
    BY <1>3, <1>4, <2>4, SameItem DEF Spares
  <2>6. r.photo \in DOMAIN photo' => r.photo \in Photos(k)'
    BY <1>1, <1>3, <1>4, <2>2 DEF Own
  <2> QED
    BY <1>3, <1>4, <1>5, <2>1, <2>5, <2>6, MainKeeps DEF PrimaryInv
<1>6. \A i : r.photo \in Photos(i)' => i = k \/ req[t].photo \in Photos(i)
  BY <1>3, <1>4 DEF Photos
<1> QED
  BY <1>1, <1>2, <1>3, <1>4, <1>5, <1>6, StepKeeps

\* A request that changes no row comes in.
LEMMA PlainComes ==
  ASSUME PrimaryInv, NEW t \in Thread, NEW label \in Label \ {"idle"}, NEW r, NEW k \in Item,
         r.item = k, NEW upsets, Comes(t, label, r, upsets, {}), UNCHANGED <<items, ref, photo>>,
         (/\ k \in items
          /\ r.photo # Nothing => r.photo \in Photos(k)
          /\ Settled(k) /\ k \notin upsets)
           => /\ Spares(label, r) => Beside(label, r, k)
              /\ ~Spares(label, r) => Main(label, r, k)
  PROVE  \A i \in items' \ disturbed' : PrimaryOK(i)'
<1>1. RowsKeep /\ \A i : SameRows(i) /\ Photos(i)' = Photos(i)
  BY SamePhotos
<1>2. Main(label, r, k) => Main(label, r, k)'
  BY <1>1, SameItem
<1> QED
  BY <1>1, <1>2, ComesKeeps DEF PrimaryInv

LEMMA UploadKeeps ==
  ASSUME PrimaryInv, NEW t \in Thread, Upload(t)
  PROVE  \A i \in items' \ disturbed' : PrimaryOK(i)'
<1>1. PICK k \in Item : \E files \in Bodies(k) :
        /\ Comes(t, "write", Request(k, Nothing, NoName, files, Primaries(k) = {}), {}, {})
        /\ UNCHANGED <<table, disk, taken>>
  BY DEF Upload
<1>2. PICK files \in Bodies(k) :
        /\ Comes(t, "write", Request(k, Nothing, NoName, files, Primaries(k) = {}), {}, {})
        /\ UNCHANGED <<table, disk, taken>>
  BY <1>1
<1>3. PICK r : r = Request(k, Nothing, NoName, files, Primaries(k) = {})
  OBVIOUS
<1>4. r.item = k /\ (r.prim <=> Primaries(k) = {})
  BY <1>3 DEF Request
<1>5. ASSUME Settled(k)
      PROVE  /\ Spares("write", r) => Beside("write", r, k)
             /\ ~Spares("write", r) => Main("write", r, k)
  <2>1. Primaries(k) = {} <=> Photos(k) = {}
    BY <1>5, SettlesIs DEF Settled, Primaries
  <2>2. CASE r.prim
    BY <1>4, <1>5, <2>1, <2>2 DEF Spares, Main
  <2>3. CASE ~r.prim
    BY <1>4, <2>1, <2>3 DEF Spares, Beside
  <2> QED
    BY <2>2, <2>3
<1>6. Comes(t, "write", r, {}, {}) /\ UNCHANGED <<items, ref, photo>> /\ "write" \in Label \ {"idle"}
  BY <1>2, <1>3 DEF table, Label
<1> QED
  BY <1>4, <1>5, <1>6, PlainComes

LEMMA PutPrimaryKeeps ==
  ASSUME PrimaryInv, NEW t \in Thread, PutPrimary(t)
  PROVE  \A i \in items' \ disturbed' : PrimaryOK(i)'
<1>1. PICK k \in Item, p \in used :
      /\ Comes(t, "set", Request(k, p, NoName, {}, FALSE), {}, {k})
      /\ photo' = [q \in DOMAIN photo |->
                     IF q \in Photos(k) THEN [photo[q] EXCEPT !.primary = FALSE] ELSE photo[q]]
      /\ UNCHANGED <<items, ref, used, disk, taken>>
  BY DEF PutPrimary
<1>2. PICK r : r = Request(k, p, NoName, {}, FALSE)
  OBVIOUS
<1>3. r.item = k /\ r.photo = p
  BY <1>2 DEF Request
<1>4. PICK S : S = Photos(k)
  OBVIOUS
<1>5. photo' = [q \in DOMAIN photo |->
                  IF q \in S THEN [photo[q] EXCEPT !.primary = FALSE] ELSE photo[q]]
  BY <1>1, <1>4
<1>6. /\ RowsKeep /\ \A i : Photos(i)' = Photos(i)
      /\ \A i : Photos(i) \cap S = {} => SameRows(i)
  BY <1>1, <1>5, MarksKeep DEF PrimaryInv
<1>7. \A i \in items \ {k} : SameRows(i)
  BY <1>4, <1>6 DEF Photos
<1>8. Primaries(k)' = {}
  <2>1. \A q \in Photos(k) : ~photo'[q].primary
    BY <1>4, <1>5 DEF Photos, PrimaryInv, TypedInv, TypeOK
  <2> QED
    BY <1>6, <2>1 DEF Primaries
<1>9. ~Spares("set", r)
  BY DEF Spares
<1>10. r.photo \in Photos(k) => Main("set", r, k)'
  BY <1>6, <1>8 DEF Main
<1>11. r.photo # Nothing
  BY <1>1, <1>3, PhotoGalleryAssumption DEF PrimaryInv, TypedInv, TypeOK
<1>12. Comes(t, "set", r, {}, {k}) /\ UNCHANGED items /\ "set" \in Label \ {"idle"}
       /\ {k} \in SUBSET {k}
  BY <1>1, <1>2 DEF Label
<1> QED
  BY <1>3, <1>6, <1>7, <1>9, <1>10, <1>11, <1>12, ComesKeeps DEF PrimaryInv

LEMMA DeletePhotoKeeps ==
  ASSUME PrimaryInv, NEW t \in Thread, DeletePhoto(t)
  PROVE  \A i \in items' \ disturbed' : PrimaryOK(i)'
<1>1. PICK k \in Item, p \in DOMAIN photo :
      /\ Comes(t, "unlink", Request(k, p, photo[p].file, {}, photo[p].primary), {}, {})
      /\ UNCHANGED <<table, disk, taken>>
  BY DEF DeletePhoto
<1>2. PICK r : r = Request(k, p, photo[p].file, {}, photo[p].primary)
  OBVIOUS
<1>3. r.item = k /\ r.photo = p /\ (r.prim <=> photo[p].primary)
  BY <1>2 DEF Request
<1>4. p # Nothing
  BY <1>1, PhotoGalleryAssumption DEF PrimaryInv, TypedInv, TypeOK
<1>5. ASSUME Settled(k), r.photo \in Photos(k)
      PROVE  /\ Spares("unlink", r) => Beside("unlink", r, k)
             /\ ~Spares("unlink", r) => Main("unlink", r, k)
  <2>1. CASE r.prim
    BY <1>3, <1>5, <2>1 DEF Spares, Main
  <2>2. CASE ~r.prim
    BY <1>3, <1>4, <2>2 DEF Spares, Beside, Primaries
  <2> QED
    BY <2>1, <2>2
<1>6. /\ Comes(t, "unlink", r, {}, {}) /\ UNCHANGED <<items, ref, photo>>
      /\ "unlink" \in Label \ {"idle"}
  BY <1>1, <1>2 DEF table, Label
<1>7. r.photo # Nothing
  BY <1>3, <1>4
<1> QED
  BY <1>3, <1>5, <1>6, <1>7, PlainComes

LEMMA OldUploadKeeps ==
  ASSUME PrimaryInv, NEW t \in Thread, OldUpload(t)
  PROVE  \A i \in items' \ disturbed' : PrimaryOK(i)'
<1>1. PICK k \in Item :
        Comes(t, "ref", Request(k, Nothing, <<k, 0>>, {}, FALSE), {k}, {}) /\ UNCHANGED table
  BY DEF OldUpload
<1>2. PICK r : r = Request(k, Nothing, <<k, 0>>, {}, FALSE)
  OBVIOUS
<1>3. r.item = k /\ Comes(t, "ref", r, {k}, {}) /\ UNCHANGED <<items, ref, photo>>
      /\ "ref" \in Label \ {"idle"}
  BY <1>1, <1>2 DEF Request, table, Label
<1> QED
  BY <1>3, PlainComes

LEMMA OldDeleteKeeps ==
  ASSUME PrimaryInv, NEW t \in Thread, OldDelete(t)
  PROVE  \A i \in items' \ disturbed' : PrimaryOK(i)'
<1>1. PICK k \in Item, label \in {"ref", "unlink"} :
        Comes(t, label, Request(k, Nothing, ref[k], {}, FALSE), {k}, {}) /\ UNCHANGED table
  BY DEF OldDelete
<1>2. PICK r : r = Request(k, Nothing, ref[k], {}, FALSE)
  OBVIOUS
<1>3. r.item = k /\ Comes(t, label, r, {k}, {}) /\ UNCHANGED <<items, ref, photo>>
      /\ label \in Label \ {"idle"}
  BY <1>1, <1>2 DEF Request, table, Label
<1> QED
  BY <1>3, PlainComes

LEMMA PutItemKeeps ==
  ASSUME PrimaryInv, NEW t \in Thread, PutItem(t)
  PROVE  \A i \in items' \ disturbed' : PrimaryOK(i)'
<1>1. PICK k \in items : \E f \in {ref[k], NoName} :
        /\ Comes(t, "ref", Request(k, Nothing, f, {}, FALSE), IF f = ref[k] THEN {} ELSE {k}, {})
        /\ UNCHANGED table
  BY DEF PutItem
<1>2. PICK f, upsets :
        /\ upsets = IF f = ref[k] THEN {} ELSE {k}
        /\ Comes(t, "ref", Request(k, Nothing, f, {}, FALSE), upsets, {})
        /\ UNCHANGED table
  BY <1>1
<1>3. PICK r : r = Request(k, Nothing, f, {}, FALSE)
  OBVIOUS
<1>4. r.item = k /\ r.file = f /\ r.parts = {}
  BY <1>3 DEF Request
<1>5. Comes(t, "ref", r, upsets, {}) /\ UNCHANGED <<items, ref, photo>> /\ "ref" \in Label \ {"idle"}
      /\ k \in Item
  BY <1>2, <1>3 DEF table, Label, PrimaryInv, TypedInv, TypeOK
<1>6. ~Spares("ref", r)
  BY DEF Spares
<1>7. Settled(k) /\ k \notin upsets => Main("ref", r, k)
  <2>1. k \notin upsets => r.file = ref[k]
    BY <1>2, <1>4
  <2> QED
    BY <1>4, <2>1 DEF Main, Settled
<1> QED
  BY <1>4, <1>5, <1>6, <1>7, PlainComes

\* No thread steps.
LEMMA ItemKept ==
  ASSUME NEW i, PrimaryOK(i), SameRows(i), RowsKeep, UNCHANGED threads
  PROVE  PrimaryOK(i)'
<1>1. \A u \in Thread : pc'[u] = pc[u] /\ req'[u] = req[u]
  BY DEF threads
<1>2. ASSUME NEW u \in Thread
      PROVE  /\ At(u, i)' <=> At(u, i)
             /\ At(u, i) => Own(u, i)'
             /\ Aside(u)' <=> Aside(u)
             /\ Main(pc[u], req[u], i) => Main(pc[u], req[u], i)'
             /\ Beside(pc[u], req[u], i) => Beside(pc[u], req[u], i)'
  <2>1. pc'[u] = pc[u] /\ req'[u] = req[u]
    BY <1>1
  <2>2. Photos(i)' = Photos(i)
    BY DEF SameRows
  <2>3. At(u, i)' <=> At(u, i)
    BY <2>1, <2>2, AtIs, AtAfter
  <2>4. At(u, i) => Own(u, i)
    BY DEF PrimaryOK
  <2>5. At(u, i) => Own(u, i)'
    BY <2>1, <2>4 DEF Own, RowsKeep, Photos
  <2>6. Aside(u)' <=> Aside(u)
    BY <2>1 DEF Aside, Spares
  <2>7. PICK label, r : label = pc[u] /\ r = req[u]
    OBVIOUS
  <2>8. /\ Main(label, r, i) => Main(label, r, i)'
        /\ Beside(label, r, i) => Beside(label, r, i)'
    BY SameItem
  <2>9. /\ Main(pc[u], req[u], i)' <=> Main(label, r, i)'
        /\ Beside(pc[u], req[u], i)' <=> Beside(label, r, i)'
    BY <2>1, <2>7 DEF Main, Beside
  <2> QED
    BY <2>3, <2>5, <2>6, <2>7, <2>8, <2>9
<1>3. \A u \in Thread : At(u, i)' => Own(u, i)'
  BY <1>2
<1>4. \A u \in Thread : At(u, i)' /\ ~Aside(u)' =>
         Main(pc[u], req[u], i)' /\ \A v \in Thread : At(v, i)' => v = u
  BY <1>2 DEF PrimaryOK
<1>5. (\A u \in Thread : At(u, i)' => Aside(u)') =>
         Settled(i)' /\ \A u \in Thread : At(u, i)' => Beside(pc[u], req[u], i)'
  BY <1>2, SameItem DEF PrimaryOK
<1> QED
  BY <1>3, <1>4, <1>5 DEF PrimaryOK

LEMMA DeleteItemKeeps ==
  ASSUME PrimaryInv, DeleteItem PROVE \A i \in items' \ disturbed' : PrimaryOK(i)'
<1>1. PICK k \in items :
         /\ items' = items \ {k}
         /\ ref'   = [ref EXCEPT ![k] = NoName]
         /\ photo' = [p \in DOMAIN photo \ Photos(k) |-> photo[p]]
  BY DEF DeleteItem
<1>2. UNCHANGED disturbed /\ UNCHANGED threads
  BY DEF DeleteItem
<1>3. DOMAIN photo' = DOMAIN photo \ Photos(k) /\ \A p \in DOMAIN photo' : photo'[p] = photo[p]
  BY <1>1
<1>4. RowsKeep
  BY <1>3 DEF RowsKeep
<1>5. ASSUME NEW i \in items' \ disturbed' PROVE PrimaryOK(i)'
  <2>1. i \in items \ disturbed /\ i # k /\ i \in Item
    BY <1>1, <1>2, <1>5 DEF PrimaryInv, TypedInv, TypeOK
  <2>2. Photos(i)' = Photos(i)
    BY <1>3, <2>1 DEF Photos
  <2>3. SameRows(i)
    BY <1>1, <1>3, <2>1, <2>2 DEF SameRows, Photos, PrimaryInv, TypedInv, TypeOK
  <2> QED
    BY <1>2, <1>4, <2>1, <2>3, ItemKept DEF PrimaryInv
<1> QED
  BY <1>5

\* The requests a crash cuts that are not aside disturb their items.
LEMMA CrashKeeps ==
  ASSUME PrimaryInv, Crash PROVE \A i \in items' \ disturbed' : PrimaryOK(i)'
<1>1. /\ pc' = [t \in Thread |-> "idle"]
      /\ disturbed' = disturbed \cup UNION {Busy(t) : t \in {u \in UnderWay : ~Aside(u)}}
      /\ UNCHANGED <<items, ref, photo>>
  BY DEF Crash, table
<1>2. ASSUME NEW i \in items' \ disturbed' PROVE PrimaryOK(i)'
  <2>1. i \in items /\ PrimaryOK(i) /\ SameRows(i)
    BY <1>1, <1>2, SamePhotos DEF PrimaryInv
  <2>2. \A t \in Thread : At(t, i) => Aside(t)
    BY <1>1, <1>2 DEF At, UnderWay
  <2>3. Settled(i)'
    BY <2>1, <2>2, SameItem DEF PrimaryOK
  <2>4. \A t \in Thread : ~At(t, i)'
    BY <1>1, AtAfter
  <2> QED
    BY <2>3, <2>4 DEF PrimaryOK
<1> QED
  BY <1>2

LEMMA PrimaryInit == ASSUME Init PROVE PrimaryInv
<1>1. ASSUME NEW i \in items PROVE PrimaryOK(i)
  <2>1. \A t \in Thread : ~At(t, i)
    BY AtIs DEF Init
  <2>2. Settled(i)
    BY <1>1 DEF Init, Settled, Settles, Photos
  <2> QED
    BY <2>1, <2>2 DEF PrimaryOK
<1> QED
  BY <1>1, TypedInit DEF PrimaryInv

LEMMA PrimaryNext == ASSUME PrimaryInv, Next PROVE PrimaryInv'
<1>1. TypedInv'
  BY TypedStep DEF PrimaryInv
<1>2. ASSUME NEW t \in Thread, MakePrimary(t) \/ Promote(t)
      PROVE  \A i \in items' \ disturbed' : PrimaryOK(i)'
  BY <1>1, <1>2, SetPrimaryKeeps DEF MakePrimary, Promote
<1>3. \A i \in items' \ disturbed' : PrimaryOK(i)'
  BY <1>1, <1>2, UploadKeeps, WriteFilesKeeps, InsertKeeps, SetRefKeeps, PutPrimaryKeeps,
     ReadNameKeeps, DeletePhotoKeeps, UnlinkKeeps, DropRowKeeps, NextPhotoKeeps, OldUploadKeeps,
     OldDeleteKeeps, PutItemKeeps, DeleteItemKeeps, CrashKeeps DEF Next, Step
<1> QED
  BY <1>1, <1>3 DEF PrimaryInv

LEMMA PrimaryStutters == ASSUME PrimaryInv, UNCHANGED vars PROVE PrimaryInv'
<1>1. TypedInv' /\ UNCHANGED <<items, ref, photo, disturbed>> /\ UNCHANGED threads
  BY TypedStutters DEF PrimaryInv, vars, table
<1>2. RowsKeep /\ \A i : SameRows(i)
  BY <1>1, SamePhotos
<1>3. \A i \in items' \ disturbed' : PrimaryOK(i)'
  BY <1>1, <1>2, ItemKept DEF PrimaryInv
<1> QED
  BY <1>1, <1>3 DEF PrimaryInv

LEMMA InvIsShown == ASSUME PrimaryInv PROVE PrimaryIsShown
<1> SUFFICES ASSUME NEW i \in items, Quiet(i), i \notin disturbed
             PROVE  \/ Photos(i) = {} /\ ref[i] = NoName
                    \/ \E p \in Photos(i) : Primaries(i) = {p} /\ ref[i] = photo[p].file
  BY DEF PrimaryIsShown
<1>1. \A t \in Thread : At(t, i) => Aside(t)
  BY DEF Quiet, At, UnderWay
<1>2. Settled(i)
  BY <1>1 DEF PrimaryInv, PrimaryOK
<1> QED
  BY <1>2 DEF Settled, Settles

\* An item with photos shows its one primary photo while only uploads behind it and deletions
\* of other photos are about it, in any number and cut short by crashes or not, where the
\* other requests came one at a time and ran to their end, or since a PUT put it right.
THEOREM PrimaryStaysShown == Spec => []PrimaryIsShown
<1>1. Init => PrimaryInv
  BY PrimaryInit
<1>2. PrimaryInv /\ [Next]_vars => PrimaryInv'
  BY PrimaryNext, PrimaryStutters
<1>3. PrimaryInv => PrimaryIsShown
  BY InvIsShown
<1> QED
  BY <1>1, <1>2, <1>3, PTL DEF Spec
=============================================================================
