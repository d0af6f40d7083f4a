---------------------------- MODULE MCPhotoGallery ----------------------------
(***************************************************************************)
(* PhotoGallery for TLC.                                                   *)
(***************************************************************************)
EXTENDS PhotoGallery, TLC

\* A client names a file as the first of any item's upload is named.
FirstOfEach == {<<i, 1>> : i \in Item}

\* Threads, ids and items are interchangeable.
Symmetry == Permutations(Thread) \cup Permutations(PhotoId) \cup Permutations(Item)

(***************************************************************************)
(* States that differ only in files no photo has, or in what is observed   *)
(* of an item that is gone, are one to TLC: a file is written before a     *)
(* photo has it, and an item does not come back.                           *)
(***************************************************************************)
Held == {photo[p].file : p \in DOMAIN photo}
          \cup UNION {req[t].parts : t \in {u \in Thread : pc[u] # "write"}}

Seen == <<table, threads, disk \cap Held, taken \cap Held, disturbed \cap items>>

=============================================================================
