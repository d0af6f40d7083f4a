----------------------------- MODULE MCWebClient -----------------------------
(***************************************************************************)
(* WebClient for TLC.  Requests are interchangeable, and so are items.     *)
(***************************************************************************)
EXTENDS WebClient

Symmetry == Permutations(Req) \cup Permutations(Item)

=============================================================================
