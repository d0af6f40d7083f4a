---------------------------- MODULE MCMarketplace ----------------------------
(***************************************************************************)
(* Marketplace on small instances.  One thread's statements interleave     *)
(* with one other's; what the clients use is divided between the runs.     *)
(***************************************************************************)
EXTENDS Marketplace, TLC

ThreadSymmetry == Permutations(Thread)

\* Listing, selling, amending and voiding, with the webhook, DELETE of the items
\* meanwhile, and crashes.
Selling ==
    {"PostListing", "PutListing", "DeleteListing", "Publish", "PostSale", "PutSale",
     "DeleteSale", "Webhook", "PutItem", "DeleteItem", "Inquiry", "Crash"}

\* Building the catalogue, editing and clearing it.
Cataloguing ==
    {"PostItem", "CopyItem", "PutItem", "DeleteItem", "Appraisal", "Crash"}
=============================================================================
