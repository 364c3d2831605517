-------------------------- MODULE MCBucketListing --------------------------
(***************************************************************************)
(* Finite instances of BucketListing: five keys, two on a page, so that a  *)
(* listing takes three pages and keys come and go between any two of them. *)
(***************************************************************************)
EXTENDS BucketListing

MCKeys == {1, 2, 4, 5, 7}
=============================================================================
