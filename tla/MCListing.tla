------------------------------- MODULE MCListing ------------------------------
(* A small instance of Listing for TLC.                                    *)
EXTENDS Listing

Three == 1 .. 3
=============================================================================
