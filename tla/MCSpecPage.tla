----------------------------- MODULE MCSpecPage -----------------------------
(* The spec page for TLC: two tables for the children of the image and one  *)
(* that names an absent child.                                              *)
EXTENDS SpecPage
=============================================================================
