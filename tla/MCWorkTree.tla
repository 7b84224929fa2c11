---- MODULE MCWorkTree ----
(* A directory of one file, contents a and b; b reaches the threshold.     *)
EXTENDS WorkTreeSync

\* LogicalTree promises nothing after a user's file has been destroyed.
NothingLost == lost = {}
====
