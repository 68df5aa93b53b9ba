----------------------------- MODULE MCUserAccounts -----------------------------
(* A small instance of UserAccounts.  Accounts are rows that calls never relate *)
(* to each other: one account and the calls that overlap on it are enough.      *)
EXTENDS UserAccounts, TLC

CONSTANTS ana, root, admin, viewer

MCChanges == {[isActive |-> FALSE], [isActive |-> TRUE]}

RequestSymmetry == Permutations(Requests)
=================================================================================
