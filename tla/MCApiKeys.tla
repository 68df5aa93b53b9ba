-------------------------------- MODULE MCApiKeys -------------------------------
(* Small instances of ApiKeys; the keys and the requests are interchangeable.  *)
EXTENDS ApiKeys, TLC

CONSTANTS expirer, cleaner

KeySymmetry == Permutations(Keys) \cup Permutations(Requests)
================================================================================
