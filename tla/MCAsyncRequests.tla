---------------------------- MODULE MCAsyncRequests ----------------------------
(* Model values for AsyncRequests: the requests are interchangeable.         *)
EXTENDS AsyncRequests, TLC

Identities == Permutations(Requests)

================================================================================
