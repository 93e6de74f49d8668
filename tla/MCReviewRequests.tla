--------------------------- MODULE MCReviewRequests ---------------------------
(* Instances of ReviewRequests for TLC.                                      *)
EXTENDS ReviewRequests, TLC

Interchangeable ==
    Permutations(Requests) \cup Permutations(Customers) \cup Permutations(Runs)
        \cup Permutations(Handlers)
=============================================================================
