--------------------------- MODULE MCReplyPublishing ---------------------------
(* Instances of ReplyPublishing for TLC: one platform, at most two reviews.  *)
EXTENDS ReplyPublishing, TLC

CONSTANTS google

MCPlatforms == {google}
MCPlatformOf == [r \in Reviews |-> google]

Interchangeable == Permutations(Texts) \cup Permutations(Ticks)
                  \cup Permutations(Requests)
=============================================================================
