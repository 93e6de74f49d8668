---------------------------- MODULE MCAiDraftQuota ----------------------------
(* Instances of AiDraftQuota for TLC.                                        *)
EXTENDS AiDraftQuota, TLC

Interchangeable == Permutations(Drafts)
=============================================================================
