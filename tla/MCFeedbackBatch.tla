-------------------------- MODULE MCFeedbackBatch --------------------------
(* Instances of FeedbackBatch for TLC: the samples are interchangeable     *)
(* inside and outside the canary.                                          *)
EXTENDS FeedbackBatch, TLC

CONSTANTS s1, s2, s3

MCSamples == {s1, s2, s3}
MCCanary == {s1}
MCRest == Permutations({s2, s3})
=============================================================================
