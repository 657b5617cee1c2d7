------------------------ MODULE MCRateLimiterHistory ------------------------
(* One key is enough for the properties of one bucket: the buckets of two    *)
(* keys meet only in RequestPipeline.  See the README for the bounds.        *)
EXTENDS RateLimiterHistory

CONSTANT k1

MCKeys == {k1}
=============================================================================
