-------------------------- MODULE MCIngestPipeline ---------------------------
(***************************************************************************)
(* IngestPipeline for TLC. Concurrent requests are interchangeable.        *)
(***************************************************************************)
EXTENDS IngestPipeline, TLC

RequestSymmetry == Permutations(Requests)
=============================================================================
