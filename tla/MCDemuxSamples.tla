--------------------------- MODULE MCDemuxSamples ---------------------------
(* All the demux samples that have a table; the assumption of the proofs     *)
(* about them is evaluated with them.                                        *)
EXTENDS DemuxSamples, SampleLifeProofs
=============================================================================
