--------------------------- MODULE MCPcapPipeline ---------------------------
(* Model-checking instances of PcapPipeline: see the cfg files.            *)
EXTENDS PcapPipeline

MCMix(number) == Cardinality(number)
=============================================================================
