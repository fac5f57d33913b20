-------------------------- MODULE MCEvidenceWriter --------------------------
(* Two small appends, a large one and a finalize.                           *)
EXTENDS EvidenceWriter

CONSTANTS a, b, big, fin
=============================================================================
