------------------------ MODULE MC_TriageExtension ------------------------
(* Two actions in flight and one poller of GET /state. *)
EXTENDS TriageExtension

CONSTANTS a1, a2, q1

MCActions == {a1, a2}
MCReaders == {q1}
=============================================================================
