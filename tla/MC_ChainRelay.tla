--------------------------- MODULE MC_ChainRelay ---------------------------
(***************************************************************************)
(* Two processes that share the relayer's key, one hash and one reporter,  *)
(* all four severities, three calls in all.                                *)
(***************************************************************************)
EXTENDS ChainRelay

CONSTANTS bot, script, h, w

MCClients   == {bot, script}
MCHashes    == {h}
MCReporters == {w}
=============================================================================
