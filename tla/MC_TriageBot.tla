---------------------------- MODULE MC_TriageBot ----------------------------
(***************************************************************************)
(* Ann is in ALLOWED_USER_IDS, Ben has to send the access code first.      *)
(***************************************************************************)
EXTENDS TriageBot

CONSTANTS bot, script, ann, ben, test

MCClients   == {bot, script}
MCUsers     == {ann, ben}
MCAllowed   == {ann}
MCReporters == {ann, ben, test}
MCHashes    == Nat
PlainTexts  == [severity : {0, 2}, markup : {FALSE}]
AnyTexts    == [severity : {0, 3}, markup : BOOLEAN]
=============================================================================
