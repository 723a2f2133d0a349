--------------------------- MODULE MC_Deployment ---------------------------
(* One operator runs every script while another builds.                     *)
EXTENDS Deployment

CONSTANTS o1, o2

MCScripts == [o \in Operators |-> IF o = o1 THEN Names ELSE {"prebuild"}]

\* Docker with a .env that names the governance, and --local with one that does not.
MCHosts == {[mode |-> "docker", dotenv |-> "owner"], [mode |-> "local", dotenv |-> "nothing"]}

\* A fresh .env, one that says local, and one for a live network, without and with
\* keys.
MCEnvironments ==
  {[config |-> TRUE, localMode |-> m[1], deployKey |-> m[2], ownerKey |-> FALSE, proxyKey |-> m[2],
    proxyURL |-> TRUE, normalURL |-> TRUE, simulated |-> TRUE]
   : m \in {<<"", FALSE>>, <<"true", FALSE>>, <<"false", FALSE>>, <<"false", TRUE>>}}
=============================================================================
