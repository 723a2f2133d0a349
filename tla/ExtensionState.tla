--------------------------- MODULE ExtensionState ---------------------------
(***************************************************************************)
(* What GET /state promises of the extension: the number of reports        *)
(* classified and the severity of the last one change together, and a      *)
(* reader sees both as they were at one moment.                            *)
(***************************************************************************)
EXTENDS Naturals

CONSTANTS
  Readers,        \* GET /state requests
  Labels          \* severities a classification may carry

VARIABLES
  classificationCount,
  lastSeverity,
  seen            \* the state each reader was last given

vars == <<classificationCount, lastSeverity, seen>>

Nothing == [count |-> 0, last |-> ""]

Init ==
  /\ classificationCount = 0 /\ lastSeverity = ""
  /\ seen = [q \in Readers |-> Nothing]

Classified(label) ==
  /\ classificationCount' = classificationCount + 1
  /\ lastSeverity' = label
  /\ UNCHANGED seen

GetState(q) ==
  /\ seen' = [seen EXCEPT ![q] = [count |-> classificationCount, last |-> lastSeverity]]
  /\ UNCHANGED <<classificationCount, lastSeverity>>

Next ==
  \/ \E label \in Labels : Classified(label)
  \/ \E q \in Readers : GetState(q)

Spec == Init /\ [][Next]_vars
=============================================================================
