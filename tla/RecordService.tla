--------------------------- MODULE RecordService ---------------------------
(***************************************************************************)
(* What log_incident_on_chain promises its caller, without accounts,       *)
(* nonces, transactions or a pool.  A call is requested once and answered  *)
(* at most once.  Its record enters the log at most once, at any moment    *)
(* after the request, even after a failure was reported; a success is      *)
(* reported only when the record is there.                                 *)
(***************************************************************************)
EXTENDS IncidentLog

VARIABLE calls      \* the calls made: arguments and outcome

vars == <<incidents, calls>>

Recorded(c) == \E i \in DOMAIN incidents : incidents[i].call = c

Init == incidents = <<>> /\ calls = <<>>

Request(arg) ==
  /\ \E o \in {"running", "raised"} :
       calls' = Append(calls, [arg |-> arg, outcome |-> o])
  /\ UNCHANGED incidents

\* Only Medium and above, once per call, and with the call's own arguments.
Record(c) ==
  /\ calls[c].arg.severity >= Medium
  /\ ~Recorded(c)
  /\ LogIncident(calls[c].arg, c)
  /\ UNCHANGED calls

Answer(c, outcome) ==
  /\ calls[c].outcome = "running"
  /\ outcome = "logged" => Recorded(c)
  /\ calls' = [calls EXCEPT ![c].outcome = outcome]
  /\ UNCHANGED incidents

Next ==
  \/ \E arg \in Arguments : Request(arg)
  \/ \E c \in DOMAIN calls : Record(c)
  \/ \E c \in DOMAIN calls, o \in {"logged", "raised", "abandoned"} : Answer(c, o)

Spec == Init /\ [][Next]_vars
=============================================================================
