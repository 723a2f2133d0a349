---------------------------- MODULE IncidentLog ----------------------------
(***************************************************************************)
(* contracts/IncidentLog.sol: the append-only log of incident records.     *)
(* Any account may call logIncident; the contract neither checks the       *)
(* sender nor looks for an equal record.  The block timestamp is left out  *)
(* and the sender is always the relayer account, the only one modelled.    *)
(***************************************************************************)
EXTENDS Naturals, Sequences

CONSTANTS
  RecordHashes,   \* values of the recordHash argument
  ReporterIds     \* values of the reporterId argument

VARIABLE
  incidents       \* the contract's array; "call" is a history field naming
                  \* the log_incident_on_chain call that the record came from

Severity == 0 .. 3      \* Low, Medium, High, Critical
Medium   == 1

\* The arguments of one logIncident call.
Arguments ==
  [recordHash : RecordHashes, reporterId : ReporterIds, severity : Severity]

\* logIncident: the record goes to the end of the array, its id is the old length.
LogIncident(arg, call) ==
  incidents' = Append(incidents, [arg |-> arg, call |-> call])

IncidentLogTypeOK == incidents \in Seq([arg : Arguments, call : Nat])
=============================================================================
