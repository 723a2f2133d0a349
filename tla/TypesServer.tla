---------------------------- MODULE TypesServer ----------------------------
(***************************************************************************)
(* internal/typesserver and pkg/decoder: POST /decode turns the bytes of   *)
(* an instruction's message or result into JSON, for whoever shows them.   *)
(* A payload is abstracted to its form, by what the decoders tell apart.   *)
(***************************************************************************)
EXTENDS FiniteSets

Kinds == {"message", "result"}
Forms == {"abiReport", "json", "junk", "notHex"}

RegistryKey(opType, opCommand, kind) ==
  [opType |-> opType, opCommand |-> opCommand, kind |-> kind]

\* Mutant: the results of the extension are not registered.
RegisterMessagesOnly ==
  {[key |-> RegistryKey("INCIDENT_TRIAGE", "CLASSIFY_SEVERITY", "message"), accepts |-> {"abiReport"}]}

\* RegisterDecoders: an ABI decoder for the messages, a JSON one for the results.
RegisterDecoders ==
  {[key |-> RegistryKey("INCIDENT_TRIAGE", "CLASSIFY_SEVERITY", "message"), accepts |-> {"abiReport"}],
   [key |-> RegistryKey("INCIDENT_TRIAGE", "CLASSIFY_SEVERITY", "result"), accepts |-> {"json"}]}

Registry(key) == {d \in RegisterDecoders : d.key = key}

\* The decoder of the command, or else the one of all commands of the type.
Lookup(opType, opCommand, kind) ==
  LET exact == Registry(RegistryKey(opType, opCommand, kind))
  IN IF exact # {} THEN exact ELSE Registry(RegistryKey(opType, "", kind))

\* The HTTP status of POST /decode; the checks come in this order.
handleDecode(req) ==
  LET found == Lookup(req.opType, req.opCommand, req.kind)
  IN CASE ~req.parses -> 400
       [] req.parses /\ (req.kind \notin Kinds \/ req.data = "notHex") -> 400
       [] req.parses /\ req.kind \in Kinds /\ req.data # "notHex" /\ found = {} -> 404
       [] OTHER -> IF \E d \in found : req.data \in d.accepts THEN 200 ELSE 422

Decode(opType, opCommand, kind, data) ==
  handleDecode([parses |-> TRUE, opType |-> opType, opCommand |-> opCommand, kind |-> kind, data |-> data])
=============================================================================
