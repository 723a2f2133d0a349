-------------------------- MODULE InstructionFlow --------------------------
(***************************************************************************)
(* The way of an instruction: run-test sends a report to the               *)
(* InstructionSender, the transaction is mined, the proxy queues the       *)
(* instruction, the TEE node in the container takes it and asks the        *)
(* extension, the answer goes back to the proxy, and run-test polls for it *)
(* a bounded number of times.  It does so for a mild report first and then *)
(* for a grave one.                                                        *)
(*                                                                         *)
(* In the container, main watches the extension's server only: the TEE     *)
(* node runs in a goroutine that may return unnoticed.  An instruction     *)
(* that was taken is lost with the container.  The chain, the proxy and    *)
(* the node are modelled from how the tools use them; what the extension   *)
(* does with one action is in TriageExtension.                             *)
(***************************************************************************)
EXTENDS TypesServer, Naturals, Sequences

CONSTANTS
  Clients,        \* runs of run-test
  Assessments,    \* the labels that Gemini may give to each report
  Repeats,        \* polls of one ActionResult (15 in the code)
  MaxBoots, MaxFaults        \* bounds (model checking only)

Reports == {"mild", "grave"}

\* The rubric's four tiers, an absent "severity", and any other text.
Tiers  == {"LOW", "MEDIUM", "HIGH", "CRITICAL"}
Labels == Tiers \cup {"", "other"}

ASSUME FlowAssumption ==
  /\ Assessments \in [Reports -> SUBSET Labels] /\ \A r \in Reports : Assessments[r] # {}
  /\ Repeats \in Nat \ {0} /\ MaxBoots \in Nat /\ MaxFaults \in Nat

VARIABLES
  isSet,          \* the sender has its extension id
  sent,           \* the instructions, by their ids: who sent which report
  queue,          \* those the TEE has not taken
  working,        \* those the extension is at work on
  results,        \* the answer to each instruction, at the proxy
  main,           \* the container's main: "down", "booting", "running"
  server,         \* the extension's server: "off", "up", "failed"
  teeNode,        \* the TEE node's goroutine: "off", "up", "gone"
  client,         \* each run of run-test
  boots, faults   \* counted to bound them

chainVars     == <<isSet, sent>>
proxyVars     == <<queue, results>>
containerVars == <<working, main, server, teeNode>>
vars == <<chainVars, proxyVars, containerVars, client, boots, faults>>

Ids     == DOMAIN sent
None    == [status |-> 2, severity |-> "", shouldLog |-> FALSE]
Answers == [status : {0, 1}, severity : Labels, shouldLog : BOOLEAN]
Points  == {"start", "setting", "send", "sending", "poll", "verify", "passed", "failed"}
Ended(c) == client[c].pc \in {"passed", "failed"}

TypeOK ==
  /\ isSet \in BOOLEAN
  /\ sent \in Seq([by : Clients, report : Reports])
  /\ queue \subseteq Ids /\ working \subseteq Ids
  /\ results \in Seq(Answers \cup {None}) /\ Len(results) = Len(sent)
  /\ main \in {"down", "booting", "running"}
  /\ server \in {"off", "up", "failed"} /\ teeNode \in {"off", "up", "gone"}
  /\ client \in [Clients -> [pc : Points, report : Reports, id : Nat, polls : Nat,
                             response : Answers \cup {None}]]
  /\ boots \in Nat /\ faults \in Nat

Init ==
  /\ isSet = FALSE /\ sent = <<>> /\ queue = {} /\ working = {} /\ results = <<>>
  /\ main = "down" /\ server = "off" /\ teeNode = "off"
  /\ client = [c \in Clients |-> [pc |-> "start", report |-> "mild", id |-> 0, polls |-> 0,
                                  response |-> None]]
  /\ boots = 0 /\ faults = 0

Fault == faults < MaxFaults /\ faults' = faults + 1

-----------------------------------------------------------------------------
(* The container: cmd/docker *)

\* The TEE node and the extension's server start; the server may fail to bind.
Boot ==
  /\ main = "down" /\ boots < MaxBoots
  /\ main' = "booting" /\ teeNode' = "up" /\ boots' = boots + 1
  /\ \/ server' = "up" /\ UNCHANGED faults
     \/ server' = "failed" /\ Fault
  /\ UNCHANGED <<chainVars, proxyVars, working, client>>

Halt == main' = "down" /\ server' = "off" /\ teeNode' = "off" /\ working' = {}

\* Mutant: the error channel is looked at once, 100 ms after the start.
WatchOnce ==
  /\ main = "booting"
  /\ IF server = "failed" THEN Halt
     ELSE main' = "running" /\ UNCHANGED <<server, teeNode, working>>
  /\ UNCHANGED <<chainVars, proxyVars, client, boots, faults>>

\* The error channel is looked at 100 ms after the start, and then always.
Watch ==
  /\ \/ main \in {"booting", "running"} /\ server = "failed" /\ Halt
     \/ main = "booting" /\ server # "failed" /\ main' = "running" /\ UNCHANGED <<server, teeNode, working>>
  /\ UNCHANGED <<chainVars, proxyVars, client, boots, faults>>

\* The server stops to serve; nobody learns when the node returns.
ServerFails ==
  /\ main # "down" /\ server = "up" /\ server' = "failed" /\ Fault
  /\ UNCHANGED <<chainVars, proxyVars, working, main, teeNode, client, boots>>

NodeReturns ==
  /\ teeNode = "up" /\ teeNode' = "gone" /\ Fault
  /\ UNCHANGED <<chainVars, proxyVars, working, main, server, client, boots>>

\* A signal ends main, or the container is killed.
Stop ==
  /\ main # "down" /\ Halt /\ Fault
  /\ UNCHANGED <<chainVars, proxyVars, client, boots>>

-----------------------------------------------------------------------------
(* The TEE *)

\* The node takes an instruction from the proxy and posts it to the extension.
Take(id) ==
  /\ id \in queue /\ teeNode = "up" /\ server = "up"
  /\ queue' = queue \ {id} /\ working' = working \cup {id}
  /\ UNCHANGED <<chainVars, results, main, server, teeNode, client, boots, faults>>

Classified(label) ==
  [status |-> 1, severity |-> label, shouldLog |-> label \in Tiers \ {"LOW"}]

\* Mutant: the answer goes to the first instruction in work.
AnswersFirst(id) ==
  /\ id \in working /\ teeNode = "up" /\ server = "up"
  /\ LET to == CHOOSE i \in Ids : \A j \in Ids : i <= j
     IN \E label \in Assessments[sent[id].report] : results' = [results EXCEPT ![to] = Classified(label)]
  /\ working' = working \ {id}
  /\ UNCHANGED <<chainVars, queue, main, server, teeNode, client, boots, faults>>

\* The extension answers: with the label that Gemini gives, or with status 0.
Answer(id) ==
  /\ id \in working /\ teeNode = "up" /\ server = "up"
  /\ \/ /\ \E label \in Assessments[sent[id].report] : results' = [results EXCEPT ![id] = Classified(label)]
        /\ UNCHANGED faults
     \/ results' = [results EXCEPT ![id] = [status |-> 0, severity |-> "", shouldLog |-> FALSE]] /\ Fault
  /\ working' = working \ {id}
  /\ UNCHANGED <<chainVars, queue, main, server, teeNode, client, boots>>

-----------------------------------------------------------------------------
(* run-test *)

Goes(c, r) == client' = [client EXCEPT ![c] = r]
Moves(c, pc) == Goes(c, [client[c] EXCEPT !.pc = pc])

\* SetExtensionId: gas estimation already tells "already set"; else the
\* transaction is sent, or the chain cannot be reached or refuses.
Set(c) ==
  /\ client[c].pc = "start"
  /\ \/ Moves(c, IF isSet THEN "send" ELSE "setting") /\ UNCHANGED faults
     \/ Moves(c, "failed") /\ Fault
  /\ UNCHANGED <<chainVars, proxyVars, containerVars, boots>>

\* It is mined, or reverts because another run's was mined before: then the
\* call is simulated for its reason, and "already set" is no failure either.
\* The run fails when the reason, or the receipt, cannot be had.
SetMined(c) ==
  /\ client[c].pc = "setting"
  /\ \/ isSet' = TRUE /\ Moves(c, "send") /\ UNCHANGED faults
     \/ isSet' \in {isSet, TRUE} /\ Moves(c, "failed") /\ Fault
  /\ UNCHANGED <<sent, proxyVars, containerVars, boots>>

\* SendClassifySeverity's transaction, and the wait for it, which has no bound.
SendReport(c) ==
  /\ client[c].pc = "send" /\ Moves(c, "sending")
  /\ UNCHANGED <<chainVars, proxyVars, containerVars, boots, faults>>

\* The report becomes an instruction, which the proxy queues.
Instructs(c) ==
  /\ sent' = Append(sent, [by |-> c, report |-> client[c].report])
  /\ queue' = queue \cup {Len(sent')} /\ results' = Append(results, None)

\* It is mined, and the id of its event is taken.  Or the run fails: it reverts,
\* or it is mined and its receipt cannot be had or read.
SendMined(c) ==
  /\ client[c].pc = "sending"
  /\ \/ /\ Instructs(c)
        /\ Goes(c, [client[c] EXCEPT !.pc = "poll", !.id = Len(sent'), !.polls = Repeats])
        /\ UNCHANGED faults
     \/ /\ Instructs(c) \/ UNCHANGED <<sent, queue, results>>
        /\ Moves(c, "failed") /\ Fault
  /\ UNCHANGED <<isSet, containerVars, boots>>

\* Mutant: polls go on until there is a result.
PollForever(c) ==
  LET r == client[c] IN
  /\ r.pc = "poll"
  /\ IF results[r.id] = None THEN UNCHANGED client
     ELSE Goes(c, [r EXCEPT !.pc = "verify", !.response = results[r.id]])
  /\ UNCHANGED <<chainVars, proxyVars, containerVars, boots, faults>>

\* Mutant: one poll more than there are.
PollOnceMore(c) ==
  LET r == client[c] IN
  /\ r.pc = "poll"
  /\ \/ Goes(c, [r EXCEPT !.pc = "verify", !.response = results[r.id]]) /\ UNCHANGED faults
     \/ /\ Goes(c, [r EXCEPT !.pc = IF r.polls = 0 THEN "failed" ELSE "poll", !.polls = @ - 1])
        /\ IF results[r.id] = None THEN UNCHANGED faults ELSE Fault
     \/ Moves(c, "failed") /\ Fault
  /\ UNCHANGED <<chainVars, proxyVars, containerVars, boots>>

\* One poll of ActionResult: any 200 is taken, also one that says "pending"; one that
\* gets another answer or none is repeated, the last one fails; and so does a body
\* that does not decode.
Poll(c) ==
  LET r == client[c] IN
  /\ r.pc = "poll"
  /\ \/ Goes(c, [r EXCEPT !.pc = "verify", !.response = results[r.id]]) /\ UNCHANGED faults
     \/ /\ Goes(c, [r EXCEPT !.pc = IF r.polls = 1 THEN "failed" ELSE "poll", !.polls = @ - 1])
        /\ IF results[r.id] = None THEN UNCHANGED faults ELSE Fault
     \/ Moves(c, "failed") /\ Fault
  /\ UNCHANGED <<chainVars, proxyVars, containerVars, boots>>

\* Mutant: the tier is not checked.
WellShapedUnchecked(response) == response.status = 1

\* verifyClassifySeverityResult, up to the flag.
WellShaped(response) == response.status = 1 /\ response.severity \in Tiers

Verify(c) ==
  /\ client[c].pc = "verify"
  /\ LET r  == client[c].response
         ok == WellShaped(r) /\ r.shouldLog = (client[c].report = "grave")
     IN Goes(c, [client[c] EXCEPT !.response = None, !.polls = 0,
                   !.pc = CASE ~ok -> "failed" [] ok /\ client[c].report = "mild" -> "send" [] OTHER -> "passed",
                   !.report = IF ok THEN "grave" ELSE @])
  /\ UNCHANGED <<chainVars, proxyVars, containerVars, boots, faults>>

RunTest(c) == Set(c) \/ SendReport(c) \/ Poll(c) \/ Verify(c)
Mined(c)   == SetMined(c) \/ SendMined(c)

\* Both runs have ended, and the container is down for good or has nothing to do.
Finished == (\A c \in Clients : Ended(c)) /\ UNCHANGED vars

Next ==
  \/ Boot \/ Watch \/ ServerFails \/ NodeReturns \/ Stop
  \/ \E id \in Ids : Take(id) \/ Answer(id)
  \/ \E c \in Clients : RunTest(c) \/ Mined(c)
  \/ Finished

Spec == Init /\ [][Next]_vars

\* Go schedules main's select and every run; the chain mines what it was sent, and
\* the proxy answers each GET in some way or closes it, since neither wait has a
\* timeout.  Nothing is promised of the node, the extension or another boot.
FairSpec ==
  /\ Spec
  /\ WF_vars(Watch)
  /\ \A c \in Clients : WF_vars(RunTest(c)) /\ WF_vars(Mined(c))

-----------------------------------------------------------------------------
\* A run that passes has had both of its own reports classified, the mild one as
\* LOW and the grave one as more, whatever other runs sent at the same time, and
\* whatever answers came late (run-test/main.go, ActionResult).
PassMeansClassified ==
  \A c \in Clients : client[c].pc = "passed" =>
    \A report \in Reports : \E id \in Ids :
      /\ sent[id] = [by |-> c, report |-> report]
      /\ results[id].status = 1 /\ results[id].severity \in Assessments[report] \cap Tiers
      /\ (results[id].severity = "LOW") <=> (report = "mild")

\* Everything on the wire can be shown: the types server decodes every message
\* that was sent and every result that is complete, and says 422, not 404, for
\* one that holds no data.
WireDecodes ==
  \A id \in Ids :
    /\ Decode("INCIDENT_TRIAGE", "CLASSIFY_SEVERITY", "message", "abiReport") = 200
    /\ results[id] # None =>
         Decode("INCIDENT_TRIAGE", "CLASSIFY_SEVERITY", "result",
                IF results[id].status = 1 THEN "json" ELSE "junk")
           = IF results[id].status = 1 THEN 200 ELSE 422

\* The chain, the proxy and the TEE implement request and reply.
Flow == INSTANCE RequestReply WITH Replies <- Answers, NoReply <- None, replies <- results
ImplementsRequestReply == Flow!Spec

\* run-test ends, whatever becomes of the container.
RunTestEnds == \A c \in Clients : (client[c].pc # "start") ~> Ended(c)

\* A container whose extension server fails goes down, early or late.
ServerFailureEndsContainer == (server = "failed") ~> (main = "down")
=============================================================================
