----------------------- MODULE InstructionFlowProofs -----------------------
(***************************************************************************)
(* Proofs about InstructionFlow, for every number of runs of run-test, of  *)
(* polls, boots and faults, and for every answer that Gemini may give.     *)
(* The inductive invariant follows an answer from the extension to the     *)
(* run that polls for it.                                                  *)
(***************************************************************************)
EXTENDS InstructionFlow, TLAPS

ClientRecord == [pc : Points, report : Reports, id : Nat, polls : Nat, response : Answers \cup {None}]

\* An instruction that waits or is worked on has no answer yet, and does one of
\* the two.
OpenIsUnanswered ==
  /\ queue \cap working = {}
  /\ \A id \in queue \cup working : results[id] = None

\* An answer of status 1 is one that Gemini may give to the report of its
\* instruction, and its flag goes with its severity.
AnswersAreHonest ==
  \A id \in Ids : results[id].status = 1 =>
    /\ results[id].severity \in Assessments[sent[id].report]
    /\ results[id].shouldLog <=> results[id].severity \in Tiers \ {"LOW"}

\* A report of c was classified as it should be.
ClassifiedFor(c, report) ==
  \E id \in Ids :
    /\ sent[id] = [by |-> c, report |-> report]
    /\ results[id].status = 1 /\ results[id].severity \in Assessments[report] \cap Tiers
    /\ (results[id].severity = "LOW") <=> (report = "mild")

\* A run polls for its own instruction, still has polls, and holds what is at
\* the proxy; it turns to the grave report after the mild one.
Honest(c) ==
  /\ client[c].pc \in {"poll", "verify"} =>
       client[c].id \in Ids /\ sent[client[c].id] = [by |-> c, report |-> client[c].report]
  /\ client[c].pc = "poll" => client[c].polls # 0
  /\ client[c].pc = "verify" /\ client[c].response # None =>
       client[c].response = results[client[c].id]
  /\ client[c].report = "grave" => ClassifiedFor(c, "mild")
  /\ client[c].pc = "passed" => client[c].report = "grave" /\ ClassifiedFor(c, "grave")

FlowInv ==
  /\ TypeOK
  /\ OpenIsUnanswered
  /\ AnswersAreHonest
  /\ \A c \in Clients : Honest(c)

\* Instructions and answers stay what they are.
Grows ==
  /\ Ids \subseteq Ids'
  /\ \A id \in Ids : /\ sent'[id] = sent[id]
                     /\ results[id] # None => results'[id] = results[id]

USE FlowAssumption

-----------------------------------------------------------------------------
(* What all actions share *)

\* The elements of a sequence.
LEMMA ElementOfSeq ==
  ASSUME NEW S, NEW s \in Seq(S), NEW i \in DOMAIN s
  PROVE  s[i] \in S
OBVIOUS

\* A run that gets a new record gets exactly that, and the others keep theirs.
LEMMA GoesValue ==
  ASSUME TypeOK, NEW c \in Clients, NEW r \in ClientRecord, Goes(c, r)
  PROVE  /\ client' \in [Clients -> ClientRecord]
         /\ client'[c] = r
         /\ \A d \in Clients \ {c} : client'[d] = client[d]
BY DEF TypeOK, Goes, ClientRecord

\* Another program counter leaves the rest of a record alone.
LEMMA MovesValue ==
  ASSUME TypeOK, NEW c \in Clients, NEW p \in Points
  PROVE  LET r == [client[c] EXCEPT !.pc = p] IN
         /\ r \in ClientRecord /\ r.pc = p /\ r.report = client[c].report
         /\ r.id = client[c].id /\ r.polls = client[c].polls /\ r.response = client[c].response
<1>1. client[c] \in ClientRecord
  BY DEF TypeOK, ClientRecord
<1> QED
  BY <1>1 DEF ClientRecord

\* An answer of status 1 is an answer.
LEMMA NoneValue == None.status = 2
  BY DEF None

\* What was classified stays classified.
LEMMA ClassifiedStays ==
  ASSUME NEW c \in Clients, NEW report \in Reports, Grows, ClassifiedFor(c, report)
  PROVE  ClassifiedFor(c, report)'
<1>1. PICK id \in Ids : /\ sent[id] = [by |-> c, report |-> report]
                        /\ results[id].status = 1 /\ results[id].severity \in Assessments[report] \cap Tiers
                        /\ (results[id].severity = "LOW") <=> (report = "mild")
  BY DEF ClassifiedFor
<1>2. results[id] # None
  BY <1>1, NoneValue
<1>3. id \in Ids' /\ sent'[id] = sent[id] /\ results'[id] = results[id]
  BY <1>2 DEF Grows
<1> QED
  BY <1>1, <1>3 DEF ClassifiedFor

\* A run that does nothing stays honest.
LEMMA HonestStays ==
  ASSUME NEW c \in Clients, Honest(c), Grows, client'[c] = client[c]
  PROVE  Honest(c)'
<1>1. client[c].report = "grave" => ClassifiedFor(c, "mild")'
  BY ClassifiedStays DEF Honest, Reports
<1>2. client[c].pc = "passed" => client[c].report = "grave" /\ ClassifiedFor(c, "grave")'
  BY ClassifiedStays DEF Honest, Reports
<1>3. client[c].pc \in {"poll", "verify"} =>
        client[c].id \in Ids' /\ sent'[client[c].id] = [by |-> c, report |-> client[c].report]
  BY DEF Honest, Grows
<1>4. client[c].pc = "verify" /\ client[c].response # None =>
        client[c].response = results'[client[c].id]
  BY DEF Honest, Grows
<1> QED
  BY <1>1, <1>2, <1>3, <1>4 DEF Honest

\* Where the chain, the proxy and the runs stay as they are, and the TEE takes
\* up nothing, everything but the types of the container is kept.
LEMMA QuietStep ==
  ASSUME FlowInv, UNCHANGED <<chainVars, proxyVars, client>>, working' \subseteq working
  PROVE  OpenIsUnanswered' /\ AnswersAreHonest' /\ \A c \in Clients : Honest(c)'
<1>1. /\ UNCHANGED <<sent, results, queue, client>> /\ Ids' = Ids
  BY DEF chainVars, proxyVars, Ids
<1>2. OpenIsUnanswered' /\ AnswersAreHonest'
  BY <1>1 DEF FlowInv, OpenIsUnanswered, AnswersAreHonest
<1>3. Grows
  BY <1>1 DEF Grows
<1> QED
  BY <1>1, <1>2, <1>3, HonestStays DEF FlowInv

-----------------------------------------------------------------------------
(* The initial states, and one lemma for each action *)

\* Nothing is sent when the runs begin.
LEMMA InitInv == Init => FlowInv
<1> SUFFICES ASSUME Init PROVE FlowInv
  OBVIOUS
<1>1. Ids = {}
  BY DEF Init, Ids
<1>2. /\ sent = <<>> /\ results = <<>> /\ isSet \in BOOLEAN
      /\ queue \subseteq Ids /\ working \subseteq Ids
  BY DEF Init
<1>3. client \in [Clients -> [pc : Points, report : Reports, id : Nat, polls : Nat,
                              response : Answers \cup {None}]]
  BY DEF Init, Points, Reports
<1>4. TypeOK
  <2>1. /\ sent \in Seq([by : Clients, report : Reports])
        /\ results \in Seq(Answers \cup {None}) /\ Len(results) = Len(sent)
    BY <1>2
  <2> QED
    BY <1>2, <1>3, <2>1 DEF Init, TypeOK
<1>5. \A c \in Clients : Honest(c)
  BY DEF Init, Honest
<1> QED
  BY <1>1, <1>4, <1>5 DEF Init, FlowInv, OpenIsUnanswered, AnswersAreHonest

\* Starting, watching, failing and stopping touch the container only.
LEMMA ContainerKeepsInv ==
  ASSUME FlowInv, Boot \/ Watch \/ ServerFails \/ NodeReturns \/ Stop
  PROVE  FlowInv'
<1>1. /\ UNCHANGED <<chainVars, proxyVars, client>>
      /\ working' = working \/ working' = {}
      /\ main' \in {"down", "booting", "running"}
      /\ server' \in {"off", "up", "failed"} /\ teeNode' \in {"off", "up", "gone"}
      /\ boots' \in Nat /\ faults' \in Nat
  BY DEF FlowInv, TypeOK, Boot, Watch, ServerFails, NodeReturns, Stop, Halt, Fault
<1>2. TypeOK'
  BY <1>1 DEF FlowInv, TypeOK, chainVars, proxyVars, Ids
<1> QED
  BY <1>1, <1>2, QuietStep DEF FlowInv

\* An instruction that is taken is still without an answer.
LEMMA TakeKeepsInv ==
  ASSUME FlowInv, NEW id \in Ids, Take(id)
  PROVE  FlowInv'
<1>1. /\ id \in queue /\ queue' = queue \ {id} /\ working' = working \cup {id}
      /\ UNCHANGED <<isSet, sent, results, main, server, teeNode, client, boots, faults>>
      /\ Ids' = Ids
  BY DEF Take, chainVars, Ids
<1>2. TypeOK'
  BY <1>1 DEF FlowInv, TypeOK, Ids
<1>3. OpenIsUnanswered' /\ AnswersAreHonest'
  BY <1>1 DEF FlowInv, OpenIsUnanswered, AnswersAreHonest
<1>4. Grows
  BY <1>1 DEF Grows
<1> QED
  BY <1>1, <1>2, <1>3, <1>4, HonestStays DEF FlowInv

\* What the extension answers is an honest answer, and the first to its
\* instruction.
LEMMA AnswerValue ==
  ASSUME FlowInv, NEW id \in Ids, Answer(id)
  PROVE  /\ results[id] = None /\ id \in working \ queue
         /\ \E a \in Answers :
              /\ results' = [results EXCEPT ![id] = a]
              /\ a.status = 1 => /\ a.severity \in Assessments[sent[id].report]
                                 /\ a.shouldLog <=> a.severity \in Tiers \ {"LOW"}
<1>1. results[id] = None /\ id \in working \ queue
  BY DEF FlowInv, OpenIsUnanswered, Answer
<1>2. sent[id].report \in Reports
  <2>1. sent \in Seq([by : Clients, report : Reports])
    BY DEF FlowInv, TypeOK
  <2>2. sent[id] \in [by : Clients, report : Reports]
    BY <2>1, ElementOfSeq DEF Ids
  <2> QED
    BY <2>2
<1>3. ASSUME NEW label \in Assessments[sent[id].report]
      PROVE  /\ Classified(label) \in Answers /\ Classified(label).severity = label
             /\ Classified(label).shouldLog <=> label \in Tiers \ {"LOW"}
  <2>1. label \in Labels
    BY <1>2
  <2>2. ASSUME NEW b \in BOOLEAN
        PROVE  [status |-> 1, severity |-> label, shouldLog |-> b] \in Answers
    BY <2>1 DEF Answers
  <2>3. (label \in Tiers \ {"LOW"}) \in BOOLEAN
    OBVIOUS
  <2>4. Classified(label) \in Answers
    BY <2>2, <2>3, Zenon DEF Classified
  <2>5. Classified(label).severity = label
    BY DEF Classified
  <2>6. Classified(label).shouldLog <=> label \in Tiers \ {"LOW"}
    BY Zenon DEF Classified
  <2> QED
    BY <2>4, <2>5, <2>6
<1>4. CASE \E label \in Assessments[sent[id].report] : results' = [results EXCEPT ![id] = Classified(label)]
  <2>1. PICK label \in Assessments[sent[id].report] : results' = [results EXCEPT ![id] = Classified(label)]
    BY <1>4
  <2> DEFINE given == Classified(label)
  <2>2. /\ given \in Answers /\ given.severity = label
        /\ given.shouldLog <=> label \in Tiers \ {"LOW"}
        /\ results' = [results EXCEPT ![id] = given]
    BY <1>3, <2>1
  <2> HIDE DEF given
  <2>3. given.shouldLog <=> given.severity \in Tiers \ {"LOW"}
    BY <2>2, Zenon
  <2> QED
    BY <1>1, <2>2, <2>3
<1>5. CASE results' = [results EXCEPT ![id] = [status |-> 0, severity |-> "", shouldLog |-> FALSE]]
  <2> DEFINE failed == [status |-> 0, severity |-> "", shouldLog |-> FALSE]
  <2>1. failed \in Answers /\ failed.status # 1
    <3>1. ASSUME NEW b \in BOOLEAN
          PROVE  [status |-> 0, severity |-> "", shouldLog |-> b] \in Answers
      BY DEF Answers, Labels
    <3>2. failed \in Answers
      BY <3>1, Zenon
    <3>3. failed.status = 0
      OBVIOUS
    <3> HIDE DEF failed
    <3> QED
      BY <3>2, <3>3
  <2>2. results' = [results EXCEPT ![id] = failed]
    BY <1>5
  <2> HIDE DEF failed
  <2> QED
    BY <1>1, <2>1, <2>2
<1> QED
  BY <1>4, <1>5 DEF Answer

\* The answer of one instruction leaves the others, and the runs, alone.
LEMMA AnswerKeepsInv ==
  ASSUME FlowInv, NEW id \in Ids, Answer(id)
  PROVE  FlowInv'
<1>1. PICK a \in Answers :
        /\ results' = [results EXCEPT ![id] = a]
        /\ a.status = 1 => /\ a.severity \in Assessments[sent[id].report]
                           /\ a.shouldLog <=> a.severity \in Tiers \ {"LOW"}
  BY AnswerValue
<1>2. /\ working' = working \ {id} /\ results[id] = None /\ id \notin queue
      /\ UNCHANGED <<isSet, sent, queue, main, server, teeNode, client, boots>>
      /\ Ids' = Ids /\ faults' \in Nat
  <2>1. results[id] = None /\ id \in working \ queue
    BY AnswerValue
  <2>2. faults' \in Nat
    <3>1. faults \in Nat
      BY DEF FlowInv, TypeOK
    <3>2. UNCHANGED faults \/ Fault
      BY DEF Answer
    <3> QED
      BY <3>1, <3>2 DEF Fault
  <2> QED
    BY <2>1, <2>2 DEF Answer, chainVars, Ids
<1>3. /\ results \in Seq(Answers \cup {None}) /\ DOMAIN results = Ids
  BY DEF FlowInv, TypeOK, Ids
<1>4. /\ results' \in Seq(Answers \cup {None}) /\ Len(results') = Len(results)
      /\ results'[id] = a /\ \A i \in Ids \ {id} : results'[i] = results[i]
  BY <1>1, <1>3
<1>5. TypeOK'
  BY <1>2, <1>4 DEF FlowInv, TypeOK, Ids
<1>6. OpenIsUnanswered'
  BY <1>2, <1>4 DEF FlowInv, TypeOK, OpenIsUnanswered
<1>7. AnswersAreHonest'
  BY <1>1, <1>2, <1>4 DEF FlowInv, AnswersAreHonest
<1>8. Grows
  BY <1>2, <1>4 DEF Grows
<1> QED
  BY <1>2, <1>5, <1>6, <1>7, <1>8, HonestStays DEF FlowInv

\* A run that only moves, while chain and proxy stay as they are.
LEMMA RunKeepsInv ==
  ASSUME FlowInv, NEW c \in Clients, NEW r \in ClientRecord, Goes(c, r), Honest(c)',
         UNCHANGED <<sent, proxyVars, containerVars, boots>>,
         isSet' \in BOOLEAN, faults' \in Nat
  PROVE  FlowInv'
<1>1. /\ client' \in [Clients -> ClientRecord]
      /\ \A d \in Clients \ {c} : client'[d] = client[d]
  BY GoesValue DEF FlowInv
<1>2. /\ UNCHANGED <<sent, results, queue, working, main, server, teeNode, boots>>
      /\ Ids' = Ids
  BY DEF proxyVars, containerVars, Ids
<1>3. TypeOK'
  BY <1>1, <1>2 DEF FlowInv, TypeOK, Ids, ClientRecord
<1>4. OpenIsUnanswered' /\ AnswersAreHonest'
  BY <1>2 DEF FlowInv, OpenIsUnanswered, AnswersAreHonest
<1>5. Grows
  BY <1>2 DEF Grows
<1>6. \A d \in Clients \ {c} : Honest(d)'
  BY <1>1, <1>5, HonestStays DEF FlowInv
<1> QED
  BY <1>3, <1>4, <1>6 DEF FlowInv

\* The same for a step that changes nothing but the program counter.
LEMMA MoveKeepsInv ==
  ASSUME FlowInv, NEW c \in Clients, NEW p \in Points \ {"poll", "verify", "passed"}, Moves(c, p),
         UNCHANGED <<sent, proxyVars, containerVars, boots>>,
         isSet' \in BOOLEAN, faults' \in Nat
  PROVE  FlowInv'
<1> DEFINE r == [client[c] EXCEPT !.pc = p]
<1>1. r \in ClientRecord /\ r.pc = p /\ r.report = client[c].report
  BY MovesValue DEF FlowInv
<1>2. Goes(c, r)
  BY DEF Moves
<1> HIDE DEF r
<1>3. client'[c] = r
  BY <1>1, <1>2, GoesValue DEF FlowInv
<1>4. Grows
  BY DEF Grows, proxyVars, Ids
<1>5. client[c].report = "grave" => ClassifiedFor(c, "mild")'
  BY <1>4, ClassifiedStays DEF FlowInv, Honest, Reports
<1>6. Honest(c)'
  BY <1>1, <1>3, <1>5 DEF Honest
<1> QED
  BY <1>1, <1>2, <1>6, RunKeepsInv

\* Binding the sender, and asking for an instruction.
LEMMA SetKeepsInv ==
  ASSUME FlowInv, NEW c \in Clients, Set(c) \/ SetMined(c) \/ SendReport(c)
  PROVE  FlowInv'
<1>1. isSet \in BOOLEAN /\ faults \in Nat
  BY DEF FlowInv, TypeOK
<1>2. PICK p \in {"send", "setting", "sending", "failed"} : Moves(c, p)
  BY DEF Set, SetMined, SendReport
<1>3. isSet' \in BOOLEAN /\ faults' \in Nat
  <2>1. isSet' = isSet \/ isSet' = TRUE
    BY Zenon DEF Set, SetMined, SendReport, chainVars
  <2>2. faults' = faults \/ faults' = faults + 1
    BY DEF Set, SetMined, SendReport, Fault
  <2>3. isSet' \in BOOLEAN
    BY <1>1, <2>1, Zenon
  <2> QED
    BY <1>1, <2>2, <2>3
<1>4. UNCHANGED <<sent, proxyVars, containerVars, boots>>
  BY DEF Set, SetMined, SendReport, chainVars
<1> QED
  BY <1>2, <1>3, <1>4, MoveKeepsInv DEF Points

\* The id of a new instruction.
LEMMA MinedInstructs ==
  ASSUME TypeOK, NEW c \in Clients, Instructs(c)
  PROVE  client[c] \in ClientRecord /\ Len(sent') \in Nat
<1>1. /\ client[c] \in ClientRecord /\ sent \in Seq([by : Clients, report : Reports])
      /\ sent' = Append(sent, [by |-> c, report |-> client[c].report])
  BY DEF TypeOK, ClientRecord, Instructs
<1> QED
  BY <1>1

\* A new instruction is without an answer, and its sender knows its id or has
\* failed.
LEMMA SendMinedKeepsInv ==
  ASSUME FlowInv, NEW c \in Clients, SendMined(c)
  PROVE  FlowInv'
<1>1. isSet' = isSet /\ UNCHANGED <<containerVars, boots>>
  BY DEF SendMined
<1>2. CASE Moves(c, "failed") /\ Fault /\ UNCHANGED <<sent, queue, results>>
  <2>1. isSet' \in BOOLEAN /\ faults' \in Nat
    BY <1>1, <1>2 DEF FlowInv, TypeOK, Fault
  <2> QED
    BY <1>1, <1>2, <2>1, MoveKeepsInv DEF Points, proxyVars
<1>3. ASSUME Instructs(c), faults' \in Nat,
             NEW r \in ClientRecord, Goes(c, r), r.report = client[c].report,
             \/ r.pc = "failed"
             \/ r.pc = "poll" /\ r.id = Len(sent') /\ r.polls = Repeats
      PROVE  FlowInv'
  <2> DEFINE n    == Len(sent) + 1
             item == [by |-> c, report |-> client[c].report]
  <2>1. /\ client[c] \in ClientRecord
        /\ sent \in Seq([by : Clients, report : Reports])
        /\ results \in Seq(Answers \cup {None}) /\ Len(results) = Len(sent)
        /\ queue \subseteq 1 .. Len(sent) /\ working \subseteq 1 .. Len(sent)
        /\ Ids = 1 .. Len(sent)
    BY DEF FlowInv, TypeOK, ClientRecord, Ids
  <2>2. item \in [by : Clients, report : Reports]
    BY <2>1 DEF ClientRecord
  <2> HIDE DEF item
  <2>3. /\ sent' \in Seq([by : Clients, report : Reports])
        /\ Len(sent') = n /\ Ids' = 1 .. n /\ n \in Nat
        /\ sent'[n] = item /\ \A i \in 1 .. Len(sent) : sent'[i] = sent[i]
    BY <1>3, <2>1, <2>2 DEF Ids, item, Instructs
  <2>4. /\ results' \in Seq(Answers \cup {None}) /\ Len(results') = n
        /\ results'[n] = None /\ \A i \in 1 .. Len(sent) : results'[i] = results[i]
    BY <1>3, <2>1 DEF Instructs
  <2>7. /\ client' \in [Clients -> ClientRecord] /\ client'[c] = r
        /\ \A d \in Clients \ {c} : client'[d] = client[d]
    BY <1>3, GoesValue DEF FlowInv
  <2>8. /\ queue' = queue \cup {n} /\ UNCHANGED <<working, main, server, teeNode>>
    BY <1>1, <1>3, <2>3 DEF containerVars, Instructs
  <2>9. TypeOK'
    <3>1. queue' \subseteq Ids' /\ working' \subseteq Ids'
      <4>1. Ids' = Ids \cup {n} /\ queue \subseteq Ids /\ working \subseteq Ids
        BY <2>1, <2>3
      <4> QED
        BY <2>8, <4>1
    <3> QED
      BY <1>1, <1>3, <2>3, <2>4, <2>7, <2>8, <3>1 DEF FlowInv, TypeOK, ClientRecord
  <2>10. OpenIsUnanswered'
    <3>1. /\ queue \cap working = {} /\ \A id \in queue \cup working : results[id] = None
      BY DEF FlowInv, OpenIsUnanswered
    <3>2. n \notin working /\ \A id \in queue \cup working : id \in 1 .. Len(sent)
      BY <2>1
    <3>3. queue' \cap working' = {}
      BY <2>8, <3>1, <3>2
    <3>4. \A id \in queue' \cup working' : results'[id] = None
      BY <2>4, <2>8, <3>1, <3>2
    <3> QED
      BY <3>3, <3>4 DEF OpenIsUnanswered
  <2>11. AnswersAreHonest'
    <3>1. AnswersAreHonest
      BY DEF FlowInv
    <3>2. results'[n].status # 1
      BY <2>4, NoneValue
    <3>3. \A id \in 1 .. Len(sent) : results'[id].status = 1 =>
            /\ results'[id].severity \in Assessments[sent'[id].report]
            /\ results'[id].shouldLog <=> results'[id].severity \in Tiers \ {"LOW"}
      BY <2>1, <2>3, <2>4, <3>1 DEF AnswersAreHonest
    <3>4. Ids' = 1 .. Len(sent) \cup {n}
      BY <2>1, <2>3
    <3> QED
      BY <3>2, <3>3, <3>4 DEF AnswersAreHonest
  <2>12. Grows
    BY <2>1, <2>3, <2>4 DEF Grows
  <2>13. \A d \in Clients \ {c} : Honest(d)'
    BY <2>7, <2>12, HonestStays DEF FlowInv
  <2>14. Honest(c)'
    <3>1. client[c].report = "grave" => ClassifiedFor(c, "mild")'
      BY <2>12, ClassifiedStays DEF FlowInv, Honest, Reports
    <3>2. n \in Ids' /\ sent'[n] = [by |-> c, report |-> client[c].report]
      BY <2>1, <2>3 DEF item
    <3> QED
      BY <1>3, <2>3, <2>7, <3>1, <3>2 DEF Honest
  <2> QED
    BY <2>9, <2>10, <2>11, <2>13, <2>14 DEF FlowInv
<1>4. faults \in Nat /\ (UNCHANGED faults \/ Fault => faults' \in Nat)
  BY DEF FlowInv, TypeOK, Fault
<1>5. CASE Instructs(c) /\ Moves(c, "failed") /\ Fault
  <2> DEFINE r == [client[c] EXCEPT !.pc = "failed"]
  <2>1. r \in ClientRecord /\ r.pc = "failed" /\ r.report = client[c].report
    BY MovesValue DEF FlowInv, Points
  <2>2. Goes(c, r)
    BY <1>5 DEF Moves
  <2> HIDE DEF r
  <2> QED
    BY <1>3, <1>4, <1>5, <2>1, <2>2
<1>6. CASE /\ Instructs(c) /\ UNCHANGED faults
           /\ Goes(c, [client[c] EXCEPT !.pc = "poll", !.id = Len(sent'), !.polls = Repeats])
  <2> DEFINE r == [client[c] EXCEPT !.pc = "poll", !.id = Len(sent'), !.polls = Repeats]
  <2>1. client[c] \in ClientRecord /\ Len(sent') \in Nat
    BY <1>6, MinedInstructs DEF FlowInv
  <2>2. /\ r \in ClientRecord /\ r.pc = "poll" /\ r.id = Len(sent') /\ r.polls = Repeats
        /\ r.report = client[c].report
    BY <2>1 DEF ClientRecord, Points
  <2>3. Goes(c, r)
    BY <1>6
  <2> HIDE DEF r
  <2> QED
    BY <1>3, <1>4, <1>6, <2>2, <2>3
<1> QED
  BY <1>2, <1>5, <1>6 DEF SendMined

\* A poll takes what is there, or uses up one of the polls that are left.
LEMMA PollKeepsInv ==
  ASSUME FlowInv, NEW c \in Clients, Poll(c)
  PROVE  FlowInv'
<1>1. /\ client[c] \in ClientRecord /\ Honest(c) /\ client[c].pc = "poll"
      /\ isSet \in BOOLEAN /\ faults \in Nat
      /\ results \in Seq(Answers \cup {None}) /\ DOMAIN results = Ids
  BY DEF FlowInv, TypeOK, ClientRecord, Poll, Ids
<1>2. UNCHANGED <<isSet, sent, results, proxyVars, containerVars, boots>> /\ faults' \in Nat
  <2>1. faults \in Nat /\ (UNCHANGED faults \/ Fault)
    BY <1>1 DEF Poll
  <2> QED
    BY <2>1 DEF Poll, chainVars, proxyVars, Fault
<1>3. Grows
  BY <1>2 DEF Grows, Ids
<1>4. client[c].report = "grave" => ClassifiedFor(c, "mild")'
  BY <1>1, <1>3, ClassifiedStays DEF Honest, Reports
<1>5. /\ client[c].id \in Ids' /\ sent'[client[c].id] = [by |-> c, report |-> client[c].report]
      /\ client[c].polls # 0
  BY <1>1, <1>2 DEF Honest, Ids
<1>6. CASE Goes(c, [client[c] EXCEPT !.pc = "verify", !.response = results[client[c].id]])
  <2> DEFINE r == [client[c] EXCEPT !.pc = "verify", !.response = results[client[c].id]]
  <2>1. results[client[c].id] \in Answers \cup {None}
    BY <1>1, <1>2, <1>5, ElementOfSeq DEF Ids
  <2>2. /\ r \in ClientRecord /\ r.pc = "verify" /\ r.report = client[c].report
        /\ r.id = client[c].id /\ r.response = results[client[c].id]
    BY <1>1, <2>1 DEF ClientRecord, Points
  <2>3. Goes(c, r)
    BY <1>6
  <2> HIDE DEF r
  <2>4. client'[c] = r
    BY <2>2, <2>3, GoesValue DEF FlowInv
  <2>5. Honest(c)'
    BY <1>2, <1>4, <1>5, <2>2, <2>4 DEF Honest
  <2> QED
    BY <1>1, <1>2, <2>2, <2>3, <2>5, RunKeepsInv
<1>7. CASE Goes(c, [client[c] EXCEPT !.pc = IF client[c].polls = 1 THEN "failed" ELSE "poll", !.polls = @ - 1])
  <2> DEFINE r == [client[c] EXCEPT !.pc = IF client[c].polls = 1 THEN "failed" ELSE "poll", !.polls = @ - 1]
  <2>1. client[c].polls \in Nat \ {0}
    BY <1>1, <1>5 DEF ClientRecord
  <2>2. /\ r \in ClientRecord /\ r.report = client[c].report /\ r.id = client[c].id
        /\ \/ r.pc = "failed"
           \/ r.pc = "poll" /\ r.polls # 0
    <3>1. CASE client[c].polls = 1
      <4>1. r = [client[c] EXCEPT !.pc = "failed", !.polls = 0]
        BY <3>1
      <4> HIDE DEF r
      <4> QED
        BY <1>1, <4>1 DEF ClientRecord, Points
    <3>2. CASE client[c].polls # 1
      <4>1. r = [client[c] EXCEPT !.pc = "poll", !.polls = client[c].polls - 1]
        BY <3>2
      <4>2. client[c].polls - 1 \in Nat \ {0}
        BY <2>1, <3>2
      <4> HIDE DEF r
      <4> QED
        BY <1>1, <4>1, <4>2 DEF ClientRecord, Points
    <3> QED
      BY <3>1, <3>2
  <2>3. Goes(c, r)
    BY <1>7
  <2> HIDE DEF r
  <2>4. client'[c] = r
    BY <2>2, <2>3, GoesValue DEF FlowInv
  <2>5. Honest(c)'
    BY <1>4, <1>5, <2>2, <2>4 DEF Honest
  <2> QED
    BY <1>1, <1>2, <2>2, <2>3, <2>5, RunKeepsInv
<1>8. CASE Moves(c, "failed")
  BY <1>1, <1>2, <1>8, MoveKeepsInv DEF Points
<1> QED
  BY <1>6, <1>7, <1>8 DEF Poll

\* A response that verify takes is the honest answer to the run's own report.
LEMMA VerifiedIsClassified ==
  ASSUME FlowInv, NEW c \in Clients, client[c].pc = "verify", WellShaped(client[c].response),
         client[c].response.shouldLog = (client[c].report = "grave")
  PROVE  ClassifiedFor(c, client[c].report)
<1> DEFINE id == client[c].id
           a  == client[c].response
<1>1. a.status = 1 /\ a.severity \in Tiers
  BY DEF WellShaped
<1>2. a # None
  BY <1>1, NoneValue
<1>3. id \in Ids /\ sent[id] = [by |-> c, report |-> client[c].report] /\ a = results[id]
  BY <1>2 DEF FlowInv, Honest
<1>4. /\ results[id].severity \in Assessments[client[c].report]
      /\ results[id].shouldLog <=> results[id].severity \in Tiers \ {"LOW"}
  BY <1>1, <1>3 DEF FlowInv, AnswersAreHonest
<1>5. client[c].report \in Reports
  BY DEF FlowInv, TypeOK
<1>6. (client[c].report = "grave") <=> ~(client[c].report = "mild")
  BY <1>5 DEF Reports
<1>7. (results[id].severity = "LOW") <=> (client[c].report = "mild")
  BY <1>1, <1>3, <1>4, <1>6
<1> QED
  BY <1>1, <1>3, <1>4, <1>7 DEF ClassifiedFor

\* A run goes on to the grave report, or passes, only with a report classified.
LEMMA VerifyKeepsInv ==
  ASSUME FlowInv, NEW c \in Clients, Verify(c)
  PROVE  FlowInv'
<1> DEFINE a  == client[c].response
           ok == WellShaped(a) /\ a.shouldLog = (client[c].report = "grave")
           p  == CASE ~ok -> "failed" [] ok /\ client[c].report = "mild" -> "send" [] OTHER -> "passed"
           r  == [client[c] EXCEPT !.response = None, !.polls = 0, !.pc = p,
                                   !.report = IF ok THEN "grave" ELSE @]
<1>1. /\ client[c] \in ClientRecord /\ Honest(c) /\ client[c].pc = "verify"
      /\ isSet \in BOOLEAN /\ faults \in Nat
  BY DEF FlowInv, TypeOK, ClientRecord, Verify
<1>2. UNCHANGED <<isSet, sent, results, faults, proxyVars, containerVars, boots>>
  BY DEF Verify, chainVars, proxyVars
<1>3. Goes(c, r)
  BY DEF Verify
<1>4. ok => ClassifiedFor(c, client[c].report)
  BY <1>1, VerifiedIsClassified
<1>5. client[c].report \in Reports
  BY <1>1 DEF ClientRecord
<1> HIDE DEF ok
<1>6. /\ r \in ClientRecord
      /\ r.report = IF ok THEN "grave" ELSE client[c].report
      /\ \/ ~ok /\ r.pc = "failed"
         \/ ok /\ client[c].report = "mild" /\ r.pc = "send"
         \/ ok /\ client[c].report = "grave" /\ r.pc = "passed"
  BY <1>1, <1>5 DEF ClientRecord, Points, Reports
<1> HIDE DEF r
<1>7. client'[c] = r
  BY <1>3, <1>6, GoesValue DEF FlowInv
<1>8. Grows
  BY <1>2 DEF Grows, Ids
<1>9. /\ r.report = "grave" => ClassifiedFor(c, "mild")
      /\ r.pc = "passed" => r.report = "grave" /\ ClassifiedFor(c, "grave")
  BY <1>1, <1>4, <1>5, <1>6 DEF Honest, Reports
<1>10. /\ r.report = "grave" => ClassifiedFor(c, "mild")'
       /\ r.pc = "passed" => r.report = "grave" /\ ClassifiedFor(c, "grave")'
  BY <1>8, <1>9, ClassifiedStays DEF Reports
<1>11. Honest(c)'
  BY <1>6, <1>7, <1>10 DEF Honest
<1> QED
  BY <1>1, <1>2, <1>3, <1>6, <1>11, RunKeepsInv

-----------------------------------------------------------------------------
(* The invariant, and what follows from it *)

\* Every step keeps the invariant.
LEMMA StepKeepsInv == FlowInv /\ [Next]_vars => FlowInv'
<1> SUFFICES ASSUME FlowInv, [Next]_vars PROVE FlowInv'
  OBVIOUS
<1>1. CASE Boot \/ Watch \/ ServerFails \/ NodeReturns \/ Stop
  BY <1>1, ContainerKeepsInv
<1>2. ASSUME NEW id \in Ids, Take(id) \/ Answer(id) PROVE FlowInv'
  BY <1>2, TakeKeepsInv, AnswerKeepsInv
<1>3. ASSUME NEW c \in Clients, RunTest(c) \/ Mined(c) PROVE FlowInv'
  BY <1>3, SetKeepsInv, SendMinedKeepsInv, PollKeepsInv, VerifyKeepsInv DEF RunTest, Mined
<1>4. CASE UNCHANGED vars
  <2>1. /\ UNCHANGED <<chainVars, proxyVars, client>> /\ working' \subseteq working
        /\ UNCHANGED <<isSet, sent, queue, working, results, main, server, teeNode, client, boots, faults>>
    BY <1>4 DEF vars, chainVars, proxyVars, containerVars
  <2>2. TypeOK'
    BY <2>1 DEF FlowInv, TypeOK, Ids
  <2> QED
    BY <2>1, <2>2, QuietStep DEF FlowInv
<1> QED
  BY <1>1, <1>2, <1>3, <1>4 DEF Next, Finished

\* The inductive invariant holds in every reachable state: types, and the way
\* of an answer from the extension to the run that polls for it.
THEOREM FlowInvariant == Spec => []FlowInv
  BY InitInv, StepKeepsInv, PTL DEF Spec

\* The variables keep their types; a run never polls more often than it may.
THEOREM FlowTypeCorrect == Spec => []TypeOK
<1>1. FlowInv => TypeOK
  BY DEF FlowInv
<1> QED
  BY <1>1, FlowInvariant, PTL

\* A run of run-test that passes has had both of its own reports classified,
\* for any number of runs at a time, whatever is late or fails.
THEOREM PassedIsClassified == Spec => []PassMeansClassified
<1>1. FlowInv => PassMeansClassified
  <2> SUFFICES ASSUME FlowInv, NEW c \in Clients, client[c].pc = "passed", NEW report \in Reports
               PROVE  ClassifiedFor(c, report)
    BY DEF PassMeansClassified, ClassifiedFor
  <2> QED
    BY DEF FlowInv, Honest, Reports
<1> QED
  BY <1>1, FlowInvariant, PTL

\* An instruction that is sent is a request, and an answer is the one reply.
LEMMA StepRefines ==
  ASSUME FlowInv, [Next]_vars
  PROVE  [Flow!Next]_results
<1>1. CASE UNCHANGED results
  BY <1>1
<1>2. ASSUME NEW id \in Ids, Answer(id) PROVE Flow!Next
  <2>1. results[id] = None /\ \E a \in Answers : results' = [results EXCEPT ![id] = a]
    BY <1>2, AnswerValue
  <2>2. id \in DOMAIN results
    BY DEF FlowInv, TypeOK, Ids
  <2>3. Flow!Reply(id)
    BY <2>1 DEF Flow!Reply
  <2> QED
    BY <2>2, <2>3 DEF Flow!Next
<1>3. ASSUME NEW c \in Clients, SendMined(c) PROVE [Flow!Next]_results
  BY <1>3 DEF SendMined, Instructs, Flow!Next, Flow!Request
<1>4. CASE Boot \/ Watch \/ ServerFails \/ NodeReturns \/ Stop
  BY <1>4 DEF Boot, Watch, ServerFails, NodeReturns, Stop, proxyVars
<1>5. ASSUME NEW id \in Ids, Take(id) PROVE UNCHANGED results
  BY <1>5 DEF Take
<1>6. ASSUME NEW c \in Clients, RunTest(c) \/ SetMined(c) PROVE UNCHANGED results
  BY <1>6 DEF RunTest, Set, SendReport, Poll, Verify, SetMined, proxyVars
<1>7. CASE UNCHANGED vars
  BY <1>7 DEF vars, proxyVars
<1> QED
  BY <1>1, <1>2, <1>3, <1>4, <1>5, <1>6, <1>7 DEF Next, Mined, Finished

\* Chain, proxy and TEE implement request and reply: no reply without its
\* request, none that changes, for any number of instructions.
THEOREM FlowImplementsRequestReply == Spec => ImplementsRequestReply
<1>1. Init => Flow!Init
  BY DEF Init, Flow!Init
<1>2. FlowInv /\ [Next]_vars => [Flow!Next]_results
  BY StepRefines
<1> QED
  BY <1>1, <1>2, FlowInvariant, PTL DEF Spec, ImplementsRequestReply, Flow!Spec

-----------------------------------------------------------------------------
(* What the types server says of it *)

\* One decoder for the command decides what is decoded.
LEMMA DecodeValue ==
  ASSUME NEW opType, NEW opCommand, NEW kind \in Kinds, NEW data, data # "notHex",
         NEW d, Registry(RegistryKey(opType, opCommand, kind)) = {d}
  PROVE  Decode(opType, opCommand, kind, data) = IF data \in d.accepts THEN 200 ELSE 422
<1> DEFINE req == [parses |-> TRUE, opType |-> opType, opCommand |-> opCommand, kind |-> kind, data |-> data]
<1>1. /\ req.parses = TRUE /\ req.opType = opType /\ req.opCommand = opCommand
      /\ req.kind = kind /\ req.data = data
  OBVIOUS
<1>2. Decode(opType, opCommand, kind, data) = handleDecode(req)
  BY DEF Decode
<1> HIDE DEF req
<1>3. Lookup(req.opType, req.opCommand, req.kind) = {d}
  BY <1>1 DEF Lookup
<1> QED
  BY <1>1, <1>2, <1>3 DEF handleDecode

\* The extension registers one decoder for each kind.
LEMMA RegisteredDecoders ==
  /\ Registry(RegistryKey("INCIDENT_TRIAGE", "CLASSIFY_SEVERITY", "message")) =
       {[key |-> RegistryKey("INCIDENT_TRIAGE", "CLASSIFY_SEVERITY", "message"), accepts |-> {"abiReport"}]}
  /\ Registry(RegistryKey("INCIDENT_TRIAGE", "CLASSIFY_SEVERITY", "result")) =
       {[key |-> RegistryKey("INCIDENT_TRIAGE", "CLASSIFY_SEVERITY", "result"), accepts |-> {"json"}]}
<1> DEFINE mk == RegistryKey("INCIDENT_TRIAGE", "CLASSIFY_SEVERITY", "message")
           rk == RegistryKey("INCIDENT_TRIAGE", "CLASSIFY_SEVERITY", "result")
           dm == [key |-> mk, accepts |-> {"abiReport"}]
           dr == [key |-> rk, accepts |-> {"json"}]
<1>1. mk # rk
  <2>1. mk.kind = "message" /\ rk.kind = "result"
    BY DEF RegistryKey
  <2> QED
    BY <2>1
<1> HIDE DEF mk, rk
<1>2. dm.key = mk /\ dr.key = rk
  OBVIOUS
<1>3. RegisterDecoders = {dm, dr}
  BY Zenon DEF RegisterDecoders, mk, rk
<1> HIDE DEF dm, dr
<1>4. Registry(mk) = {dm} /\ Registry(rk) = {dr}
  BY <1>1, <1>2, <1>3 DEF Registry
<1> QED
  BY <1>4, Zenon DEF mk, rk, dm, dr

\* Messages, complete results, and answers without data, as POST /decode has them.
LEMMA DecodedForms ==
  /\ Decode("INCIDENT_TRIAGE", "CLASSIFY_SEVERITY", "message", "abiReport") = 200
  /\ Decode("INCIDENT_TRIAGE", "CLASSIFY_SEVERITY", "result", "json") = 200
  /\ Decode("INCIDENT_TRIAGE", "CLASSIFY_SEVERITY", "result", "junk") = 422
<1> DEFINE mk == RegistryKey("INCIDENT_TRIAGE", "CLASSIFY_SEVERITY", "message")
           rk == RegistryKey("INCIDENT_TRIAGE", "CLASSIFY_SEVERITY", "result")
           dm == [key |-> mk, accepts |-> {"abiReport"}]
           dr == [key |-> rk, accepts |-> {"json"}]
<1>1. Registry(mk) = {dm} /\ Registry(rk) = {dr}
  BY RegisteredDecoders, Zenon
<1>2. "message" \in Kinds /\ "result" \in Kinds
  BY DEF Kinds
<1>3. "abiReport" # "notHex" /\ "json" # "notHex" /\ "junk" # "notHex" /\ "junk" # "json"
  BY Zenon
<1> HIDE DEF mk, rk
<1>4. dm.accepts = {"abiReport"} /\ dr.accepts = {"json"}
  OBVIOUS
<1> HIDE DEF dm, dr
<1> QED
  BY <1>1, <1>2, <1>3, <1>4, DecodeValue DEF mk, rk

\* The types server shows every message and every complete result, and says 422 of
\* an answer without data (typesserver/handlers.go, pkg/decoder).
THEOREM WireAlwaysDecodes == Spec => []WireDecodes
<1>1. ASSUME NEW id \in Ids
      PROVE  Decode("INCIDENT_TRIAGE", "CLASSIFY_SEVERITY", "result",
                    IF results[id].status = 1 THEN "json" ELSE "junk")
               = IF results[id].status = 1 THEN 200 ELSE 422
  <2>1. CASE results[id].status = 1
    BY <2>1, DecodedForms, Zenon
  <2>2. CASE results[id].status # 1
    BY <2>2, DecodedForms, Zenon
  <2> QED
    BY <2>1, <2>2
<1>2. WireDecodes
  BY <1>1, DecodedForms, Zenon DEF WireDecodes
<1> QED
  BY <1>2, PTL

-----------------------------------------------------------------------------
(* How long a run lasts *)

\* The steps that a report takes at most: sending, being mined, its polls and
\* the verification.
StepsOfReport == Repeats + 3

\* What is left of them for the report at hand.
LeftOfReport(r) ==
  CASE r.pc = "send"    -> StepsOfReport
    [] r.pc = "sending" -> StepsOfReport - 1
    [] r.pc = "poll"    -> r.polls + 1
    [] r.pc = "verify"  -> 1

\* What is left for a run: the binding of the sender, and both reports.
Left(r) ==
  CASE r.pc \in {"passed", "failed"} -> 0
    [] r.pc = "start"   -> 2 * StepsOfReport + 2
    [] r.pc = "setting" -> 2 * StepsOfReport + 1
    [] OTHER            -> LeftOfReport(r) + IF r.report = "mild" THEN StepsOfReport ELSE 0

\* A run of run-test has a bounded number of steps: each of its own, and each
\* answer of the chain, brings it nearer to its end, and nothing that others do
\* takes it back (support.go and instructions.go poll a fixed number of times).
RunsShorten ==
  [][\A c \in Clients :
       /\ Left(client[c])' \in Nat
       /\ RunTest(c) \/ Mined(c) => Left(client[c])' < Left(client[c])
       /\ Left(client[c])' <= Left(client[c])]_vars

\* What is left is a number.
LEMMA LeftIsNat ==
  ASSUME NEW r \in ClientRecord
  PROVE  Left(r) \in Nat
BY DEF Left, LeftOfReport, StepsOfReport, ClientRecord, Points

\* A run that moves to another point counts from there.
LEMMA MoveShortens ==
  ASSUME FlowInv, NEW c \in Clients, Set(c) \/ SendReport(c) \/ Mined(c)
  PROVE  Left(client'[c]) < Left(client[c])
<1>1. client[c] \in ClientRecord /\ client[c].report \in Reports
  BY DEF FlowInv, TypeOK, ClientRecord
<1>2. ASSUME NEW p \in Points, Moves(c, p)
      PROVE  /\ client'[c].pc = p /\ client'[c].report = client[c].report
             /\ client'[c].polls = client[c].polls
  <2> DEFINE r == [client[c] EXCEPT !.pc = p]
  <2>1. r \in ClientRecord /\ r.pc = p /\ r.report = client[c].report /\ r.polls = client[c].polls
    BY MovesValue DEF FlowInv
  <2>2. Goes(c, r)
    BY <1>2 DEF Moves
  <2> HIDE DEF r
  <2> QED
    BY <2>1, <2>2, GoesValue DEF FlowInv
<1>3. CASE Set(c)
  <2>1. client[c].pc = "start" /\ (Moves(c, "send") \/ Moves(c, "setting") \/ Moves(c, "failed"))
    BY <1>3 DEF Set
  <2>2. client'[c].pc \in {"send", "setting", "failed"} /\ client'[c].report = client[c].report
    BY <1>2, <2>1 DEF Points
  <2> QED
    BY <1>1, <2>1, <2>2 DEF Left, LeftOfReport, StepsOfReport, Reports
<1>4. CASE SetMined(c)
  <2>1. client[c].pc = "setting" /\ (Moves(c, "send") \/ Moves(c, "failed"))
    BY <1>4 DEF SetMined
  <2>2. client'[c].pc \in {"send", "failed"} /\ client'[c].report = client[c].report
    BY <1>2, <2>1 DEF Points
  <2> QED
    BY <1>1, <2>1, <2>2 DEF Left, LeftOfReport, StepsOfReport, Reports
<1>5. CASE SendReport(c)
  <2>1. client[c].pc = "send" /\ client'[c].pc = "sending" /\ client'[c].report = client[c].report
    BY <1>2, <1>5 DEF SendReport, Points
  <2> QED
    BY <1>1, <2>1 DEF Left, LeftOfReport, StepsOfReport, Reports
<1>6. CASE SendMined(c)
  <2>1. client[c].pc = "sending"
    BY <1>6 DEF SendMined
  <2>2. CASE Moves(c, "failed")
    <3>1. client'[c].pc = "failed"
      BY <1>2, <2>2 DEF Points
    <3> QED
      BY <1>1, <2>1, <3>1 DEF Left, LeftOfReport, StepsOfReport, Reports
  <2>3. ASSUME Instructs(c),
               Goes(c, [client[c] EXCEPT !.pc = "poll", !.id = Len(sent'), !.polls = Repeats])
        PROVE  Left(client'[c]) < Left(client[c])
    <3> DEFINE r == [client[c] EXCEPT !.pc = "poll", !.id = Len(sent'), !.polls = Repeats]
    <3>1. Len(sent') \in Nat
      BY <2>3, MinedInstructs DEF FlowInv
    <3>2. r \in ClientRecord /\ r.pc = "poll" /\ r.polls = Repeats /\ r.report = client[c].report
      BY <1>1, <3>1 DEF ClientRecord, Points
    <3>3. Goes(c, r)
      BY <2>3
    <3> HIDE DEF r
    <3>4. client'[c] = r
      BY <3>2, <3>3, GoesValue DEF FlowInv
    <3> QED
      BY <1>1, <2>1, <3>2, <3>4 DEF Left, LeftOfReport, StepsOfReport, Reports
  <2> QED
    BY <1>6, <2>2, <2>3 DEF SendMined
<1> QED
  BY <1>3, <1>4, <1>5, <1>6 DEF Mined

\* A poll takes the result, or is one less.
LEMMA PollShortens ==
  ASSUME FlowInv, NEW c \in Clients, Poll(c)
  PROVE  Left(client'[c]) < Left(client[c])
<1>1. /\ client[c] \in ClientRecord /\ client[c].report \in Reports
      /\ client[c].pc = "poll" /\ client[c].polls \in Nat \ {0} /\ client[c].id \in Ids
      /\ results \in Seq(Answers \cup {None}) /\ DOMAIN results = Ids
  <2>1. /\ client[c] \in ClientRecord /\ client[c].pc = "poll" /\ Honest(c)
        /\ results \in Seq(Answers \cup {None}) /\ DOMAIN results = Ids
    BY DEF FlowInv, TypeOK, ClientRecord, Poll, Ids
  <2>2. client[c].id \in Ids /\ client[c].polls # 0
    BY <2>1 DEF Honest
  <2> QED
    BY <2>1, <2>2 DEF ClientRecord
<1>2. CASE Goes(c, [client[c] EXCEPT !.pc = "verify", !.response = results[client[c].id]])
  <2> DEFINE r == [client[c] EXCEPT !.pc = "verify", !.response = results[client[c].id]]
  <2>1. results[client[c].id] \in Answers \cup {None}
    BY <1>1, ElementOfSeq
  <2>2. r \in ClientRecord /\ r.pc = "verify" /\ r.report = client[c].report
    BY <1>1, <2>1 DEF ClientRecord, Points
  <2>3. Goes(c, r)
    BY <1>2
  <2> HIDE DEF r
  <2>4. client'[c] = r
    BY <2>2, <2>3, GoesValue DEF FlowInv
  <2> QED
    BY <1>1, <2>2, <2>4 DEF Left, LeftOfReport, StepsOfReport, Reports
<1>3. CASE Goes(c, [client[c] EXCEPT !.pc = IF client[c].polls = 1 THEN "failed" ELSE "poll", !.polls = @ - 1])
  <2> DEFINE r == [client[c] EXCEPT !.pc = IF client[c].polls = 1 THEN "failed" ELSE "poll", !.polls = @ - 1]
  <2>1. /\ r \in ClientRecord /\ r.report = client[c].report
        /\ \/ r.pc = "failed"
           \/ r.pc = "poll" /\ r.polls = client[c].polls - 1
    <3>1. CASE client[c].polls = 1
      <4>1. r = [client[c] EXCEPT !.pc = "failed", !.polls = 0]
        BY <3>1
      <4> HIDE DEF r
      <4> QED
        BY <1>1, <4>1 DEF ClientRecord, Points
    <3>2. CASE client[c].polls # 1
      <4>1. r = [client[c] EXCEPT !.pc = "poll", !.polls = client[c].polls - 1]
        BY <3>2
      <4>2. client[c].polls - 1 \in Nat
        BY <1>1, <3>2
      <4> HIDE DEF r
      <4> QED
        BY <1>1, <4>1, <4>2 DEF ClientRecord, Points
    <3> QED
      BY <3>1, <3>2
  <2>2. Goes(c, r)
    BY <1>3
  <2> HIDE DEF r
  <2>3. client'[c] = r
    BY <2>1, <2>2, GoesValue DEF FlowInv
  <2> DEFINE rest == IF client[c].report = "mild" THEN StepsOfReport ELSE 0
  <2>4. rest \in Nat
    BY DEF StepsOfReport
  <2>5. Left(client[c]) = client[c].polls + 1 + rest
    BY <1>1 DEF Left, LeftOfReport
  <2>6. CASE r.pc = "failed"
    <3>1. Left(r) = 0
      BY <2>6 DEF Left
    <3> QED
      BY <1>1, <2>3, <2>4, <2>5, <3>1
  <2>7. CASE r.pc = "poll" /\ r.polls = client[c].polls - 1
    <3>1. Left(r) = client[c].polls + rest
      BY <1>1, <2>1, <2>4, <2>7 DEF Left, LeftOfReport
    <3> QED
      BY <1>1, <2>3, <2>4, <2>5, <3>1
  <2> QED
    BY <2>1, <2>6, <2>7
<1>4. CASE Moves(c, "failed")
  <2> DEFINE r == [client[c] EXCEPT !.pc = "failed"]
  <2>1. r \in ClientRecord /\ r.pc = "failed"
    BY MovesValue DEF FlowInv, Points
  <2>2. Goes(c, r)
    BY <1>4 DEF Moves
  <2> HIDE DEF r
  <2>3. Left(client'[c]) = 0
    BY <2>1, <2>2, GoesValue DEF FlowInv, Left
  <2> DEFINE rest == IF client[c].report = "mild" THEN StepsOfReport ELSE 0
  <2>4. rest \in Nat
    BY DEF StepsOfReport
  <2>5. Left(client[c]) = client[c].polls + 1 + rest
    BY <1>1 DEF Left, LeftOfReport
  <2> HIDE DEF rest
  <2> QED
    BY <1>1, <2>3, <2>4, <2>5
<1> QED
  BY <1>2, <1>3, <1>4 DEF Poll

\* The mild report is verified once, and so is the grave one.
LEMMA VerifyShortens ==
  ASSUME FlowInv, NEW c \in Clients, Verify(c)
  PROVE  Left(client'[c]) < Left(client[c])
<1> DEFINE a  == client[c].response
           ok == WellShaped(a) /\ a.shouldLog = (client[c].report = "grave")
           p  == CASE ~ok -> "failed" [] ok /\ client[c].report = "mild" -> "send" [] OTHER -> "passed"
           r  == [client[c] EXCEPT !.response = None, !.polls = 0, !.pc = p,
                                   !.report = IF ok THEN "grave" ELSE @]
<1>1. client[c] \in ClientRecord /\ client[c].pc = "verify" /\ client[c].report \in Reports
  BY DEF FlowInv, TypeOK, ClientRecord, Verify
<1>2. Goes(c, r)
  BY DEF Verify
<1> HIDE DEF ok
<1>3. /\ r \in ClientRecord
      /\ \/ r.pc \in {"failed", "passed"}
         \/ client[c].report = "mild" /\ r.pc = "send" /\ r.report = "grave"
  BY <1>1 DEF ClientRecord, Points, Reports
<1> HIDE DEF r
<1>4. client'[c] = r
  BY <1>2, <1>3, GoesValue DEF FlowInv
<1> QED
  BY <1>1, <1>3, <1>4 DEF Left, LeftOfReport, StepsOfReport, Reports

\* The runs do not touch each other.
LEMMA OthersStay ==
  ASSUME FlowInv, NEW c \in Clients, RunTest(c) \/ Mined(c)
  PROVE  \A d \in Clients \ {c} : client'[d] = client[d]
<1>1. PICK r : Goes(c, r)
  BY DEF RunTest, Mined, Set, SetMined, SendReport, SendMined, Poll, Verify, Moves
<1> QED
  BY <1>1 DEF Goes, FlowInv, TypeOK

\* A run of run-test takes at most 2 * Repeats + 8 steps, for any number of runs
\* and whatever becomes of the container: it always comes nearer to its end.
THEOREM RunsAreBounded == Spec => RunsShorten
<1>1. ASSUME FlowInv, FlowInv', [Next]_vars, NEW c \in Clients
      PROVE  /\ Left(client'[c]) \in Nat
             /\ RunTest(c) \/ Mined(c) => Left(client'[c]) < Left(client[c])
             /\ Left(client'[c]) <= Left(client[c])
  <2>1. /\ client[c] \in ClientRecord /\ client'[c] \in ClientRecord
        /\ Left(client[c]) \in Nat /\ Left(client'[c]) \in Nat
    <3>1. client[c] \in ClientRecord /\ client'[c] \in ClientRecord
      BY <1>1 DEF FlowInv, TypeOK, ClientRecord
    <3> QED
      BY <3>1, LeftIsNat
  <2>2. RunTest(c) \/ Mined(c) => Left(client'[c]) < Left(client[c])
    BY <1>1, MoveShortens, PollShortens, VerifyShortens DEF RunTest
  <2>3. client'[c] = client[c] \/ RunTest(c) \/ Mined(c)
    <3>1. CASE UNCHANGED client
      BY <3>1
    <3>2. ASSUME NEW d \in Clients, RunTest(d) \/ Mined(d)
          PROVE  client'[c] = client[c] \/ RunTest(c) \/ Mined(c)
      BY <1>1, <3>2, OthersStay
    <3>3. CASE Boot \/ Watch \/ ServerFails \/ NodeReturns \/ Stop
      BY <3>1, <3>3 DEF Boot, Watch, ServerFails, NodeReturns, Stop
    <3>4. ASSUME NEW id \in Ids, Take(id) \/ Answer(id) PROVE UNCHANGED client
      BY <3>4 DEF Take, Answer
    <3> QED
      BY <1>1, <3>1, <3>2, <3>3, <3>4 DEF Next, Finished, vars
  <2> QED
    BY <2>1, <2>2, <2>3
<1>2. FlowInv /\ FlowInv' /\ [Next]_vars =>
        \A c \in Clients :
          /\ Left(client[c])' \in Nat
          /\ RunTest(c) \/ Mined(c) => Left(client[c])' < Left(client[c])
          /\ Left(client[c])' <= Left(client[c])
  <2>1. \A c \in Clients : Left(client[c])' = Left(client'[c])
    BY DEF Left, LeftOfReport, StepsOfReport
  <2> QED
    BY <1>1, <2>1
<1> QED
  BY <1>2, FlowInvariant, PTL DEF Spec, RunsShorten
=============================================================================
