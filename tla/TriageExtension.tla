-------------------------- MODULE TriageExtension --------------------------
(***************************************************************************)
(* internal/extension: the HTTP server that runs inside the TEE.           *)
(*                                                                         *)
(* net/http serves every request in a goroutine of its own.  POST /action  *)
(* decodes and routes the action, asks Gemini for a classification with no *)
(* lock held, and then updates the two fields of the shared state under    *)
(* the write lock of an RWMutex.  GET /state reads both under the read     *)
(* lock.  The loads and stores inside the critical sections are separate   *)
(* steps here: only the lock keeps them apart.                             *)
(***************************************************************************)
EXTENDS Naturals, FiniteSets

CONSTANTS
  Actions,        \* POST /action requests
  Readers,        \* GET /state requests; each repeats
  None            \* no goroutine holds the write lock

ASSUME ExtensionAssumption == None \notin Actions /\ IsFiniteSet(Actions)

VARIABLES
  classificationCount, lastSeverity,    \* the fields of Extension
  writer, readers,                      \* its mu: who holds it
  pc,             \* where each action's goroutine is
  severity,       \* the severity of its classification
  loaded,         \* the counter as the goroutine has loaded it
  answer,         \* the HTTP answer to each action
  at,             \* where each reader's goroutine is
  snapshot,       \* the StateResponse a reader is filling in
  seen            \* the state each reader was last given

fields     == <<classificationCount, lastSeverity>>
actionVars == <<pc, severity, loaded, answer>>
readerVars == <<at, snapshot, seen>>
vars       == <<fields, writer, readers, actionVars, readerVars>>

\* The rubric's four tiers, an absent "severity", and any other text.
Tiers  == {"LOW", "MEDIUM", "HIGH", "CRITICAL"}
Labels == Tiers \cup {"", "other"}

\* What the body of POST /action holds, by the check it fails first.
Bodies == {"not json", "bad fixed data", "other type", "other command",
           "bad report", "blank", "report"}

\* How the call to Gemini ends, apart from an answer that parses.
Unreachable == {"timeout or refused", "not 200"}
Useless     == {"no key", "body cut off", "no candidate", "not the JSON asked for"}

Pending == [http |-> 0, status |-> 0, severity |-> "", shouldLog |-> FALSE]
Answers == [http : {0, 200, 400, 501}, status : 0 .. 1,
            severity : Labels, shouldLog : BOOLEAN]
Snapshots == [count : Nat, last : Labels]

TypeOK ==
  /\ classificationCount \in Nat /\ lastSeverity \in Labels
  /\ writer \in Actions \cup {None} /\ readers \subseteq Readers
  /\ pc \in [Actions -> {"new", "classify", "lock", "load", "store", "last", "answer", "done"}]
  /\ severity \in [Actions -> Labels]
  /\ loaded \in [Actions -> Nat]
  /\ answer \in [Actions -> Answers]
  /\ at \in [Readers -> {"out", "lock", "count", "last"}]
  /\ snapshot \in [Readers -> Snapshots]
  /\ seen \in [Readers -> Snapshots]

Nothing == [count |-> 0, last |-> ""]

Init ==
  /\ classificationCount = 0 /\ lastSeverity = ""
  /\ writer = None /\ readers = {}
  /\ pc = [a \in Actions |-> "new"]
  /\ severity = [a \in Actions |-> ""]
  /\ loaded = [a \in Actions |-> 0]
  /\ answer = [a \in Actions |-> Pending]
  /\ at = [q \in Readers |-> "out"]
  /\ snapshot = [q \in Readers |-> Nothing]
  /\ seen = [q \in Readers |-> Nothing]

-----------------------------------------------------------------------------
(* POST /action *)

Move(a, from, to) == pc[a] = from /\ pc' = [pc EXCEPT ![a] = to]

\* The HTTP status of an action that is not classified: actionHandler,
\* processAction, processIncidentTriage, and buildResult with status 0.
Refusal(body) ==
  IF body \in {"not json", "bad fixed data"} THEN 400
  ELSE IF body \in {"other type", "other command"} THEN 501 ELSE 200

Refuse(a, http) == answer' = [answer EXCEPT ![a] = [Pending EXCEPT !.http = http]]

\* Decoding and routing touch no shared state.
Receive(a, body) ==
  /\ IF body = "report"
       THEN Move(a, "new", "classify") /\ UNCHANGED answer
       ELSE Move(a, "new", "done") /\ Refuse(a, Refusal(body))
  /\ UNCHANGED <<fields, writer, readers, severity, loaded, readerVars>>

Classify(a, label) ==
  /\ Move(a, "classify", "lock")
  /\ severity' = [severity EXCEPT ![a] = label]
  /\ UNCHANGED <<fields, writer, readers, loaded, answer, readerVars>>

\* client.Do fails within 1800 ms, or the API answers with another status.
FallBack(a, outcome) ==
  /\ outcome \in Unreachable
  /\ Classify(a, "MEDIUM")

\* The reply parses; nothing compares its severity with the four tiers.
Assessed(a, label) == Classify(a, label)

\* Mutant: a failed classification goes on to the counter.
FailAndCount(a, outcome) ==
  /\ outcome \in Useless
  /\ Move(a, "classify", "lock")
  /\ Refuse(a, 200)
  /\ UNCHANGED <<fields, writer, readers, severity, loaded, readerVars>>

\* classifyWithGemini returns an error, and the result has status 0.
Fail(a, outcome) ==
  /\ outcome \in Useless
  /\ Move(a, "classify", "done")
  /\ Refuse(a, 200)
  /\ UNCHANGED <<fields, writer, readers, severity, loaded, readerVars>>

\* Mutant: the update runs without e.mu.Lock().
UpdateUnlocked(a) ==
  /\ Move(a, "lock", "load")
  /\ UNCHANGED <<fields, writer, readers, severity, loaded, answer, readerVars>>

\* e.mu.Lock()
Lock(a) ==
  /\ Move(a, "lock", "load")
  /\ writer = None /\ readers = {}
  /\ writer' = a
  /\ UNCHANGED <<fields, readers, severity, loaded, answer, readerVars>>

\* e.classificationCount++
LoadCount(a) ==
  /\ Move(a, "load", "store")
  /\ loaded' = [loaded EXCEPT ![a] = classificationCount]
  /\ UNCHANGED <<fields, writer, readers, severity, answer, readerVars>>

StoreCount(a) ==
  /\ Move(a, "store", "last")
  /\ classificationCount' = loaded[a] + 1
  /\ UNCHANGED <<lastSeverity, writer, readers, severity, loaded, answer, readerVars>>

\* Mutant: the lock is never given back.
StoreLastAndKeepLock(a) ==
  /\ Move(a, "last", "answer")
  /\ lastSeverity' = severity[a]
  /\ UNCHANGED <<classificationCount, writer, readers, severity, loaded, answer, readerVars>>

\* Mutant: "other" severities are remembered as given, an absent one as null.
StoreNull(a) ==
  /\ Move(a, "last", "answer")
  /\ lastSeverity' = IF severity[a] = "" THEN "null" ELSE severity[a]
  /\ writer' = None
  /\ UNCHANGED <<classificationCount, readers, severity, loaded, answer, readerVars>>

\* e.lastSeverity = classification.Severity; e.mu.Unlock()
StoreLast(a) ==
  /\ Move(a, "last", "answer")
  /\ lastSeverity' = severity[a]
  /\ writer' = None
  /\ UNCHANGED <<classificationCount, readers, severity, loaded, answer, readerVars>>

ShouldLog(label) == label \in {"MEDIUM", "HIGH", "CRITICAL"}

\* buildResult with status 1, written to the caller.
Answer(a) ==
  /\ Move(a, "answer", "done")
  /\ answer' = [answer EXCEPT ![a] =
       [http |-> 200, status |-> 1, severity |-> severity[a],
        shouldLog |-> ShouldLog(severity[a])]]
  /\ UNCHANGED <<fields, writer, readers, severity, loaded, readerVars>>

-----------------------------------------------------------------------------
(* GET /state *)

Ask(q) ==
  /\ at[q] = "out" /\ at' = [at EXCEPT ![q] = "lock"]
  /\ UNCHANGED <<fields, writer, readers, actionVars, snapshot, seen>>

\* Mutant: the handler reads the fields without RLock.
ReadUnlocked(q) ==
  /\ at[q] = "lock" /\ at' = [at EXCEPT ![q] = "count"]
  /\ UNCHANGED <<fields, writer, readers, actionVars, snapshot, seen>>

\* e.mu.RLock(); readers share the lock.
RLock(q) ==
  /\ at[q] = "lock" /\ at' = [at EXCEPT ![q] = "count"]
  /\ writer = None
  /\ readers' = readers \cup {q}
  /\ UNCHANGED <<fields, writer, actionVars, snapshot, seen>>

ReadCount(q) ==
  /\ at[q] = "count" /\ at' = [at EXCEPT ![q] = "last"]
  /\ snapshot' = [snapshot EXCEPT ![q].count = classificationCount]
  /\ UNCHANGED <<fields, writer, readers, actionVars, seen>>

\* The second field, e.mu.RUnlock(), and the answer.
ReadLast(q) ==
  /\ at[q] = "last" /\ at' = [at EXCEPT ![q] = "out"]
  /\ snapshot' = [snapshot EXCEPT ![q] = Nothing]
  /\ seen' = [seen EXCEPT ![q] = [snapshot[q] EXCEPT !.last = lastSeverity]]
  /\ readers' = readers \ {q}
  /\ UNCHANGED <<fields, writer, actionVars>>

-----------------------------------------------------------------------------
\* The goroutine of an action that has been received.
Work(a) ==
  \/ \E o \in Unreachable : FallBack(a, o)
  \/ \E label \in Labels : Assessed(a, label)
  \/ \E o \in Useless : Fail(a, o)
  \/ Lock(a) \/ LoadCount(a) \/ StoreCount(a) \/ StoreLast(a) \/ Answer(a)

Read(q) == RLock(q) \/ ReadCount(q) \/ ReadLast(q)

Next ==
  \/ \E a \in Actions : (\E body \in Bodies : Receive(a, body)) \/ Work(a)
  \/ \E q \in Readers : Ask(q) \/ Read(q)

Spec == Init /\ [][Next]_vars

\* Goroutines run, and the 1800 ms limit ends every call to Gemini.  A waiting
\* writer stops new readers of a Go RWMutex, so it gets the lock although
\* readers keep coming, and Unlock lets the waiting readers in: Lock and RLock
\* are strongly fair.
FairSpec ==
  /\ Spec
  /\ \A a \in Actions : WF_vars(Work(a)) /\ SF_vars(Lock(a))
  /\ \A q \in Readers : WF_vars(Read(q)) /\ SF_vars(RLock(q))

-----------------------------------------------------------------------------
\* Actions whose classification has reached the counter.
Counted == {a \in Actions : pc[a] \in {"last", "answer"} \/ answer[a].status = 1}

\* The counter is exact whatever the goroutines do at the same time: no update
\* is lost, and an action that fails or is refused does not count.
CountIsClassified == classificationCount = Cardinality(Counted)

\* The state between two updates: while a writer is between its two stores,
\* the count is one ahead of the severity.
AtomicCount ==
  IF \E a \in Actions : writer = a /\ pc[a] = "last"
    THEN classificationCount - 1
    ELSE classificationCount

\* Both fields change in one moment for everyone who asks: GET /state never
\* shows the count of one report with the severity of another.
State == INSTANCE ExtensionState WITH classificationCount <- AtomicCount
ImplementsState == State!Spec

\* Every action and every state request is answered: no goroutine keeps the
\* lock, and no call to Gemini lasts.
EveryRequestIsAnswered ==
  /\ \A a \in Actions : pc[a] # "new" ~> pc[a] = "done"
  /\ \A q \in Readers : at[q] # "out" ~> at[q] = "out"

\* README.md, "What this extension does", item 5: if the processing times out
\* or the AI call fails, the result is MEDIUM and not a failure (status 0).
AiFailureFallsBack ==
  [][\A a \in Actions :
       pc[a] = "classify" /\ pc'[a] = "done" => answer'[a].status = 1]_vars
=============================================================================
