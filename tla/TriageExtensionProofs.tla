----------------------- MODULE TriageExtensionProofs -----------------------
(***************************************************************************)
(* Proofs about TriageExtension, for every finite set of actions and every *)
(* set of readers.  The inductive invariant says who is in a critical      *)
(* section and what the fields are worth there.                            *)
(***************************************************************************)
EXTENDS TriageExtension, FiniteSetTheorems, TLAPS

\* The write lock is held by the action in its critical section, the read lock
\* by the readers in theirs, and never both.
Locked ==
  /\ \A a \in Actions : pc[a] \in {"load", "store", "last"} <=> writer = a
  /\ \A q \in Readers : at[q] \in {"count", "last"} <=> q \in readers
  /\ writer # None => readers = {}

\* What a goroutine has read in its critical section is still true.
LoadedIsCurrent ==
  /\ \A a \in Actions : pc[a] = "store" => loaded[a] = classificationCount
  /\ \A q \in Readers : at[q] = "last" => snapshot[q].count = classificationCount

\* Status 1 is the answer of a finished action.
AnsweredIsDone == \A a \in Actions : answer[a].status = 1 => pc[a] = "done"

ExtensionInv ==
  /\ TypeOK
  /\ Locked
  /\ LoadedIsCurrent
  /\ AnsweredIsDone
  /\ CountIsClassified

USE ExtensionAssumption

-----------------------------------------------------------------------------
(* Type correctness *)

\* The values the variables start with have their types.
LEMMA InitValues == Pending \in Answers /\ Nothing \in Snapshots /\ Pending.status = 0
  BY DEF Pending, Answers, Nothing, Snapshots, Labels

\* The types hold when the server starts.
LEMMA InitType == Init => TypeOK
<1> SUFFICES ASSUME Init PROVE TypeOK
  OBVIOUS
<1> HIDE DEF Pending, Nothing
<1>1. /\ classificationCount \in Nat /\ lastSeverity \in Labels
      /\ writer \in Actions \cup {None} /\ readers \subseteq Readers
  BY DEF Init, Labels
<1>2. /\ pc \in [Actions -> {"new", "classify", "lock", "load", "store", "last", "answer", "done"}]
      /\ severity \in [Actions -> Labels]
      /\ loaded \in [Actions -> Nat]
      /\ answer \in [Actions -> Answers]
  BY InitValues DEF Init, Labels
<1>3. /\ at \in [Readers -> {"out", "lock", "count", "last"}]
      /\ snapshot \in [Readers -> Snapshots]
      /\ seen \in [Readers -> Snapshots]
  BY InitValues DEF Init
<1> QED
  BY <1>1, <1>2, <1>3 DEF TypeOK

\* A refused action has one of the three statuses of the handlers.
LEMMA RefusalType ==
  ASSUME NEW body \in Bodies, body # "report"
  PROVE  Refusal(body) \in {200, 400, 501}
  BY DEF Refusal

\* Decoding and routing keep the types.
LEMMA ReceiveType ==
  ASSUME TypeOK, NEW a \in Actions, NEW body \in Bodies, Receive(a, body)
  PROVE  TypeOK'
<1>1. Pending \in Answers
  BY InitValues
<1>2. CASE body = "report"
  BY <1>2 DEF TypeOK, Receive, Move, fields, readerVars
<1>3. CASE body # "report"
  <2>1. Refusal(body) \in {0, 200, 400, 501}
    BY <1>3, RefusalType
  <2>2. [Pending EXCEPT !.http = Refusal(body)] \in Answers
    BY <1>1, <2>1 DEF Answers
  <2> HIDE DEF Pending
  <2> QED
    BY <1>3, <2>2 DEF TypeOK, Receive, Move, Refuse, fields, readerVars
<1> QED
  BY <1>2, <1>3

\* Classification, update and answer keep the types.
LEMMA WorkType ==
  ASSUME TypeOK, NEW a \in Actions, Work(a)
  PROVE  TypeOK'
<1>1. ASSUME NEW label \in Labels, Classify(a, label) PROVE TypeOK'
  BY <1>1 DEF TypeOK, Classify, Move, fields, readerVars
<1>2. ASSUME NEW o \in Useless, Fail(a, o) PROVE TypeOK'
  <2>1. [Pending EXCEPT !.http = 200] \in Answers
    BY InitValues DEF Answers
  <2> QED
    BY <1>2, <2>1 DEF TypeOK, Fail, Move, Refuse, fields, readerVars
<1>3. ASSUME Lock(a) \/ LoadCount(a) \/ StoreCount(a) \/ StoreLast(a) PROVE TypeOK'
  BY <1>3 DEF TypeOK, Lock, LoadCount, StoreCount, StoreLast, Move, fields, readerVars
<1>4. ASSUME Answer(a) PROVE TypeOK'
  <2>1. [http |-> 200, status |-> 1, severity |-> severity[a],
         shouldLog |-> ShouldLog(severity[a])] \in Answers
    BY DEF TypeOK, Answers, ShouldLog
  <2> HIDE DEF ShouldLog
  <2> QED
    BY <1>4, <2>1 DEF TypeOK, Answer, Move, fields, readerVars
<1> QED
  BY <1>1, <1>2, <1>3, <1>4 DEF Work, FallBack, Assessed, Labels, Tiers

\* GET /state keeps the types.
LEMMA ReaderType ==
  ASSUME TypeOK, NEW q \in Readers, Ask(q) \/ Read(q)
  PROVE  TypeOK'
<1>1. CASE Ask(q)
  BY <1>1 DEF TypeOK, Ask, fields, actionVars
<1>2. CASE RLock(q)
  BY <1>2 DEF TypeOK, RLock, fields, actionVars
<1>3. CASE ReadCount(q)
  BY <1>3 DEF TypeOK, ReadCount, Snapshots, fields, actionVars
<1>4. CASE ReadLast(q)
  <2>1. Nothing \in Snapshots
    BY DEF Nothing, Snapshots, Labels
  <2>2. [snapshot[q] EXCEPT !.last = lastSeverity] \in Snapshots
    BY DEF TypeOK, Snapshots
  <2>3. snapshot' \in [Readers -> Snapshots] /\ seen' \in [Readers -> Snapshots]
    BY <1>4, <2>1, <2>2 DEF TypeOK, ReadLast
  <2>4. at' \in [Readers -> {"out", "lock", "count", "last"}] /\ readers' \subseteq Readers
    BY <1>4 DEF TypeOK, ReadLast
  <2> QED
    BY <1>4, <2>3, <2>4 DEF TypeOK, ReadLast, fields, actionVars
<1> QED
  BY <1>1, <1>2, <1>3, <1>4 DEF Read

\* Every step keeps the types.
LEMMA StepType == TypeOK /\ [Next]_vars => TypeOK'
<1> SUFFICES ASSUME TypeOK, [Next]_vars PROVE TypeOK'
  OBVIOUS
<1>1. CASE UNCHANGED vars
  BY <1>1 DEF TypeOK, vars, fields, actionVars, readerVars
<1> QED
  BY <1>1, ReceiveType, WorkType, ReaderType DEF Next

\* Every variable keeps its type: severities are those of the rubric, an absent
\* or an unknown one, and no answer has another status.
THEOREM TypeCorrect == Spec => []TypeOK
  BY InitType, StepType, PTL DEF Spec
-----------------------------------------------------------------------------
(* The lock and what it protects *)

\* Nobody holds the lock when the server starts, and nothing is counted.
LEMMA InitInv == Init => ExtensionInv
<1> SUFFICES ASSUME Init PROVE ExtensionInv
  OBVIOUS
<1>1. TypeOK
  BY InitType
<1>0. /\ \A a \in Actions : pc[a] = "new" /\ answer[a].status = 0
      /\ \A q \in Readers : at[q] = "out"
      /\ writer = None /\ readers = {}
  BY DEF Init, Pending
<1>2. Locked /\ LoadedIsCurrent /\ AnsweredIsDone
  BY <1>0 DEF Locked, LoadedIsCurrent, AnsweredIsDone
<1>3. Counted = {}
  BY <1>0 DEF Counted
<1>4. CountIsClassified
  BY <1>3, FS_EmptySet DEF CountIsClassified, Init
<1> QED
  BY <1>1, <1>2, <1>4 DEF ExtensionInv

\* Decoding and routing touch neither the lock nor what it protects.
LEMMA ReceiveKeepsLock ==
  ASSUME ExtensionInv, NEW a \in Actions, NEW body \in Bodies, Receive(a, body)
  PROVE  (Locked /\ LoadedIsCurrent /\ AnsweredIsDone)'
<1>1. /\ pc[a] = "new" /\ UNCHANGED <<fields, writer, readers, loaded, readerVars>>
      /\ \/ pc' = [pc EXCEPT ![a] = "classify"] /\ UNCHANGED answer
         \/ /\ pc' = [pc EXCEPT ![a] = "done"]
            /\ answer' = [answer EXCEPT ![a] = [Pending EXCEPT !.http = Refusal(body)]]
  BY DEF Receive, Move, Refuse
<1>2. [Pending EXCEPT !.http = Refusal(body)].status = 0
  BY DEF Pending
<1> HIDE DEF Pending
<1> QED
  BY <1>1, <1>2 DEF ExtensionInv, TypeOK, Locked, LoadedIsCurrent, AnsweredIsDone, fields, readerVars

\* Only one goroutine is between Lock and Unlock, and it has loaded the
\* counter as it still is when it stores it.
LEMMA WorkKeepsLock ==
  ASSUME ExtensionInv, NEW a \in Actions, Work(a)
  PROVE  (Locked /\ LoadedIsCurrent /\ AnsweredIsDone)'
<1> USE DEF ExtensionInv, TypeOK, Locked, LoadedIsCurrent, AnsweredIsDone, Move, fields, readerVars
<1>1. CASE \E label \in Labels : Classify(a, label)
  BY <1>1 DEF Classify
<1>2. CASE \E o \in Useless : Fail(a, o)
  <2>1. [Pending EXCEPT !.http = 200].status = 0
    BY DEF Pending
  <2>2. /\ pc[a] = "classify" /\ pc' = [pc EXCEPT ![a] = "done"]
        /\ answer' = [answer EXCEPT ![a] = [Pending EXCEPT !.http = 200]]
        /\ UNCHANGED <<fields, writer, readers, loaded, readerVars>>
    BY <1>2 DEF Fail, Refuse
  <2> HIDE DEF Pending
  <2> QED
    BY <2>1, <2>2
<1>3. CASE Lock(a)
  BY <1>3 DEF Lock
<1>4. CASE LoadCount(a)
  BY <1>4 DEF LoadCount
<1>5. CASE StoreCount(a)
  BY <1>5 DEF StoreCount
<1>6. CASE StoreLast(a)
  BY <1>6 DEF StoreLast
<1>7. CASE Answer(a)
  BY <1>7 DEF Answer
<1> QED
  BY <1>1, <1>2, <1>3, <1>4, <1>5, <1>6, <1>7 DEF Work, FallBack, Assessed, Labels, Tiers

\* Readers are inside only while no writer is.
LEMMA ReaderKeepsLock ==
  ASSUME ExtensionInv, NEW q \in Readers, Ask(q) \/ Read(q)
  PROVE  (Locked /\ LoadedIsCurrent /\ AnsweredIsDone)'
<1> USE DEF ExtensionInv, TypeOK, Locked, LoadedIsCurrent, AnsweredIsDone, fields, actionVars
<1>1. CASE Ask(q)
  BY <1>1 DEF Ask
<1>2. CASE RLock(q)
  BY <1>2 DEF RLock
<1>3. CASE ReadCount(q)
  BY <1>3 DEF ReadCount, Snapshots
<1>4. CASE ReadLast(q)
  BY <1>4 DEF ReadLast
<1> QED
  BY <1>1, <1>2, <1>3, <1>4 DEF Read

\* Only the store of the counter adds an action to those counted, and the lock
\* makes it the successor of the count it replaces.
LEMMA StoreCountCounts ==
  ASSUME ExtensionInv, NEW a \in Actions, StoreCount(a)
  PROVE  CountIsClassified'
<1>1. /\ pc[a] = "store" /\ pc' = [pc EXCEPT ![a] = "last"]
      /\ classificationCount' = loaded[a] + 1 /\ UNCHANGED answer
  BY DEF StoreCount, Move
<1>2. loaded[a] = classificationCount /\ a \notin Counted
  BY <1>1 DEF ExtensionInv, LoadedIsCurrent, AnsweredIsDone, Counted
<1>3. Counted' = Counted \cup {a}
  BY <1>1 DEF ExtensionInv, TypeOK, Counted
<1>4. IsFiniteSet(Counted)
  BY FS_Subset DEF Counted
<1>5. Cardinality(Counted \cup {a}) = Cardinality(Counted) + 1
  BY <1>2, <1>4, FS_AddElement
<1> QED
  BY <1>1, <1>2, <1>3, <1>5 DEF ExtensionInv, CountIsClassified

\* Every other step leaves the counter and the counted actions alone.
LEMMA OthersKeepCounted ==
  ASSUME ExtensionInv, [Next]_vars, ~ \E a \in Actions : StoreCount(a)
  PROVE  CountIsClassified'
<1> SUFFICES Counted' = Counted /\ classificationCount' = classificationCount
  BY DEF ExtensionInv, CountIsClassified
<1> USE DEF ExtensionInv, TypeOK, AnsweredIsDone, Counted, Move, fields
<1>1. ASSUME NEW a \in Actions, NEW body \in Bodies, Receive(a, body)
      PROVE  Counted' = Counted /\ classificationCount' = classificationCount
  <2> DEFINE refusal == [Pending EXCEPT !.http = Refusal(body)]
  <2>1. refusal.status = 0
    BY DEF Pending
  <2>2. pc[a] = "new" /\ answer[a].status # 1 /\ UNCHANGED classificationCount
    BY <1>1 DEF Receive
  <2>3. \/ pc' = [pc EXCEPT ![a] = "classify"] /\ UNCHANGED answer
        \/ pc' = [pc EXCEPT ![a] = "done"] /\ answer' = [answer EXCEPT ![a] = refusal]
    BY <1>1 DEF Receive, Refuse
  <2> HIDE DEF refusal
  <2> QED
    BY <2>1, <2>2, <2>3
<1>2. ASSUME NEW a \in Actions, Work(a)
      PROVE  Counted' = Counted /\ classificationCount' = classificationCount
  <2>1. CASE \E label \in Labels : Classify(a, label)
    BY <2>1 DEF Classify
  <2>2. CASE \E o \in Useless : Fail(a, o)
    <3>1. [Pending EXCEPT !.http = 200].status = 0
      BY DEF Pending
    <3> HIDE DEF Pending
    <3> QED
      BY <2>2, <3>1 DEF Fail, Refuse
  <2>3. CASE Lock(a) \/ LoadCount(a)
    BY <2>3 DEF Lock, LoadCount
  <2>4. CASE StoreLast(a)
    BY <2>4 DEF StoreLast
  <2>5. CASE Answer(a)
    BY <2>5 DEF Answer
  <2> QED
    BY <1>2, <2>1, <2>2, <2>3, <2>4, <2>5 DEF Work, FallBack, Assessed, Labels, Tiers
<1>3. ASSUME NEW q \in Readers, Ask(q) \/ Read(q)
      PROVE  Counted' = Counted /\ classificationCount' = classificationCount
  BY <1>3 DEF Ask, Read, RLock, ReadCount, ReadLast, actionVars
<1>4. CASE UNCHANGED vars
  BY <1>4 DEF vars, actionVars
<1> QED
  BY <1>1, <1>2, <1>3, <1>4 DEF Next

\* The invariant is inductive.
LEMMA StepInv == ExtensionInv /\ [Next]_vars => ExtensionInv'
<1> SUFFICES ASSUME ExtensionInv, [Next]_vars PROVE ExtensionInv'
  OBVIOUS
<1>1. TypeOK'
  BY StepType DEF ExtensionInv
<1>2. (Locked /\ LoadedIsCurrent /\ AnsweredIsDone)'
  <2>1. CASE UNCHANGED vars
    BY <2>1 DEF ExtensionInv, Locked, LoadedIsCurrent, AnsweredIsDone, vars, fields,
      actionVars, readerVars
  <2> QED
    BY <2>1, ReceiveKeepsLock, WorkKeepsLock, ReaderKeepsLock DEF Next
<1>3. CountIsClassified'
  BY StoreCountCounts, OthersKeepCounted
<1> QED
  BY <1>1, <1>2, <1>3 DEF ExtensionInv

\* The inductive invariant holds in every reachable state: types, the lock and
\* what it protects, and the exact count.
THEOREM ExtensionInvariant == Spec => []ExtensionInv
  BY InitInv, StepInv, PTL DEF Spec

\* The counter equals the number of classified actions in every reachable
\* state, for any number of requests: no update is lost, no failure counted.
THEOREM CountIsExact == Spec => []CountIsClassified
<1>1. ExtensionInv => CountIsClassified
  BY DEF ExtensionInv
<1> QED
  BY <1>1, ExtensionInvariant, PTL
-----------------------------------------------------------------------------
(* GET /state shows the two fields as if they changed at once *)

BetweenStores == \E a \in Actions : pc[a] = "last"

\* With the lock, the abstract count is behind exactly between the two stores.
LEMMA AtomicCountValue ==
  ASSUME ExtensionInv
  PROVE  AtomicCount = IF BetweenStores THEN classificationCount - 1 ELSE classificationCount
BY DEF ExtensionInv, Locked, AtomicCount, BetweenStores

\* The same in the next state.
LEMMA AtomicCountValueNext ==
  ASSUME ExtensionInv'
  PROVE  AtomicCount' = IF BetweenStores' THEN classificationCount' - 1 ELSE classificationCount'
BY DEF ExtensionInv, Locked, AtomicCount, BetweenStores

\* The critical section of an update is one step of the abstract state: the
\* second store.  The first one changes nothing that a reader can see.
LEMMA WorkRefines ==
  ASSUME ExtensionInv, ExtensionInv', NEW a \in Actions, Work(a)
  PROVE  [State!Next]_(State!vars)
<1>1. UNCHANGED seen
  BY DEF Work, FallBack, Assessed, Classify, Fail, Lock, LoadCount, StoreCount, StoreLast, Answer,
    readerVars
<1>2. CASE UNCHANGED <<classificationCount, lastSeverity>> /\ BetweenStores' = BetweenStores
  BY <1>1, <1>2, AtomicCountValue, AtomicCountValueNext DEF State!vars
<1>3. CASE StoreCount(a)
  <2>1. /\ pc[a] = "store" /\ pc' = [pc EXCEPT ![a] = "last"] /\ UNCHANGED lastSeverity
        /\ classificationCount' = loaded[a] + 1
    BY <1>3 DEF StoreCount, Move
  <2>2. loaded[a] = classificationCount /\ classificationCount \in Nat
    BY <2>1 DEF ExtensionInv, LoadedIsCurrent, TypeOK
  <2>3. ~BetweenStores /\ BetweenStores'
    BY <2>1 DEF ExtensionInv, TypeOK, Locked, BetweenStores
  <2>4. AtomicCount' = AtomicCount
    BY <2>1, <2>2, <2>3, AtomicCountValue, AtomicCountValueNext
  <2> QED
    BY <1>1, <2>1, <2>4 DEF State!vars
<1>4. CASE StoreLast(a)
  <2>1. /\ pc[a] = "last" /\ pc' = [pc EXCEPT ![a] = "answer"] /\ UNCHANGED classificationCount
        /\ lastSeverity' = severity[a]
    BY <1>4 DEF StoreLast, Move
  <2>2. severity[a] \in Labels /\ classificationCount \in Nat
    BY DEF ExtensionInv, TypeOK
  <2>3. BetweenStores /\ ~BetweenStores'
    BY <2>1 DEF ExtensionInv, TypeOK, Locked, BetweenStores
  <2>4. AtomicCount' = AtomicCount + 1
    BY <2>1, <2>2, <2>3, AtomicCountValue, AtomicCountValueNext
  <2>5. State!Classified(severity[a])
    BY <1>1, <2>1, <2>4 DEF State!Classified
  <2> QED
    BY <2>2, <2>5 DEF State!Next
<1>5. ASSUME ~StoreCount(a), ~StoreLast(a)
      PROVE  UNCHANGED <<classificationCount, lastSeverity>> /\ BetweenStores' = BetweenStores
  <2>1. /\ UNCHANGED <<classificationCount, lastSeverity>>
        /\ \E from \in {"classify", "lock", "load", "answer"}, to \in {"lock", "load", "store", "done"} :
             pc[a] = from /\ pc' = [pc EXCEPT ![a] = to]
    BY <1>5 DEF Work, FallBack, Assessed, Classify, Fail, Lock, LoadCount, Answer, Move, fields
  <2> QED
    BY <2>1 DEF ExtensionInv, TypeOK, BetweenStores
<1> QED
  BY <1>2, <1>3, <1>4, <1>5

\* A reader that leaves shows the state as it is at that moment.
LEMMA ReadLastRefines ==
  ASSUME ExtensionInv, NEW q \in Readers, ReadLast(q)
  PROVE  State!GetState(q)
<1>1. /\ at[q] = "last" /\ UNCHANGED <<fields, actionVars, writer>>
      /\ seen' = [seen EXCEPT ![q] = [snapshot[q] EXCEPT !.last = lastSeverity]]
  BY DEF ReadLast
<1>2. snapshot[q] \in Snapshots /\ snapshot[q].count = classificationCount
  BY <1>1 DEF ExtensionInv, TypeOK, LoadedIsCurrent
<1>3. ~BetweenStores
  BY <1>1 DEF ExtensionInv, TypeOK, Locked, BetweenStores
<1>4. AtomicCount = classificationCount
  BY <1>3, AtomicCountValue
<1>5. [snapshot[q] EXCEPT !.last = lastSeverity] = [count |-> AtomicCount, last |-> lastSeverity]
  BY <1>2, <1>4 DEF Snapshots
<1>6. UNCHANGED <<AtomicCount, lastSeverity>>
  BY <1>1 DEF AtomicCount, fields, actionVars
<1> QED
  BY <1>1, <1>5, <1>6 DEF State!GetState

\* Every step is a step of the abstract state, or shows nothing.
LEMMA StepRefines ==
  ASSUME ExtensionInv, ExtensionInv', [Next]_vars
  PROVE  [State!Next]_(State!vars)
<1>1. ASSUME NEW a \in Actions, NEW body \in Bodies, Receive(a, body) PROVE UNCHANGED State!vars
  <2>1. /\ UNCHANGED <<fields, seen>>
        /\ \E to \in {"classify", "done"} : pc[a] = "new" /\ pc' = [pc EXCEPT ![a] = to]
    BY <1>1 DEF Receive, Move, readerVars
  <2>2. BetweenStores' = BetweenStores
    BY <2>1 DEF ExtensionInv, TypeOK, BetweenStores
  <2> QED
    BY <2>1, <2>2, AtomicCountValue, AtomicCountValueNext DEF State!vars, fields
<1>2. ASSUME NEW q \in Readers, Ask(q) \/ RLock(q) \/ ReadCount(q) PROVE UNCHANGED State!vars
  BY <1>2 DEF Ask, RLock, ReadCount, State!vars, AtomicCount, fields, actionVars
<1>3. CASE UNCHANGED vars
  BY <1>3 DEF vars, fields, actionVars, readerVars, State!vars, AtomicCount
<1> QED
  BY <1>1, <1>2, <1>3, WorkRefines, ReadLastRefines DEF Next, Read, State!Next

\* GET /state never mixes the count of one report with the severity of another,
\* however many actions and readers run at the same time.
THEOREM ExtensionImplementsState == Spec => ImplementsState
<1>1. Init => State!Init
  <2> SUFFICES ASSUME Init PROVE State!Init
    OBVIOUS
  <2>1. AtomicCount = 0
    BY DEF Init, AtomicCount
  <2> QED
    BY <2>1 DEF Init, State!Init, Nothing, State!Nothing
<1>2. ExtensionInv /\ ExtensionInv' /\ [Next]_vars => [State!Next]_(State!vars)
  BY StepRefines
<1> QED
  BY <1>1, <1>2, ExtensionInvariant, PTL DEF Spec, ImplementsState, State!Spec
=============================================================================
