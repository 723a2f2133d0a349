-------------------------- MODULE ChainRelayProofs --------------------------
(***************************************************************************)
(* Proofs about ChainRelay, for every set of clients, every record and any *)
(* number of calls.  The inductive invariant ties each transaction to its  *)
(* call: where it may be, at most once, and with which nonce.              *)
(***************************************************************************)
EXTENDS ChainRelay, SequenceTheorems, TLAPS

Mined(c) == \E i \in DOMAIN mined : mined[i].call = c

\* A client inside the function works on a call that passed both checks.
CurrentIsRunning ==
  \A p \in Clients :
    stage[p] # "off" =>
      /\ current[p] \in DOMAIN calls
      /\ calls[current[p]].outcome = "running"
      /\ Accepts(calls[current[p]].arg)

OneClientPerCall ==
  \A p, q \in Clients :
    (stage[p] # "off" /\ stage[q] # "off" /\ current[p] = current[q]) => p = q

\* What is in the pool, on the chain and in the log comes from a call.
TxsAreOfCalls ==
  /\ \A tx \in pool : /\ tx.call \in DOMAIN calls
                      /\ tx.arg = calls[tx.call].arg
                      /\ Accepts(tx.arg)
  /\ \A i \in DOMAIN mined : mined[i].call \in DOMAIN calls
  /\ \A i \in DOMAIN incidents : Mined(incidents[i].call)

\* A call has one transaction at most: none before it is sent, and then one
\* that is pending or included, but not both.
OneTxPerCall ==
  /\ \A p \in Clients :
       stage[p] \in {"connect", "nonce", "send"} => ~InPool(current[p]) /\ ~Mined(current[p])
  /\ \A tx \in pool : ~Mined(tx.call)

\* A transaction with status 1 has left its record.
OkIsRecorded ==
  Target # "wallet" => \A i \in DOMAIN mined : mined[i].ok => Recorded(mined[i].call)

\* Nobody holds a nonce that lies ahead of the included transactions.
NonceIsNotAhead == \A p \in Clients : nonce[p] <= Len(mined)

RelayInv ==
  /\ RelayTypeOK
  /\ CurrentIsRunning
  /\ OneClientPerCall
  /\ TxsAreOfCalls
  /\ OneTxPerCall
  /\ OkIsRecorded
  /\ NonceIsNotAhead
  /\ PoolIsNext
  /\ RecordedOnce
-----------------------------------------------------------------------------
(* What a step does to the calls *)

CallRecords == [arg : Arguments, outcome : Outcomes]

\* A call that is made goes to the end, and the earlier ones stay as they are.
LEMMA NewCallIsLast ==
  ASSUME RelayTypeOK, NEW arg \in Arguments, NEW o \in Outcomes, NewCall(arg, o)
  PROVE  /\ calls' \in Seq(CallRecords)
         /\ DOMAIN calls = 1 .. Len(calls)
         /\ DOMAIN calls' = 1 .. Len(calls) + 1
         /\ Len(calls) \in Nat
         /\ \A c \in DOMAIN calls : calls'[c] = calls[c]
         /\ calls'[Len(calls) + 1] = [arg |-> arg, outcome |-> o]
  BY DEF RelayTypeOK, NewCall, CallRecords

\* A client that leaves changes the outcome of its own call and nothing else.
LEMMA LeaveKeepsCalls ==
  ASSUME RelayTypeOK, CurrentIsRunning,
         NEW p \in Clients, stage[p] # "off", NEW o \in Outcomes, Leave(p, o)
  PROVE  /\ calls' \in Seq(CallRecords)
         /\ DOMAIN calls' = DOMAIN calls
         /\ \A c \in DOMAIN calls : /\ calls'[c].arg = calls[c].arg
                                    /\ c # current[p] => calls'[c] = calls[c]
         /\ calls'[current[p]].outcome = o
         /\ calls' = [calls EXCEPT ![current[p]].outcome = o]
<1> DEFINE c == current[p]
<1>1. calls \in Seq(CallRecords)
  BY DEF RelayTypeOK, CallRecords
<1>2. c \in 1 .. Len(calls)
  BY <1>1, LenProperties DEF CurrentIsRunning
<1>3. calls[c] \in CallRecords
  BY <1>1, <1>2, ElementOfSeq
<1>4. [calls[c] EXCEPT !.outcome = o] \in CallRecords
  BY <1>3 DEF CallRecords
<1>5. calls' = [calls EXCEPT ![c] = [calls[c] EXCEPT !.outcome = o]]
  BY DEF Leave
<1>6. /\ calls' \in Seq(CallRecords)
      /\ Len(calls') = Len(calls)
      /\ \A j \in 1 .. Len(calls) :
           calls'[j] = IF j = c THEN [calls[c] EXCEPT !.outcome = o] ELSE calls[j]
  <2> HIDE DEF c
  <2> QED BY <1>1, <1>2, <1>4, <1>5, ExceptSeq
<1>7. DOMAIN calls' = DOMAIN calls /\ DOMAIN calls = 1 .. Len(calls)
  BY <1>1, <1>6, LenProperties
<1> QED
  BY <1>2, <1>3, <1>6, <1>7 DEF CallRecords, Leave

\* The other clients keep their running calls when one leaves.
LEMMA LeaveKeepsClients ==
  ASSUME RelayInv, NEW p \in Clients, stage[p] # "off", NEW o \in Outcomes, Leave(p, o)
  PROVE  /\ stage' \in [Clients -> Stages]
         /\ current' \in [Clients -> Nat]
         /\ nonce' \in [Clients -> Nat]
         /\ CurrentIsRunning'
         /\ OneClientPerCall'
         /\ \A q \in Clients :
              stage'[q] # "off" => q # p /\ stage'[q] = stage[q] /\ current'[q] = current[q]
<1>1. /\ stage' \in [Clients -> Stages]
      /\ current' \in [Clients -> Nat]
      /\ nonce' \in [Clients -> Nat]
  BY DEF RelayInv, RelayTypeOK, Leave, Stages
<1>2. \A q \in Clients :
        stage'[q] # "off" => q # p /\ stage'[q] = stage[q] /\ current'[q] = current[q]
  BY DEF RelayInv, RelayTypeOK, Leave
<1>3. CurrentIsRunning'
  <2>1. /\ DOMAIN calls' = DOMAIN calls
        /\ \A c \in DOMAIN calls : c # current[p] => calls'[c] = calls[c]
    BY LeaveKeepsCalls DEF RelayInv
  <2> SUFFICES ASSUME NEW q \in Clients, stage'[q] # "off"
               PROVE  /\ current'[q] \in DOMAIN calls'
                      /\ calls'[current'[q]].outcome = "running"
                      /\ Accepts(calls'[current'[q]].arg)
    BY DEF CurrentIsRunning, Accepts
  <2>2. /\ stage[q] # "off" /\ current'[q] = current[q] /\ current[q] # current[p]
        /\ current[q] \in DOMAIN calls
        /\ calls[current[q]].outcome = "running" /\ Accepts(calls[current[q]].arg)
    BY <1>2 DEF RelayInv, CurrentIsRunning, OneClientPerCall
  <2> QED
    BY <2>1, <2>2
<1>4. OneClientPerCall'
  BY <1>2 DEF RelayInv, OneClientPerCall
<1> QED
  BY <1>1, <1>2, <1>3, <1>4

\* The node takes the transaction of a call that has none yet: its nonce is the
\* next one, and it takes the place of whatever was pending.
LEMMA AcceptedIsNext ==
  ASSUME RelayInv, NEW p \in Clients, stage[p] = "send", Accepted(SignedTx(p))
  PROVE  /\ pool' = {SignedTx(p)}
         /\ SignedTx(p) \in Txs
         /\ Accepts(SignedTx(p).arg)
         /\ SignedTx(p).nonce = Len(mined)
         /\ ~Mined(current[p])
<1>1. /\ current[p] \in DOMAIN calls
      /\ Accepts(calls[current[p]].arg)
  BY DEF RelayInv, CurrentIsRunning
<1>2. calls[current[p]].arg \in Arguments /\ current[p] \in Nat
  <2>1. calls \in Seq(CallRecords) /\ current[p] \in Nat
    BY DEF RelayInv, RelayTypeOK, CallRecords
  <2>2. calls[current[p]] \in CallRecords
    BY <1>1, <2>1, LenProperties, ElementOfSeq
  <2> QED
    BY <2>1, <2>2 DEF CallRecords
<1>3. /\ SignedTx(p).nonce = nonce[p] /\ SignedTx(p).call = current[p]
      /\ SignedTx(p).arg = calls[current[p]].arg
  BY DEF SignedTx
<1>4. nonce[p] \in Nat /\ nonce[p] = Len(mined)
  BY <1>3 DEF RelayInv, RelayTypeOK, NonceIsNotAhead, Accepted
<1>5. pool' = {SignedTx(p)}
  BY <1>3, <1>4 DEF RelayInv, PoolIsNext, Accepted
<1>6. SignedTx(p) \in Txs
  BY <1>1, <1>2, <1>4 DEF Accepts, ShouldLog, Txs, SignedTx
<1>7. ~Mined(current[p])
  BY DEF RelayInv, OneTxPerCall
<1> QED
  BY <1>1, <1>3, <1>4, <1>5, <1>6, <1>7

-----------------------------------------------------------------------------
(* The invariant, action by action *)

\* At the start there are no calls, no transactions and no records.
LEMMA InitRelayInv == RelayInit => RelayInv
<1> SUFFICES ASSUME RelayInit PROVE RelayInv
  OBVIOUS
<1>1. RelayTypeOK
  BY DEF RelayInit, RelayTypeOK, IncidentLogTypeOK, Stages
<1> QED
  BY <1>1 DEF RelayInit, RelayInv, CurrentIsRunning, OneClientPerCall, TxsAreOfCalls,
    OneTxPerCall, OkIsRecorded, NonceIsNotAhead, PoolIsNext, RecordedOnce

\* A call that begins is its client's only one, and has no transaction yet.
LEMMA BeginKeepsInv ==
  ASSUME RelayInv, NEW p \in Clients, NEW arg \in Arguments, Begin(p, arg)
  PROVE  RelayInv'
<1>1. NewCall(arg, "running") /\ "running" \in Outcomes /\ RelayTypeOK
  BY DEF Begin, Outcomes, RelayInv
<1> DEFINE new == Len(calls) + 1
<1>2. /\ calls' \in Seq(CallRecords)
      /\ DOMAIN calls = 1 .. Len(calls)
      /\ DOMAIN calls' = 1 .. new
      /\ Len(calls) \in Nat
      /\ \A c \in DOMAIN calls : calls'[c] = calls[c]
      /\ calls'[new] = [arg |-> arg, outcome |-> "running"]
  BY <1>1, NewCallIsLast
<1>3. /\ stage' = [stage EXCEPT ![p] = "connect"]
      /\ current' = [current EXCEPT ![p] = new]
      /\ UNCHANGED <<incidents, mined, pool, nonce>>
  BY DEF Begin, nodeVars
<1>4. RelayTypeOK'
  BY <1>1, <1>2, <1>3 DEF RelayTypeOK, IncidentLogTypeOK, CallRecords, Stages
<1>5. CurrentIsRunning'
  BY <1>1, <1>2, <1>3 DEF RelayInv, CurrentIsRunning, Accepts, Begin, RelayTypeOK
<1>6. \A q \in Clients \ {p} : stage'[q] # "off" =>
        current'[q] = current[q] /\ stage'[q] = stage[q] /\ current[q] \in DOMAIN calls
  BY <1>1, <1>3 DEF RelayInv, CurrentIsRunning, RelayTypeOK
<1>7. OneClientPerCall'
  BY <1>1, <1>2, <1>3, <1>6 DEF RelayInv, OneClientPerCall, RelayTypeOK
<1>8. TxsAreOfCalls'
  BY <1>2, <1>3 DEF RelayInv, TxsAreOfCalls, Accepts, Mined
<1>9. ~InPool(new) /\ ~Mined(new)
  BY <1>2 DEF RelayInv, TxsAreOfCalls, InPool, Mined
<1>10. OneTxPerCall'
  <2>1. current'[p] = new
    BY <1>1, <1>3 DEF RelayTypeOK
  <2>2. \A q \in Clients : stage'[q] \in {"connect", "nonce", "send"} =>
          ~InPool(current'[q]) /\ ~Mined(current'[q])
    BY <1>6, <1>9, <2>1 DEF RelayInv, OneTxPerCall
  <2> QED
    BY <1>3, <2>2 DEF RelayInv, OneTxPerCall, InPool, Mined
<1>11. (OkIsRecorded /\ NonceIsNotAhead /\ PoolIsNext /\ RecordedOnce)'
  BY <1>3 DEF RelayInv, OkIsRecorded, NonceIsNotAhead, PoolIsNext, RecordedOnce, Recorded
<1> QED
  BY <1>4, <1>5, <1>7, <1>8, <1>10, <1>11 DEF RelayInv

\* A rejected call has raised and never reaches the node.
LEMMA RejectKeepsInv ==
  ASSUME RelayInv, NEW p \in Clients, NEW arg \in Arguments, Reject(p, arg)
  PROVE  RelayInv'
<1>1. NewCall(arg, "raised") /\ "raised" \in Outcomes /\ RelayTypeOK
  BY DEF Reject, Outcomes, RelayInv
<1>2. /\ calls' \in Seq(CallRecords)
      /\ DOMAIN calls = 1 .. Len(calls)
      /\ DOMAIN calls' = 1 .. Len(calls) + 1
      /\ Len(calls) \in Nat
      /\ \A c \in DOMAIN calls : calls'[c] = calls[c]
  BY <1>1, NewCallIsLast
<1>3. UNCHANGED <<incidents, mined, pool, stage, current, nonce>>
  BY DEF Reject, nodeVars
<1>4. RelayTypeOK'
  BY <1>1, <1>2, <1>3 DEF RelayTypeOK, IncidentLogTypeOK, CallRecords
<1>5. (CurrentIsRunning /\ OneClientPerCall)'
  BY <1>2, <1>3 DEF RelayInv, CurrentIsRunning, OneClientPerCall, Accepts
<1>6. TxsAreOfCalls'
  BY <1>2, <1>3 DEF RelayInv, TxsAreOfCalls, Accepts, Mined
<1>7. (OneTxPerCall /\ OkIsRecorded /\ NonceIsNotAhead /\ PoolIsNext /\ RecordedOnce)'
  BY <1>3 DEF RelayInv, OneTxPerCall, OkIsRecorded, NonceIsNotAhead, PoolIsNext,
    RecordedOnce, Recorded, InPool, Mined
<1> QED
  BY <1>4, <1>5, <1>6, <1>7 DEF RelayInv

\* Opening the RPC connection moves one client and nothing else.
LEMMA ConnectKeepsInv ==
  ASSUME RelayInv, NEW p \in Clients, Connect(p)
  PROVE  RelayInv'
<1>1. /\ stage[p] = "connect" /\ stage' = [stage EXCEPT ![p] = "nonce"]
      /\ UNCHANGED <<incidents, mined, pool, calls, current, nonce>>
  BY DEF Connect, nodeVars
<1>2. RelayTypeOK'
  BY <1>1 DEF RelayInv, RelayTypeOK, IncidentLogTypeOK, Stages
<1>3. (CurrentIsRunning /\ OneClientPerCall)'
  BY <1>1 DEF RelayInv, RelayTypeOK, CurrentIsRunning, OneClientPerCall, Accepts
<1>4. (TxsAreOfCalls /\ OkIsRecorded /\ NonceIsNotAhead /\ PoolIsNext /\ RecordedOnce)'
  BY <1>1 DEF RelayInv, TxsAreOfCalls, OkIsRecorded, NonceIsNotAhead, PoolIsNext,
    RecordedOnce, Recorded, Mined, Accepts
<1>5. OneTxPerCall'
  BY <1>1 DEF RelayInv, RelayTypeOK, OneTxPerCall, InPool, Mined
<1> QED
  BY <1>2, <1>3, <1>4, <1>5 DEF RelayInv

\* The nonce that is read is the number of included transactions.
LEMMA ReadNonceKeepsInv ==
  ASSUME RelayInv, NEW p \in Clients, ReadNonce(p)
  PROVE  RelayInv'
<1>1. /\ stage[p] = "nonce" /\ stage' = [stage EXCEPT ![p] = "send"]
      /\ nonce' = [nonce EXCEPT ![p] = Len(mined)]
      /\ UNCHANGED <<incidents, mined, pool, calls, current>>
  BY DEF ReadNonce, nodeVars
<1>2. Len(mined) \in Nat
  BY DEF RelayInv, RelayTypeOK
<1>3. RelayTypeOK'
  BY <1>1, <1>2 DEF RelayInv, RelayTypeOK, IncidentLogTypeOK, Stages
<1>4. (CurrentIsRunning /\ OneClientPerCall)'
  BY <1>1 DEF RelayInv, RelayTypeOK, CurrentIsRunning, OneClientPerCall, Accepts
<1>5. (TxsAreOfCalls /\ OkIsRecorded /\ PoolIsNext /\ RecordedOnce)'
  BY <1>1 DEF RelayInv, TxsAreOfCalls, OkIsRecorded, PoolIsNext,
    RecordedOnce, Recorded, Mined, Accepts
<1>6. OneTxPerCall'
  BY <1>1 DEF RelayInv, RelayTypeOK, OneTxPerCall, InPool, Mined
<1>7. NonceIsNotAhead'
  BY <1>1, <1>2 DEF RelayInv, RelayTypeOK, NonceIsNotAhead
<1> QED
  BY <1>3, <1>4, <1>5, <1>6, <1>7 DEF RelayInv

\* A client that leaves without touching the node: Raise, Return, Abandon.
LEMMA LeaveKeepsInv ==
  ASSUME RelayInv, NEW p \in Clients, stage[p] # "off", NEW o \in Outcomes,
         Leave(p, o), UNCHANGED nodeVars
  PROVE  RelayInv'
<1>1. UNCHANGED <<incidents, mined, pool>>
  BY DEF nodeVars
<1>2. /\ calls' \in Seq(CallRecords)
      /\ DOMAIN calls' = DOMAIN calls
      /\ \A c \in DOMAIN calls : calls'[c].arg = calls[c].arg
  BY LeaveKeepsCalls DEF RelayInv
<1>3. /\ stage' \in [Clients -> Stages]
      /\ current' \in [Clients -> Nat]
      /\ nonce' \in [Clients -> Nat]
      /\ CurrentIsRunning'
      /\ OneClientPerCall'
      /\ \A q \in Clients : stage'[q] # "off" => stage'[q] = stage[q] /\ current'[q] = current[q]
  BY LeaveKeepsClients
<1>4. RelayTypeOK'
  BY <1>1, <1>2, <1>3 DEF RelayInv, RelayTypeOK, IncidentLogTypeOK, CallRecords
<1>5. TxsAreOfCalls'
  BY <1>1, <1>2 DEF RelayInv, TxsAreOfCalls, Mined, Accepts
<1>6. OneTxPerCall'
  BY <1>1, <1>3 DEF RelayInv, OneTxPerCall, InPool, Mined
<1>7. NonceIsNotAhead'
  BY <1>1 DEF RelayInv, RelayTypeOK, NonceIsNotAhead, Leave
<1>8. (OkIsRecorded /\ PoolIsNext /\ RecordedOnce)'
  BY <1>1 DEF RelayInv, OkIsRecorded, PoolIsNext, RecordedOnce, Recorded
<1> QED
  BY <1>3, <1>4, <1>5, <1>6, <1>7, <1>8 DEF RelayInv

\* The client that sends waits for the only transaction of its call.
LEMMA SendKeepsInv ==
  ASSUME RelayInv, NEW p \in Clients, Send(p)
  PROVE  RelayInv'
<1> DEFINE tx == SignedTx(p)
<1>1. /\ pool' = {tx} /\ tx \in Txs /\ Accepts(tx.arg)
      /\ tx.nonce = Len(mined) /\ ~Mined(current[p])
  BY AcceptedIsNext DEF Send
<1>2. /\ stage[p] = "send" /\ stage' = [stage EXCEPT ![p] = "wait"]
      /\ UNCHANGED <<incidents, mined, calls, current, nonce>>
  BY DEF Send, Accepted
<1>3. tx.call = current[p] /\ tx.arg = calls[current[p]].arg
  BY DEF SignedTx
<1> HIDE DEF tx
<1>4. RelayTypeOK'
  BY <1>1, <1>2 DEF RelayInv, RelayTypeOK, IncidentLogTypeOK, Stages
<1>5. (CurrentIsRunning /\ OneClientPerCall)'
  BY <1>2 DEF RelayInv, RelayTypeOK, CurrentIsRunning, OneClientPerCall, Accepts
<1>6. TxsAreOfCalls'
  BY <1>1, <1>2, <1>3 DEF RelayInv, TxsAreOfCalls, CurrentIsRunning, Mined, Accepts
<1>7. OneTxPerCall'
  <2>1. \A q \in Clients : stage'[q] \in {"connect", "nonce", "send"} =>
          q # p /\ stage[q] = stage'[q] /\ current[q] # current[p]
    BY <1>2 DEF RelayInv, RelayTypeOK, OneClientPerCall
  <2> QED
    BY <1>1, <1>2, <1>3, <2>1 DEF RelayInv, OneTxPerCall, InPool, Mined
<1>8. (OkIsRecorded /\ NonceIsNotAhead /\ RecordedOnce)'
  BY <1>2 DEF RelayInv, OkIsRecorded, NonceIsNotAhead, RecordedOnce, Recorded
<1>9. PoolIsNext'
  BY <1>1, <1>2 DEF PoolIsNext
<1> QED
  BY <1>4, <1>5, <1>6, <1>7, <1>8, <1>9 DEF RelayInv

\* The same transaction reaches the node although its call raises.
LEMMA SendUnansweredKeepsInv ==
  ASSUME RelayInv, NEW p \in Clients, SendUnanswered(p)
  PROVE  RelayInv'
<1> DEFINE tx == SignedTx(p)
<1>1. /\ pool' = {tx} /\ tx \in Txs /\ Accepts(tx.arg)
      /\ tx.nonce = Len(mined) /\ ~Mined(current[p])
  BY AcceptedIsNext DEF SendUnanswered
<1>2. /\ stage[p] = "send" /\ Leave(p, "raised")
      /\ UNCHANGED <<incidents, mined>> /\ "raised" \in Outcomes
  BY DEF SendUnanswered, Accepted, Outcomes
<1>3. tx.call = current[p] /\ tx.arg = calls[current[p]].arg
  BY DEF SignedTx
<1> HIDE DEF tx
<1>4. /\ calls' \in Seq(CallRecords)
      /\ DOMAIN calls' = DOMAIN calls
      /\ \A c \in DOMAIN calls : calls'[c].arg = calls[c].arg
  BY <1>2, LeaveKeepsCalls DEF RelayInv
<1>5. /\ stage' \in [Clients -> Stages]
      /\ current' \in [Clients -> Nat]
      /\ nonce' \in [Clients -> Nat]
      /\ CurrentIsRunning'
      /\ OneClientPerCall'
      /\ \A q \in Clients :
           stage'[q] # "off" => q # p /\ stage'[q] = stage[q] /\ current'[q] = current[q]
  BY <1>2, LeaveKeepsClients
<1>6. RelayTypeOK'
  BY <1>1, <1>2, <1>4, <1>5 DEF RelayInv, RelayTypeOK, IncidentLogTypeOK, CallRecords
<1>7. TxsAreOfCalls'
  BY <1>1, <1>2, <1>3, <1>4 DEF RelayInv, TxsAreOfCalls, CurrentIsRunning, Mined, Accepts
<1>8. OneTxPerCall'
  <2>1. \A q \in Clients : stage'[q] \in {"connect", "nonce", "send"} =>
          stage[q] = stage'[q] /\ current'[q] = current[q] /\ current[q] # current[p]
    BY <1>2, <1>5 DEF RelayInv, OneClientPerCall
  <2> QED
    BY <1>1, <1>2, <1>3, <2>1 DEF RelayInv, OneTxPerCall, InPool, Mined
<1>9. NonceIsNotAhead'
  BY <1>2 DEF RelayInv, RelayTypeOK, NonceIsNotAhead, Leave
<1>10. (OkIsRecorded /\ RecordedOnce)'
  BY <1>2 DEF RelayInv, OkIsRecorded, RecordedOnce, Recorded
<1>11. PoolIsNext'
  BY <1>1, <1>2 DEF PoolIsNext
<1> QED
  BY <1>5, <1>6, <1>7, <1>8, <1>9, <1>10, <1>11 DEF RelayInv

\* A forgotten transaction takes nothing with it.
LEMMA EvictKeepsInv ==
  ASSUME RelayInv, NEW tx \in pool, Evict(tx)
  PROVE  RelayInv'
<1>1. pool' \subseteq pool /\ UNCHANGED <<incidents, mined, calls, stage, current, nonce>>
  BY DEF Evict, clientVars
<1>2. RelayTypeOK'
  BY <1>1 DEF RelayInv, RelayTypeOK, IncidentLogTypeOK
<1>3. (CurrentIsRunning /\ OneClientPerCall)'
  BY <1>1 DEF RelayInv, CurrentIsRunning, OneClientPerCall, Accepts
<1>4. (TxsAreOfCalls /\ OneTxPerCall)'
  BY <1>1 DEF RelayInv, TxsAreOfCalls, OneTxPerCall, Accepts, Mined, InPool
<1>5. (OkIsRecorded /\ NonceIsNotAhead /\ PoolIsNext /\ RecordedOnce)'
  BY <1>1 DEF RelayInv, OkIsRecorded, NonceIsNotAhead, PoolIsNext, RecordedOnce, Recorded
<1> QED
  BY <1>2, <1>3, <1>4, <1>5 DEF RelayInv

\* Every pending transaction has the next nonce, so an included one leaves the
\* pool empty; its call was not recorded yet, and now is if the call succeeds.
LEMMA MineKeepsInv ==
  ASSUME RelayInv, NEW tx \in pool, NEW ok \in BOOLEAN, Mine(tx, ok)
  PROVE  RelayInv'
<1> DEFINE m == [call |-> tx.call, ok |-> ok]
           r == [arg |-> tx.arg, call |-> tx.call]
           last == Len(mined) + 1
           end == Len(incidents) + 1
<1>1. UNCHANGED <<calls, stage, current, nonce>> /\ mined' = Append(mined, m)
  BY DEF Mine, clientVars
<1>2. pool' = {}
  BY DEF RelayInv, RelayTypeOK, PoolIsNext, Mine
<1>3. /\ tx \in Txs /\ tx.call \in DOMAIN calls /\ Accepts(tx.arg)
      /\ ~Mined(tx.call) /\ ~Recorded(tx.call)
  BY DEF RelayInv, RelayTypeOK, TxsAreOfCalls, OneTxPerCall, Recorded, Mined
<1>4. \/ ok /\ Target = "IncidentLog" /\ incidents' = Append(incidents, r)
      \/ ~(ok /\ Target = "IncidentLog") /\ incidents' = incidents
  BY DEF Mine, LogIncident
<1>5. m \in [call : Nat, ok : BOOLEAN] /\ r \in [arg : Arguments, call : Nat]
  BY <1>3 DEF Txs
<1>6. mined \in Seq([call : Nat, ok : BOOLEAN]) /\ incidents \in Seq([arg : Arguments, call : Nat])
  BY DEF RelayInv, RelayTypeOK, IncidentLogTypeOK
<1>7. /\ mined' \in Seq([call : Nat, ok : BOOLEAN]) /\ Len(mined) \in Nat
      /\ DOMAIN mined = 1 .. Len(mined) /\ DOMAIN mined' = 1 .. last
      /\ \A i \in DOMAIN mined : mined'[i] = mined[i]
      /\ mined'[last] = m /\ Len(mined') = last
  <2> HIDE DEF m
  <2> QED BY <1>1, <1>5, <1>6
<1>8. incidents' \in Seq([arg : Arguments, call : Nat])
  <2>1. CASE incidents' = Append(incidents, r)
    <3> HIDE DEF r
    <3> QED BY <1>5, <1>6, <2>1
  <2> QED
    BY <1>4, <1>6, <2>1
<1>9. /\ DOMAIN incidents = 1 .. Len(incidents) /\ Len(incidents) \in Nat
      /\ \A i \in DOMAIN incidents : i \in DOMAIN incidents' /\ incidents'[i] = incidents[i]
      /\ (ok /\ Target = "IncidentLog") => end \in DOMAIN incidents' /\ incidents'[end] = r
      /\ \A i \in DOMAIN incidents' : i \in DOMAIN incidents \/ (i = end /\ incidents'[i] = r)
  <2>1. DOMAIN incidents = 1 .. Len(incidents) /\ Len(incidents) \in Nat
    BY <1>6
  <2>2. CASE incidents' = Append(incidents, r)
    <3>1. /\ DOMAIN incidents' = 1 .. end
          /\ \A i \in DOMAIN incidents : incidents'[i] = incidents[i]
          /\ incidents'[end] = r
      <4> HIDE DEF r
      <4> QED BY <1>5, <1>6, <2>2
    <3> HIDE DEF r
    <3> QED
      BY <2>1, <3>1
  <2>3. CASE ~(ok /\ Target = "IncidentLog") /\ incidents' = incidents
    BY <2>1, <2>3
  <2> QED
    BY <1>4, <2>2, <2>3
<1> HIDE DEF last, end
<1>10. RelayTypeOK'
  BY <1>1, <1>2, <1>7, <1>8 DEF RelayInv, RelayTypeOK, IncidentLogTypeOK
<1>11. (CurrentIsRunning /\ OneClientPerCall)'
  BY <1>1 DEF RelayInv, CurrentIsRunning, OneClientPerCall, Accepts
<1>12. TxsAreOfCalls'
  <2>1. \A i \in DOMAIN mined' : mined'[i].call \in DOMAIN calls'
    BY <1>1, <1>3, <1>7 DEF RelayInv, TxsAreOfCalls, last
  <2>2. ASSUME NEW i \in DOMAIN incidents'
        PROVE  \E j \in DOMAIN mined' : mined'[j].call = incidents'[i].call
    <3>1. CASE i \in DOMAIN incidents
      <4>1. PICK j \in DOMAIN mined : mined[j].call = incidents[i].call
        BY <3>1 DEF RelayInv, TxsAreOfCalls, Mined
      <4> QED
        BY <1>7, <1>9, <3>1, <4>1 DEF last
    <3>2. CASE incidents'[i] = r
      BY <1>7, <3>2 DEF last
    <3> QED
      BY <1>9, <3>1, <3>2
  <2> QED
    BY <1>2, <2>1, <2>2 DEF TxsAreOfCalls, Mined
<1>13. OneTxPerCall'
  <2> SUFFICES ASSUME NEW q \in Clients, stage[q] \in {"connect", "nonce", "send"},
                      NEW i \in DOMAIN mined', mined'[i].call = current[q]
               PROVE  FALSE
    BY <1>1, <1>2 DEF OneTxPerCall, InPool, Mined
  <2>1. ~InPool(current[q]) /\ ~Mined(current[q])
    BY DEF RelayInv, OneTxPerCall
  <2>2. tx.call # current[q]
    BY <2>1 DEF InPool
  <2> QED
    BY <1>7, <2>1, <2>2 DEF Mined, last
<1>14. OkIsRecorded'
  <2> SUFFICES ASSUME Target # "wallet", NEW i \in DOMAIN mined', mined'[i].ok
               PROVE  \E j \in DOMAIN incidents' : incidents'[j].call = mined'[i].call
    BY DEF OkIsRecorded, Recorded
  <2>1. CASE i \in DOMAIN mined
    BY <1>7, <1>9, <2>1 DEF RelayInv, OkIsRecorded, Recorded
  <2>2. CASE i \notin DOMAIN mined
    <3>1. mined'[i] = m
      BY <1>7, <2>2 DEF last
    <3>2. ok /\ Target = "IncidentLog"
      BY <1>3, <3>1, RelayAssumption DEF Accepts
    <3> QED
      BY <1>9, <3>1, <3>2
  <2> QED
    BY <2>1, <2>2
<1>15. NonceIsNotAhead'
  BY <1>1, <1>7 DEF RelayInv, RelayTypeOK, NonceIsNotAhead, last
<1>16. PoolIsNext'
  BY <1>2 DEF PoolIsNext
<1>17. RecordedOnce'
  BY <1>3, <1>9 DEF RelayInv, RecordedOnce, Recorded
<1> QED
  BY <1>10, <1>11, <1>12, <1>13, <1>14, <1>15, <1>16, <1>17 DEF RelayInv

\* The invariant looks at the relay's variables only.
LEMMA StutterKeepsInv ==
  ASSUME RelayInv, UNCHANGED relayVars
  PROVE  RelayInv'
<1>1. UNCHANGED <<incidents, mined, pool, calls, stage, current, nonce>>
  BY DEF relayVars, nodeVars, clientVars
<1>2. (RelayTypeOK /\ CurrentIsRunning /\ OneClientPerCall)'
  BY <1>1 DEF RelayInv, RelayTypeOK, IncidentLogTypeOK, CurrentIsRunning, OneClientPerCall, Accepts
<1>3. (TxsAreOfCalls /\ OneTxPerCall /\ OkIsRecorded)'
  BY <1>1 DEF RelayInv, TxsAreOfCalls, OneTxPerCall, OkIsRecorded, Accepts, Mined, InPool, Recorded
<1>4. (NonceIsNotAhead /\ PoolIsNext /\ RecordedOnce)'
  BY <1>1 DEF RelayInv, NonceIsNotAhead, PoolIsNext, RecordedOnce
<1> QED
  BY <1>2, <1>3, <1>4 DEF RelayInv

\* A call is made: what Enter does, without the bound on the number of calls.
Calling(p) == \E arg \in Arguments : Begin(p, arg) \/ Reject(p, arg)

\* A step of the relay, whoever calls it and however often.
RelayStep ==
  \/ \E p \in Clients : Calling(p) \/ CallStep(p) \/ Abandon(p)
  \/ NodeStep

LEMMA NextIsStep == [RelayNext]_relayVars => [RelayStep]_relayVars
  BY DEF RelayNext, RelayStep, Enter, Calling

\* The invariant is inductive: every step of the relay preserves it.
LEMMA StepKeepsInv ==
  ASSUME RelayInv, [RelayStep]_relayVars
  PROVE  RelayInv'
<1>1. ASSUME NEW p \in Clients, Calling(p) PROVE RelayInv'
  BY <1>1, BeginKeepsInv, RejectKeepsInv DEF Calling
<1>2. ASSUME NEW p \in Clients, CallStep(p) PROVE RelayInv'
  <2>1. ASSUME Raise(p) PROVE RelayInv'
    BY <2>1, LeaveKeepsInv DEF Raise, Outcomes
  <2>2. ASSUME Return(p) PROVE RelayInv'
    BY <2>2, LeaveKeepsInv DEF Return, Outcomes
  <2> QED
    BY <1>2, <2>1, <2>2, ConnectKeepsInv, ReadNonceKeepsInv, SendKeepsInv,
      SendUnansweredKeepsInv DEF CallStep
<1>3. ASSUME NEW p \in Clients, Abandon(p) PROVE RelayInv'
  BY <1>3, LeaveKeepsInv DEF Abandon, Outcomes
<1>4. ASSUME NodeStep PROVE RelayInv'
  BY <1>4, MineKeepsInv, EvictKeepsInv DEF NodeStep
<1>5. ASSUME UNCHANGED relayVars PROVE RelayInv'
  BY <1>5, StutterKeepsInv
<1> QED
  BY <1>1, <1>2, <1>3, <1>4, <1>5 DEF RelayStep

-----------------------------------------------------------------------------
(* The theorems *)

\* The inductive invariant holds in every reachable state.
THEOREM RelayInvariant == RelaySpec => []RelayInv
<1>1. RelayInit => RelayInv
  BY InitRelayInv
<1>2. RelayInv /\ [RelayStep]_relayVars => RelayInv'
  BY StepKeepsInv
<1> QED
  BY <1>1, <1>2, NextIsStep, PTL DEF RelaySpec

\* The variables keep their types, and nothing below Medium is ever sent.
THEOREM RelayTypeCorrect == RelaySpec => []RelayTypeOK
<1>1. RelayInv => RelayTypeOK
  BY DEF RelayInv
<1> QED
  BY <1>1, RelayInvariant, PTL

\* No call of log_incident_on_chain ever leaves two records, for any number of
\* processes that share the key and whatever the node does.
THEOREM RecordsAreUnique == RelaySpec => []RecordedOnce
<1>1. RelayInv => RecordedOnce
  BY DEF RelayInv
<1> QED
  BY <1>1, RelayInvariant, PTL

\* The relayer key is never blocked behind a nonce gap.
THEOREM NoNonceGap == RelaySpec => []PoolIsNext
<1>1. RelayInv => PoolIsNext
  BY DEF RelayInv
<1> QED
  BY <1>1, RelayInvariant, PTL
-----------------------------------------------------------------------------
(* Failure is final *)

\* Only the inclusion of a pending transaction writes a record.
LEMMA RecordComesFromPool ==
  ASSUME RelayInv, [RelayStep]_relayVars, NEW c, ~InPool(c), ~Recorded(c)
  PROVE  ~Recorded(c)'
<1>1. CASE UNCHANGED incidents
  BY <1>1 DEF Recorded
<1>2. ASSUME NEW tx \in pool, NEW ok \in BOOLEAN, Mine(tx, ok) PROVE ~Recorded(c)'
  <2>1. CASE UNCHANGED incidents
    BY <2>1 DEF Recorded
  <2>2. CASE LogIncident(tx.arg, tx.call)
    <3>1. /\ incidents \in Seq([arg : Arguments, call : Nat])
          /\ [arg |-> tx.arg, call |-> tx.call] \in [arg : Arguments, call : Nat]
      BY DEF RelayInv, RelayTypeOK, IncidentLogTypeOK, Txs
    <3>2. tx.call # c
      BY DEF InPool
    <3> QED
      BY <2>2, <3>1, <3>2 DEF LogIncident, Recorded
  <2> QED
    BY <1>2, <2>1, <2>2 DEF Mine
<1>3. ASSUME NEW p \in Clients, Calling(p) \/ CallStep(p) \/ Abandon(p) PROVE UNCHANGED incidents
  BY <1>3 DEF Calling, Begin, Reject, CallStep, Connect, ReadNonce, Send, SendUnanswered, Accepted,
    Raise, Return, Abandon, nodeVars
<1>4. ASSUME NEW tx \in pool, Evict(tx) PROVE UNCHANGED incidents
  BY <1>4 DEF Evict
<1>5. ASSUME UNCHANGED relayVars PROVE UNCHANGED incidents
  BY <1>5 DEF relayVars, nodeVars
<1> QED
  BY <1>1, <1>2, <1>3, <1>4, <1>5 DEF RelayStep, NodeStep

\* An answered call stays as it is, and the earlier calls keep their places.
LEMMA AnsweredCallsStay ==
  ASSUME RelayInv, [RelayStep]_relayVars, NEW c \in DOMAIN calls, calls[c].outcome # "running"
  PROVE  c \in DOMAIN calls' /\ calls'[c] = calls[c]
<1>1. ASSUME NEW arg \in Arguments, NEW o \in Outcomes, NewCall(arg, o)
      PROVE  c \in DOMAIN calls' /\ calls'[c] = calls[c]
  <2>1. /\ DOMAIN calls = 1 .. Len(calls) /\ DOMAIN calls' = 1 .. Len(calls) + 1
        /\ Len(calls) \in Nat /\ calls'[c] = calls[c]
    BY <1>1, NewCallIsLast DEF RelayInv
  <2> QED
    BY <2>1
<1>2. ASSUME NEW p \in Clients, stage[p] # "off", NEW o \in Outcomes, Leave(p, o)
      PROVE  c \in DOMAIN calls' /\ calls'[c] = calls[c]
  <2>1. c # current[p]
    BY <1>2 DEF RelayInv, CurrentIsRunning
  <2> QED
    BY <1>2, <2>1, LeaveKeepsCalls DEF RelayInv
<1>3. CASE UNCHANGED calls
  BY <1>3
<1>4. ASSUME NEW p \in Clients, Calling(p) \/ CallStep(p) \/ Abandon(p)
      PROVE  c \in DOMAIN calls' /\ calls'[c] = calls[c]
  <2>1. CASE Calling(p)
    BY <2>1, <1>1 DEF Calling, Begin, Reject, Outcomes
  <2>2. CASE Connect(p) \/ ReadNonce(p) \/ Send(p)
    BY <2>2, <1>3 DEF Connect, ReadNonce, Send
  <2>3. CASE SendUnanswered(p) \/ Raise(p) \/ Return(p) \/ Abandon(p)
    BY <2>3, <1>2 DEF SendUnanswered, Raise, Return, Abandon, Outcomes
  <2> QED
    BY <1>4, <2>1, <2>2, <2>3 DEF CallStep
<1>5. CASE NodeStep
  BY <1>5, <1>3 DEF NodeStep, Mine, Evict, clientVars
<1>6. CASE UNCHANGED relayVars
  BY <1>6, <1>3 DEF relayVars, clientVars
<1> QED
  BY <1>4, <1>5, <1>6 DEF RelayStep

\* Only a client that works on a call sends its transaction.
LEMMA AnsweredCallsSendNothing ==
  ASSUME RelayInv, [RelayStep]_relayVars, NEW c \in DOMAIN calls,
         calls[c].outcome # "running", ~InPool(c)
  PROVE  ~InPool(c)'
<1>1. CASE pool' \subseteq pool
  BY <1>1 DEF InPool
<1>2. ASSUME NEW p \in Clients, stage[p] = "send", Accepted(SignedTx(p))
      PROVE  ~InPool(c)'
  <2>1. current[p] # c
    BY <1>2 DEF RelayInv, CurrentIsRunning
  <2> QED
    BY <1>2, <2>1 DEF Accepted, SignedTx, InPool
<1>3. ASSUME NEW p \in Clients, Calling(p) \/ CallStep(p) \/ Abandon(p) PROVE ~InPool(c)'
  <2>1. CASE Send(p) \/ SendUnanswered(p)
    BY <2>1, <1>2 DEF Send, SendUnanswered
  <2>2. CASE Calling(p) \/ Connect(p) \/ ReadNonce(p) \/ Raise(p) \/ Return(p) \/ Abandon(p)
    BY <2>2, <1>1 DEF Calling, Begin, Reject, Connect, ReadNonce, Raise, Return, Abandon, nodeVars
  <2> QED
    BY <1>3, <2>1, <2>2 DEF CallStep
<1>4. CASE NodeStep
  BY <1>4, <1>1 DEF NodeStep, Mine, Evict
<1>5. CASE UNCHANGED relayVars
  BY <1>5, <1>1 DEF relayVars, nodeVars
<1> QED
  BY <1>3, <1>4, <1>5 DEF RelayStep

\* A call that is over stays over.
LEMMA OverStays ==
  ASSUME RelayInv, [RelayStep]_relayVars, NEW c \in DOMAIN calls, Over(c)
  PROVE  Over(c)'
<1>1. c \in DOMAIN calls' /\ calls'[c].outcome # "running"
  BY AnsweredCallsStay DEF Over
<1>2. ~InPool(c)'
  BY AnsweredCallsSendNothing DEF Over
<1>3. ~Recorded(c)'
  BY RecordComesFromPool DEF Over
<1> QED
  BY <1>1, <1>2, <1>3 DEF Over

\* Once a call is answered, unrecorded and without a pending transaction, it
\* stays so for ever: nothing of it is sent again, and no record appears.
THEOREM FailureIsFinal == RelaySpec => FailureBecomesFinal
<1>1. RelayInv /\ [RelayNext]_relayVars => [\A c \in DOMAIN calls : Over(c) => Over(c)']_relayVars
  BY NextIsStep, OverStays
<1> QED
  BY <1>1, RelayInvariant, PTL DEF RelaySpec, FailureBecomesFinal

-----------------------------------------------------------------------------
(* The relay implements the abstract record service *)

\* A call that is made, accepted or not, is a request.
LEMMA EnterIsRequest ==
  ASSUME RelayInv, NEW arg \in Arguments, NEW o \in {"running", "raised"},
         NewCall(arg, o), UNCHANGED incidents
  PROVE  Service!Next
<1>1. Service!Request(arg)
  BY DEF NewCall, Service!Request
<1> QED
  BY <1>1 DEF Service!Next, Service!Arguments, Service!Severity, Arguments, Severity

\* A client that leaves answers its call.
LEMMA LeaveIsAnswer ==
  ASSUME RelayInv, NEW p \in Clients, stage[p] # "off",
         NEW o \in {"logged", "raised", "abandoned"},
         o = "logged" => Recorded(current[p]), Leave(p, o), UNCHANGED incidents
  PROVE  Service!Next
<1>1. current[p] \in DOMAIN calls /\ calls[current[p]].outcome = "running"
  BY DEF RelayInv, CurrentIsRunning
<1>2. Service!Answer(current[p], o)
  BY <1>1 DEF Service!Answer, Leave, Recorded, Service!Recorded
<1> QED
  BY <1>1, <1>2 DEF Service!Next

\* A transaction that is included with status 1 is the record of its call.
LEMMA MineIsRecord ==
  ASSUME RelayInv, NEW tx \in pool, NEW ok \in BOOLEAN, Mine(tx, ok)
  PROVE  Service!Next \/ UNCHANGED Service!vars
<1>1. UNCHANGED calls
  BY DEF Mine, clientVars
<1>2. CASE UNCHANGED incidents
  BY <1>1, <1>2 DEF Service!vars
<1>3. CASE LogIncident(tx.arg, tx.call)
  <2>1. /\ tx.call \in DOMAIN calls /\ tx.arg = calls[tx.call].arg
        /\ tx.arg.severity >= Medium
        /\ ~Recorded(tx.call)
    BY DEF RelayInv, TxsAreOfCalls, OneTxPerCall, Recorded, Mined, Accepts, ShouldLog
  <2>2. Service!Record(tx.call)
    BY <1>1, <1>3, <2>1 DEF Service!Record, Service!LogIncident, LogIncident, Medium,
      Service!Medium, Recorded, Service!Recorded
  <2> QED
    BY <2>1, <2>2 DEF Service!Next
<1> QED
  BY <1>2, <1>3 DEF Mine

\* Every step of the relay is a step of the service or leaves it alone.  With a
\* wallet address in place of the contract, a success would be a lie.
LEMMA StepRefinesService ==
  ASSUME Target # "wallet", RelayInv, [RelayStep]_relayVars
  PROVE  [Service!Next]_(Service!vars)
<1>1. ASSUME NEW p \in Clients, Calling(p) PROVE Service!Next
  BY <1>1, EnterIsRequest DEF Calling, Begin, Reject, nodeVars
<1>2. ASSUME NEW p \in Clients, CallStep(p) PROVE [Service!Next]_(Service!vars)
  <2>1. CASE Connect(p) \/ ReadNonce(p) \/ Send(p)
    BY <2>1 DEF Connect, ReadNonce, Send, Accepted, nodeVars, Service!vars
  <2>2. CASE SendUnanswered(p) \/ Raise(p)
    BY <2>2, LeaveIsAnswer DEF SendUnanswered, Accepted, Raise, nodeVars
  <2>3. CASE Return(p)
    <3>1. Recorded(current[p])
      BY <2>3 DEF RelayInv, OkIsRecorded, Return
    <3> QED
      BY <2>3, <3>1, LeaveIsAnswer DEF Return, nodeVars
  <2> QED
    BY <1>2, <2>1, <2>2, <2>3 DEF CallStep
<1>3. ASSUME NEW p \in Clients, Abandon(p) PROVE Service!Next
  BY <1>3, LeaveIsAnswer DEF Abandon, nodeVars
<1>4. ASSUME NodeStep PROVE [Service!Next]_(Service!vars)
  BY <1>4, MineIsRecord DEF NodeStep, Evict, clientVars, Service!vars
<1>5. ASSUME UNCHANGED relayVars PROVE UNCHANGED Service!vars
  BY <1>5 DEF relayVars, nodeVars, clientVars, Service!vars
<1> QED
  BY <1>1, <1>2, <1>3, <1>4, <1>5 DEF RelayStep

\* The calls and the contract's log behave as the record service promises: each
\* call leaves at most one record, its own, and success means it is there.
THEOREM RelayImplementsService ==
  ASSUME Target # "wallet"
  PROVE  RelaySpec => ImplementsService
<1>1. RelayInit => Service!Init
  BY DEF RelayInit, Service!Init
<1>2. RelayInv /\ [RelayStep]_relayVars => [Service!Next]_(Service!vars)
  BY StepRefinesService
<1> QED
  BY <1>1, <1>2, NextIsStep, RelayInvariant, PTL DEF RelaySpec, ImplementsService, Service!Spec

\* The service reports a success only of a call that has its record, and the
\* log never loses one.
LEMMA ServiceKeepsReturned ==
  ASSUME RelayInv, ReturnedIsRecorded, [Service!Next]_(Service!vars)
  PROVE  ReturnedIsRecorded'
<1>0. /\ calls \in Seq(CallRecords)
      /\ incidents \in Seq([arg : Arguments, call : Nat])
  BY DEF RelayInv, RelayTypeOK, IncidentLogTypeOK, CallRecords
<1>1. ASSUME NEW arg \in Service!Arguments, Service!Request(arg) PROVE ReturnedIsRecorded'
  <2>1. PICK o \in {"running", "raised"} : calls' = Append(calls, [arg |-> arg, outcome |-> o])
    BY <1>1 DEF Service!Request
  <2>2. incidents' = incidents
    BY <1>1 DEF Service!Request
  <2>3. [arg |-> arg, outcome |-> o] \in CallRecords
    BY DEF CallRecords, Outcomes, Service!Arguments, Service!Severity, Arguments, Severity
  <2>4. \A c \in DOMAIN calls' : calls'[c].outcome = "logged" => c \in DOMAIN calls /\ calls[c] = calls'[c]
    BY <1>0, <2>1, <2>3
  <2> QED
    BY <2>2, <2>4 DEF ReturnedIsRecorded, Recorded
<1>2. ASSUME NEW c \in DOMAIN calls, Service!Record(c) PROVE ReturnedIsRecorded'
  <2>1. incidents' = Append(incidents, [arg |-> calls[c].arg, call |-> c]) /\ calls' = calls
    BY <1>2 DEF Service!Record, Service!LogIncident
  <2>2. \A i \in DOMAIN incidents : i \in DOMAIN incidents' /\ incidents'[i].call = incidents[i].call
    <3>1. [arg |-> calls[c].arg, call |-> c] \in [arg : Arguments, call : Nat]
      <4>1. calls[c] \in CallRecords /\ c \in Nat
        BY <1>0, LenProperties, ElementOfSeq
      <4> QED
        BY <4>1 DEF CallRecords
    <3> QED
      BY <1>0, <2>1, <3>1
  <2> QED
    BY <2>1, <2>2 DEF ReturnedIsRecorded, Recorded
<1>3. ASSUME NEW c \in DOMAIN calls, NEW o \in {"logged", "raised", "abandoned"}, Service!Answer(c, o)
      PROVE  ReturnedIsRecorded'
  <2>1. /\ calls' = [calls EXCEPT ![c] = [calls[c] EXCEPT !.outcome = o]]
        /\ incidents' = incidents
        /\ o = "logged" => Recorded(c)
    BY <1>3 DEF Service!Answer, Recorded, Service!Recorded
  <2>2. \A d \in DOMAIN calls' : d \in DOMAIN calls /\ (d # c => calls'[d] = calls[d])
    BY <2>1
  <2>3. calls'[c].outcome = o
    <3>1. calls[c] \in CallRecords
      BY <1>0, LenProperties, ElementOfSeq
    <3>2. calls'[c] = [calls[c] EXCEPT !.outcome = o]
      BY <2>1
    <3> QED
      BY <3>1, <3>2 DEF CallRecords
  <2> QED
    BY <2>1, <2>2, <2>3 DEF ReturnedIsRecorded, Recorded
<1>4. CASE UNCHANGED Service!vars
  BY <1>4 DEF Service!vars, ReturnedIsRecorded, Recorded
<1> QED
  BY <1>1, <1>2, <1>3, <1>4 DEF Service!Next

\* A call that returned has its record in the contract.
THEOREM ReturnedCallsAreRecorded ==
  ASSUME Target # "wallet"
  PROVE  RelaySpec => []ReturnedIsRecorded
<1>1. RelayInit => ReturnedIsRecorded
  BY DEF RelayInit, ReturnedIsRecorded
<1>2. RelayInv /\ ReturnedIsRecorded /\ [RelayStep]_relayVars => ReturnedIsRecorded'
  BY StepRefinesService, ServiceKeepsReturned
<1> QED
  BY <1>1, <1>2, NextIsStep, RelayInvariant, PTL DEF RelaySpec
=============================================================================
