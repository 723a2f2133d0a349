----------------------------- MODULE ChainRelay -----------------------------
(***************************************************************************)
(* bot/chain.py: log_incident_on_chain, run by every process that holds    *)
(* the relayer's private key (the bot, and the smoke-test script           *)
(* botchain/test_botchain_incident.py, which repeats the same calls).      *)
(*                                                                         *)
(* A call is a chain of separate RPC requests: connect and compare chain   *)
(* ids, read the account's nonce, build and sign, send, wait at most 120   *)
(* seconds for the receipt.  Between any two of them the node may include  *)
(* or drop a transaction, and another process may send one.  A call that   *)
(* raises leaves a transaction it has already sent in the node's pool.     *)
(*                                                                         *)
(* The node is modelled from how the code uses it: one account, whose      *)
(* nonce is the number of its included transactions, Len(mined).  Blocks   *)
(* are final (no reorganisation).                                          *)
(***************************************************************************)
EXTENDS IncidentLog, FiniteSets

CONSTANTS
  Clients,        \* processes that sign with the relayer's key
  Target,         \* what the configured contract address points to
  MaxCalls        \* bound on the number of calls (model checking only)

ASSUME RelayAssumption ==
  /\ Target \in {"IncidentLog", "wallet", "none"}
  /\ MaxCalls \in Nat

VARIABLES
  mined,          \* the account's included transactions; index - 1 is the nonce
  pool,           \* its pending transactions
  calls,          \* every call made so far: its arguments and its outcome
  stage,          \* where each client is in log_incident_on_chain
  current,        \* the call each client is making (an index of calls)
  nonce           \* the nonce each client has read

nodeVars   == <<incidents, mined, pool>>
clientVars == <<calls, stage, current, nonce>>
relayVars  == <<nodeVars, clientVars>>

Stages   == {"off", "connect", "nonce", "send", "wait"}
Outcomes == {"running", "logged", "raised", "abandoned"}
Txs      == [call : Nat, arg : {a \in Arguments : a.severity >= Medium}, nonce : Nat]

\* Types; and no transaction is ever sent for a report below Medium.
RelayTypeOK ==
  /\ IncidentLogTypeOK
  /\ mined \in Seq([call : Nat, ok : BOOLEAN])
  /\ pool \subseteq Txs
  /\ calls \in Seq([arg : Arguments, outcome : Outcomes])
  /\ stage \in [Clients -> Stages]
  /\ current \in [Clients -> Nat]
  /\ nonce \in [Clients -> Nat]

RelayInit ==
  /\ incidents = <<>>
  /\ mined = <<>>
  /\ pool = {}
  /\ calls = <<>>
  /\ stage = [p \in Clients |-> "off"]
  /\ current = [p \in Clients |-> 0]
  /\ nonce = [p \in Clients |-> 0]

-----------------------------------------------------------------------------
\* Mutant: the threshold is Low.
ShouldLogLow(severity) == severity >= 0

\* TriageResult.should_log_on_chain
ShouldLog(severity) == severity >= Medium

NewCall(arg, outcome) == calls' = Append(calls, [arg |-> arg, outcome |-> outcome])

\* The two checks at the top of the function: threshold and contract address.
Accepts(arg) == ShouldLog(arg.severity) /\ Target # "none"

\* The call passes both checks and goes on to open the RPC connection.
Begin(p, arg) ==
  /\ stage[p] = "off"
  /\ Accepts(arg)
  /\ NewCall(arg, "running")
  /\ current' = [current EXCEPT ![p] = Len(calls) + 1]
  /\ stage' = [stage EXCEPT ![p] = "connect"]
  /\ UNCHANGED <<nodeVars, nonce>>

\* ValueError: below the threshold, or no address configured.
Reject(p, arg) ==
  /\ stage[p] = "off"
  /\ ~Accepts(arg)
  /\ NewCall(arg, "raised")
  /\ UNCHANGED <<nodeVars, stage, current, nonce>>

\* _client: the RPC endpoint answers and reports the expected chain id.
Connect(p) ==
  /\ stage[p] = "connect"
  /\ stage' = [stage EXCEPT ![p] = "nonce"]
  /\ UNCHANGED <<nodeVars, calls, current, nonce>>

\* Mutant: the nonce counts pending transactions too (block "pending").
ReadPendingNonce(p) ==
  /\ stage[p] = "nonce"
  /\ nonce' = [nonce EXCEPT ![p] = Len(mined) + Cardinality(pool)]
  /\ stage' = [stage EXCEPT ![p] = "send"]
  /\ UNCHANGED <<nodeVars, calls, current>>

\* get_transaction_count without a block argument counts included transactions.
ReadNonce(p) ==
  /\ stage[p] = "nonce"
  /\ nonce' = [nonce EXCEPT ![p] = Len(mined)]
  /\ stage' = [stage EXCEPT ![p] = "send"]
  /\ UNCHANGED <<nodeVars, calls, current>>

\* The function leaves client p: it returns, raises, or dies with its process,
\* and its local variables are gone.
Leave(p, outcome) ==
  /\ stage' = [stage EXCEPT ![p] = "off"]
  /\ calls' = [calls EXCEPT ![current[p]].outcome = outcome]
  /\ current' = [current EXCEPT ![p] = 0]
  /\ nonce' = [nonce EXCEPT ![p] = 0]

SignedTx(p) ==
  [call |-> current[p], arg |-> calls[current[p]].arg, nonce |-> nonce[p]]

\* The node takes a transaction whose nonce is not spent yet, in the place of
\* a pending one with the same nonce (it outbids it).
Accepted(tx) ==
  /\ tx.nonce >= Len(mined)
  /\ pool' = {t \in pool : t.nonce # tx.nonce} \cup {tx}
  /\ UNCHANGED <<incidents, mined>>

\* send_raw_transaction is answered with the transaction's hash.
Send(p) ==
  /\ stage[p] = "send"
  /\ Accepted(SignedTx(p))
  /\ stage' = [stage EXCEPT ![p] = "wait"]
  /\ UNCHANGED <<calls, current, nonce>>

\* The node has the transaction, but its answer is lost and the call raises.
SendUnanswered(p) ==
  /\ stage[p] = "send"
  /\ Accepted(SignedTx(p))
  /\ Leave(p, "raised")

\* Mutant: a failed wait sends again with a fresh nonce instead of raising.
RetryAfterTimeout(p) ==
  /\ stage[p] # "off"
  /\ IF stage[p] = "wait"
       THEN stage' = [stage EXCEPT ![p] = "nonce"] /\ UNCHANGED <<calls, current, nonce>>
       ELSE Leave(p, "raised")
  /\ UNCHANGED nodeVars

\* Mutant: the wait for the receipt has no timeout, and only an answer ends it.
WaitForever(p) ==
  /\ stage[p] \notin {"off", "wait"}
  /\ Leave(p, "raised")
  /\ UNCHANGED nodeVars

\* Connection refused, wrong chain id, a failed RPC request, a nonce that is
\* spent or taken, TimeExhausted after 120 seconds, or a receipt with status 0.
Raise(p) ==
  /\ stage[p] # "off"
  /\ Leave(p, "raised")
  /\ UNCHANGED nodeVars

\* Mutant: any receipt is a success (the status is not looked at).
ReturnOnAnyReceipt(p) ==
  /\ stage[p] = "wait"
  /\ \E i \in DOMAIN mined : mined[i].call = current[p]
  /\ Leave(p, "logged")
  /\ UNCHANGED nodeVars

\* Mutant: the hash that send_raw_transaction returns is taken as success.
ReturnWithoutReceipt(p) ==
  /\ stage[p] = "wait"
  /\ Leave(p, "logged")
  /\ UNCHANGED nodeVars

\* wait_for_transaction_receipt finds the receipt, and its status is 1.
Return(p) ==
  /\ stage[p] = "wait"
  /\ \E i \in DOMAIN mined : mined[i].call = current[p] /\ mined[i].ok
  /\ Leave(p, "logged")
  /\ UNCHANGED nodeVars

\* Mutant: a process that restarts sends again the call it died in.
AbandonAndResend(p) ==
  /\ stage[p] # "off"
  /\ stage' = [stage EXCEPT ![p] = "nonce"]
  /\ calls' = [calls EXCEPT ![current[p]].outcome = "abandoned"]
  /\ UNCHANGED <<nodeVars, current, nonce>>

\* The process dies inside the call.
Abandon(p) ==
  /\ stage[p] # "off"
  /\ Leave(p, "abandoned")
  /\ UNCHANGED nodeVars

-----------------------------------------------------------------------------
\* The node includes the next transaction of the account.  With "ok" the call
\* succeeded; a wallet address has no code, so a call to it does nothing.
Mine(tx, ok) ==
  /\ tx \in pool
  /\ tx.nonce = Len(mined)
  /\ mined' = Append(mined, [call |-> tx.call, ok |-> ok])
  /\ pool' = {t \in pool : t.nonce > tx.nonce}
  /\ IF ok /\ Target = "IncidentLog"
       THEN LogIncident(tx.arg, tx.call)
       ELSE UNCHANGED incidents
  /\ UNCHANGED clientVars

\* The node forgets a pending transaction (pool limit, restart).
Evict(tx) ==
  /\ tx \in pool
  /\ pool' = pool \ {tx}
  /\ UNCHANGED <<incidents, mined, clientVars>>

NodeStep ==
  \/ \E tx \in pool, ok \in BOOLEAN : Mine(tx, ok)
  \/ \E tx \in pool : Evict(tx)

\* One RPC request of a call in progress.
CallStep(p) ==
  Connect(p) \/ ReadNonce(p) \/ Send(p) \/ SendUnanswered(p) \/ Raise(p) \/ Return(p)

Enter(p) ==
  \E arg \in Arguments :
    /\ Len(calls) < MaxCalls
    /\ Begin(p, arg) \/ Reject(p, arg)

RelayNext ==
  \/ \E p \in Clients : Enter(p) \/ CallStep(p) \/ Abandon(p)
  \/ NodeStep

\* HTTP requests and the wait for a receipt time out, so a call in progress
\* always takes its next step.  Nothing is assumed of the node.
RelaySpec == RelayInit /\ [][RelayNext]_relayVars
RelayFairSpec == RelaySpec /\ \A p \in Clients : WF_relayVars(CallStep(p))
-----------------------------------------------------------------------------
Recorded(c) == \E i \in DOMAIN incidents : incidents[i].call = c
InPool(c)   == \E tx \in pool : tx.call = c

\* A call that returned (and so puts a link in the officer's alert) has its
\* record in the contract: chain.py returns only after checking the receipt.
ReturnedIsRecorded ==
  \A c \in DOMAIN calls : calls[c].outcome = "logged" => Recorded(c)

\* No call leaves two records, whatever the node drops, replaces or answers
\* late: chain.py sends one transaction per call and never retries.
RecordedOnce ==
  \A i, j \in DOMAIN incidents : incidents[i].call = incidents[j].call => i = j

\* The relayer never has a pending transaction that cannot be included next:
\* each nonce is read from the included transactions, so clients that race
\* replace each other's transaction and never leave a gap that blocks the key.
PoolIsNext == \A tx \in pool : tx.nonce = Len(mined)

\* A call that has been answered, has no record, and of which the node holds no
\* transaction.
Over(c) ==
  c \in DOMAIN calls /\ calls[c].outcome # "running" /\ ~InPool(c) /\ ~Recorded(c)

\* After that a failure is final: no transaction of the call is sent again, by
\* its process or by one that restarts, and no record of it appears.
FailureBecomesFinal == [][\A c \in DOMAIN calls : Over(c) => Over(c)']_relayVars

\* Every call of log_incident_on_chain ends, whatever the node does: each RPC
\* request and the wait for the receipt are bounded in time.
CallsEnd == \A p \in Clients : stage[p] # "off" ~> stage[p] = "off"

\* The calls and the log behave as the abstract record service.
Service == INSTANCE RecordService
ImplementsService == Service!Spec
=============================================================================
