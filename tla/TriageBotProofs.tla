-------------------------- MODULE TriageBotProofs --------------------------
(***************************************************************************)
(* Proofs about TriageBot, for any users, updates, crashes and failed      *)
(* requests, on top of the relay's invariant: who may cause a record, and  *)
(* what the texts of the bot are worth.                                    *)
(***************************************************************************)
EXTENDS TriageBot, ChainRelayProofs, FiniteSetTheorems

\* The user is listed, or has sent the access code before update n.
Earned(user, n) ==
  \/ user \in AllowedUsers
  \/ AccessCodeSet /\ \E k \in DOMAIN written : k < n /\ written[k] = [user |-> user, kind |-> "code"]

\* What RecordsAreAuthorized says of a record, said of a call.
Authorized(arg) ==
  arg.reporterId # ScriptReporter =>
    /\ arg.recordHash \in DOMAIN written
    /\ written[arg.recordHash].user = arg.reporterId /\ written[arg.recordHash].kind # "edit"
    /\ Earned(arg.reporterId, arg.recordHash)

CallsAreAuthorized == \A c \in DOMAIN calls : Authorized(calls[c].arg)

\* A record has the arguments of its call.
RecordsOfCalls ==
  \A i \in DOMAIN incidents :
    incidents[i].call \in DOMAIN calls /\ incidents[i].arg = calls[incidents[i].call].arg

\* Nobody is authorized by a message that is still to come.
AuthorizedHaveEarned ==
  \A user \in authorized : Earned(user, IF step = "idle" THEN next ELSE next + 1)

\* The contract holds this update's record, with this severity.
Linked(u, severity) ==
  \E i \in DOMAIN incidents :
    /\ incidents[i].arg.recordHash = u /\ incidents[i].arg.severity = severity
    /\ incidents[i].arg.reporterId = written[u].user

Alerted(u) == \E a \in alerts : a.update = u /\ a.severity >= Medium

\* The handler's locals agree with the update, the call and the chain.
HandlerInv ==
  /\ step \in {"ack", "triage", "log", "alert"} => Update.kind # "edit" /\ Earned(Update.user, next)
  /\ step \in {"log", "alert"} => ShouldLog(result.severity)
  /\ step = "log" => /\ ~linked /\ current[Bot] \in DOMAIN calls
                     /\ calls[current[Bot]].arg = ReportArg(result.severity)
  /\ step = "alert" /\ linked /\ Target # "wallet" => Linked(next, result.severity)
  /\ step = "reply" /\ reply = "notified" => Alerted(next)

AlertsInv ==
  \A a \in alerts :
    a.update \in DOMAIN written /\ (a.linked /\ Target # "wallet" => Linked(a.update, a.severity))

BotInv ==
  /\ RelayInv /\ BotTypeOK
  /\ RecordsOfCalls /\ CallsAreAuthorized
  /\ AuthorizedHaveEarned /\ HandlerInv
  /\ AlertsInv /\ NotifiedIsAlerted

\* The types, in three parts.
PollType ==
  /\ written \in Seq(Updates)
  /\ confirmed \in Nat /\ fetched \in Nat /\ next \in Nat \ {0}
  /\ confirmed <= fetched /\ fetched <= Len(written) /\ next <= fetched + 1

HandlerType ==
  /\ step \in Steps /\ (step # "idle" => next <= fetched)
  /\ result \in Results /\ linked \in BOOLEAN /\ reply \in Texts

SentType ==
  /\ authorized \subseteq Users /\ alerts \subseteq Alerts
  /\ replies \subseteq [update : Nat, text : Texts]
  /\ crashes \in Nat /\ sendFailures \in Nat

USE BotAssumption

LEMMA BotTypeParts == BotTypeOK <=> RelayTypeOK /\ PollType /\ HandlerType /\ SentType
BY DEF BotTypeOK, PollType, HandlerType, SentType

-----------------------------------------------------------------------------
(* What the relay does to the bot *)

CallsKept   == \A c \in DOMAIN calls : c \in DOMAIN calls' /\ calls'[c].arg = calls[c].arg
RecordsKept == \A i \in DOMAIN incidents : i \in DOMAIN incidents' /\ incidents'[i] = incidents[i]
NoNewCall   == \A c \in DOMAIN calls' : c \in DOMAIN calls

RelayMoves == RelayInv' /\ RecordsOfCalls' /\ CallsKept /\ RecordsKept

\* The relay stands still.
LEMMA RelayRests ==
  ASSUME RelayInv, RecordsOfCalls, UNCHANGED relayVars
  PROVE  RelayMoves /\ NoNewCall /\ current' = current
<1>1. RelayInv'
  BY StutterKeepsInv
<1>2. calls' = calls /\ incidents' = incidents /\ current' = current
  BY DEF relayVars, nodeVars, clientVars
<1> QED
  BY <1>1, <1>2 DEF RelayMoves, RecordsOfCalls, CallsKept, RecordsKept, NoNewCall

\* A call is made; it has the arguments that the caller gives.
LEMMA CallIsMade ==
  ASSUME RelayInv, RecordsOfCalls, NEW p \in Clients, NEW arg \in Arguments,
         Begin(p, arg) \/ Reject(p, arg)
  PROVE  /\ RelayMoves
         /\ \A c \in DOMAIN calls' : c \in DOMAIN calls \/ calls'[c].arg = arg
         /\ \A q \in Clients : q # p => current'[q] = current[q]
         /\ Begin(p, arg) => current'[p] \in DOMAIN calls' /\ calls'[current'[p]].arg = arg
<1>1. RelayInv' /\ RelayTypeOK
  BY BeginKeepsInv, RejectKeepsInv DEF RelayInv
<1>2. PICK o \in Outcomes : NewCall(arg, o)
  BY DEF Begin, Reject, Outcomes
<1>3. /\ DOMAIN calls = 1 .. Len(calls) /\ DOMAIN calls' = 1 .. Len(calls) + 1 /\ Len(calls) \in Nat
      /\ \A c \in DOMAIN calls : calls'[c] = calls[c]
      /\ calls'[Len(calls) + 1] = [arg |-> arg, outcome |-> o]
  BY <1>1, <1>2, NewCallIsLast
<1>4. incidents' = incidents
  BY DEF Begin, Reject, nodeVars
<1>5. \A c \in DOMAIN calls : c \in DOMAIN calls'
  BY <1>3
<1>6. CallsKept /\ RecordsKept /\ RecordsOfCalls'
  BY <1>3, <1>4, <1>5 DEF CallsKept, RecordsKept, RecordsOfCalls
<1>7. calls'[Len(calls) + 1].arg = arg /\ Len(calls) + 1 \in DOMAIN calls'
  BY <1>3
<1>8. \A c \in DOMAIN calls' : c \in DOMAIN calls \/ c = Len(calls) + 1
  BY <1>3
<1>9. /\ \A q \in Clients : q # p => current'[q] = current[q]
      /\ Begin(p, arg) => current'[p] = Len(calls) + 1
  BY <1>1 DEF Begin, Reject, RelayTypeOK
<1> QED
  BY <1>1, <1>6, <1>7, <1>8, <1>9 DEF RelayMoves

\* A client that leaves keeps the arguments of its call.
LEMMA ClientLeaves ==
  ASSUME RelayInv, RecordsOfCalls, NEW p \in Clients, stage[p] # "off", NEW o \in Outcomes,
         Leave(p, o), incidents' = incidents, RelayInv'
  PROVE  RelayMoves /\ NoNewCall /\ \A q \in Clients : q # p => current'[q] = current[q]
<1>1. DOMAIN calls' = DOMAIN calls /\ \A c \in DOMAIN calls : calls'[c].arg = calls[c].arg
  BY LeaveKeepsCalls DEF RelayInv
<1>2. \A q \in Clients : q # p => current'[q] = current[q]
  BY DEF Leave, RelayInv, RelayTypeOK
<1> QED
  BY <1>1, <1>2 DEF RelayMoves, RecordsOfCalls, CallsKept, RecordsKept, NoNewCall

LEMMA CallGoesOn ==
  ASSUME RelayInv, RecordsOfCalls, NEW p \in Clients, Connect(p) \/ ReadNonce(p) \/ Send(p)
  PROVE  RelayMoves /\ NoNewCall /\ current' = current
<1>1. RelayInv'
  BY ConnectKeepsInv, ReadNonceKeepsInv, SendKeepsInv
<1>2. calls' = calls /\ incidents' = incidents /\ current' = current
  BY DEF Connect, ReadNonce, Send, Accepted, nodeVars
<1> QED
  BY <1>1, <1>2 DEF RelayMoves, RecordsOfCalls, CallsKept, RecordsKept, NoNewCall

LEMMA CallEnds ==
  ASSUME RelayInv, RecordsOfCalls, NEW p \in Clients,
         SendUnanswered(p) \/ Raise(p) \/ Return(p) \/ Abandon(p)
  PROVE  RelayMoves /\ NoNewCall /\ \A q \in Clients : q # p => current'[q] = current[q]
<1>1. PICK o \in Outcomes : Leave(p, o) /\ (UNCHANGED nodeVars \/ SendUnanswered(p))
  BY DEF SendUnanswered, Raise, Return, Abandon, Outcomes
<1>2. stage[p] # "off" /\ incidents' = incidents
  BY DEF SendUnanswered, Raise, Return, Abandon, Accepted, nodeVars
<1>3. RelayInv'
  BY <1>1, <1>2, LeaveKeepsInv, SendUnansweredKeepsInv
<1> QED
  BY <1>1, <1>2, <1>3, ClientLeaves

\* A record that appears is that of a pending transaction, and so of a call.
LEMMA NodeMoves ==
  ASSUME RelayInv, RecordsOfCalls, NodeStep
  PROVE  RelayMoves /\ NoNewCall /\ current' = current
<1>1. RelayInv'
  BY MineKeepsInv, EvictKeepsInv DEF NodeStep
<1>2. calls' = calls /\ current' = current
  BY DEF NodeStep, Mine, Evict, clientVars
<1>3. CASE incidents' = incidents
  BY <1>1, <1>2, <1>3 DEF RelayMoves, RecordsOfCalls, CallsKept, RecordsKept, NoNewCall
<1>4. CASE incidents' # incidents
  <2>1. PICK tx \in pool : LogIncident(tx.arg, tx.call)
    BY <1>4 DEF NodeStep, Mine, Evict
  <2> DEFINE r == [arg |-> tx.arg, call |-> tx.call]
             end == Len(incidents) + 1
  <2>2. tx.call \in DOMAIN calls /\ tx.arg = calls[tx.call].arg /\ tx \in Txs
    BY DEF RelayInv, TxsAreOfCalls, RelayTypeOK
  <2>3. r \in [arg : Arguments, call : Nat] /\ incidents \in Seq([arg : Arguments, call : Nat])
    BY <2>2 DEF Txs, RelayInv, RelayTypeOK, IncidentLogTypeOK
  <2>4. incidents' = Append(incidents, r) /\ r.arg = tx.arg /\ r.call = tx.call
    BY <2>1 DEF LogIncident
  <2> HIDE DEF r
  <2>5. /\ DOMAIN incidents = 1 .. Len(incidents) /\ DOMAIN incidents' = 1 .. end /\ Len(incidents) \in Nat
        /\ \A i \in DOMAIN incidents : incidents'[i] = incidents[i]
        /\ incidents'[end] = r
    BY <2>3, <2>4
  <2>6. /\ \A i \in DOMAIN incidents : i \in DOMAIN incidents'
        /\ \A i \in DOMAIN incidents' : i \in DOMAIN incidents \/ i = end
    BY <2>5
  <2> HIDE DEF end
  <2>7. RecordsOfCalls'
    BY <1>2, <2>2, <2>4, <2>5, <2>6 DEF RecordsOfCalls
  <2>8. RecordsKept
    BY <2>5, <2>6 DEF RecordsKept
  <2> QED
    BY <1>1, <1>2, <2>7, <2>8 DEF RelayMoves, CallsKept, NoNewCall
<1> QED
  BY <1>3, <1>4

-----------------------------------------------------------------------------
(* What stays true *)

WrittenGrows == \A k \in DOMAIN written : k \in DOMAIN written' /\ written'[k] = written[k]

\* Nothing that was written or recorded goes away.
LEMMA FactsStay ==
  ASSUME RecordsKept, WrittenGrows
  PROVE  /\ \A user, n : Earned(user, n) => Earned(user, n)'
         /\ \A arg : Authorized(arg) => Authorized(arg)'
         /\ \A u \in DOMAIN written : \A s : Linked(u, s) => Linked(u, s)'
<1>1. \A user, n : Earned(user, n) => Earned(user, n)'
  BY DEF WrittenGrows, Earned
<1>2. \A arg : Authorized(arg) => Authorized(arg)'
  BY <1>1 DEF WrittenGrows, Authorized
<1>3. ASSUME NEW u \in DOMAIN written, NEW s, Linked(u, s) PROVE Linked(u, s)'
  <2>1. PICK i \in DOMAIN incidents :
          /\ incidents[i].arg.recordHash = u /\ incidents[i].arg.severity = s
          /\ incidents[i].arg.reporterId = written[u].user
    BY <1>3 DEF Linked
  <2>2. i \in DOMAIN incidents' /\ incidents'[i] = incidents[i] /\ written'[u] = written[u]
    BY DEF RecordsKept, WrittenGrows
  <2> QED
    BY <2>1, <2>2 DEF Linked
<1> QED
  BY <1>1, <1>2, <1>3

LEMMA CallsStayAuthorized ==
  ASSUME CallsAreAuthorized, RelayMoves, WrittenGrows,
         \A c \in DOMAIN calls' : c \in DOMAIN calls \/ Authorized(calls'[c].arg)
  PROVE  CallsAreAuthorized'
<1> SUFFICES ASSUME NEW c \in DOMAIN calls' PROVE Authorized(calls[c].arg)'
  BY DEF CallsAreAuthorized
<1>1. Authorized(calls'[c].arg)
  BY DEF CallsAreAuthorized, RelayMoves, CallsKept
<1>2. \A user, n : Earned(user, n) => Earned(user, n)'
  BY FactsStay DEF RelayMoves
<1> QED
  BY <1>1, <1>2 DEF Authorized, WrittenGrows, Earned

LEMMA AlertsStay ==
  ASSUME AlertsInv, RecordsKept, WrittenGrows, alerts' = alerts
  PROVE  AlertsInv'
BY FactsStay DEF AlertsInv, WrittenGrows

\* The update being handled is one that has been written.
LEMMA UpdateIsWritten ==
  ASSUME BotTypeOK, next <= fetched
  PROVE  next \in DOMAIN written /\ Update \in Updates /\ Update.user \in Users /\ next \in Nat
<1>1. written \in Seq(Updates) /\ next \in Nat \ {0} /\ fetched \in Nat /\ fetched <= Len(written)
  BY DEF BotTypeOK
<1>2. next \in DOMAIN written
  BY <1>1
<1>3. written[next] \in Updates
  BY <1>1, <1>2, ElementOfSeq
<1> QED
  BY <1>1, <1>2, <1>3 DEF Update, Updates

\* The relay moves and the bot does not.
LEMMA RelayOnly ==
  ASSUME BotInv, RelayMoves, UNCHANGED botVars, current'[Bot] = current[Bot],
         \A c \in DOMAIN calls' : c \in DOMAIN calls \/ Authorized(calls'[c].arg)
  PROVE  BotInv'
<1>1. /\ written' = written /\ confirmed' = confirmed /\ fetched' = fetched /\ next' = next
      /\ step' = step /\ result' = result /\ linked' = linked /\ reply' = reply
      /\ authorized' = authorized /\ alerts' = alerts /\ replies' = replies
      /\ crashes' = crashes /\ sendFailures' = sendFailures
  BY DEF botVars, pollVars, handlerVars, sentVars, boundVars
<1>2. WrittenGrows /\ RelayInv' /\ RecordsOfCalls' /\ RecordsKept /\ CallsKept
  BY <1>1 DEF WrittenGrows, RelayMoves
<1>3. RelayTypeOK'
  BY <1>2 DEF RelayInv
<1>4. BotTypeOK'
  BY <1>1, <1>3 DEF BotInv, BotTypeOK
<1>5. CallsAreAuthorized' /\ AlertsInv'
  BY <1>1, <1>2, CallsStayAuthorized, AlertsStay DEF BotInv
<1>6. AuthorizedHaveEarned' /\ NotifiedIsAlerted'
  BY <1>1 DEF BotInv, AuthorizedHaveEarned, Earned, NotifiedIsAlerted
<1>7. HandlerInv'
  <2>1. step \in {"ack", "triage", "log", "alert"} => (Update.kind # "edit" /\ Earned(Update.user, next))'
    BY <1>1 DEF BotInv, HandlerInv, Update, Earned
  <2>2. step = "log" => /\ ~linked /\ current'[Bot] \in DOMAIN calls'
                        /\ calls'[current'[Bot]].arg = ReportArg(result.severity)'
    BY <1>1, <1>2 DEF BotInv, HandlerInv, ReportArg, Update, CallsKept
  <2>3. step = "alert" /\ linked /\ Target # "wallet" => Linked(next, result.severity)'
    <3> SUFFICES ASSUME step = "alert", linked, Target # "wallet" PROVE Linked(next, result.severity)'
      OBVIOUS
    <3>1. next \in DOMAIN written
      BY UpdateIsWritten DEF BotInv, BotTypeOK
    <3>2. Linked(next, result.severity)
      BY DEF BotInv, HandlerInv
    <3> QED
      BY <1>1, <1>2, <3>1, <3>2 DEF Linked, RecordsKept
  <2>4. step = "reply" /\ reply = "notified" => Alerted(next)'
    BY <1>1 DEF BotInv, HandlerInv, Alerted
  <2>5. step \in {"log", "alert"} => ShouldLog(result.severity)
    BY DEF BotInv, HandlerInv
  <2> QED
    BY <1>1, <2>1, <2>2, <2>3, <2>4, <2>5 DEF HandlerInv
<1> QED
  BY <1>2, <1>4, <1>5, <1>6, <1>7 DEF BotInv

\* The handler goes on to another step of the same update.
LEMMA HandlerGoesOn ==
  ASSUME BotInv, RelayMoves, UNCHANGED <<telegramVars, fetched, next, alerts, boundVars>>,
         \A c \in DOMAIN calls' : c \in DOMAIN calls \/ Authorized(calls'[c].arg),
         next <= fetched, step' \in Steps \ {"idle"},
         result' \in Results, linked' \in BOOLEAN, reply' \in Texts,
         replies' \subseteq [update : Nat, text : Texts], NotifiedIsAlerted',
         authorized' \subseteq Users,
         \A user \in authorized' : user \in authorized \/ Earned(user, next + 1),
         HandlerInv'
  PROVE  BotInv'
<1>1. /\ written' = written /\ confirmed' = confirmed /\ fetched' = fetched /\ next' = next
      /\ alerts' = alerts /\ crashes' = crashes /\ sendFailures' = sendFailures
  BY DEF telegramVars, boundVars
<1>2. WrittenGrows /\ RelayInv' /\ RecordsOfCalls' /\ RecordsKept
  BY <1>1 DEF WrittenGrows, RelayMoves
<1>3. PollType /\ SentType /\ RelayTypeOK'
  BY <1>2, BotTypeParts DEF BotInv, RelayInv
<1>4. PollType' /\ HandlerType' /\ SentType'
  <2>1. PollType'
    BY <1>1, <1>3 DEF PollType
  <2>2. HandlerType'
    BY <1>1 DEF HandlerType
  <2>3. SentType'
    BY <1>1, <1>3 DEF SentType
  <2> QED
    BY <2>1, <2>2, <2>3
<1>5. BotTypeOK'
  BY <1>3, <1>4, BotTypeParts DEF BotTypeOK, PollType, HandlerType, SentType
<1>6. CallsAreAuthorized' /\ AlertsInv'
  BY <1>1, <1>2, CallsStayAuthorized, AlertsStay DEF BotInv
<1>7. AuthorizedHaveEarned'
  <2> SUFFICES ASSUME NEW user \in authorized' PROVE Earned(user, next + 1)'
    BY <1>1 DEF AuthorizedHaveEarned
  <2>1. written \in Seq(Updates) /\ next \in Nat
    BY <1>3 DEF PollType
  <2>2. Earned(user, next) => Earned(user, next + 1)
    BY <2>1 DEF Earned
  <2>3. Earned(user, next + 1)
    BY <2>2 DEF BotInv, AuthorizedHaveEarned
  <2> QED
    BY <1>1, <2>3 DEF Earned
<1> QED
  BY <1>2, <1>5, <1>6, <1>7 DEF BotInv

\* The handler is done with an update, one way or the other.
LEMMA HandlerEnds ==
  ASSUME BotInv, RelayMoves, NoNewCall, UNCHANGED <<telegramVars, fetched, authorized, crashes>>,
         next <= fetched, Finish, sendFailures' \in Nat, alerts' \subseteq Alerts, AlertsInv',
         replies' \subseteq [update : Nat, text : Texts], NotifiedIsAlerted'
  PROVE  BotInv'
<1>1. /\ written' = written /\ confirmed' = confirmed /\ fetched' = fetched /\ next' = next + 1
      /\ step' = "idle" /\ result' = NoResult /\ linked' = FALSE /\ reply' = "ack"
      /\ authorized' = authorized /\ crashes' = crashes
  BY DEF telegramVars, Finish, ClearLocals
<1>2. WrittenGrows /\ RelayInv' /\ RecordsOfCalls' /\ RecordsKept
  BY <1>1 DEF WrittenGrows, RelayMoves
<1>3. PollType /\ SentType /\ RelayTypeOK'
  BY <1>2, BotTypeParts DEF BotInv, RelayInv
<1>4. PollType' /\ HandlerType' /\ SentType'
  <2>1. PollType'
    BY <1>1, <1>3 DEF PollType
  <2>2. HandlerType'
      <3>1. NoResult \in Results
      BY DEF Results, NoResult, Severity
    <3> QED
      BY <1>1, <3>1 DEF HandlerType, Steps, Texts
  <2>3. SentType'
    BY <1>1, <1>3 DEF SentType
  <2> QED
    BY <2>1, <2>2, <2>3
<1>5. BotTypeOK'
  BY <1>3, <1>4, BotTypeParts DEF BotTypeOK, PollType, HandlerType, SentType
<1>6. CallsAreAuthorized'
  BY <1>1, <1>2, CallsStayAuthorized DEF BotInv, NoNewCall
<1>7. AuthorizedHaveEarned'
  <2> SUFFICES ASSUME NEW user \in authorized PROVE Earned(user, next)'
    BY <1>1 DEF AuthorizedHaveEarned
  <2>1. written \in Seq(Updates) /\ next \in Nat
    BY <1>3 DEF PollType
  <2>2. Earned(user, next) => Earned(user, next + 1)
    BY <2>1 DEF Earned
  <2>3. Earned(user, next + 1)
    BY <2>2 DEF BotInv, AuthorizedHaveEarned
  <2> QED
    BY <1>1, <2>3 DEF Earned
<1>8. HandlerInv'
  BY <1>1 DEF HandlerInv
<1> QED
  BY <1>2, <1>5, <1>6, <1>7, <1>8 DEF BotInv

\* The same where the officer gets no message.
LEMMA HandlerFinishes ==
  ASSUME BotInv, RelayMoves, NoNewCall, UNCHANGED <<telegramVars, fetched, alerts, authorized, crashes>>,
         next <= fetched, Finish, sendFailures' \in Nat,
         replies' \subseteq [update : Nat, text : Texts], NotifiedIsAlerted'
  PROVE  BotInv'
<1>1. WrittenGrows /\ RecordsKept /\ alerts' = alerts
  BY DEF WrittenGrows, RelayMoves, telegramVars
<1>2. AlertsInv' /\ alerts' \subseteq Alerts
  BY <1>1, AlertsStay DEF BotInv, BotTypeOK
<1> QED
  BY <1>2, HandlerEnds

-----------------------------------------------------------------------------
(* The handler, action by action *)

LEMMA BotParts ==
  ASSUME BotInv
  PROVE  /\ RelayInv /\ RecordsOfCalls /\ BotTypeOK /\ HandlerInv /\ NotifiedIsAlerted
         /\ step # "idle" => next <= fetched
         /\ result \in Results /\ linked \in BOOLEAN /\ reply \in Texts
         /\ authorized \subseteq Users /\ next \in Nat \ {0} /\ sendFailures \in Nat
         /\ replies \subseteq [update : Nat, text : Texts]
BY DEF BotInv, BotTypeOK

LEMMA NoNewCallIsAuthorized ==
  ASSUME NoNewCall
  PROVE  \A c \in DOMAIN calls' : c \in DOMAIN calls \/ Authorized(calls'[c].arg)
BY DEF NoNewCall

\* A reply other than "notified" promises nothing.
LEMMA ReplyIsTyped ==
  ASSUME BotInv, next <= fetched, NEW text \in Texts, Tell(text), alerts' = alerts,
         text = "notified" => Alerted(next)
  PROVE  replies' \subseteq [update : Nat, text : Texts] /\ NotifiedIsAlerted'
<1> DEFINE r == [update |-> next, text |-> text]
<1>1. r \in [update : Nat, text : Texts] /\ r.update = next /\ r.text = text
  BY BotParts
<1>2. replies' = replies \cup {r}
  BY DEF Tell
<1> HIDE DEF r
<1>3. replies' \subseteq [update : Nat, text : Texts]
  BY <1>1, <1>2, BotParts
<1>4. NotifiedIsAlerted'
  BY <1>1, <1>2 DEF BotInv, NotifiedIsAlerted, Alerted
<1> QED
  BY <1>3, <1>4

\* What a user has sent before n, he has sent before a later update.
LEMMA EarnedLater ==
  ASSUME BotTypeOK, NEW user
  PROVE  Earned(user, next) => Earned(user, next + 1)
<1>1. written \in Seq(Updates) /\ next \in Nat
  BY DEF BotTypeOK
<1> QED
  BY <1>1 DEF Earned

LEMMA IgnoreEditKeepsInv == ASSUME BotInv, IgnoreEdit PROVE BotInv'
<1>1. /\ next <= fetched /\ Finish /\ UNCHANGED relayVars /\ replies' = replies
      /\ UNCHANGED <<telegramVars, fetched, alerts, authorized, crashes>> /\ sendFailures' = sendFailures
  BY DEF IgnoreEdit, Take, sentVars, boundVars
<1>2. RelayMoves /\ NoNewCall
  BY <1>1, RelayRests, BotParts
<1>3. NotifiedIsAlerted'
  BY <1>1, BotParts DEF NotifiedIsAlerted
<1> QED
  BY <1>1, <1>2, <1>3, BotParts, HandlerFinishes

\* The access check: the update's user becomes authorized, is turned away, or
\* is authorized already.
LEMMA AccessKeepsInv == ASSUME BotInv, Authorize \/ Block \/ Receive PROVE BotInv'
<1>1. /\ step = "idle" /\ next <= fetched /\ UNCHANGED relayVars /\ replies' = replies
      /\ UNCHANGED <<telegramVars, fetched, next, alerts, boundVars>> /\ Update.kind # "edit"
      /\ result' = result /\ linked' = linked /\ written' = written /\ next' = next
  BY DEF Authorize, Block, Receive, Take, SayNext, Go, sentVars, telegramVars
<1>2. RelayMoves /\ NoNewCall
  BY <1>1, RelayRests, BotParts
<1>3. NotifiedIsAlerted'
  BY <1>1, BotParts DEF NotifiedIsAlerted
<1>4. next \in DOMAIN written /\ Update \in Updates /\ Update.user \in Users /\ next \in Nat
  BY <1>1, BotParts, UpdateIsWritten
<1>5. CASE Authorize
  <2>1. /\ step' = "reply" /\ reply' = "granted" /\ authorized' = authorized \cup {Update.user}
        /\ AccessCodeSet /\ Update.kind = "code"
    BY <1>5 DEF Authorize, SayNext, IsAccessCode
  <2>2. written[next] = [user |-> Update.user, kind |-> "code"] /\ next < next + 1
    BY <1>4, <2>1 DEF Update, Updates
  <2>3. Earned(Update.user, next + 1)
    BY <1>4, <2>1, <2>2 DEF Earned
  <2>4. HandlerInv'
    BY <2>1 DEF HandlerInv
  <2>5. step' \in Steps \ {"idle"} /\ reply' \in Texts
    BY <2>1 DEF Steps, Texts
  <2> QED
    BY <1>1, <1>2, <1>3, <1>4, <2>1, <2>3, <2>4, <2>5, BotParts, NoNewCallIsAuthorized, HandlerGoesOn
<1>6. CASE Block
  <2>1. step' = "reply" /\ reply' = "blocked" /\ authorized' = authorized
    BY <1>6 DEF Block, SayNext
  <2>2. HandlerInv'
    BY <2>1 DEF HandlerInv
  <2>3. step' \in Steps \ {"idle"} /\ reply' \in Texts
    BY <2>1 DEF Steps, Texts
  <2> QED
    BY <1>1, <1>2, <1>3, <2>1, <2>2, <2>3, BotParts, NoNewCallIsAuthorized, HandlerGoesOn
<1>7. CASE Receive
  <2>1. step' = "ack" /\ reply' = reply /\ authorized' = authorized /\ Update.user \in authorized
    BY <1>7 DEF Receive, Go
  <2>2. Earned(Update.user, next)
    BY <1>1, <2>1 DEF BotInv, AuthorizedHaveEarned
  <2>3. HandlerInv'
    BY <1>1, <2>1, <2>2 DEF HandlerInv, Update, Earned
  <2>4. step' \in Steps \ {"idle"} /\ reply' \in Texts
    BY <2>1, BotParts DEF Steps
  <2> QED
    BY <1>1, <1>2, <1>3, <2>1, <2>3, <2>4, BotParts, NoNewCallIsAuthorized, HandlerGoesOn
<1> QED
  BY <1>5, <1>6, <1>7

LEMMA AcknowledgeKeepsInv == ASSUME BotInv, Acknowledge PROVE BotInv'
<1>1. /\ step = "ack" /\ Tell("ack") /\ step' = "triage" /\ UNCHANGED relayVars
      /\ UNCHANGED <<telegramVars, fetched, next, alerts, boundVars>> /\ authorized' = authorized
      /\ result' = result /\ linked' = linked /\ reply' = reply /\ written' = written /\ next' = next
      /\ alerts' = alerts
  BY DEF Acknowledge, Go, telegramVars
<1>2. RelayMoves /\ NoNewCall /\ next <= fetched
  BY <1>1, RelayRests, BotParts
<1>3. replies' \subseteq [update : Nat, text : Texts] /\ NotifiedIsAlerted'
  BY <1>1, <1>2, ReplyIsTyped DEF Texts
<1>4. HandlerInv'
  BY <1>1, BotParts DEF HandlerInv, Update, Earned
<1>5. step' \in Steps \ {"idle"}
  BY <1>1 DEF Steps
<1> QED
  BY <1>1, <1>2, <1>3, <1>4, <1>5, BotParts, NoNewCallIsAuthorized, HandlerGoesOn

\* No assessment, or one below the threshold: only a reply follows.
LEMMA NoAlertKeepsInv ==
  ASSUME BotInv, TriageFails \/ \E r \in Assessments : TriageLow(r)
  PROVE  BotInv'
<1>1. /\ step = "triage" /\ step' = "reply" /\ reply' \in {"unassessed", "recorded"} /\ UNCHANGED relayVars
      /\ UNCHANGED <<telegramVars, fetched, next, alerts, boundVars>> /\ authorized' = authorized
      /\ result' \in Assessments \cup {result} /\ linked' = linked /\ replies' = replies /\ alerts' = alerts
  BY DEF TriageFails, TriageLow, SayNext, sentVars
<1>2. RelayMoves /\ NoNewCall /\ next <= fetched
  BY <1>1, RelayRests, BotParts
<1>3. NotifiedIsAlerted'
  BY <1>1, BotParts DEF NotifiedIsAlerted
<1>4. HandlerInv'
  BY <1>1 DEF HandlerInv
<1>5. step' \in Steps \ {"idle"} /\ reply' \in Texts /\ result' \in Results
  BY <1>1, BotParts DEF Steps, Texts
<1> QED
  BY <1>1, <1>2, <1>3, <1>4, <1>5, BotParts, NoNewCallIsAuthorized, HandlerGoesOn

\* The call is made for the update at hand, whose user was authorized before it.
LEMMA TriageSevereKeepsInv ==
  ASSUME BotInv, NEW r \in Assessments, TriageSevere(r)
  PROVE  BotInv'
<1> DEFINE arg == ReportArg(r.severity)
<1>1. /\ step = "triage" /\ ShouldLog(r.severity) /\ result' = r /\ linked' = FALSE
      /\ UNCHANGED <<telegramVars, fetched, next, alerts, boundVars>> /\ authorized' = authorized
      /\ reply' = reply /\ replies' = replies /\ written' = written /\ next' = next /\ alerts' = alerts
      /\ \/ Begin(Bot, arg) /\ step' = "log"
         \/ Reject(Bot, arg) /\ step' = "alert"
  BY DEF TriageSevere, telegramVars, sentVars
<1>2. next <= fetched /\ r \in Results
  BY <1>1, BotParts
<1>3. next \in DOMAIN written /\ Update.user \in Users /\ next \in Nat
  BY <1>2, BotParts, UpdateIsWritten
<1>4. arg.recordHash = next /\ arg.reporterId = Update.user /\ arg.severity = r.severity
  BY DEF ReportArg
<1>5. arg \in Arguments
  BY <1>2, <1>3 DEF ReportArg, Arguments, Results
<1>6. Authorized(arg)
  <2>1. Update.kind # "edit" /\ Earned(Update.user, next)
    BY <1>1 DEF BotInv, HandlerInv
  <2> QED
    BY <1>3, <1>4, <2>1 DEF Authorized, Update
<1>7. arg' = arg
  BY <1>1 DEF ReportArg, Update
<1>8. arg = ReportArg(r.severity) /\ Bot \in Clients
  OBVIOUS
<1> HIDE DEF arg
<1>9. /\ RelayMoves /\ \A c \in DOMAIN calls' : c \in DOMAIN calls \/ Authorized(calls'[c].arg)
      /\ Begin(Bot, arg) => current'[Bot] \in DOMAIN calls' /\ calls'[current'[Bot]].arg = arg
  <2>1. \A c \in DOMAIN calls' : c \in DOMAIN calls \/ calls'[c].arg = arg
    BY <1>1, <1>5, <1>8, BotParts, CallIsMade
  <2>2. \A c \in DOMAIN calls' : c \in DOMAIN calls \/ Authorized(calls'[c].arg)
    BY <1>6, <2>1
  <2>3. RelayMoves /\ (Begin(Bot, arg) => current'[Bot] \in DOMAIN calls' /\ calls'[current'[Bot]].arg = arg)
    BY <1>1, <1>5, <1>8, BotParts, CallIsMade
  <2> QED
    BY <2>2, <2>3
<1>10. HandlerInv'
  <2>1. Update'.kind # "edit" /\ Earned(Update.user, next)'
    BY <1>1 DEF BotInv, HandlerInv, Update, Earned
  <2>2. ShouldLog(result'.severity)
    BY <1>1
  <2>3. step' = "log" => current'[Bot] \in DOMAIN calls' /\ calls'[current'[Bot]].arg = ReportArg(result.severity)'
    <3>1. ReportArg(result.severity)' = arg
      BY <1>1, <1>7, <1>8 DEF ReportArg, Update
    <3> QED
      BY <1>1, <1>9, <3>1
  <2> QED
    BY <1>1, <2>1, <2>2, <2>3 DEF HandlerInv, ShouldLog
<1>11. step' \in Steps \ {"idle"} /\ NotifiedIsAlerted'
  BY <1>1, BotParts DEF Steps, NotifiedIsAlerted
<1> QED
  BY <1>1, <1>2, <1>9, <1>10, <1>11, BotParts, HandlerGoesOn

\* The call goes on inside the handler.
LEMMA LogStepKeepsInv == ASSUME BotInv, LogStep PROVE BotInv'
<1>1. RelayMoves /\ NoNewCall /\ current' = current
  BY BotParts, CallGoesOn DEF LogStep
<1> QED
  BY <1>1, NoNewCallIsAuthorized, RelayOnly DEF LogStep

\* A call that returns has its record; one that raises leaves no link.
LEMMA LogEndsKeepsInv == ASSUME BotInv, LogReturns \/ LogRaises PROVE BotInv'
<1>1. /\ step = "log" /\ step' = "alert" /\ result' = result /\ reply' = reply
      /\ UNCHANGED <<telegramVars, fetched, next, alerts, boundVars>> /\ authorized' = authorized
      /\ replies' = replies /\ written' = written /\ next' = next /\ alerts' = alerts
  BY DEF LogReturns, LogRaises, Go, telegramVars, sentVars
<1>2. \/ Return(Bot) /\ linked' = TRUE
      \/ (Raise(Bot) \/ SendUnanswered(Bot)) /\ linked' = linked
  BY DEF LogReturns, LogRaises, Go
<1>3. linked' \in BOOLEAN /\ (linked' => linked \/ Return(Bot))
  <2>1. linked \in BOOLEAN
    BY BotParts
  <2>2. CASE linked' = linked
    BY <2>1, <2>2
  <2>3. CASE Return(Bot) /\ linked' = TRUE
    BY <2>3
  <2> QED
    BY <1>2, <2>2, <2>3
<1>4. RelayMoves /\ NoNewCall /\ next <= fetched
  BY <1>1, <1>2, BotParts, CallEnds
<1>5. NotifiedIsAlerted' /\ step' \in Steps \ {"idle"}
  BY <1>1, BotParts DEF NotifiedIsAlerted, Steps
<1>6. ASSUME linked', Target # "wallet" PROVE Linked(next, result.severity)'
  <2>1. Return(Bot) /\ calls[current[Bot]].arg = ReportArg(result.severity)
    BY <1>1, <1>3, <1>6 DEF BotInv, HandlerInv
  <2>2. Recorded(current[Bot]) /\ incidents' = incidents
    BY <1>6, <2>1 DEF Return, nodeVars, BotInv, RelayInv, OkIsRecorded
  <2>3. PICK i \in DOMAIN incidents : incidents[i].call = current[Bot]
    BY <2>2 DEF Recorded
  <2>4. incidents[i].arg = ReportArg(result.severity)
    BY <2>1, <2>3 DEF BotInv, RecordsOfCalls
  <2>5. /\ incidents[i].arg.recordHash = next /\ incidents[i].arg.severity = result.severity
        /\ incidents[i].arg.reporterId = written[next].user
    BY <2>4 DEF ReportArg, Update
  <2> QED
    BY <1>1, <2>2, <2>5 DEF Linked
<1>7. HandlerInv'
  <2>1. (Update.kind # "edit" /\ Earned(Update.user, next))' /\ ShouldLog(result'.severity)
    BY <1>1 DEF BotInv, HandlerInv, Update, Earned
  <2> QED
    BY <1>1, <1>6, <2>1 DEF HandlerInv
<1> QED
  BY <1>1, <1>3, <1>4, <1>5, <1>7, BotParts, NoNewCallIsAuthorized, HandlerGoesOn

-----------------------------------------------------------------------------
\* What the officer is told is so, and stays so.
LEMMA OfficerIsInformed ==
  ASSUME BotInv, step = "alert", Inform, UNCHANGED relayVars, UNCHANGED telegramVars
  PROVE  /\ alerts' \subseteq Alerts /\ AlertsInv' /\ alerts \subseteq alerts'
         /\ \E b \in alerts' : b.update = next /\ b.severity >= Medium
<1> DEFINE a == [update |-> next, severity |-> result.severity, linked |-> linked]
<1>1. alerts' = alerts \cup {a} /\ written' = written
  BY DEF Inform, telegramVars
<1>2. WrittenGrows /\ RecordsKept
  BY <1>1, RelayRests, BotParts DEF WrittenGrows, RelayMoves
<1>3. next \in DOMAIN written /\ next \in Nat
  BY BotParts, UpdateIsWritten
<1>4. /\ a.update = next /\ a.severity = result.severity /\ a.linked = linked
      /\ ShouldLog(result.severity) /\ (linked /\ Target # "wallet" => Linked(next, result.severity))
  BY DEF BotInv, HandlerInv
<1>5. a \in Alerts
  BY <1>3, BotParts DEF Alerts, Results
<1> HIDE DEF a
<1>6. alerts' \subseteq Alerts
  BY <1>1, <1>5 DEF BotInv, BotTypeOK
<1>7. AlertsInv'
  <2> SUFFICES ASSUME NEW b \in alerts'
               PROVE  /\ b.update \in DOMAIN written'
                      /\ b.linked /\ Target # "wallet" => Linked(b.update, b.severity)'
    BY DEF AlertsInv
  <2>1. b.update \in DOMAIN written /\ (b.linked /\ Target # "wallet" => Linked(b.update, b.severity))
    BY <1>1, <1>3, <1>4 DEF BotInv, AlertsInv
  <2> QED
    BY <1>1, <1>2, <2>1, FactsStay
<1> QED
  BY <1>1, <1>4, <1>6, <1>7 DEF ShouldLog

LEMMA AlertKeepsInv == ASSUME BotInv, Alert PROVE BotInv'
<1>1. /\ step = "alert" /\ step' = "reply" /\ reply' = "notified" /\ UNCHANGED relayVars
      /\ written' = written /\ confirmed' = confirmed /\ fetched' = fetched /\ next' = next
      /\ result' = result /\ linked' = linked /\ authorized' = authorized /\ replies' = replies
      /\ crashes' = crashes /\ sendFailures' = sendFailures /\ Inform /\ UNCHANGED telegramVars
  BY DEF Alert, SayNext, telegramVars, boundVars
<1>2. RelayMoves /\ NoNewCall
  BY <1>1, RelayRests, BotParts
<1>3. /\ alerts' \subseteq Alerts /\ AlertsInv' /\ alerts \subseteq alerts'
      /\ \E b \in alerts' : b.update = next /\ b.severity >= Medium
  BY <1>1, OfficerIsInformed
<1>4. WrittenGrows /\ RelayInv' /\ RecordsOfCalls' /\ RecordsKept /\ RelayTypeOK'
  BY <1>1, <1>2 DEF WrittenGrows, RelayMoves, RelayInv
<1>5. BotTypeOK'
  <2>1. PollType /\ HandlerType /\ SentType
    BY BotTypeParts DEF BotInv
  <2>2. PollType'
    BY <1>1, <2>1 DEF PollType
  <2>3. HandlerType'
    BY <1>1, <2>1 DEF HandlerType, Steps, Texts
  <2>4. SentType'
    BY <1>1, <1>3, <2>1 DEF SentType
  <2> QED
    BY <1>4, <2>2, <2>3, <2>4 DEF BotTypeOK, PollType, HandlerType, SentType
<1>6. CallsAreAuthorized'
  BY <1>2, <1>4, NoNewCallIsAuthorized, CallsStayAuthorized DEF BotInv
<1>7. Alerted(next)'
  BY <1>1, <1>3 DEF Alerted
<1>8. HandlerInv' /\ NotifiedIsAlerted'
  BY <1>1, <1>3, <1>7, BotParts DEF HandlerInv, NotifiedIsAlerted
<1>9. AuthorizedHaveEarned'
  BY <1>1 DEF BotInv, AuthorizedHaveEarned, Earned
<1> QED
  BY <1>3, <1>4, <1>5, <1>6, <1>8, <1>9 DEF BotInv

\* An exception of a Telegram request ends the handler, delivered or not.
LEMMA RequestFailsKeepsInv == ASSUME BotInv, AlertRefused \/ SendFails PROVE BotInv'
<1>1. /\ step # "idle" /\ Finish /\ UNCHANGED relayVars
      /\ UNCHANGED <<telegramVars, fetched, authorized, crashes>>
      /\ sendFailures' \in {sendFailures, sendFailures + 1}
  BY DEF AlertRefused, SendFails, sentVars, boundVars
<1>2. RelayMoves /\ NoNewCall /\ next <= fetched /\ sendFailures' \in Nat
  BY <1>1, RelayRests, BotParts
<1>3. CASE UNCHANGED sentVars
  <2>1. alerts' = alerts /\ replies' = replies
    BY <1>3 DEF sentVars
  <2>2. NotifiedIsAlerted'
    BY <2>1, BotParts DEF NotifiedIsAlerted
  <2> QED
    BY <1>1, <1>2, <2>1, <2>2, BotParts, HandlerFinishes
<1>4. ASSUME NEW text \in Texts, Tell(text), alerts' = alerts, text = "notified" => Alerted(next)
      PROVE  BotInv'
  <2>1. replies' \subseteq [update : Nat, text : Texts] /\ NotifiedIsAlerted'
    BY <1>2, <1>4, ReplyIsTyped
  <2> QED
    BY <1>1, <1>2, <1>4, <2>1, HandlerFinishes
<1>5. CASE step = "alert" /\ Inform /\ UNCHANGED replies
  <2>1. alerts' \subseteq Alerts /\ AlertsInv' /\ alerts \subseteq alerts'
    BY <1>1, <1>5, OfficerIsInformed
  <2>2. NotifiedIsAlerted'
    BY <1>5, <2>1, BotParts DEF NotifiedIsAlerted
  <2> QED
    BY <1>1, <1>2, <1>5, <2>1, <2>2, BotParts, HandlerEnds
<1>6. CASE step = "ack" /\ Tell("ack") /\ UNCHANGED alerts
  BY <1>4, <1>6 DEF Texts
<1>7. CASE step = "reply" /\ Tell(reply) /\ UNCHANGED alerts
  <2>1. reply \in Texts /\ (reply = "notified" => Alerted(next))
    BY <1>7, BotParts DEF HandlerInv
  <2> QED
    BY <1>4, <1>7, <2>1
<1> QED
  BY <1>3, <1>5, <1>6, <1>7 DEF AlertRefused, SendFails, Delivered

LEMMA ReplyKeepsInv == ASSUME BotInv, Reply PROVE BotInv'
<1>1. /\ step = "reply" /\ Finish /\ Tell(reply) /\ UNCHANGED relayVars
      /\ UNCHANGED <<telegramVars, fetched, alerts, authorized, crashes>>
      /\ alerts' = alerts /\ sendFailures' = sendFailures
  BY DEF Reply, boundVars
<1>2. RelayMoves /\ NoNewCall /\ next <= fetched
  BY <1>1, RelayRests, BotParts
<1>3. reply = "notified" => Alerted(next)
  BY <1>1 DEF BotInv, HandlerInv
<1>4. replies' \subseteq [update : Nat, text : Texts] /\ NotifiedIsAlerted'
  BY <1>1, <1>2, <1>3, BotParts, ReplyIsTyped
<1> QED
  BY <1>1, <1>2, <1>4, BotParts, HandlerFinishes

-----------------------------------------------------------------------------
(* Telegram, crashes and the other processes *)

\* Neither Telegram nor a restart touches what was sent and recorded.
LEMMA OutsideHandler ==
  ASSUME BotInv, RelayMoves, NoNewCall, WrittenGrows, alerts' = alerts, replies' = replies,
         BotTypeOK', AuthorizedHaveEarned', HandlerInv'
  PROVE  BotInv'
<1>1. CallsAreAuthorized' /\ AlertsInv'
  BY NoNewCallIsAuthorized, CallsStayAuthorized, AlertsStay DEF BotInv, RelayMoves
<1>2. NotifiedIsAlerted'
  BY DEF BotInv, NotifiedIsAlerted
<1> QED
  BY <1>1, <1>2 DEF BotInv, RelayMoves

LEMMA TelegramKeepsInv ==
  ASSUME BotInv, Poll \/ \E user \in Users, kind \in {"code", "report", "edit"} : Write(user, kind)
  PROVE  BotInv'
<1>1. /\ UNCHANGED relayVars /\ next' = next /\ step' = step /\ result' = result /\ linked' = linked
      /\ reply' = reply /\ authorized' = authorized /\ alerts' = alerts /\ replies' = replies
      /\ crashes' = crashes /\ sendFailures' = sendFailures
  BY DEF Poll, Write, handlerVars, sentVars, boundVars
<1>2. RelayMoves /\ NoNewCall /\ current' = current
  BY <1>1, RelayRests, BotParts
<1>3. PollType /\ HandlerType /\ SentType
  BY BotTypeParts DEF BotInv
<1>4. PollType' /\ WrittenGrows /\ fetched <= fetched'
  <2>1. CASE Poll
    BY <1>1, <1>3, <2>1 DEF Poll, PollType, WrittenGrows
  <2>2. ASSUME NEW user \in Users, NEW kind \in {"code", "report", "edit"}, Write(user, kind)
        PROVE  PollType' /\ WrittenGrows /\ fetched <= fetched'
    <3> DEFINE u == [user |-> user, kind |-> kind]
    <3>1. u \in Updates
      BY DEF Updates
    <3>2. written' = Append(written, u) /\ confirmed' = confirmed /\ fetched' = fetched
      BY <2>2 DEF Write, pollVars
    <3> HIDE DEF u
    <3>3. /\ written' \in Seq(Updates) /\ Len(written') = Len(written) + 1
          /\ DOMAIN written = 1 .. Len(written) /\ DOMAIN written' = 1 .. Len(written) + 1
          /\ \A k \in DOMAIN written : written'[k] = written[k]
      BY <1>3, <3>1, <3>2 DEF PollType
    <3> QED
      BY <1>1, <1>3, <3>2, <3>3 DEF PollType, WrittenGrows
  <2> QED
    BY <2>1, <2>2
<1>5. BotTypeOK'
  <2>1. next \in Nat /\ fetched \in Nat /\ fetched' \in Nat
    BY <1>3, <1>4 DEF PollType
  <2>2. HandlerType' /\ SentType'
    BY <1>1, <1>3, <1>4, <2>1 DEF HandlerType, SentType
  <2>3. RelayTypeOK'
    BY <1>2 DEF RelayMoves, RelayInv
  <2> QED
    BY <1>4, <2>2, <2>3 DEF BotTypeOK, PollType, HandlerType, SentType
<1>6. \A user, n : Earned(user, n) => Earned(user, n)'
  BY <1>2, <1>4, FactsStay DEF RelayMoves
<1>7. AuthorizedHaveEarned'
  BY <1>1, <1>6 DEF BotInv, AuthorizedHaveEarned, Earned
<1>8. HandlerInv'
  <2>1. step # "idle" => next \in DOMAIN written /\ Update' = Update
    BY <1>1, <1>4, BotParts, UpdateIsWritten DEF WrittenGrows, Update
  <2>2. step \in {"ack", "triage", "log", "alert"} => (Update.kind # "edit" /\ Earned(Update.user, next))'
    BY <1>1, <1>6, <2>1 DEF BotInv, HandlerInv, Earned
  <2>3. step = "log" => ReportArg(result.severity)' = ReportArg(result.severity)
    BY <1>1, <2>1 DEF ReportArg
  <2>4. step = "log" => /\ ~linked /\ current'[Bot] \in DOMAIN calls'
                        /\ calls'[current'[Bot]].arg = ReportArg(result.severity)'
    BY <1>2, <2>3 DEF BotInv, HandlerInv, RelayMoves, CallsKept
  <2>5. step = "alert" /\ linked /\ Target # "wallet" => Linked(next, result.severity)'
    <3> SUFFICES ASSUME step = "alert", linked, Target # "wallet" PROVE Linked(next, result.severity)'
      OBVIOUS
    <3>1. next \in DOMAIN written /\ Linked(next, result.severity)
      BY <2>1 DEF BotInv, HandlerInv
    <3> QED
      BY <1>1, <1>2, <1>4, <3>1 DEF Linked, RelayMoves, RecordsKept, WrittenGrows
  <2>6. /\ step \in {"log", "alert"} => ShouldLog(result.severity)
        /\ step = "reply" /\ reply = "notified" => Alerted(next)'
    BY <1>1 DEF BotInv, HandlerInv, Alerted
  <2> QED
    BY <1>1, <2>2, <2>4, <2>5, <2>6 DEF HandlerInv
<1> QED
  BY <1>1, <1>2, <1>4, <1>5, <1>7, <1>8, OutsideHandler

\* After a crash only the listed users are authorized, and nothing is at hand.
LEMMA CrashKeepsInv == ASSUME BotInv, Crash PROVE BotInv'
<1>1. /\ written' = written /\ confirmed' = confirmed /\ fetched' = confirmed /\ next' = confirmed + 1
      /\ authorized' = AllowedUsers /\ alerts' = alerts /\ replies' = replies
      /\ crashes' = crashes + 1 /\ sendFailures' = sendFailures
      /\ step' = "idle" /\ result' = NoResult /\ linked' = FALSE /\ reply' = "ack"
      /\ UNCHANGED relayVars \/ Abandon(Bot)
  BY DEF Crash, ClearLocals, telegramVars, sentVars
<1>2. RelayMoves /\ NoNewCall
  BY <1>1, RelayRests, CallEnds, BotParts
<1>3. WrittenGrows
  BY <1>1 DEF WrittenGrows
<1>4. BotTypeOK'
  <2>1. PollType /\ HandlerType /\ SentType
    BY BotTypeParts DEF BotInv
  <2>2. PollType'
    BY <1>1, <2>1 DEF PollType
  <2>3. NoResult \in Results
    BY DEF Results, NoResult, Severity
  <2>4. HandlerType'
    BY <1>1, <2>3 DEF HandlerType, Steps, Texts
  <2>5. SentType'
    BY <1>1, <2>1 DEF SentType
  <2>6. RelayTypeOK'
    BY <1>2 DEF RelayMoves, RelayInv
  <2> QED
    BY <2>2, <2>4, <2>5, <2>6 DEF BotTypeOK, PollType, HandlerType, SentType
<1>5. AuthorizedHaveEarned' /\ HandlerInv'
  BY <1>1 DEF AuthorizedHaveEarned, Earned, HandlerInv
<1> QED
  BY <1>1, <1>2, <1>3, <1>4, <1>5, OutsideHandler

\* The script has a client of its own, and nobody's report.
LEMMA ScriptKeepsInv == ASSUME BotInv, RunScript \/ ScriptStep \/ Node PROVE BotInv'
<1>1. UNCHANGED botVars
  BY DEF RunScript, ScriptStep, Node
<1>2. CASE RunScript
  <2>1. ScriptArg \in Arguments /\ ScriptArg.reporterId = ScriptReporter
    BY DEF ScriptArg, Arguments, Severity, Medium
  <2>2. Begin(Script, ScriptArg)
    BY <1>2 DEF RunScript
  <2>3. /\ RelayMoves /\ current'[Bot] = current[Bot]
        /\ \A c \in DOMAIN calls' : c \in DOMAIN calls \/ calls'[c].arg = ScriptArg
    BY <2>1, <2>2, CallIsMade, BotParts
  <2>4. Authorized(ScriptArg)
    BY <2>1 DEF Authorized
  <2> QED
    BY <1>1, <2>3, <2>4, RelayOnly
<1>3. CASE ScriptStep \/ Node
  <2>1. RelayMoves /\ NoNewCall /\ current'[Bot] = current[Bot]
    <3>1. CASE Connect(Script) \/ ReadNonce(Script) \/ Send(Script)
      BY <3>1, CallGoesOn, BotParts
    <3>2. CASE SendUnanswered(Script) \/ Raise(Script) \/ Return(Script)
      BY <3>2, CallEnds, BotParts
    <3>3. CASE NodeStep
      BY <3>3, NodeMoves, BotParts
    <3> QED
      BY <1>3, <3>1, <3>2, <3>3 DEF ScriptStep, Node, CallStep
  <2> QED
    BY <1>1, <2>1, NoNewCallIsAuthorized, RelayOnly
<1> QED
  BY <1>2, <1>3

-----------------------------------------------------------------------------
(* The theorems *)

LEMMA InitGivesBotInv == ASSUME Init PROVE BotInv
<1>1. RelayInv /\ incidents = <<>> /\ calls = <<>>
  BY InitRelayInv DEF Init, RelayInit
<1>2. BotTypeOK
  <2>1. PollType
    BY DEF Init, PollType
  <2>2. [severity |-> 0, markup |-> FALSE] \in Results
    BY DEF Results, Severity
  <2>3. HandlerType
    BY <2>2 DEF Init, HandlerType, Steps, Texts
  <2>4. SentType
    BY DEF Init, SentType
  <2> QED
    BY <1>1, <2>1, <2>3, <2>4, BotTypeParts DEF RelayInv
<1>3. RecordsOfCalls /\ CallsAreAuthorized
  BY <1>1 DEF RecordsOfCalls, CallsAreAuthorized
<1>4. AuthorizedHaveEarned /\ HandlerInv
  BY DEF Init, AuthorizedHaveEarned, Earned, HandlerInv
<1>5. AlertsInv /\ NotifiedIsAlerted
  BY DEF Init, AlertsInv, NotifiedIsAlerted
<1> QED
  BY <1>1, <1>2, <1>3, <1>4, <1>5 DEF BotInv

LEMMA BotStepKeepsInv == ASSUME BotInv, [Next]_vars PROVE BotInv'
<1>1. CASE Poll \/ \E user \in Users, kind \in {"code", "report", "edit"} : Write(user, kind)
  BY <1>1, TelegramKeepsInv
<1>2. CASE Handle
  <2>1. CASE Triage
    BY <2>1, NoAlertKeepsInv, TriageSevereKeepsInv DEF Triage
  <2> QED
    BY <1>2, <2>1, IgnoreEditKeepsInv, AccessKeepsInv, AcknowledgeKeepsInv, LogStepKeepsInv,
       LogEndsKeepsInv, AlertKeepsInv, RequestFailsKeepsInv, ReplyKeepsInv DEF Handle
<1>3. CASE SendFails \/ Crash
  BY <1>3, RequestFailsKeepsInv, CrashKeepsInv
<1>4. CASE RunScript \/ ScriptStep \/ Node
  BY <1>4, ScriptKeepsInv
<1>5. CASE UNCHANGED vars
  <2>1. UNCHANGED relayVars /\ UNCHANGED botVars
    BY <1>5 DEF vars
  <2>2. RelayMoves /\ NoNewCall /\ current' = current
    BY <2>1, RelayRests, BotParts
  <2> QED
    BY <2>1, <2>2, NoNewCallIsAuthorized, RelayOnly
<1> QED
  BY <1>1, <1>2, <1>3, <1>4, <1>5 DEF Next

\* The invariant of the bot: who is authorized and since when, what each call
\* was made for, and what the handler has at hand.
THEOREM BotInvariant == Spec => []BotInv
BY InitGivesBotInv, BotStepKeepsInv, PTL DEF Spec

\* The bot's variables keep their types; the queue never runs ahead of Telegram.
THEOREM BotTypeCorrect == Spec => []BotTypeOK
<1>1. BotInv => BotTypeOK
  BY DEF BotInv
<1> QED
  BY <1>1, BotInvariant, PTL

\* Only reports of authorized users reach the chain (main.py, handle_report),
\* for any users, crashes and redelivered updates.
THEOREM OnlyAuthorizedReports == Spec => []RecordsAreAuthorized
<1>1. BotInv => RecordsAreAuthorized
  <2> SUFFICES ASSUME BotInv, NEW i \in DOMAIN incidents, incidents[i].arg.reporterId # ScriptReporter
               PROVE  LET u == incidents[i].arg.recordHash  reporter == incidents[i].arg.reporterId IN
                        /\ u \in DOMAIN written
                        /\ written[u].user = reporter /\ written[u].kind # "edit"
                        /\ \/ reporter \in AllowedUsers
                           \/ AccessCodeSet /\ \E k \in 1 .. u - 1 : written[k] = [user |-> reporter, kind |-> "code"]
    BY DEF RecordsAreAuthorized
  <2> DEFINE u == incidents[i].arg.recordHash
             reporter == incidents[i].arg.reporterId
  <2>1. Authorized(incidents[i].arg)
    BY DEF BotInv, RecordsOfCalls, CallsAreAuthorized
  <2>2. /\ u \in DOMAIN written /\ written[u].user = reporter /\ written[u].kind # "edit"
        /\ Earned(reporter, u)
    BY <2>1 DEF Authorized
  <2> HIDE DEF u, reporter
  <2>3. DOMAIN written = 1 .. Len(written) /\ Len(written) \in Nat
    BY BotTypeParts DEF BotInv, PollType
  <2>4. \A k \in DOMAIN written : k < u => k \in 1 .. u - 1
    BY <2>2, <2>3
  <2>5. \/ reporter \in AllowedUsers
        \/ AccessCodeSet /\ \E k \in 1 .. u - 1 : written[k] = [user |-> reporter, kind |-> "code"]
    BY <2>2, <2>4 DEF Earned
  <2> QED
    BY <2>2, <2>5 DEF u, reporter
<1> QED
  BY <1>1, BotInvariant, PTL

\* "A safety officer has been notified" is only said after the officer's
\* message went through (main.py, handle_report).
THEOREM NotifiedIsTrue == Spec => []NotifiedIsAlerted
<1>1. BotInv => NotifiedIsAlerted
  BY DEF BotInv
<1> QED
  BY <1>1, BotInvariant, PTL

\* The officer's link leads to this update's record, with the severity the alert
\* names, unless the configured address is a wallet's (chain.py, main.py).
THEOREM LinkLeadsToRecord == ASSUME Target # "wallet" PROVE Spec => []LinkedAlertIsRecorded
<1>1. BotInv => LinkedAlertIsRecorded
  BY DEF BotInv, AlertsInv, LinkedAlertIsRecorded, Linked, RecordsOf
<1> QED
  BY <1>1, BotInvariant, PTL

-----------------------------------------------------------------------------
(* How often a report is recorded *)

CallsOf(u) == {c \in DOMAIN calls : calls[c].arg.recordHash = u}

\* The handler has made its call for u, in this life of the process.
Called(u) == u < next \/ (u = next /\ step \in {"log", "alert", "reply"})

\* One call for each life of the process that is over, and one for this.
CallsAreFew ==
  \A u \in Nat \ {0} : Cardinality(CallsOf(u)) <= crashes + (IF Called(u) THEN 1 ELSE 0)

\* The moves of a handled update only go forward, or the process restarts.
CallsAdvance ==
  /\ crashes' \in {crashes, crashes + 1}
  /\ \A u \in Nat \ {0} : Called(u) => Called(u)' \/ crashes' = crashes + 1

LEMMA CallsAreFinite ==
  ASSUME RelayTypeOK, NEW u
  PROVE  IsFiniteSet(CallsOf(u)) /\ Cardinality(CallsOf(u)) \in Nat
<1>1. DOMAIN calls = 1 .. Len(calls) /\ Len(calls) \in Nat
  BY DEF RelayTypeOK
<1>2. IsFiniteSet(1 .. Len(calls)) /\ CallsOf(u) \in SUBSET (1 .. Len(calls))
  BY <1>1, FS_Interval DEF CallsOf
<1> QED
  BY <1>2, FS_Subset, FS_CardinalityType

\* Steps that make no call, or the script's, which is of no update.
LEMMA CountStays ==
  ASSUME BotInv, BotTypeOK', CallsAreFew, CallsAdvance, CallsKept,
         \A c \in DOMAIN calls' : c \in DOMAIN calls \/ calls'[c].arg.recordHash = 0
  PROVE  CallsAreFew'
<1> SUFFICES ASSUME NEW u \in Nat \ {0}
             PROVE  Cardinality(CallsOf(u))' <= crashes' + (IF Called(u)' THEN 1 ELSE 0)
  BY DEF CallsAreFew
<1>1. CallsOf(u)' = CallsOf(u)
  BY DEF CallsKept, CallsOf
<1>2. Cardinality(CallsOf(u)) <= crashes + (IF Called(u) THEN 1 ELSE 0)
  BY DEF CallsAreFew
<1>3. Cardinality(CallsOf(u)) \in Nat /\ crashes \in Nat /\ crashes' \in {crashes, crashes + 1}
  BY CallsAreFinite DEF BotInv, BotTypeOK, CallsAdvance
<1>4. Called(u) => Called(u)' \/ crashes' = crashes + 1
  BY DEF CallsAdvance
<1>5. Cardinality(CallsOf(u))' = Cardinality(CallsOf(u))
  BY <1>1
<1> QED
  BY <1>2, <1>3, <1>4, <1>5

LEMMA HandlerAdvances ==
  ASSUME BotInv, Handle \/ SendFails, \A r \in Assessments : ~TriageSevere(r)
  PROVE  CallsAdvance /\ CallsKept /\ NoNewCall
<1>1. crashes' = crashes /\ next \in Nat \ {0}
  BY BotParts DEF Handle, Triage, IgnoreEdit, Authorize, Block, Receive, Acknowledge, TriageFails, TriageLow,
     LogStep, LogReturns, LogRaises, Alert, AlertRefused, Reply, SendFails, boundVars, botVars
<1>2. \/ next' = next + 1
      \/ next' = next /\ step' = step
      \/ next' = next /\ step' \in {"log", "alert", "reply"}
      \/ next' = next /\ step \in {"idle", "ack", "triage"}
  <2>1. CASE IgnoreEdit \/ AlertRefused \/ Reply \/ SendFails
    BY <2>1 DEF IgnoreEdit, AlertRefused, Reply, SendFails, Finish
  <2>2. CASE Authorize \/ Block \/ Receive
    BY <2>2 DEF Authorize, Block, Receive, Take, SayNext, Go
  <2>3. CASE Acknowledge \/ Triage
    BY <2>3 DEF Acknowledge, Triage, TriageFails, TriageLow, SayNext, Go
  <2>4. CASE LogStep \/ LogReturns \/ LogRaises \/ Alert
    BY <2>4 DEF LogStep, LogReturns, LogRaises, Alert, SayNext, Go, botVars, handlerVars
  <2> QED
    BY <2>1, <2>2, <2>3, <2>4 DEF Handle
<1>3. CallsAdvance
  BY <1>1, <1>2 DEF CallsAdvance, Called
<1>4. \/ UNCHANGED relayVars
      \/ Connect(Bot) \/ ReadNonce(Bot) \/ Send(Bot)
      \/ SendUnanswered(Bot) \/ Raise(Bot) \/ Return(Bot)
  BY DEF Handle, Triage, IgnoreEdit, Authorize, Block, Receive, Acknowledge, TriageFails, TriageLow,
     LogStep, LogReturns, LogRaises, Alert, AlertRefused, Reply, SendFails
<1>5. CallsKept /\ NoNewCall
  BY <1>4, BotParts, RelayRests, CallGoesOn, CallEnds DEF RelayMoves
<1> QED
  BY <1>3, <1>5

\* The one call of this life.
LEMMA SevereCountsOnce ==
  ASSUME BotInv, CallsAreFew, NEW r \in Assessments, TriageSevere(r)
  PROVE  CallsAreFew'
<1> DEFINE arg == ReportArg(r.severity)
           new == Len(calls) + 1
<1>1. /\ step = "triage" /\ step' \in {"log", "alert"} /\ next' = next /\ crashes' = crashes
      /\ \E o \in Outcomes : NewCall(arg, o)
  BY DEF TriageSevere, Begin, Reject, boundVars, Outcomes
<1>2. PICK o \in Outcomes : NewCall(arg, o)
  BY <1>1
<1>3. next \in DOMAIN written /\ Update.user \in Users /\ next \in Nat \ {0} /\ r \in Results
  BY <1>1, BotParts, UpdateIsWritten
<1>4. arg \in Arguments /\ arg.recordHash = next
  BY <1>3 DEF ReportArg, Arguments, Results
<1> HIDE DEF arg
<1>5. /\ DOMAIN calls = 1 .. Len(calls) /\ DOMAIN calls' = 1 .. new /\ Len(calls) \in Nat
      /\ \A c \in DOMAIN calls : calls'[c] = calls[c]
      /\ calls'[new] = [arg |-> arg, outcome |-> o]
  BY <1>2, <1>4, NewCallIsLast DEF BotInv, RelayInv
<1>6. /\ \A c \in DOMAIN calls' : c \in DOMAIN calls \/ c = new
      /\ \A c \in DOMAIN calls : c \in DOMAIN calls'
      /\ new \in DOMAIN calls' /\ new \notin DOMAIN calls /\ calls'[new].arg.recordHash = next
  BY <1>4, <1>5
<1> HIDE DEF new
<1> SUFFICES ASSUME NEW u \in Nat \ {0}
             PROVE  Cardinality(CallsOf(u))' <= crashes' + (IF Called(u)' THEN 1 ELSE 0)
  BY DEF CallsAreFew
<1>7. /\ Cardinality(CallsOf(u)) <= crashes + (IF Called(u) THEN 1 ELSE 0)
      /\ IsFiniteSet(CallsOf(u)) /\ Cardinality(CallsOf(u)) \in Nat /\ crashes \in Nat
  BY CallsAreFinite DEF CallsAreFew, BotInv, RelayInv, BotTypeOK
<1>8. CASE u = next
  <2>1. CallsOf(u)' = CallsOf(u) \cup {new}
    BY <1>5, <1>6, <1>8 DEF CallsOf
  <2>2. ~Called(u) /\ Called(u)'
    BY <1>1, <1>3, <1>8 DEF Called
  <2>3. Cardinality(CallsOf(u) \cup {new}) <= Cardinality(CallsOf(u)) + 1
    <3>1. new \notin CallsOf(u)
      BY <1>6 DEF CallsOf
    <3>2. Cardinality(CallsOf(u) \cup {new}) = Cardinality(CallsOf(u)) + 1
      BY <1>7, <3>1, FS_AddElement
    <3> QED
      BY <1>7, <3>2
  <2>4. Cardinality(CallsOf(u) \cup {new}) \in Nat
    BY <1>7, FS_AddElement, FS_CardinalityType
  <2>5. Cardinality(CallsOf(u))' = Cardinality(CallsOf(u) \cup {new})
    BY <2>1
  <2> QED
    BY <1>1, <1>7, <2>2, <2>3, <2>4, <2>5
<1>9. CASE u # next
  <2>1. CallsOf(u)' = CallsOf(u)
    BY <1>5, <1>6, <1>9 DEF CallsOf
  <2>2. Called(u) <=> Called(u)'
    BY <1>1, <1>9 DEF Called
  <2>3. Cardinality(CallsOf(u))' = Cardinality(CallsOf(u))
    BY <2>1
  <2> QED
    BY <1>1, <1>7, <2>2, <2>3
<1> QED
  BY <1>8, <1>9

LEMMA StepKeepsCount ==
  ASSUME BotInv, CallsAreFew, [Next]_vars
  PROVE  CallsAreFew'
<1>1. BotInv' /\ BotTypeOK'
  BY BotStepKeepsInv DEF BotInv
<1>2. ASSUME CallsAdvance, CallsKept, NoNewCall PROVE CallsAreFew'
  BY <1>1, <1>2, CountStays DEF NoNewCall
<1>3. CASE \E r \in Assessments : TriageSevere(r)
  BY <1>3, SevereCountsOnce
<1>4. CASE (Handle \/ SendFails) /\ \A r \in Assessments : ~TriageSevere(r)
  BY <1>2, <1>4, HandlerAdvances
<1>5. CASE Crash
  <2>1. crashes' = crashes + 1 /\ (UNCHANGED relayVars \/ Abandon(Bot))
    BY <1>5 DEF Crash
  <2>2. CallsKept /\ NoNewCall
    BY <2>1, BotParts, RelayRests, CallEnds DEF RelayMoves
  <2> QED
    BY <1>2, <2>1, <2>2 DEF CallsAdvance
<1>6. CASE crashes' = crashes /\ next' = next /\ step' = step
  <2>1. CallsAdvance
    BY <1>6 DEF CallsAdvance, Called
  <2>2. CASE UNCHANGED relayVars
    BY <1>2, <2>1, <2>2, BotParts, RelayRests DEF RelayMoves
  <2>3. CASE NodeStep
    BY <1>2, <2>1, <2>3, BotParts, NodeMoves DEF RelayMoves
  <2>4. CASE CallStep(Script)
    BY <1>2, <2>1, <2>4, BotParts, CallGoesOn, CallEnds DEF CallStep, RelayMoves
  <2>5. CASE RunScript
    <3>1. ScriptArg \in Arguments /\ ScriptArg.recordHash = 0 /\ Begin(Script, ScriptArg)
      BY <2>5 DEF ScriptArg, Arguments, Severity, Medium, RunScript
    <3>2. CallsKept /\ \A c \in DOMAIN calls' : c \in DOMAIN calls \/ calls'[c].arg = ScriptArg
      BY <3>1, BotParts, CallIsMade DEF RelayMoves
    <3> QED
      BY <1>1, <2>1, <3>1, <3>2, CountStays
  <2>6. CASE Handle \/ SendFails \/ Crash
    BY <1>3, <1>4, <1>5, <2>6
  <2>7. UNCHANGED relayVars \/ NodeStep \/ CallStep(Script) \/ RunScript \/ Handle \/ SendFails \/ Crash
    BY DEF Next, Poll, Write, ScriptStep, Node, vars
  <2> QED
    BY <2>2, <2>3, <2>4, <2>5, <2>6, <2>7
<1>7. CASE ~(Handle \/ SendFails \/ Crash)
  <2>1. crashes' = crashes /\ next' = next /\ step' = step
    BY <1>7 DEF Next, Poll, Write, RunScript, ScriptStep, Node, vars, botVars, handlerVars, boundVars
  <2> QED
    BY <1>6, <2>1
<1> QED
  BY <1>3, <1>4, <1>5, <1>7

\* No two records are of one call, so there are no more of them than calls.
LEMMA RecordsAreFew ==
  ASSUME BotInv, CallsAreFew
  PROVE  RecordedOncePerDelivery
<1> SUFFICES ASSUME NEW u \in DOMAIN written PROVE Cardinality(RecordsOf(u)) <= 1 + crashes
  BY DEF RecordedOncePerDelivery
<1>1. u \in Nat \ {0} /\ crashes \in Nat
  BY DEF BotInv, BotTypeOK
<1>2. IsFiniteSet(CallsOf(u)) /\ Cardinality(CallsOf(u)) \in Nat
  BY CallsAreFinite DEF BotInv, RelayInv
<1> DEFINE f == [i \in RecordsOf(u) |-> incidents[i].call]
<1>3. \A i \in RecordsOf(u) : incidents[i].call \in CallsOf(u)
  BY DEF RecordsOf, CallsOf, BotInv, RecordsOfCalls
<1>4. \A i, j \in RecordsOf(u) : incidents[i].call = incidents[j].call => i = j
  BY DEF RecordsOf, BotInv, RelayInv, RecordedOnce
<1>5. f \in Injection(RecordsOf(u), CallsOf(u))
  BY <1>3, <1>4 DEF Injection, IsInjective
<1> HIDE DEF f
<1>6. IsFiniteSet(RecordsOf(u)) /\ Cardinality(RecordsOf(u)) <= Cardinality(CallsOf(u))
  BY <1>2, <1>5, FS_Injection
<1>7. Cardinality(RecordsOf(u)) \in Nat
  BY <1>6, FS_CardinalityType
<1>8. Cardinality(CallsOf(u)) <= crashes + (IF Called(u) THEN 1 ELSE 0)
  BY <1>1 DEF CallsAreFew
<1> QED
  BY <1>1, <1>2, <1>6, <1>7, <1>8

\* One report leaves at most one record, and one more for each restart of the
\* process (main.py, handle_report; chain.py never sends twice).
THEOREM OneRecordPerDelivery == Spec => []RecordedOncePerDelivery
<1>1. Init => CallsAreFew
  <2> SUFFICES ASSUME Init PROVE CallsAreFew
    OBVIOUS
  <2>1. calls = <<>> /\ crashes = 0
    BY DEF Init, RelayInit
  <2>2. \A u \in Nat \ {0} : CallsOf(u) = {}
    BY <2>1 DEF CallsOf
  <2> QED
    BY <2>1, <2>2, FS_EmptySet DEF CallsAreFew
<1>2. BotInv /\ CallsAreFew /\ [Next]_vars => CallsAreFew'
  BY StepKeepsCount
<1>3. BotInv /\ CallsAreFew => RecordedOncePerDelivery
  BY RecordsAreFew
<1> QED
  BY <1>1, <1>2, <1>3, BotInvariant, PTL DEF Spec

-----------------------------------------------------------------------------
(* The relay's promises, with the bot and the script around it *)

\* What the bot asks to be recorded is something that can be.
LEMMA ReportIsArgument ==
  ASSUME BotInv, step = "triage", NEW r \in Assessments
  PROVE  ReportArg(r.severity) \in Arguments
<1>1. next <= fetched
  BY DEF BotInv, BotTypeOK
<1>2. Update.user \in Users /\ next \in Nat
  BY <1>1, UpdateIsWritten DEF BotInv
<1>3. r.severity \in Severity
  BY DEF Results
<1> QED
  BY <1>2, <1>3 DEF ReportArg, Arguments

\* The smoke test's record can be, too.
LEMMA ScriptIsArgument == ScriptArg \in Arguments
BY DEF ScriptArg, Arguments, Severity, Medium

\* Whatever the bot, the script and the node do is a step of the relay, or
\* leaves it alone.
LEMMA BotStepIsRelayStep ==
  ASSUME BotInv, [Next]_vars
  PROVE  [RelayStep]_relayVars
<1>1. Bot \in Clients /\ Script \in Clients
  OBVIOUS
<1>2. ASSUME NEW r \in Assessments, TriageSevere(r) PROVE RelayStep
  <2>1. ReportArg(r.severity) \in Arguments
    BY <1>2, ReportIsArgument DEF TriageSevere
  <2>2. Begin(Bot, ReportArg(r.severity)) \/ Reject(Bot, ReportArg(r.severity))
    BY <1>2 DEF TriageSevere
  <2> QED
    BY <1>1, <2>1, <2>2 DEF RelayStep, Calling
<1>3. CASE LogStep \/ LogReturns \/ LogRaises
  <2>1. CallStep(Bot)
    BY <1>3 DEF LogStep, LogReturns, LogRaises, CallStep
  <2> QED
    BY <1>1, <2>1 DEF RelayStep
<1>4. CASE Crash
  BY <1>1, <1>4 DEF Crash, RelayStep
<1>5. CASE RunScript
  BY <1>1, <1>5, ScriptIsArgument DEF RunScript, RelayStep, Calling
<1>6. CASE ScriptStep \/ Node
  BY <1>1, <1>6 DEF ScriptStep, Node, RelayStep
<1>7. CASE IgnoreEdit \/ Authorize \/ Block \/ Receive \/ Acknowledge
  BY <1>7 DEF IgnoreEdit, Authorize, Block, Receive, Acknowledge
<1>8. CASE Alert \/ AlertRefused \/ Reply \/ SendFails \/ Poll \/ TriageFails
  BY <1>8 DEF Alert, AlertRefused, Reply, SendFails, Poll, TriageFails
<1>9. ASSUME NEW r \in Assessments, TriageLow(r) PROVE UNCHANGED relayVars
  BY <1>9 DEF TriageLow
<1>10. ASSUME NEW user \in Users, NEW kind \in {"code", "report", "edit"}, Write(user, kind)
       PROVE  UNCHANGED relayVars
  BY <1>10 DEF Write
<1>11. CASE UNCHANGED vars
  BY <1>11 DEF vars
<1> QED
  BY <1>2, <1>3, <1>4, <1>5, <1>6, <1>7, <1>8, <1>9, <1>10, <1>11 DEF Next, Handle, Triage

\* With the bot, its crashes and the script on one key, no call leaves two
\* records and no nonce gap blocks the key (chain.py, test_botchain_incident.py).
THEOREM BotLeavesNoGap == Spec => [](RecordedOnce /\ PoolIsNext)
<1>1. BotInv => RecordedOnce /\ PoolIsNext
  BY DEF BotInv, RelayInv
<1> QED
  BY <1>1, BotInvariant, PTL

\* A failure that the bot was told becomes final: once the node holds nothing of
\* the call, neither a restart nor the script brings a record of it.
THEOREM BotFailureIsFinal == Spec => FailureBecomesFinal
<1>1. BotInv /\ [Next]_vars => [\A c \in DOMAIN calls : Over(c) => Over(c)']_relayVars
  BY BotStepIsRelayStep, OverStays DEF BotInv
<1> QED
  BY <1>1, BotInvariant, PTL DEF Spec, FailureBecomesFinal

\* The bot, the script and the node together implement the record service: what
\* is proved of the relay by itself holds where it is used.
THEOREM BotImplementsService ==
  ASSUME Target # "wallet"
  PROVE  Spec => ImplementsService
<1>1. Init => Service!Init
  BY DEF Init, RelayInit, Service!Init
<1>2. BotInv /\ [Next]_vars => [Service!Next]_(Service!vars)
  BY BotStepIsRelayStep, StepRefinesService DEF BotInv
<1> QED
  BY <1>1, <1>2, BotInvariant, PTL DEF Spec, ImplementsService, Service!Spec

\* What the bot takes for logged is in the contract.
THEOREM BotReturnsRecorded ==
  ASSUME Target # "wallet"
  PROVE  Spec => []ReturnedIsRecorded
<1>1. Init => ReturnedIsRecorded
  BY DEF Init, RelayInit, ReturnedIsRecorded
<1>2. BotInv /\ ReturnedIsRecorded /\ [Next]_vars => ReturnedIsRecorded'
  BY BotStepIsRelayStep, StepRefinesService, ServiceKeepsReturned DEF BotInv
<1> QED
  BY <1>1, <1>2, BotInvariant, PTL DEF Spec
=============================================================================
