----------------------------- MODULE TriageBot -----------------------------
(***************************************************************************)
(* bot/main.py: the Telegram bot, with the triage of bot/triage.py and the *)
(* relay of bot/chain.py inside its handler.                               *)
(*                                                                         *)
(* Updates are numbered as Telegram numbers them: update u is written[u].  *)
(* Telegram keeps an update until a getUpdates request asks for a later    *)
(* one ("confirmed"); the process holds the updates it has fetched in a    *)
(* queue in memory, here next .. fetched, and handles them one at a time.  *)
(* handle_report awaits only its Telegram messages: triage and relay block *)
(* the event loop, so no update is fetched while they run.  A crash may    *)
(* come between any two steps; a restart finds an empty queue and only the *)
(* users of ALLOWED_USER_IDS authorized.                                   *)
(***************************************************************************)
EXTENDS ChainRelay

CONSTANTS
  Bot, Script,      \* the two clients of the relayer key
  Users,            \* workers writing to the bot
  AllowedUsers,     \* ALLOWED_USER_IDS
  AccessCodeSet,    \* whether BOT_ACCESS_CODE is not empty
  ScriptReporter,   \* the smoke test's synthetic reporter
  Assessments,      \* the triage results the AI may return
  MaxUpdates, MaxCrashes, MaxSendFailures   \* bounds (model checking only)

\* TriageResult: its severity, and whether its texts break Telegram's HTML.
Results == [severity : Severity, markup : BOOLEAN]

ASSUME BotAssumption ==
  /\ Clients = {Bot, Script} /\ Bot # Script
  /\ ReporterIds = Users \cup {ScriptReporter} /\ ScriptReporter \notin Users
  /\ AllowedUsers \subseteq Users
  /\ AccessCodeSet \in BOOLEAN
  /\ Assessments \subseteq Results
  /\ RecordHashes = Nat

VARIABLES
  written,          \* every update sent to the bot so far
  confirmed,        \* updates 1 .. confirmed are gone from Telegram's server
  fetched,          \* updates 1 .. fetched have reached this process
  next,             \* the update being handled, or to be handled next
  authorized,       \* authorized_users
  step,             \* where handle_report is
  result,           \* the triage result at hand
  linked,           \* chain_info is not None
  reply,            \* the text of the reply about to be sent
  alerts,           \* messages the safety officer has received
  replies,          \* messages the workers have received
  crashes, sendFailures                     \* counted to bound them

telegramVars == <<written, confirmed>>
pollVars     == <<confirmed, fetched>>
handlerVars  == <<next, step, result, linked, reply>>
sentVars     == <<alerts, replies>>
boundVars    == <<crashes, sendFailures>>
botVars      == <<written, pollVars, handlerVars, authorized, sentVars, boundVars>>
vars         == <<relayVars, botVars>>

\* "code" is the access code, "report" any other text, "edit" an edited message.
Updates == [user : Users, kind : {"code", "report", "edit"}]
Texts   == {"granted", "blocked", "ack", "unassessed", "recorded", "notified"}
Steps   == {"idle", "ack", "triage", "log", "alert", "reply"}
Alerts  == [update : Nat, severity : Severity, linked : BOOLEAN]

BotTypeOK ==
  /\ RelayTypeOK
  /\ written \in Seq(Updates)
  /\ confirmed \in Nat /\ fetched \in Nat /\ next \in Nat \ {0}
  /\ confirmed <= fetched /\ fetched <= Len(written) /\ next <= fetched + 1
  /\ authorized \subseteq Users
  /\ step \in Steps
  /\ step # "idle" => next <= fetched
  /\ result \in Results /\ linked \in BOOLEAN /\ reply \in Texts
  /\ alerts \subseteq Alerts
  /\ replies \subseteq [update : Nat, text : Texts]
  /\ crashes \in Nat /\ sendFailures \in Nat

Init ==
  /\ RelayInit
  /\ written = <<>> /\ confirmed = 0 /\ fetched = 0 /\ next = 1
  /\ authorized = AllowedUsers
  /\ step = "idle" /\ result = [severity |-> 0, markup |-> FALSE] /\ linked = FALSE /\ reply = "ack"
  /\ alerts = {} /\ replies = {}
  /\ crashes = 0 /\ sendFailures = 0

-----------------------------------------------------------------------------
(* Telegram and the event loop's updater *)

\* A worker sends or edits a message.
Write(user, kind) ==
  /\ Len(written) < MaxUpdates
  /\ written' = Append(written, [user |-> user, kind |-> kind])
  /\ UNCHANGED <<relayVars, pollVars, handlerVars, authorized, sentVars, boundVars>>

\* Mutant: the offset runs one ahead of the updates that were fetched.
PollOneAhead ==
  /\ step \notin {"triage", "log"}
  /\ confirmed < Len(written)
  /\ confirmed' = fetched + 1
  /\ fetched' = Len(written)
  /\ UNCHANGED <<relayVars, written, handlerVars, authorized, sentVars, boundVars>>

\* getUpdates with an offset past the last update fetched: it confirms those
\* and brings the rest.  It runs whenever the handler awaits.
Poll ==
  /\ step \notin {"triage", "log"}
  /\ confirmed < Len(written)
  /\ confirmed' = fetched
  /\ fetched' = Len(written)
  /\ UNCHANGED <<relayVars, written, handlerVars, authorized, sentVars, boundVars>>

-----------------------------------------------------------------------------
(* handle_report *)

Update == written[next]

\* The next update leaves the queue; there is one, and the last is finished.
Take == step = "idle" /\ next <= fetched

NoResult == [severity |-> 0, markup |-> FALSE]
ClearLocals == step' = "idle" /\ result' = NoResult /\ linked' = FALSE /\ reply' = "ack"

Finish == next' = next + 1 /\ ClearLocals

Go(to) == step' = to /\ UNCHANGED <<next, result, linked, reply>>

SayNext(text) ==
  /\ step' = "reply" /\ reply' = text
  /\ UNCHANGED <<next, result, linked>>

\* An edited message passes the filter but has no update.message: the handler
\* raises AttributeError before it does anything.
IgnoreEdit ==
  /\ Take /\ Update.kind = "edit"
  /\ Finish
  /\ UNCHANGED <<relayVars, telegramVars, fetched, authorized, sentVars, boundVars>>

IsAccessCode(update) == AccessCodeSet /\ update.kind = "code"

\* First message with the access code: remembered, and not taken as a report.
Authorize ==
  /\ Take /\ Update.kind # "edit" /\ Update.user \notin authorized
  /\ IsAccessCode(Update)
  /\ authorized' = authorized \cup {Update.user}
  /\ SayNext("granted")
  /\ UNCHANGED <<relayVars, telegramVars, fetched, sentVars, boundVars>>

\* Mutant: the return after the access check is missing.
BlockFallsThrough ==
  /\ Take /\ Update.kind # "edit" /\ Update.user \notin authorized
  /\ ~IsAccessCode(Update)
  /\ Go("ack")
  /\ UNCHANGED <<relayVars, telegramVars, fetched, authorized, sentVars, boundVars>>

Block ==
  /\ Take /\ Update.kind # "edit" /\ Update.user \notin authorized
  /\ ~IsAccessCode(Update)
  /\ SayNext("blocked")
  /\ UNCHANGED <<relayVars, telegramVars, fetched, authorized, sentVars, boundVars>>

\* Anything an authorized user writes is a report (the access code too).
Receive ==
  /\ Take /\ Update.kind # "edit" /\ Update.user \in authorized
  /\ Go("ack")
  /\ UNCHANGED <<relayVars, telegramVars, fetched, authorized, sentVars, boundVars>>

Tell(text) == replies' = replies \cup {[update |-> next, text |-> text]}

\* "Got it, logging and assessing now."
Acknowledge ==
  /\ step = "ack"
  /\ Tell("ack")
  /\ Go("triage")
  /\ UNCHANGED <<relayVars, telegramVars, fetched, authorized, alerts, boundVars>>

\* Mutant: the exception of classify_incident is not caught.
TriageEscapes ==
  /\ step = "triage"
  /\ Finish
  /\ UNCHANGED <<relayVars, telegramVars, fetched, authorized, sentVars, boundVars>>

\* classify_incident raises: no key, no network, no parsed answer.
TriageFails ==
  /\ step = "triage"
  /\ SayNext("unassessed")
  /\ UNCHANGED <<relayVars, telegramVars, fetched, authorized, sentVars, boundVars>>

TriageLow(r) ==
  /\ step = "triage" /\ ~ShouldLog(r.severity)
  /\ step' = "reply" /\ reply' = "recorded" /\ result' = r
  /\ UNCHANGED <<relayVars, telegramVars, fetched, next, linked, authorized,
                 sentVars, boundVars>>

\* The hash of a record stands for its update.  In the program equal triage
\* results have equal hashes; no property here depends on that.
ReportArg(severity) ==
  [recordHash |-> next, reporterId |-> Update.user, severity |-> severity]

\* Medium or more: the handler calls log_incident_on_chain at once.
TriageSevere(r) ==
  /\ step = "triage" /\ ShouldLog(r.severity)
  /\ \/ /\ Begin(Bot, ReportArg(r.severity))
        /\ step' = "log"
     \/ /\ Reject(Bot, ReportArg(r.severity))
        /\ step' = "alert"
  /\ result' = r /\ linked' = FALSE
  /\ UNCHANGED <<telegramVars, fetched, next, reply, authorized, sentVars, boundVars>>

\* log_incident_on_chain goes on, returns, or raises (the handler logs the
\* exception and keeps chain_info = None).
LogStep ==
  /\ step = "log"
  /\ Connect(Bot) \/ ReadNonce(Bot) \/ Send(Bot)
  /\ UNCHANGED botVars

LogReturns ==
  /\ step = "log"
  /\ Return(Bot)
  /\ step' = "alert" /\ linked' = TRUE
  /\ UNCHANGED <<telegramVars, fetched, next, result, reply, authorized, sentVars, boundVars>>

\* Mutant: the handler gives up when the on-chain write fails.
LogRaisesAndReturns ==
  /\ step = "log"
  /\ Raise(Bot) \/ SendUnanswered(Bot)
  /\ Finish
  /\ UNCHANGED <<telegramVars, fetched, authorized, sentVars, boundVars>>

\* Mutant: the handler assesses and logs the report again after a failure.
LogRaisesAndRetries ==
  /\ step = "log"
  /\ Raise(Bot) \/ SendUnanswered(Bot)
  /\ Go("triage")
  /\ UNCHANGED <<telegramVars, fetched, authorized, sentVars, boundVars>>

LogRaises ==
  /\ step = "log"
  /\ Raise(Bot) \/ SendUnanswered(Bot)
  /\ Go("alert")
  /\ UNCHANGED <<telegramVars, fetched, authorized, sentVars, boundVars>>

\* The officer's message: with the link, or with "On-chain logging failed".
Inform == alerts' = alerts \cup {[update |-> next, severity |-> result.severity, linked |-> linked]}

\* notify_safety_officer.  Telegram refuses text that does not parse as HTML.
Alert ==
  /\ step = "alert" /\ ~result.markup
  /\ Inform
  /\ SayNext("notified")
  /\ UNCHANGED <<relayVars, telegramVars, fetched, authorized, replies, boundVars>>

\* The exception leaves the handler: no reply follows.
AlertRefused ==
  /\ step = "alert" /\ result.markup
  /\ Finish
  /\ UNCHANGED <<relayVars, telegramVars, fetched, authorized, sentVars, boundVars>>

Reply ==
  /\ step = "reply"
  /\ Tell(reply)
  /\ Finish
  /\ UNCHANGED <<relayVars, telegramVars, fetched, authorized, alerts, boundVars>>

\* Mutant: officer_notified is set although the alert failed.
SendFailsUnnoticed ==
  /\ step \in {"ack", "alert", "reply"}
  /\ sendFailures < MaxSendFailures
  /\ sendFailures' = sendFailures + 1
  /\ IF step = "alert" THEN SayNext("notified") ELSE Finish
  /\ UNCHANGED <<relayVars, telegramVars, fetched, authorized, sentVars, crashes>>

\* The message of this step reaches its reader.
Delivered ==
  \/ step = "ack" /\ Tell("ack") /\ UNCHANGED alerts
  \/ step = "alert" /\ ~result.markup /\ Inform /\ UNCHANGED replies
  \/ step = "reply" /\ Tell(reply) /\ UNCHANGED alerts

\* A Telegram request of the handler fails, and its exception ends the handler,
\* also when the message was delivered and only the answer is lost.
SendFails ==
  /\ step \in {"ack", "alert", "reply"}
  /\ sendFailures < MaxSendFailures
  /\ sendFailures' = sendFailures + 1
  /\ Finish
  /\ UNCHANGED sentVars \/ Delivered
  /\ UNCHANGED <<relayVars, telegramVars, fetched, authorized, crashes>>

\* The process dies and starts again: memory is lost, the chain and Telegram
\* keep theirs.
Crash ==
  /\ crashes < MaxCrashes
  /\ crashes' = crashes + 1
  /\ fetched' = confirmed /\ next' = confirmed + 1
  /\ authorized' = AllowedUsers
  /\ ClearLocals
  /\ IF stage[Bot] = "off" THEN UNCHANGED relayVars ELSE Abandon(Bot)
  /\ UNCHANGED <<telegramVars, sentVars, sendFailures>>

-----------------------------------------------------------------------------
(* The smoke-test script and the node *)

ScriptArg ==
  [recordHash |-> 0, reporterId |-> ScriptReporter, severity |-> Medium]

ScriptRuns == Cardinality({c \in DOMAIN calls : calls[c].arg = ScriptArg})

\* It has no threshold, and an address of its own, which is the contract's.
RunScript ==
  /\ ScriptRuns < MaxCalls
  /\ Begin(Script, ScriptArg)
  /\ UNCHANGED botVars

ScriptStep == CallStep(Script) /\ UNCHANGED botVars

Node == NodeStep /\ UNCHANGED botVars

-----------------------------------------------------------------------------
Triage ==
  \/ TriageFails
  \/ \E r \in Assessments : TriageLow(r) \/ TriageSevere(r)

Handle ==
  \/ IgnoreEdit \/ Authorize \/ Block \/ Receive \/ Acknowledge \/ Triage
  \/ LogStep \/ LogReturns \/ LogRaises \/ Alert \/ AlertRefused \/ Reply

Next ==
  \/ \E user \in Users, kind \in {"code", "report", "edit"} : Write(user, kind)
  \/ Poll \/ Handle \/ SendFails \/ Crash
  \/ RunScript \/ ScriptStep \/ Node

Spec == Init /\ [][Next]_vars

\* The event loop polls and handles as long as it runs.  The relay's requests
\* time out by themselves; that the AI's answer comes, or its connection fails,
\* is an assumption about the service (classify_incident sets no timeout).
FairSpec == Spec /\ WF_vars(Poll) /\ WF_vars(Handle)
-----------------------------------------------------------------------------
RecordsOf(u) == {i \in DOMAIN incidents : incidents[i].arg.recordHash = u}

\* The link "View On-Chain Record" never leads to nothing: when an alert
\* carries it, the contract holds this update's record with the severity the
\* officer reads, also when a call failed before, or the script holds the key.
LinkedAlertIsRecorded ==
  \A a \in alerts :
    a.linked => \E i \in RecordsOf(a.update) :
                  /\ incidents[i].arg.severity = a.severity
                  /\ incidents[i].arg.reporterId = written[a.update].user

\* A worker who reads "a safety officer has been notified" can rely on it: the
\* handler sends this text only after the officer's message went through.
NotifiedIsAlerted ==
  \A r \in replies :
    r.text = "notified" => \E a \in alerts : a.update = r.update /\ a.severity >= Medium

\* Only reports of authorized users cost gas: every record stands for a new
\* message of its reporter, who is listed in ALLOWED_USER_IDS or has sent the
\* access code in an earlier message.  Crashes, restarts and redelivered
\* updates open no other way to the chain.
RecordsAreAuthorized ==
  \A i \in DOMAIN incidents :
    LET u == incidents[i].arg.recordHash  reporter == incidents[i].arg.reporterId IN
    reporter # ScriptReporter =>
      /\ u \in DOMAIN written
      /\ written[u].user = reporter /\ written[u].kind # "edit"
      /\ \/ reporter \in AllowedUsers
         \/ AccessCodeSet /\ \E k \in 1 .. u - 1 : written[k] = [user |-> reporter, kind |-> "code"]

\* One report leaves at most one record, and at most one more for each restart
\* after which Telegram delivers it again.
RecordedOncePerDelivery ==
  \A u \in DOMAIN written : Cardinality(RecordsOf(u)) <= 1 + crashes

\* A failed on-chain write never keeps the alert from the officer: the handler
\* goes on without the link.  (Without crashes, send failures and markup.)
SevereIsAlerted ==
  \A u \in 1 .. MaxUpdates :
    (step \in {"log", "alert"} /\ next = u) ~> (\E a \in alerts : a.update = u)

\* Every new message gets a final answer, one way or the other.
EveryMessageIsAnswered ==
  \A u \in 1 .. MaxUpdates :
    (u \in DOMAIN written /\ written[u].kind # "edit") ~>
      (\E r \in replies : r.update = u /\ r.text # "ack")

\* main.py's flow: "if Medium+, log on-chain -> alert the safety officer".  Once
\* a report is handled, its record on the chain is matched by an alert.
LoggedIsAlerted ==
  \A u \in 1 .. next - 1 :
    RecordsOf(u) # {} => \E a \in alerts : a.update = u

\* An alert that says "On-chain logging failed" is true of the chain.
FailedAlertIsTrue ==
  \A a \in alerts : ~a.linked => RecordsOf(a.update) = {}
=============================================================================
