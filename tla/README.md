# Verification of the safety incident log

This directory holds TLA+ specifications of the program in `src/`, the TLC
configurations that check them on small instances, and TLAPS proofs of the
properties that matter most.

    tlasany M.tla                          parse a module
    tlc -workers 2 -config X.cfg MC_M      check a configuration
    tlapm MProofs.tla                      check the proofs

`PROJECT.json` ties the two worlds together: it lists the components, the runs,
for each definition the source lines it stands for, for each property a mutant
of the code that breaks it, the hazards and the theorems.

## 1. The system

A worker writes what happened to a Telegram bot.  The bot asks an AI model for a
severity, writes a hash of the assessment to a contract when it is Medium or
more, alerts the safety officer, and answers the worker.  Beside it stands an
extension for a trusted execution environment (TEE) on Flare that does the same
classification inside an enclave, with tools that deploy and register it.

| component | state | operations | talks to |
|---|---|---|---|
| Telegram bot, `bot/main.py` | `authorized_users`; the queue of fetched updates; local variables of the handler | `handle_report`, `notify_safety_officer` | Telegram (polling, messages), triage, relay (both called inside the event loop) |
| AI triage, `bot/triage.py` | none | `classify_incident` | Gemini |
| Chain relay, `bot/chain.py` | none between calls; one account and its nonce on the chain | `log_incident_on_chain` | a JSON-RPC node, request by request |
| IncidentLog, `contracts/IncidentLog.sol` | the array of incidents | `logIncident`, two views | called by transactions of the relayer |
| Smoke test, `botchain/test_botchain_incident.py` | none | the same calls as the relay with the same key | the same node |
| TEE extension, `internal/extension` | `classificationCount`, `lastSeverity`, an RWMutex | `POST /action`, `GET /state`, each request in its goroutine | the TEE node in front of it, Gemini |
| TEE registration, `tools/cmd/register-tee`, `fccutils/registration.go` | `register-tee.state`; the machine and attestation registries on the chain | steps `r`, `R`, `a`, `p`, with `--resume` | the chain, the extension's proxy, the FTDC proxy |
| Signing-policy pre-flight, `fccutils/policy_consistency.go` | none | one comparison before step `a` | the chain, the FTDC proxy |
| InstructionSender, `fce-extension-scaffold/contracts` | `_extensionId`, set once | `setExtensionId`, `sendClassifySeverity` | the extension registry |
| Extension setup, `fccutils/extension.go`, `governance.go`, `allow-tee-version`, `set-governance`, `pause-tee`, `register-extension` | registry entries | one command each, several transactions | the chain |
| Deployment pipeline, `scripts/*.sh` | `config/extension.env`, pid files | pre-build, start-services, post-build, test, stop | all the tools |
| Audit of a deployment, `tools/pkg/validate` | a report | some 25 checks, summed up | the chain, proxies, files |
| Test client, `run-test`, `utils/instructions.go` | none | send an instruction, poll its result | InstructionSender, the proxy |
| Types server, `internal/typesserver`, `pkg/decoder` | a registry of decoders, filled at start | decode by op type and command | HTTP clients |
| TEE container, `cmd/docker` | two goroutines | start, wait for a signal or an error | the extension, the TEE node |
| Agent harness, `testing/scripts` | lock file, saved index | the sequencer's loop | tmux sessions |

What is hard about it:

- *Concurrency.* Two processes sign with one key; goroutines share two fields
  under a lock; Telegram's updater polls while the handler awaits, and only then.
- *Failure.* Each RPC request, Telegram message and AI call may fail; each of
  the programs may die between any two steps, and only the chain, Telegram's
  server and the state file survive.
- *Late success.* A transaction may be included after the call that sent it has
  reported a failure.  This is the most delicate behaviour of the repository: it
  appears in the relay (120 seconds) and in the tools (two minutes).
- *Redelivery.* Telegram sends updates again that were not confirmed.
- *Stale state.* A challenge that has expired, a state file that speaks of
  another TEE, a nonce that is read and then used, an `extension.env` that is
  newer than the services, a list of machines that changes while it is paused.
- *Scripts that share a deployment.* Ten transactions and a file, by several
  operators; any of them may fail, be interrupted or come late, and a rerun
  begins with a new contract and a new extension.
- *Bounded polling.* The test client gives up while the TEE is still at work,
  and the next client shares its queue.

For each component, the properties that make it correct are the ones of the runs
in section 4.

## 2. The modules

    IncidentLog            the contract
      RecordService        what the relay promises, abstractly
      ChainRelay           the relay and the node;   ImplementsService
        ChainRelayProofs
        TriageBot          the bot, triage, the script, around ChainRelay
          TriageBotProofs
    ExtensionState         what GET /state promises, abstractly
    TriageExtension        the TEE extension;        ImplementsState
      TriageExtensionProofs
    RegisterNode           the registration of a TEE machine
      RegisterNodeProofs
    Preflight              the checks of validate and verify-deploy, as functions
      Deployment           the scripts, the registry, the services, the sender
        DeploymentProofs
          AuditProofs      what verify-deploy says of the scripts' world
            ScriptProofs   whole scripts: full-setup and pause-tee
    RequestReply           what chain, proxy and TEE promise, abstractly
    TypesServer            the decoders of POST /decode, as functions
      InstructionFlow      an instruction's round trip;  ImplementsRequestReply
        InstructionFlowProofs

`MC_*.tla` give the constants their values for TLC, `MC_*.cfg` are the runs.

**IncidentLog** is the array and the append.  The record carries a history field
`call`, the relay call it came from, so that two records of one call can be told
from two equal reports.

**ChainRelay** models `log_incident_on_chain` one RPC request at a time, for any
number of processes that hold the key: `Begin`/`Reject` (threshold and address),
`Connect`, `ReadNonce`, `Send`/`SendUnanswered`, then `Return` or `Raise`.
`Raise` may happen anywhere inside the call, `Abandon` is the death of its
process.  The node is modelled from how the code uses it: a pool in which a
transaction replaces another of the same nonce, `Mine` and `Evict`.  Gas prices
are left out, so a replacement may always succeed or always be refused.
`Target` is what the configured address points to: the contract, a wallet (a
transaction to it has status 1 and does nothing), or no address.

**TriageBot** is `handle_report` around it.  An update is a number, its hash on the
chain too.  The handler awaits only its messages; so `Poll` cannot happen during
triage and relay.  A message whose request fails may have been delivered all the
same.  A crash forgets the queue, the handler and `authorized_users`.  The AI's
answer is a severity and whether its text breaks Telegram's HTML.  The smoke-test
script is the second client of the relay.

**TriageExtension** splits `classificationCount++` into a load and a store and
each critical section into its accesses, so that only the lock keeps them apart.
What an action contains, and how the call to Gemini ends, is named by the first
check that it fails.

**RegisterNode** is `register-tee`.  A machine is the number of the key the TEE has
started with; attestation requests and availability checks are positions in two
sequences, position 0 being the zero hash.  `Confirm` is a transaction whose receipt
`CheckTx` finds, `TimedOut` one that goes through later (`Land`), `Fail` any other
end of the process, also in the middle of writing the file.  `Given` is the id of a
check that `-i` names for a command without `a`: any check's so far.  What the
registry accepts, that a challenge is one-shot, expires and belongs to one machine,
and when the FTDC proves a machine, is taken from the calls and comments of the
tools.

**Preflight** has the checks of `tools/pkg/validate` as functions from a *world*
(what chain, proxies and `extension.env` say) and an *environment* (what `.env`
sets) to a set of results, and `verify-deploy`'s exit code on top.  One operator
stands for each of the functions of checks.go that register a step's checks.

**Deployment** runs the scripts.  An operator's script is the list of the steps
that it still has to do (`Plans`; `full-setup` is the concatenation of the four
phases), so that two operators interleave step by step on one registry, one
`config/extension.env` and one node.  `Transact` is every transaction of the
set-up tools: it goes through, or its tool fails and it is mined all the same, or
not at all; a step that fails ends its script (`set -e`), and what `start-services`
and `setExtensionId` were doing may have happened by then.  Each operation is one
action: `Deploy`, `Register`, `Allow` (the three set-up transactions, each skipped
when there is nothing to do), `Write` (which may be cut off), `Start` with the
two rules for keeping a node that runs (docker compose compares the environment,
e2e.sh looks for a process), `AllowTeeVersion`, `SetTeeGovernance`,
`RegisterTee` (each for the extension that the *proxy* names), `SetExtensionId`
and `Send` (for the sender that the *file* names), and the three steps of
`pause-tee -all-stale`.  Around them an operator may edit the file, change the
key, or stop the services, and the node may crash.  `World` ties the state to
Preflight, so that `verify-deploy` can be asked in every state; its
argument is the set of extensions that R7 fails to read.  What the
registry accepts (`MachineAccepted`, `OwnsNodesExt`) is taken from how the tools
and the tests use it.  `register-tee` is one step here; RegisterNode has it whole.

**TypesServer** is the registry of decoders, its fall-through from a command to
its type, and the four answers of `POST /decode`; a payload is its form.

**InstructionFlow** follows two reports from `run-test` through the chain, the
proxy's queue, the container and back.  `client` is a run's local state, with
`setExtensionId`'s race, the unbounded wait for a transaction and the bounded polls;
a run may also fail after its transaction was mined, and a poll although the answer
exists.  The container is `main`, the extension's server and the node's goroutine:
`main` waits for the server's error channel (`Watch`) or a signal (`Stop`) and does
not learn that the node returned (`NodeReturns`).  What the extension does inside
one action is in TriageExtension; here an action is taken (`Take`) and answered
(`Answer`), or lost with the container.

## 3. Abstract specifications

`RecordService` says what a caller may rely on without knowing of nonces: each
call is answered at most once and leaves at most one record, its own, and
success means that the record is there; a record may also come after a failure.
`ChainRelay` implements it with the identity mapping.

`ExtensionState` has no lock: both fields change together, and a reader gets a
moment's state.  In the mapping `classificationCount` is the counter without the
update that is in progress (`AtomicCount`); the update becomes visible with its
second store.

`RequestReply` says what whoever sends an instruction may rely on: requests get
numbers in the order in which they are accepted, a reply belongs to a request
that was made, and it never changes.  InstructionFlow implements it with
`replies` as the proxy's `results`, `Replies` as the extension's `Answers` and
`NoReply` as the status "pending" of an action without a result.

## 4. The runs

| run | what it covers | bounds | states |
|---|---|---|---|
| `relay` | races of two processes, replacement, eviction, late inclusion, death of a process, failed calls | 3 calls, 1 report of each severity | 259 thousand |
| `bot` | access control, redelivery, crash, failing messages, markup | 2 updates, 2 users, 1 crash, 1 failed request | 2.1 million |
| `bot_live` | every message answered, every severe report alerted, the script beside the bot | 2 updates, 1 script call, no crash | 183 thousand |
| `tee` | two actions and a poller that never stops | 2 actions, 1 reader | 8.6 thousand |
| `registration` | fresh and resumed runs with failures, late transactions, an expired challenge, a restart of the TEE, a promotion with the id of any check | 2 machines, 2 faults, both documented commands and `p` with `-i` | 0.6 million |
| `deployment` | every script in any order beside a second operator who builds; a failed, late or interrupted step, a crash, an edit or a new key; verify-deploy in every state | 2 operators, 2 senders, 2 extensions, 2 machines, 1 fault, docker and local, 4 environments | 0.8 million |
| `roundtrip` | two tests at once, late answers, status 0, a server or a node that fails, a container that is started again | 2 clients of 2 reports, 2 polls, 2 boots, 1 fault | 164 thousand |
| `alert_lost`, `late_record`, `ai_fallback`, `resume_wrong_tee`, `resume_stuck` | violations, see below | | |

*Why the bounds are enough.*  The relay's hazards need two calls that overlap and a
third that follows a failed one; the theorems hold for any number.  The bot's need
one report before and one after a restart or an authorization.  The extension's need
two writers and one reader.  A registration that goes wrong needs one fault to leave
something behind and one more to disturb the run that repairs it.  `MaxAttests` only
stops repeated registrations of a machine that is in production already, and
promotions with `-i` after so many requests.  A deployment that goes wrong needs an
older one to be confused with (two senders, extensions and machines), one fault to
leave it half done, and somebody else at work.  Two polls tell the last from the
others, and two clients are enough for one to get the answer of the other.

*What the properties say.*  `ReturnedIsRecorded` and `LinkedAlertIsRecorded`: a
success, and the link in the officer's alert, are true.  `RecordedOnce`: no call
leaves two records.  `PoolIsNext`: racing processes never leave a nonce gap that
blocks the key.  `FailureBecomesFinal`: once a call is answered and the node holds
nothing of it, neither a transaction nor a record of it appears again.
`NotifiedIsAlerted`, `RecordsAreAuthorized`, `RecordedOncePerDelivery`: what workers
are told is true, only authorized reports cost gas, and restarts are the only source
of duplicates.  `SevereIsAlerted`, `EveryMessageIsAnswered`, `CallsEnd`,
`EveryRequestIsAnswered`: nothing waits for ever.  `CountIsClassified` and
`ImplementsState`: the counter is exact and read together with its severity.
`FileIsOnChain`, `FreshSuccessIsProduction`, `EventuallyInProduction`: the state
file never runs ahead of the chain, a fresh run tells the truth, and running the
tool again is always enough.  `FreshSuccessIsProduction` is of commands with the
steps `a` and `p`: without `a` the id of the check comes from `-i`, nothing compares
it with the machine, and `-command p -i <old check>` promotes one machine and
reports another (registration.go:153-155, main.go:76).

`WrittenExtensionIsSetUp`: whatever failed in whatever script and however two of
them interleaved, a well-formed `extension.env` names an extension that is
completely set up, because the file is written last.  `BoundToFirst`: a sender
stays with its first extension, also after it was registered again.
`MachineServesItsExtension`: no machine in production serves an extension that
its node does not run, although the file and the services may be of different
ages.  `CalmSetupSucceeds`: in docker, with the governance named in `.env`, a
full-setup that nobody disturbs ends in a passing test whatever was left behind.
`PauseSparesCurrent`: the machine that runs is paused only when the proxy did not
answer or something changed after it was asked.  `CleanAuditIsSound` and
`AuditTellsBinding`: when the deployment is not in order, verify-deploy says so.
R7 passes over each extension whose sender it cannot read (checks.go:476-479), so
both quantify over the set of these: `CleanAuditIsSound` holds for all of them,
`AuditTellsBinding` for all but those with the extension of the file or the one that
setExtensionId would take.  With one of these unread R7 answers PASS although the
sender is bound elsewhere, and the claim is false of the code (see the findings).
`PreflightsAgree`: deploy-contract's own pre-flight and D1, D3, D5, which are two
codes, refuse the same worlds.  `StepsAgreeOnLocal`: V2, S10 (T1 is the same
check) and D5 agree on what the documented values of LOCAL_MODE mean; what the
scripts make of it is not part of that.

`PassMeansClassified`: a test that passes has had its own two reports answered,
with the right flags.  `ImplementsRequestReply`: see section 3.  `WireDecodes`:
whatever was on the wire can be shown.  `RunTestEnds`: a run of run-test ends,
whatever becomes of the container.  `ServerFailureEndsContainer`: a server that
fails takes the container down, early or late.

*The violations.*

- `alert_lost`: `notify_safety_officer` sends the AI's text as HTML without
  escaping it (main.py:102-122).  When Telegram refuses it, the report is on the
  chain, the officer hears nothing, and the worker gets no answer, against
  "if Medium+, log on-chain -> alert the safety officer" (main.py:4-5).
- `late_record`: the alert "On-chain logging failed" (main.py:115) can stand
  beside a record that is, or comes, on the chain.
- `ai_fallback`: the extension's README (25-28) promises MEDIUM when the AI
  call fails; extension.go:255-272 and 195-198 fail the action instead.
- `resume_wrong_tee`: the state file does not name its TEE; a resumed run after
  a restart promotes the old machine and prints the id of the new one.
- `resume_stuck`: registration.go:25-26 says that the file lets a registration
  resume after failures; after an expired challenge every resumed run skips the
  step that would ask for a new one and fails.  A file that is cut off by a
  crash has the same effect.  A fresh run recovers from both, as
  `EventuallyInProduction` in `registration` shows.

*Findings without a run.*  PROJECT.json lists further divergences that were met
while modelling and that no run has to show: a pause that spares no machine when
the proxy is silent (`PauseSparesCurrent` names the exception), two defaults of
the governance (`CalmSetupSucceeds` asks for a `.env` that names it), what the
docs say of a second registration, a test client whose comments promise more
patience and more tolerance than it has, a tool that does not compile, a promotion
with somebody else's check (`-i`), R7's silence about entries that it cannot read,
and an error text that takes a transaction to a wallet for one that fails.

Deadlock is checked only in `roundtrip`, whose `Finished` says when nothing is
left to do.  Elsewhere a bot without messages, a server without requests and a
tool that nobody starts rest, and the bounds of a run stop it.

## 5. Fairness

- `RelayFairSpec`: weak fairness of a call's own steps.  HTTP requests have
  timeouts and `wait_for_transaction_receipt` gives up after 120 seconds.
  Nothing is assumed of the node.
- `TriageBot!FairSpec`: the event loop polls and handles.  That Gemini answers
  or the connection fails is an assumption: `classify_incident` has no timeout.
  `bot_live` excludes crashes and failing messages, because with them a report
  may really stay unanswered.
- `TriageExtension!FairSpec`: goroutines run (weak), and `Lock` and `RLock` are
  strongly fair, since a waiting writer of a Go RWMutex stops new readers and
  `Unlock` lets the waiting readers in.
- `RegisterNode!FairSpec`: a run's steps end (CheckTx and the number of polls are
  bounded; that the proxy answers each poll or closes the connection is assumed, for
  the `http.Get` of `ActionResult`, tee_calls.go:93, has no timeout), the FTDC
  proves machines that answer, and the operator tries again, infinitely often with
  and without `--resume` (strong fairness of `Start`).

- `InstructionFlow!FairSpec`: Go schedules `main`'s select and each run's steps;
  the chain mines what it was sent, which the code assumes too (`WaitMined` has
  no timeout); and the proxy answers each GET or closes the connection
  (`http.Get` in `ActionResult`, tee_calls.go:93, has no timeout either).
  `RunTestEnds` rests on both, so it says nothing of a chain or a proxy that hangs.
  Nothing is promised of the container: node and extension may never work.
- `Deployment` states no fairness: its properties are safety and action
  properties, and scripts are started by people.

## 6. What is proved

Eight modules prove what TLC shows on small instances for every value of the
constants: every invariant, every action property and every refinement that a
passing run checks is the statement of a theorem.  Each rests only on the named
assumption of its module (`RelayAssumption`, `BotAssumption`, ...): the sets have
the types that the comments say.  The bounds are constants too, so they may be any
numbers.  Each has an inductive invariant, one lemma per action and a lemma that
combines them; the theorems follow from the invariant.

**ChainRelayProofs**, for every set of clients, every set of records and any
number of calls.  `RelayInv` strengthens the properties by the facts that tie a
transaction to its call: a client inside the function works on a running call of
its own (`CurrentIsRunning`, `OneClientPerCall`), whatever is pending, included
or recorded comes from a call with its arguments (`TxsAreOfCalls`), a call has no
transaction before it sends and one at most afterwards (`OneTxPerCall`), an
included one with status 1 has its record (`OkIsRecorded`), and no nonce lies
ahead of the chain (`NonceIsNotAhead`).  `RecordedOnce` alone is not inductive:
without `OneTxPerCall` a pending transaction of a recorded call could be
included again, and without `NonceIsNotAhead` `PoolIsNext` fails at the next
send.  From it follow `RelayTypeCorrect`, `RecordsAreUnique`, `NoNonceGap`, the
action property `FailureIsFinal`, the refinement `RelayImplementsService` and,
through the refinement, `ReturnedCallsAreRecorded`.  The last two need that the
address is not a wallet's; with a wallet they are false.

**TriageBotProofs**, for every set of users and assessments and any number of
updates, crashes, failed requests and runs of the script.  It uses the relay's
invariant and its lemmas as they are: `RelayMoves` says what a step of the relay
leaves alone, and the handler's lemmas build on that.  `BotInv` adds that a
record has the arguments of its call (`RecordsOfCalls`), that each call was made
for a new message whose user had been authorized *before* it
(`CallsAreAuthorized`, `AuthorizedHaveEarned`), and that the handler's locals
agree with its update, its call and the chain (`HandlerInv`).
`RecordsAreAuthorized` alone is not inductive, for it says nothing of the calls
whose transactions are still pending.  Theorems: `BotTypeCorrect`,
`OnlyAuthorizedReports`, `NotifiedIsTrue`, `LinkLeadsToRecord` (not with a
wallet's address) and `OneRecordPerDelivery`.  The last counts: there is one call
per update and life of the process (`CallsAreFew`), and the records of an update
map one to one into its calls.  The module also carries the relay's promises over
to where the relay is used: whatever the bot, its crashes, the script and the node
do is a step of the relay or leaves it alone (`BotStepIsRelayStep`), so that
`BotLeavesNoGap`, `BotFailureIsFinal`, `BotReturnsRecorded` and the refinement
`BotImplementsService` follow from the lemmas that prove them of the relay alone.

**TriageExtensionProofs**, for every finite set of actions and every set of
readers.  `ExtensionInv` says that the lock is held by exactly the goroutines in
their critical sections (`Locked`), that what they have read is still true
(`LoadedIsCurrent`), and that the count is exact.  `CountIsClassified` alone is
not inductive: a stale loaded value breaks it.  From it follow `TypeCorrect`,
`CountIsExact` and the refinement `ExtensionImplementsState`.

**RegisterNodeProofs**, for every set of commands and any number of machines,
failures, late transactions and restarts.  `RegisterInv` says of the file *and* of
the run's memory that they claim no more than the chain knows (`Claims`;
`FileIsOnChain` alone breaks at the next save), that only registered machines are
attested or checked (`RegistryInv`), that no promotion is under way without a check
(`LateInv`), and that a run which began without a file, and asks for a check itself,
only holds a check of its own machine (`OwnCheck` in `RunInv`): that is what a
resumed run lacks, as `resume_wrong_tee` shows, and a run without `a`, which holds
what `-i` says.  So the last of the theorems speaks of the commands with `a` and
`p`.  Theorems: `RegisterTypeCorrect`, `FileNeverAhead`, `FreshRunsTellTheTruth`.

**DeploymentProofs**, for any number of operators, extensions, senders, machines
and faults, and every choice of the scripts that are run.  The properties speak
of the registry and the file; the scripts' progress is what makes them
inductive.  `Planned` says which step precedes which in what a script still has
to do, `Prepared` that the extension of a script is as far set up as the step at
hand relies on.  Other scripts only add to the registry (`ExtsGrow`), so they
preserve it.  `FirstExists` is needed because the registry's search stops at
the first extension of a sender; it takes the place of the least-number
principle, which the provers cannot instantiate.  `MachinesAreCounted` says that
a node that starts is a new machine.  Theorems: `DeploymentTypeCorrect`,
`WrittenIsSetUp`, `SendersAreBoundToFirst`, `MachinesServeOneExtension`.

**InstructionFlowProofs**, for every number of runs, polls, boots and faults and
every answer that Gemini may give.  `FlowInv` says that an instruction that waits
or is worked on is unanswered and is only one of the two (`OpenIsUnanswered`),
that an answer fits the report of its instruction (`AnswersAreHonest`), and that
a run polls for an instruction of its own and holds what the proxy holds
(`Honest`).  Theorems: `FlowTypeCorrect`, `PassedIsClassified` and the refinement
`FlowImplementsRequestReply`.  `WireAlwaysDecodes` joins it to TypesServer: each
answer in `results` has the form that one registered decoder takes, or has no
data.  `RunsAreBounded` is the half of `RunTestEnds` that needs no fairness:
`Left`, a bound on the steps that a run still has, falls with each of its steps
and never rises, so that a run takes at most `2 * Repeats + 8` of them.

**AuditProofs**, on top of `DeploymentInv`, for every environment that
verify-deploy is run in.  Most of it is about `Preflight`'s functions, without
steps: which check fails in which world.  That the checks fail when they should
also depends on what the world may be, and `NamesExist` says it.  R2 is left out
when the sender of the file is malformed, and then only D7 fails, which is asked of
a file that exists; so a file that names an extension has to be there
(`FileIsThere`).  R7 counts the extensions of a sender, while setExtensionId takes
the first; so every extension has to have a sender that was deployed
(`SendersExist`).  The rest of `NamesExist` (no script names a sender, and neither
file nor node an extension, that is still to come) makes a new one differ from
all that are named, which ScriptProofs needs.  It is inductive together with
`DeploymentInv`.  Theorems: `NamesAlwaysExist`, `AuditsAreSound`,
`AuditsTellBinding` (which needs `BoundToFirst` and `FirstExists` too, and leaves
out the audits that could not read the extension of the file or the bound one;
`AuditsAreSound` is of every set of unread entries),
`PreflightsAlwaysAgree`,
`StepsAlwaysAgreeOnLocal`.  The last two hold of every world, reachable or not;
TLC asks them of the initial one.

**ScriptProofs**, on top of both, about whole scripts.  `OrderedScript` says that
what a script has left to do is a tail of what it was (`Following` is the order
in which the scripts write their steps), and `ScriptInv` says for each step what
an undisturbed full-setup finds there (`Ready`): its sender is bound to nothing
and is the sender of one extension, the file names the two, the node runs that
extension with the governance of `.env`, the machine is in production.  A step of
somebody else ends the calm, and then `ScriptInv` asks nothing any more, so that
the proof has two parts: a script's own step leads from `Ready` of this step to
`Ready` of the following one, and every other step either disturbs the script or
leaves what it relies on alone.  For pause-tee, `CalmPause` says that the current
machine is never among the stale ones, and that it is the one which runs while
nothing else has moved.  Theorems: `ScriptsArePrepared`, `CalmSetupsSucceed`,
`PausesSpareCurrent`.

*Only model-checked.*  The liveness properties (`CallsEnd`, `SevereIsAlerted`,
`EveryMessageIsAnswered`, `EveryRequestIsAnswered`, `EventuallyInProduction`,
`RunTestEnds`, `ServerFailureEndsContainer`), since the
proof system treats neither fairness nor ENABLED.  The violations are TLC's
counterexamples.

## 7. Plan

What is left, in this order.

1. **pause-tee -teeId** in `Deployment`: it pauses one machine that the operator
   names.  (`audit-deploy` only reads the chain and prints; it has no verdict and
   no exit code that another step looks at.)
2. **PolicyCheck**: the window of signing policies as arithmetic over epochs, with
   the epoch changing while `register-tee` runs.
3. **Sequencer**: the lock file of `testing/scripts/sequencer.sh`, whose timeout
   lets two agents run; what two operators do to one deployment is in
   `Deployment` already.

## 8. What is not modelled

- Hashing, prompts, HTML beyond "Telegram accepts it or not", gas, and the wording
  of messages and of the fixes that `validate` proposes: data that no property
  tells apart.  The bytes of a decoder's payload are reduced to their form.
- Chain reorganisations: the code takes a receipt as final.
- The choice of a chain (`use-chain.sh`, `NETWORKS`), builds and images: one chain
  and one image are assumed.  The address of the state verifier is a constant.
- The local proxy, `query-tee` and the starter of `test-types-server`: processes
  that other modules use, with no state of their own in this repository.
- `audit-deploy`'s printing and `pause-tee -teeId` (section 7).
- The scripts that drive agents in tmux sessions: they type commands and wait.
- Generated bindings and the landing page keep no state.
- Telegram commands never reach the handler.  `-command` values other than `rap`,
  `rRap` and `p` are in the module (`Skip`, `Given`, and the proofs) and in no run.
- A message that was edited: the handler raises before it looks at it
  (`IgnoreEdit`), and no property says what should become of the correction.
- What the scripts make of LOCAL_MODE: whether a deployment is local is chosen
  at the start (`Hosts`), and Preflight has the checks that read the variable.
