----------------------------- MODULE Deployment -----------------------------
(***************************************************************************)
(* The deployment scripts of the scaffold and the tools they call:         *)
(*   pre-build    deploy-contract deploys the InstructionSender,           *)
(*                register-extension registers an extension for it and     *)
(*                sets it up by three more transactions, and the ids go to *)
(*                config/extension.env;                                    *)
(*   start        the TEE node comes up for the extension of the file, in  *)
(*                docker (recreated when the file has changed) or as a     *)
(*                local process (kept when one is running);                *)
(*   post-build   allow-tee-version, set-governance and register-tee, each *)
(*                for the extension that the proxy names, not the file;    *)
(*   test         setExtensionId on the sender of the file, then an        *)
(*                instruction to a machine of the extension it found;      *)
(* full-setup is all four.  An operator may also register the same sender  *)
(* by hand, edit the file, change the deployment key, stop the services,   *)
(* or pause the stale machines.  Operators share the chain, the file and   *)
(* the services; any transaction may fail, or be mined after its tool has  *)
(* given up; the node may crash, and comes back as another machine.        *)
(*                                                                         *)
(* Extensions and senders are numbered as they come.  register-tee is one  *)
(* step here; RegisterNode has the whole of it.                            *)
(***************************************************************************)
EXTENDS Preflight

CONSTANTS
  Operators,
  Scripts,           \* the scripts that each of them runs
  Hosts,             \* how the services are set up: [mode, dotenv]
  Environments,      \* the environments that verify-deploy is run in
  MaxSenders, MaxExts, MaxTees, MaxFaults       \* bounds (model checking only)

ASSUME DeploymentAssumption ==
  /\ Hosts \subseteq [mode : {"docker", "local"}, dotenv : {"owner", "nothing"}]
  /\ MaxSenders \in Nat /\ MaxExts \in Nat /\ MaxTees \in Nat /\ MaxFaults \in Nat

VARIABLES
  exts,         \* the registry's extensions, by their ids
  bound,        \* _extensionId of each InstructionSender; 0: not set
  active,       \* machines in production: [tee, ext]
  mode,         \* "docker", or "local" for --local
  dotenv,       \* what .env says of the governance: "owner" (INITIAL_OWNER or
                \* GOVERNANCE_SIGNERS is set) or "nothing"
  key,          \* the deployment key
  node,         \* the TEE node: up, machine, extension, governance
  tees,         \* the machines that there have been
  file,         \* extension.env, and whether someone has edited it
  run,          \* each operator's script: the steps it still has to do, its
                \* variables, whether it is a full-setup, and whether nothing
                \* has disturbed it
  faults        \* counted to bound them

vars == <<exts, bound, active, mode, dotenv, key, node, tees, file, run, faults>>
chainVars == <<exts, bound, active>>
hostVars  == <<mode, dotenv, key, node, tees, file>>

Keys        == {"key A", "key B"}
Governances == {"none", "owner", "compose default"} \cup Keys
Senders     == 1 .. Len(bound)

PreBuild  == <<"deploy", "register", "owners", "projects", "keys", "write">>
PostBuild == <<"version", "governance", "machine">>
Test      == <<"bind", "send">>
Plans == [setup |-> PreBuild \o <<"start">> \o PostBuild \o Test,
          prebuild |-> PreBuild, hand |-> Tail(PreBuild), start |-> <<"start">>,
          postbuild |-> PostBuild, test |-> Test, stop |-> <<"stop">>,
          pause |-> <<"look", "list", "pause">>]
Names == DOMAIN Plans
Idle  == [full |-> FALSE, todo |-> <<>>, sender |-> 0, ext |-> 0, key |-> "key A",
          current |-> 0, stale |-> {}, calm |-> TRUE]

TypeOK ==
  /\ exts \in Seq([sender : Nat \ {0}, by : Keys, owners : SUBSET Keys, projects : SUBSET Keys,
                   keyed : BOOLEAN, version : BOOLEAN, governance : Governances])
  /\ bound \in Seq(Nat)
  /\ active \subseteq [tee : Nat, ext : Nat]
  /\ mode \in {"docker", "local"} /\ dotenv \in {"owner", "nothing"} /\ key \in Keys
  /\ node \in [up : BOOLEAN, tee : Nat, ext : Nat, governance : Governances]
  /\ tees \in Nat
  /\ file \in [exists : BOOLEAN, ext : Int, sender : Int, edited : BOOLEAN]
  /\ run \in [Operators -> [full : BOOLEAN, todo : Seq(UNION {{Plans[p][i] : i \in DOMAIN Plans[p]} : p \in Names}),
                            sender : Nat, ext : Nat, key : Keys,
                            current : Nat, stale : SUBSET Nat, calm : BOOLEAN]]
  /\ faults \in Nat

Init ==
  /\ exts = <<>> /\ bound = <<>> /\ active = {}
  /\ \E h \in Hosts : mode = h.mode /\ dotenv = h.dotenv
  /\ key = "key A"
  /\ node = [up |-> FALSE, tee |-> 0, ext |-> 0, governance |-> "none"] /\ tees = 0
  /\ file = [exists |-> FALSE, ext |-> Absent, sender |-> Absent, edited |-> FALSE]
  /\ run = [o \in Operators |-> Idle]
  /\ faults = 0

Fault == faults < MaxFaults /\ faults' = faults + 1

\* A step of o goes through or ends o's script; it disturbs the others', which
\* is followed for the scripts that a property asks it of.
Disturbed(r)  == [r EXCEPT !.calm = @ /\ ~(r.full \/ "pause" \in {r.todo[i] : i \in DOMAIN r.todo})]
Becomes(o, r) == run' = [p \in Operators |-> IF p = o THEN r ELSE Disturbed(run[p])]
At(o, step)   == run[o].todo # <<>> /\ Head(run[o].todo) = step
Done(o, r)    == Becomes(o, IF Len(r.todo) = 1 THEN Idle ELSE [r EXCEPT !.todo = Tail(@)])
Abort(o)      == Becomes(o, Idle)
Disturb       == run' = [o \in Operators |-> Disturbed(run[o])]

\* Mutant: a transaction that fails is only a warning.
TransactWarns(o, new) ==
  \/ exts' = new /\ Done(o, run[o]) /\ UNCHANGED faults
  \/ exts' \in {exts, new} /\ Done(o, run[o]) /\ Fault

\* A transaction that makes the extensions into new: it is mined, and CheckTx
\* finds its receipt; or the tool fails, and it is mined all the same or not.
Transact(o, new) ==
  \/ exts' = new /\ Done(o, run[o]) /\ UNCHANGED faults
  \/ exts' \in {exts, new} /\ Abort(o) /\ Fault

-----------------------------------------------------------------------------
(* pre-build, and register-extension by hand *)

\* deploy-contract, its pre-flight included: the address goes to the script.
Deploy(o) ==
  /\ At(o, "deploy") /\ Len(bound) < MaxSenders
  /\ bound' = Append(bound, 0)
  /\ \/ Done(o, [run[o] EXCEPT !.sender = Len(bound')]) /\ UNCHANGED faults
     \/ Abort(o) /\ Fault
  /\ UNCHANGED <<exts, active, hostVars>>

DeployFails(o) ==
  /\ At(o, "deploy") /\ Abort(o) /\ Fault
  /\ UNCHANGED <<chainVars, hostVars>>

Registered(s) ==
  [sender |-> s, by |-> key, owners |-> {}, projects |-> {}, keyed |-> FALSE,
   version |-> FALSE, governance |-> "none"]

\* registerExtension always registers: there is no check for an extension that
\* the sender has already.  The deployer is the owner.
Register(o) ==
  /\ At(o, "register") /\ Len(exts) < MaxExts
  /\ exts' = Append(exts, Registered(run[o].sender))
  /\ \/ /\ Done(o, [run[o] EXCEPT !.ext = Len(exts'), !.key = key])
        /\ UNCHANGED faults
     \/ Abort(o) /\ Fault
  /\ UNCHANGED <<bound, active, hostVars>>

\* The transaction fails; the registry may also refuse a second extension for
\* one sender (the harness's edge cases and tests differ on it).
RegisterFails(o) ==
  /\ At(o, "register") /\ Abort(o)
  /\ \/ Fault
     \/ (\E i \in DOMAIN exts : exts[i].sender = run[o].sender) /\ UNCHANGED faults
  /\ UNCHANGED <<chainVars, hostVars>>

\* allowTeeMachineOwners, allowTeeProjectManagerOwners and AddSupportedKeyTypes,
\* for the deployer; each is skipped when the registry has it already.
Allow(o) ==
  LET r == run[o] IN
  /\ \/ At(o, "owners")   /\ Transact(o, [exts EXCEPT ![r.ext].owners   = @ \cup {r.key}])
     \/ At(o, "projects") /\ Transact(o, [exts EXCEPT ![r.ext].projects = @ \cup {r.key}])
     \/ At(o, "keys")     /\ Transact(o, [exts EXCEPT ![r.ext].keyed    = TRUE])
  /\ UNCHANGED <<bound, active, hostVars>>

\* The ids go to the file, which a script that dies may leave cut off.
Write(o) ==
  /\ At(o, "write")
  /\ \/ /\ file' = [exists |-> TRUE, ext |-> run[o].ext, sender |-> run[o].sender, edited |-> FALSE]
        /\ Done(o, [Idle EXCEPT !.full = run[o].full, !.todo = run[o].todo, !.calm = run[o].calm])
        /\ UNCHANGED faults
     \/ /\ file' \in [exists : {TRUE}, ext : {Absent, Malformed}, sender : {Absent}, edited : {FALSE}]
                     \cup [exists : {TRUE}, ext : {run[o].ext}, sender : {Absent, Malformed}, edited : {FALSE}]
        /\ Abort(o) /\ Fault
  /\ UNCHANGED <<chainVars, mode, dotenv, key, node, tees>>

-----------------------------------------------------------------------------
(* The services *)

\* What the node signs with: docker-compose.yaml has a default of its own, and
\* start-tee takes the deployer.
NodeGovernance ==
  CASE dotenv # "nothing" -> dotenv
    [] dotenv = "nothing" /\ mode = "docker" -> "compose default"
    [] OTHER -> key

\* What set-governance registers (EXTENSION_OWNER_KEY is not set).
ToolGovernance == IF dotenv # "nothing" THEN dotenv ELSE key

NewNode == [up |-> TRUE, tee |-> tees + 1, ext |-> file.ext, governance |-> NodeGovernance]

\* Mutant: docker compose keeps a container whose environment has changed.
KeepsAnyNode == node.up

\* docker compose keeps a container whose environment has not changed, and
\* e2e.sh a process that is running.
KeepsNode == node.up /\ (mode = "docker" => node.ext = file.ext)

\* Mutant: any file will do.
StartableAny == file.exists

\* start-services needs an id, and the node one that parses.
Startable == WellFormed(file.ext)

\* start-services only warns when /info does not have the id of the file; it gives
\* up when a health check fails, with the node there or not.
Start(o) ==
  /\ At(o, "start") /\ Startable
  /\ \/ KeepsNode /\ UNCHANGED <<node, tees>>
     \/ /\ ~KeepsNode /\ tees < MaxTees
        /\ node' = NewNode /\ tees' = tees + 1
  /\ \/ Done(o, run[o]) /\ UNCHANGED faults
     \/ Abort(o) /\ Fault
  /\ UNCHANGED <<chainVars, mode, dotenv, key, file>>

\* No id in the file, or one that the node does not take; or the services are left
\* as they were.
StartFails(o) ==
  /\ At(o, "start") /\ Abort(o)
  /\ IF Startable THEN Fault ELSE UNCHANGED faults
  /\ UNCHANGED <<chainVars, hostVars>>

Stop(o) ==
  /\ At(o, "stop")
  /\ node' = [node EXCEPT !.up = FALSE] /\ Done(o, run[o])
  /\ UNCHANGED <<chainVars, mode, dotenv, key, tees, file, faults>>

Crash ==
  /\ node.up /\ node' = [node EXCEPT !.up = FALSE]
  /\ Fault /\ Disturb
  /\ UNCHANGED <<chainVars, mode, dotenv, key, tees, file>>

-----------------------------------------------------------------------------
(* post-build: every tool asks the proxy for the extension *)

OwnsNodesExt == node.up /\ exts[node.ext].by = key

\* allow-tee-version, skipped when the version is there.
AllowTeeVersion(o) ==
  /\ At(o, "version") /\ node.up /\ (exts[node.ext].version \/ OwnsNodesExt)
  /\ Transact(o, [exts EXCEPT ![node.ext].version = TRUE])
  /\ UNCHANGED <<bound, active, hostVars>>

\* set-governance, skipped when the hash is the same.
SetTeeGovernance(o) ==
  /\ At(o, "governance") /\ node.up
  /\ exts[node.ext].governance = ToolGovernance \/ OwnsNodesExt
  /\ Transact(o, [exts EXCEPT ![node.ext].governance = ToolGovernance])
  /\ UNCHANGED <<bound, active, hostVars>>

\* The registry takes a machine of an allowed owner, version and governance.
MachineAccepted ==
  /\ node.up
  /\ key \in exts[node.ext].owners
  /\ exts[node.ext].version
  /\ exts[node.ext].governance = node.governance

\* Mutant: the machine is registered for the extension of the file.
RegisterTeeOfFile(o) ==
  /\ At(o, "machine") /\ MachineAccepted
  /\ \/ /\ active' = active \cup {[tee |-> node.tee, ext |-> file.ext]}
        /\ Done(o, run[o]) /\ UNCHANGED faults
     \/ /\ active' \in {active, active \cup {[tee |-> node.tee, ext |-> file.ext]}}
        /\ Abort(o) /\ Fault
  /\ UNCHANGED <<exts, bound, hostVars>>

RegisterTee(o) ==
  /\ At(o, "machine") /\ MachineAccepted
  /\ \/ /\ active' = active \cup {[tee |-> node.tee, ext |-> node.ext]}
        /\ Done(o, run[o]) /\ UNCHANGED faults
     \/ /\ active' \in {active, active \cup {[tee |-> node.tee, ext |-> node.ext]}}
        /\ Abort(o) /\ Fault
  /\ UNCHANGED <<exts, bound, hostVars>>

\* The proxy does not answer, or the registry refuses.
PostBuildFails(o) ==
  /\ \/ At(o, "version")    /\ ~(node.up /\ (exts[node.ext].version \/ OwnsNodesExt))
     \/ At(o, "governance") /\ ~(node.up /\ (exts[node.ext].governance = ToolGovernance \/ OwnsNodesExt))
     \/ At(o, "machine")    /\ ~MachineAccepted
  /\ Abort(o)
  /\ UNCHANGED <<chainVars, hostVars, faults>>

-----------------------------------------------------------------------------
(* test: run-test, and the InstructionSender *)

OfSender(s) == {i \in DOMAIN exts : exts[i].sender = s}

\* Mutant: the search goes on to the last extension of the sender.
LastOfSender(s) == CHOOSE i \in OfSender(s) : \A j \in OfSender(s) : j <= i

FoundBy(s) == CHOOSE i \in OfSender(s) : \A j \in OfSender(s) : i <= j

\* setExtensionId finds the first extension whose sender is this contract, once;
\* "already set" is no failure.  The tool may fail although it is mined.
SetExtensionId(o) ==
  /\ At(o, "bind") /\ file.sender \in Senders
  /\ \/ bound[file.sender] # 0 /\ UNCHANGED bound
     \/ bound[file.sender] = 0 /\ OfSender(file.sender) # {}
        /\ bound' = [bound EXCEPT ![file.sender] = FoundBy(file.sender)]
  /\ \/ Done(o, [run[o] EXCEPT !.sender = file.sender]) /\ UNCHANGED faults
     \/ Abort(o) /\ Fault
  /\ UNCHANGED <<exts, active, hostVars>>

SetExtensionIdFails(o) ==
  /\ At(o, "bind") /\ Abort(o)
  /\ IF file.sender \in Senders /\ (bound[file.sender] # 0 \/ OfSender(file.sender) # {})
       THEN Fault ELSE UNCHANGED faults
  /\ UNCHANGED <<chainVars, hostVars>>

Machines(s) == {m \in active : m.ext = bound[s]}
Answers(m)  == node.up /\ m.tee = node.tee

\* The instruction goes to a random machine of the sender's extension, and the
\* test passes when that machine is there to answer.
Send(o) ==
  /\ At(o, "send")
  /\ \E m \in Machines(run[o].sender) : Answers(m)
  /\ Done(o, run[o])
  /\ UNCHANGED <<chainVars, hostVars, faults>>

SendFails(o) ==
  /\ At(o, "send") /\ Abort(o)
  /\ IF Machines(run[o].sender) # {} /\ \A m \in Machines(run[o].sender) : Answers(m)
       THEN Fault ELSE UNCHANGED faults
  /\ UNCHANGED <<chainVars, hostVars>>

-----------------------------------------------------------------------------
(* pause-tee -all-stale, with the extension of the file *)

\* The proxy says which machine is current; without an answer the tool warns and
\* goes on with the zero address.
Look(o) ==
  /\ At(o, "look") /\ WellFormed(file.ext)
  /\ \/ node.up /\ Done(o, [run[o] EXCEPT !.current = node.tee, !.ext = file.ext]) /\ UNCHANGED faults
     \/ Done(o, [run[o] EXCEPT !.current = 0, !.ext = file.ext])
        /\ IF node.up THEN Fault ELSE UNCHANGED faults
  /\ UNCHANGED <<chainVars, hostVars>>

\* Mutant: every active machine of the extension is stale.
StaleIsAll(o) == {m.tee : m \in {a \in active : a.ext = run[o].ext}}

StaleOf(o) == {m.tee : m \in {a \in active : a.ext = run[o].ext}} \ {run[o].current}

List(o) ==
  /\ At(o, "list")
  /\ Becomes(o, IF StaleOf(o) = {} THEN Idle
                ELSE [run[o] EXCEPT !.stale = StaleOf(o), !.todo = Tail(@)])
  /\ UNCHANGED <<chainVars, hostVars, faults>>

\* One transaction for each; one that is paused already ends the tool.
Pause(o, tee) ==
  /\ At(o, "pause") /\ tee \in run[o].stale
  /\ LET paused == {m \in active : m.tee = tee}
         rest   == run[o].stale \ {tee}
     IN \/ /\ paused # {} /\ active' = active \ paused
           /\ Becomes(o, IF rest = {} THEN Idle ELSE [run[o] EXCEPT !.stale = rest])
           /\ UNCHANGED faults
        \/ paused # {} /\ active' \in {active, active \ paused} /\ Abort(o) /\ Fault
        \/ paused = {} /\ UNCHANGED <<active, faults>> /\ Abort(o)
  /\ UNCHANGED <<exts, bound, hostVars>>

LookFails(o) ==
  /\ At(o, "look") /\ ~WellFormed(file.ext) /\ Abort(o)
  /\ UNCHANGED <<chainVars, hostVars, faults>>

-----------------------------------------------------------------------------
\* The operator starts a script; by hand, for any sender there is.
Begin(o, plan) ==
  /\ run[o].todo = <<>> /\ plan \in Scripts[o]
  /\ plan \in {"setup", "prebuild"} => Len(bound) < MaxSenders /\ Len(exts) < MaxExts
  /\ \E s \in IF plan = "hand" THEN Senders ELSE {0} :
       run' = [run EXCEPT ![o] = [Idle EXCEPT !.full = (plan = "setup"), !.todo = Plans[plan], !.sender = s]]
  /\ plan = "hand" => Len(exts) < MaxExts
  /\ UNCHANGED <<chainVars, hostVars, faults>>

\* The file is edited: another extension's id, or what is no id.
EditFile ==
  /\ file.exists
  /\ file' \in {[file EXCEPT !.ext = id, !.edited = TRUE] : id \in DOMAIN exts \cup {Malformed}}
  /\ Fault /\ Disturb
  /\ UNCHANGED <<chainVars, mode, dotenv, key, node, tees>>

SwapKey ==
  /\ key' = "key B" /\ key = "key A"
  /\ Fault /\ Disturb
  /\ UNCHANGED <<chainVars, mode, dotenv, node, tees, file>>

Work(o) ==
  \/ Deploy(o) \/ DeployFails(o) \/ Register(o) \/ RegisterFails(o) \/ Allow(o) \/ Write(o)
  \/ Start(o) \/ StartFails(o) \/ Stop(o)
  \/ AllowTeeVersion(o) \/ SetTeeGovernance(o) \/ RegisterTee(o) \/ PostBuildFails(o)
  \/ SetExtensionId(o) \/ SetExtensionIdFails(o) \/ Send(o) \/ SendFails(o)
  \/ Look(o) \/ LookFails(o) \/ List(o) \/ \E tee \in run[o].stale : Pause(o, tee)

Next ==
  \/ \E o \in Operators : Work(o) \/ \E plan \in Names : Begin(o, plan)
  \/ Crash \/ EditFile \/ SwapKey

Spec == Init /\ [][Next]_vars

-----------------------------------------------------------------------------
(* What the file says *)

\* An extension.env that nobody has edited names an extension that is set up
\* completely, with the sender that it names, whatever failed in whatever script
\* and however two of them interleaved (extension.go, pre-build.sh).
WrittenExtensionIsSetUp ==
  WellFormed(file.ext) /\ ~file.edited =>
    /\ file.ext \in DOMAIN exts
    /\ WellFormed(file.sender) => exts[file.ext].sender = file.sender
    /\ exts[file.ext].by \in exts[file.ext].owners \cap exts[file.ext].projects
    /\ exts[file.ext].keyed

-----------------------------------------------------------------------------
(* What the sender, the machines and the scripts do *)

\* A sender is bound for good to the first extension that names it, also when
\* the same sender is registered again later (InstructionSender.sol).
BoundToFirst ==
  \A s \in Senders : bound[s] # 0 =>
    bound[s] \in OfSender(s) /\ \A i \in OfSender(s) : bound[s] <= i

\* A machine in production serves one extension, the one that its node runs: an
\* instruction never reaches a node of another extension, also when the services
\* are older than extension.env (post-build.sh asks the proxy, test.sh the file).
MachineServesItsExtension ==
  /\ \A m, n \in active : m.tee = n.tee => m.ext = n.ext
  /\ \A m \in active : m.tee = node.tee => m.ext = node.ext

\* In docker, with the governance configured, a full-setup that nothing disturbs
\* goes through to a test that passes, whatever was left behind by the scripts
\* before it: old services, stale machines, half an extension.env, another key.
CalmSetupSucceeds ==
  [][\A o \in Operators :
       /\ run[o].full /\ run[o].todo # <<>> /\ run[o].calm
       /\ mode = "docker" /\ dotenv # "nothing"
       /\ run'[o].todo = <<>> /\ faults' = faults
       => At(o, "send") /\ \E m \in Machines(run[o].sender) : Answers(m)]_vars

\* pause-tee stops the machine that is running only when the proxy did not
\* answer, or something changed after the proxy was asked.
PauseSparesCurrent ==
  [][\A m \in active \ active' :
       node.up /\ m.tee = node.tee =>
         \E o \in Operators : /\ At(o, "pause") /\ m.tee \in run[o].stale
                              /\ run[o].current = 0 \/ ~run[o].calm]_vars

-----------------------------------------------------------------------------
(* What verify-deploy says of it *)

\* unread: the extensions whose sender R7 asks for in vain.
World(unread) ==
  [dial |-> TRUE, rpc |-> TRUE, zero |-> FALSE, code |-> TRUE, funds |-> TRUE,
   file |-> [exists |-> file.exists, ext |-> file.ext, sender |-> file.sender],
   senders |-> [i \in DOMAIN exts |-> exts[i].sender],
   owned |-> {i \in DOMAIN exts : key \in exts[i].owners},
   keyed |-> {i \in DOMAIN exts : exts[i].keyed},
   unread |-> unread, port |-> node.up /\ mode = "local", proxy |-> node.up, normal |-> TRUE]

\* An operator runs verify-deploy between two scripts, whatever others do.
SomeoneAudits == \E o \in Operators : run[o].todo = <<>>

FileIsInOrder ==
  /\ file.ext \in DOMAIN exts /\ exts[file.ext].sender = file.sender
  /\ key \in exts[file.ext].owners /\ exts[file.ext].keyed

\* Unless the extension of the file is on the chain, with the sender of the file,
\* EVM keys and machines that the deployer of now may own, verify-deploy finds a
\* failure, whatever R7 could not read.
CleanAuditIsSound ==
  SomeoneAudits /\ ~FileIsInOrder =>
    \A e \in Environments, unread \in SUBSET DOMAIN exts :
      e.config => ~ExitsClean("all", {}, World(unread), e)

BindsToFile ==
  /\ OfSender(file.sender) # {} /\ FoundBy(file.sender) = file.ext
  /\ bound[file.sender] \in {0, file.ext}

\* Unless setExtensionId binds the sender of the file to the extension of the
\* file, or has, the register step fails or its R7 has something to say; but R7
\* passes over what it cannot read (checks.go:476-479), and says so to nobody.
\* So this is of audits that read the two extensions at issue, whatever else
\* they could not read.
AuditTellsBinding ==
  SomeoneAudits /\ ~BindsToFile =>
    \A e \in Environments, unread \in SUBSET DOMAIN exts :
      LET w == World(unread) IN
      /\ ExitsClean("register", {}, w, e)
      /\ \E r \in RegisterRegistrationChecks(w, e) : r.id = "R2"
      /\ file.ext \notin unread /\ FoundBy(file.sender) \notin unread
      => \E r \in Report("register", {"R7"}, w, e) : r.status # "PASS"

\* verify-deploy and the pre-flight of deploy-contract, two codes for the same
\* three checks, refuse the same worlds.  (Asked before the first deployment:
\* neither of them reads what the scripts change.)
PreflightsAgree ==
  bound = <<>> =>
  \A e \in Environments, dial, rpc, zero, code, funds \in BOOLEAN :
    LET w == [World({}) EXCEPT !.dial = dial, !.rpc = rpc, !.zero = zero, !.code = code, !.funds = funds]
    IN DeployContractPreflight(w) <=> ExitsClean("deploy", {"D1", "D3", "D5"}, w, e)

\* The steps agree on what LOCAL_MODE says, for its documented values: where the
\* deployer's key is missed, the extension owner's is missed, and the proxy's.
\* (Asked before the first deployment, too.)
StepsAgreeOnLocal ==
  bound = <<>> =>
  \A e \in {d \in Environments : d.localMode \in {"", "true", "false"}} :
    LET deployer == CheckDeployerKeySource(e).status
    IN /\ ~e.ownerKey => OwnerKeyCheck(e).status = deployer
       /\ e.proxyKey = e.deployKey => ProxyKeyCheck(e).status = deployer
=============================================================================
