----------------------------- MODULE Preflight -----------------------------
(***************************************************************************)
(* tools/pkg/validate and tools/cmd/verify-deploy: the checks that an      *)
(* operator runs before and after each step of a deployment, as functions  *)
(* from a world (what the chain, the proxies and config/extension.env say) *)
(* and an environment (what .env sets) to a report: a set of results, each *)
(* with the id and the name of its check and PASS, WARN, FAIL or SKIP.     *)
(*                                                                         *)
(* A world is a record:                                                    *)
(*   dial         the tool reaches the chain when it starts                *)
(*   rpc          the chain answers its later queries                      *)
(*   zero, code   FlareTeeManager's address is zero; there is code there   *)
(*   funds        the deployer has the minimum balance                     *)
(*   file         extension.env                                            *)
(*   senders      the instruction sender of each extension, by its id      *)
(*   owned, keyed the extensions whose machine owners have the deployer,   *)
(*                and those that support EVM keys                          *)
(*   unread       the extensions that R7's scan fails to read              *)
(*   port, proxy, normal       the extension's port is in use; the two     *)
(*                proxies answer /info with 200                            *)
(* and so is an environment: config (-config is given), localMode, and for *)
(* the rest whether the variable is set (simulated: to "true").            *)
(***************************************************************************)
EXTENDS Integers, FiniteSets, Sequences

Statuses == {"PASS", "WARN", "FAIL", "SKIP"}

\* A value of extension.env: positive when it matches its regular expression.
Absent    == 0
Malformed == -1
WellFormed(value) == value > 0
NoFile == [exists |-> FALSE, ext |-> Absent, sender |-> Absent]

CheckResult(id, name, status) == [id |-> id, name |-> name, status |-> status]
PassOr(status, ok) == IF ok THEN "PASS" ELSE status
When(condition, results) == IF condition THEN results ELSE {}

\* The registry's next id: the public ids are 1, 2, ... here, and 0 stands for
\* those below FIRST_PUBLIC_EXTENSION_ID.
NextPublicExtensionId(w) == Len(w.senders) + 1
SenderOf(w, id) == IF id \in DOMAIN w.senders THEN w.senders[id] ELSE 0

-----------------------------------------------------------------------------
(* validate.go *)

AddressNotZero(w) == ~w.zero
AddressHasCode(w) == w.rpc /\ w.code
KeyHasFunds(w)    == w.rpc /\ w.funds

\* deploy-contract's own pre-flight.
DeployContractPreflight(w) ==
  w.dial /\ AddressNotZero(w) /\ AddressHasCode(w) /\ KeyHasFunds(w)

-----------------------------------------------------------------------------
(* The deploy step: D1 to D7 *)

CheckDeployerKeySource(e) ==
  CheckResult("D5", "deployer key source",
              PassOr("WARN", e.deployKey \/ e.localMode \in {"true", ""}))

CheckExtensionEnvFormat(file) ==
  IF ~file.exists THEN {CheckResult("D7", "extension.env exists", "SKIP")}
  ELSE {CheckResult("D7", "INSTRUCTION_SENDER", PassOr("FAIL", WellFormed(file.sender))),
        CheckResult("D7", "EXTENSION_ID", PassOr("FAIL", WellFormed(file.ext)))}

checkChainID(w) == CheckResult("D6", "chain ID", PassOr("FAIL", w.rpc))

\* Mutant: the code of a contract is not looked at.
DeployChecksNoCode(w, e) ==
  {CheckResult("D3", "address not zero", PassOr("FAIL", AddressNotZero(w))),
   CheckDeployerKeySource(e),
   CheckResult("D5", "deployer has sufficient funds", PassOr("FAIL", KeyHasFunds(w))),
   checkChainID(w)}
  \cup When(e.config, CheckExtensionEnvFormat(w.file))

RegisterDeployChecks(w, e) ==
  {CheckResult("D3", "address not zero", PassOr("FAIL", AddressNotZero(w))),
   CheckDeployerKeySource(e),
   CheckResult("D5", "deployer has sufficient funds", PassOr("FAIL", KeyHasFunds(w))),
   checkChainID(w)}
  \cup When(AddressNotZero(w),
            {CheckResult("D1", "has deployed code", PassOr("FAIL", AddressHasCode(w)))})
  \cup When(e.config, CheckExtensionEnvFormat(w.file))

-----------------------------------------------------------------------------
(* The register step: R1 to R7 *)

NextIdCheck(w) ==
  CheckResult("R1", "next public extension id",
              CASE ~w.rpc -> "FAIL"
                [] w.rpc /\ NextPublicExtensionId(w) = 0 -> "WARN"
                [] OTHER -> "PASS")

\* R2, only for an address that is well formed.
SenderCheck(w) ==
  When(WellFormed(w.file.sender),
       {CheckResult("R2", "instruction sender matches on-chain",
                    PassOr("FAIL", w.rpc /\ SenderOf(w, w.file.ext) = w.file.sender))})

\* Mutant: a deployer who may not own machines is only a warning.
AllowanceChecksWarn(w) ==
  {CheckResult("R3", "deployer is allowed TEE machine owner",
               PassOr("WARN", w.rpc /\ w.file.ext \in w.owned)),
   CheckResult("R4", "EVM key type supported",
               PassOr("FAIL", w.rpc /\ w.file.ext \in w.keyed))}

\* R3 and R4.
AllowanceChecks(w) ==
  {CheckResult("R3", "deployer is allowed TEE machine owner",
               PassOr("FAIL", w.rpc /\ w.file.ext \in w.owned)),
   CheckResult("R4", "EVM key type supported",
               PassOr("FAIL", w.rpc /\ w.file.ext \in w.keyed))}

\* Mutant: the scan ends before the last extension.
UniqueSenderCheckShort(w) ==
  LET matching == {id \in 0 .. NextPublicExtensionId(w) - 2 :
                     id \notin w.unread /\ SenderOf(w, id) = w.file.sender}
  IN When(w.rpc /\ NextPublicExtensionId(w) > 0 /\ WellFormed(w.file.sender),
          {CheckResult("R7", "unique instruction sender", PassOr("WARN", Cardinality(matching) <= 1))})

\* R7: an extension that cannot be read counts as one with another sender.
UniqueSenderCheck(w) ==
  LET matching == {id \in 0 .. NextPublicExtensionId(w) - 1 :
                     id \notin w.unread /\ SenderOf(w, id) = w.file.sender}
  IN When(w.rpc /\ NextPublicExtensionId(w) > 0 /\ WellFormed(w.file.sender),
          {CheckResult("R7", "unique instruction sender", PassOr("WARN", Cardinality(matching) <= 1))})

RegisterRegistrationChecks(w, e) ==
  IF ~e.config \/ (w.file.ext = Absent /\ w.file.sender = Absent)
    THEN {CheckResult("R1-R7", "registration checks", "SKIP")}
  ELSE {NextIdCheck(w)} \cup
       (IF WellFormed(w.file.ext)
          THEN SenderCheck(w) \cup AllowanceChecks(w) \cup UniqueSenderCheck(w)
          ELSE {CheckResult("R2", "EXTENSION_ID format", "FAIL")})

-----------------------------------------------------------------------------
(* The steps that ask no chain *)

\* A proxy that is set and answers; S9, V6, T5, T10 and E3 only warn.
Reachable(id, name, set, answers) ==
  CheckResult(id, name, IF set THEN PassOr("WARN", answers) ELSE "SKIP")

\* S10.  A local mode that is neither "true", "" nor "false" passes without a key.
ProxyKeyCheck(e) ==
  CheckResult("S10", "PROXY_PRIVATE_KEY set on non-local",
              PassOr("WARN", ~(e.localMode = "false" /\ ~e.proxyKey)))

\* S2 fails without the file, where V4 and E1 skip.
RegisterServicesChecks(w, e) ==
  {CheckResult("S2", "EXTENSION_ID is set and well-formed",
               IF e.config THEN PassOr("FAIL", WellFormed(w.file.ext)) ELSE "SKIP"),
   CheckResult("S5", "extension port not in use", PassOr("WARN", ~w.port)),
   CheckResult("S7", "port configuration", "PASS"),
   Reachable("S9", "EXT_PROXY_URL reachable", e.proxyURL, w.proxy),
   ProxyKeyCheck(e)}

\* Mutant: V2 looks for the extension owner's key alone.
OwnerKeyCheckAlone(e) ==
  CheckResult("V2", "extension owner key", PassOr("WARN", e.ownerKey \/ e.localMode \in {"true", ""}))

OwnerKeyCheck(e) ==
  CheckResult("V2", "extension owner key",
              PassOr("WARN", e.ownerKey \/ e.deployKey \/ e.localMode \in {"true", ""}))

\* What V4 says of EXTENSION_ID, and E1 of INSTRUCTION_SENDER.
ValueStatus(file, value, e) ==
  IF ~e.config \/ ~file.exists THEN "SKIP" ELSE PassOr("FAIL", WellFormed(value))

RegisterTeeVersionChecks(w, e) ==
  {OwnerKeyCheck(e),
   CheckResult("V4", "EXTENSION_ID valid", ValueStatus(w.file, w.file.ext, e)),
   Reachable("V6", "proxy reachable", e.proxyURL, w.proxy)}

RegisterTeeMachineChecks(w, e) ==
  {CheckResult("T1", "SIMULATED_TEE mode", PassOr("WARN", ~(e.simulated /\ e.localMode = "false"))),
   Reachable("T5", "NORMAL_PROXY_URL reachable", e.normalURL, w.normal),
   Reachable("T10", "host URL reachable", e.proxyURL, w.proxy)}

RegisterTestChecks(w, e) ==
  {CheckResult("E1", "INSTRUCTION_SENDER valid", ValueStatus(w.file, w.file.sender, e)),
   Reachable("E3", "proxy reachable for test results", e.proxyURL, w.proxy),
   CheckResult("E6", "OPType/OPCommand alignment info", "PASS")}

-----------------------------------------------------------------------------
(* report.go and verify-deploy *)

HasFailures(report) == \E r \in report : r.status = "FAIL"

stepsNeedingChain == {"deploy", "register", "all"}

ChecksOf(step, w, e) ==
  CASE step = "deploy"      -> RegisterDeployChecks(w, e)
    [] step = "register"    -> RegisterRegistrationChecks(w, e)
    [] step = "services"    -> RegisterServicesChecks(w, e)
    [] step = "tee-version" -> RegisterTeeVersionChecks(w, e)
    [] step = "tee-machine" -> RegisterTeeMachineChecks(w, e)
    [] step = "test"        -> RegisterTestChecks(w, e)
    [] step = "all"         -> UNION {RegisterDeployChecks(w, e), RegisterRegistrationChecks(w, e),
                                      RegisterServicesChecks(w, e), RegisterTeeVersionChecks(w, e),
                                      RegisterTeeMachineChecks(w, e), RegisterTestChecks(w, e)}

\* What verify-deploy prints when -checks asks for the ids in only ({}: for all).
Report(step, only, w, e) ==
  {r \in ChecksOf(step, w, e) : only = {} \/ r.id \in only}

\* verify-deploy's exit code is 0.
ExitsClean(step, only, w, e) ==
  /\ step \in stepsNeedingChain => w.dial
  /\ ~HasFailures(Report(step, only, w, e))
=============================================================================
