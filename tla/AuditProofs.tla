----------------------------- MODULE AuditProofs -----------------------------
(***************************************************************************)
(* Proofs about verify-deploy in Deployment, for every environment that it *)
(* is run in and whatever the scripts have left behind: a clean report     *)
(* means that the extension of extension.env is in order, and that         *)
(* setExtensionId will find it or R7 says so; and the checks that the      *)
(* tools have twice agree.                                                 *)
(***************************************************************************)
EXTENDS DeploymentProofs, FiniteSetTheorems

-----------------------------------------------------------------------------
(* Reports *)

\* One failed check is enough for an exit code other than 0.
LEMMA FailingCheck ==
  ASSUME NEW step, NEW w, NEW e, NEW r \in ChecksOf(step, w, e), r.status = "FAIL"
  PROVE  ~ExitsClean(step, {}, w, e)
BY Zenon DEF ExitsClean, HasFailures, Report

\* What the whole pre-flight looks at.
LEMMA AllChecks ==
  ASSUME NEW w, NEW e, e.config
  PROVE  /\ RegisterDeployChecks(w, e) \subseteq ChecksOf("all", w, e)
         /\ RegisterRegistrationChecks(w, e) \subseteq ChecksOf("all", w, e)
         /\ RegisterServicesChecks(w, e) \subseteq ChecksOf("all", w, e)
         /\ CheckExtensionEnvFormat(w.file) \subseteq RegisterDeployChecks(w, e)
<1>1. ChecksOf("all", w, e) =
        UNION {RegisterDeployChecks(w, e), RegisterRegistrationChecks(w, e),
               RegisterServicesChecks(w, e), RegisterTeeVersionChecks(w, e),
               RegisterTeeMachineChecks(w, e), RegisterTestChecks(w, e)}
  BY DEF ChecksOf
<1>2. CheckExtensionEnvFormat(w.file) \subseteq RegisterDeployChecks(w, e)
  BY Zenon DEF RegisterDeployChecks, When
<1> QED
  BY <1>1, <1>2, Zenon

\* S2: the extension id of the file.
LEMMA MalformedExtensionFails ==
  ASSUME NEW w, NEW e, e.config, ~WellFormed(w.file.ext)
  PROVE  ~ExitsClean("all", {}, w, e)
<1> DEFINE r == CheckResult("S2", "EXTENSION_ID is set and well-formed",
                            IF e.config THEN PassOr("FAIL", WellFormed(w.file.ext)) ELSE "SKIP")
<1>1. r \in RegisterServicesChecks(w, e)
  BY Zenon DEF RegisterServicesChecks
<1>2. r.status = "FAIL"
  BY Zenon DEF CheckResult, PassOr
<1> HIDE DEF r
<1> QED
  BY <1>1, <1>2, AllChecks, FailingCheck, Zenon

\* D7: the sender of a file that is there.
LEMMA MalformedSenderFails ==
  ASSUME NEW w, NEW e, e.config, w.file.exists, ~WellFormed(w.file.sender)
  PROVE  ~ExitsClean("all", {}, w, e)
<1> DEFINE r == CheckResult("D7", "INSTRUCTION_SENDER", PassOr("FAIL", WellFormed(w.file.sender)))
<1>1. r \in CheckExtensionEnvFormat(w.file)
  BY Zenon DEF CheckExtensionEnvFormat
<1>2. r.status = "FAIL"
  BY Zenon DEF CheckResult, PassOr
<1> HIDE DEF r
<1> QED
  BY <1>1, <1>2, AllChecks, FailingCheck, Zenon

\* The registration checks of a file whose ids are well formed.
LEMMA RegistrationChecksValue ==
  ASSUME NEW w, NEW e, e.config, WellFormed(w.file.ext)
  PROVE  RegisterRegistrationChecks(w, e) =
           {NextIdCheck(w)} \cup (SenderCheck(w) \cup AllowanceChecks(w) \cup UniqueSenderCheck(w))
<1>1. w.file.ext # Absent
  BY DEF WellFormed, Absent
<1> QED
  BY <1>1, Zenon DEF RegisterRegistrationChecks

\* R2, R3 and R4.
LEMMA UnregisteredFails ==
  ASSUME NEW w, NEW e, e.config, WellFormed(w.file.ext), WellFormed(w.file.sender), w.rpc,
         \/ SenderOf(w, w.file.ext) # w.file.sender
         \/ w.file.ext \notin w.owned \/ w.file.ext \notin w.keyed
  PROVE  \E r \in RegisterRegistrationChecks(w, e) : r.status = "FAIL"
<1>1. /\ SenderCheck(w) \subseteq RegisterRegistrationChecks(w, e)
      /\ AllowanceChecks(w) \subseteq RegisterRegistrationChecks(w, e)
  BY RegistrationChecksValue, Zenon
<1>2. CASE SenderOf(w, w.file.ext) # w.file.sender
  <2> DEFINE r == CheckResult("R2", "instruction sender matches on-chain",
                    PassOr("FAIL", w.rpc /\ SenderOf(w, w.file.ext) = w.file.sender))
  <2>1. r \in SenderCheck(w)
    BY Zenon DEF SenderCheck, When
  <2>2. r.status = "FAIL"
    BY <1>2, Zenon DEF CheckResult, PassOr
  <2> QED
    BY <1>1, <2>1, <2>2, Zenon
<1>3. CASE w.file.ext \notin w.owned
  <2> DEFINE r == CheckResult("R3", "deployer is allowed TEE machine owner",
               PassOr("FAIL", w.rpc /\ w.file.ext \in w.owned))
  <2>1. r \in AllowanceChecks(w)
    BY Zenon DEF AllowanceChecks
  <2>2. r.status = "FAIL"
    BY <1>3, Zenon DEF CheckResult, PassOr
  <2> QED
    BY <1>1, <2>1, <2>2, Zenon
<1>4. CASE w.file.ext \notin w.keyed
  <2> DEFINE r == CheckResult("R4", "EVM key type supported",
               PassOr("FAIL", w.rpc /\ w.file.ext \in w.keyed))
  <2>1. r \in AllowanceChecks(w)
    BY Zenon DEF AllowanceChecks
  <2>2. r.status = "FAIL"
    BY <1>4, Zenon DEF CheckResult, PassOr
  <2> QED
    BY <1>1, <2>1, <2>2, Zenon
<1> QED
  BY <1>2, <1>3, <1>4

-----------------------------------------------------------------------------
(* The world of the deployment *)

\* What the checks read of the chain and of extension.env.
LEMMA WorldValue ==
  ASSUME NEW unread, NEW w, w = World(unread)
  PROVE  /\ w.rpc /\ w.dial /\ w.unread = unread
         /\ w.file.exists = file.exists /\ w.file.ext = file.ext /\ w.file.sender = file.sender
         /\ w.senders = [i \in DOMAIN exts |-> exts[i].sender]
         /\ w.owned = {i \in DOMAIN exts : key \in exts[i].owners}
         /\ w.keyed = {i \in DOMAIN exts : exts[i].keyed}
BY DEF World

\* The registry as the checks see it.
LEMMA WorldSenders ==
  ASSUME TypeOK, NEW unread, NEW w, w = World(unread)
  PROVE  /\ NextPublicExtensionId(w) = Len(exts) + 1
         /\ \A id \in DOMAIN exts : SenderOf(w, id) = exts[id].sender
         /\ \A id : SenderOf(w, id) # 0 => id \in DOMAIN exts
<1> DEFINE senders == [i \in DOMAIN exts |-> exts[i].sender]
<1>1. exts \in Seq(ExtRecord) /\ Len(exts) \in Nat /\ DOMAIN exts = 1 .. Len(exts)
  BY TypeParts
<1>2. Len(senders) = Len(exts) /\ DOMAIN senders = DOMAIN exts
  BY <1>1
<1>3. w.senders = senders
  BY WorldValue
<1>4. \A i \in DOMAIN exts : senders[i] = exts[i].sender
  OBVIOUS
<1> HIDE DEF senders
<1> QED
  BY <1>2, <1>3, <1>4 DEF NextPublicExtensionId, SenderOf

\* A file names an extension only when it is there.
FileIsThere == file.ext # Absent => file.exists

\* A file that is not in order fails the pre-flight.
LEMMA DisorderFails ==
  ASSUME TypeOK, FileIsThere, ~FileIsInOrder, NEW e, e.config,
         NEW unread, NEW w, w = World(unread)
  PROVE  ~ExitsClean("all", {}, w, e)
<1>1. /\ w.rpc /\ w.file.exists = file.exists /\ w.file.ext = file.ext /\ w.file.sender = file.sender
      /\ \A id : id \in w.owned => id \in DOMAIN exts /\ key \in exts[id].owners
      /\ \A id : id \in w.keyed => id \in DOMAIN exts /\ exts[id].keyed
  BY WorldValue, Zenon
<1>2. /\ \A id \in DOMAIN exts : SenderOf(w, id) = exts[id].sender
      /\ \A id : SenderOf(w, id) # 0 => id \in DOMAIN exts
  BY WorldSenders, Zenon
<1>3. CASE ~WellFormed(file.ext)
  BY <1>3, <1>1, MalformedExtensionFails
<1>4. CASE WellFormed(file.ext) /\ ~WellFormed(file.sender)
  <2>1. file.exists
    BY <1>4 DEF FileIsThere, WellFormed, Absent
  <2> QED
    BY <1>4, <2>1, <1>1, MalformedSenderFails
<1>5. CASE WellFormed(file.ext) /\ WellFormed(file.sender)
  <2>1. \/ SenderOf(w, file.ext) # file.sender
        \/ file.ext \notin w.owned \/ file.ext \notin w.keyed
    BY <1>2, <1>1, <1>5 DEF FileIsInOrder, WellFormed
  <2>2. PICK r \in RegisterRegistrationChecks(w, e) : r.status = "FAIL"
    BY <1>5, <2>1, <1>1, UnregisteredFails
  <2> QED
    BY <2>2, AllChecks, FailingCheck
<1> QED
  BY <1>3, <1>4, <1>5

-----------------------------------------------------------------------------
(* What R7 tells *)

\* Two extensions of one sender are two members of R7's scan.
LEMMA TwoMembers ==
  ASSUME NEW n \in Nat, NEW S, S \subseteq 0 .. n, NEW a \in S, NEW b \in S, a # b
  PROVE  Cardinality(S) \in Nat /\ ~(Cardinality(S) <= 1)
<1>1. IsFiniteSet(S)
  <2>1. IsFiniteSet(0 .. n)
    BY FS_Interval
  <2> QED
    BY <2>1, FS_Subset
<1>2. {a, b} \subseteq S
  OBVIOUS
<1>3. IsFiniteSet({a}) /\ Cardinality({a}) = 1
  BY FS_Singleton
<1>4. b \notin {a} /\ {a} \cup {b} = {a, b}
  OBVIOUS
<1>5. Cardinality({a} \cup {b}) = Cardinality({a}) + 1
  BY <1>3, <1>4, FS_AddElement
<1>6. Cardinality({a, b}) = 2
  BY <1>3, <1>4, <1>5
<1>7. Cardinality({a, b}) <= Cardinality(S) /\ Cardinality(S) \in Nat
  BY <1>1, <1>2, FS_Subset, FS_CardinalityType
<1> QED
  BY <1>6, <1>7

\* R7 warns of a second extension with the sender of the file, if it can read both.
LEMMA SecondExtensionWarns ==
  ASSUME NEW w, NEW n \in Nat, w.rpc, NextPublicExtensionId(w) = n + 1,
         WellFormed(w.file.sender), NEW a \in 0 .. n, NEW b \in 0 .. n, a # b,
         a \notin w.unread, b \notin w.unread,
         SenderOf(w, a) = w.file.sender, SenderOf(w, b) = w.file.sender
  PROVE  CheckResult("R7", "unique instruction sender", "WARN") \in UniqueSenderCheck(w)
<1> DEFINE S == {id \in 0 .. NextPublicExtensionId(w) - 1 :
                     id \notin w.unread /\ SenderOf(w, id) = w.file.sender}
<1>1. NextPublicExtensionId(w) - 1 = n /\ NextPublicExtensionId(w) > 0
  OBVIOUS
<1>2. S \subseteq 0 .. n /\ a \in S /\ b \in S
  BY <1>1
<1>3. UniqueSenderCheck(w) =
        When(w.rpc /\ NextPublicExtensionId(w) > 0 /\ WellFormed(w.file.sender),
             {CheckResult("R7", "unique instruction sender", PassOr("WARN", Cardinality(S) <= 1))})
  BY DEF UniqueSenderCheck
<1> HIDE DEF S
<1>4. ~(Cardinality(S) <= 1)
  BY <1>2, TwoMembers
<1> QED
  BY <1>1, <1>3, <1>4, Zenon DEF When, PassOr

\* The register step looks at the sender of the file only when both ids of the
\* file are well formed, unless it fails.
LEMMA CleanRegisterStep ==
  ASSUME NEW w, NEW e, ExitsClean("register", {}, w, e),
         \E r \in RegisterRegistrationChecks(w, e) : r.id = "R2"
  PROVE  /\ e.config /\ WellFormed(w.file.ext) /\ WellFormed(w.file.sender)
         /\ ~ \E r \in RegisterRegistrationChecks(w, e) : r.status = "FAIL"
<1>1. ChecksOf("register", w, e) = RegisterRegistrationChecks(w, e)
  BY Zenon DEF ChecksOf
<1>2. ~ \E r \in RegisterRegistrationChecks(w, e) : r.status = "FAIL"
  BY <1>1, FailingCheck, Zenon
<1>3. e.config /\ ~(w.file.ext = Absent /\ w.file.sender = Absent)
  <2> SUFFICES ASSUME ~e.config \/ (w.file.ext = Absent /\ w.file.sender = Absent) PROVE FALSE
    OBVIOUS
  <2>1. RegisterRegistrationChecks(w, e) = {CheckResult("R1-R7", "registration checks", "SKIP")}
    BY Zenon DEF RegisterRegistrationChecks
  <2>2. CheckResult("R1-R7", "registration checks", "SKIP").id # "R2"
    BY Zenon DEF CheckResult
  <2> QED
    BY <2>1, <2>2, Zenon
<1>4. WellFormed(w.file.ext)
  <2> SUFFICES ASSUME ~WellFormed(w.file.ext) PROVE FALSE
    OBVIOUS
  <2> DEFINE r == CheckResult("R2", "EXTENSION_ID format", "FAIL")
  <2>1. r \in RegisterRegistrationChecks(w, e)
    BY <1>3, Zenon DEF RegisterRegistrationChecks
  <2>2. r.status = "FAIL"
    BY Zenon DEF CheckResult
  <2> QED
    BY <1>2, <2>1, <2>2, Zenon
<1>5. WellFormed(w.file.sender)
  <2> SUFFICES ASSUME ~WellFormed(w.file.sender) PROVE FALSE
    OBVIOUS
  <2>1. SenderCheck(w) = {} /\ UniqueSenderCheck(w) = {}
    BY Zenon DEF SenderCheck, UniqueSenderCheck, When
  <2>2. NextIdCheck(w).id # "R2" /\ \A r \in AllowanceChecks(w) : r.id # "R2"
    <3>1. NextIdCheck(w).id = "R1"
      BY Zenon DEF NextIdCheck, CheckResult
    <3>2. \A r \in AllowanceChecks(w) : r.id = "R3" \/ r.id = "R4"
      <4> DEFINE a == CheckResult("R3", "deployer is allowed TEE machine owner",
                                  PassOr("FAIL", w.rpc /\ w.file.ext \in w.owned))
                 b == CheckResult("R4", "EVM key type supported",
                                  PassOr("FAIL", w.rpc /\ w.file.ext \in w.keyed))
      <4>1. AllowanceChecks(w) = {a, b}
        BY DEF AllowanceChecks
      <4>2. a.id = "R3" /\ b.id = "R4"
        BY Zenon DEF CheckResult
      <4> QED
        BY <4>1, <4>2, Zenon
    <3> QED
      BY <3>1, <3>2, Zenon
  <2>3. RegisterRegistrationChecks(w, e) = {NextIdCheck(w)} \cup AllowanceChecks(w)
    BY <1>3, <1>4, <2>1, RegistrationChecksValue, Zenon
  <2> QED
    BY <2>2, <2>3, Zenon
<1> QED
  BY <1>2, <1>3, <1>4, <1>5

\* Every extension has a sender that was deployed.
SendersExist == \A i \in DOMAIN exts : exts[i].sender \in Senders

\* A register step without a failure, and a sender that is bound to another
\* extension than that of the file, or will be: R7 warns, if it reads the two.
LEMMA UnboundWarns ==
  ASSUME TypeOK, BoundToFirst, FirstExists, SendersExist, ~BindsToFile, NEW e,
         NEW unread, NEW w, w = World(unread), file.ext \notin unread, FoundBy(file.sender) \notin unread,
         ExitsClean("register", {}, w, e),
         \E r \in RegisterRegistrationChecks(w, e) : r.id = "R2"
  PROVE  \E r \in Report("register", {"R7"}, w, e) : r.status # "PASS"
<1> DEFINE s == file.sender
<1>1. /\ w.rpc /\ w.unread = unread /\ w.file.ext = file.ext /\ w.file.sender = s
  BY WorldValue, Zenon
<1>2. /\ NextPublicExtensionId(w) = Len(exts) + 1
      /\ \A id \in DOMAIN exts : SenderOf(w, id) = exts[id].sender
      /\ \A id : SenderOf(w, id) # 0 => id \in DOMAIN exts
  BY WorldSenders
<1>3. /\ e.config /\ WellFormed(file.ext) /\ WellFormed(s)
      /\ ~ \E r \in RegisterRegistrationChecks(w, e) : r.status = "FAIL"
  BY CleanRegisterStep, <1>1
<1>4. SenderOf(w, file.ext) = s
  BY <1>3, <1>1, UnregisteredFails
<1>5. file.ext \in DOMAIN exts /\ exts[file.ext].sender = s /\ s \in Senders /\ file.ext \in OfSender(s)
  <2>1. file.ext \in DOMAIN exts
    BY <1>3, <1>4, <1>2 DEF WellFormed
  <2> QED
    BY <1>4, <2>1, <1>2 DEF SendersExist, OfSender
<1>6. s \in Nat /\ DOMAIN exts = 1 .. Len(exts) /\ Len(exts) \in Nat
  BY <1>5, TypeParts DEF Senders
<1>7. FoundBy(s) \in OfSender(s) /\ \A j \in OfSender(s) : FoundBy(s) <= j
  BY <1>5, <1>6, FoundIsFirst
<1>8. FoundBy(s) # file.ext
  <2> SUFFICES ASSUME FoundBy(s) = file.ext PROVE FALSE
    OBVIOUS
  <2>1. bound[s] # 0 /\ bound[s] # file.ext
    BY <1>5 DEF BindsToFile
  <2>2. bound[s] \in OfSender(s) /\ \A i \in OfSender(s) : bound[s] <= i
    BY <1>5, <2>1 DEF BoundToFirst
  <2>3. bound[s] \in 1 .. Len(exts) /\ FoundBy(s) \in 1 .. Len(exts)
    BY <1>6, <1>7, <2>2 DEF OfSender
  <2> QED
    BY <1>7, <2>1, <2>2, <2>3
<1>9. CheckResult("R7", "unique instruction sender", "WARN") \in UniqueSenderCheck(w)
  <2>1. FoundBy(s) \in DOMAIN exts /\ exts[FoundBy(s)].sender = s
    BY <1>7 DEF OfSender
  <2>2. SenderOf(w, FoundBy(s)) = s
    BY <2>1, <1>2
  <2>3. /\ FoundBy(s) \in 0 .. Len(exts) /\ file.ext \in 0 .. Len(exts)
        /\ FoundBy(s) \notin w.unread /\ file.ext \notin w.unread
    BY <1>1, <1>5, <1>6, <2>1
  <2>4. w.rpc /\ w.unread = unread /\ w.file.sender = s /\ NextPublicExtensionId(w) = Len(exts) + 1
    BY <1>1, <1>2
  <2> HIDE DEF s
  <2> QED
    BY <1>3, <1>4, <1>6, <1>8, <2>2, <2>3, <2>4, SecondExtensionWarns
<1>10. CheckResult("R7", "unique instruction sender", "WARN") \in Report("register", {"R7"}, w, e)
  <2>1. ChecksOf("register", w, e) = RegisterRegistrationChecks(w, e)
    BY Zenon DEF ChecksOf
  <2>2. WellFormed(w.file.ext)
    BY <1>3, <1>1
  <2>3. UniqueSenderCheck(w) \subseteq RegisterRegistrationChecks(w, e)
    BY <1>3, <2>2, RegistrationChecksValue, Zenon
  <2>4. CheckResult("R7", "unique instruction sender", "WARN").id = "R7"
    BY Zenon DEF CheckResult
  <2> QED
    BY <1>9, <2>1, <2>3, <2>4, Zenon DEF Report
<1>11. CheckResult("R7", "unique instruction sender", "WARN").status # "PASS"
  BY Zenon DEF CheckResult
<1> QED
  BY <1>10, <1>11, Zenon

-----------------------------------------------------------------------------
(* The checks that the tools have twice *)

\* What the deploy step finds of the contract and the deployer's funds.
LEMMA DeployStepFails ==
  ASSUME NEW w, NEW e
  PROVE  (\E r \in RegisterDeployChecks(w, e) : r.id \in {"D1", "D3", "D5"} /\ r.status = "FAIL")
           <=> ~(AddressNotZero(w) /\ AddressHasCode(w) /\ KeyHasFunds(w))
<1> DEFINE zero  == CheckResult("D3", "address not zero", PassOr("FAIL", AddressNotZero(w)))
           funds == CheckResult("D5", "deployer has sufficient funds", PassOr("FAIL", KeyHasFunds(w)))
           code  == CheckResult("D1", "has deployed code", PassOr("FAIL", AddressHasCode(w)))
<1>1. /\ zero.id = "D3" /\ zero.status = PassOr("FAIL", AddressNotZero(w))
      /\ funds.id = "D5" /\ funds.status = PassOr("FAIL", KeyHasFunds(w))
      /\ code.id = "D1" /\ code.status = PassOr("FAIL", AddressHasCode(w))
  BY Zenon DEF CheckResult
<1>2. RegisterDeployChecks(w, e) =
        {zero, CheckDeployerKeySource(e), funds, checkChainID(w)}
          \cup (IF AddressNotZero(w) THEN {code} ELSE {})
          \cup (IF e.config THEN CheckExtensionEnvFormat(w.file) ELSE {})
  BY Zenon DEF RegisterDeployChecks, When
<1>3. checkChainID(w).id = "D6"
  BY Zenon DEF checkChainID, CheckResult
<1>4. CheckDeployerKeySource(e).status # "FAIL"
  <2>1. CheckDeployerKeySource(e).status = PassOr("WARN", e.deployKey \/ e.localMode \in {"true", ""})
    BY Zenon DEF CheckDeployerKeySource, CheckResult
  <2> QED
    BY <2>1, Zenon DEF PassOr
<1>5. \A r \in CheckExtensionEnvFormat(w.file) : r.id = "D7"
  <2> DEFINE none   == CheckResult("D7", "extension.env exists", "SKIP")
             sender == CheckResult("D7", "INSTRUCTION_SENDER", PassOr("FAIL", WellFormed(w.file.sender)))
             ext    == CheckResult("D7", "EXTENSION_ID", PassOr("FAIL", WellFormed(w.file.ext)))
  <2>1. CheckExtensionEnvFormat(w.file) = IF ~w.file.exists THEN {none} ELSE {sender, ext}
    BY DEF CheckExtensionEnvFormat
  <2>2. none.id = "D7" /\ sender.id = "D7" /\ ext.id = "D7"
    BY Zenon DEF CheckResult
  <2> HIDE DEF none, sender, ext
  <2> QED
    BY <2>1, <2>2, Zenon
<1> HIDE DEF zero, funds, code
<1>6. ASSUME AddressNotZero(w), AddressHasCode(w), KeyHasFunds(w), NEW r \in RegisterDeployChecks(w, e)
      PROVE  ~(r.id \in {"D1", "D3", "D5"} /\ r.status = "FAIL")
  <2>1. /\ PassOr("FAIL", AddressNotZero(w)) # "FAIL" /\ PassOr("FAIL", KeyHasFunds(w)) # "FAIL"
        /\ PassOr("FAIL", AddressHasCode(w)) # "FAIL"
    BY <1>6, Zenon DEF PassOr
  <2>2. \/ r = zero \/ r = CheckDeployerKeySource(e) \/ r = funds \/ r = checkChainID(w) \/ r = code
        \/ r \in CheckExtensionEnvFormat(w.file)
    BY <1>2, <1>6, Zenon
  <2>3. "D6" \notin {"D1", "D3", "D5"} /\ "D7" \notin {"D1", "D3", "D5"}
    BY Zenon
  <2> QED
    BY <1>1, <1>3, <1>4, <1>5, <2>1, <2>2, <2>3, Zenon
<1>7. ASSUME ~AddressNotZero(w)
      PROVE  \E r \in RegisterDeployChecks(w, e) : r.id \in {"D1", "D3", "D5"} /\ r.status = "FAIL"
  <2>1. zero \in RegisterDeployChecks(w, e) /\ PassOr("FAIL", AddressNotZero(w)) = "FAIL"
    BY <1>2, <1>7, Zenon DEF PassOr
  <2> QED
    BY <1>1, <2>1, Zenon
<1>8. ASSUME ~KeyHasFunds(w)
      PROVE  \E r \in RegisterDeployChecks(w, e) : r.id \in {"D1", "D3", "D5"} /\ r.status = "FAIL"
  <2>1. funds \in RegisterDeployChecks(w, e) /\ PassOr("FAIL", KeyHasFunds(w)) = "FAIL"
    BY <1>2, <1>8, Zenon DEF PassOr
  <2> QED
    BY <1>1, <2>1, Zenon
<1>9. ASSUME AddressNotZero(w), ~AddressHasCode(w)
      PROVE  \E r \in RegisterDeployChecks(w, e) : r.id \in {"D1", "D3", "D5"} /\ r.status = "FAIL"
  <2>1. code \in RegisterDeployChecks(w, e) /\ PassOr("FAIL", AddressHasCode(w)) = "FAIL"
    BY <1>2, <1>9, Zenon DEF PassOr
  <2> QED
    BY <1>1, <2>1, Zenon
<1> QED
  BY <1>6, <1>7, <1>8, <1>9, Zenon

\* The pre-flight of deploy-contract and the deploy step, in any world.
LEMMA AgreeingPreflights ==
  ASSUME NEW w, NEW e
  PROVE  DeployContractPreflight(w) <=> ExitsClean("deploy", {"D1", "D3", "D5"}, w, e)
<1>1. ChecksOf("deploy", w, e) = RegisterDeployChecks(w, e)
  BY Zenon DEF ChecksOf
<1>2. {"D1", "D3", "D5"} # {} /\ "deploy" \in stepsNeedingChain
  BY DEF stepsNeedingChain
<1>3. HasFailures(Report("deploy", {"D1", "D3", "D5"}, w, e)) <=>
        \E r \in RegisterDeployChecks(w, e) : r.id \in {"D1", "D3", "D5"} /\ r.status = "FAIL"
  BY <1>1, <1>2, Zenon DEF HasFailures, Report
<1>4. ExitsClean("deploy", {"D1", "D3", "D5"}, w, e) <=>
        w.dial /\ AddressNotZero(w) /\ AddressHasCode(w) /\ KeyHasFunds(w)
  BY <1>2, <1>3, DeployStepFails, Zenon DEF ExitsClean
<1> QED
  BY <1>4, Zenon DEF DeployContractPreflight

\* The pre-flights agree in every state.
LEMMA SamePreflights == PreflightsAgree
<1> SUFFICES ASSUME NEW e \in Environments, NEW dial \in BOOLEAN, NEW rpc \in BOOLEAN,
                    NEW zero \in BOOLEAN, NEW code \in BOOLEAN, NEW funds \in BOOLEAN
             PROVE  LET w == [World({}) EXCEPT !.dial = dial, !.rpc = rpc, !.zero = zero, !.code = code, !.funds = funds]
                    IN DeployContractPreflight(w) <=> ExitsClean("deploy", {"D1", "D3", "D5"}, w, e)
  BY Zenon DEF PreflightsAgree
<1> DEFINE w == [World({}) EXCEPT !.dial = dial, !.rpc = rpc, !.zero = zero, !.code = code, !.funds = funds]
<1>1. DeployContractPreflight(w) <=> ExitsClean("deploy", {"D1", "D3", "D5"}, w, e)
  BY AgreeingPreflights, Zenon
<1> QED
  BY <1>1, Zenon

\* And so do the steps, on the documented values of LOCAL_MODE.
LEMMA SameOnLocal == StepsAgreeOnLocal
<1> SUFFICES ASSUME NEW e \in {d \in Environments : d.localMode \in {"", "true", "false"}}
             PROVE  LET deployer == CheckDeployerKeySource(e).status
                    IN /\ ~e.ownerKey => OwnerKeyCheck(e).status = deployer
                       /\ e.proxyKey = e.deployKey => ProxyKeyCheck(e).status = deployer
  BY Zenon DEF StepsAgreeOnLocal
<1>1. CheckDeployerKeySource(e).status = PassOr("WARN", e.deployKey \/ e.localMode \in {"true", ""})
  BY Zenon DEF CheckDeployerKeySource, CheckResult
<1>2. OwnerKeyCheck(e).status = PassOr("WARN", e.ownerKey \/ e.deployKey \/ e.localMode \in {"true", ""})
  BY Zenon DEF OwnerKeyCheck, CheckResult
<1>3. ProxyKeyCheck(e).status = PassOr("WARN", ~(e.localMode = "false" /\ ~e.proxyKey))
  BY Zenon DEF ProxyKeyCheck, CheckResult
<1>4. e.localMode \in {"true", ""} <=> e.localMode # "false"
  BY Zenon
<1>5. ASSUME ~e.ownerKey PROVE OwnerKeyCheck(e).status = CheckDeployerKeySource(e).status
  BY <1>1, <1>2, <1>5, Zenon DEF PassOr
<1>6. ASSUME e.proxyKey = e.deployKey PROVE ProxyKeyCheck(e).status = CheckDeployerKeySource(e).status
  BY <1>1, <1>3, <1>4, <1>6, Zenon DEF PassOr
<1> QED
  BY <1>5, <1>6, Zenon

-----------------------------------------------------------------------------
(* What is named exists *)

\* Everything that a script, a node or the file names is on the chain: senders
\* and extensions are numbered as they come, and nothing is guessed.
NamesExist ==
  /\ SendersExist
  /\ \A o \in Operators : run[o].sender <= Len(bound)
  /\ file.ext <= Len(exts) /\ FileIsThere
  /\ node.ext <= Len(exts)

\* The script that moves names a sender that exists, and the others stay.
LEMMA MovedSenders ==
  ASSUME TypeOK, bound' \in Seq(Nat), Len(bound) <= Len(bound'), NEW o \in Operators, NEW r \in RunRecord,
         r.sender <= Len(bound'), Done(o, r) \/ Becomes(o, r) \/ Abort(o),
         \A p \in Operators : run[p].sender <= Len(bound)
  PROVE  \A p \in Operators : run'[p].sender <= Len(bound')
<1>1. Len(bound) \in Nat /\ Len(bound') \in Nat
  BY TypeParts
<1>2. PICK q : Becomes(o, q) /\ q.sender <= Len(bound')
  <2> DEFINE t == [r EXCEPT !.todo = Tail(@)]
  <2>1. t.sender = r.sender
    BY DEF RunRecord
  <2>2. Idle.sender <= Len(bound')
    BY <1>1, IdleValue
  <2>3. Becomes(o, t) \/ Becomes(o, r) \/ Becomes(o, Idle)
    BY Zenon DEF Done, Abort
  <2> HIDE DEF t
  <2> QED
    BY <2>1, <2>2, <2>3
<1>3. run'[o] = q /\ \A p \in Operators \ {o} : run'[p] = Disturbed(run[p])
  BY <1>2 DEF Becomes
<1>4. ASSUME NEW p \in Operators \ {o} PROVE run'[p].sender <= Len(bound')
  <2>1. run[p] \in RunRecord
    BY TypeParts
  <2>2. run'[p].sender = run[p].sender /\ run[p].sender \in Nat
    BY <1>3, <2>1, DisturbedValue DEF RunRecord
  <2> QED
    BY <1>1, <2>2
<1> QED
  BY <1>2, <1>3, <1>4

\* The extensions there were name the senders that they named.
LEMMA SendersStay ==
  ASSUME TypeOK, SendersExist, ExtsGrow, Len(exts') = Len(exts), bound' \in Seq(Nat), Len(bound) <= Len(bound')
  PROVE  SendersExist'
<1>1. Len(bound) \in Nat /\ Len(bound') \in Nat /\ DOMAIN exts' = DOMAIN exts
  BY TypeParts DEF ExtsGrow
<1>2. \A i \in DOMAIN exts : exts'[i].sender = exts[i].sender
  BY DEF ExtsGrow
<1>3. 1 .. Len(bound) \subseteq 1 .. Len(bound')
  BY <1>1
<1> QED
  BY <1>1, <1>2, <1>3 DEF SendersExist, Senders

\* A step that deploys and registers nothing.
LEMMA NamesStay ==
  ASSUME DeploymentInv, NamesExist, ExtsGrow, Len(exts') = Len(exts), bound' \in Seq(Nat),
         Len(bound) <= Len(bound'), \A p \in Operators : run'[p].sender <= Len(bound'),
         file' = file, node'.ext \in {node.ext, file.ext}
  PROVE  NamesExist'
<1>1. SendersExist'
  BY SendersStay DEF NamesExist, DeploymentInv
<1> QED
  BY <1>1 DEF NamesExist, FileIsThere

LEMMA TransactKeepsNames ==
  ASSUME DeploymentInv, NamesExist, NEW o \in Operators, NEW e, NEW x, Transact(o, [exts EXCEPT ![e] = x]),
         e \in DOMAIN exts =>
           /\ x \in ExtRecord /\ x.sender = exts[e].sender /\ x.by = exts[e].by
           /\ exts[e].owners \subseteq x.owners /\ exts[e].projects \subseteq x.projects
           /\ exts[e].keyed => x.keyed,
         bound' = bound, UNCHANGED hostVars
  PROVE  NamesExist'
<1>1. exts' \in {exts, [exts EXCEPT ![e] = x]} /\ (Done(o, run[o]) \/ Abort(o))
  BY Zenon DEF Transact
<1>2. ExtsGrow /\ Len(exts') = Len(exts)
  <2>1. TypeOK
    BY DEF DeploymentInv
  <2>2. CASE exts' = exts
    BY <2>1, <2>2, SameExts
  <2>3. CASE exts' = [exts EXCEPT ![e] = x]
    <3>1. ExtsGrow /\ DOMAIN exts' = DOMAIN exts
      BY <2>1, <2>3, ExceptExts
    <3> QED
      BY <2>1, <3>1, TypeParts DEF ExtsGrow
  <2> QED
    BY <1>1, <2>2, <2>3
<1>3. run[o] \in RunRecord /\ run[o].sender <= Len(bound) /\ bound \in Seq(Nat) /\ Len(bound) \in Nat
  BY TypeParts DEF DeploymentInv, NamesExist
<1>4. \A p \in Operators : run'[p].sender <= Len(bound')
  BY <1>1, <1>3, MovedSenders DEF DeploymentInv, NamesExist
<1>5. file' = file /\ node' = node
  BY DEF hostVars
<1> QED
  BY <1>2, <1>3, <1>4, <1>5, NamesStay

LEMMA AllowKeepsNames ==
  ASSUME DeploymentInv, NamesExist, NEW o \in Operators, Allow(o)
  PROVE  NamesExist'
<1> DEFINE e == run[o].ext
           k == run[o].key
<1>1. bound' = bound /\ UNCHANGED hostVars
  BY DEF Allow
<1>2. run[o] \in RunRecord /\ k \in Keys
  BY TypeParts DEF DeploymentInv, RunRecord
<1>3. e \in DOMAIN exts => exts[e] \in ExtRecord
  BY TypeParts, ElementOfSeq DEF DeploymentInv
<1>4. CASE Transact(o, [exts EXCEPT ![e].owners = @ \cup {k}])
  <2> DEFINE x == [exts[e] EXCEPT !.owners = @ \cup {k}]
  <2>1. Transact(o, [exts EXCEPT ![e] = x])
    BY <1>4
  <2>2. e \in DOMAIN exts =>
          /\ x \in ExtRecord /\ x.sender = exts[e].sender /\ x.by = exts[e].by
          /\ x.owners = exts[e].owners \cup {k} /\ x.projects = exts[e].projects
          /\ x.keyed = exts[e].keyed
    BY <1>2, <1>3 DEF ExtRecord
  <2> HIDE DEF x, e
  <2> QED
    BY <1>1, <2>1, <2>2, TransactKeepsNames
<1>5. CASE Transact(o, [exts EXCEPT ![e].projects = @ \cup {k}])
  <2> DEFINE x == [exts[e] EXCEPT !.projects = @ \cup {k}]
  <2>1. Transact(o, [exts EXCEPT ![e] = x])
    BY <1>5
  <2>2. e \in DOMAIN exts =>
          /\ x \in ExtRecord /\ x.sender = exts[e].sender /\ x.by = exts[e].by
          /\ x.owners = exts[e].owners /\ x.projects = exts[e].projects \cup {k}
          /\ x.keyed = exts[e].keyed
    BY <1>2, <1>3 DEF ExtRecord
  <2> HIDE DEF x, e
  <2> QED
    BY <1>1, <2>1, <2>2, TransactKeepsNames
<1>6. CASE Transact(o, [exts EXCEPT ![e].keyed = TRUE])
  <2> DEFINE x == [exts[e] EXCEPT !.keyed = TRUE]
  <2>1. Transact(o, [exts EXCEPT ![e] = x])
    BY <1>6
  <2>2. e \in DOMAIN exts =>
          /\ x \in ExtRecord /\ x.sender = exts[e].sender /\ x.by = exts[e].by
          /\ x.owners = exts[e].owners /\ x.projects = exts[e].projects /\ x.keyed = TRUE
    BY <1>3 DEF ExtRecord
  <2> HIDE DEF x, e
  <2> QED
    BY <1>1, <2>1, <2>2, TransactKeepsNames
<1> QED
  BY <1>4, <1>5, <1>6, Zenon DEF Allow

LEMMA PostBuildKeepsNames ==
  ASSUME DeploymentInv, NamesExist, NEW o \in Operators, AllowTeeVersion(o) \/ SetTeeGovernance(o)
  PROVE  NamesExist'
<1> DEFINE e == node.ext
<1>1. bound' = bound /\ UNCHANGED hostVars
  BY DEF AllowTeeVersion, SetTeeGovernance
<1>2. e \in DOMAIN exts => exts[e] \in ExtRecord
  BY TypeParts, ElementOfSeq DEF DeploymentInv
<1>3. CASE AllowTeeVersion(o)
  <2> DEFINE x == [exts[e] EXCEPT !.version = TRUE]
  <2>1. Transact(o, [exts EXCEPT ![e] = x])
    BY <1>3 DEF AllowTeeVersion
  <2>2. e \in DOMAIN exts =>
          /\ x \in ExtRecord /\ x.sender = exts[e].sender /\ x.by = exts[e].by
          /\ x.owners = exts[e].owners /\ x.projects = exts[e].projects /\ x.keyed = exts[e].keyed
    BY <1>2 DEF ExtRecord
  <2> HIDE DEF x, e
  <2> QED
    BY <1>1, <2>1, <2>2, TransactKeepsNames
<1>4. CASE SetTeeGovernance(o)
  <2> DEFINE x == [exts[e] EXCEPT !.governance = ToolGovernance]
  <2>1. Transact(o, [exts EXCEPT ![e] = x])
    BY <1>4 DEF SetTeeGovernance
  <2>2. ToolGovernance \in Governances
    BY DEF ToolGovernance, Governances, DeploymentInv, TypeOK
  <2>3. e \in DOMAIN exts =>
          /\ x \in ExtRecord /\ x.sender = exts[e].sender /\ x.by = exts[e].by
          /\ x.owners = exts[e].owners /\ x.projects = exts[e].projects /\ x.keyed = exts[e].keyed
    BY <1>2, <2>2 DEF ExtRecord
  <2> HIDE DEF x, e
  <2> QED
    BY <1>1, <2>1, <2>3, TransactKeepsNames
<1> QED
  BY <1>3, <1>4

\* The steps that leave the registry, the senders and the file alone, whatever
\* becomes of their script.
LEMMA PlainStepKeepsNames ==
  ASSUME DeploymentInv, NamesExist, NEW o \in Operators, NEW r \in RunRecord, r.sender = run[o].sender,
         Done(o, r) \/ Becomes(o, r) \/ Abort(o),
         exts' = exts, bound' = bound, file' = file, node'.ext \in {node.ext, file.ext}
  PROVE  NamesExist'
<1>1. bound \in Seq(Nat) /\ Len(bound) \in Nat /\ run[o].sender <= Len(bound)
  BY TypeParts DEF DeploymentInv, NamesExist
<1>2. \A p \in Operators : run'[p].sender <= Len(bound')
  BY <1>1, MovedSenders DEF DeploymentInv, NamesExist
<1>3. ExtsGrow /\ Len(exts') = Len(exts)
  BY SameExts DEF DeploymentInv
<1> QED
  BY <1>1, <1>2, <1>3, NamesStay

LEMMA FailuresKeepNames ==
  ASSUME DeploymentInv, NamesExist, NEW o \in Operators,
         \/ DeployFails(o) \/ RegisterFails(o) \/ StartFails(o) \/ PostBuildFails(o)
         \/ SetExtensionIdFails(o) \/ SendFails(o) \/ LookFails(o)
  PROVE  NamesExist'
<1>1. Abort(o) /\ UNCHANGED <<chainVars, hostVars>>
  <2>1. CASE DeployFails(o) \/ RegisterFails(o)
    BY <2>1, Zenon DEF DeployFails, RegisterFails
  <2>2. CASE StartFails(o) \/ SetExtensionIdFails(o) \/ SendFails(o)
    BY <2>2, Zenon DEF StartFails, SetExtensionIdFails, SendFails
  <2>3. CASE PostBuildFails(o) \/ LookFails(o)
    BY <2>3, Zenon DEF PostBuildFails, LookFails, chainVars, hostVars
  <2> QED
    BY <2>1, <2>2, <2>3
<1>2. exts' = exts /\ bound' = bound /\ file' = file /\ node' = node
  BY <1>1 DEF chainVars, hostVars
<1>3. run[o] \in RunRecord
  BY TypeParts DEF DeploymentInv
<1> QED
  BY <1>1, <1>2, <1>3, PlainStepKeepsNames

LEMMA PlainStepsKeepNames ==
  ASSUME DeploymentInv, NamesExist, NEW o \in Operators,
         \/ Start(o) \/ Stop(o) \/ RegisterTee(o) \/ Send(o)
  PROVE  NamesExist'
<1>1. exts' = exts /\ bound' = bound /\ file' = file
  BY Zenon DEF Start, Stop, RegisterTee, Send, chainVars, hostVars
<1>2. Done(o, run[o]) \/ Abort(o)
  BY Zenon DEF Start, Stop, RegisterTee, Send
<1>3. node'.ext \in {node.ext, file.ext}
  <2>1. CASE Start(o)
    <3>1. node' = node \/ node' = NewNode
      BY <2>1, Zenon DEF Start
    <3> QED
      BY <3>1 DEF NewNode
  <2>2. CASE Stop(o)
    <3>1. node' = [node EXCEPT !.up = FALSE]
      BY <2>2 DEF Stop
    <3> QED
      BY <3>1, TypeParts DEF DeploymentInv
  <2>3. CASE RegisterTee(o) \/ Send(o)
    BY <2>3, Zenon DEF RegisterTee, Send, hostVars
  <2> QED
    BY <2>1, <2>2, <2>3
<1>4. run[o] \in RunRecord
  BY TypeParts DEF DeploymentInv
<1> QED
  BY <1>1, <1>2, <1>3, <1>4, PlainStepKeepsNames

LEMMA PauseStepsKeepNames ==
  ASSUME DeploymentInv, NamesExist, NEW o \in Operators,
         Look(o) \/ List(o) \/ \E tee \in run[o].stale : Pause(o, tee)
  PROVE  NamesExist'
<1>1. exts' = exts /\ bound' = bound /\ file' = file /\ node' = node
  BY Zenon DEF Look, List, Pause, chainVars, hostVars
<1>2. run[o] \in RunRecord /\ node.tee \in Nat /\ 0 \in Nat
  BY TypeParts DEF DeploymentInv
<1>3. \E r \in RunRecord : r.sender = run[o].sender /\ (Done(o, r) \/ Becomes(o, r) \/ Abort(o))
  <2>1. CASE Look(o)
    <3>1. PICK c \in {0, node.tee} : Done(o, [run[o] EXCEPT !.current = c, !.ext = file.ext])
      BY <2>1, Zenon DEF Look
    <3>2. c \in Nat /\ file.ext \in Nat
      BY <1>2, <2>1, <3>1, TypeParts DEF Look, WellFormed, DeploymentInv
    <3> DEFINE r == [run[o] EXCEPT !.current = c, !.ext = file.ext]
    <3>3. r \in RunRecord /\ r.sender = run[o].sender
      BY <1>2, <3>2 DEF RunRecord
    <3> HIDE DEF r
    <3>4. Done(o, r)
      BY <3>1 DEF r
    <3> QED
      BY <3>3, <3>4
  <2>2. CASE List(o)
    <3> DEFINE r == [run[o] EXCEPT !.stale = StaleOf(o), !.todo = Tail(@)]
    <3>1. Abort(o) \/ Becomes(o, r)
      BY <2>2, Zenon DEF List, Abort
    <3>2. StaleOf(o) \in SUBSET Nat
      BY TypeParts DEF DeploymentInv, StaleOf
    <3>3. run[o].todo # <<>> /\ run[o].todo \in Seq(Steps)
      BY <1>2, <2>2, AtValue DEF List, DeploymentInv, RunRecord
    <3>4. Tail(run[o].todo) \in Seq(Steps)
      BY <3>3
    <3>5. r \in RunRecord /\ r.sender = run[o].sender
      BY <1>2, <3>2, <3>4 DEF RunRecord
    <3> HIDE DEF r
    <3> QED
      BY <1>2, <3>1, <3>5
  <2>3. ASSUME NEW tee \in run[o].stale, Pause(o, tee)
        PROVE  \E r \in RunRecord : r.sender = run[o].sender /\ (Done(o, r) \/ Becomes(o, r) \/ Abort(o))
    <3> DEFINE rest == run[o].stale \ {tee}
               r == [run[o] EXCEPT !.stale = rest]
    <3>1. Abort(o) \/ Becomes(o, r)
      BY <2>3, Zenon DEF Pause, Abort
    <3>2. rest \in SUBSET Nat
      BY <1>2 DEF RunRecord
    <3> HIDE DEF rest
    <3>3. r \in RunRecord /\ r.sender = run[o].sender
      BY <1>2, <3>2 DEF RunRecord
    <3> HIDE DEF r
    <3> QED
      BY <1>2, <3>1, <3>3
  <2> QED
    BY <2>1, <2>2, <2>3
<1> QED
  BY <1>1, <1>3, PlainStepKeepsNames

LEMMA DeployKeepsNames ==
  ASSUME DeploymentInv, NamesExist, NEW o \in Operators, Deploy(o)
  PROVE  NamesExist'
<1> DEFINE n == Len(bound')
           r == [run[o] EXCEPT !.sender = n]
<1>1. /\ bound' = Append(bound, 0) /\ exts' = exts /\ file' = file /\ node' = node
      /\ Done(o, r) \/ Abort(o)
  BY Zenon DEF Deploy, hostVars
<1>2. run[o] \in RunRecord /\ bound \in Seq(Nat) /\ Len(bound) \in Nat
  BY TypeParts DEF DeploymentInv
<1>3. bound' \in Seq(Nat) /\ n = Len(bound) + 1 /\ n \in Nat
  BY <1>1, <1>2
<1> HIDE DEF n
<1>4. r \in RunRecord /\ r.sender = n
  BY <1>2, <1>3 DEF RunRecord
<1> HIDE DEF r
<1>5. n = Len(bound') /\ Len(bound) <= Len(bound') /\ r.sender <= Len(bound')
  BY <1>2, <1>3, <1>4 DEF n
<1>6. \A p \in Operators : run'[p].sender <= Len(bound')
  BY <1>1, <1>3, <1>4, <1>5, MovedSenders DEF DeploymentInv, NamesExist
<1>7. ExtsGrow /\ Len(exts') = Len(exts)
  BY <1>1, SameExts DEF DeploymentInv
<1> QED
  BY <1>1, <1>3, <1>5, <1>6, <1>7, NamesStay

LEMMA RegisterKeepsNames ==
  ASSUME DeploymentInv, NamesExist, NEW o \in Operators, Register(o)
  PROVE  NamesExist'
<1> DEFINE x == Registered(run[o].sender)
           n == Len(exts')
           r == [run[o] EXCEPT !.ext = n, !.key = key]
<1>1. /\ At(o, "register") /\ exts' = Append(exts, x) /\ bound' = bound /\ file' = file /\ node' = node
      /\ Done(o, r) \/ Abort(o)
  BY Zenon DEF Register, hostVars
<1>2. run[o] \in RunRecord /\ run[o].todo # <<>> /\ Head(run[o].todo) = "register"
  BY <1>1, AtValue DEF DeploymentInv
<1>3. run[o].sender \in Nat \ {0} /\ key \in Keys
  <2>1. Prepared(run[o])
    BY DEF DeploymentInv, RunsInv
  <2> QED
    BY <1>2, <2>1, TypeParts DEF Prepared, RunRecord, DeploymentInv
<1>4. x \in ExtRecord /\ x.sender = run[o].sender
  BY <1>3 DEF Registered, ExtRecord, Governances
<1> HIDE DEF x
<1>5. /\ ExtsGrow /\ Len(exts') = Len(exts) + 1 /\ Len(exts) \in Nat /\ exts'[Len(exts) + 1] = x
      /\ \A i \in DOMAIN exts : exts'[i] = exts[i]
  BY <1>1, <1>4, AppendedExts DEF DeploymentInv
<1>6. n \in Nat
  BY <1>5
<1> HIDE DEF n
<1>7. r \in RunRecord /\ r.sender = run[o].sender
  BY <1>2, <1>3, <1>6 DEF RunRecord
<1> HIDE DEF r
<1>8. bound \in Seq(Nat) /\ Len(bound) \in Nat /\ run[o].sender <= Len(bound)
  BY TypeParts DEF DeploymentInv, NamesExist
<1>9. \A p \in Operators : run'[p].sender <= Len(bound')
  BY <1>1, <1>7, <1>8, MovedSenders DEF DeploymentInv, NamesExist
<1>10. SendersExist'
  <2>1. DOMAIN exts' = 1 .. Len(exts) + 1 /\ DOMAIN exts = 1 .. Len(exts)
    BY <1>5, TypeParts DEF ExtsGrow, DeploymentInv
  <2>2. x.sender \in 1 .. Len(bound)
    BY <1>3, <1>4, <1>8
  <2>3. \A i \in DOMAIN exts : exts[i].sender \in 1 .. Len(bound)
    BY DEF SendersExist, Senders, NamesExist
  <2>4. ASSUME NEW i \in DOMAIN exts' PROVE exts'[i].sender \in 1 .. Len(bound')
    <3>1. i \in DOMAIN exts \/ i = Len(exts) + 1
      BY <1>5, <2>1
    <3> QED
      BY <1>1, <1>5, <2>2, <2>3, <3>1
  <2> QED
    BY <2>4 DEF SendersExist, Senders
<1>11. file.ext \in Int /\ node.ext \in Int
  BY TypeParts DEF DeploymentInv
<1> QED
  BY <1>1, <1>5, <1>9, <1>10, <1>11 DEF NamesExist, FileIsThere

LEMMA WriteKeepsNames ==
  ASSUME DeploymentInv, NamesExist, NEW o \in Operators, Write(o)
  PROVE  NamesExist'
<1> DEFINE r == run[o]
           q == [Idle EXCEPT !.full = r.full, !.todo = r.todo, !.calm = r.calm]
<1>1. /\ At(o, "write") /\ exts' = exts /\ bound' = bound /\ node' = node
      /\ Done(o, q) \/ Abort(o)
      /\ file'.exists /\ file'.ext \in {Absent, Malformed, r.ext}
  <2>1. /\ At(o, "write") /\ exts' = exts /\ bound' = bound /\ node' = node
        /\ Done(o, q) \/ Abort(o)
    BY Zenon DEF Write, chainVars
  <2>2. \/ file' = [exists |-> TRUE, ext |-> r.ext, sender |-> r.sender, edited |-> FALSE]
        \/ file' \in [exists : {TRUE}, ext : {Absent, Malformed}, sender : {Absent}, edited : {FALSE}]
        \/ file' \in [exists : {TRUE}, ext : {r.ext}, sender : {Absent, Malformed}, edited : {FALSE}]
    BY Zenon DEF Write
  <2>3. file'.exists /\ file'.ext \in {Absent, Malformed, r.ext}
    <3> HIDE DEF r
    <3>1. CASE file' = [exists |-> TRUE, ext |-> r.ext, sender |-> r.sender, edited |-> FALSE]
      BY <3>1
    <3>2. CASE file' \in [exists : {TRUE}, ext : {Absent, Malformed}, sender : {Absent}, edited : {FALSE}]
      BY <3>2
    <3>3. CASE file' \in [exists : {TRUE}, ext : {r.ext}, sender : {Absent, Malformed}, edited : {FALSE}]
      BY <3>3
    <3> QED
      BY <2>2, <3>1, <3>2, <3>3 DEF r
  <2> QED
    BY <2>1, <2>3
<1>2. r \in RunRecord /\ r.todo # <<>> /\ Head(r.todo) = "write"
  BY <1>1, AtValue DEF DeploymentInv
<1>3. r.ext \in DOMAIN exts
  <2>1. Prepared(r)
    BY DEF DeploymentInv, RunsInv
  <2> QED
    BY <1>2, <2>1 DEF Prepared, SettingUp
<1>4. exts \in Seq(ExtRecord) /\ Len(exts) \in Nat /\ bound \in Seq(Nat) /\ Len(bound) \in Nat
  BY TypeParts DEF DeploymentInv
<1>5. file'.ext <= Len(exts)
  BY <1>1, <1>3, <1>4 DEF Absent, Malformed
<1>6. q \in RunRecord /\ q.sender = 0
  BY <1>2, IdleValue DEF RunRecord
<1> HIDE DEF q
<1>7. \A p \in Operators : run'[p].sender <= Len(bound')
  BY <1>1, <1>4, <1>6, MovedSenders DEF DeploymentInv, NamesExist
<1> QED
  BY <1>1, <1>5, <1>7 DEF NamesExist, FileIsThere, SendersExist, Senders

LEMMA SetExtensionIdKeepsNames ==
  ASSUME DeploymentInv, NamesExist, NEW o \in Operators, SetExtensionId(o)
  PROVE  NamesExist'
<1> DEFINE s == file.sender
           r == [run[o] EXCEPT !.sender = s]
<1>1. /\ s \in Senders /\ exts' = exts /\ file' = file /\ node' = node /\ (Done(o, r) \/ Abort(o))
      /\ bound' = bound \/ bound' = [bound EXCEPT ![s] = FoundBy(s)]
  BY Zenon DEF SetExtensionId, hostVars
<1>2. run[o] \in RunRecord /\ bound \in Seq(Nat) /\ Len(bound) \in Nat /\ s \in 1 .. Len(bound) /\ s \in Nat
  BY <1>1, TypeParts DEF DeploymentInv, Senders
<1>3. Len(bound') = Len(bound)
  BY <1>1, <1>2
<1>4. bound' \in Seq(Nat)
  <2>1. DeploymentInv'
    BY SetExtensionIdKeepsInv
  <2> QED
    BY <2>1 DEF DeploymentInv, TypeOK
<1> HIDE DEF s
<1>5. r \in RunRecord /\ r.sender = s
  BY <1>2 DEF RunRecord
<1> HIDE DEF r
<1>6. \A p \in Operators : run'[p].sender <= Len(bound')
  BY <1>1, <1>2, <1>3, <1>4, <1>5, MovedSenders DEF DeploymentInv, NamesExist
<1>7. ExtsGrow /\ Len(exts') = Len(exts)
  BY <1>1, SameExts DEF DeploymentInv
<1> QED
  BY <1>1, <1>2, <1>3, <1>4, <1>6, <1>7, NamesStay

LEMMA BeginKeepsNames ==
  ASSUME DeploymentInv, NamesExist, NEW o \in Operators, NEW plan \in Names, Begin(o, plan)
  PROVE  NamesExist'
<1>1. exts' = exts /\ bound' = bound /\ file' = file /\ node' = node
  BY Zenon DEF Begin, chainVars, hostVars
<1>2. PICK s \in IF plan = "hand" THEN Senders ELSE {0} :
        run' = [run EXCEPT ![o] = [Idle EXCEPT !.full = (plan = "setup"), !.todo = Plans[plan], !.sender = s]]
  BY DEF Begin
<1> DEFINE b == plan = "setup"
           t == Plans[plan]
           r == [Idle EXCEPT !.full = b, !.todo = t, !.sender = s]
<1>3. bound \in Seq(Nat) /\ Len(bound) \in Nat /\ run \in [Operators -> RunRecord]
  BY TypeParts DEF DeploymentInv
<1>4. s <= Len(bound)
  BY <1>2, <1>3 DEF Senders
<1>5. run' = [run EXCEPT ![o] = r]
  BY <1>2
<1> HIDE DEF b, t
<1>6. r.sender = s
  BY DEF Idle
<1> HIDE DEF r
<1>7. run'[o] = r /\ \A p \in Operators \ {o} : run'[p] = run[p]
  BY <1>3, <1>5
<1>8. \A p \in Operators : run'[p].sender <= Len(bound')
  BY <1>1, <1>4, <1>6, <1>7 DEF NamesExist
<1>9. ExtsGrow /\ Len(exts') = Len(exts)
  BY <1>1, SameExts DEF DeploymentInv
<1> QED
  BY <1>1, <1>3, <1>8, <1>9, NamesStay

LEMMA DisturbKeepsSenders ==
  ASSUME DeploymentInv, NamesExist, Disturb, bound' = bound
  PROVE  \A p \in Operators : run'[p].sender <= Len(bound')
<1>1. ASSUME NEW p \in Operators PROVE run'[p].sender <= Len(bound)
  <2>1. run[p] \in RunRecord /\ run'[p] = Disturbed(run[p])
    BY TypeParts DEF Disturb, DeploymentInv
  <2>2. run'[p].sender = run[p].sender
    BY <2>1, DisturbedValue
  <2> QED
    BY <2>2 DEF NamesExist
<1> QED
  BY <1>1

LEMMA FaultsKeepNames ==
  ASSUME DeploymentInv, NamesExist, Crash \/ EditFile \/ SwapKey
  PROVE  NamesExist'
<1>1. exts' = exts /\ bound' = bound /\ Disturb
  BY Zenon DEF Crash, EditFile, SwapKey, chainVars
<1>2. \A p \in Operators : run'[p].sender <= Len(bound')
  BY <1>1, DisturbKeepsSenders
<1>3. node'.ext = node.ext
  <2>1. CASE Crash
    <3>1. node' = [node EXCEPT !.up = FALSE]
      BY <2>1 DEF Crash
    <3> QED
      BY <3>1, TypeParts DEF DeploymentInv
  <2> QED
    BY <2>1 DEF EditFile, SwapKey
<1>4. file'.ext <= Len(exts) /\ FileIsThere'
  <2>1. CASE Crash \/ SwapKey
    BY <2>1, Zenon DEF Crash, SwapKey, NamesExist, FileIsThere
  <2>2. CASE EditFile
    <3>1. PICK id \in DOMAIN exts \cup {Malformed} : file' = [file EXCEPT !.ext = id, !.edited = TRUE]
      BY <2>2 DEF EditFile
    <3>2. exts \in Seq(ExtRecord) /\ Len(exts) \in Nat
      BY TypeParts DEF DeploymentInv
    <3>3. id <= Len(exts)
      BY <3>1, <3>2 DEF Malformed
    <3>4. file'.ext = id /\ file'.exists = file.exists /\ file.exists
      BY <2>2, <3>1, TypeParts DEF EditFile, DeploymentInv
    <3> QED
      BY <3>3, <3>4 DEF FileIsThere
  <2> QED
    BY <2>1, <2>2
<1> QED
  BY <1>1, <1>2, <1>3, <1>4 DEF NamesExist, SendersExist, Senders

-----------------------------------------------------------------------------
(* The theorems *)

LEMMA StepKeepsNames == ASSUME DeploymentInv, NamesExist, [Next]_vars PROVE NamesExist'
<1>1. ASSUME NEW o \in Operators, Work(o) PROVE NamesExist'
  <2>1. CASE \/ DeployFails(o) \/ RegisterFails(o) \/ StartFails(o) \/ PostBuildFails(o)
             \/ SetExtensionIdFails(o) \/ SendFails(o) \/ LookFails(o)
    BY <2>1, FailuresKeepNames
  <2>2. CASE Deploy(o) \/ Register(o) \/ Allow(o) \/ Write(o)
    BY <2>2, DeployKeepsNames, RegisterKeepsNames, AllowKeepsNames, WriteKeepsNames
  <2>3. CASE Start(o) \/ Stop(o) \/ RegisterTee(o) \/ Send(o)
    BY <2>3, PlainStepsKeepNames
  <2>4. CASE AllowTeeVersion(o) \/ SetTeeGovernance(o)
    BY <2>4, PostBuildKeepsNames
  <2>5. CASE SetExtensionId(o)
    BY <2>5, SetExtensionIdKeepsNames
  <2>6. CASE Look(o) \/ List(o) \/ \E tee \in run[o].stale : Pause(o, tee)
    BY <2>6, PauseStepsKeepNames
  <2> QED
    BY <1>1, <2>1, <2>2, <2>3, <2>4, <2>5, <2>6 DEF Work
<1>2. ASSUME NEW o \in Operators, NEW plan \in Names, Begin(o, plan) PROVE NamesExist'
  BY <1>2, BeginKeepsNames
<1>3. CASE Crash \/ EditFile \/ SwapKey
  BY <1>3, FaultsKeepNames
<1>4. CASE UNCHANGED vars
  BY <1>4 DEF vars, NamesExist, SendersExist, Senders, FileIsThere
<1> QED
  BY <1>1, <1>2, <1>3, <1>4 DEF Next

LEMMA InitNamesExist == ASSUME Init PROVE NamesExist
<1>1. exts = <<>> /\ bound = <<>> /\ run = [o \in Operators |-> Idle]
  BY DEF Init
<1>2. file.ext = 0 /\ node.ext = 0
  BY DEF Init, Absent
<1>3. DOMAIN exts = {} /\ Len(exts) = 0 /\ Len(bound) = 0
  BY <1>1
<1> QED
  BY <1>1, <1>2, <1>3, IdleValue DEF NamesExist, SendersExist, FileIsThere, Absent

\* Scripts, nodes and the file never name a sender or an extension that the chain
\* does not have, whatever fails and whoever edits the file.
THEOREM NamesAlwaysExist == Spec => []NamesExist
<1>1. Init => DeploymentInv /\ NamesExist
  BY InitGivesInv, InitNamesExist
<1>2. DeploymentInv /\ NamesExist /\ [Next]_vars => (DeploymentInv /\ NamesExist)'
  BY StepKeepsInv, StepKeepsNames
<1> QED
  BY <1>1, <1>2, PTL DEF Spec

\* A clean verify-deploy means a file in order: its extension is on the chain with
\* its sender, EVM keys and the deployer of now as an owner (verify-deploy and the
\* checks of tools/pkg/validate), in whatever environment it is run.
THEOREM AuditsAreSound == Spec => []CleanAuditIsSound
<1>1. DeploymentInv /\ NamesExist => CleanAuditIsSound
  BY DisorderFails DEF CleanAuditIsSound, DeploymentInv, NamesExist
<1> QED
  BY <1>1, DeploymentInvariant, NamesAlwaysExist, PTL

\* R7 tells when setExtensionId binds the sender of the file to another extension,
\* or has done so, or else the register step fails (checks.go, InstructionSender.sol),
\* in every audit that reads the two extensions, whatever else it fails to read.
THEOREM AuditsTellBinding == Spec => []AuditTellsBinding
<1>1. ASSUME DeploymentInv, NamesExist PROVE AuditTellsBinding
  <2>1. TypeOK /\ BoundToFirst /\ FirstExists /\ SendersExist
    BY <1>1 DEF DeploymentInv, NamesExist
  <2> QED
    BY <2>1, UnboundWarns, Zenon DEF AuditTellsBinding
<1> QED
  BY <1>1, DeploymentInvariant, NamesAlwaysExist, PTL

\* deploy-contract's pre-flight and verify-deploy's deploy step refuse the same
\* worlds (validate.go and checks.go have three checks twice).
THEOREM PreflightsAlwaysAgree == Spec => []PreflightsAgree
BY SamePreflights, PTL

\* What is missed of the deployer's key is missed of the others, for the documented
\* values of LOCAL_MODE (three checks of checks.go read it, each in its own way).
THEOREM StepsAlwaysAgreeOnLocal == Spec => []StepsAgreeOnLocal
BY SameOnLocal, PTL
=============================================================================
