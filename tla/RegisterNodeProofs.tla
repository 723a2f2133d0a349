------------------------- MODULE RegisterNodeProofs -------------------------
(***************************************************************************)
(* Proofs about RegisterNode, for any number of machines, faults and       *)
(* attestation requests and for every value of -command: what the state    *)
(* file claims is on the chain, and a run without --resume that asked for  *)
(* a check and reports its machine has brought it to production.           *)
(***************************************************************************)
EXTENDS RegisterNode, TLAPS

\* Only machines that are registered are attested or checked.
RegistryInv ==
  /\ \A i \in DOMAIN attests : attests[i].tee \in registered
  /\ \A c \in DOMAIN checks : checks[c].tee \in registered

\* What a state, in the file or in memory, says of the chain.
Claims(state) ==
  /\ state.done \cap {"r", "R"} # {} => state.attest \in DOMAIN attests
  /\ "a" \in state.done => state.check \in DOMAIN checks

\* Nobody promotes without a check.
LateInv == \A op \in late : op.kind = "promote" => op.check \in DOMAIN checks

\* A check that a run has an id of is one of its machine.
OwnCheck(c) == c # 0 => c \in DOMAIN checks /\ checks[c].tee = teeID

\* A run that began without a file has made itself what it has, but for the id
\* that -i gives to a command without a.
RunInv ==
  pc # "down" /\ ~kept =>
    /\ pc = "load" => file = Empty
    /\ OwnCheck(mem.check)
    /\ "a" \in command => OwnCheck(check)
    /\ pc = "remove" /\ {"a", "p"} \subseteq command => teeID \in production

\* Between two runs there is no memory.
DownIsEmpty == pc = "down" => mem = Empty /\ check = 0

RegisterInv ==
  /\ TypeOK /\ RegistryInv /\ LateInv
  /\ file # Corrupt => Claims(file)
  /\ Claims(mem)
  /\ RunInv /\ DownIsEmpty
  /\ FreshSuccessIsProduction

\* The types, in two parts.
ChainType ==
  /\ registered \subseteq Tees /\ production \subseteq registered
  /\ attests \in Seq([tee : Tees, good : BOOLEAN])
  /\ checks \in Seq([tee : Tees, proof : {"none", "ready", "never"}])

RunType ==
  /\ file \in States \cup {Corrupt} /\ mem \in States
  /\ pc \in Points /\ command \in SUBSET Letters /\ kept \in BOOLEAN
  /\ teeID \in Tees /\ attest \in Nat /\ check \in Nat

\* The chain forgets nothing.
ChainGrows ==
  /\ registered \subseteq registered' /\ production \subseteq production'
  /\ \A i \in DOMAIN attests : i \in DOMAIN attests' /\ attests'[i].tee = attests[i].tee
  /\ \A c \in DOMAIN checks : c \in DOMAIN checks' /\ checks'[c].tee = checks[c].tee

ChainStep == ChainGrows /\ ChainType' /\ RegistryInv'

USE RegisterAssumption

-----------------------------------------------------------------------------
(* The chain *)

LEMMA TypeParts ==
  TypeOK <=> /\ ChainType /\ RunType /\ tee \in Tees /\ late \subseteq Ops
             /\ reported \subseteq [tee : Tees, kept : BOOLEAN, command : SUBSET Letters]
             /\ faults \in 0 .. MaxFaults
BY DEF TypeOK, ChainType, RunType

\* The chain as it is.
LEMMA SameChain ==
  ASSUME TypeOK, RegistryInv, UNCHANGED chainVars
  PROVE  ChainStep
<1>1. registered' = registered /\ production' = production /\ attests' = attests /\ checks' = checks
  BY DEF chainVars
<1>2. ChainType'
  BY <1>1, TypeParts DEF ChainType
<1>3. RegistryInv' /\ ChainGrows
  BY <1>1 DEF RegistryInv, ChainGrows
<1> QED
  BY <1>2, <1>3 DEF ChainStep

\* A request for an attestation, the registration included.
LEMMA AskStep ==
  ASSUME TypeOK, RegistryInv, NEW op \in Ops, op.kind \in {"register", "attest"}, Apply(op)
  PROVE  ChainStep /\ Len(attests') \in DOMAIN attests' /\ Len(attests') \in Nat
<1> DEFINE x == [tee |-> op.tee, good |-> TRUE]
<1>1. /\ attests' = Append(attests, x) /\ checks' = checks /\ production' = production
      /\ registered \subseteq registered' /\ registered' \subseteq Tees /\ op.tee \in registered'
  BY TypeParts DEF Apply, Valid, Ops, ChainType
<1>2. x \in [tee : Tees, good : BOOLEAN] /\ x.tee = op.tee
  BY DEF Ops
<1> HIDE DEF x
<1>3. attests \in Seq([tee : Tees, good : BOOLEAN])
  BY TypeParts DEF ChainType
<1>4. /\ attests' \in Seq([tee : Tees, good : BOOLEAN])
      /\ Len(attests') = Len(attests) + 1 /\ Len(attests) \in Nat
      /\ attests'[Len(attests) + 1] = x
      /\ \A i \in 1 .. Len(attests) : attests'[i] = attests[i]
  BY <1>1, <1>2, <1>3
<1>5. DOMAIN attests = 1 .. Len(attests) /\ DOMAIN attests' = 1 .. Len(attests')
  BY <1>3, <1>4
<1>6. ChainType'
  BY <1>1, <1>4, TypeParts DEF ChainType
<1>7. ChainGrows
  BY <1>1, <1>4, <1>5 DEF ChainGrows
<1>8. RegistryInv'
  <2>1. ASSUME NEW i \in DOMAIN attests' PROVE attests'[i].tee \in registered'
    <3>1. i \in 1 .. Len(attests) \/ i = Len(attests) + 1
      BY <1>4, <1>5
    <3> QED
      BY <1>1, <1>2, <1>4, <1>5, <3>1 DEF RegistryInv
  <2>2. \A c \in DOMAIN checks' : checks'[c].tee \in registered'
    BY <1>1 DEF RegistryInv
  <2> QED
    BY <2>1, <2>2 DEF RegistryInv
<1> QED
  BY <1>4, <1>5, <1>6, <1>7, <1>8 DEF ChainStep

\* One element of a sequence, and another in its place.
LEMMA ElementOfSeq ==
  ASSUME NEW S, NEW s \in Seq(S), NEW i \in DOMAIN s
  PROVE  s[i] \in S
OBVIOUS

LEMMA ExceptSeq ==
  ASSUME NEW S, NEW s \in Seq(S), NEW i \in DOMAIN s, NEW y \in S
  PROVE  /\ [s EXCEPT ![i] = y] \in Seq(S) /\ DOMAIN [s EXCEPT ![i] = y] = DOMAIN s
         /\ \A j \in DOMAIN s : [s EXCEPT ![i] = y][j] = IF j = i THEN y ELSE s[j]
OBVIOUS

\* A challenge is no longer good, or a proof comes or not: the rest stays.
LEMMA ChallengeSpent ==
  ASSUME attests \in Seq([tee : Tees, good : BOOLEAN]), NEW i \in DOMAIN attests,
         attests' = [attests EXCEPT ![i].good = FALSE]
  PROVE  /\ attests' \in Seq([tee : Tees, good : BOOLEAN]) /\ DOMAIN attests' = DOMAIN attests
         /\ \A j \in DOMAIN attests : attests'[j].tee = attests[j].tee
<1> DEFINE S == [tee : Tees, good : BOOLEAN]
           y == [attests[i] EXCEPT !.good = FALSE]
<1>1. attests[i] \in S
  BY ElementOfSeq
<1>2. y \in S /\ y.tee = attests[i].tee /\ attests' = [attests EXCEPT ![i] = y] /\ attests \in Seq(S)
  BY <1>1
<1> HIDE DEF y, S
<1>3. attests' \in Seq(S) /\ DOMAIN attests' = DOMAIN attests
  <2> DEFINE seq == [attests EXCEPT ![i] = y]
  <2>1. attests \in Seq(S) /\ i \in DOMAIN attests /\ y \in S
    BY <1>2
  <2>2. seq \in Seq(S) /\ DOMAIN seq = DOMAIN attests
    BY <2>1, ExceptSeq
  <2>3. attests' = seq
    BY <1>2
  <2> HIDE DEF seq
  <2> QED
    BY <2>2, <2>3
<1>4. \A j \in DOMAIN attests : attests'[j] = IF j = i THEN y ELSE attests[j]
  BY <1>2, ExceptSeq
<1>5. \A j \in DOMAIN attests : attests'[j].tee = attests[j].tee
  BY <1>2, <1>4
<1> QED
  BY <1>3, <1>5 DEF S

LEMMA CheckSettled ==
  ASSUME checks \in Seq([tee : Tees, proof : {"none", "ready", "never"}]), NEW i \in DOMAIN checks,
         NEW proof \in {"ready", "never"}, checks' = [checks EXCEPT ![i].proof = proof]
  PROVE  /\ checks' \in Seq([tee : Tees, proof : {"none", "ready", "never"}]) /\ DOMAIN checks' = DOMAIN checks
         /\ \A j \in DOMAIN checks : checks'[j].tee = checks[j].tee
<1> DEFINE S == [tee : Tees, proof : {"none", "ready", "never"}]
           y == [checks[i] EXCEPT !.proof = proof]
<1>1. checks[i] \in S
  BY ElementOfSeq
<1>2. y \in S /\ y.tee = checks[i].tee /\ checks' = [checks EXCEPT ![i] = y] /\ checks \in Seq(S)
  BY <1>1
<1> HIDE DEF y, S
<1>3. checks' \in Seq(S) /\ DOMAIN checks' = DOMAIN checks
  <2> DEFINE seq == [checks EXCEPT ![i] = y]
  <2>1. checks \in Seq(S) /\ i \in DOMAIN checks /\ y \in S
    BY <1>2
  <2>2. seq \in Seq(S) /\ DOMAIN seq = DOMAIN checks
    BY <2>1, ExceptSeq
  <2>3. checks' = seq
    BY <1>2
  <2> HIDE DEF seq
  <2> QED
    BY <2>2, <2>3
<1>4. \A j \in DOMAIN checks : checks'[j] = IF j = i THEN y ELSE checks[j]
  BY <1>2, ExceptSeq
<1>5. \A j \in DOMAIN checks : checks'[j].tee = checks[j].tee
  BY <1>2, <1>4
<1> QED
  BY <1>3, <1>5 DEF S

\* A request for a check, which uses the challenge up.
LEMMA CheckStep ==
  ASSUME TypeOK, RegistryInv, NEW op \in Ops, op.kind = "check", Apply(op)
  PROVE  /\ ChainStep /\ Len(checks') \in DOMAIN checks' /\ Len(checks') \in Nat
         /\ checks'[Len(checks')].tee = op.tee /\ production' = production
<1> DEFINE x == [tee |-> op.tee, proof |-> "none"]
           a == op.attest
<1>1. /\ checks' = Append(checks, x) /\ attests' = [attests EXCEPT ![a].good = FALSE]
      /\ production' = production /\ registered' = registered
      /\ a \in DOMAIN attests /\ attests[a].tee = op.tee
  BY DEF Apply, Valid
<1>2. x \in [tee : Tees, proof : {"none", "ready", "never"}] /\ x.tee = op.tee
  BY DEF Ops
<1> HIDE DEF x, a
<1>3. /\ attests \in Seq([tee : Tees, good : BOOLEAN])
      /\ checks \in Seq([tee : Tees, proof : {"none", "ready", "never"}])
  BY TypeParts DEF ChainType
<1>4. /\ checks' \in Seq([tee : Tees, proof : {"none", "ready", "never"}])
      /\ Len(checks') = Len(checks) + 1 /\ Len(checks) \in Nat
      /\ checks'[Len(checks) + 1] = x
      /\ \A c \in 1 .. Len(checks) : checks'[c] = checks[c]
  BY <1>1, <1>2, <1>3
<1>5. DOMAIN checks = 1 .. Len(checks) /\ DOMAIN checks' = 1 .. Len(checks')
  BY <1>3, <1>4
<1>6. /\ attests' \in Seq([tee : Tees, good : BOOLEAN]) /\ DOMAIN attests' = DOMAIN attests
      /\ \A i \in DOMAIN attests : attests'[i].tee = attests[i].tee
  BY <1>1, <1>3, ChallengeSpent
<1>7. ChainType'
  BY <1>1, <1>4, <1>6, TypeParts DEF ChainType
<1>8. ChainGrows
  BY <1>1, <1>4, <1>5, <1>6 DEF ChainGrows
<1>9. RegistryInv'
  <2>1. op.tee \in registered'
    BY <1>1 DEF RegistryInv
  <2>2. ASSUME NEW c \in DOMAIN checks' PROVE checks'[c].tee \in registered'
    <3>1. c \in 1 .. Len(checks) \/ c = Len(checks) + 1
      BY <1>4, <1>5
    <3> QED
      BY <1>1, <1>2, <1>4, <1>5, <2>1, <3>1 DEF RegistryInv
  <2>3. \A i \in DOMAIN attests' : attests'[i].tee \in registered'
    BY <1>1, <1>6 DEF RegistryInv
  <2> QED
    BY <2>2, <2>3 DEF RegistryInv
<1> QED
  BY <1>1, <1>2, <1>4, <1>5, <1>7, <1>8, <1>9 DEF ChainStep

\* A promotion.
LEMMA PromoteStep ==
  ASSUME TypeOK, RegistryInv, NEW op \in Ops, op.kind = "promote", op.check \in DOMAIN checks, Apply(op)
  PROVE  ChainStep /\ checks[op.check].tee \in production'
<1>1. /\ checks' = checks /\ attests' = attests /\ registered' = registered
      /\ production' = production \cup {checks[op.check].tee}
  BY DEF Apply
<1>2. checks[op.check].tee \in registered
  BY DEF RegistryInv
<1>3. ChainType'
  BY <1>1, <1>2, TypeParts DEF ChainType
<1>4. ChainGrows /\ RegistryInv'
  BY <1>1 DEF ChainGrows, RegistryInv
<1> QED
  BY <1>1, <1>3, <1>4 DEF ChainStep

\* Any transaction.
LEMMA ApplyStep ==
  ASSUME TypeOK, RegistryInv, NEW op \in Ops, op.kind = "promote" => op.check \in DOMAIN checks, Apply(op)
  PROVE  ChainStep
<1>1. op.kind \in Kinds
  BY DEF Ops
<1> QED
  BY <1>1, AskStep, CheckStep, PromoteStep DEF Kinds

-----------------------------------------------------------------------------
(* What a step of the chain leaves of a run *)

\* The claims of a state stay true.
LEMMA ClaimsStay ==
  ASSUME ChainStep, file' = file, mem' = mem
  PROVE  /\ Claims(file) => Claims(file)'
         /\ Claims(mem) => Claims(mem)'
BY DEF ChainStep, ChainGrows, Claims

\* A step of the chain that no run takes part in.
LEMMA OutsideStep ==
  ASSUME RegisterInv, ChainStep, UNCHANGED <<file, runVars, reported>>, tee' \in Tees,
         late' \subseteq late, faults' \in 0 .. MaxFaults
  PROVE  RegisterInv'
<1>1. /\ file' = file /\ mem' = mem /\ pc' = pc /\ command' = command /\ kept' = kept
      /\ teeID' = teeID /\ attest' = attest /\ check' = check /\ reported' = reported
  BY DEF runVars
<1>2. TypeOK'
  <2>1. RunType'
    BY <1>1, TypeParts DEF RunType, RegisterInv
  <2>2. /\ ChainType' /\ late' \subseteq Ops
        /\ reported' \subseteq [tee : Tees, kept : BOOLEAN, command : SUBSET Letters]
    BY <1>1, TypeParts DEF RegisterInv, ChainStep
  <2> QED
    BY <2>1, <2>2 DEF TypeOK, ChainType, RunType
<1>3. LateInv'
  BY DEF LateInv, RegisterInv, ChainStep, ChainGrows
<1>4. (file' # Corrupt => Claims(file)') /\ Claims(mem)'
  BY <1>1, ClaimsStay DEF RegisterInv
<1>5. RunInv' /\ DownIsEmpty'
  BY <1>1 DEF RunInv, DownIsEmpty, RegisterInv, OwnCheck, ChainStep, ChainGrows
<1>6. FreshSuccessIsProduction'
  BY <1>1 DEF FreshSuccessIsProduction, RegisterInv, ChainStep, ChainGrows
<1> QED
  BY <1>2, <1>3, <1>4, <1>5, <1>6 DEF RegisterInv, ChainStep

LEMMA FaultCounts == ASSUME TypeOK, Fault \/ UNCHANGED faults PROVE faults' \in 0 .. MaxFaults
BY DEF TypeOK, Fault

LEMMA LandKeepsInv ==
  ASSUME RegisterInv, NEW op \in late, Land(op)
  PROVE  RegisterInv'
<1>1. /\ late' \subseteq late /\ tee' = tee /\ UNCHANGED <<file, runVars, reported>> /\ faults' = faults
      /\ Apply(op) \/ UNCHANGED chainVars
  BY DEF Land
<1>2. op \in Ops /\ (op.kind = "promote" => op.check \in DOMAIN checks)
  BY TypeParts DEF RegisterInv, LateInv
<1>3. ChainStep
  BY <1>1, <1>2, ApplyStep, SameChain DEF RegisterInv
<1> QED
  BY <1>1, <1>3, OutsideStep, TypeParts DEF RegisterInv

LEMMA ExpireKeepsInv ==
  ASSUME RegisterInv, NEW id \in DOMAIN attests, Expire(id)
  PROVE  RegisterInv'
<1>1. /\ late' = late /\ tee' = tee /\ UNCHANGED <<file, runVars, reported>> /\ Fault
      /\ registered' = registered /\ production' = production /\ checks' = checks
      /\ attests' = [attests EXCEPT ![id].good = FALSE]
  BY DEF Expire
<1>2. attests \in Seq([tee : Tees, good : BOOLEAN])
  BY TypeParts DEF ChainType, RegisterInv
<1>3. /\ attests' \in Seq([tee : Tees, good : BOOLEAN]) /\ DOMAIN attests' = DOMAIN attests
      /\ \A i \in DOMAIN attests : attests'[i].tee = attests[i].tee
  BY <1>1, <1>2, ChallengeSpent
<1>4. ChainType'
  BY <1>1, <1>3, TypeParts DEF ChainType, RegisterInv
<1>5. ChainGrows /\ RegistryInv'
  BY <1>1, <1>3 DEF ChainGrows, RegistryInv, RegisterInv
<1> QED
  BY <1>1, <1>4, <1>5, OutsideStep, TypeParts, FaultCounts DEF RegisterInv, ChainStep

\* A check gets a proof, or never will.
LEMMA ProofKeepsInv ==
  ASSUME RegisterInv, NEW c \in DOMAIN checks, Prove(c) \/ Spoil(c)
  PROVE  RegisterInv'
<1>1. /\ late' = late /\ tee' = tee /\ UNCHANGED <<file, runVars, reported>> /\ (Fault \/ UNCHANGED faults)
      /\ registered' = registered /\ production' = production /\ attests' = attests
      /\ \E proof \in {"ready", "never"} : checks' = [checks EXCEPT ![c].proof = proof]
  BY DEF Prove, Spoil
<1>2. PICK proof \in {"ready", "never"} : checks' = [checks EXCEPT ![c].proof = proof]
  BY <1>1
<1>3. checks \in Seq([tee : Tees, proof : {"none", "ready", "never"}])
  BY TypeParts DEF ChainType, RegisterInv
<1>4. /\ checks' \in Seq([tee : Tees, proof : {"none", "ready", "never"}]) /\ DOMAIN checks' = DOMAIN checks
      /\ \A i \in DOMAIN checks : checks'[i].tee = checks[i].tee
  BY <1>2, <1>3, CheckSettled
<1>5. ChainType'
  BY <1>1, <1>4, TypeParts DEF ChainType, RegisterInv
<1>6. ChainGrows /\ RegistryInv'
  BY <1>1, <1>4 DEF ChainGrows, RegistryInv, RegisterInv
<1> QED
  BY <1>1, <1>5, <1>6, OutsideStep, TypeParts, FaultCounts DEF RegisterInv, ChainStep

LEMMA RestartKeepsInv ==
  ASSUME RegisterInv, Restart
  PROVE  RegisterInv'
<1>1. /\ late' = late /\ UNCHANGED <<file, runVars, reported>> /\ faults' = faults /\ UNCHANGED chainVars
      /\ tee < MaxTees /\ tee' = tee + 1
  BY DEF Restart
<1>2. tee' \in Tees
  BY <1>1, TypeParts DEF Tees, RegisterInv
<1> QED
  BY <1>1, <1>2, SameChain, OutsideStep, TypeParts DEF RegisterInv
-----------------------------------------------------------------------------
(* The steps of a run *)

\* A run ends, or none has begun.
LEMMA DownStep ==
  ASSUME RegisterInv, ChainStep, Down, tee' = tee, late' \subseteq Ops, LateInv',
         file' \in States \cup {Corrupt}, file' # Corrupt => Claims(file)',
         reported' \subseteq [tee : Tees, kept : BOOLEAN, command : SUBSET Letters],
         FreshSuccessIsProduction', faults' \in 0 .. MaxFaults
  PROVE  RegisterInv'
<1>1. /\ pc' = "down" /\ command' = {} /\ kept' = FALSE /\ teeID' = 1
      /\ mem' = Empty /\ attest' = 0 /\ check' = 0
  BY DEF Down
<1>2. Empty \in States /\ 1 \in Tees
  BY DEF Empty, States, Tees
<1>3. RunType'
  BY <1>1, <1>2 DEF RunType, Points
<1>4. TypeOK'
  BY <1>3, TypeParts DEF TypeOK, ChainType, RunType, ChainStep, RegisterInv
<1>5. Claims(mem)'
  BY <1>1 DEF Claims, Empty
<1>6. RunInv' /\ DownIsEmpty'
  BY <1>1 DEF RunInv, DownIsEmpty
<1> QED
  BY <1>4, <1>5, <1>6 DEF RegisterInv, ChainStep

\* A run goes on.
LEMMA RunningStep ==
  ASSUME RegisterInv, ChainStep, tee' = tee, late' = late, reported' \subseteq reported,
         command' \in SUBSET Letters, kept' \in BOOLEAN, teeID' \in Tees,
         pc' \in Points \ {"down"}, mem' \in States, attest' \in Nat, check' \in Nat,
         file' \in States \cup {Corrupt}, file' # Corrupt => Claims(file)', Claims(mem)', RunInv',
         faults' \in 0 .. MaxFaults
  PROVE  RegisterInv'
<1>1. RunType' /\ DownIsEmpty'
  BY DEF RunType, DownIsEmpty
<1>2. TypeOK'
  BY <1>1, TypeParts DEF TypeOK, ChainType, RunType, ChainStep, RegisterInv
<1>3. LateInv'
  BY DEF LateInv, RegisterInv, ChainStep, ChainGrows
<1>4. FreshSuccessIsProduction'
  BY DEF FreshSuccessIsProduction, RegisterInv, ChainStep, ChainGrows
<1> QED
  BY <1>1, <1>2, <1>3, <1>4 DEF RegisterInv, ChainStep

LEMMA StartKeepsInv ==
  ASSUME RegisterInv, NEW cmd \in Commands, NEW keep \in Keeps, Start(cmd, keep)
  PROVE  RegisterInv'
<1>1. /\ pc = "down" /\ pc' = "load" /\ command' = cmd /\ kept' = keep /\ teeID' = tee
      /\ file' = (IF keep THEN file ELSE Empty)
      /\ UNCHANGED chainVars /\ tee' = tee /\ late' = late /\ mem' = mem /\ attest' = attest
      /\ check' \in Given(cmd) /\ reported' = {} /\ faults' = faults
  BY DEF Start
<1>2. ChainStep
  BY <1>1, SameChain DEF RegisterInv
<1>3. /\ tee \in Tees /\ cmd \in SUBSET Letters /\ keep \in BOOLEAN /\ mem \in States /\ attest \in Nat
      /\ check \in Nat /\ faults \in 0 .. MaxFaults /\ file \in States \cup {Corrupt}
  BY TypeParts DEF RegisterInv, RunType
<1>4. Empty \in States /\ ~(Empty.done \cap {"r", "R"} # {}) /\ "a" \notin Empty.done
  BY DEF Empty, States
<1>5. file' \in States \cup {Corrupt} /\ (file' # Corrupt => Claims(file)')
  <2>1. CASE file' = file
    BY <1>1, <1>2, <1>3, <2>1, ClaimsStay DEF RegisterInv
  <2>2. CASE file' = Empty
    BY <1>4, <2>2 DEF Claims
  <2> QED
    BY <1>1, <2>1, <2>2
<1>6. Claims(mem)'
  BY <1>1, <1>2 DEF RegisterInv, Claims, ChainStep, ChainGrows
<1>7. RunInv'
  <2>1. mem.check = 0 /\ ("a" \in cmd => check' = 0)
    BY <1>1 DEF RegisterInv, DownIsEmpty, Empty, Given
  <2> QED
    BY <1>1, <2>1 DEF RunInv, OwnCheck
<1>8. "load" \in Points \ {"down"}
  BY DEF Points
<1>9. check' \in Nat
  <2>1. DOMAIN checks \subseteq Nat
    BY TypeParts DEF RegisterInv, ChainType
  <2> QED
    BY <1>1, <2>1 DEF Given
<1> QED
  BY <1>1, <1>2, <1>3, <1>5, <1>6, <1>7, <1>8, <1>9, RunningStep

\* What a run is allowed to take for granted.
LEMMA RunParts ==
  ASSUME RegisterInv
  PROVE  /\ tee \in Tees /\ late \subseteq Ops /\ faults \in 0 .. MaxFaults
         /\ reported \subseteq [tee : Tees, kept : BOOLEAN, command : SUBSET Letters]
         /\ file \in States \cup {Corrupt} /\ mem \in States
         /\ command \in SUBSET Letters /\ kept \in BOOLEAN
         /\ teeID \in Tees /\ attest \in Nat /\ check \in Nat
         /\ mem.done \in SUBSET {"r", "R", "a"} /\ mem.attest \in Nat /\ mem.check \in Nat
BY TypeParts DEF RegisterInv, RunType, States

\* The run ends, and the file is as it was.
LEMMA FileStaysDown ==
  ASSUME RegisterInv, UNCHANGED chainVars, tee' = tee, late' = late, file' = file,
         reported' = reported, faults' \in 0 .. MaxFaults, Down
  PROVE  RegisterInv'
<1>1. ChainStep
  BY SameChain DEF RegisterInv
<1>2. LateInv' /\ FreshSuccessIsProduction'
  BY DEF RegisterInv, LateInv, FreshSuccessIsProduction, chainVars
<1>3. file' # Corrupt => Claims(file)'
  BY DEF RegisterInv, Claims, chainVars
<1> QED
  BY <1>1, <1>2, <1>3, DownStep, RunParts

LEMMA LoadKeepsInv ==
  ASSUME RegisterInv, Load
  PROVE  RegisterInv'
<1>1. /\ pc = "load" /\ UNCHANGED chainVars /\ tee' = tee /\ late' = late /\ file' = file
      /\ reported' = reported /\ faults' = faults
  BY DEF Load
<1>2. CASE Down
  BY <1>1, <1>2, FileStaysDown, RunParts
<1>3. CASE file # Corrupt /\ mem' = file /\ pc' = "r" /\ UNCHANGED <<command, kept, teeID, attest, check>>
  <2>1. ChainStep
    BY <1>1, SameChain DEF RegisterInv
  <2>2. file \in States
    BY <1>3, RunParts
  <2>3. Claims(file)' /\ Claims(mem)'
    <3>1. Claims(file)
      BY <1>3 DEF RegisterInv
    <3> QED
      BY <1>1, <1>3, <3>1 DEF Claims, chainVars
  <2>4. RunInv'
    <3>1. ~kept => mem'.check = 0 /\ ("a" \in command => OwnCheck(check))
      BY <1>1, <1>3 DEF RegisterInv, RunInv, Empty
    <3> QED
      BY <1>1, <1>3, <3>1 DEF RunInv, OwnCheck, chainVars
  <2>5. "r" \in Points \ {"down"}
    BY DEF Points, Letters
  <2> QED
    BY <1>1, <1>3, <2>1, <2>2, <2>3, <2>4, <2>5, RunningStep, RunParts
<1> QED
  BY <1>2, <1>3 DEF Load

\* Where a run goes after a step.
LEMMA FollowingValue ==
  /\ Following["r"] = "R" /\ Following["R"] = "a" /\ Following["a"] = "p" /\ Following["p"] = "remove"
  /\ \A s \in Letters : Following[s] \in Points \ {"down", "load"}
BY DEF Following, Letters, Points

LEMMA SkipKeepsInv ==
  ASSUME RegisterInv, NEW s \in Letters, Skip(s)
  PROVE  RegisterInv'
<1>1. /\ pc = s /\ (s \in command => s \in mem.done) /\ pc' = Following[s]
      /\ attest' \in {attest, mem.attest} /\ check' \in {check, mem.check}
      /\ UNCHANGED chainVars /\ tee' = tee /\ late' = late /\ file' = file /\ command' = command
      /\ kept' = kept /\ teeID' = teeID /\ mem' = mem /\ reported' = reported /\ faults' = faults
  BY DEF Skip
<1>2. ChainStep
  BY <1>1, SameChain DEF RegisterInv
<1>3. (file' # Corrupt => Claims(file)') /\ Claims(mem)'
  BY <1>1, <1>2, ClaimsStay DEF RegisterInv
<1>4. RunInv'
  <2>1. "p" \notin mem.done
    BY RunParts
  <2>2. pc' = "remove" => ~({"a", "p"} \subseteq command)
    BY <1>1, <2>1, FollowingValue DEF Letters
  <2>3. ~kept => OwnCheck(mem.check) /\ ("a" \in command => OwnCheck(check))
    BY <1>1 DEF RegisterInv, RunInv, Letters
  <2>4. pc' # "load"
    BY <1>1, FollowingValue
  <2> QED
    BY <1>1, <2>2, <2>3, <2>4 DEF RunInv, OwnCheck, chainVars
<1>5. pc' \in Points \ {"down"} /\ attest' \in Nat /\ check' \in Nat
  BY <1>1, FollowingValue, RunParts
<1> QED
  BY <1>1, <1>2, <1>3, <1>4, <1>5, RunningStep, RunParts

LEMMA OpValue ==
  ASSUME RegisterInv, NEW s \in Letters
  PROVE  /\ OpOf(s) \in Ops /\ OpOf(s).tee = teeID /\ OpOf(s).check = check
         /\ s \in {"r", "R"} => OpOf(s).kind \in {"register", "attest"}
         /\ s = "a" => OpOf(s).kind = "check"
         /\ s = "p" => OpOf(s).kind = "promote"
<1>1. /\ s \in {"r", "R"} => KindOf(s) \in {"register", "attest"}
      /\ s = "a" => KindOf(s) = "check"
      /\ s = "p" => KindOf(s) = "promote"
  BY DEF KindOf
<1>2. KindOf(s) \in Kinds
  BY <1>1 DEF Letters, Kinds
<1> HIDE DEF KindOf
<1> QED
  BY <1>1, <1>2, RunParts DEF OpOf, Ops

\* The steps r and R: a fresh challenge for the machine of the run.
LEMMA ConfirmAskKeepsInv ==
  ASSUME RegisterInv, NEW s \in {"r", "R"}, Confirm(s)
  PROVE  RegisterInv'
<1> DEFINE n == Len(attests')
<1>1. /\ Apply(OpOf(s)) /\ pc = s /\ pc' \in {"save_r", "save_R"}
      /\ attest' = n /\ check' = check
      /\ mem' = [mem EXCEPT !.done = @ \cup {s}, !.attest = n]
      /\ tee' = tee /\ late' = late /\ file' = file /\ command' = command
      /\ kept' = kept /\ teeID' = teeID /\ reported' = reported /\ faults' = faults
  BY DEF Confirm, Sends
<1>2. ChainStep /\ n \in DOMAIN attests' /\ n \in Nat
  BY <1>1, AskStep, OpValue DEF RegisterInv, Letters
<1> HIDE DEF n
<1>3. mem' \in States /\ mem'.done = mem.done \cup {s} /\ mem'.attest = n /\ mem'.check = mem.check
  <2>1. mem \in States /\ n \in Nat /\ s \in {"r", "R", "a"}
    BY <1>2, RunParts
  <2>2. mem' = [mem EXCEPT !.done = @ \cup {s}, !.attest = n]
    BY <1>1
  <2> QED
    BY <2>1, <2>2 DEF States
<1>4. Claims(mem)'
  BY <1>2, <1>3 DEF Claims, RegisterInv, ChainStep, ChainGrows
<1>5. file' # Corrupt => Claims(file)'
  BY <1>1, <1>2 DEF Claims, RegisterInv, ChainStep, ChainGrows
<1>6. RunInv'
  <2>1. ~kept => OwnCheck(mem.check) /\ ("a" \in command => OwnCheck(check))
    BY <1>1 DEF RegisterInv, RunInv
  <2> QED
    BY <1>1, <1>2, <1>3, <2>1 DEF RunInv, OwnCheck, ChainStep, ChainGrows
<1>7. pc' \in Points \ {"down"}
  BY <1>1 DEF Points
<1> QED
  BY <1>1, <1>2, <1>3, <1>4, <1>5, <1>6, <1>7, RunningStep, RunParts

\* The step a: a check of the machine of the run.
LEMMA ConfirmCheckKeepsInv ==
  ASSUME RegisterInv, Confirm("a")
  PROVE  RegisterInv'
<1> DEFINE n == Len(checks')
<1>1. /\ Apply(OpOf("a")) /\ pc = "a" /\ pc' = "save_a"
      /\ attest' = attest /\ check' = n
      /\ mem' = [mem EXCEPT !.done = @ \cup {"a"}, !.check = n]
      /\ tee' = tee /\ late' = late /\ file' = file /\ command' = command
      /\ kept' = kept /\ teeID' = teeID /\ reported' = reported /\ faults' = faults
  BY DEF Confirm, Sends
<1>2. ChainStep /\ n \in DOMAIN checks' /\ n \in Nat /\ checks'[n].tee = teeID
  BY <1>1, CheckStep, OpValue DEF RegisterInv, Letters
<1> HIDE DEF n
<1>3. mem' \in States /\ mem'.done = mem.done \cup {"a"} /\ mem'.attest = mem.attest /\ mem'.check = n
  <2>1. mem \in States /\ n \in Nat
    BY <1>2, RunParts
  <2>2. mem' = [mem EXCEPT !.done = @ \cup {"a"}, !.check = n]
    BY <1>1
  <2> QED
    BY <2>1, <2>2 DEF States
<1>4. Claims(mem)'
  BY <1>2, <1>3 DEF Claims, RegisterInv, ChainStep, ChainGrows
<1>5. file' # Corrupt => Claims(file)'
  BY <1>1, <1>2 DEF Claims, RegisterInv, ChainStep, ChainGrows
<1>6. RunInv'
  BY <1>1, <1>2, <1>3 DEF RunInv, OwnCheck
<1>7. pc' \in Points \ {"down"}
  BY <1>1 DEF Points
<1> QED
  BY <1>1, <1>2, <1>3, <1>4, <1>5, <1>6, <1>7, RunningStep, RunParts

\* The file takes the memory's place, is cut off, or stays.
LEMMA SaveKeepsInv ==
  ASSUME RegisterInv, NEW s \in Letters, Save(s)
  PROVE  RegisterInv'
<1>1. /\ s \in {"r", "R", "a"} /\ pc \in {"save_r", "save_R", "save_a"} /\ pc' = Following[s]
      /\ file' \in {mem, file, Corrupt} /\ (Fault \/ UNCHANGED faults)
      /\ UNCHANGED chainVars /\ tee' = tee /\ late' = late /\ command' = command
      /\ kept' = kept /\ teeID' = teeID /\ mem' = mem /\ attest' = attest /\ check' = check
      /\ reported' = reported
  BY DEF Save
<1>2. ChainStep
  BY <1>1, SameChain DEF RegisterInv
<1>3. Claims(mem)'
  BY <1>1 DEF Claims, RegisterInv, chainVars
<1>4. file' \in States \cup {Corrupt} /\ (file' # Corrupt => Claims(file)')
  BY <1>1, RunParts DEF Claims, RegisterInv, chainVars
<1>5. pc' \in {"R", "a", "p"}
  BY <1>1, FollowingValue
<1>6. RunInv'
  <2>1. ~kept => OwnCheck(mem.check) /\ ("a" \in command => OwnCheck(check))
    BY <1>1 DEF RegisterInv, RunInv
  <2> QED
    BY <1>1, <1>5, <2>1 DEF RunInv, OwnCheck, chainVars
<1>7. pc' \in Points \ {"down"} /\ faults' \in 0 .. MaxFaults
  BY <1>1, <1>5, FaultCounts DEF Points, Letters, RegisterInv
<1> QED
  BY <1>1, <1>2, <1>3, <1>4, <1>6, <1>7, RunningStep, RunParts

\* The machine of the run comes to production, when the check is one of its own.
LEMMA PromoteKeepsInv ==
  ASSUME RegisterInv, Promote
  PROVE  RegisterInv'
<1>1. /\ Apply(OpOf("p")) /\ pc = "p" /\ pc' = "remove" /\ check \in DOMAIN checks
      /\ tee' = tee /\ late' = late /\ file' = file /\ command' = command
      /\ kept' = kept /\ teeID' = teeID /\ mem' = mem /\ attest' = attest /\ check' = check
      /\ reported' = reported /\ faults' = faults
  BY DEF Promote, Sends, HasProof
<1>2. ChainStep /\ checks[check].tee \in production'
  BY <1>1, PromoteStep, OpValue DEF RegisterInv, Letters
<1>3. (file' # Corrupt => Claims(file)') /\ Claims(mem)'
  BY <1>1, <1>2, ClaimsStay DEF RegisterInv
<1>4. RunInv'
  <2>1. ~kept => OwnCheck(mem.check) /\ ("a" \in command => OwnCheck(check))
    BY <1>1 DEF RegisterInv, RunInv
  <2>2. ~kept /\ "a" \in command => teeID \in production'
    <3>1. check # 0
      BY <1>1, TypeParts DEF ChainType, RegisterInv
    <3> QED
      BY <1>2, <2>1, <3>1 DEF OwnCheck
  <2> QED
    BY <1>1, <1>2, <2>1, <2>2 DEF RunInv, OwnCheck, ChainStep, ChainGrows
<1>5. "remove" \in Points \ {"down"}
  BY DEF Points
<1> QED
  BY <1>1, <1>2, <1>3, <1>4, <1>5, RunningStep, RunParts

\* The end of a run that went through.
LEMMA RemoveKeepsInv ==
  ASSUME RegisterInv, Remove
  PROVE  RegisterInv'
<1>1. /\ pc = "remove" /\ file' \in {file, Empty} /\ (Fault \/ UNCHANGED faults)
      /\ reported' = {[tee |-> teeID, kept |-> kept, command |-> command]}
      /\ Down /\ tee' = tee /\ late' = late /\ UNCHANGED chainVars
  BY DEF Remove
<1>2. ChainStep
  BY <1>1, SameChain DEF RegisterInv
<1>3. Empty \in States /\ ~(Empty.done \cap {"r", "R"} # {}) /\ "a" \notin Empty.done
  BY DEF Empty, States
<1>4. file' \in States \cup {Corrupt} /\ (file' # Corrupt => Claims(file)')
  <2>1. CASE file' = file
    BY <1>1, <2>1, RunParts DEF RegisterInv, Claims, chainVars
  <2>2. CASE file' = Empty
    BY <1>3, <2>2 DEF Claims
  <2> QED
    BY <1>1, <2>1, <2>2
<1>5. FreshSuccessIsProduction'
  <2>1. {"a", "p"} \subseteq command /\ ~kept => teeID \in production'
    BY <1>1 DEF RegisterInv, RunInv, chainVars
  <2>2. \A r \in reported' : r.tee = teeID /\ r.kept = kept /\ r.command = command
    BY <1>1
  <2> QED
    BY <2>1, <2>2 DEF FreshSuccessIsProduction
<1>6. reported' \subseteq [tee : Tees, kept : BOOLEAN, command : SUBSET Letters]
  BY <1>1, RunParts
<1>7. LateInv'
  BY <1>1 DEF LateInv, RegisterInv, chainVars
<1>8. faults' \in 0 .. MaxFaults
  BY <1>1, FaultCounts DEF RegisterInv
<1> QED
  BY <1>1, <1>2, <1>4, <1>5, <1>6, <1>7, <1>8, DownStep, RunParts

\* The runs that fail.
LEMMA TimedOutKeepsInv ==
  ASSUME RegisterInv, NEW s \in Letters, TimedOut(s)
  PROVE  RegisterInv'
<1>1. /\ late' = late \cup {OpOf(s)} /\ (s = "p" => check \in DOMAIN checks)
      /\ Fault /\ Down /\ UNCHANGED chainVars /\ tee' = tee /\ file' = file /\ reported' = reported
  BY DEF TimedOut, HasProof
<1>2. ChainStep
  BY <1>1, SameChain DEF RegisterInv
<1>3. /\ OpOf(s) \in Ops /\ OpOf(s).check = check /\ (OpOf(s).kind = "promote" => s = "p")
  BY OpValue DEF Letters
<1>4. late' \subseteq Ops
  BY <1>1, <1>3, RunParts
<1>5. LateInv'
  BY <1>1, <1>3 DEF LateInv, RegisterInv, chainVars
<1>6. (file' # Corrupt => Claims(file)') /\ FreshSuccessIsProduction'
  BY <1>1 DEF RegisterInv, Claims, FreshSuccessIsProduction, chainVars
<1>7. faults' \in 0 .. MaxFaults
  BY <1>1, FaultCounts DEF RegisterInv
<1> QED
  BY <1>1, <1>2, <1>4, <1>5, <1>6, <1>7, DownStep, RunParts

LEMMA FailKeepsInv ==
  ASSUME RegisterInv, Fail
  PROVE  RegisterInv'
<1>1. /\ file' \in {file, mem, Corrupt} /\ Fault /\ Down /\ UNCHANGED chainVars
      /\ tee' = tee /\ late' = late /\ reported' = reported
  BY DEF Fail
<1>2. ChainStep
  BY <1>1, SameChain DEF RegisterInv
<1>3. file' \in States \cup {Corrupt} /\ (file' # Corrupt => Claims(file)')
  BY <1>1, RunParts DEF Claims, RegisterInv, chainVars
<1>4. LateInv' /\ FreshSuccessIsProduction'
  BY <1>1 DEF RegisterInv, LateInv, FreshSuccessIsProduction, chainVars
<1>5. faults' \in 0 .. MaxFaults
  BY <1>1, FaultCounts DEF RegisterInv
<1> QED
  BY <1>1, <1>2, <1>3, <1>4, <1>5, DownStep, RunParts

LEMMA RefusedKeepsInv ==
  ASSUME RegisterInv, Refused
  PROVE  RegisterInv'
<1>1. /\ Down /\ UNCHANGED chainVars /\ tee' = tee /\ late' = late /\ file' = file
      /\ reported' = reported /\ faults' = faults
  BY DEF Refused
<1> QED
  BY <1>1, FileStaysDown, RunParts

-----------------------------------------------------------------------------
(* The theorems *)

LEMMA InitGivesInv == ASSUME Init PROVE RegisterInv
<1>1. Empty \in States /\ ~(Empty.done \cap {"r", "R"} # {}) /\ "a" \notin Empty.done
  BY DEF Empty, States
<1>2. TypeOK
  <2>1. 1 \in Tees /\ 0 \in 0 .. MaxFaults
    BY RegisterAssumption DEF Tees
  <2>2. /\ attests \in Seq([tee : Tees, good : BOOLEAN])
        /\ checks \in Seq([tee : Tees, proof : {"none", "ready", "never"}])
    BY DEF Init
  <2>3. pc \in Points /\ command \in SUBSET Letters /\ kept \in BOOLEAN
    BY DEF Init, Points
  <2>4. late \subseteq Ops /\ file \in States \cup {Corrupt} /\ mem \in States
    BY <1>1 DEF Init
  <2>5. reported \subseteq [tee : Tees, kept : BOOLEAN, command : SUBSET Letters]
    BY DEF Init
  <2> QED
    BY <2>1, <2>2, <2>3, <2>4, <2>5 DEF Init, TypeOK
<1>3. RegistryInv /\ LateInv
  BY DEF Init, RegistryInv, LateInv
<1>4. Claims(file) /\ Claims(mem)
  BY <1>1 DEF Init, Claims
<1>5. RunInv /\ DownIsEmpty /\ FreshSuccessIsProduction
  BY DEF Init, RunInv, DownIsEmpty, FreshSuccessIsProduction
<1> QED
  BY <1>2, <1>3, <1>4, <1>5 DEF RegisterInv

LEMMA StepKeepsInv == ASSUME RegisterInv, [Next]_vars PROVE RegisterInv'
<1>1. CASE \E cmd \in Commands, keep \in Keeps : Start(cmd, keep)
  BY <1>1, StartKeepsInv
<1>2. ASSUME NEW s \in Letters, Confirm(s) PROVE RegisterInv'
  <2>1. s \in {"r", "R", "a"}
    BY <1>2 DEF Confirm
  <2> QED
    BY <1>2, <2>1, ConfirmAskKeepsInv, ConfirmCheckKeepsInv
<1>3. CASE Step
  BY <1>2, <1>3, LoadKeepsInv, PromoteKeepsInv, RemoveKeepsInv, RefusedKeepsInv, SkipKeepsInv,
     SaveKeepsInv DEF Step
<1>4. CASE Fail \/ \E s \in Letters : TimedOut(s)
  BY <1>4, FailKeepsInv, TimedOutKeepsInv
<1>5. CASE \E op \in late : Land(op)
  BY <1>5, LandKeepsInv
<1>6. CASE \E id \in DOMAIN attests : Expire(id)
  BY <1>6, ExpireKeepsInv
<1>7. CASE \E c \in DOMAIN checks : Prove(c) \/ Spoil(c)
  BY <1>7, ProofKeepsInv
<1>8. CASE Restart
  BY <1>8, RestartKeepsInv
<1>9. CASE UNCHANGED vars
  <2>1. /\ UNCHANGED <<file, runVars, reported>> /\ UNCHANGED chainVars /\ tee' = tee /\ late' = late
        /\ faults' = faults
    BY <1>9 DEF vars
  <2> QED
    BY <2>1, SameChain, OutsideStep, RunParts DEF RegisterInv
<1> QED
  BY <1>1, <1>3, <1>4, <1>5, <1>6, <1>7, <1>8, <1>9 DEF Next

\* The invariant: file and memory claim no more than the chain knows, and a run
\* without --resume holds a check of its own machine only, unless -i gives it one.
THEOREM RegisterInvariant == Spec => []RegisterInv
BY InitGivesInv, StepKeepsInv, PTL DEF Spec

\* Registry, requests, file and run keep their types; only registered machines
\* come to production.
THEOREM RegisterTypeCorrect == Spec => []TypeOK
<1>1. RegisterInv => TypeOK
  BY DEF RegisterInv
<1> QED
  BY <1>1, RegisterInvariant, PTL

\* The state file never runs ahead of the chain (registration.go, saveState).
THEOREM FileNeverAhead == Spec => []FileIsOnChain
<1>1. RegisterInv => FileIsOnChain
  BY DEF RegisterInv, FileIsOnChain, Claims, RegistryInv
<1> QED
  BY <1>1, RegisterInvariant, PTL

\* A run without --resume whose command has a and p and that reports its machine has
\* promoted that machine (main.go), whatever its other steps.  Without a it would be the
\* machine of the id given with -i.
THEOREM FreshRunsTellTheTruth == Spec => []FreshSuccessIsProduction
<1>1. RegisterInv => FreshSuccessIsProduction
  BY DEF RegisterInv
<1> QED
  BY <1>1, RegisterInvariant, PTL
=============================================================================
