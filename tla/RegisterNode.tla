---------------------------- MODULE RegisterNode ----------------------------
(***************************************************************************)
(* tools/cmd/register-tee and tools/pkg/fccutils/registration.go: a TEE is *)
(* brought to production by up to four steps, each a transaction:          *)
(*   r  register the machine, or ask for a fresh attestation if it is      *)
(*      registered already;          R  ask for an attestation;            *)
(*   a  ask the FTDC for an availability check, against the attestation;   *)
(*   p  fetch the check's proof and promote the machine.                   *)
(* A state file remembers the steps that are done, for a later run with    *)
(* --resume.  The run may die anywhere, a transaction may be mined after   *)
(* the run has given up on it, a challenge may expire, and the TEE may     *)
(* restart with a new key, that is, as another machine.                    *)
(*                                                                         *)
(* Instruction ids are positions in attests and checks; 0 is the zero hash.*)
(* What the registry contracts and the FTDC do is modelled from the calls  *)
(* and comments of the tools.                                              *)
(***************************************************************************)
EXTENDS Naturals, Sequences

CONSTANTS
  Commands,       \* values of -command, as sets of its letters
  Keeps,          \* whether the state file outlives the start of a run
                  \* (--resume, or a removal that fails, which only warns)
  MaxTees, MaxFaults,     \* bounds (model checking only)
  MaxAttests      \* bound: a machine in production is not registered again, and
                  \* -i is not used, once there are so many attestation requests

Letters == {"r", "R", "a", "p"}

ASSUME RegisterAssumption ==
  /\ Commands \subseteq SUBSET Letters
  /\ Keeps \subseteq BOOLEAN
  /\ MaxTees \in Nat \ {0} /\ MaxFaults \in Nat /\ MaxAttests \in Nat

VARIABLES
  tee,            \* the machine the proxy speaks for now: 1, then 2, ...
  registered, production,       \* the registry: machines
  attests,        \* attestation requests, and whether the challenge is good
  checks,         \* availability checks, and what became of the proof
  late,           \* transactions that no run waits for any more
  file,           \* register-tee.state; a missing file reads as Empty
  pc, command, kept, teeID,     \* the run: its step, flags and machine
  mem, attest, check,           \* its copy of the file, and the two ids (check: from -i, if at all)
  reported,       \* the "Registered TEE node with id ..." of the run that ended last
  faults          \* counted to bound them

chainVars == <<registered, production, attests, checks>>
runVars   == <<pc, command, kept, teeID, mem, attest, check>>
vars      == <<tee, chainVars, late, file, runVars, reported, faults>>

Tees   == 1 .. MaxTees
States == [done : SUBSET {"r", "R", "a"}, attest : Nat, check : Nat]
Empty  == [done |-> {}, attest |-> 0, check |-> 0]
Corrupt == [done |-> {"cut"}, attest |-> 0, check |-> 0]
Kinds  == {"register", "attest", "check", "promote"}
Ops    == [kind : Kinds, tee : Tees, attest : Nat, check : Nat]
Points == {"down", "load", "save_r", "save_R", "save_a", "remove"} \cup Letters

TypeOK ==
  /\ tee \in Tees /\ registered \subseteq Tees /\ production \subseteq registered
  /\ attests \in Seq([tee : Tees, good : BOOLEAN])
  /\ checks \in Seq([tee : Tees, proof : {"none", "ready", "never"}])
  /\ late \subseteq Ops
  /\ file \in States \cup {Corrupt} /\ mem \in States
  /\ pc \in Points /\ command \in SUBSET Letters /\ kept \in BOOLEAN
  /\ teeID \in Tees /\ attest \in Nat /\ check \in Nat
  /\ reported \subseteq [tee : Tees, kept : BOOLEAN, command : SUBSET Letters] /\ faults \in 0 .. MaxFaults

Init ==
  /\ tee = 1 /\ registered = {} /\ production = {}
  /\ attests = <<>> /\ checks = <<>> /\ late = {}
  /\ file = Empty
  /\ pc = "down" /\ command = {} /\ kept = FALSE /\ teeID = 1
  /\ mem = Empty /\ attest = 0 /\ check = 0
  /\ reported = {} /\ faults = 0

Fault == faults < MaxFaults /\ faults' = faults + 1

-----------------------------------------------------------------------------
(* The chain and the FTDC *)

\* A transaction goes through when the registry accepts it: a machine registers
\* once, and a challenge is one-shot, may expire, and belongs to one machine.
Valid(op) ==
  \/ op.kind = "register" /\ op.tee \notin registered
  \/ op.kind = "attest"   /\ op.tee \in registered
  \/ op.kind = "check"    /\ op.attest \in DOMAIN attests
                          /\ attests[op.attest] = [tee |-> op.tee, good |-> TRUE]
  \/ op.kind = "promote"

Apply(op) ==
  /\ Valid(op)
  /\ registered' = IF op.kind = "register" THEN registered \cup {op.tee} ELSE registered
  /\ production' = IF op.kind = "promote" THEN production \cup {checks[op.check].tee} ELSE production
  /\ attests' = CASE op.kind \in {"register", "attest"} -> Append(attests, [tee |-> op.tee, good |-> TRUE])
                  [] op.kind = "check" -> [attests EXCEPT ![op.attest].good = FALSE]
                  [] OTHER -> attests
  /\ checks' = IF op.kind = "check" THEN Append(checks, [tee |-> op.tee, proof |-> "none"]) ELSE checks

\* A transaction is mined after its run has given up on it, or reverts.
Land(op) ==
  /\ op \in late /\ late' = late \ {op}
  /\ Apply(op) \/ (~Valid(op) /\ UNCHANGED chainVars)
  /\ UNCHANGED <<tee, file, runVars, reported, faults>>

Expire(id) ==
  /\ attests[id].good
  /\ attests' = [attests EXCEPT ![id].good = FALSE]
  /\ Fault
  /\ UNCHANGED <<tee, registered, production, checks, late, file, runVars, reported>>

\* The FTDC proves that a machine is there, as long as the machine answers.
Prove(c) ==
  /\ checks[c].proof = "none" /\ checks[c].tee = tee
  /\ checks' = [checks EXCEPT ![c].proof = "ready"]
  /\ UNCHANGED <<tee, registered, production, attests, late, file, runVars, reported, faults>>

\* The data providers reject the check ("no round"): no proof will come.
Spoil(c) ==
  /\ checks[c].proof = "none"
  /\ checks' = [checks EXCEPT ![c].proof = "never"]
  /\ Fault
  /\ UNCHANGED <<tee, registered, production, attests, late, file, runVars, reported>>

\* The TEE restarts with a new key.
Restart ==
  /\ tee < MaxTees /\ tee' = tee + 1
  /\ UNCHANGED <<chainVars, late, file, runVars, reported, faults>>

-----------------------------------------------------------------------------
(* One run of register-tee *)

\* The process ends; its memory is gone.
Down ==
  /\ pc' = "down" /\ command' = {} /\ kept' = FALSE /\ teeID' = 1
  /\ mem' = Empty /\ attest' = 0 /\ check' = 0

Worthwhile(cmd) == tee \in production \/ "a" \notin cmd => Len(attests) < MaxAttests

\* The id that -i gives is used by a command without the step a: the zero hash
\* by default, or the id of any check so far.
Given(cmd) == IF "a" \in cmd THEN {0} ELSE {0} \cup DOMAIN checks

\* Mutant: a run without --resume leaves the state file where it is.
StartKeepsFile(cmd, keep) ==
  /\ pc = "down" /\ Worthwhile(cmd)
  /\ pc' = "load" /\ command' = cmd /\ kept' = keep /\ teeID' = tee /\ check' \in Given(cmd) /\ reported' = {}
  /\ UNCHANGED <<tee, chainVars, late, file, mem, attest, faults>>

\* The state file is removed unless --resume is given, and the proxy is asked
\* for the machine.
Start(cmd, keep) ==
  /\ pc = "down" /\ Worthwhile(cmd)
  /\ pc' = "load" /\ command' = cmd /\ kept' = keep /\ teeID' = tee /\ check' \in Given(cmd) /\ reported' = {}
  /\ file' = IF keep THEN file ELSE Empty
  /\ UNCHANGED <<tee, chainVars, late, mem, attest, faults>>

\* Mutant: what does not parse is taken as it is.
LoadAnything ==
  /\ pc = "load" /\ mem' = file /\ pc' = "r"
  /\ UNCHANGED <<tee, chainVars, late, file, command, kept, teeID, attest, check, reported, faults>>

\* loadState; a file that does not parse ends the run.
Load ==
  /\ pc = "load"
  /\ \/ /\ file # Corrupt
        /\ mem' = file /\ pc' = "r"
        /\ UNCHANGED <<command, kept, teeID, attest, check>>
     \/ file = Corrupt /\ Down
  /\ UNCHANGED <<tee, chainVars, late, file, reported, faults>>

Following == [r |-> "R", R |-> "a", a |-> "p", p |-> "remove"]

\* A step that is not in the command, or is done already: then its id comes
\* from the file, and only then.
Skip(s) ==
  /\ pc = s
  /\ s \in command => s \in mem.done
  /\ pc' = Following[s]
  /\ attest' = IF s \in command /\ s \in {"r", "R"} THEN mem.attest ELSE attest
  /\ check' = IF s \in command /\ s = "a" THEN mem.check ELSE check
  /\ UNCHANGED <<tee, chainVars, late, file, command, kept, teeID, mem, reported, faults>>

\* Mutant: a registered machine is registered again.
KindOfRegister(s) ==
  CASE s = "r" -> "register" [] s = "R" -> "attest" [] s = "a" -> "check" [] s = "p" -> "promote"

\* The transaction of a step.  A machine that is registered already only asks
\* for a fresh attestation.
KindOf(s) ==
  CASE s = "r" -> IF teeID \in registered THEN "attest" ELSE "register"
    [] s = "R" -> "attest"
    [] s = "a" -> "check"
    [] s = "p" -> "promote"

OpOf(s) == [kind |-> KindOf(s), tee |-> teeID, attest |-> attest, check |-> check]

Sends(s) == pc = s /\ s \in command /\ s \notin mem.done

\* CheckTx finds the receipt, and the ids of the events go into the state.
Confirm(s) ==
  /\ Sends(s) /\ s \in {"r", "R", "a"}
  /\ Apply(OpOf(s))
  /\ pc' = CASE s = "r" -> "save_r" [] s = "R" -> "save_R" [] s = "a" -> "save_a"
  /\ IF s = "a"
       THEN /\ check' = Len(checks')
            /\ mem' = [mem EXCEPT !.done = @ \cup {s}, !.check = Len(checks')]
            /\ UNCHANGED attest
       ELSE /\ attest' = Len(attests')
            /\ mem' = [mem EXCEPT !.done = @ \cup {s}, !.attest = Len(attests')]
            /\ UNCHANGED check
  /\ UNCHANGED <<tee, late, file, command, kept, teeID, reported, faults>>

\* saveState; a failure is only a warning.
Save(s) ==
  /\ s \in {"r", "R", "a"}
  /\ pc = (CASE s = "r" -> "save_r" [] s = "R" -> "save_R" [] s = "a" -> "save_a")
  /\ pc' = Following[s]
  /\ \/ file' = mem /\ UNCHANGED faults
     \/ file' \in {file, Corrupt} /\ Fault
  /\ UNCHANGED <<tee, chainVars, late, command, kept, teeID, mem, attest, check, reported>>

HasProof == check \in DOMAIN checks /\ checks[check].proof = "ready"

\* The proof is there, and ToProduction is mined.
Promote ==
  /\ Sends("p") /\ HasProof
  /\ Apply(OpOf("p"))
  /\ pc' = "remove"
  /\ UNCHANGED <<tee, late, file, command, kept, teeID, mem, attest, check, reported, faults>>

\* The run ends with success; a failed removal goes unnoticed.
Remove ==
  /\ pc = "remove"
  /\ \/ file' = Empty /\ UNCHANGED faults
     \/ UNCHANGED file /\ Fault
  /\ reported' = {[tee |-> teeID, kept |-> kept, command |-> command]}
  /\ Down
  /\ UNCHANGED <<tee, chainVars, late>>

\* The transaction reverts, or 15 polls bring no proof that could still come.
Refused ==
  /\ \/ \E s \in {"r", "R", "a"} : Sends(s) /\ ~Valid(OpOf(s))
     \/ Sends("p") /\ ~HasProof
        /\ (check \in DOMAIN checks /\ checks[check].proof = "none" => checks[check].tee # tee)
  /\ Down
  /\ UNCHANGED <<tee, chainVars, late, file, reported, faults>>

\* Mutant: a step whose receipt is late counts as done.
TimedOutIsDone(s) ==
  /\ Sends(s) /\ Valid(OpOf(s)) /\ (s = "p" => HasProof)
  /\ late' = late \cup {OpOf(s)}
  /\ file' = IF s = "p" THEN file ELSE [mem EXCEPT !.done = @ \cup {s}]
  /\ Fault /\ Down
  /\ UNCHANGED <<tee, chainVars, reported>>

\* The transaction is sent, but CheckTx gives up after two minutes.
TimedOut(s) ==
  /\ Sends(s) /\ Valid(OpOf(s)) /\ (s = "p" => HasProof)
  /\ late' = late \cup {OpOf(s)}
  /\ Fault /\ Down
  /\ UNCHANGED <<tee, chainVars, file, reported>>

\* A failed request, a policy out of sync, a proof that is late, or the process
\* dies, perhaps while it writes the file.
Fail ==
  /\ pc # "down"
  /\ Fault /\ Down
  /\ \/ UNCHANGED file
     \/ pc \in {"save_r", "save_R", "save_a"} /\ file' \in {mem, Corrupt}
  /\ UNCHANGED <<tee, chainVars, late, reported>>

-----------------------------------------------------------------------------
Step ==
  \/ Load \/ Promote \/ Remove \/ Refused
  \/ \E s \in Letters : Skip(s) \/ Confirm(s) \/ Save(s)

Next ==
  \/ \E cmd \in Commands, keep \in Keeps : Start(cmd, keep)
  \/ Step \/ Fail \/ \E s \in Letters : TimedOut(s)
  \/ \E op \in late : Land(op)
  \/ \E id \in DOMAIN attests : Expire(id)
  \/ \E c \in DOMAIN checks : Prove(c) \/ Spoil(c)
  \/ Restart

Spec == Init /\ [][Next]_vars

\* Every request of a run is answered or times out, the FTDC proves machines
\* that answer, and the operator tries again, now and then in each way.
FairSpec ==
  /\ Spec
  /\ WF_vars(Step)
  /\ WF_vars(\E c \in DOMAIN checks : Prove(c))
  /\ \A keep \in Keeps : SF_vars(Start({"r", "a", "p"}, keep))

-----------------------------------------------------------------------------
\* The state file never claims more than the chain knows: a step is in it only
\* when its request was mined, for a registered machine, also after crashes,
\* late transactions and writes that failed.
FileIsOnChain ==
  file # Corrupt =>
    /\ file.done \cap {"r", "R"} # {} => /\ file.attest \in DOMAIN attests
                                        /\ attests[file.attest].tee \in registered
    /\ "a" \in file.done => /\ file.check \in DOMAIN checks
                            /\ checks[file.check].tee \in registered

\* A run with the steps a and p that started without a state file and says that its
\* machine is registered has brought that machine to production, restarts or not.
\* Without a the run promotes whatever -i names (registration.go), of any machine.
FreshSuccessIsProduction ==
  \A r \in reported : {"a", "p"} \subseteq r.command /\ ~r.kept => r.tee \in production

\* Whatever failed before, running register-tee again brings the machine that
\* runs now to production.
EventuallyInProduction == []<>(tee \in production)

\* main.go: "Registered TEE node with id", with --resume or without.
SuccessIsProduction == \A r \in reported : "p" \in r.command => r.tee \in production
=============================================================================
