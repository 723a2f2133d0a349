-------------------------- MODULE DeploymentProofs --------------------------
(***************************************************************************)
(* Proofs about Deployment, for any number of operators, extensions,       *)
(* senders, machines and faults, and whatever scripts the operators run:   *)
(* what extension.env names is set up, a sender is bound to the first      *)
(* extension that names it, and a machine serves one extension.            *)
(***************************************************************************)
EXTENDS Deployment, TLAPS

ExtRecord == [sender : Nat \ {0}, by : Keys, owners : SUBSET Keys, projects : SUBSET Keys,
              keyed : BOOLEAN, version : BOOLEAN, governance : Governances]
Steps     == UNION {{Plans[p][i] : i \in DOMAIN Plans[p]} : p \in Names}
RunRecord == [full : BOOLEAN, todo : Seq(Steps), sender : Nat, ext : Nat, key : Keys,
              current : Nat, stale : SUBSET Nat, calm : BOOLEAN]

\* The steps that rely on the one before them, which they always follow.
Planned(todo) ==
  \A i \in 2 .. Len(todo) :
    /\ todo[i] = "register" => todo[i - 1] = "deploy"
    /\ todo[i] = "owners"   => todo[i - 1] = "register"
    /\ todo[i] = "projects" => todo[i - 1] = "owners"
    /\ todo[i] = "keys"     => todo[i - 1] = "projects"
    /\ todo[i] = "write"    => todo[i - 1] = "keys"

StepNames == {"deploy", "register", "owners", "projects", "keys", "write", "start", "version",
              "governance", "machine", "bind", "send", "stop", "look", "list", "pause"}

\* The steps of register-extension after the registration.
SettingUp == {"owners", "projects", "keys", "write"}

\* How far the extension of a script is set up when it comes to its next step.
Prepared(r) ==
  r.todo # <<>> =>
    /\ Head(r.todo) = "register" => r.sender # 0
    /\ Head(r.todo) \in SettingUp =>
         r.ext \in DOMAIN exts /\ exts[r.ext].sender = r.sender /\ exts[r.ext].by = r.key
    /\ Head(r.todo) \in SettingUp \ {"owners"} => r.key \in exts[r.ext].owners
    /\ Head(r.todo) \in {"keys", "write"} => r.key \in exts[r.ext].projects
    /\ Head(r.todo) = "write" => exts[r.ext].keyed

RunsInv == \A o \in Operators : Planned(run[o].todo) /\ Prepared(run[o])

\* A sender that has extensions has a first one.
FirstExists ==
  \A s \in Nat : OfSender(s) # {} => \E i \in OfSender(s) : \A j \in OfSender(s) : i <= j

\* Machines are numbered as they come.
MachinesAreCounted == node.tee <= tees /\ \A m \in active : m.tee <= tees

DeploymentInv ==
  /\ TypeOK
  /\ RunsInv
  /\ WrittenExtensionIsSetUp
  /\ BoundToFirst /\ FirstExists
  /\ MachinesAreCounted /\ MachineServesItsExtension

\* The registry forgets nothing.
ExtsGrow ==
  /\ exts' \in Seq(ExtRecord) /\ Len(exts) <= Len(exts')
  /\ \A i \in DOMAIN exts :
       /\ exts'[i].sender = exts[i].sender /\ exts'[i].by = exts[i].by
       /\ exts[i].owners \subseteq exts'[i].owners
       /\ exts[i].projects \subseteq exts'[i].projects
       /\ exts[i].keyed => exts'[i].keyed

USE DeploymentAssumption

-----------------------------------------------------------------------------
(* Plans *)

\* The elements of a sequence.
LEMMA ElementOfSeq ==
  ASSUME NEW S, NEW s \in Seq(S), NEW i \in DOMAIN s
  PROVE  s[i] \in S
OBVIOUS

\* What is left of a plan after its first step.
LEMMA TailPlanned ==
  ASSUME NEW S, NEW s \in Seq(S), s # <<>>, Planned(s)
  PROVE  /\ Tail(s) \in Seq(S) /\ Planned(Tail(s))
         /\ Len(s) # 1 => Tail(s) # <<>> /\ Head(Tail(s)) = s[2] /\ 2 \in 2 .. Len(s)
<1>1. /\ Tail(s) \in Seq(S) /\ Len(Tail(s)) = Len(s) - 1 /\ Len(s) \in Nat \ {0}
      /\ \A i \in 1 .. Len(s) - 1 : Tail(s)[i] = s[i + 1]
  OBVIOUS
<1>2. Planned(Tail(s))
  <2> SUFFICES ASSUME NEW i \in 2 .. Len(s) - 1
               PROVE  /\ Tail(s)[i] = "register" => Tail(s)[i - 1] = "deploy"
                      /\ Tail(s)[i] = "owners"   => Tail(s)[i - 1] = "register"
                      /\ Tail(s)[i] = "projects" => Tail(s)[i - 1] = "owners"
                      /\ Tail(s)[i] = "keys"     => Tail(s)[i - 1] = "projects"
                      /\ Tail(s)[i] = "write"    => Tail(s)[i - 1] = "keys"
    BY <1>1 DEF Planned
  <2>1. /\ Tail(s)[i] = s[i + 1] /\ Tail(s)[i - 1] = s[i]
        /\ i + 1 \in 2 .. Len(s) /\ (i + 1) - 1 = i
    BY <1>1
  <2> QED
    BY <2>1 DEF Planned
<1>3. ASSUME Len(s) # 1 PROVE Tail(s) # <<>> /\ Head(Tail(s)) = s[2] /\ 2 \in 2 .. Len(s)
  <2>1. 1 \in 1 .. Len(s) - 1 /\ Len(Tail(s)) # 0
    BY <1>1, <1>3
  <2>2. Tail(s)[1] = s[1 + 1] /\ Head(Tail(s)) = Tail(s)[1]
    BY <1>1, <2>1
  <2>3. 1 + 1 = 2 /\ 2 \in 2 .. Len(s)
    BY <1>1, <2>1
  <2>4. Tail(s) # <<>>
    <3>1. Len(Tail(s)) # Len(<<>>)
      BY <2>1
    <3> QED
      BY <3>1
  <2> QED
    BY <2>2, <2>3, <2>4
<1> QED
  BY <1>1, <1>2, <1>3

\* Two plans one after the other.
LEMMA ConcatPlanned ==
  ASSUME NEW S, NEW s \in Seq(S), NEW t \in Seq(S), Planned(s), Planned(t), t # <<>>,
         t[1] \notin {"register"} \cup SettingUp, s # <<>>
  PROVE  /\ s \o t \in Seq(S) /\ Planned(s \o t)
         /\ s \o t # <<>> /\ (s \o t)[1] = s[1]
<1>1. /\ s \o t \in Seq(S) /\ Len(s \o t) = Len(s) + Len(t) /\ Len(s) \in Nat /\ Len(t) \in Nat
      /\ \A i \in 1 .. Len(s) : (s \o t)[i] = s[i]
      /\ \A i \in 1 .. Len(t) : (s \o t)[Len(s) + i] = t[i]
  OBVIOUS
<1> DEFINE c == s \o t
<1>2. ASSUME NEW i \in 2 .. Len(s) + Len(t)
      PROVE  /\ c[i] = "register" => c[i - 1] = "deploy"
             /\ c[i] = "owners"   => c[i - 1] = "register"
             /\ c[i] = "projects" => c[i - 1] = "owners"
             /\ c[i] = "keys"     => c[i - 1] = "projects"
             /\ c[i] = "write"    => c[i - 1] = "keys"
  <2> HIDE DEF c
  <2>1. CASE i <= Len(s)
    <3>1. i \in 2 .. Len(s) /\ c[i] = s[i] /\ c[i - 1] = s[i - 1]
      BY <1>1, <2>1 DEF c
    <3> QED
      BY <3>1 DEF Planned
  <2>2. CASE i = Len(s) + 1
    <3>1. c[i] = t[1]
      BY <1>1, <2>2 DEF c
    <3> QED
      BY <3>1 DEF SettingUp
  <2>3. CASE i > Len(s) + 1
    <3>1. PICK j \in 2 .. Len(t) : i = Len(s) + j
      <4> i - Len(s) \in 2 .. Len(t) /\ i = Len(s) + (i - Len(s))
        BY <1>1, <2>3
      <4> QED
        OBVIOUS
    <3>2. j - 1 \in 1 .. Len(t) /\ j \in 1 .. Len(t) /\ i - 1 = Len(s) + (j - 1)
      BY <1>1, <3>1
    <3>3. c[i] = t[j] /\ c[i - 1] = t[j - 1]
      BY <1>1, <3>1, <3>2 DEF c
    <3> QED
      BY <3>3 DEF Planned
  <2> QED
    BY <1>1, <2>1, <2>2, <2>3
<1>3. Planned(c)
  BY <1>1, <1>2 DEF Planned
<1>4. s \o t # <<>> /\ (s \o t)[1] = s[1]
  BY <1>1
<1> QED
  BY <1>1, <1>3, <1>4

\* Plans without a step that relies on another.
LEMMA FreePlanned ==
  ASSUME NEW s \in Seq(StepNames), \A i \in 2 .. Len(s) : s[i] \notin {"register"} \cup SettingUp
  PROVE  Planned(s)
BY DEF Planned, SettingUp

LEMMA OnePlanned ==
  ASSUME NEW a \in StepNames
  PROVE  <<a>> \in Seq(StepNames) /\ <<a>> # <<>> /\ <<a>>[1] = a /\ Planned(<<a>>)
<1> DEFINE s == <<a>>
<1>1. s \in Seq(StepNames) /\ s[1] = a /\ Len(s) = 1
  OBVIOUS
<1> HIDE DEF s
<1>2. s # <<>> /\ Planned(s)
  BY <1>1 DEF Planned
<1> QED
  BY <1>1, <1>2 DEF s

LEMMA TwoPlanned ==
  ASSUME NEW a \in StepNames, NEW b \in StepNames \ ({"register"} \cup SettingUp)
  PROVE  <<a, b>> \in Seq(StepNames) /\ <<a, b>> # <<>> /\ <<a, b>>[1] = a /\ Planned(<<a, b>>)
<1> DEFINE s == <<a, b>>
<1>1. s \in Seq(StepNames) /\ s[1] = a /\ s[2] = b /\ Len(s) = 2
  OBVIOUS
<1> HIDE DEF s
<1>2. \A i \in 2 .. Len(s) : s[i] \notin {"register"} \cup SettingUp
  <2>1. \A i \in 2 .. Len(s) : i = 2
    BY <1>1
  <2> QED
    BY <1>1, <2>1
<1>3. Planned(s)
  BY <1>1, <1>2, FreePlanned
<1>4. s # <<>>
  BY <1>1
<1> QED
  BY <1>1, <1>3, <1>4 DEF s

LEMMA ThreePlanned ==
  ASSUME NEW a \in StepNames, NEW b \in StepNames \ ({"register"} \cup SettingUp),
         NEW c \in StepNames \ ({"register"} \cup SettingUp)
  PROVE  <<a, b, c>> \in Seq(StepNames) /\ <<a, b, c>> # <<>> /\ <<a, b, c>>[1] = a /\ Planned(<<a, b, c>>)
<1> DEFINE s == <<a, b, c>>
<1>1. s \in Seq(StepNames) /\ s[1] = a /\ s[2] = b /\ s[3] = c /\ Len(s) = 3
  OBVIOUS
<1> HIDE DEF s
<1>2. \A i \in 2 .. Len(s) : s[i] \notin {"register"} \cup SettingUp
  <2>1. \A i \in 2 .. Len(s) : i = 2 \/ i = 3
    BY <1>1
  <2> QED
    BY <1>1, <2>1
<1>3. Planned(s)
  BY <1>1, <1>2, FreePlanned
<1>4. s # <<>>
  BY <1>1
<1> QED
  BY <1>1, <1>3, <1>4 DEF s

\* The parts of the plans.
LEMMA PartsPlanned ==
  /\ PreBuild \in Seq(StepNames) /\ Planned(PreBuild) /\ PreBuild # <<>> /\ PreBuild[1] = "deploy"
  /\ Tail(PreBuild) \in Seq(StepNames) /\ Planned(Tail(PreBuild)) /\ Tail(PreBuild) # <<>>
  /\ Head(Tail(PreBuild)) = "register"
  /\ PostBuild \in Seq(StepNames) /\ Planned(PostBuild) /\ PostBuild # <<>> /\ PostBuild[1] = "version"
  /\ Test \in Seq(StepNames) /\ Planned(Test) /\ Test # <<>> /\ Test[1] = "bind"
  /\ <<"start">> \in Seq(StepNames) /\ Planned(<<"start">>) /\ <<"start">> # <<>> /\ <<"start">>[1] = "start"
<1>1. /\ PreBuild \in Seq(StepNames) /\ PreBuild # <<>> /\ Planned(PreBuild)
      /\ PreBuild[1] = "deploy" /\ PreBuild[2] = "register" /\ Len(PreBuild) = 6
  <2> DEFINE s == <<"deploy", "register", "owners", "projects", "keys", "write">>
  <2>1. s \in Seq(StepNames)
    BY DEF StepNames
  <2>2. /\ s[1] = "deploy" /\ s[2] = "register" /\ s[3] = "owners" /\ s[4] = "projects"
        /\ s[5] = "keys" /\ s[6] = "write" /\ Len(s) = 6
    OBVIOUS
  <2>3. PreBuild = s
    BY DEF PreBuild
  <2> HIDE DEF s
  <2>4. \A i \in 2 .. Len(s) : i = 2 \/ i = 3 \/ i = 4 \/ i = 5 \/ i = 6
    BY <2>2
  <2>5. s # <<>> /\ Planned(s)
    <3>1. s # <<>>
      BY <2>2
    <3>2. ASSUME NEW i \in 2 .. Len(s)
          PROVE  /\ s[i] = "register" => s[i - 1] = "deploy"
                 /\ s[i] = "owners"   => s[i - 1] = "register"
                 /\ s[i] = "projects" => s[i - 1] = "owners"
                 /\ s[i] = "keys"     => s[i - 1] = "projects"
                 /\ s[i] = "write"    => s[i - 1] = "keys"
      <4>1. i = 2 \/ i = 3 \/ i = 4 \/ i = 5 \/ i = 6
        BY <2>4
      <4>2. 2 - 1 = 1 /\ 3 - 1 = 2 /\ 4 - 1 = 3 /\ 5 - 1 = 4 /\ 6 - 1 = 5
        OBVIOUS
      <4> QED
        BY <2>2, <4>1, <4>2
    <3> QED
      BY <3>1, <3>2 DEF Planned
  <2> QED
    BY <2>1, <2>2, <2>3, <2>5
<1>2. PostBuild \in Seq(StepNames) /\ Planned(PostBuild) /\ PostBuild # <<>> /\ PostBuild[1] = "version"
  <2>1. "governance" \in StepNames \ ({"register"} \cup SettingUp) /\ "machine" \in StepNames \ ({"register"} \cup SettingUp)
    BY DEF SettingUp, StepNames
  <2>2. "version" \in StepNames
    BY DEF StepNames
  <2> QED
    BY <2>1, <2>2, ThreePlanned DEF PostBuild
<1>3. Test \in Seq(StepNames) /\ Planned(Test) /\ Test # <<>> /\ Test[1] = "bind"
  <2>1. "send" \in StepNames \ ({"register"} \cup SettingUp) /\ "bind" \in StepNames
    BY DEF SettingUp, StepNames
  <2> QED
    BY <2>1, TwoPlanned DEF Test
<1>4. <<"start">> \in Seq(StepNames) /\ Planned(<<"start">>) /\ <<"start">> # <<>> /\ <<"start">>[1] = "start"
  <2>1. "start" \in StepNames
    BY DEF StepNames
  <2> QED
    BY <2>1, OnePlanned
<1>5. /\ Tail(PreBuild) \in Seq(StepNames) /\ Planned(Tail(PreBuild)) /\ Tail(PreBuild) # <<>>
      /\ Head(Tail(PreBuild)) = PreBuild[2]
  <2>1. Len(PreBuild) # 1
    BY <1>1
  <2> QED
    BY <1>1, <2>1, TailPlanned
<1> QED
  BY <1>1, <1>2, <1>3, <1>4, <1>5

\* The names of the scripts.
LEMMA NamesValue ==
  Names = {"setup", "prebuild", "hand", "start", "postbuild", "test", "stop", "pause"}
BY DEF Names, Plans

\* Every script begins with a step that needs nothing, register-extension by
\* hand with the registration.
LEMMA PlansPlanned ==
  ASSUME NEW p \in Names
  PROVE  /\ Plans[p] \in Seq(Steps) /\ Planned(Plans[p]) /\ Plans[p] # <<>>
         /\ Head(Plans[p]) \notin SettingUp
         /\ Head(Plans[p]) = "register" => p = "hand"
<1>1. Plans[p] \in Seq(StepNames) /\ Planned(Plans[p]) /\ Plans[p] # <<>>
      /\ Head(Plans[p]) \notin SettingUp /\ (Head(Plans[p]) = "register" => p = "hand")
  <2>1. CASE p = "setup"
    <3> DEFINE a == PreBuild \o <<"start">>
               b == a \o PostBuild
    <3>1. Plans[p] = b \o Test
      BY <2>1 DEF Plans
    <3>2. a \in Seq(StepNames) /\ Planned(a) /\ a # <<>> /\ a[1] = "deploy"
      BY PartsPlanned, ConcatPlanned DEF SettingUp
    <3> HIDE DEF a
    <3>3. b \in Seq(StepNames) /\ Planned(b) /\ b # <<>> /\ b[1] = "deploy"
      BY <3>2, PartsPlanned, ConcatPlanned DEF SettingUp
    <3> HIDE DEF b
    <3>4. b \o Test \in Seq(StepNames) /\ Planned(b \o Test) /\ b \o Test # <<>> /\ (b \o Test)[1] = "deploy"
      BY <3>3, PartsPlanned, ConcatPlanned DEF SettingUp
    <3>5. Head(b \o Test) = "deploy"
      BY <3>4
    <3> QED
      BY <3>1, <3>4, <3>5 DEF SettingUp
  <2>2. CASE p = "prebuild"
    <3>1. Plans[p] = PreBuild
      BY <2>2 DEF Plans
    <3> QED
      BY <3>1, PartsPlanned DEF SettingUp
  <2>3. CASE p = "hand"
    <3>1. Plans[p] = Tail(PreBuild)
      BY <2>3 DEF Plans
    <3> QED
      BY <2>3, <3>1, PartsPlanned DEF SettingUp
  <2>4. CASE p = "postbuild"
    <3>1. Plans[p] = PostBuild
      BY <2>4 DEF Plans
    <3> QED
      BY <3>1, PartsPlanned DEF SettingUp
  <2>5. CASE p = "test"
    <3>1. Plans[p] = Test
      BY <2>5 DEF Plans
    <3> QED
      BY <3>1, PartsPlanned DEF SettingUp
  <2>6. CASE p = "start"
    <3>1. Plans[p] = <<"start">>
      BY <2>6 DEF Plans
    <3> QED
      BY <3>1, PartsPlanned DEF SettingUp
  <2>7. CASE p = "stop"
    <3>1. Plans[p] = <<"stop">>
      BY <2>7 DEF Plans
    <3>2. <<"stop">> \in Seq(StepNames) /\ Planned(<<"stop">>) /\ <<"stop">> # <<>> /\ <<"stop">>[1] = "stop"
      <4>1. "stop" \in StepNames
        BY DEF StepNames
      <4> QED
        BY <4>1, OnePlanned
    <3> QED
      BY <3>1, <3>2 DEF SettingUp
  <2>8. CASE p = "pause"
    <3>1. Plans[p] = <<"look", "list", "pause">>
      BY <2>8 DEF Plans
    <3> DEFINE s == <<"look", "list", "pause">>
    <3>2. s \in Seq(StepNames) /\ Planned(s) /\ s # <<>> /\ s[1] = "look"
      <4>1. "list" \in StepNames \ ({"register"} \cup SettingUp) /\ "pause" \in StepNames \ ({"register"} \cup SettingUp)
        BY DEF SettingUp, StepNames
      <4>2. "look" \in StepNames
        BY DEF StepNames
      <4> QED
        BY <4>1, <4>2, ThreePlanned
    <3> QED
      BY <3>1, <3>2 DEF SettingUp
  <2> QED
    BY <2>1, <2>2, <2>3, <2>4, <2>5, <2>6, <2>7, <2>8, NamesValue
<1>2. \A i \in DOMAIN Plans[p] : Plans[p][i] \in Steps
  BY DEF Steps
<1>3. Plans[p] \in Seq(Steps)
  <2> DEFINE s == Plans[p]
  <2>1. s \in Seq(StepNames) /\ \A i \in DOMAIN s : s[i] \in Steps
    BY <1>1, <1>2
  <2> HIDE DEF s
  <2>2. s \in Seq(Steps)
    BY <2>1
  <2> QED
    BY <2>2 DEF s
<1> QED
  BY <1>1, <1>3

-----------------------------------------------------------------------------
(* What all steps share: the registry *)

\* The registry as it is.
LEMMA SameExts ==
  ASSUME TypeOK, exts' = exts
  PROVE  ExtsGrow
BY DEF TypeOK, ExtsGrow, ExtRecord

\* A new extension at the end.
LEMMA AppendedExts ==
  ASSUME TypeOK, NEW x \in ExtRecord, exts' = Append(exts, x)
  PROVE  /\ ExtsGrow /\ Len(exts') = Len(exts) + 1 /\ Len(exts) \in Nat
         /\ exts'[Len(exts) + 1] = x /\ \A i \in DOMAIN exts : exts'[i] = exts[i]
<1>1. exts \in Seq(ExtRecord)
  BY DEF TypeOK, ExtRecord
<1>2. /\ exts' \in Seq(ExtRecord) /\ Len(exts') = Len(exts) + 1 /\ Len(exts) \in Nat
      /\ exts'[Len(exts) + 1] = x /\ \A i \in DOMAIN exts : exts'[i] = exts[i]
  BY <1>1
<1> QED
  BY <1>2 DEF ExtsGrow

\* One extension becomes more.
LEMMA ExceptExts ==
  ASSUME TypeOK, NEW e, NEW x, exts' = [exts EXCEPT ![e] = x],
         e \in DOMAIN exts =>
           /\ x \in ExtRecord /\ x.sender = exts[e].sender /\ x.by = exts[e].by
           /\ exts[e].owners \subseteq x.owners /\ exts[e].projects \subseteq x.projects
           /\ exts[e].keyed => x.keyed
  PROVE  ExtsGrow /\ DOMAIN exts' = DOMAIN exts /\ (e \in DOMAIN exts => exts'[e] = x)
<1>1. exts \in Seq(ExtRecord)
  BY DEF TypeOK, ExtRecord
<1>2. CASE e \in DOMAIN exts
  <2>1. /\ exts' \in Seq(ExtRecord) /\ Len(exts') = Len(exts) /\ DOMAIN exts' = DOMAIN exts
        /\ exts'[e] = x /\ \A i \in DOMAIN exts \ {e} : exts'[i] = exts[i]
    BY <1>1, <1>2
  <2> QED
    BY <1>1, <1>2, <2>1 DEF ExtsGrow
<1>3. CASE e \notin DOMAIN exts
  <2>1. exts' = exts
    BY <1>1, <1>3
  <2> QED
    BY <1>3, <2>1, SameExts
<1> QED
  BY <1>2, <1>3

-----------------------------------------------------------------------------
(* What all steps share: the scripts *)

\* A script that only was disturbed is where it was.
LEMMA DisturbedValue ==
  ASSUME NEW r \in RunRecord
  PROVE  /\ Disturbed(r) \in RunRecord /\ Disturbed(r).todo = r.todo /\ Disturbed(r).sender = r.sender
         /\ Disturbed(r).ext = r.ext /\ Disturbed(r).key = r.key
<1> DEFINE b == r.calm /\ ~(r.full \/ "pause" \in {r.todo[i] : i \in DOMAIN r.todo})
<1>1. Disturbed(r) = [r EXCEPT !.calm = b]
  BY DEF Disturbed
<1>2. b \in BOOLEAN
  BY Zenon
<1> HIDE DEF b
<1> QED
  BY <1>1, <1>2 DEF RunRecord

\* What is prepared stays prepared for whoever is not at work.
LEMMA PreparedStays ==
  ASSUME TypeOK, RunsInv, ExtsGrow, NEW o \in Operators,
         run'[o].todo = run[o].todo, run'[o].sender = run[o].sender,
         run'[o].ext = run[o].ext, run'[o].key = run[o].key
  PROVE  Planned(run'[o].todo) /\ Prepared(run[o])'
<1>1. Planned(run[o].todo) /\ Prepared(run[o])
  BY DEF RunsInv
<1>2. \A i \in DOMAIN exts :
        /\ i \in DOMAIN exts' /\ exts'[i].sender = exts[i].sender /\ exts'[i].by = exts[i].by
        /\ exts[i].owners \subseteq exts'[i].owners /\ exts[i].projects \subseteq exts'[i].projects
        /\ exts[i].keyed => exts'[i].keyed
  BY DEF ExtsGrow, TypeOK
<1>3. Planned(run'[o].todo)
  BY <1>1
<1> DEFINE r == run[o]
           r2 == run'[o]
<1>e. r2.todo = r.todo /\ r2.sender = r.sender /\ r2.ext = r.ext /\ r2.key = r.key
  OBVIOUS
<1>p. Prepared(run[o])' <=>
        (r2.todo # <<>> =>
          /\ Head(r2.todo) = "register" => r2.sender # 0
          /\ Head(r2.todo) \in SettingUp =>
               r2.ext \in DOMAIN exts' /\ exts'[r2.ext].sender = r2.sender /\ exts'[r2.ext].by = r2.key
          /\ Head(r2.todo) \in SettingUp \ {"owners"} => r2.key \in exts'[r2.ext].owners
          /\ Head(r2.todo) \in {"keys", "write"} => r2.key \in exts'[r2.ext].projects
          /\ Head(r2.todo) = "write" => exts'[r2.ext].keyed)
  BY DEF Prepared
<1>q. r.todo # <<>> =>
          /\ Head(r.todo) = "register" => r.sender # 0
          /\ Head(r.todo) \in SettingUp =>
               r.ext \in DOMAIN exts /\ exts[r.ext].sender = r.sender /\ exts[r.ext].by = r.key
          /\ Head(r.todo) \in SettingUp \ {"owners"} => r.key \in exts[r.ext].owners
          /\ Head(r.todo) \in {"keys", "write"} => r.key \in exts[r.ext].projects
          /\ Head(r.todo) = "write" => exts[r.ext].keyed
  BY <1>1 DEF Prepared
<1> HIDE DEF r, r2
<1>4. CASE r.todo = <<>>
  BY <1>3, <1>4, <1>e, <1>p
<1>5. CASE r.todo # <<>> /\ Head(r.todo) \in SettingUp
  <2>1. r.ext \in DOMAIN exts /\ exts[r.ext].sender = r.sender /\ exts[r.ext].by = r.key
    BY <1>q, <1>5
  <2>2. /\ r.ext \in DOMAIN exts' /\ exts'[r.ext].sender = r.sender /\ exts'[r.ext].by = r.key
        /\ Head(r.todo) # "register"
    BY <1>2, <1>5, <2>1 DEF SettingUp
  <2>3. /\ Head(r.todo) \in SettingUp \ {"owners"} => r.key \in exts'[r.ext].owners
        /\ Head(r.todo) \in {"keys", "write"} => r.key \in exts'[r.ext].projects
        /\ Head(r.todo) = "write" => exts'[r.ext].keyed
    BY <1>q, <1>2, <1>5, <2>1
  <2> QED
    BY <1>3, <1>e, <1>p, <2>2, <2>3
<1>6. CASE r.todo # <<>> /\ Head(r.todo) \notin SettingUp
  BY <1>3, <1>e, <1>p, <1>q, <1>6 DEF SettingUp
<1> QED
  BY <1>3, <1>4, <1>5, <1>6

\* One script changes, and the others are disturbed at most.
LEMMA BecomesValue ==
  ASSUME TypeOK, RunsInv, ExtsGrow, NEW o \in Operators, NEW r \in RunRecord, Becomes(o, r),
         Planned(r.todo), run'[o] = r => Prepared(run[o])'
  PROVE  run' \in [Operators -> RunRecord] /\ run'[o] = r /\ RunsInv'
<1>1. \A p \in Operators : run[p] \in RunRecord
  BY DEF TypeOK, RunRecord, Steps
<1>2. run'[o] = r /\ \A p \in Operators \ {o} : run'[p] = Disturbed(run[p])
  BY DEF Becomes
<1>3. run' \in [Operators -> RunRecord]
  BY <1>1, DisturbedValue DEF Becomes
<1>4. ASSUME NEW p \in Operators \ {o} PROVE Planned(run'[p].todo) /\ Prepared(run[p])'
  BY <1>1, <1>2, DisturbedValue, PreparedStays
<1>5. Planned(run'[o].todo) /\ Prepared(run[o])'
  BY <1>2
<1> QED
  BY <1>2, <1>3, <1>4, <1>5 DEF RunsInv

\* A script that ends or has not begun.
LEMMA IdleValue == Idle \in RunRecord /\ Idle.todo = <<>> /\ Idle.sender = 0 /\ Planned(Idle.todo)
  BY DEF Idle, RunRecord, Keys, Planned

\* A script that is given up leaves the others as they were.
LEMMA AbortKeepsRuns ==
  ASSUME TypeOK, RunsInv, ExtsGrow, NEW o \in Operators, Abort(o)
  PROVE  run' \in [Operators -> RunRecord] /\ RunsInv'
<1>1. run'[o] = Idle => Prepared(run[o])'
  BY IdleValue DEF Prepared
<1> QED
  BY <1>1, IdleValue, BecomesValue DEF Abort

\* A script comes to its next step, for which the step before has prepared it.
LEMMA DoneKeepsRuns ==
  ASSUME TypeOK, RunsInv, ExtsGrow, NEW o \in Operators, NEW r \in RunRecord, Done(o, r),
         r.todo = run[o].todo, r.todo # <<>>,
         Head(r.todo) = "deploy" => r.sender # 0,
         Head(r.todo) \in {"register", "owners", "projects", "keys"} =>
           /\ r.ext \in DOMAIN exts' /\ exts'[r.ext].sender = r.sender /\ exts'[r.ext].by = r.key
           /\ Head(r.todo) # "register" => r.key \in exts'[r.ext].owners
           /\ Head(r.todo) \in {"projects", "keys"} => r.key \in exts'[r.ext].projects
           /\ Head(r.todo) = "keys" => exts'[r.ext].keyed
  PROVE  run' \in [Operators -> RunRecord] /\ RunsInv'
<1>1. r.todo \in Seq(Steps) /\ Planned(r.todo) /\ Head(r.todo) = r.todo[1] /\ Len(r.todo) \in Nat
  BY DEF RunRecord, RunsInv
<1>2. CASE Len(r.todo) = 1
  <2>1. Abort(o)
    BY <1>2 DEF Done, Abort
  <2> QED
    BY <2>1, AbortKeepsRuns
<1>3. CASE Len(r.todo) # 1
  <2> DEFINE q == [r EXCEPT !.todo = Tail(r.todo)]
  <2>1. /\ Tail(r.todo) \in Seq(Steps) /\ Planned(Tail(r.todo)) /\ Tail(r.todo) # <<>>
        /\ Head(Tail(r.todo)) = r.todo[2] /\ 2 \in 2 .. Len(r.todo)
    BY <1>1, <1>3, TailPlanned
  <2>2. /\ q \in RunRecord /\ q.todo = Tail(r.todo) /\ q.sender = r.sender /\ q.ext = r.ext /\ q.key = r.key
    BY <2>1 DEF RunRecord
  <2>3. Becomes(o, q)
    BY <1>3 DEF Done
  <2> HIDE DEF q
  <2>4. /\ r.todo[2] = "register" => r.todo[1] = "deploy"
        /\ r.todo[2] = "owners"   => r.todo[1] = "register"
        /\ r.todo[2] = "projects" => r.todo[1] = "owners"
        /\ r.todo[2] = "keys"     => r.todo[1] = "projects"
        /\ r.todo[2] = "write"    => r.todo[1] = "keys"
    BY <1>1, <2>1 DEF Planned
  <2>5. ASSUME run'[o] = q PROVE Prepared(run[o])'
    <3>1. /\ Head(q.todo) = r.todo[2]
          /\ Head(q.todo) = "register" => q.sender # 0
          /\ Head(q.todo) \in SettingUp =>
               q.ext \in DOMAIN exts' /\ exts'[q.ext].sender = q.sender /\ exts'[q.ext].by = q.key
      BY <1>1, <2>1, <2>2, <2>4 DEF SettingUp
    <3>2. /\ Head(q.todo) \in SettingUp \ {"owners"} => q.key \in exts'[q.ext].owners
          /\ Head(q.todo) \in {"keys", "write"} => q.key \in exts'[q.ext].projects
          /\ Head(q.todo) = "write" => exts'[q.ext].keyed
      BY <1>1, <2>1, <2>2, <2>4 DEF SettingUp
    <3> QED
      BY <2>5, <3>1, <3>2 DEF Prepared
  <2> QED
    BY <2>1, <2>2, <2>3, <2>5, BecomesValue
<1> QED
  BY <1>2, <1>3

\* The same for a step that prepares nothing.
LEMMA PlainStepKeepsRuns ==
  ASSUME TypeOK, RunsInv, ExtsGrow, NEW o \in Operators, NEW r \in RunRecord, Done(o, r),
         r.todo = run[o].todo, r.todo # <<>>,
         Head(r.todo) \notin {"deploy", "register", "owners", "projects", "keys"}
  PROVE  run' \in [Operators -> RunRecord] /\ RunsInv'
BY DoneKeepsRuns

-----------------------------------------------------------------------------
(* What all steps share: the other parts of the invariant *)

\* The types after a step, part by part.
LEMMA NextType ==
  ASSUME TypeOK, ExtsGrow, run' \in [Operators -> RunRecord], bound' \in Seq(Nat),
         active' \subseteq [tee : Nat, ext : Nat], mode' = mode, dotenv' = dotenv, key' \in Keys,
         node' \in [up : BOOLEAN, tee : Nat, ext : Nat, governance : Governances], tees' \in Nat,
         file' \in [exists : BOOLEAN, ext : Int, sender : Int, edited : BOOLEAN], faults' \in Nat
  PROVE  TypeOK'
<1>1. exts' \in Seq(ExtRecord)
  BY DEF ExtsGrow
<1> QED
  BY <1>1 DEF TypeOK, ExtRecord, RunRecord, Steps

\* The types of the state.
LEMMA TypeParts ==
  ASSUME TypeOK
  PROVE  /\ exts \in Seq(ExtRecord) /\ bound \in Seq(Nat) /\ active \subseteq [tee : Nat, ext : Nat]
         /\ key \in Keys /\ tees \in Nat /\ faults \in Nat
         /\ node \in [up : BOOLEAN, tee : Nat, ext : Nat, governance : Governances]
         /\ file \in [exists : BOOLEAN, ext : Int, sender : Int, edited : BOOLEAN]
         /\ run \in [Operators -> RunRecord]
BY DEF TypeOK, ExtRecord, RunRecord, Steps

\* The extension of the file stays set up.
LEMMA SameFile ==
  ASSUME TypeOK, WrittenExtensionIsSetUp, ExtsGrow, file' = file
  PROVE  WrittenExtensionIsSetUp'
<1>1. \A i \in DOMAIN exts :
        /\ i \in DOMAIN exts' /\ exts'[i].sender = exts[i].sender /\ exts'[i].by = exts[i].by
        /\ exts[i].owners \subseteq exts'[i].owners /\ exts[i].projects \subseteq exts'[i].projects
        /\ exts[i].keyed => exts'[i].keyed
  BY TypeParts DEF ExtsGrow
<1> QED
  BY <1>1 DEF WrittenExtensionIsSetUp

\* Senders and extensions stay as they are.
LEMMA SameBinding ==
  ASSUME TypeOK, BoundToFirst, FirstExists, ExtsGrow, Len(exts') = Len(exts), bound' = bound
  PROVE  BoundToFirst' /\ FirstExists'
<1>1. \A s : OfSender(s)' = OfSender(s)
  BY TypeParts DEF OfSender, ExtsGrow
<1> QED
  BY <1>1 DEF BoundToFirst, FirstExists, Senders

\* Machines leave production, at most.
LEMMA SameMachines ==
  ASSUME TypeOK, MachinesAreCounted, MachineServesItsExtension, active' \subseteq active,
         node'.tee = node.tee, node'.ext = node.ext, tees' = tees
  PROVE  MachinesAreCounted' /\ MachineServesItsExtension'
BY DEF MachinesAreCounted, MachineServesItsExtension

\* Steps of a script that change nothing but scripts.
LEMMA QuietStep ==
  ASSUME DeploymentInv, UNCHANGED <<chainVars, hostVars>>,
         run' \in [Operators -> RunRecord], RunsInv', faults' \in Nat
  PROVE  DeploymentInv'
<1>1. /\ exts' = exts /\ bound' = bound /\ active' = active /\ mode' = mode /\ dotenv' = dotenv
      /\ key' = key /\ node' = node /\ tees' = tees /\ file' = file
  BY DEF chainVars, hostVars
<1>2. ExtsGrow
  BY <1>1, SameExts DEF DeploymentInv
<1>3. TypeOK'
  BY <1>1, <1>2, NextType, TypeParts DEF DeploymentInv
<1>4. WrittenExtensionIsSetUp'
  BY <1>1, <1>2, SameFile DEF DeploymentInv
<1>5. BoundToFirst' /\ FirstExists'
  BY <1>1, <1>2, SameBinding DEF DeploymentInv
<1>6. MachinesAreCounted' /\ MachineServesItsExtension'
  BY <1>1, SameMachines DEF DeploymentInv
<1> QED
  BY <1>3, <1>4, <1>5, <1>6 DEF DeploymentInv

\* A fault is counted.
LEMMA FaultCounts == ASSUME TypeOK, Fault \/ UNCHANGED faults PROVE faults' \in Nat
BY TypeParts DEF Fault

\* A script at a step.
LEMMA AtValue ==
  ASSUME TypeOK, NEW o \in Operators, NEW step, At(o, step)
  PROVE  run[o] \in RunRecord /\ run[o].todo # <<>> /\ Head(run[o].todo) = step
BY TypeParts DEF At

\* A script that is given up while nothing else changes.
LEMMA QuietAbort ==
  ASSUME DeploymentInv, NEW o \in Operators, Abort(o), UNCHANGED <<chainVars, hostVars>>,
         Fault \/ UNCHANGED faults
  PROVE  DeploymentInv'
<1>1. ExtsGrow
  BY SameExts DEF DeploymentInv, chainVars
<1>2. run' \in [Operators -> RunRecord] /\ RunsInv'
  BY <1>1, AbortKeepsRuns DEF DeploymentInv
<1>3. faults' \in Nat
  BY FaultCounts DEF DeploymentInv
<1> QED
  BY <1>2, <1>3, QuietStep

-----------------------------------------------------------------------------
(* The steps that change nothing but scripts *)

LEMMA FailuresKeepInv ==
  ASSUME DeploymentInv, NEW o \in Operators,
         \/ DeployFails(o) \/ RegisterFails(o) \/ StartFails(o) \/ PostBuildFails(o)
         \/ SetExtensionIdFails(o) \/ SendFails(o) \/ LookFails(o)
  PROVE  DeploymentInv'
<1>1. CASE DeployFails(o)
  BY <1>1, QuietAbort DEF DeployFails
<1>2. CASE RegisterFails(o)
  BY <1>2, QuietAbort DEF RegisterFails
<1>3. CASE StartFails(o)
  <2>1. Fault \/ UNCHANGED faults
    BY <1>3 DEF StartFails
  <2> QED
    BY <1>3, <2>1, QuietAbort DEF StartFails
<1>4. CASE PostBuildFails(o)
  BY <1>4, QuietAbort, Zenon DEF PostBuildFails, hostVars, chainVars
<1>5. CASE SetExtensionIdFails(o)
  <2>1. Fault \/ UNCHANGED faults
    BY <1>5 DEF SetExtensionIdFails
  <2> QED
    BY <1>5, <2>1, QuietAbort DEF SetExtensionIdFails
<1>6. CASE SendFails(o)
  <2>1. Fault \/ UNCHANGED faults
    BY <1>6, Zenon DEF SendFails
  <2>2. Abort(o) /\ UNCHANGED <<chainVars, hostVars>>
    BY <1>6, Zenon DEF SendFails
  <2> QED
    BY <2>1, <2>2, QuietAbort
<1>7. CASE LookFails(o)
  BY <1>7, QuietAbort, Zenon DEF LookFails, hostVars, chainVars
<1> QED
  BY <1>1, <1>2, <1>3, <1>4, <1>5, <1>6, <1>7

LEMMA SendKeepsInv ==
  ASSUME DeploymentInv, NEW o \in Operators, Send(o)
  PROVE  DeploymentInv'
<1>1. At(o, "send") /\ Done(o, run[o]) /\ UNCHANGED <<chainVars, hostVars>> /\ faults' = faults
  BY Zenon DEF Send, chainVars, hostVars
<1>2. ExtsGrow
  BY <1>1, SameExts DEF DeploymentInv, chainVars
<1>3. run[o] \in RunRecord /\ run[o].todo # <<>> /\ Head(run[o].todo) = "send"
  BY <1>1, AtValue DEF DeploymentInv
<1>4. run' \in [Operators -> RunRecord] /\ RunsInv'
  BY <1>1, <1>2, <1>3, PlainStepKeepsRuns DEF DeploymentInv
<1> QED
  BY <1>1, <1>4, QuietStep, TypeParts DEF DeploymentInv

LEMMA LookKeepsInv ==
  ASSUME DeploymentInv, NEW o \in Operators, Look(o)
  PROVE  DeploymentInv'
<1>1. /\ At(o, "look") /\ file.ext > 0 /\ UNCHANGED <<chainVars, hostVars>>
      /\ \E c \in {0, node.tee} : Done(o, [run[o] EXCEPT !.current = c, !.ext = file.ext])
      /\ Fault \/ UNCHANGED faults
  BY Zenon DEF Look, WellFormed
<1>2. PICK c \in {0, node.tee} : Done(o, [run[o] EXCEPT !.current = c, !.ext = file.ext])
  BY <1>1
<1> DEFINE r == [run[o] EXCEPT !.current = c, !.ext = file.ext]
<1>3. ExtsGrow
  BY <1>1, SameExts DEF DeploymentInv, chainVars
<1>4. run[o] \in RunRecord /\ run[o].todo # <<>> /\ Head(run[o].todo) = "look"
  BY <1>1, AtValue DEF DeploymentInv
<1>5. c \in Nat /\ file.ext \in Nat
  BY <1>1, TypeParts DEF DeploymentInv
<1>6. r \in RunRecord /\ r.todo = run[o].todo
  BY <1>4, <1>5 DEF RunRecord
<1>7. Done(o, r)
  BY <1>2
<1> HIDE DEF r
<1>8. run' \in [Operators -> RunRecord] /\ RunsInv'
  BY <1>3, <1>4, <1>6, <1>7, PlainStepKeepsRuns DEF DeploymentInv
<1>9. faults' \in Nat
  BY <1>1, FaultCounts DEF DeploymentInv
<1> QED
  BY <1>1, <1>8, <1>9, QuietStep

\* A script goes on to the step after a step that no step relies on.
LEMMA NextStepValue ==
  ASSUME DeploymentInv, ExtsGrow, NEW o \in Operators, NEW r \in RunRecord, r.todo = run[o].todo,
         r.todo # <<>>, Head(r.todo) = "list", Becomes(o, [r EXCEPT !.todo = Tail(@)])
  PROVE  run' \in [Operators -> RunRecord] /\ RunsInv'
<1> DEFINE q == [r EXCEPT !.todo = Tail(r.todo)]
<1>1. r.todo \in Seq(Steps) /\ Planned(r.todo) /\ Head(r.todo) = r.todo[1] /\ Len(r.todo) \in Nat
  BY DEF RunRecord, RunsInv, DeploymentInv
<1>2. /\ Tail(r.todo) \in Seq(Steps) /\ Planned(Tail(r.todo))
      /\ Len(r.todo) # 1 => Tail(r.todo) # <<>> /\ Head(Tail(r.todo)) = r.todo[2] /\ 2 \in 2 .. Len(r.todo)
  BY <1>1, TailPlanned
<1>3. q \in RunRecord /\ q.todo = Tail(r.todo)
  BY <1>2 DEF RunRecord
<1>4. Becomes(o, q)
  OBVIOUS
<1> HIDE DEF q
<1>5. Tail(r.todo) # <<>> => Len(r.todo) # 1
  <2>1. Tail(r.todo) \in Seq(Steps) /\ Len(Tail(r.todo)) = Len(r.todo) - 1
    BY <1>1
  <2> DEFINE u == Tail(r.todo)
  <2> SUFFICES ASSUME Len(r.todo) = 1 PROVE u = <<>>
    OBVIOUS
  <2>2. u \in Seq(Steps) /\ Len(u) = 0
    BY <2>1
  <2> HIDE DEF u
  <2> QED
    BY <2>2
<1>6. q.todo # <<>> => Head(q.todo) \notin {"register"} \cup SettingUp
  <2> SUFFICES ASSUME q.todo # <<>> PROVE Head(q.todo) \notin {"register"} \cup SettingUp
    OBVIOUS
  <2>1. Head(q.todo) = r.todo[2] /\ 2 \in 2 .. Len(r.todo) /\ r.todo[1] = "list" /\ 2 - 1 = 1
    BY <1>1, <1>2, <1>3, <1>5
  <2>2. /\ r.todo[2] = "register" => r.todo[2 - 1] = "deploy"
        /\ r.todo[2] = "owners"   => r.todo[2 - 1] = "register"
        /\ r.todo[2] = "projects" => r.todo[2 - 1] = "owners"
        /\ r.todo[2] = "keys"     => r.todo[2 - 1] = "projects"
        /\ r.todo[2] = "write"    => r.todo[2 - 1] = "keys"
    BY <1>1, <2>1 DEF Planned
  <2> QED
    BY <2>1, <2>2 DEF SettingUp
<1>7. run'[o] = q => Prepared(run[o])'
  BY <1>6 DEF Prepared, SettingUp
<1> QED
  BY <1>2, <1>3, <1>4, <1>7, BecomesValue DEF DeploymentInv

LEMMA ListKeepsInv ==
  ASSUME DeploymentInv, NEW o \in Operators, List(o)
  PROVE  DeploymentInv'
<1>1. /\ At(o, "list") /\ UNCHANGED <<chainVars, hostVars>> /\ faults' = faults
      /\ Abort(o) \/ Becomes(o, [[run[o] EXCEPT !.stale = StaleOf(o)] EXCEPT !.todo = Tail(@)])
  <2>1. run[o] \in RunRecord
    BY TypeParts DEF DeploymentInv
  <2>2. [run[o] EXCEPT !.stale = StaleOf(o), !.todo = Tail(@)]
          = [[run[o] EXCEPT !.stale = StaleOf(o)] EXCEPT !.todo = Tail(@)]
    OBVIOUS
  <2> QED
    BY <2>2, Zenon DEF List, Abort, chainVars, hostVars
<1>2. CASE Abort(o)
  BY <1>1, <1>2, QuietAbort
<1>3. CASE Becomes(o, [[run[o] EXCEPT !.stale = StaleOf(o)] EXCEPT !.todo = Tail(@)])
  <2> DEFINE r == [run[o] EXCEPT !.stale = StaleOf(o)]
  <2>1. ExtsGrow
    BY <1>1, SameExts DEF DeploymentInv, chainVars
  <2>2. run[o] \in RunRecord /\ run[o].todo # <<>> /\ Head(run[o].todo) = "list"
    BY <1>1, AtValue DEF DeploymentInv
  <2>3. StaleOf(o) \in SUBSET Nat
    BY TypeParts DEF DeploymentInv, StaleOf
  <2>4. r \in RunRecord /\ r.todo = run[o].todo
    BY <2>2, <2>3 DEF RunRecord
  <2>5. Becomes(o, [r EXCEPT !.todo = Tail(@)])
    BY <1>3
  <2> HIDE DEF r
  <2>6. run' \in [Operators -> RunRecord] /\ RunsInv'
    BY <2>1, <2>2, <2>4, <2>5, NextStepValue
  <2>7. faults' \in Nat
    BY <1>1, TypeParts DEF DeploymentInv
  <2> QED
    BY <1>1, <2>6, <2>7, QuietStep
<1> QED
  BY <1>1, <1>2, <1>3

\* A script begins: only register-extension by hand needs a sender for its first
\* step, and has one.
LEMMA BeginKeepsInv ==
  ASSUME DeploymentInv, NEW o \in Operators, NEW plan \in Names, Begin(o, plan)
  PROVE  DeploymentInv'
<1>1. UNCHANGED <<chainVars, hostVars>> /\ faults' = faults
  BY Zenon DEF Begin, chainVars, hostVars
<1>2. PICK s \in IF plan = "hand" THEN Senders ELSE {0} :
        run' = [run EXCEPT ![o] = [Idle EXCEPT !.full = (plan = "setup"), !.todo = Plans[plan], !.sender = s]]
  BY DEF Begin
<1> DEFINE b == plan = "setup"
           r == [Idle EXCEPT !.full = b, !.todo = Plans[plan], !.sender = s]
<1>3. s \in Nat /\ (plan = "hand" => s # 0)
  BY <1>2, TypeParts DEF Senders, DeploymentInv
<1>4. /\ Plans[plan] \in Seq(Steps) /\ Planned(Plans[plan]) /\ Plans[plan] # <<>>
      /\ Head(Plans[plan]) \notin SettingUp /\ (Head(Plans[plan]) = "register" => plan = "hand")
  BY PlansPlanned
<1>5. b \in BOOLEAN
  BY Zenon
<1>6. run' = [run EXCEPT ![o] = r]
  BY <1>2
<1> HIDE DEF b
<1>7. r \in RunRecord /\ r.todo = Plans[plan] /\ r.sender = s
  BY <1>3, <1>4, <1>5, IdleValue DEF RunRecord
<1> HIDE DEF r
<1>8. ExtsGrow
  BY <1>1, SameExts DEF DeploymentInv, chainVars
<1>9. run \in [Operators -> RunRecord]
  BY TypeParts DEF DeploymentInv
<1>10. run' \in [Operators -> RunRecord] /\ run'[o] = r /\ \A p \in Operators \ {o} : run'[p] = run[p]
  BY <1>6, <1>7, <1>9
<1>11. ASSUME NEW p \in Operators \ {o} PROVE Planned(run'[p].todo) /\ Prepared(run[p])'
  BY <1>8, <1>10, PreparedStays DEF DeploymentInv
<1>12. Planned(run'[o].todo) /\ Prepared(run[o])'
  BY <1>3, <1>4, <1>7, <1>10 DEF Prepared, SettingUp
<1>13. RunsInv'
  BY <1>11, <1>12 DEF RunsInv
<1> QED
  BY <1>1, <1>10, <1>13, QuietStep, TypeParts DEF DeploymentInv

-----------------------------------------------------------------------------
(* pre-build, and register-extension by hand *)

LEMMA DeployKeepsInv ==
  ASSUME DeploymentInv, NEW o \in Operators, Deploy(o)
  PROVE  DeploymentInv'
<1>1. /\ At(o, "deploy") /\ bound' = Append(bound, 0)
      /\ exts' = exts /\ active' = active /\ mode' = mode /\ dotenv' = dotenv
      /\ key' = key /\ node' = node /\ tees' = tees /\ file' = file
      /\ Fault \/ UNCHANGED faults
      /\ Abort(o) \/ Done(o, [run[o] EXCEPT !.sender = Len(bound')])
  BY Zenon DEF Deploy, hostVars
<1>2. ExtsGrow
  BY <1>1, SameExts DEF DeploymentInv
<1>3. /\ bound \in Seq(Nat) /\ bound' \in Seq(Nat) /\ Len(bound) \in Nat /\ Len(bound') = Len(bound) + 1
      /\ bound'[Len(bound) + 1] = 0 /\ \A i \in 1 .. Len(bound) : bound'[i] = bound[i]
  <2>1. bound \in Seq(Nat)
    BY TypeParts DEF DeploymentInv
  <2> QED
    BY <1>1, <2>1
<1>4. run[o] \in RunRecord /\ run[o].todo # <<>> /\ Head(run[o].todo) = "deploy"
  BY <1>1, AtValue DEF DeploymentInv
<1>5. run' \in [Operators -> RunRecord] /\ RunsInv'
  <2>1. CASE Abort(o)
    BY <1>2, <2>1, AbortKeepsRuns DEF DeploymentInv
  <2>2. CASE Done(o, [run[o] EXCEPT !.sender = Len(bound')])
    <3> DEFINE n == Len(bound')
               r == [run[o] EXCEPT !.sender = n]
    <3>0. n \in Nat /\ n # 0 /\ Done(o, r)
      BY <1>3, <2>2
    <3> HIDE DEF n
    <3>1. r \in RunRecord /\ r.todo = run[o].todo /\ r.sender = n
      BY <1>4, <3>0 DEF RunRecord
    <3>2. r.sender # 0 /\ Done(o, r)
      BY <3>0, <3>1
    <3> HIDE DEF r
    <3> QED
      BY <1>2, <1>4, <3>1, <3>2, DoneKeepsRuns DEF DeploymentInv
  <2> QED
    BY <1>1, <2>1, <2>2
<1>6. TypeOK'
  BY <1>1, <1>2, <1>3, <1>5, NextType, TypeParts, FaultCounts DEF DeploymentInv
<1>7. WrittenExtensionIsSetUp'
  BY <1>1, <1>2, SameFile DEF DeploymentInv
<1>8. BoundToFirst' /\ FirstExists'
  <2>1. \A s : OfSender(s)' = OfSender(s)
    BY <1>1 DEF OfSender
  <2>2. FirstExists'
    BY <2>1 DEF FirstExists, DeploymentInv
  <2>3. ASSUME NEW s \in 1 .. Len(bound'), bound'[s] # 0
        PROVE  bound'[s] \in OfSender(s) /\ \A i \in OfSender(s) : bound'[s] <= i
    <3>1. s \in 1 .. Len(bound) /\ bound'[s] = bound[s]
      BY <1>3, <2>3
    <3> QED
      BY <2>3, <3>1 DEF BoundToFirst, Senders, DeploymentInv
  <2>4. BoundToFirst'
    BY <2>1, <2>3 DEF BoundToFirst, Senders
  <2> QED
    BY <2>2, <2>4
<1>9. MachinesAreCounted' /\ MachineServesItsExtension'
  BY <1>1, SameMachines DEF DeploymentInv
<1> QED
  BY <1>5, <1>6, <1>7, <1>8, <1>9 DEF DeploymentInv

\* A new extension comes after all others: it is no sender's first one, unless it
\* is the only one.
LEMMA AppendedBinding ==
  ASSUME TypeOK, BoundToFirst, FirstExists, NEW x \in ExtRecord, exts' = Append(exts, x), bound' = bound
  PROVE  BoundToFirst' /\ FirstExists'
<1> DEFINE n == Len(exts) + 1
<1>1. /\ Len(exts') = n /\ Len(exts) \in Nat /\ exts'[n] = x
      /\ \A i \in DOMAIN exts : exts'[i] = exts[i]
      /\ DOMAIN exts = 1 .. Len(exts) /\ DOMAIN exts' = 1 .. Len(exts')
  BY AppendedExts, TypeParts DEF ExtsGrow
<1>2. ASSUME NEW s
      PROVE  /\ OfSender(s) \subseteq OfSender(s)' /\ OfSender(s)' \subseteq OfSender(s) \cup {n}
             /\ \A i \in OfSender(s) : i \in Nat /\ i <= n
  BY <1>1 DEF OfSender
<1> HIDE DEF n
<1>3. n \in Nat
  BY <1>1 DEF n
<1>4. BoundToFirst'
  <2>1. ASSUME NEW s \in Senders, bound[s] # 0
        PROVE  bound[s] \in OfSender(s)' /\ \A i \in OfSender(s)' : bound[s] <= i
    <3>1. bound[s] \in OfSender(s) /\ \A i \in OfSender(s) : bound[s] <= i
      BY <2>1 DEF BoundToFirst
    <3> QED
      BY <1>2, <1>3, <3>1
  <2> QED
    BY <2>1 DEF BoundToFirst, Senders
<1>5. ASSUME NEW s \in Nat, OfSender(s)' # {}
      PROVE  \E i \in OfSender(s)' : \A j \in OfSender(s)' : i <= j
  <2>1. CASE OfSender(s) = {}
    <3>1. OfSender(s)' = {n}
      BY <1>2, <1>5, <2>1
    <3> QED
      BY <1>3, <3>1
  <2>2. CASE OfSender(s) # {}
    <3>1. PICK i \in OfSender(s) : \A j \in OfSender(s) : i <= j
      BY <2>2 DEF FirstExists
    <3> QED
      BY <1>2, <1>3, <3>1
  <2> QED
    BY <2>1, <2>2
<1> QED
  BY <1>4, <1>5 DEF FirstExists

LEMMA RegisterKeepsInv ==
  ASSUME DeploymentInv, NEW o \in Operators, Register(o)
  PROVE  DeploymentInv'
<1> DEFINE x == Registered(run[o].sender)
           r == [run[o] EXCEPT !.ext = Len(exts'), !.key = key]
<1>1. /\ At(o, "register") /\ exts' = Append(exts, x)
      /\ bound' = bound /\ active' = active /\ mode' = mode /\ dotenv' = dotenv
      /\ key' = key /\ node' = node /\ tees' = tees /\ file' = file
      /\ Fault \/ UNCHANGED faults
      /\ Abort(o) \/ Done(o, r)
  BY Zenon DEF Register, hostVars
<1>2. run[o] \in RunRecord /\ run[o].todo # <<>> /\ Head(run[o].todo) = "register"
  BY <1>1, AtValue DEF DeploymentInv
<1>3. run[o].sender \in Nat \ {0} /\ key \in Keys
  <2>1. Prepared(run[o])
    BY DEF DeploymentInv, RunsInv
  <2> QED
    BY <1>2, <2>1, TypeParts DEF Prepared, RunRecord, DeploymentInv
<1>4. x \in ExtRecord /\ x.sender = run[o].sender /\ x.by = key
  BY <1>3 DEF Registered, ExtRecord, Governances
<1> HIDE DEF x, r
<1>5. /\ ExtsGrow /\ Len(exts') = Len(exts) + 1 /\ Len(exts) \in Nat /\ exts'[Len(exts) + 1] = x
  BY <1>1, <1>4, AppendedExts DEF DeploymentInv
<1>6. run' \in [Operators -> RunRecord] /\ RunsInv'
  <2>1. CASE Abort(o)
    BY <1>5, <2>1, AbortKeepsRuns DEF DeploymentInv
  <2>2. CASE Done(o, r)
    <3>1. /\ r \in RunRecord /\ r.todo = run[o].todo /\ r.ext = Len(exts) + 1 /\ r.key = key
          /\ r.sender = run[o].sender
      <4> DEFINE n == Len(exts')
                 q == [run[o] EXCEPT !.ext = n, !.key = key]
      <4>1. n \in Nat /\ n = Len(exts) + 1 /\ r = q
        BY <1>5 DEF r
      <4> HIDE DEF n
      <4>2. /\ q \in RunRecord /\ q.todo = run[o].todo /\ q.ext = n /\ q.key = key
            /\ q.sender = run[o].sender
        BY <1>2, <1>3, <4>1 DEF RunRecord
      <4> QED
        BY <4>1, <4>2
    <3>2. r.ext \in DOMAIN exts' /\ exts'[r.ext].sender = r.sender /\ exts'[r.ext].by = r.key
      BY <1>4, <1>5, <3>1 DEF ExtsGrow
    <3> QED
      BY <1>2, <1>5, <2>2, <3>1, <3>2, DoneKeepsRuns DEF DeploymentInv
  <2> QED
    BY <1>1, <2>1, <2>2
<1>7. TypeOK'
  BY <1>1, <1>5, <1>6, NextType, TypeParts, FaultCounts DEF DeploymentInv
<1>8. WrittenExtensionIsSetUp'
  BY <1>1, <1>5, SameFile DEF DeploymentInv
<1>9. BoundToFirst' /\ FirstExists'
  BY <1>1, <1>4, AppendedBinding DEF DeploymentInv
<1>10. MachinesAreCounted' /\ MachineServesItsExtension'
  BY <1>1, SameMachines DEF DeploymentInv
<1> QED
  BY <1>6, <1>7, <1>8, <1>9, <1>10 DEF DeploymentInv

\* A transaction on one extension.
LEMMA TransactKeeps ==
  ASSUME DeploymentInv, NEW o \in Operators, NEW e, NEW x,
         run[o] \in RunRecord, run[o].todo # <<>>,
         Transact(o, [exts EXCEPT ![e] = x]),
         e \in DOMAIN exts =>
           /\ x \in ExtRecord /\ x.sender = exts[e].sender /\ x.by = exts[e].by
           /\ exts[e].owners \subseteq x.owners /\ exts[e].projects \subseteq x.projects
           /\ exts[e].keyed => x.keyed,
         Head(run[o].todo) \notin {"deploy", "register", "owners", "projects", "keys"}
           \/ /\ Head(run[o].todo) \in {"owners", "projects", "keys"}
              /\ e = run[o].ext /\ e \in DOMAIN exts
              /\ x.sender = run[o].sender /\ x.by = run[o].key /\ run[o].key \in x.owners
              /\ Head(run[o].todo) \in {"projects", "keys"} => run[o].key \in x.projects
              /\ Head(run[o].todo) = "keys" => x.keyed,
         bound' = bound, active' = active, UNCHANGED hostVars
  PROVE  DeploymentInv'
<1> DEFINE new == [exts EXCEPT ![e] = x]
<1>1. /\ Fault \/ UNCHANGED faults
      /\ exts' \in {exts, new}
      /\ (exts' = new /\ Done(o, run[o])) \/ Abort(o)
  BY Zenon DEF Transact
<1>2. mode' = mode /\ dotenv' = dotenv /\ key' = key /\ node' = node /\ tees' = tees /\ file' = file
  BY DEF hostVars
<1>3. ExtsGrow /\ DOMAIN exts' = DOMAIN exts /\ (exts' = new /\ e \in DOMAIN exts => exts'[e] = x)
  <2>1. CASE exts' = exts
    <3>1. exts \in Seq(ExtRecord)
      BY TypeParts DEF DeploymentInv
    <3>2. exts' = new /\ e \in DOMAIN exts => exts'[e] = x
      BY <3>1
    <3> QED
      BY <2>1, <3>2, SameExts DEF DeploymentInv
  <2>2. CASE exts' = new
    BY <2>2, ExceptExts DEF DeploymentInv
  <2> QED
    BY <1>1, <2>1, <2>2
<1> HIDE DEF new
<1>4. run' \in [Operators -> RunRecord] /\ RunsInv'
  <2>1. CASE Abort(o)
    BY <1>3, <2>1, AbortKeepsRuns DEF DeploymentInv
  <2>2. CASE exts' = new /\ Done(o, run[o])
    <3>1. CASE Head(run[o].todo) \notin {"deploy", "register", "owners", "projects", "keys"}
      BY <1>3, <2>2, <3>1, PlainStepKeepsRuns DEF DeploymentInv
    <3>2. CASE Head(run[o].todo) \in {"owners", "projects", "keys"}
      BY <1>3, <2>2, <3>2, DoneKeepsRuns DEF DeploymentInv
    <3> QED
      BY <3>1, <3>2
  <2> QED
    BY <1>1, <2>1, <2>2
<1>5. TypeOK'
  BY <1>1, <1>2, <1>3, <1>4, NextType, TypeParts, FaultCounts DEF DeploymentInv
<1>6. WrittenExtensionIsSetUp'
  BY <1>2, <1>3, SameFile DEF DeploymentInv
<1>7. BoundToFirst' /\ FirstExists'
  <2>1. Len(exts') = Len(exts)
    BY <1>3, TypeParts DEF ExtsGrow, DeploymentInv
  <2> QED
    BY <1>3, <2>1, SameBinding DEF DeploymentInv
<1>8. MachinesAreCounted' /\ MachineServesItsExtension'
  BY <1>2, SameMachines DEF DeploymentInv
<1> QED
  BY <1>4, <1>5, <1>6, <1>7, <1>8 DEF DeploymentInv

LEMMA AllowKeepsInv ==
  ASSUME DeploymentInv, NEW o \in Operators, Allow(o)
  PROVE  DeploymentInv'
<1> DEFINE r == run[o]
           e == r.ext
<1>1. bound' = bound /\ active' = active /\ UNCHANGED hostVars
  BY DEF Allow
<1>2. r \in RunRecord /\ r.todo # <<>> /\ Head(r.todo) \in {"owners", "projects", "keys"}
  BY AtValue DEF Allow, DeploymentInv
<1>3. Prepared(r)
  BY DEF DeploymentInv, RunsInv
<1>4. /\ e \in DOMAIN exts /\ exts[e].sender = r.sender /\ exts[e].by = r.key
      /\ Head(r.todo) # "owners" => r.key \in exts[e].owners
      /\ Head(r.todo) = "keys" => r.key \in exts[e].projects
  BY <1>2, <1>3 DEF Prepared, SettingUp
<1>5. exts[e] \in ExtRecord /\ r.key \in Keys
  BY <1>2, <1>4, TypeParts, ElementOfSeq DEF DeploymentInv, RunRecord
<1>6. CASE Head(r.todo) = "owners"
  <2> DEFINE x == [exts[e] EXCEPT !.owners = @ \cup {r.key}]
  <2>1. Transact(o, [exts EXCEPT ![e] = x])
    BY <1>6 DEF Allow, At
  <2>2. /\ x \in ExtRecord /\ x.sender = exts[e].sender /\ x.by = exts[e].by
        /\ x.owners = exts[e].owners \cup {r.key} /\ x.projects = exts[e].projects
        /\ x.keyed = exts[e].keyed
    BY <1>5 DEF ExtRecord
  <2> HIDE DEF x
  <2> QED
    BY <1>1, <1>2, <1>4, <1>6, <2>1, <2>2, TransactKeeps
<1>7. CASE Head(r.todo) = "projects"
  <2> DEFINE x == [exts[e] EXCEPT !.projects = @ \cup {r.key}]
  <2>1. Transact(o, [exts EXCEPT ![e] = x])
    BY <1>7 DEF Allow, At
  <2>2. /\ x \in ExtRecord /\ x.sender = exts[e].sender /\ x.by = exts[e].by
        /\ x.owners = exts[e].owners /\ x.projects = exts[e].projects \cup {r.key}
        /\ x.keyed = exts[e].keyed
    BY <1>5 DEF ExtRecord
  <2> HIDE DEF x
  <2> QED
    BY <1>1, <1>2, <1>4, <1>7, <2>1, <2>2, TransactKeeps
<1>8. CASE Head(r.todo) = "keys"
  <2> DEFINE x == [exts[e] EXCEPT !.keyed = TRUE]
  <2>1. Transact(o, [exts EXCEPT ![e] = x])
    BY <1>8 DEF Allow, At
  <2>2. /\ x \in ExtRecord /\ x.sender = exts[e].sender /\ x.by = exts[e].by
        /\ x.owners = exts[e].owners /\ x.projects = exts[e].projects
        /\ x.keyed = TRUE
    BY <1>5 DEF ExtRecord
  <2> HIDE DEF x
  <2> QED
    BY <1>1, <1>2, <1>4, <1>8, <2>1, <2>2, TransactKeeps
<1> QED
  BY <1>2, <1>6, <1>7, <1>8

LEMMA WriteKeepsInv ==
  ASSUME DeploymentInv, NEW o \in Operators, Write(o)
  PROVE  DeploymentInv'
<1> DEFINE r == run[o]
           q == [Idle EXCEPT !.full = r.full, !.todo = r.todo, !.calm = r.calm]
<1>1. /\ At(o, "write")
      /\ Fault \/ UNCHANGED faults
      /\ exts' = exts /\ bound' = bound /\ active' = active /\ mode' = mode /\ dotenv' = dotenv
      /\ key' = key /\ node' = node /\ tees' = tees
      /\ Abort(o) \/ Done(o, q)
      /\ \/ file' = [exists |-> TRUE, ext |-> r.ext, sender |-> r.sender, edited |-> FALSE]
         \/ file' \in [exists : {TRUE}, ext : {Absent, Malformed}, sender : {Absent}, edited : {FALSE}]
                     \cup [exists : {TRUE}, ext : {r.ext}, sender : {Absent, Malformed}, edited : {FALSE}]
  BY Zenon DEF Write, chainVars
<1>2. r \in RunRecord /\ r.todo # <<>> /\ Head(r.todo) = "write"
  BY <1>1, AtValue DEF DeploymentInv
<1>3. /\ r.ext \in DOMAIN exts /\ exts[r.ext].sender = r.sender /\ exts[r.ext].by = r.key
      /\ r.key \in exts[r.ext].owners /\ r.key \in exts[r.ext].projects /\ exts[r.ext].keyed
  <2>1. Prepared(r)
    BY DEF DeploymentInv, RunsInv
  <2> QED
    BY <1>2, <2>1 DEF Prepared, SettingUp
<1>4. q \in RunRecord /\ q.todo = r.todo
  BY <1>2, IdleValue DEF RunRecord
<1>5. ExtsGrow
  BY <1>1, SameExts DEF DeploymentInv
<1> HIDE DEF q
<1>6. run' \in [Operators -> RunRecord] /\ RunsInv'
  <2>1. CASE Abort(o)
    BY <1>5, <2>1, AbortKeepsRuns DEF DeploymentInv
  <2>2. CASE Done(o, q)
    BY <1>2, <1>4, <1>5, <2>2, PlainStepKeepsRuns DEF DeploymentInv
  <2> QED
    BY <1>1, <2>1, <2>2
<1>7. /\ file' \in [exists : BOOLEAN, ext : Int, sender : Int, edited : BOOLEAN]
      /\ file'.ext \in {Absent, Malformed, r.ext} /\ file'.sender \in {Absent, Malformed, r.sender}
  <2>1. r.ext \in Nat /\ r.sender \in Nat /\ Absent \in Int /\ Malformed \in Int
    BY <1>2 DEF RunRecord, Absent, Malformed
  <2>2. CASE file' = [exists |-> TRUE, ext |-> r.ext, sender |-> r.sender, edited |-> FALSE]
    BY <2>1, <2>2
  <2>3. CASE file' \in [exists : {TRUE}, ext : {Absent, Malformed}, sender : {Absent}, edited : {FALSE}]
    <3>1. PICK e \in {Absent, Malformed} : file' = [exists |-> TRUE, ext |-> e, sender |-> Absent, edited |-> FALSE]
      BY <2>3
    <3>2. e \in Int
      BY <2>1, <3>1
    <3> HIDE DEF r
    <3> QED
      BY <2>1, <3>1, <3>2
  <2>4. CASE file' \in [exists : {TRUE}, ext : {r.ext}, sender : {Absent, Malformed}, edited : {FALSE}]
    <3>1. PICK s \in {Absent, Malformed} : file' = [exists |-> TRUE, ext |-> r.ext, sender |-> s, edited |-> FALSE]
      BY <2>4
    <3>2. s \in Int
      BY <2>1, <3>1
    <3> HIDE DEF r
    <3> QED
      BY <2>1, <3>1, <3>2
  <2> QED
    BY <1>1, <2>2, <2>3, <2>4
<1>8. TypeOK'
  BY <1>1, <1>5, <1>6, <1>7, NextType, TypeParts, FaultCounts DEF DeploymentInv
<1>9. WrittenExtensionIsSetUp'
  BY <1>1, <1>3, <1>7 DEF WrittenExtensionIsSetUp, WellFormed, Absent, Malformed
<1>10. BoundToFirst' /\ FirstExists'
  BY <1>1, <1>5, SameBinding DEF DeploymentInv
<1>11. MachinesAreCounted' /\ MachineServesItsExtension'
  BY <1>1, SameMachines DEF DeploymentInv
<1> QED
  BY <1>6, <1>8, <1>9, <1>10, <1>11 DEF DeploymentInv

-----------------------------------------------------------------------------
(* The services *)

\* A script that does a step on which no other step relies.
LEMMA PlainDone ==
  ASSUME DeploymentInv, ExtsGrow, NEW o \in Operators, NEW step, At(o, step), Done(o, run[o]),
         step \notin {"deploy", "register", "owners", "projects", "keys"}
  PROVE  run' \in [Operators -> RunRecord] /\ RunsInv'
<1>1. run[o] \in RunRecord /\ run[o].todo # <<>> /\ Head(run[o].todo) = step
  BY AtValue DEF DeploymentInv
<1> QED
  BY <1>1, PlainStepKeepsRuns DEF DeploymentInv

\* A disturbance leaves every script where it was.
LEMMA DisturbKeepsRuns ==
  ASSUME DeploymentInv, ExtsGrow, Disturb
  PROVE  run' \in [Operators -> RunRecord] /\ RunsInv'
<1>1. \A o \in Operators : run[o] \in RunRecord /\ run'[o] = Disturbed(run[o])
  BY TypeParts DEF Disturb, DeploymentInv
<1>2. run' \in [Operators -> RunRecord]
  BY <1>1, DisturbedValue DEF Disturb
<1>3. ASSUME NEW o \in Operators PROVE Planned(run'[o].todo) /\ Prepared(run[o])'
  BY <1>1, DisturbedValue, PreparedStays DEF DeploymentInv
<1> QED
  BY <1>2, <1>3 DEF RunsInv

\* Steps of the services: the chain and the file stay.
LEMMA NodeStep ==
  ASSUME DeploymentInv, UNCHANGED chainVars, mode' = mode, dotenv' = dotenv, key' \in Keys,
         file' = file, tees' \in Nat, faults' \in Nat,
         node' \in [up : BOOLEAN, tee : Nat, ext : Nat, governance : Governances],
         run' \in [Operators -> RunRecord], RunsInv',
         MachinesAreCounted', MachineServesItsExtension'
  PROVE  DeploymentInv'
<1>1. exts' = exts /\ bound' = bound /\ active' = active
  BY DEF chainVars
<1>2. ExtsGrow
  BY <1>1, SameExts DEF DeploymentInv
<1>3. TypeOK'
  BY <1>1, <1>2, NextType, TypeParts DEF DeploymentInv
<1>4. WrittenExtensionIsSetUp'
  BY <1>2, SameFile DEF DeploymentInv
<1>5. BoundToFirst' /\ FirstExists'
  BY <1>1, <1>2, SameBinding DEF DeploymentInv
<1> QED
  BY <1>3, <1>4, <1>5 DEF DeploymentInv

\* A node that comes up is another machine than all before it.
LEMMA StartKeepsInv ==
  ASSUME DeploymentInv, NEW o \in Operators, Start(o)
  PROVE  DeploymentInv'
<1>1. /\ At(o, "start") /\ file.ext > 0 /\ (Done(o, run[o]) \/ Abort(o)) /\ UNCHANGED chainVars
      /\ mode' = mode /\ dotenv' = dotenv /\ key' = key /\ file' = file /\ (Fault \/ UNCHANGED faults)
      /\ (node' = node /\ tees' = tees) \/ (node' = NewNode /\ tees' = tees + 1)
  BY Zenon DEF Start, Startable, WellFormed
<1>2. ExtsGrow
  BY <1>1, SameExts DEF DeploymentInv, chainVars
<1>3. run' \in [Operators -> RunRecord] /\ RunsInv'
  BY <1>1, <1>2, PlainDone, AbortKeepsRuns DEF DeploymentInv
<1>4. active' = active /\ key \in Keys /\ faults' \in Nat /\ tees \in Nat /\ file.ext \in Nat
      /\ active \subseteq [tee : Nat, ext : Nat]
      /\ node \in [up : BOOLEAN, tee : Nat, ext : Nat, governance : Governances]
  BY <1>1, TypeParts, FaultCounts DEF chainVars, DeploymentInv
<1>5. CASE node' = node /\ tees' = tees
  <2>1. MachinesAreCounted' /\ MachineServesItsExtension'
    BY <1>4, <1>5, SameMachines DEF DeploymentInv
  <2> QED
    BY <1>1, <1>3, <1>4, <1>5, <2>1, NodeStep
<1>6. CASE node' = NewNode /\ tees' = tees + 1
  <2>1. NodeGovernance \in Governances
    <3>1. dotenv \in {"owner", "nothing"} /\ key \in Keys
      BY DEF DeploymentInv, TypeOK
    <3> QED
      BY <3>1 DEF NodeGovernance, Governances
  <2>2. /\ node' \in [up : BOOLEAN, tee : Nat, ext : Nat, governance : Governances]
        /\ node'.tee = tees + 1
    BY <1>4, <1>6, <2>1 DEF NewNode
  <2>3. \A m \in active : m.tee \in Nat /\ m.tee <= tees
    BY <1>4 DEF DeploymentInv, MachinesAreCounted
  <2>4. MachinesAreCounted'
    BY <1>4, <1>6, <2>2, <2>3 DEF MachinesAreCounted
  <2>5. MachineServesItsExtension'
    BY <1>4, <2>2, <2>3 DEF MachineServesItsExtension, DeploymentInv
  <2> QED
    BY <1>1, <1>3, <1>4, <1>6, <2>2, <2>4, <2>5, NodeStep
<1> QED
  BY <1>1, <1>5, <1>6

LEMMA StopKeepsInv ==
  ASSUME DeploymentInv, NEW o \in Operators, Stop(o)
  PROVE  DeploymentInv'
<1>1. /\ At(o, "stop") /\ Done(o, run[o]) /\ UNCHANGED chainVars /\ tees' = tees
      /\ mode' = mode /\ dotenv' = dotenv /\ key' = key /\ file' = file /\ faults' = faults
      /\ node' = [node EXCEPT !.up = FALSE]
  BY DEF Stop
<1>2. ExtsGrow
  BY <1>1, SameExts DEF DeploymentInv, chainVars
<1>3. run' \in [Operators -> RunRecord] /\ RunsInv'
  BY <1>1, <1>2, PlainDone
<1>4. /\ node' \in [up : BOOLEAN, tee : Nat, ext : Nat, governance : Governances]
      /\ node'.tee = node.tee /\ node'.ext = node.ext
  BY <1>1, TypeParts DEF DeploymentInv
<1>5. MachinesAreCounted' /\ MachineServesItsExtension'
  BY <1>1, <1>4, SameMachines DEF chainVars, DeploymentInv
<1> QED
  BY <1>1, <1>3, <1>4, <1>5, TypeParts, NodeStep DEF DeploymentInv

LEMMA CrashKeepsInv ==
  ASSUME DeploymentInv, Crash
  PROVE  DeploymentInv'
<1>1. /\ Disturb /\ Fault /\ UNCHANGED chainVars /\ tees' = tees
      /\ mode' = mode /\ dotenv' = dotenv /\ key' = key /\ file' = file
      /\ node' = [node EXCEPT !.up = FALSE]
  BY DEF Crash
<1>2. ExtsGrow
  BY <1>1, SameExts DEF DeploymentInv, chainVars
<1>3. run' \in [Operators -> RunRecord] /\ RunsInv'
  BY <1>1, <1>2, DisturbKeepsRuns
<1>4. /\ node' \in [up : BOOLEAN, tee : Nat, ext : Nat, governance : Governances]
      /\ node'.tee = node.tee /\ node'.ext = node.ext
  BY <1>1, TypeParts DEF DeploymentInv
<1>5. MachinesAreCounted' /\ MachineServesItsExtension'
  BY <1>1, <1>4, SameMachines DEF chainVars, DeploymentInv
<1> QED
  BY <1>1, <1>3, <1>4, <1>5, TypeParts, FaultCounts, NodeStep DEF DeploymentInv

LEMMA SwapKeyKeepsInv ==
  ASSUME DeploymentInv, SwapKey
  PROVE  DeploymentInv'
<1>1. /\ Disturb /\ Fault /\ UNCHANGED chainVars /\ tees' = tees
      /\ mode' = mode /\ dotenv' = dotenv /\ key' \in Keys /\ file' = file /\ node' = node
  BY DEF SwapKey, Keys
<1>2. ExtsGrow
  BY <1>1, SameExts DEF DeploymentInv, chainVars
<1>3. run' \in [Operators -> RunRecord] /\ RunsInv'
  BY <1>1, <1>2, DisturbKeepsRuns
<1>4. MachinesAreCounted' /\ MachineServesItsExtension'
  BY <1>1, SameMachines DEF chainVars, DeploymentInv
<1> QED
  BY <1>1, <1>3, <1>4, TypeParts, FaultCounts, NodeStep DEF DeploymentInv

LEMMA EditFileKeepsInv ==
  ASSUME DeploymentInv, EditFile
  PROVE  DeploymentInv'
<1>1. /\ Disturb /\ Fault /\ exts' = exts /\ bound' = bound /\ active' = active /\ tees' = tees
      /\ mode' = mode /\ dotenv' = dotenv /\ key' = key /\ node' = node
  BY DEF EditFile, chainVars
<1>2. PICK id \in DOMAIN exts \cup {Malformed} : file' = [file EXCEPT !.ext = id, !.edited = TRUE]
  BY DEF EditFile
<1>3. ExtsGrow
  BY <1>1, SameExts DEF DeploymentInv
<1>4. run' \in [Operators -> RunRecord] /\ RunsInv'
  BY <1>1, <1>3, DisturbKeepsRuns
<1>5. file' \in [exists : BOOLEAN, ext : Int, sender : Int, edited : BOOLEAN] /\ file'.edited
  <2>1. id \in Int
    BY TypeParts DEF Malformed, DeploymentInv
  <2> QED
    BY <1>2, <2>1, TypeParts DEF DeploymentInv
<1>6. TypeOK'
  BY <1>1, <1>3, <1>4, <1>5, NextType, TypeParts, FaultCounts DEF DeploymentInv
<1>7. WrittenExtensionIsSetUp'
  BY <1>5 DEF WrittenExtensionIsSetUp
<1>8. BoundToFirst' /\ FirstExists'
  BY <1>1, <1>3, SameBinding DEF DeploymentInv
<1>9. MachinesAreCounted' /\ MachineServesItsExtension'
  BY <1>1, SameMachines DEF DeploymentInv
<1> QED
  BY <1>4, <1>6, <1>7, <1>8, <1>9 DEF DeploymentInv

-----------------------------------------------------------------------------
(* post-build, test, and the pause of the stale machines *)

LEMMA AllowTeeVersionKeepsInv ==
  ASSUME DeploymentInv, NEW o \in Operators, AllowTeeVersion(o)
  PROVE  DeploymentInv'
<1> DEFINE e == node.ext
           x == [exts[e] EXCEPT !.version = TRUE]
<1>1. /\ At(o, "version") /\ Transact(o, [exts EXCEPT ![e] = x])
      /\ bound' = bound /\ active' = active /\ UNCHANGED hostVars
  BY DEF AllowTeeVersion
<1>2. run[o] \in RunRecord /\ run[o].todo # <<>> /\ Head(run[o].todo) = "version"
  BY <1>1, AtValue DEF DeploymentInv
<1>3. ASSUME e \in DOMAIN exts
      PROVE  /\ x \in ExtRecord /\ x.sender = exts[e].sender /\ x.by = exts[e].by
             /\ x.owners = exts[e].owners /\ x.projects = exts[e].projects /\ x.keyed = exts[e].keyed
  <2>1. exts[e] \in ExtRecord
    BY <1>3, TypeParts, ElementOfSeq DEF DeploymentInv
  <2> QED
    BY <2>1 DEF ExtRecord
<1> HIDE DEF x, e
<1>4. Head(run[o].todo) \notin {"deploy", "register", "owners", "projects", "keys"}
  BY <1>2
<1> QED
  BY <1>1, <1>2, <1>3, <1>4, TransactKeeps

LEMMA SetTeeGovernanceKeepsInv ==
  ASSUME DeploymentInv, NEW o \in Operators, SetTeeGovernance(o)
  PROVE  DeploymentInv'
<1> DEFINE e == node.ext
           x == [exts[e] EXCEPT !.governance = ToolGovernance]
<1>1. /\ At(o, "governance") /\ Transact(o, [exts EXCEPT ![e] = x])
      /\ bound' = bound /\ active' = active /\ UNCHANGED hostVars
  BY DEF SetTeeGovernance
<1>2. run[o] \in RunRecord /\ run[o].todo # <<>> /\ Head(run[o].todo) = "governance"
  BY <1>1, AtValue DEF DeploymentInv
<1>3. ToolGovernance \in Governances
  <2>1. dotenv \in {"owner", "nothing"} /\ key \in Keys
    BY DEF DeploymentInv, TypeOK
  <2> QED
    BY <2>1 DEF ToolGovernance, Governances
<1>4. ASSUME e \in DOMAIN exts
      PROVE  /\ x \in ExtRecord /\ x.sender = exts[e].sender /\ x.by = exts[e].by
             /\ x.owners = exts[e].owners /\ x.projects = exts[e].projects /\ x.keyed = exts[e].keyed
  <2>1. exts[e] \in ExtRecord
    BY <1>4, TypeParts, ElementOfSeq DEF DeploymentInv
  <2> QED
    BY <1>3, <2>1 DEF ExtRecord
<1> HIDE DEF x, e
<1>5. Head(run[o].todo) \notin {"deploy", "register", "owners", "projects", "keys"}
  BY <1>2
<1> QED
  BY <1>1, <1>2, <1>4, <1>5, TransactKeeps

\* A machine is registered for the extension that its node runs.
LEMMA RegisterTeeKeepsInv ==
  ASSUME DeploymentInv, NEW o \in Operators, RegisterTee(o)
  PROVE  DeploymentInv'
<1> DEFINE new == [tee |-> node.tee, ext |-> node.ext]
<1>1. /\ At(o, "machine") /\ exts' = exts /\ bound' = bound /\ mode' = mode /\ dotenv' = dotenv
      /\ key' = key /\ node' = node /\ tees' = tees /\ file' = file
      /\ Fault \/ UNCHANGED faults
      /\ active' \in {active, active \cup {new}}
      /\ Abort(o) \/ Done(o, run[o])
  BY Zenon DEF RegisterTee, hostVars
<1>2. ExtsGrow
  BY <1>1, SameExts DEF DeploymentInv
<1>3. run' \in [Operators -> RunRecord] /\ RunsInv'
  BY <1>1, <1>2, AbortKeepsRuns, PlainDone DEF DeploymentInv
<1>4. /\ active \subseteq [tee : Nat, ext : Nat] /\ new \in [tee : Nat, ext : Nat]
      /\ new.tee = node.tee /\ new.ext = node.ext
  BY TypeParts DEF DeploymentInv
<1> HIDE DEF new
<1>5. active' \subseteq [tee : Nat, ext : Nat]
  BY <1>1, <1>4
<1>6. TypeOK'
  BY <1>1, <1>2, <1>3, <1>5, NextType, TypeParts, FaultCounts DEF DeploymentInv
<1>7. WrittenExtensionIsSetUp'
  BY <1>1, <1>2, SameFile DEF DeploymentInv
<1>8. BoundToFirst' /\ FirstExists'
  BY <1>1, <1>2, SameBinding DEF DeploymentInv
<1>9. MachinesAreCounted'
  BY <1>1, <1>4 DEF MachinesAreCounted, DeploymentInv
<1>10. MachineServesItsExtension'
  <2>1. \A m \in active' : m \in active \/ m = new
    BY <1>1
  <2> QED
    BY <1>1, <1>4, <2>1 DEF MachineServesItsExtension, DeploymentInv
<1> QED
  BY <1>3, <1>6, <1>7, <1>8, <1>9, <1>10 DEF DeploymentInv

\* The search of setExtensionId ends at the first extension of the sender.
LEMMA FoundIsFirst ==
  ASSUME TypeOK, FirstExists, NEW s \in Nat, OfSender(s) # {}
  PROVE  FoundBy(s) \in OfSender(s) /\ \A i \in OfSender(s) : FoundBy(s) <= i
<1>1. \E i \in OfSender(s) : \A j \in OfSender(s) : i <= j
  BY DEF FirstExists
<1> QED
  BY <1>1, Zenon DEF FoundBy

LEMMA SetExtensionIdKeepsInv ==
  ASSUME DeploymentInv, NEW o \in Operators, SetExtensionId(o)
  PROVE  DeploymentInv'
<1> DEFINE s == file.sender
           r == [run[o] EXCEPT !.sender = s]
<1>1. /\ At(o, "bind") /\ s \in Senders /\ exts' = exts /\ active' = active /\ (Done(o, r) \/ Abort(o))
      /\ mode' = mode /\ dotenv' = dotenv /\ key' = key /\ node' = node /\ tees' = tees
      /\ file' = file /\ (Fault \/ UNCHANGED faults)
      /\ \/ bound' = bound
         \/ OfSender(s) # {} /\ bound' = [bound EXCEPT ![s] = FoundBy(s)]
  BY Zenon DEF SetExtensionId, hostVars
<1>2. ExtsGrow
  BY <1>1, SameExts DEF DeploymentInv
<1>3. bound \in Seq(Nat) /\ s \in 1 .. Len(bound) /\ s \in Nat
  BY <1>1, TypeParts DEF Senders, DeploymentInv
<1>4. run' \in [Operators -> RunRecord] /\ RunsInv'
  <2>1. run[o] \in RunRecord /\ run[o].todo # <<>> /\ Head(run[o].todo) = "bind"
    BY <1>1, AtValue DEF DeploymentInv
  <2>2. r \in RunRecord /\ r.todo = run[o].todo
    <3> HIDE DEF s
    <3> QED
      BY <1>3, <2>1 DEF RunRecord
  <2> HIDE DEF r
  <2> QED
    BY <1>1, <1>2, <2>1, <2>2, PlainStepKeepsRuns, AbortKeepsRuns DEF DeploymentInv
<1> HIDE DEF s, r
<1>5. \A t : OfSender(t)' = OfSender(t)
  BY <1>1 DEF OfSender
<1>6. FirstExists'
  BY <1>5 DEF FirstExists, DeploymentInv
<1>7. bound' \in Seq(Nat) /\ BoundToFirst'
  <2>1. CASE bound' = bound
    BY <1>1, <1>2, <1>3, <2>1, SameBinding DEF DeploymentInv
  <2>2. CASE OfSender(s) # {} /\ bound' = [bound EXCEPT ![s] = FoundBy(s)]
    <3>1. FoundBy(s) \in OfSender(s) /\ \A i \in OfSender(s) : FoundBy(s) <= i
      BY <1>3, <2>2, FoundIsFirst DEF DeploymentInv
    <3>2. FoundBy(s) \in Nat
      BY <3>1, TypeParts DEF OfSender, DeploymentInv
    <3>3. /\ bound' \in Seq(Nat) /\ Len(bound') = Len(bound) /\ bound'[s] = FoundBy(s)
          /\ \A t \in 1 .. Len(bound) : t # s => bound'[t] = bound[t]
      BY <1>3, <2>2, <3>2
    <3>4. ASSUME NEW t \in 1 .. Len(bound), bound'[t] # 0
          PROVE  bound'[t] \in OfSender(t) /\ \A i \in OfSender(t) : bound'[t] <= i
      <4>1. CASE t = s
        BY <3>1, <3>3, <4>1
      <4>2. CASE t # s
        BY <3>3, <3>4, <4>2 DEF BoundToFirst, Senders, DeploymentInv
      <4> QED
        BY <4>1, <4>2
    <3>5. BoundToFirst'
      BY <1>5, <3>3, <3>4 DEF BoundToFirst, Senders
    <3> QED
      BY <3>3, <3>5
  <2> QED
    BY <1>1, <2>1, <2>2
<1>8. TypeOK'
  BY <1>1, <1>2, <1>4, <1>7, NextType, TypeParts, FaultCounts DEF DeploymentInv
<1>9. WrittenExtensionIsSetUp'
  BY <1>1, <1>2, SameFile DEF DeploymentInv
<1>10. MachinesAreCounted' /\ MachineServesItsExtension'
  BY <1>1, SameMachines DEF DeploymentInv
<1> QED
  BY <1>4, <1>6, <1>7, <1>8, <1>9, <1>10 DEF DeploymentInv

LEMMA PauseKeepsInv ==
  ASSUME DeploymentInv, NEW o \in Operators, NEW tee \in run[o].stale, Pause(o, tee)
  PROVE  DeploymentInv'
<1> DEFINE rest == run[o].stale \ {tee}
           r == [run[o] EXCEPT !.stale = rest]
<1>1. /\ active' \subseteq active
      /\ exts' = exts /\ bound' = bound /\ mode' = mode /\ dotenv' = dotenv
      /\ key' = key /\ node' = node /\ tees' = tees /\ file' = file
      /\ Fault \/ UNCHANGED faults
      /\ Abort(o) \/ Becomes(o, r)
  <2>1. exts' = exts /\ bound' = bound /\ UNCHANGED hostVars
    BY DEF Pause
  <2>2. active' \in {active, active \ {m \in active : m.tee = tee}} /\ (Fault \/ UNCHANGED faults)
    BY Zenon DEF Pause
  <2>3. Abort(o) \/ Becomes(o, r)
    BY Zenon DEF Pause, Abort
  <2> QED
    BY <2>1, <2>2, <2>3 DEF hostVars
<1>2. ExtsGrow
  BY <1>1, SameExts DEF DeploymentInv
<1>3. run' \in [Operators -> RunRecord] /\ RunsInv'
  <2>1. CASE Abort(o)
    BY <1>2, <2>1, AbortKeepsRuns DEF DeploymentInv
  <2>2. CASE Becomes(o, r)
    <3>1. run[o] \in RunRecord
      BY TypeParts DEF DeploymentInv
    <3>2. rest \in SUBSET Nat
      BY <3>1 DEF RunRecord
    <3> HIDE DEF rest
    <3>3. /\ r \in RunRecord /\ r.todo = run[o].todo /\ r.sender = run[o].sender
          /\ r.ext = run[o].ext /\ r.key = run[o].key
      BY <3>1, <3>2 DEF RunRecord
    <3> HIDE DEF r
    <3>4. Planned(r.todo)
      BY <3>3 DEF DeploymentInv, RunsInv
    <3>5. run'[o] = r => Prepared(run[o])'
      BY <1>2, <3>3, PreparedStays DEF DeploymentInv
    <3> QED
      BY <1>2, <2>2, <3>3, <3>4, <3>5, BecomesValue DEF DeploymentInv
  <2> QED
    BY <1>1, <2>1, <2>2
<1>4. active' \subseteq [tee : Nat, ext : Nat]
  BY <1>1, TypeParts DEF DeploymentInv
<1>5. TypeOK'
  BY <1>1, <1>2, <1>3, <1>4, NextType, TypeParts, FaultCounts DEF DeploymentInv
<1>6. WrittenExtensionIsSetUp'
  BY <1>1, <1>2, SameFile DEF DeploymentInv
<1>7. BoundToFirst' /\ FirstExists'
  BY <1>1, <1>2, SameBinding DEF DeploymentInv
<1>8. MachinesAreCounted' /\ MachineServesItsExtension'
  BY <1>1, SameMachines DEF DeploymentInv
<1> QED
  BY <1>3, <1>5, <1>6, <1>7, <1>8 DEF DeploymentInv

-----------------------------------------------------------------------------
(* The theorems *)

LEMMA InitGivesInv == ASSUME Init PROVE DeploymentInv
<1>1. exts = <<>> /\ bound = <<>> /\ active = {} /\ tees = 0 /\ faults = 0
  BY DEF Init
<1>2. node = [up |-> FALSE, tee |-> 0, ext |-> 0, governance |-> "none"]
  BY DEF Init
<1>3. file = [exists |-> FALSE, ext |-> Absent, sender |-> Absent, edited |-> FALSE]
  BY DEF Init
<1>4. run = [o \in Operators |-> Idle]
  BY DEF Init
<1>5. mode \in {"docker", "local"} /\ dotenv \in {"owner", "nothing"}
  BY DEF Init, DeploymentAssumption
<1>6. TypeOK
  <2>1. run \in [Operators -> RunRecord]
    BY <1>4, IdleValue
  <2>2. exts \in Seq(ExtRecord)
    BY <1>1
  <2>3. bound \in Seq(Nat)
    BY <1>1
  <2>4. node \in [up : BOOLEAN, tee : Nat, ext : Nat, governance : Governances]
    BY <1>2 DEF Governances
  <2>5. file \in [exists : BOOLEAN, ext : Int, sender : Int, edited : BOOLEAN]
    BY <1>3 DEF Absent
  <2>6. key \in Keys
    BY DEF Init, Keys
  <2> QED
    BY <1>1, <1>5, <2>1, <2>2, <2>3, <2>4, <2>5, <2>6 DEF TypeOK, ExtRecord, RunRecord, Steps
<1>7. RunsInv
  BY <1>4, IdleValue DEF RunsInv, Prepared
<1>8. WrittenExtensionIsSetUp
  BY <1>3 DEF WrittenExtensionIsSetUp, WellFormed, Absent
<1>9. BoundToFirst /\ FirstExists
  <2>1. Len(bound) = 0 /\ DOMAIN exts = {}
    BY <1>1
  <2>2. \A s : OfSender(s) = {}
    BY <2>1 DEF OfSender
  <2>3. Senders = {}
    BY <2>1 DEF Senders
  <2> QED
    BY <2>2, <2>3 DEF BoundToFirst, FirstExists
<1>10. MachinesAreCounted /\ MachineServesItsExtension
  BY <1>1, <1>2 DEF MachinesAreCounted, MachineServesItsExtension
<1> QED
  BY <1>6, <1>7, <1>8, <1>9, <1>10 DEF DeploymentInv

LEMMA StutterKeepsInv == ASSUME DeploymentInv, UNCHANGED vars PROVE DeploymentInv'
<1>1. UNCHANGED <<chainVars, hostVars>> /\ run' = run /\ faults' = faults
  BY DEF vars, chainVars, hostVars
<1>2. ExtsGrow
  BY <1>1, SameExts DEF chainVars, DeploymentInv
<1>3. run' \in [Operators -> RunRecord] /\ faults' \in Nat
  BY <1>1, TypeParts DEF DeploymentInv
<1>4. RunsInv'
  BY <1>1, <1>2, PreparedStays DEF RunsInv, DeploymentInv
<1> QED
  BY <1>1, <1>3, <1>4, QuietStep

LEMMA StepKeepsInv == ASSUME DeploymentInv, [Next]_vars PROVE DeploymentInv'
<1>1. ASSUME NEW o \in Operators, Work(o) PROVE DeploymentInv'
  <2>1. CASE \/ DeployFails(o) \/ RegisterFails(o) \/ StartFails(o) \/ PostBuildFails(o)
             \/ SetExtensionIdFails(o) \/ SendFails(o) \/ LookFails(o)
    BY <2>1, FailuresKeepInv
  <2>2. CASE Deploy(o) \/ Register(o) \/ Allow(o) \/ Write(o)
    BY <2>2, DeployKeepsInv, RegisterKeepsInv, AllowKeepsInv, WriteKeepsInv
  <2>3. CASE Start(o) \/ Stop(o) \/ Send(o) \/ Look(o) \/ List(o)
    BY <2>3, StartKeepsInv, StopKeepsInv, SendKeepsInv, LookKeepsInv, ListKeepsInv
  <2>4. CASE AllowTeeVersion(o) \/ SetTeeGovernance(o) \/ RegisterTee(o) \/ SetExtensionId(o)
    BY <2>4, AllowTeeVersionKeepsInv, SetTeeGovernanceKeepsInv, RegisterTeeKeepsInv,
       SetExtensionIdKeepsInv
  <2>5. CASE \E tee \in run[o].stale : Pause(o, tee)
    BY <2>5, PauseKeepsInv
  <2> QED
    BY <1>1, <2>1, <2>2, <2>3, <2>4, <2>5 DEF Work
<1>2. ASSUME NEW o \in Operators, NEW plan \in Names, Begin(o, plan) PROVE DeploymentInv'
  BY <1>2, BeginKeepsInv
<1>3. CASE Crash \/ EditFile \/ SwapKey
  BY <1>3, CrashKeepsInv, EditFileKeepsInv, SwapKeyKeepsInv
<1>4. CASE UNCHANGED vars
  BY <1>4, StutterKeepsInv
<1> QED
  BY <1>1, <1>2, <1>3, <1>4 DEF Next

\* The invariant: what the scripts have set up so far is what their next steps
\* rely on, whatever other scripts, crashes and editors do in between.
THEOREM DeploymentInvariant == Spec => []DeploymentInv
BY InitGivesInv, StepKeepsInv, PTL DEF Spec

\* The state of the chain, the file, the node and the scripts keeps its type.
THEOREM DeploymentTypeCorrect == Spec => []TypeOK
<1>1. DeploymentInv => TypeOK
  BY DEF DeploymentInv
<1> QED
  BY <1>1, DeploymentInvariant, PTL

\* An extension.env that nobody has edited names an extension that is set up
\* completely (register-extension's order of transactions, pre-build.sh).
THEOREM WrittenIsSetUp == Spec => []WrittenExtensionIsSetUp
<1>1. DeploymentInv => WrittenExtensionIsSetUp
  BY DEF DeploymentInv
<1> QED
  BY <1>1, DeploymentInvariant, PTL

\* A sender is bound to the first extension that names it (setExtensionId).
THEOREM SendersAreBoundToFirst == Spec => []BoundToFirst
<1>1. DeploymentInv => BoundToFirst
  BY DEF DeploymentInv
<1> QED
  BY <1>1, DeploymentInvariant, PTL

\* A machine in production serves the one extension that its node runs.
THEOREM MachinesServeOneExtension == Spec => []MachineServesItsExtension
<1>1. DeploymentInv => MachineServesItsExtension
  BY DEF DeploymentInv
<1> QED
  BY <1>1, DeploymentInvariant, PTL
=============================================================================
