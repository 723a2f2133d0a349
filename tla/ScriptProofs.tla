---------------------------- MODULE ScriptProofs ----------------------------
(***************************************************************************)
(* Proofs about whole scripts in Deployment, for any number of operators,  *)
(* machines and faults: a full-setup that nothing disturbs ends with a     *)
(* test that passes, and pause-tee spares the machine that is running.     *)
(* Both come from an invariant that says, for the step that a script comes *)
(* to, what its steps so far have made of the chain, the file and the node *)
(* when nobody else has moved since.                                       *)
(***************************************************************************)
EXTENDS AuditProofs

\* The step after each step of a full-setup, and of pause-tee.
Following ==
  [deploy |-> "register", register |-> "owners", owners |-> "projects", projects |-> "keys",
   keys |-> "write", write |-> "start", start |-> "version", version |-> "governance",
   governance |-> "machine", machine |-> "bind", bind |-> "send",
   look |-> "list", list |-> "pause"]

Chained(todo) ==
  \A i \in 2 .. Len(todo) : todo[i - 1] \in DOMAIN Following /\ todo[i] = Following[todo[i - 1]]
InOrder(todo, last) == Chained(todo) /\ todo[Len(todo)] = last

PauseSteps == {"look", "list", "pause"}
OtherSteps == StepNames \ PauseSteps

\* What is left of a full-setup leads to the test, and what is left of pause-tee to
\* the pause.
OrderedScript(r) ==
  /\ r.full => r.todo \in Seq(OtherSteps) /\ (r.todo # <<>> => InOrder(r.todo, "send"))
  /\ \/ r.todo \in Seq(OtherSteps)
     \/ r.todo # <<>> /\ Head(r.todo) \in PauseSteps /\ InOrder(r.todo, "pause")

\* The file names the one extension of its sender, which the deployer of now owns.
Written ==
  /\ WellFormed(file.ext) /\ file.sender \in Senders /\ OfSender(file.sender) = {file.ext}
  /\ exts[file.ext].by = key /\ key \in exts[file.ext].owners

\* The node runs it, with the governance that set-governance registers.
NodeServesFile == node.up /\ node.ext = file.ext /\ node.governance = dotenv

InProduction == [tee |-> node.tee, ext |-> node.ext] \in active

\* What a full-setup finds when it comes to a step.
Ready(step, r) ==
  /\ step \in {"register"} \cup SettingUp => r.sender \in Senders /\ bound[r.sender] = 0
  /\ step = "register" => OfSender(r.sender) = {}
  /\ step \in SettingUp => OfSender(r.sender) = {r.ext} /\ r.key = key /\ node.ext # r.ext
  /\ step \in {"start", "version", "governance", "machine", "bind", "send"} => Written
  /\ step \in {"start", "version", "governance", "machine", "bind"} => bound[file.sender] = 0
  /\ step = "start" => node.ext # file.ext
  /\ step \in {"version", "governance", "machine", "bind", "send"} => NodeServesFile
  /\ step \in {"governance", "machine"} => exts[file.ext].version
  /\ step = "machine" => exts[file.ext].governance = dotenv
  /\ step \in {"bind", "send"} => InProduction
  /\ step = "send" => r.sender = file.sender /\ bound[file.sender] = file.ext

\* In docker, with the governance configured.
Configured == mode = "docker" /\ dotenv # "nothing"

CalmSetup(r) ==
  r.todo # <<>> /\ r.full /\ r.calm /\ Configured => Ready(Head(r.todo), r)

\* The machine that pause-tee takes for the current one is not stale, and it is the
\* one that is running while nothing else moves.
CalmPause(r) ==
  r.todo # <<>> =>
    /\ Head(r.todo) = "pause" => r.current \notin r.stale
    /\ Head(r.todo) \in {"list", "pause"} /\ r.calm /\ r.current # 0 =>
         node.up /\ node.tee = r.current

ScriptInv == \A o \in Operators : OrderedScript(run[o]) /\ CalmSetup(run[o]) /\ CalmPause(run[o])

-----------------------------------------------------------------------------
(* The order of the steps *)

\* What is left after a step.
LEMMA TailInOrder ==
  ASSUME NEW S, NEW s \in Seq(S), s # <<>>, Len(s) # 1, NEW last, InOrder(s, last)
  PROVE  /\ InOrder(Tail(s), last) /\ Head(s) \in DOMAIN Following
         /\ Head(Tail(s)) = Following[Head(s)]
<1>0. /\ Tail(s) \in Seq(S) /\ Len(Tail(s)) = Len(s) - 1 /\ Len(s) \in Nat \ {0}
      /\ \A i \in 1 .. Len(s) - 1 : Tail(s)[i] = s[i + 1]
  OBVIOUS
<1>1. /\ Tail(s) \in Seq(S) /\ Len(Tail(s)) = Len(s) - 1 /\ Len(s) \in Nat /\ Len(s) >= 2
      /\ \A i \in 1 .. Len(s) - 1 : Tail(s)[i] = s[i + 1]
  BY <1>0
<1>2. ASSUME NEW i \in 2 .. Len(s) - 1
      PROVE  Tail(s)[i - 1] \in DOMAIN Following /\ Tail(s)[i] = Following[Tail(s)[i - 1]]
  <2>1. Tail(s)[i] = s[i + 1] /\ Tail(s)[i - 1] = s[i] /\ i + 1 \in 2 .. Len(s) /\ (i + 1) - 1 = i
    BY <1>1
  <2> QED
    BY <2>1 DEF InOrder, Chained
<1>3. Tail(s)[Len(s) - 1] = s[Len(s)]
  <2>1. Len(s) - 1 \in 1 .. Len(s) - 1 /\ (Len(s) - 1) + 1 = Len(s)
    BY <1>1
  <2> QED
    BY <1>1, <2>1
<1>4. Head(s) \in DOMAIN Following /\ Head(Tail(s)) = Following[Head(s)]
  <2>1. Head(Tail(s)) = Tail(s)[1] /\ Tail(s)[1] = s[1 + 1] /\ Head(s) = s[1]
    BY <1>1
  <2>2. 1 + 1 = 2 /\ 2 \in 2 .. Len(s) /\ 2 - 1 = 1
    BY <1>1
  <2>3. s[2 - 1] \in DOMAIN Following /\ s[2] = Following[s[2 - 1]]
    BY <2>2 DEF InOrder, Chained
  <2> QED
    BY <2>1, <2>2, <2>3
<1> QED
  BY <1>1, <1>2, <1>3, <1>4 DEF InOrder, Chained

\* Two sequences of steps one after the other.
LEMMA ConcatChained ==
  ASSUME NEW S, NEW s \in Seq(S), NEW t \in Seq(S), s # <<>>, t # <<>>, Chained(s), Chained(t),
         s[Len(s)] \in DOMAIN Following, t[1] = Following[s[Len(s)]]
  PROVE  /\ s \o t \in Seq(S) /\ s \o t # <<>> /\ Chained(s \o t)
         /\ (s \o t)[Len(s \o t)] = t[Len(t)]
<1>1. /\ s \o t \in Seq(S) /\ Len(s \o t) = Len(s) + Len(t) /\ Len(s) \in Nat \ {0} /\ Len(t) \in Nat \ {0}
      /\ \A i \in 1 .. Len(s) : (s \o t)[i] = s[i]
      /\ \A i \in 1 .. Len(t) : (s \o t)[Len(s) + i] = t[i]
  OBVIOUS
<1> DEFINE c == s \o t
<1>2. ASSUME NEW i \in 2 .. Len(s) + Len(t)
      PROVE  c[i - 1] \in DOMAIN Following /\ c[i] = Following[c[i - 1]]
  <2> HIDE DEF c
  <2>1. CASE i <= Len(s)
    <3>1. i \in 2 .. Len(s) /\ c[i] = s[i] /\ c[i - 1] = s[i - 1]
      BY <1>1, <2>1 DEF c
    <3> QED
      BY <3>1 DEF Chained
  <2>2. CASE i = Len(s) + 1
    <3>1. c[i] = t[1] /\ i - 1 = Len(s) /\ c[Len(s)] = s[Len(s)]
      BY <1>1, <2>2 DEF c
    <3> QED
      BY <3>1
  <2>3. CASE i > Len(s) + 1
    <3>1. PICK j \in 2 .. Len(t) : i = Len(s) + j
      <4> i - Len(s) \in 2 .. Len(t) /\ i = Len(s) + (i - Len(s))
        BY <1>1, <2>3
      <4> QED
        OBVIOUS
    <3>2. j - 1 \in 1 .. Len(t) /\ j \in 1 .. Len(t) /\ i - 1 = Len(s) + (j - 1)
      BY <1>1, <3>1
    <3>3. c[i] = t[j] /\ c[i - 1] = t[j - 1]
      BY <1>1, <3>1, <3>2 DEF c
    <3> QED
      BY <3>3 DEF Chained
  <2> QED
    BY <1>1, <2>1, <2>2, <2>3
<1>3. Chained(c)
  BY <1>1, <1>2 DEF Chained
<1>4. c # <<>> /\ c[Len(c)] = t[Len(t)]
  <2>1. Len(t) \in 1 .. Len(t)
    BY <1>1
  <2> QED
    BY <1>1, <2>1
<1> QED
  BY <1>1, <1>3, <1>4

\* The step after each.
LEMMA FollowingValue ==
  /\ Following["deploy"] = "register" /\ Following["register"] = "owners" /\ Following["owners"] = "projects"
  /\ Following["projects"] = "keys" /\ Following["keys"] = "write" /\ Following["write"] = "start"
  /\ Following["start"] = "version" /\ Following["version"] = "governance"
  /\ Following["governance"] = "machine" /\ Following["machine"] = "bind" /\ Following["bind"] = "send"
  /\ Following["look"] = "list" /\ Following["list"] = "pause"
  /\ DOMAIN Following = StepNames \ {"send", "stop", "pause"}
BY DEF StepNames, Following

LEMMA PreBuildInOrder ==
  /\ PreBuild \in Seq(OtherSteps) /\ PreBuild # <<>> /\ Chained(PreBuild)
  /\ PreBuild[1] = "deploy" /\ PreBuild[Len(PreBuild)] = "write" /\ Len(PreBuild) # 1
<1> DEFINE s == <<"deploy", "register", "owners", "projects", "keys", "write">>
<1>1. s \in Seq(OtherSteps)
  BY DEF OtherSteps, StepNames, PauseSteps
<1>2. /\ s[1] = "deploy" /\ s[2] = "register" /\ s[3] = "owners" /\ s[4] = "projects"
      /\ s[5] = "keys" /\ s[6] = "write" /\ Len(s) = 6
  OBVIOUS
<1>3. PreBuild = s
  BY DEF PreBuild
<1> HIDE DEF s
<1>4. s # <<>>
  BY <1>2
<1>5. ASSUME NEW i \in 2 .. Len(s) PROVE s[i - 1] \in DOMAIN Following /\ s[i] = Following[s[i - 1]]
  <2>1. i = 2 \/ i = 3 \/ i = 4 \/ i = 5 \/ i = 6
    BY <1>2
  <2>2. 2 - 1 = 1 /\ 3 - 1 = 2 /\ 4 - 1 = 3 /\ 5 - 1 = 4 /\ 6 - 1 = 5
    OBVIOUS
  <2>3. {"deploy", "register", "owners", "projects", "keys"} \subseteq DOMAIN Following
    BY FollowingValue DEF StepNames
  <2> QED
    BY <1>2, <2>1, <2>2, <2>3, FollowingValue
<1> QED
  BY <1>1, <1>2, <1>3, <1>4, <1>5 DEF Chained

LEMMA ThreeInOrder ==
  ASSUME NEW S, NEW a \in S, NEW b \in S, NEW c \in S, b = Following[a], c = Following[b],
         a \in DOMAIN Following, b \in DOMAIN Following
  PROVE  /\ <<a, b, c>> \in Seq(S) /\ <<a, b, c>> # <<>> /\ InOrder(<<a, b, c>>, c)
         /\ <<a, b, c>>[1] = a
<1> DEFINE s == <<a, b, c>>
<1>1. s \in Seq(S) /\ s[1] = a /\ s[2] = b /\ s[3] = c /\ Len(s) = 3
  OBVIOUS
<1> HIDE DEF s
<1>2. s # <<>>
  <2>1. Len(s) # Len(<<>>)
    BY <1>1
  <2> QED
    BY <2>1
<1>3. ASSUME NEW i \in 2 .. Len(s) PROVE s[i - 1] \in DOMAIN Following /\ s[i] = Following[s[i - 1]]
  <2>1. (i = 2 /\ i - 1 = 1) \/ (i = 3 /\ i - 1 = 2)
    BY <1>1
  <2> QED
    BY <1>1, <2>1
<1> QED
  BY <1>1, <1>2, <1>3 DEF s, InOrder, Chained

LEMMA TwoInOrder ==
  ASSUME NEW S, NEW a \in S, NEW b \in S, b = Following[a], a \in DOMAIN Following
  PROVE  <<a, b>> \in Seq(S) /\ <<a, b>> # <<>> /\ InOrder(<<a, b>>, b) /\ <<a, b>>[1] = a
<1> DEFINE s == <<a, b>>
<1>1. s \in Seq(S) /\ s[1] = a /\ s[2] = b /\ Len(s) = 2
  OBVIOUS
<1> HIDE DEF s
<1>2. s # <<>>
  <2>1. Len(s) # Len(<<>>)
    BY <1>1
  <2> QED
    BY <2>1
<1>3. ASSUME NEW i \in 2 .. Len(s) PROVE s[i - 1] \in DOMAIN Following /\ s[i] = Following[s[i - 1]]
  <2>1. i = 2 /\ i - 1 = 1
    BY <1>1
  <2> QED
    BY <1>1, <2>1
<1> QED
  BY <1>1, <1>2, <1>3 DEF s, InOrder, Chained

LEMMA OneInOrder ==
  ASSUME NEW S, NEW a \in S
  PROVE  <<a>> \in Seq(S) /\ <<a>> # <<>> /\ Chained(<<a>>) /\ <<a>>[1] = a /\ <<a>>[Len(<<a>>)] = a
<1> DEFINE s == <<a>>
<1>1. s \in Seq(S) /\ s[1] = a /\ Len(s) = 1
  OBVIOUS
<1> HIDE DEF s
<1>2. s # <<>>
  <2>1. Len(s) # Len(<<>>)
    BY <1>1
  <2> QED
    BY <2>1
<1>3. Chained(s) /\ s[Len(s)] = a
  <2>1. \A i \in 2 .. Len(s) : FALSE
    BY <1>1
  <2> QED
    BY <1>1, <2>1 DEF Chained
<1> QED
  BY <1>1, <1>2, <1>3 DEF s

\* A full-setup goes in order to the test and pause-tee to the pause; no other
\* script pauses machines.
LEMMA PlansInOrder ==
  ASSUME NEW p \in Names
  PROVE  /\ p # "pause" => Plans[p] \in Seq(OtherSteps)
         /\ p = "setup" => InOrder(Plans[p], "send") /\ Head(Plans[p]) = "deploy"
         /\ p = "pause" => InOrder(Plans[p], "pause") /\ Head(Plans[p]) = "look"
<1>a. /\ "version" \in OtherSteps /\ "governance" \in OtherSteps /\ "machine" \in OtherSteps
      /\ "bind" \in OtherSteps /\ "send" \in OtherSteps /\ "start" \in OtherSteps /\ "stop" \in OtherSteps
      /\ "look" \in PauseSteps /\ "list" \in PauseSteps /\ "pause" \in PauseSteps
  BY DEF OtherSteps, StepNames, PauseSteps
<1>b. /\ "governance" = Following["version"] /\ "machine" = Following["governance"]
      /\ "send" = Following["bind"] /\ "list" = Following["look"] /\ "pause" = Following["list"]
      /\ "start" = Following["write"] /\ "version" = Following["start"] /\ "bind" = Following["machine"]
      /\ {"version", "governance", "machine", "bind", "look", "list", "write", "start"} \subseteq DOMAIN Following
  BY FollowingValue DEF StepNames
<1>1. /\ PostBuild \in Seq(OtherSteps) /\ PostBuild # <<>> /\ InOrder(PostBuild, "machine")
      /\ PostBuild[1] = "version"
  BY <1>a, <1>b, ThreeInOrder DEF PostBuild
<1>2. Test \in Seq(OtherSteps) /\ Test # <<>> /\ InOrder(Test, "send") /\ Test[1] = "bind"
  BY <1>a, <1>b, TwoInOrder DEF Test
<1>3. /\ <<"start">> \in Seq(OtherSteps) /\ <<"start">> # <<>> /\ Chained(<<"start">>)
      /\ <<"start">>[1] = "start" /\ <<"start">>[Len(<<"start">>)] = "start"
  BY <1>a, OneInOrder
<1>4. <<"stop">> \in Seq(OtherSteps)
  BY <1>a, OneInOrder
<1>5. CASE p = "setup"
  <2> DEFINE a == PreBuild \o <<"start">>
             b == a \o PostBuild
             c == b \o Test
  <2>1. Plans[p] = c
    BY <1>5 DEF Plans
  <2>2. a \in Seq(OtherSteps) /\ a # <<>> /\ Chained(a) /\ a[Len(a)] = "start" /\ a[1] = "deploy"
    <3>1. a \in Seq(OtherSteps) /\ a # <<>> /\ Chained(a) /\ a[Len(a)] = "start"
      <4>1. <<"start">>[1] = Following[PreBuild[Len(PreBuild)]] /\ PreBuild[Len(PreBuild)] \in DOMAIN Following
        BY <1>3, <1>b, PreBuildInOrder
      <4> QED
        BY <4>1, <1>3, PreBuildInOrder, ConcatChained
    <3>2. a[1] = "deploy"
      BY <1>3, PreBuildInOrder
    <3> QED
      BY <3>1, <3>2
  <2> HIDE DEF a
  <2>3. b \in Seq(OtherSteps) /\ b # <<>> /\ Chained(b) /\ b[Len(b)] = "machine" /\ b[1] = "deploy"
    <3>1. b \in Seq(OtherSteps) /\ b # <<>> /\ Chained(b) /\ b[Len(b)] = "machine"
      <4>1. /\ PostBuild[1] = Following[a[Len(a)]] /\ a[Len(a)] \in DOMAIN Following
            /\ Chained(PostBuild) /\ PostBuild[Len(PostBuild)] = "machine"
        BY <1>1, <1>b, <2>2 DEF InOrder
      <4> QED
        BY <4>1, <1>1, <2>2, ConcatChained
    <3>2. b[1] = "deploy"
      BY <1>1, <2>2
    <3> QED
      BY <3>1, <3>2
  <2> HIDE DEF b
  <2>4. c \in Seq(OtherSteps) /\ c # <<>> /\ Chained(c) /\ c[Len(c)] = "send" /\ c[1] = "deploy"
    <3>1. c \in Seq(OtherSteps) /\ c # <<>> /\ Chained(c) /\ c[Len(c)] = "send"
      <4>1. /\ Test[1] = Following[b[Len(b)]] /\ b[Len(b)] \in DOMAIN Following
            /\ Chained(Test) /\ Test[Len(Test)] = "send"
        BY <1>2, <1>b, <2>3 DEF InOrder
      <4> QED
        BY <4>1, <1>2, <2>3, ConcatChained
    <3>2. c[1] = "deploy"
      BY <1>2, <2>3
    <3> QED
      BY <3>1, <3>2
  <2> HIDE DEF c
  <2>5. Head(c) = "deploy"
    BY <2>4
  <2> QED
    BY <1>5, <2>1, <2>4, <2>5 DEF InOrder
<1>6. CASE p = "pause"
  <2>1. Plans[p] = <<"look", "list", "pause">>
    BY <1>6 DEF Plans
  <2>2. InOrder(<<"look", "list", "pause">>, "pause")
    BY <1>a, <1>b, ThreeInOrder
  <2>3. Head(<<"look", "list", "pause">>) = "look"
    OBVIOUS
  <2> QED
    BY <1>6, <2>1, <2>2, <2>3
<1>7. CASE p \in Names \ {"setup", "pause"}
  <2>1. Plans[p] \in {PreBuild, Tail(PreBuild), <<"start">>, PostBuild, Test, <<"stop">>}
    <3>1. p \in {"prebuild", "hand", "start", "postbuild", "test", "stop"}
      BY <1>7, NamesValue
    <3> QED
      BY <3>1 DEF Plans
  <2>2. Tail(PreBuild) \in Seq(OtherSteps)
    BY PreBuildInOrder
  <2> QED
    BY <1>1, <1>2, <1>3, <1>4, <1>7, <2>1, <2>2, PreBuildInOrder
<1> QED
  BY <1>5, <1>6, <1>7

-----------------------------------------------------------------------------
(* What a step makes of the scripts *)

\* A script that has been disturbed.
LEMMA DisturbedFields ==
  ASSUME NEW r \in RunRecord
  PROVE  /\ Disturbed(r).todo = r.todo /\ Disturbed(r).full = r.full
         /\ Disturbed(r).current = r.current /\ Disturbed(r).stale = r.stale
         /\ r.full \/ "pause" \in {r.todo[i] : i \in DOMAIN r.todo} => ~Disturbed(r).calm
<1> DEFINE b == r.calm /\ ~(r.full \/ "pause" \in {r.todo[i] : i \in DOMAIN r.todo})
           s == [r EXCEPT !.calm = b]
<1>1. Disturbed(r) = s
  BY DEF Disturbed
<1> HIDE DEF b
<1>2. s.todo = r.todo /\ s.full = r.full /\ s.current = r.current /\ s.stale = r.stale /\ s.calm = b
  BY DEF RunRecord
<1> HIDE DEF s
<1>3. r.full \/ "pause" \in {r.todo[i] : i \in DOMAIN r.todo} => ~b
  BY DEF b
<1> QED
  BY <1>1, <1>2, <1>3

\* Where a script pauses machines, the pause is ahead.
LEMMA PauseAhead ==
  ASSUME NEW r \in RunRecord, OrderedScript(r), r.todo # <<>>, Head(r.todo) \in PauseSteps
  PROVE  "pause" \in {r.todo[i] : i \in DOMAIN r.todo} /\ ~r.full
<1>1. r.todo \in Seq(Steps)
  BY DEF RunRecord
<1>2. ASSUME r.todo \in Seq(OtherSteps) PROVE FALSE
  <2>1. Head(r.todo) \in OtherSteps
    BY <1>2
  <2> QED
    BY <2>1 DEF OtherSteps
<1>3. r.todo[Len(r.todo)] = "pause" /\ Len(r.todo) \in DOMAIN r.todo
  <2>1. r.todo[Len(r.todo)] = "pause"
    BY <1>2 DEF OrderedScript, InOrder
  <2>2. Len(r.todo) \in Nat \ {0} /\ DOMAIN r.todo = 1 .. Len(r.todo)
    BY <1>1
  <2> QED
    BY <2>1, <2>2
<1> QED
  BY <1>2, <1>3 DEF OrderedScript

\* A script that someone else's step disturbs asks nothing more of the world.
LEMMA DisturbedScript ==
  ASSUME TypeOK, ScriptInv, NEW p \in Operators, run'[p] = Disturbed(run[p])
  PROVE  OrderedScript(run'[p]) /\ CalmSetup(run[p])' /\ CalmPause(run[p])'
<1>1. run[p] \in RunRecord /\ OrderedScript(run[p]) /\ CalmPause(run[p])
  BY TypeParts DEF ScriptInv
<1>2. /\ run'[p].todo = run[p].todo /\ run'[p].full = run[p].full
      /\ run'[p].current = run[p].current /\ run'[p].stale = run[p].stale
      /\ run[p].full => ~run'[p].calm
      /\ "pause" \in {run[p].todo[i] : i \in DOMAIN run[p].todo} => ~run'[p].calm
  BY <1>1, DisturbedFields
<1>3. OrderedScript(run'[p])
  BY <1>1, <1>2 DEF OrderedScript
<1>4. CalmSetup(run[p])'
  BY <1>2 DEF CalmSetup
<1>5. CalmPause(run[p])'
  <2>1. run[p].todo # <<>> /\ Head(run[p].todo) \in {"list", "pause"} => ~run'[p].calm
    BY <1>1, <1>2, PauseAhead DEF PauseSteps
  <2> QED
    BY <1>1, <1>2, <2>1 DEF CalmPause
<1> QED
  BY <1>3, <1>4, <1>5

LEMMA DisturbKeepsScripts ==
  ASSUME TypeOK, ScriptInv, Disturb
  PROVE  ScriptInv'
<1>1. ASSUME NEW p \in Operators
      PROVE  OrderedScript(run'[p]) /\ CalmSetup(run[p])' /\ CalmPause(run[p])'
  BY <1>1, DisturbedScript DEF Disturb
<1> QED
  BY <1>1, Zenon DEF ScriptInv

\* It is enough to look at the script that moves.
LEMMA BecomesKeepsScripts ==
  ASSUME TypeOK, ScriptInv, NEW o \in Operators, NEW r, Becomes(o, r), OrderedScript(r),
         run'[o] = r => CalmSetup(run[o])' /\ CalmPause(run[o])'
  PROVE  ScriptInv'
<1>1. run'[o] = r /\ \A p \in Operators \ {o} : run'[p] = Disturbed(run[p])
  BY DEF Becomes
<1>2. OrderedScript(run'[o]) /\ CalmSetup(run[o])' /\ CalmPause(run[o])'
  BY <1>1
<1>3. ASSUME NEW p \in Operators
      PROVE  OrderedScript(run'[p]) /\ CalmSetup(run[p])' /\ CalmPause(run[p])'
  <2>1. CASE p = o
    BY <1>2, <2>1
  <2>2. CASE p # o
    BY <1>1, <2>2, DisturbedScript
  <2> QED
    BY <2>1, <2>2
<1> QED
  BY <1>3, Zenon DEF ScriptInv

\* A script that is over.
LEMMA IdleScript ==
  OrderedScript(Idle) /\ CalmSetup(Idle) /\ CalmPause(Idle)
<1>1. Idle.todo = <<>> /\ Idle.full = FALSE
  BY DEF Idle
<1> QED
  BY <1>1 DEF OrderedScript, CalmSetup, CalmPause

LEMMA AbortKeepsScripts ==
  ASSUME TypeOK, ScriptInv, NEW o \in Operators, Abort(o)
  PROVE  ScriptInv'
<1>1. Idle.todo = <<>>
  BY DEF Idle
<1>2. run'[o] = Idle => CalmSetup(run[o])' /\ CalmPause(run[o])'
  BY <1>1 DEF CalmSetup, CalmPause
<1> QED
  BY <1>2, IdleScript, BecomesKeepsScripts DEF Abort

\* The script after a step that goes through.
LEMMA NextScript ==
  ASSUME NEW o \in Operators, NEW q \in RunRecord, Done(o, q), q.todo # <<>>, OrderedScript(q)
  PROVE  /\ OrderedScript(run'[o])
         /\ run'[o].todo # <<>> =>
              /\ run'[o].sender = q.sender /\ run'[o].ext = q.ext /\ run'[o].key = q.key
              /\ run'[o].current = q.current /\ run'[o].stale = q.stale
              /\ run'[o].full = q.full /\ run'[o].calm = q.calm
              /\ q.full \/ Head(q.todo) \in PauseSteps =>
                   Head(q.todo) \in DOMAIN Following /\ Head(run'[o].todo) = Following[Head(q.todo)]
              /\ Head(q.todo) \notin PauseSteps => Head(run'[o].todo) \notin PauseSteps
         /\ run'[o].todo = <<>> /\ q.full => Head(q.todo) = "send"
<1>1. q.todo \in Seq(Steps) /\ Len(q.todo) \in Nat \ {0} /\ Head(q.todo) = q.todo[1]
  <2>1. q.todo \in Seq(Steps)
    BY DEF RunRecord
  <2> QED
    BY <2>1
<1>2. CASE Len(q.todo) = 1
  <2>1. run'[o] = Idle
    BY <1>2 DEF Done, Becomes
  <2>2. Idle.todo = <<>>
    BY DEF Idle
  <2>3. q.full => Head(q.todo) = "send"
    BY <1>1, <1>2 DEF OrderedScript, InOrder
  <2> QED
    BY <2>1, <2>2, <2>3, IdleScript
<1>3. CASE Len(q.todo) # 1
  <2> DEFINE t == Tail(q.todo)
             s == [q EXCEPT !.todo = t]
  <2>1. run'[o] = s
    BY <1>3 DEF Done, Becomes
  <2> HIDE DEF t
  <2>2. /\ s.todo = t /\ s.sender = q.sender /\ s.ext = q.ext /\ s.key = q.key /\ s.current = q.current
        /\ s.stale = q.stale /\ s.full = q.full /\ s.calm = q.calm
    BY DEF RunRecord
  <2> HIDE DEF s
  <2>3. t # <<>> /\ Len(t) \in Nat \ {0}
    <3>1. Len(t) = Len(q.todo) - 1
      BY <1>1 DEF t
    <3>2. Len(t) # Len(<<>>)
      BY <1>1, <1>3, <3>1
    <3>3. t # <<>>
      BY <3>2
    <3>4. Len(t) \in Nat \ {0}
      BY <1>1, <1>3, <3>1
    <3> QED
      BY <3>3, <3>4
  <2>4. ASSUME NEW last, InOrder(q.todo, last)
        PROVE  InOrder(t, last) /\ Head(q.todo) \in DOMAIN Following /\ Head(t) = Following[Head(q.todo)]
    BY <1>1, <1>3, <2>4, TailInOrder DEF t
  <2>5. ASSUME q.todo \in Seq(OtherSteps)
        PROVE  t \in Seq(OtherSteps) /\ Head(t) \in OtherSteps /\ Head(q.todo) \notin PauseSteps
    <3>1. t \in Seq(OtherSteps) /\ Head(q.todo) \in OtherSteps
      BY <2>5 DEF t
    <3>2. Head(t) \in OtherSteps
      BY <2>3, <3>1
    <3> QED
      BY <3>1, <3>2 DEF OtherSteps
  <2>6. q.todo \notin Seq(OtherSteps) => Head(q.todo) \in PauseSteps /\ InOrder(q.todo, "pause") /\ ~q.full
    BY DEF OrderedScript
  <2>7. q.full => q.todo \in Seq(OtherSteps) /\ InOrder(q.todo, "send")
    BY DEF OrderedScript
  <2>8. ASSUME Head(q.todo) \in PauseSteps
        PROVE  InOrder(q.todo, "pause") /\ Head(t) \in PauseSteps
    <3>1. InOrder(q.todo, "pause")
      BY <2>5, <2>6, <2>8
    <3>2. Head(q.todo) \in DOMAIN Following /\ Head(t) = Following[Head(q.todo)]
      BY <3>1, <2>4
    <3>3. Head(q.todo) \in {"look", "list"}
      BY <2>8, <3>2, FollowingValue DEF PauseSteps
    <3>4. Head(t) \in {"list", "pause"}
      BY <3>2, <3>3, FollowingValue
    <3> QED
      BY <3>1, <3>4 DEF PauseSteps
  <2>9. OrderedScript(s)
    <3>1. q.full => t \in Seq(OtherSteps) /\ InOrder(t, "send")
      BY <2>4, <2>5, <2>7
    <3>2. t \in Seq(OtherSteps) \/ (Head(t) \in PauseSteps /\ InOrder(t, "pause"))
      BY <2>4, <2>5, <2>6, <2>8
    <3> QED
      BY <2>2, <2>3, <3>1, <3>2 DEF OrderedScript
  <2>10. /\ q.full \/ Head(q.todo) \in PauseSteps =>
              Head(q.todo) \in DOMAIN Following /\ Head(t) = Following[Head(q.todo)]
         /\ Head(q.todo) \notin PauseSteps => Head(t) \notin PauseSteps
    BY <2>4, <2>5, <2>6, <2>7, <2>8 DEF OtherSteps
  <2> QED
    BY <2>1, <2>2, <2>3, <2>9, <2>10
<1> QED
  BY <1>2, <1>3

\* A step that goes through keeps the invariant when it leaves the script ready for
\* the step after it.
LEMMA DoneKeepsScripts ==
  ASSUME TypeOK, ScriptInv, NEW o \in Operators, NEW q \in RunRecord, Done(o, q), q.todo # <<>>,
         OrderedScript(q), Head(q.todo) \notin {"list", "pause"},
         run'[o].todo # <<>> /\ Head(q.todo) = "look" /\ run'[o].current # 0 =>
           node'.up /\ node'.tee = run'[o].current,
         run'[o].todo # <<>> /\ q.full /\ q.calm /\ Configured' => Ready(Head(run[o].todo), run[o])'
  PROVE  ScriptInv'
<1> DEFINE r == IF Len(q.todo) = 1 THEN Idle ELSE [q EXCEPT !.todo = Tail(@)]
<1>1. Becomes(o, r) /\ run'[o] = r
  BY DEF Done, Becomes
<1>2. /\ OrderedScript(run'[o])
      /\ run'[o].todo # <<>> =>
           /\ run'[o].full = q.full /\ run'[o].calm = q.calm
           /\ Head(q.todo) \in PauseSteps =>
                Head(q.todo) \in DOMAIN Following /\ Head(run'[o].todo) = Following[Head(q.todo)]
           /\ Head(q.todo) \notin PauseSteps => Head(run'[o].todo) \notin PauseSteps
  BY NextScript
<1> HIDE DEF r
<1>3. CalmSetup(run[o])'
  BY <1>2 DEF CalmSetup
<1>4. CalmPause(run[o])'
  <2> SUFFICES ASSUME run'[o].todo # <<>>
               PROVE  /\ Head(run'[o].todo) # "pause"
                      /\ Head(run'[o].todo) \in {"list", "pause"} /\ run'[o].current # 0 =>
                           node'.up /\ node'.tee = run'[o].current
    BY DEF CalmPause
  <2>1. CASE Head(q.todo) \in PauseSteps
    <3>1. Head(q.todo) = "look" /\ Head(run'[o].todo) = Following["look"]
      BY <1>2, <2>1 DEF PauseSteps
    <3>2. Head(run'[o].todo) = "list"
      BY <3>1, FollowingValue
    <3> QED
      BY <3>1, <3>2
  <2>2. CASE Head(q.todo) \notin PauseSteps
    BY <1>2, <2>2 DEF PauseSteps
  <2> QED
    BY <2>1, <2>2
<1> QED
  BY <1>1, <1>2, <1>3, <1>4, BecomesKeepsScripts

\* The script at a step, and the next one of a full-setup.
LEMMA ScriptAt ==
  ASSUME TypeOK, ScriptInv, NEW o \in Operators, NEW step, At(o, step)
  PROVE  /\ run[o] \in RunRecord /\ run[o].todo # <<>> /\ Head(run[o].todo) = step
         /\ OrderedScript(run[o]) /\ CalmPause(run[o])
         /\ run[o].full /\ run[o].calm /\ Configured => Ready(step, run[o])
BY AtValue DEF ScriptInv, CalmSetup

\* The variables of the script change at a step that goes through.
LEMMA NextStep ==
  ASSUME TypeOK, ScriptInv, NEW o \in Operators, NEW step, At(o, step), step \notin {"list", "pause"},
         NEW q \in RunRecord, q.todo = run[o].todo, q.full = run[o].full, q.calm = run[o].calm, Done(o, q)
  PROVE  /\ q.todo # <<>> /\ OrderedScript(q) /\ Head(q.todo) = step
         /\ run'[o].todo # <<>> =>
              /\ run'[o].sender = q.sender /\ run'[o].ext = q.ext /\ run'[o].key = q.key
              /\ run'[o].current = q.current
              /\ q.full => step \in DOMAIN Following /\ Head(run'[o].todo) = Following[step]
<1>1. q.todo # <<>> /\ OrderedScript(q) /\ Head(q.todo) = step
  BY ScriptAt DEF OrderedScript
<1> QED
  BY <1>1, NextScript

-----------------------------------------------------------------------------
(* Every step *)

LEMMA FailuresKeepScripts ==
  ASSUME TypeOK, ScriptInv, NEW o \in Operators,
         \/ DeployFails(o) \/ RegisterFails(o) \/ StartFails(o) \/ PostBuildFails(o)
         \/ SetExtensionIdFails(o) \/ SendFails(o) \/ LookFails(o)
  PROVE  ScriptInv'
<1>1. Abort(o)
  BY Zenon DEF DeployFails, RegisterFails, StartFails, PostBuildFails, SetExtensionIdFails, SendFails, LookFails
<1> QED
  BY <1>1, AbortKeepsScripts

LEMMA DeployKeepsScripts ==
  ASSUME DeploymentInv, NamesExist, ScriptInv, NEW o \in Operators, Deploy(o)
  PROVE  ScriptInv'
<1> DEFINE n == Len(bound')
           q == [run[o] EXCEPT !.sender = n]
<1>1. /\ At(o, "deploy") /\ bound' = Append(bound, 0) /\ exts' = exts
      /\ Done(o, q) \/ Abort(o)
  BY Zenon DEF Deploy
<1>2. TypeOK
  BY DEF DeploymentInv
<1>3. bound \in Seq(Nat) /\ n = Len(bound) + 1 /\ n \in Nat /\ bound'[n] = 0 /\ Len(bound) \in Nat
  BY <1>1, <1>2, TypeParts
<1> HIDE DEF n
<1>4. /\ q \in RunRecord /\ q.todo = run[o].todo /\ q.full = run[o].full /\ q.calm = run[o].calm
      /\ q.sender = n
  BY <1>1, <1>2, <1>3, ScriptAt DEF RunRecord
<1> HIDE DEF q
<1>5. CASE Done(o, q)
  <2>1. /\ q.todo # <<>> /\ OrderedScript(q) /\ Head(q.todo) = "deploy"
        /\ run'[o].todo # <<>> =>
             run'[o].sender = q.sender /\ (q.full => Head(run'[o].todo) = Following["deploy"])
    BY <1>1, <1>2, <1>4, <1>5, NextStep
  <2>2. ASSUME run'[o].todo # <<>>, q.full PROVE Ready(Head(run[o].todo), run[o])'
    <3>1. Head(run'[o].todo) = "register" /\ run'[o].sender = n
      BY <1>4, <2>1, <2>2, FollowingValue
    <3>2. n \in 1 .. n /\ bound'[n] = 0
      BY <1>3
    <3>3. {i \in DOMAIN exts' : exts'[i].sender = n} = {}
      BY <1>1, <1>3 DEF NamesExist, SendersExist, Senders
    <3> QED
      BY <3>1, <3>2, <3>3 DEF Ready, OfSender, Senders, SettingUp, n
  <2> QED
    BY <1>2, <1>4, <1>5, <2>1, <2>2, DoneKeepsScripts
<1> QED
  BY <1>1, <1>2, <1>5, AbortKeepsScripts

LEMMA RegisterKeepsScripts ==
  ASSUME DeploymentInv, NamesExist, ScriptInv, NEW o \in Operators, Register(o)
  PROVE  ScriptInv'
<1> DEFINE x == Registered(run[o].sender)
           n == Len(exts')
           q == [run[o] EXCEPT !.ext = n, !.key = key]
<1>1. /\ At(o, "register") /\ exts' = Append(exts, x) /\ bound' = bound
      /\ mode' = mode /\ dotenv' = dotenv /\ key' = key /\ node' = node
      /\ Done(o, q) \/ Abort(o)
  BY Zenon DEF Register, hostVars
<1>2. TypeOK
  BY DEF DeploymentInv
<1>3. run[o] \in RunRecord /\ key \in Keys /\ run[o].sender \in Nat
  BY <1>1, <1>2, ScriptAt, TypeParts DEF RunRecord
<1>4. exts \in Seq(ExtRecord) /\ n = Len(exts) + 1 /\ n \in Nat /\ Len(exts) \in Nat /\ exts'[n] = x
      /\ (\A i \in DOMAIN exts : exts'[i] = exts[i]) /\ DOMAIN exts' = DOMAIN exts \cup {n}
  <2> HIDE DEF x
  <2>1. exts \in Seq(ExtRecord)
    BY <1>2, TypeParts
  <2> QED
    BY <1>1, <2>1
<1>5. x.sender = run[o].sender
  BY DEF Registered
<1> HIDE DEF n, x
<1>6. /\ q \in RunRecord /\ q.todo = run[o].todo /\ q.full = run[o].full /\ q.calm = run[o].calm
      /\ q.sender = run[o].sender /\ q.ext = n /\ q.key = key
  BY <1>3, <1>4 DEF RunRecord
<1> HIDE DEF q
<1>7. CASE Done(o, q)
  <2>1. /\ q.todo # <<>> /\ OrderedScript(q) /\ Head(q.todo) = "register"
        /\ run'[o].todo # <<>> =>
             /\ run'[o].sender = q.sender /\ run'[o].ext = q.ext /\ run'[o].key = q.key
             /\ q.full => Head(run'[o].todo) = Following["register"]
    BY <1>1, <1>2, <1>6, <1>7, NextStep
  <2>2. ASSUME run'[o].todo # <<>>, q.full, q.calm, Configured' PROVE Ready(Head(run[o].todo), run[o])'
    <3>1. /\ Head(run'[o].todo) = "owners" /\ run'[o].sender = run[o].sender
          /\ run'[o].ext = n /\ run'[o].key = key'
      BY <1>1, <1>6, <2>1, <2>2, FollowingValue
    <3>2. Ready("register", run[o])
      BY <1>1, <1>2, <1>6, <2>2, ScriptAt DEF Configured
    <3>3. /\ run[o].sender \in 1 .. Len(bound') /\ bound'[run[o].sender] = 0
          /\ {i \in DOMAIN exts : exts[i].sender = run[o].sender} = {}
      BY <1>1, <3>2 DEF Ready, OfSender, Senders
    <3>4. {i \in DOMAIN exts' : exts'[i].sender = run[o].sender} = {n}
      BY <1>4, <1>5, <3>3
    <3>5. node'.ext # n
      <4>1. node.ext <= Len(exts) /\ node.ext \in Nat
        BY <1>2, TypeParts DEF NamesExist
      <4> QED
        BY <1>1, <1>4, <4>1
    <3> QED
      BY <3>1, <3>3, <3>4, <3>5 DEF Ready, OfSender, Senders, SettingUp
  <2> QED
    BY <1>2, <1>6, <1>7, <2>1, <2>2, DoneKeepsScripts
<1> QED
  BY <1>1, <1>2, <1>7, AbortKeepsScripts

\* The extensions of a sender while none is registered.
LEMMA SameSenders ==
  ASSUME TypeOK, ExtsGrow, DOMAIN exts' = DOMAIN exts, NEW s
  PROVE  {i \in DOMAIN exts' : exts'[i].sender = s} = {i \in DOMAIN exts : exts[i].sender = s}
BY DEF ExtsGrow

\* The file, while its extension only becomes more.
LEMMA WrittenStays ==
  ASSUME TypeOK, ExtsGrow, DOMAIN exts' = DOMAIN exts, Len(bound') = Len(bound),
         file' = file, key' = key, Written
  PROVE  Written' /\ file.ext \in DOMAIN exts
<1>1. /\ WellFormed(file.ext) /\ file.sender \in 1 .. Len(bound)
      /\ {i \in DOMAIN exts : exts[i].sender = file.sender} = {file.ext}
      /\ exts[file.ext].by = key /\ key \in exts[file.ext].owners
  BY DEF Written, Senders, OfSender
<1>2. {i \in DOMAIN exts' : exts'[i].sender = file.sender} = {file.ext}
  BY <1>1, SameSenders
<1>3. file.ext \in DOMAIN exts
  BY <1>1
<1>4. exts'[file.ext].by = exts[file.ext].by /\ exts[file.ext].owners \subseteq exts'[file.ext].owners
  BY <1>3 DEF ExtsGrow
<1> QED
  BY <1>1, <1>2, <1>3, <1>4 DEF Written, Senders, OfSender, WellFormed

\* A transaction that makes one extension more.
LEMMA TransactValue ==
  ASSUME TypeOK, NEW o \in Operators, NEW e, NEW x, Transact(o, [exts EXCEPT ![e] = x]),
         e \in DOMAIN exts =>
           /\ x \in ExtRecord /\ x.sender = exts[e].sender /\ x.by = exts[e].by
           /\ exts[e].owners \subseteq x.owners /\ exts[e].projects \subseteq x.projects
           /\ exts[e].keyed => x.keyed
  PROVE  /\ ExtsGrow /\ DOMAIN exts' = DOMAIN exts
         /\ Abort(o) \/ (Done(o, run[o]) /\ (e \in DOMAIN exts => exts'[e] = x))
<1>1. exts' = [exts EXCEPT ![e] = x] => ExtsGrow /\ DOMAIN exts' = DOMAIN exts /\ (e \in DOMAIN exts => exts'[e] = x)
  BY ExceptExts
<1>2. exts' = exts => ExtsGrow /\ DOMAIN exts' = DOMAIN exts
  BY SameExts
<1>3. \/ exts' = [exts EXCEPT ![e] = x] /\ Done(o, run[o])
      \/ exts' \in {exts, [exts EXCEPT ![e] = x]} /\ Abort(o)
  BY Zenon DEF Transact
<1> QED
  BY <1>1, <1>2, <1>3

\* The three transactions after the registration.
LEMMA AllowValue ==
  ASSUME TypeOK, NEW o \in Operators, Allow(o)
  PROVE  /\ At(o, "owners") \/ At(o, "projects") \/ At(o, "keys")
         /\ ExtsGrow /\ DOMAIN exts' = DOMAIN exts /\ (Abort(o) \/ Done(o, run[o]))
<1> DEFINE e == run[o].ext
           k == run[o].key
<1>1. run[o] \in RunRecord /\ k \in Keys
  BY TypeParts DEF RunRecord
<1>2. e \in DOMAIN exts => exts[e] \in ExtRecord
  BY TypeParts, ElementOfSeq
<1>3. CASE At(o, "owners") /\ Transact(o, [exts EXCEPT ![e].owners = @ \cup {k}])
  <2> DEFINE x == [exts[e] EXCEPT !.owners = @ \cup {k}]
  <2>1. Transact(o, [exts EXCEPT ![e] = x])
    BY <1>3
  <2>2. e \in DOMAIN exts =>
          /\ x \in ExtRecord /\ x.sender = exts[e].sender /\ x.by = exts[e].by
          /\ x.owners = exts[e].owners \cup {k} /\ x.projects = exts[e].projects
          /\ x.keyed = exts[e].keyed
    BY <1>1, <1>2 DEF ExtRecord
  <2> HIDE DEF x, e
  <2> QED
    BY <1>3, <2>1, <2>2, TransactValue
<1>4. CASE At(o, "projects") /\ Transact(o, [exts EXCEPT ![e].projects = @ \cup {k}])
  <2> DEFINE x == [exts[e] EXCEPT !.projects = @ \cup {k}]
  <2>1. Transact(o, [exts EXCEPT ![e] = x])
    BY <1>4
  <2>2. e \in DOMAIN exts =>
          /\ x \in ExtRecord /\ x.sender = exts[e].sender /\ x.by = exts[e].by
          /\ x.owners = exts[e].owners /\ x.projects = exts[e].projects \cup {k}
          /\ x.keyed = exts[e].keyed
    BY <1>1, <1>2 DEF ExtRecord
  <2> HIDE DEF x, e
  <2> QED
    BY <1>4, <2>1, <2>2, TransactValue
<1>5. CASE At(o, "keys") /\ Transact(o, [exts EXCEPT ![e].keyed = TRUE])
  <2> DEFINE x == [exts[e] EXCEPT !.keyed = TRUE]
  <2>1. Transact(o, [exts EXCEPT ![e] = x])
    BY <1>5
  <2>2. e \in DOMAIN exts =>
          /\ x \in ExtRecord /\ x.sender = exts[e].sender /\ x.by = exts[e].by
          /\ x.owners = exts[e].owners /\ x.projects = exts[e].projects /\ x.keyed = TRUE
    BY <1>2 DEF ExtRecord
  <2> HIDE DEF x, e
  <2> QED
    BY <1>5, <2>1, <2>2, TransactValue
<1> QED
  BY <1>3, <1>4, <1>5, Zenon DEF Allow

\* The step after a step that changes no variable of the script.
LEMMA PlainStepKeepsScripts ==
  ASSUME TypeOK, ScriptInv, NEW o \in Operators, NEW step, At(o, step), step \notin {"look", "list", "pause"},
         Done(o, run[o]),
         /\ run[o].full /\ run[o].calm /\ Configured'
         /\ step \in DOMAIN Following /\ run'[o].todo # <<>> /\ Head(run'[o].todo) = Following[step]
         /\ run'[o].sender = run[o].sender /\ run'[o].ext = run[o].ext /\ run'[o].key = run[o].key
         => Ready(Head(run[o].todo), run[o])'
  PROVE  ScriptInv'
<1>1. run[o] \in RunRecord /\ run[o].todo # <<>> /\ OrderedScript(run[o]) /\ Head(run[o].todo) = step
  BY ScriptAt
<1>2. run'[o].todo # <<>> =>
        /\ run'[o].sender = run[o].sender /\ run'[o].ext = run[o].ext /\ run'[o].key = run[o].key
        /\ run[o].full => step \in DOMAIN Following /\ Head(run'[o].todo) = Following[step]
  BY <1>1, NextStep
<1> QED
  BY <1>1, <1>2, DoneKeepsScripts

LEMMA AllowKeepsScripts ==
  ASSUME DeploymentInv, ScriptInv, NEW o \in Operators, Allow(o)
  PROVE  ScriptInv'
<1>1. TypeOK
  BY DEF DeploymentInv
<1>2. /\ bound' = bound /\ mode' = mode /\ dotenv' = dotenv /\ key' = key /\ node' = node
  BY Zenon DEF Allow, hostVars
<1>3. /\ At(o, "owners") \/ At(o, "projects") \/ At(o, "keys")
      /\ ExtsGrow /\ DOMAIN exts' = DOMAIN exts /\ (Abort(o) \/ Done(o, run[o]))
  BY <1>1, AllowValue
<1>4. ASSUME NEW step, At(o, step), step \in {"owners", "projects", "keys"}, Done(o, run[o])
      PROVE  ScriptInv'
  <2>1. ASSUME run[o].full, run[o].calm, Configured', Head(run'[o].todo) = Following[step],
               run'[o].sender = run[o].sender, run'[o].ext = run[o].ext, run'[o].key = run[o].key
        PROVE  Ready(Head(run[o].todo), run[o])'
    <3>1. Ready(step, run[o])
      BY <1>1, <1>2, <1>4, <2>1, ScriptAt DEF Configured
    <3>2. /\ run[o].sender \in 1 .. Len(bound) /\ bound[run[o].sender] = 0
          /\ {i \in DOMAIN exts : exts[i].sender = run[o].sender} = {run[o].ext}
          /\ run[o].key = key /\ node.ext # run[o].ext
      BY <1>4, <3>1 DEF Ready, OfSender, Senders, SettingUp
    <3>3. {i \in DOMAIN exts' : exts'[i].sender = run[o].sender} = {run[o].ext}
      BY <1>1, <1>3, <3>2, SameSenders
    <3>4. Head(run'[o].todo) \in {"projects", "keys", "write"}
      BY <1>4, <2>1, FollowingValue
    <3> QED
      BY <1>2, <2>1, <3>2, <3>3, <3>4 DEF Ready, OfSender, Senders, SettingUp
  <2> QED
    BY <1>1, <1>4, <2>1, PlainStepKeepsScripts
<1> QED
  BY <1>1, <1>3, <1>4, AbortKeepsScripts

LEMMA WriteKeepsScripts ==
  ASSUME DeploymentInv, ScriptInv, NEW o \in Operators, Write(o)
  PROVE  ScriptInv'
<1> DEFINE r == run[o]
           q == [Idle EXCEPT !.full = r.full, !.todo = r.todo, !.calm = r.calm]
<1>1. /\ At(o, "write") /\ exts' = exts /\ bound' = bound
      /\ mode' = mode /\ dotenv' = dotenv /\ key' = key /\ node' = node
      /\ \/ Done(o, q) /\ file' = [exists |-> TRUE, ext |-> r.ext, sender |-> r.sender, edited |-> FALSE]
         \/ Abort(o)
  BY Zenon DEF Write, chainVars
<1>2. TypeOK
  BY DEF DeploymentInv
<1>3. r \in RunRecord /\ r.todo # <<>> /\ Head(r.todo) = "write"
  BY <1>1, <1>2, ScriptAt
<1>4. /\ r.ext \in DOMAIN exts /\ exts[r.ext].sender = r.sender
      /\ exts[r.ext].by = r.key /\ r.key \in exts[r.ext].owners
  <2>1. Prepared(r)
    BY DEF DeploymentInv, RunsInv
  <2> QED
    BY <1>3, <2>1 DEF Prepared, SettingUp
<1>5. r.ext \in Nat \ {0}
  <2>1. DOMAIN exts = 1 .. Len(exts)
    BY <1>2, TypeParts
  <2> QED
    BY <1>4, <2>1
<1>6. q \in RunRecord /\ q.todo = r.todo /\ q.full = r.full /\ q.calm = r.calm
  BY <1>3, IdleValue DEF RunRecord
<1> HIDE DEF q
<1>7. CASE Done(o, q) /\ file' = [exists |-> TRUE, ext |-> r.ext, sender |-> r.sender, edited |-> FALSE]
  <2>1. /\ q.todo # <<>> /\ OrderedScript(q) /\ Head(q.todo) = "write"
        /\ run'[o].todo # <<>> /\ q.full => Head(run'[o].todo) = Following["write"]
    BY <1>1, <1>2, <1>6, <1>7, NextStep
  <2>2. file'.ext = r.ext /\ file'.sender = r.sender
    <3> HIDE DEF r
    <3> QED
      BY <1>7
  <2>3. ASSUME run'[o].todo # <<>>, q.full, q.calm, Configured' PROVE Ready(Head(run[o].todo), run[o])'
    <3>1. Head(run'[o].todo) = "start"
      BY <2>1, <2>3, FollowingValue
    <3>2. Ready("write", r)
      BY <1>1, <1>2, <1>6, <2>3, ScriptAt DEF Configured
    <3>3. /\ r.sender \in 1 .. Len(bound) /\ bound[r.sender] = 0
          /\ {i \in DOMAIN exts : exts[i].sender = r.sender} = {r.ext}
          /\ r.key = key /\ node.ext # r.ext
      BY <3>2 DEF Ready, OfSender, Senders, SettingUp
    <3> HIDE DEF r
    <3>4. Written' /\ bound'[file'.sender] = 0 /\ node'.ext # file'.ext
      BY <1>1, <1>4, <1>5, <2>2, <3>3 DEF Written, OfSender, Senders, WellFormed
    <3> QED
      BY <3>1, <3>4 DEF Ready, SettingUp
  <2> QED
    BY <1>2, <1>6, <1>7, <2>1, <2>3, DoneKeepsScripts
<1> QED
  BY <1>1, <1>2, <1>7, AbortKeepsScripts

\* The node that a full-setup comes to is not one of its extension, so that docker
\* replaces it.
LEMMA StartKeepsScripts ==
  ASSUME DeploymentInv, ScriptInv, NEW o \in Operators, Start(o)
  PROVE  ScriptInv'
<1>1. /\ At(o, "start") /\ (Done(o, run[o]) \/ Abort(o))
      /\ exts' = exts /\ bound' = bound /\ mode' = mode /\ dotenv' = dotenv /\ key' = key /\ file' = file
      /\ KeepsNode \/ node' = NewNode
  BY Zenon DEF Start, chainVars
<1>2. TypeOK
  BY DEF DeploymentInv
<1>3. ASSUME run[o].full, run[o].calm, Configured', Head(run'[o].todo) = Following["start"]
      PROVE  Ready(Head(run[o].todo), run[o])'
  <2>1. Ready("start", run[o]) /\ mode = "docker" /\ dotenv # "nothing"
    BY <1>1, <1>2, <1>3, ScriptAt DEF Configured
  <2>2. Written /\ bound[file.sender] = 0 /\ node.ext # file.ext
    BY <2>1 DEF Ready
  <2>3. node' = [up |-> TRUE, tee |-> tees + 1, ext |-> file.ext, governance |-> dotenv]
    BY <1>1, <2>1, <2>2 DEF KeepsNode, NewNode, NodeGovernance
  <2>4. node'.up /\ node'.ext = file.ext /\ node'.governance = dotenv
    BY <2>3
  <2>5. Written'
    BY <1>1, <1>2, <2>2, SameExts, WrittenStays
  <2>6. Head(run'[o].todo) = "version"
    BY <1>3, FollowingValue
  <2> QED
    BY <1>1, <2>2, <2>4, <2>5, <2>6 DEF Ready, NodeServesFile, SettingUp
<1> QED
  BY <1>1, <1>2, <1>3, PlainStepKeepsScripts, AbortKeepsScripts

LEMMA StopKeepsScripts ==
  ASSUME DeploymentInv, ScriptInv, NEW o \in Operators, Stop(o)
  PROVE  ScriptInv'
<1>1. At(o, "stop") /\ Done(o, run[o]) /\ TypeOK
  BY Zenon DEF Stop, DeploymentInv
<1>2. "stop" \notin DOMAIN Following
  BY FollowingValue
<1> QED
  BY <1>1, <1>2, PlainStepKeepsScripts

LEMMA AllowTeeVersionKeepsScripts ==
  ASSUME DeploymentInv, ScriptInv, NEW o \in Operators, AllowTeeVersion(o)
  PROVE  ScriptInv'
<1> DEFINE e == node.ext
           x == [exts[e] EXCEPT !.version = TRUE]
<1>1. /\ At(o, "version") /\ Transact(o, [exts EXCEPT ![e] = x])
      /\ bound' = bound /\ mode' = mode /\ dotenv' = dotenv /\ key' = key /\ node' = node /\ file' = file
  BY Zenon DEF AllowTeeVersion, hostVars
<1>2. TypeOK
  BY DEF DeploymentInv
<1>3. e \in DOMAIN exts => exts[e] \in ExtRecord
  BY <1>2, TypeParts, ElementOfSeq
<1>4. e \in DOMAIN exts =>
        /\ x \in ExtRecord /\ x.sender = exts[e].sender /\ x.by = exts[e].by
        /\ x.owners = exts[e].owners /\ x.projects = exts[e].projects /\ x.keyed = exts[e].keyed
        /\ x.version = TRUE
  BY <1>3 DEF ExtRecord
<1> HIDE DEF x, e
<1>5. /\ ExtsGrow /\ DOMAIN exts' = DOMAIN exts
      /\ Abort(o) \/ (Done(o, run[o]) /\ (e \in DOMAIN exts => exts'[e] = x))
  BY <1>1, <1>2, <1>4, TransactValue
<1>6. CASE Done(o, run[o]) /\ (e \in DOMAIN exts => exts'[e] = x)
  <2>1. ASSUME run[o].full, run[o].calm, Configured', Head(run'[o].todo) = Following["version"]
        PROVE  Ready(Head(run[o].todo), run[o])'
    <3>1. Ready("version", run[o])
      BY <1>1, <1>2, <2>1, ScriptAt DEF Configured
    <3>2. Written /\ bound[file.sender] = 0 /\ NodeServesFile
      BY <3>1 DEF Ready
    <3>3. Written' /\ file.ext \in DOMAIN exts
      BY <1>1, <1>2, <1>5, <3>2, WrittenStays
    <3>4. exts'[file.ext].version
      BY <1>4, <1>6, <3>2, <3>3 DEF NodeServesFile, e
    <3>5. Head(run'[o].todo) = "governance"
      BY <2>1, FollowingValue
    <3> QED
      BY <1>1, <3>2, <3>3, <3>4, <3>5 DEF Ready, NodeServesFile, SettingUp
  <2> QED
    BY <1>1, <1>2, <1>6, <2>1, PlainStepKeepsScripts
<1> QED
  BY <1>2, <1>5, <1>6, AbortKeepsScripts

LEMMA SetTeeGovernanceKeepsScripts ==
  ASSUME DeploymentInv, ScriptInv, NEW o \in Operators, SetTeeGovernance(o)
  PROVE  ScriptInv'
<1> DEFINE e == node.ext
           g == ToolGovernance
           x == [exts[e] EXCEPT !.governance = g]
<1>1. /\ At(o, "governance") /\ Transact(o, [exts EXCEPT ![e] = x])
      /\ bound' = bound /\ mode' = mode /\ dotenv' = dotenv /\ key' = key /\ node' = node /\ file' = file
  BY Zenon DEF SetTeeGovernance, hostVars
<1>2. TypeOK
  BY DEF DeploymentInv
<1>3. e \in DOMAIN exts => exts[e] \in ExtRecord
  BY <1>2, TypeParts, ElementOfSeq
<1>4. g \in Governances /\ (dotenv # "nothing" => g = dotenv)
  BY <1>2 DEF ToolGovernance, Governances, TypeOK
<1> HIDE DEF g
<1>5. e \in DOMAIN exts =>
        /\ x \in ExtRecord /\ x.sender = exts[e].sender /\ x.by = exts[e].by
        /\ x.owners = exts[e].owners /\ x.projects = exts[e].projects /\ x.keyed = exts[e].keyed
        /\ x.version = exts[e].version /\ x.governance = g
  BY <1>3, <1>4 DEF ExtRecord
<1> HIDE DEF x, e
<1>6. /\ ExtsGrow /\ DOMAIN exts' = DOMAIN exts
      /\ Abort(o) \/ (Done(o, run[o]) /\ (e \in DOMAIN exts => exts'[e] = x))
  BY <1>1, <1>2, <1>5, TransactValue
<1>7. CASE Done(o, run[o]) /\ (e \in DOMAIN exts => exts'[e] = x)
  <2>1. ASSUME run[o].full, run[o].calm, Configured', Head(run'[o].todo) = Following["governance"]
        PROVE  Ready(Head(run[o].todo), run[o])'
    <3>1. Ready("governance", run[o]) /\ dotenv # "nothing"
      BY <1>1, <1>2, <2>1, ScriptAt DEF Configured
    <3>2. Written /\ bound[file.sender] = 0 /\ NodeServesFile /\ exts[file.ext].version
      BY <3>1 DEF Ready
    <3>3. Written' /\ file.ext \in DOMAIN exts
      BY <1>1, <1>2, <1>6, <3>2, WrittenStays
    <3>4. exts'[file.ext].version /\ exts'[file.ext].governance = dotenv
      BY <1>4, <1>5, <1>7, <3>1, <3>2, <3>3 DEF NodeServesFile, e
    <3>5. Head(run'[o].todo) = "machine"
      BY <2>1, FollowingValue
    <3> QED
      BY <1>1, <3>2, <3>3, <3>4, <3>5 DEF Ready, NodeServesFile, SettingUp
  <2> QED
    BY <1>1, <1>2, <1>7, <2>1, PlainStepKeepsScripts
<1> QED
  BY <1>2, <1>6, <1>7, AbortKeepsScripts

LEMMA RegisterTeeKeepsScripts ==
  ASSUME DeploymentInv, ScriptInv, NEW o \in Operators, RegisterTee(o)
  PROVE  ScriptInv'
<1>1. /\ At(o, "machine") /\ exts' = exts
      /\ bound' = bound /\ mode' = mode /\ dotenv' = dotenv /\ key' = key /\ node' = node /\ file' = file
      /\ \/ active' = active \cup {[tee |-> node.tee, ext |-> node.ext]} /\ Done(o, run[o])
         \/ Abort(o)
  BY Zenon DEF RegisterTee, hostVars
<1>2. TypeOK
  BY DEF DeploymentInv
<1>3. CASE active' = active \cup {[tee |-> node.tee, ext |-> node.ext]} /\ Done(o, run[o])
  <2>1. ASSUME run[o].full, run[o].calm, Configured', Head(run'[o].todo) = Following["machine"]
        PROVE  Ready(Head(run[o].todo), run[o])'
    <3>1. Ready("machine", run[o])
      BY <1>1, <1>2, <2>1, ScriptAt DEF Configured
    <3>2. Written /\ bound[file.sender] = 0 /\ NodeServesFile
      BY <3>1 DEF Ready
    <3>3. Written'
      BY <1>1, <1>2, <3>2, SameExts, WrittenStays
    <3>4. [tee |-> node'.tee, ext |-> node'.ext] \in active'
      BY <1>1, <1>3
    <3>5. Head(run'[o].todo) = "bind"
      BY <2>1, FollowingValue
    <3> QED
      BY <1>1, <3>2, <3>3, <3>4, <3>5 DEF Ready, NodeServesFile, InProduction, SettingUp
  <2> QED
    BY <1>1, <1>2, <1>3, <2>1, PlainStepKeepsScripts
<1> QED
  BY <1>1, <1>2, <1>3, AbortKeepsScripts

LEMMA SetExtensionIdKeepsScripts ==
  ASSUME DeploymentInv, ScriptInv, NEW o \in Operators, SetExtensionId(o)
  PROVE  ScriptInv'
<1> DEFINE s == file.sender
           q == [run[o] EXCEPT !.sender = s]
<1>1. /\ At(o, "bind") /\ s \in Senders /\ (Done(o, q) \/ Abort(o))
      /\ exts' = exts /\ active' = active
      /\ mode' = mode /\ dotenv' = dotenv /\ key' = key /\ node' = node /\ file' = file
      /\ \/ bound[s] # 0 /\ bound' = bound
         \/ bound[s] = 0 /\ bound' = [bound EXCEPT ![s] = FoundBy(s)]
  BY Zenon DEF SetExtensionId, hostVars
<1>2. TypeOK
  BY DEF DeploymentInv
<1>3. bound \in Seq(Nat) /\ Len(bound) \in Nat /\ s \in 1 .. Len(bound)
  BY <1>1, <1>2, TypeParts DEF Senders
<1>4. Len(bound') = Len(bound) /\ (bound[s] = 0 => bound'[s] = FoundBy(s))
  BY <1>1, <1>3
<1> HIDE DEF s
<1>5. /\ q \in RunRecord /\ q.todo = run[o].todo /\ q.full = run[o].full /\ q.calm = run[o].calm
      /\ q.sender = s
  <2>1. run[o] \in RunRecord /\ s \in Nat
    BY <1>1, <1>2, <1>3, ScriptAt
  <2> QED
    BY <2>1 DEF RunRecord
<1> HIDE DEF q
<1>6. ASSUME Done(o, q)
      PROVE  /\ q.todo # <<>> /\ OrderedScript(q) /\ Head(q.todo) = "bind"
             /\ run'[o].todo # <<>> =>
                  run'[o].sender = q.sender /\ (q.full => Head(run'[o].todo) = Following["bind"])
  BY <1>1, <1>2, <1>5, <1>6, NextStep
<1>7. ASSUME Done(o, q), run'[o].todo # <<>>, q.full, q.calm, Configured' PROVE Ready(Head(run[o].todo), run[o])'
  <2>1. Head(run'[o].todo) = "send" /\ run'[o].sender = s
    BY <1>5, <1>6, <1>7, FollowingValue
  <2>2. Ready("bind", run[o])
    BY <1>1, <1>2, <1>5, <1>7, ScriptAt DEF Configured
  <2>3. Written /\ bound[s] = 0 /\ NodeServesFile /\ InProduction
    BY <2>2 DEF Ready, s
  <2>4. Written'
    BY <1>1, <1>2, <1>4, <2>3, SameExts, WrittenStays
  <2>5. FoundBy(s) = file.ext
    <3>1. OfSender(s) = {file.ext} /\ file.ext \in Int
      BY <1>2, <2>3, TypeParts DEF Written, s
    <3> QED
      BY <3>1 DEF FoundBy
  <2> QED
    BY <1>1, <1>4, <2>1, <2>3, <2>4, <2>5 DEF Ready, NodeServesFile, InProduction, SettingUp, s
<1>8. CASE Done(o, q)
  BY <1>2, <1>5, <1>6, <1>7, <1>8, DoneKeepsScripts
<1> QED
  BY <1>1, <1>2, <1>8, AbortKeepsScripts

LEMMA SendKeepsScripts ==
  ASSUME DeploymentInv, ScriptInv, NEW o \in Operators, Send(o)
  PROVE  ScriptInv'
<1>1. At(o, "send") /\ Done(o, run[o]) /\ TypeOK
  BY Zenon DEF Send, DeploymentInv
<1>2. "send" \notin DOMAIN Following
  BY FollowingValue
<1> QED
  BY <1>1, <1>2, PlainStepKeepsScripts

LEMMA LookKeepsScripts ==
  ASSUME DeploymentInv, ScriptInv, NEW o \in Operators, Look(o)
  PROVE  ScriptInv'
<1>1. TypeOK /\ At(o, "look") /\ node' = node /\ run[o] \in RunRecord
  <2>1. TypeOK /\ At(o, "look") /\ node' = node
    BY Zenon DEF Look, hostVars, DeploymentInv
  <2> QED
    BY <2>1, ScriptAt
<1>2. node.tee \in Nat /\ file.ext \in Nat
  <2>1. file.ext \in Int /\ file.ext > 0
    BY <1>1, TypeParts DEF Look, WellFormed
  <2> QED
    BY <1>1, <2>1, TypeParts
<1>3. PICK c \in {0, node.tee} :
        Done(o, [run[o] EXCEPT !.current = c, !.ext = file.ext]) /\ (c # 0 => node.up /\ node.tee = c)
  BY Zenon DEF Look
<1> DEFINE x == file.ext
           q == [run[o] EXCEPT !.current = c, !.ext = x]
<1>4. Done(o, q)
  BY <1>3
<1>5. /\ q \in RunRecord /\ q.todo = run[o].todo /\ q.full = run[o].full /\ q.calm = run[o].calm
      /\ q.current = c
  <2>1. c \in Nat /\ x \in Nat
    BY <1>2
  <2> HIDE DEF x
  <2> QED
    BY <1>1, <2>1 DEF RunRecord
<1> HIDE DEF q
<1>6. /\ q.todo # <<>> /\ OrderedScript(q) /\ Head(q.todo) = "look"
      /\ run'[o].todo # <<>> => run'[o].current = q.current
  BY <1>1, <1>4, <1>5, NextStep
<1>7. ~q.full
  BY <1>1, <1>5, ScriptAt, PauseAhead DEF PauseSteps
<1> QED
  BY <1>1, <1>3, <1>4, <1>5, <1>6, <1>7, DoneKeepsScripts

\* The stale machines are those but the current one.
LEMMA ListKeepsScripts ==
  ASSUME DeploymentInv, ScriptInv, NEW o \in Operators, List(o)
  PROVE  ScriptInv'
<1>1. TypeOK /\ At(o, "list") /\ node' = node /\ run[o] \in RunRecord
  <2>1. TypeOK /\ At(o, "list") /\ node' = node
    BY Zenon DEF List, hostVars, DeploymentInv
  <2> QED
    BY <2>1, ScriptAt
<1>2. /\ run[o].todo # <<>> /\ Head(run[o].todo) = "list" /\ OrderedScript(run[o]) /\ CalmPause(run[o])
      /\ ~run[o].full /\ run[o].todo \in Seq(Steps)
  <2>1. /\ run[o].todo # <<>> /\ Head(run[o].todo) = "list" /\ OrderedScript(run[o]) /\ CalmPause(run[o])
    BY <1>1, ScriptAt
  <2> QED
    BY <1>1, <2>1, PauseAhead DEF PauseSteps, RunRecord
<1> DEFINE v == StaleOf(o)
           t == Tail(run[o].todo)
           q == [run[o] EXCEPT !.stale = v, !.todo = t]
<1>3. v \subseteq Nat /\ run[o].current \notin v
  BY <1>1, TypeParts DEF StaleOf
<1>4. Abort(o) \/ Becomes(o, q)
  BY Zenon DEF List, Abort
<1> HIDE DEF v
<1>5. InOrder(run[o].todo, "pause")
  <2>1. run[o].todo \in Seq(OtherSteps) => Head(run[o].todo) \in OtherSteps
    BY <1>2
  <2> QED
    BY <1>2, <2>1 DEF OrderedScript, OtherSteps, PauseSteps
<1>6. InOrder(t, "pause") /\ Head(t) = "pause" /\ t # <<>>
  <2>1. Len(run[o].todo) # 1
    <3>1. run[o].todo[Len(run[o].todo)] = "pause" /\ Head(run[o].todo) = run[o].todo[1]
      BY <1>2, <1>5 DEF InOrder
    <3> QED
      BY <1>2, <3>1
  <2>2. InOrder(t, "pause") /\ Head(t) = Following["list"]
    BY <1>2, <1>5, <2>1, TailInOrder
  <2>3. Len(run[o].todo) \in Nat \ {0} /\ Len(t) = Len(run[o].todo) - 1
    BY <1>2
  <2>4. Len(t) # Len(<<>>)
    BY <2>1, <2>3
  <2>5. t # <<>>
    BY <2>4
  <2> QED
    BY <2>2, <2>5, FollowingValue
<1> HIDE DEF t
<1>7. q.todo = t /\ q.stale = v /\ q.current = run[o].current /\ q.calm = run[o].calm /\ q.full = run[o].full
  BY <1>1 DEF RunRecord
<1> HIDE DEF q
<1>8. OrderedScript(q)
  BY <1>2, <1>6, <1>7 DEF OrderedScript, PauseSteps
<1>9. run'[o] = q => CalmSetup(run[o])' /\ CalmPause(run[o])'
  <2> SUFFICES ASSUME run'[o] = q PROVE CalmSetup(run[o])' /\ CalmPause(run[o])'
    OBVIOUS
  <2>1. CalmSetup(run[o])'
    BY <1>2, <1>7 DEF CalmSetup
  <2>2. CalmPause(run[o])'
    BY <1>1, <1>2, <1>3, <1>6, <1>7 DEF CalmPause
  <2> QED
    BY <2>1, <2>2
<1> QED
  BY <1>1, <1>4, <1>8, <1>9, AbortKeepsScripts, BecomesKeepsScripts

LEMMA PauseKeepsScripts ==
  ASSUME DeploymentInv, ScriptInv, NEW o \in Operators, NEW tee \in run[o].stale, Pause(o, tee)
  PROVE  ScriptInv'
<1>1. TypeOK /\ At(o, "pause") /\ node' = node /\ run[o] \in RunRecord
  <2>1. TypeOK /\ At(o, "pause") /\ node' = node
    BY Zenon DEF Pause, hostVars, DeploymentInv
  <2> QED
    BY <2>1, ScriptAt
<1>2. /\ run[o].todo # <<>> /\ Head(run[o].todo) = "pause" /\ OrderedScript(run[o]) /\ CalmPause(run[o])
      /\ ~run[o].full
  <2>1. /\ run[o].todo # <<>> /\ Head(run[o].todo) = "pause" /\ OrderedScript(run[o]) /\ CalmPause(run[o])
    BY <1>1, ScriptAt
  <2> QED
    BY <1>1, <2>1, PauseAhead DEF PauseSteps
<1> DEFINE v == run[o].stale \ {tee}
           q == [run[o] EXCEPT !.stale = v]
<1>3. Abort(o) \/ Becomes(o, q)
  BY Zenon DEF Pause, Abort
<1>4. run[o].current \notin v
  BY <1>2 DEF CalmPause
<1> HIDE DEF v
<1>5. /\ q.todo = run[o].todo /\ q.stale = v /\ q.current = run[o].current /\ q.calm = run[o].calm
      /\ q.full = run[o].full
  BY <1>1 DEF RunRecord
<1> HIDE DEF q
<1>6. OrderedScript(q)
  BY <1>2, <1>5 DEF OrderedScript
<1>7. run'[o] = q => CalmSetup(run[o])' /\ CalmPause(run[o])'
  <2> SUFFICES ASSUME run'[o] = q PROVE CalmSetup(run[o])' /\ CalmPause(run[o])'
    OBVIOUS
  <2>1. CalmSetup(run[o])'
    BY <1>2, <1>5 DEF CalmSetup
  <2>2. CalmPause(run[o])'
    BY <1>1, <1>2, <1>4, <1>5 DEF CalmPause
  <2> QED
    BY <2>1, <2>2
<1> QED
  BY <1>1, <1>3, <1>6, <1>7, AbortKeepsScripts, BecomesKeepsScripts

\* A script begins with a step that needs nothing of the world.
LEMMA BeginKeepsScripts ==
  ASSUME DeploymentInv, ScriptInv, NEW o \in Operators, NEW plan \in Names, Begin(o, plan)
  PROVE  ScriptInv'
<1>1. /\ exts' = exts /\ bound' = bound /\ active' = active /\ mode' = mode /\ dotenv' = dotenv
      /\ key' = key /\ node' = node /\ file' = file /\ TypeOK
  BY Zenon DEF Begin, chainVars, hostVars, DeploymentInv
<1>2. PICK s \in IF plan = "hand" THEN Senders ELSE {0} :
        run' = [run EXCEPT ![o] = [Idle EXCEPT !.full = (plan = "setup"), !.todo = Plans[plan], !.sender = s]]
  BY Zenon DEF Begin
<1> DEFINE t == Plans[plan]
           f == (plan = "setup")
           q == [Idle EXCEPT !.full = f, !.todo = t, !.sender = s]
<1>3. t # <<>>
  BY PlansPlanned
<1>4. /\ plan # "pause" => t \in Seq(OtherSteps)
      /\ f => InOrder(t, "send") /\ Head(t) = "deploy"
      /\ plan = "pause" => InOrder(t, "pause") /\ Head(t) = "look"
  BY PlansInOrder
<1>5. f \in BOOLEAN /\ (f => plan # "pause")
  OBVIOUS
<1>6. run'[o] = q /\ \A p \in Operators \ {o} : run'[p] = run[p]
  BY <1>1, <1>2, TypeParts
<1> HIDE DEF t, f
<1>7. q.todo = t /\ q.full = f
  BY DEF Idle
<1> HIDE DEF q
<1>8. OrderedScript(q)
  BY <1>3, <1>4, <1>5, <1>7 DEF OrderedScript, PauseSteps
<1>9. CalmSetup(run[o])'
  BY <1>4, <1>6, <1>7 DEF CalmSetup, Ready, SettingUp
<1>10. CalmPause(run[o])'
  <2>1. Head(t) \notin {"list", "pause"}
    <3>1. plan # "pause" => Head(t) \in OtherSteps
      BY <1>3, <1>4
    <3> QED
      BY <1>4, <3>1 DEF OtherSteps, PauseSteps
  <2> QED
    BY <1>6, <1>7, <2>1 DEF CalmPause
<1>11. ASSUME NEW p \in Operators
       PROVE  OrderedScript(run'[p]) /\ CalmSetup(run[p])' /\ CalmPause(run[p])'
  <2>1. CASE p = o
    BY <1>6, <1>8, <1>9, <1>10, <2>1
  <2>2. CASE p # o
    <3>1. run'[p] = run[p] /\ OrderedScript(run[p]) /\ CalmSetup(run[p]) /\ CalmPause(run[p])
      BY <1>6, <2>2 DEF ScriptInv
    <3>2. CalmSetup(run[p])'
      BY <1>1, <3>1 DEF CalmSetup, Configured, Ready, Written, NodeServesFile, InProduction, OfSender, Senders
    <3>3. CalmPause(run[p])'
      BY <1>1, <3>1 DEF CalmPause
    <3> QED
      BY <3>1, <3>2, <3>3
  <2> QED
    BY <2>1, <2>2
<1> QED
  BY <1>11, Zenon DEF ScriptInv

LEMMA StepKeepsScripts ==
  ASSUME DeploymentInv, NamesExist, ScriptInv, [Next]_vars
  PROVE  ScriptInv'
<1>1. ASSUME NEW o \in Operators, Work(o) PROVE ScriptInv'
  <2>1. TypeOK
    BY DEF DeploymentInv
  <2>2. CASE \/ DeployFails(o) \/ RegisterFails(o) \/ StartFails(o) \/ PostBuildFails(o)
             \/ SetExtensionIdFails(o) \/ SendFails(o) \/ LookFails(o)
    BY <2>1, <2>2, FailuresKeepScripts
  <2>3. CASE Deploy(o) \/ Register(o) \/ Allow(o) \/ Write(o)
    BY <2>3, DeployKeepsScripts, RegisterKeepsScripts, AllowKeepsScripts, WriteKeepsScripts
  <2>4. CASE Start(o) \/ Stop(o) \/ AllowTeeVersion(o) \/ SetTeeGovernance(o) \/ RegisterTee(o)
    BY <2>4, StartKeepsScripts, StopKeepsScripts, AllowTeeVersionKeepsScripts,
       SetTeeGovernanceKeepsScripts, RegisterTeeKeepsScripts
  <2>5. CASE SetExtensionId(o) \/ Send(o) \/ Look(o) \/ List(o)
    BY <2>5, SetExtensionIdKeepsScripts, SendKeepsScripts, LookKeepsScripts, ListKeepsScripts
  <2>6. CASE \E tee \in run[o].stale : Pause(o, tee)
    BY <2>6, PauseKeepsScripts
  <2> QED
    BY <1>1, <2>2, <2>3, <2>4, <2>5, <2>6, Zenon DEF Work
<1>2. ASSUME NEW o \in Operators, NEW plan \in Names, Begin(o, plan) PROVE ScriptInv'
  BY <1>2, BeginKeepsScripts
<1>3. CASE Crash \/ EditFile \/ SwapKey
  <2>1. Disturb /\ TypeOK
    BY <1>3, Zenon DEF Crash, EditFile, SwapKey, DeploymentInv
  <2> QED
    BY <2>1, DisturbKeepsScripts
<1>4. CASE UNCHANGED vars
  <2>1. /\ exts' = exts /\ bound' = bound /\ active' = active /\ mode' = mode /\ dotenv' = dotenv
        /\ key' = key /\ node' = node /\ file' = file /\ run' = run
    BY <1>4 DEF vars
  <2> QED
    BY <2>1 DEF ScriptInv, OrderedScript, CalmSetup, CalmPause, Configured, Ready, Written, NodeServesFile,
                InProduction, OfSender, Senders
<1> QED
  BY <1>1, <1>2, <1>3, <1>4, Zenon DEF Next

\* What scripts have made of the world when they come to a step, for every step.
THEOREM ScriptsArePrepared == Spec => []ScriptInv
<1>1. Init => DeploymentInv /\ NamesExist /\ ScriptInv
  <2>1. ASSUME Init PROVE ScriptInv
    <3>1. \A o \in Operators : run[o] = Idle
      BY <2>1 DEF Init
    <3> QED
      BY <3>1, IdleScript, Zenon DEF ScriptInv
  <2> QED
    BY <2>1, InitGivesInv, InitNamesExist
<1>2. DeploymentInv /\ NamesExist /\ ScriptInv /\ [Next]_vars => (DeploymentInv /\ NamesExist /\ ScriptInv)'
  BY StepKeepsInv, StepKeepsNames, StepKeepsScripts
<1> QED
  BY <1>1, <1>2, PTL DEF Spec

-----------------------------------------------------------------------------
(* What scripts promise *)

\* Every step of a script is one of its operator.
LEMMA WorkBecomes ==
  ASSUME NEW o \in Operators, Work(o)
  PROVE  \E q : Becomes(o, q)
<1>1. CASE \/ Deploy(o) \/ DeployFails(o) \/ Register(o) \/ RegisterFails(o) \/ Allow(o) \/ Write(o)
           \/ Start(o) \/ StartFails(o) \/ Stop(o)
  BY <1>1, Zenon DEF Deploy, DeployFails, Register, RegisterFails, Allow, Write, Start, StartFails, Stop,
                     Transact, Done, Abort
<1>2. CASE \/ AllowTeeVersion(o) \/ SetTeeGovernance(o) \/ RegisterTee(o) \/ PostBuildFails(o)
           \/ SetExtensionId(o) \/ SetExtensionIdFails(o) \/ Send(o) \/ SendFails(o)
  BY <1>2, Zenon DEF AllowTeeVersion, SetTeeGovernance, RegisterTee, PostBuildFails, SetExtensionId,
                     SetExtensionIdFails, Send, SendFails, Transact, Done, Abort
<1>3. CASE Look(o) \/ LookFails(o) \/ List(o)
  BY <1>3, Zenon DEF Look, LookFails, List, Done, Abort
<1>4. ASSUME NEW tee, Pause(o, tee) PROVE \E q : Becomes(o, q)
  BY <1>4, Zenon DEF Pause, Abort
<1> QED
  BY <1>1, <1>2, <1>3, <1>4, Zenon DEF Work

\* A full-setup that goes through ends with the test.
LEMMA EndsWithTest ==
  ASSUME NEW o \in Operators, run[o] \in RunRecord, run[o].todo # <<>>, OrderedScript(run[o]), run[o].full,
         NEW q, "todo" \in DOMAIN q, q.todo = run[o].todo, Done(o, q), run'[o].todo = <<>>
  PROVE  Head(run[o].todo) = "send"
<1> DEFINE s == run[o].todo
<1>1. s \in Seq(Steps) /\ Len(s) \in Nat \ {0} /\ Head(s) = s[1]
  <2>1. s \in Seq(Steps)
    BY DEF RunRecord
  <2> QED
    BY <2>1
<1>2. InOrder(s, "send")
  BY DEF OrderedScript
<1>3. CASE Len(s) = 1
  BY <1>1, <1>2, <1>3 DEF InOrder
<1>4. CASE Len(s) # 1
  <2>1. run'[o].todo = Tail(s)
    BY <1>4 DEF Done, Becomes
  <2>2. Len(Tail(s)) = Len(s) - 1
    BY <1>1
  <2>3. Len(Tail(s)) # Len(<<>>)
    BY <1>1, <1>4, <2>2
  <2> QED
    BY <2>1, <2>3
<1> QED
  BY <1>3, <1>4

\* What a full-setup has made of the world by its test lets it pass.
LEMMA TestCanPass ==
  ASSUME NEW r, Ready("send", r)
  PROVE  \E m \in Machines(r.sender) : Answers(m)
<1>1. NodeServesFile /\ InProduction /\ r.sender = file.sender /\ bound[file.sender] = file.ext
  BY DEF Ready
<1> DEFINE m == [tee |-> node.tee, ext |-> node.ext]
<1>2. m \in active /\ m.ext = file.ext /\ m.tee = node.tee /\ node.up
  BY <1>1 DEF InProduction, NodeServesFile
<1> HIDE DEF m
<1>3. m \in Machines(r.sender) /\ Answers(m)
  BY <1>1, <1>2 DEF Machines, Answers
<1> QED
  BY <1>3

\* No step of a full-setup that nothing disturbs fails by itself.
LEMMA CalmStepFails ==
  ASSUME TypeOK, NEW o \in Operators, run[o].full, Configured, ~Fault, At(o, Head(run[o].todo)),
         Ready(Head(run[o].todo), run[o]),
         \/ DeployFails(o) \/ RegisterFails(o) \/ StartFails(o) \/ PostBuildFails(o)
         \/ SetExtensionIdFails(o) \/ SendFails(o)
  PROVE  At(o, "send")
<1> DEFINE step == Head(run[o].todo)
<1>1. \A s : At(o, s) => step = s
  BY DEF At
<1>2. ~DeployFails(o)
  BY Zenon DEF DeployFails
<1>3. ~RegisterFails(o)
  <2> SUFFICES ASSUME RegisterFails(o) PROVE FALSE
    OBVIOUS
  <2>1. At(o, "register") /\ \E i \in DOMAIN exts : exts[i].sender = run[o].sender
    BY Zenon DEF RegisterFails
  <2> QED
    BY <1>1, <2>1 DEF Ready, OfSender
<1>4. ~StartFails(o)
  <2> SUFFICES ASSUME StartFails(o) PROVE FALSE
    OBVIOUS
  <2>1. At(o, "start") /\ ~Startable
    BY Zenon DEF StartFails
  <2> QED
    BY <1>1, <2>1 DEF Ready, Written, Startable
<1>5. ~PostBuildFails(o)
  <2> SUFFICES ASSUME PostBuildFails(o) PROVE FALSE
    OBVIOUS
  <2>1. ASSUME step \in {"version", "governance", "machine"}
        PROVE  /\ node.up /\ node.ext = file.ext /\ exts[node.ext].by = key /\ key \in exts[node.ext].owners
               /\ node.governance = dotenv
    BY <2>1 DEF Ready, Written, NodeServesFile
  <2>2. step = "machine" => exts[node.ext].version /\ exts[node.ext].governance = dotenv
    BY <2>1 DEF Ready
  <2>3. \/ At(o, "version") /\ ~(node.up /\ OwnsNodesExt)
        \/ At(o, "governance") /\ ~(node.up /\ OwnsNodesExt)
        \/ At(o, "machine") /\ ~MachineAccepted
    BY Zenon DEF PostBuildFails
  <2> QED
    BY <1>1, <2>1, <2>2, <2>3 DEF OwnsNodesExt, MachineAccepted
<1>6. ~SetExtensionIdFails(o)
  <2> SUFFICES ASSUME SetExtensionIdFails(o) PROVE FALSE
    OBVIOUS
  <2>1. At(o, "bind") /\ ~(file.sender \in Senders /\ OfSender(file.sender) # {})
    BY Zenon DEF SetExtensionIdFails
  <2> QED
    BY <1>1, <2>1 DEF Ready, Written
<1>7. SendFails(o) => At(o, "send")
  BY Zenon DEF SendFails
<1> QED
  BY <1>2, <1>3, <1>4, <1>5, <1>6, <1>7

\* The steps that go through.
LEMMA CalmStepEnds ==
  ASSUME TypeOK, NEW o \in Operators, run[o] \in RunRecord, run[o].todo # <<>>, OrderedScript(run[o]),
         run[o].full, ~Fault, run'[o].todo = <<>>,
         \/ Deploy(o) \/ Register(o) \/ Allow(o) \/ Write(o) \/ Start(o) \/ Stop(o)
         \/ AllowTeeVersion(o) \/ SetTeeGovernance(o) \/ RegisterTee(o) \/ SetExtensionId(o) \/ Send(o)
  PROVE  At(o, "send")
<1>1. At(o, "send") <=> Head(run[o].todo) = "send"
  BY DEF At
<1>2. CASE Allow(o) \/ Start(o) \/ Stop(o) \/ AllowTeeVersion(o) \/ SetTeeGovernance(o) \/ RegisterTee(o) \/ Send(o)
  <2>1. Done(o, run[o])
    BY <1>2, Zenon DEF Allow, Start, Stop, AllowTeeVersion, SetTeeGovernance, RegisterTee, Send, Transact
  <2>2. "todo" \in DOMAIN run[o]
    BY DEF RunRecord
  <2> QED
    BY <1>1, <2>1, <2>2, EndsWithTest
<1>3. CASE Deploy(o)
  <2> DEFINE n == Len(bound')
             q == [run[o] EXCEPT !.sender = n]
  <2>1. Done(o, q)
    BY <1>3, Zenon DEF Deploy
  <2> HIDE DEF n
  <2>2. "todo" \in DOMAIN q /\ q.todo = run[o].todo
    BY DEF RunRecord
  <2> HIDE DEF q
  <2> QED
    BY <1>1, <2>1, <2>2, EndsWithTest
<1>4. CASE Register(o)
  <2> DEFINE n == Len(exts')
             q == [run[o] EXCEPT !.ext = n, !.key = key]
  <2>1. Done(o, q)
    BY <1>4, Zenon DEF Register
  <2> HIDE DEF n
  <2>2. "todo" \in DOMAIN q /\ q.todo = run[o].todo
    BY DEF RunRecord
  <2> HIDE DEF q
  <2> QED
    BY <1>1, <2>1, <2>2, EndsWithTest
<1>5. CASE Write(o)
  <2> DEFINE q == [Idle EXCEPT !.full = run[o].full, !.todo = run[o].todo, !.calm = run[o].calm]
  <2>1. Done(o, q)
    BY <1>5, Zenon DEF Write
  <2>2. "todo" \in DOMAIN q /\ q.todo = run[o].todo
    BY DEF Idle
  <2> HIDE DEF q
  <2> QED
    BY <1>1, <2>1, <2>2, EndsWithTest
<1>6. CASE SetExtensionId(o)
  <2> DEFINE s == file.sender
             q == [run[o] EXCEPT !.sender = s]
  <2>1. Done(o, q)
    BY <1>6, Zenon DEF SetExtensionId
  <2> HIDE DEF s
  <2>2. "todo" \in DOMAIN q /\ q.todo = run[o].todo
    BY DEF RunRecord
  <2> HIDE DEF q
  <2> QED
    BY <1>1, <2>1, <2>2, EndsWithTest
<1> QED
  BY <1>2, <1>3, <1>4, <1>5, <1>6

\* A step that ends a full-setup which nothing has disturbed is its test, unless it
\* is a fault.
LEMMA CalmSetupEnds ==
  ASSUME DeploymentInv, ScriptInv, NEW o \in Operators, NEW p \in Operators, Work(p),
         run[o].full, run[o].todo # <<>>, run[o].calm, Configured, run'[o].todo = <<>>, faults' = faults
  PROVE  At(o, "send") /\ \E m \in Machines(run[o].sender) : Answers(m)
<1> DEFINE step == Head(run[o].todo)
<1>1. /\ TypeOK /\ run[o] \in RunRecord /\ OrderedScript(run[o])
      /\ Ready(step, run[o]) /\ At(o, step)
  BY TypeParts DEF DeploymentInv, ScriptInv, CalmSetup, At
<1>2. ~Fault
  BY <1>1, TypeParts DEF Fault
<1>3. p = o
  <2> SUFFICES ASSUME p # o PROVE FALSE
    OBVIOUS
  <2>1. PICK q : Becomes(p, q)
    BY WorkBecomes
  <2>2. run'[o].todo = run[o].todo
    BY <1>1, <2>1, DisturbedFields DEF Becomes
  <2> QED
    BY <2>2
<1>4. step \notin PauseSteps
  BY <1>1, PauseAhead
<1>5. At(o, "send")
  <2>1. CASE \/ DeployFails(o) \/ RegisterFails(o) \/ StartFails(o) \/ PostBuildFails(o)
             \/ SetExtensionIdFails(o) \/ SendFails(o)
    BY <1>1, <1>2, <2>1, CalmStepFails
  <2>2. CASE \/ Deploy(o) \/ Register(o) \/ Allow(o) \/ Write(o) \/ Start(o) \/ Stop(o)
             \/ AllowTeeVersion(o) \/ SetTeeGovernance(o) \/ RegisterTee(o) \/ SetExtensionId(o) \/ Send(o)
    BY <1>1, <1>2, <2>2, CalmStepEnds
  <2>3. CASE Look(o) \/ LookFails(o) \/ List(o) \/ \E tee \in run[o].stale : Pause(o, tee)
    <3>1. At(o, "look") \/ At(o, "list") \/ At(o, "pause")
      BY <2>3, Zenon DEF Look, LookFails, List, Pause
    <3> QED
      BY <1>4, <3>1 DEF At, PauseSteps
  <2> QED
    BY <1>3, <2>1, <2>2, <2>3, Zenon DEF Work
<1>6. Ready("send", run[o])
  BY <1>1, <1>5 DEF At
<1> QED
  BY <1>5, <1>6, TestCanPass

\* Whatever the scripts before it have left behind, whatever fails or interleaves
\* elsewhere, a full-setup in a configured docker setup that nothing disturbs ends
\* with a test that passes (full-setup.sh, post-build.sh, test.sh).
THEOREM CalmSetupsSucceed == Spec => CalmSetupSucceeds
<1>1. ASSUME DeploymentInv, ScriptInv, [Next]_vars, NEW o \in Operators,
             run[o].full, run[o].todo # <<>>, run[o].calm, mode = "docker", dotenv # "nothing",
             run'[o].todo = <<>>, faults' = faults
      PROVE  At(o, "send") /\ \E m \in Machines(run[o].sender) : Answers(m)
  <2>1. TypeOK /\ run[o] \in RunRecord /\ Configured
    BY <1>1, TypeParts DEF DeploymentInv, Configured
  <2>2. ~Fault
    BY <1>1, <2>1, TypeParts DEF Fault
  <2>3. ~(Crash \/ EditFile \/ SwapKey)
    BY <2>2, Zenon DEF Crash, EditFile, SwapKey
  <2>4. ASSUME NEW p \in Operators, NEW plan \in Names, Begin(p, plan) PROVE FALSE
    <3>1. PICK s \in IF plan = "hand" THEN Senders ELSE {0} :
            run' = [run EXCEPT ![p] = [Idle EXCEPT !.full = (plan = "setup"), !.todo = Plans[plan], !.sender = s]]
      BY <2>4, Zenon DEF Begin
    <3>2. p # o
      BY <1>1, <2>4, Zenon DEF Begin
    <3>3. run'[o] = run[o]
      BY <2>1, <3>1, <3>2, TypeParts
    <3> QED
      BY <1>1, <3>3
  <2>5. ~UNCHANGED vars
    BY <1>1 DEF vars
  <2>6. PICK p \in Operators : Work(p)
    BY <1>1, <2>3, <2>4, <2>5, Zenon DEF Next
  <2> QED
    BY <1>1, <2>1, <2>6, CalmSetupEnds
<1>2. DeploymentInv /\ ScriptInv /\ [Next]_vars =>
        \A o \in Operators :
          /\ run[o].full /\ run[o].todo # <<>> /\ run[o].calm
          /\ mode = "docker" /\ dotenv # "nothing"
          /\ run'[o].todo = <<>> /\ faults' = faults
          => At(o, "send") /\ \E m \in Machines(run[o].sender) : Answers(m)
  BY <1>1, Zenon
<1> QED
  BY <1>2, DeploymentInvariant, ScriptsArePrepared, PTL DEF Spec, CalmSetupSucceeds

\* Only pause-tee takes machines out of production.
LEMMA MachinesStay ==
  ASSUME NEW o \in Operators, Work(o) \/ (\E plan \in Names : Begin(o, plan)),
         ~ \E tee \in run[o].stale : Pause(o, tee)
  PROVE  active \subseteq active'
<1>1. CASE \/ Deploy(o) \/ DeployFails(o) \/ Register(o) \/ RegisterFails(o) \/ Allow(o) \/ Write(o)
           \/ Start(o) \/ StartFails(o) \/ Stop(o) \/ AllowTeeVersion(o) \/ SetTeeGovernance(o)
  <2>1. active' = active
    BY <1>1, Zenon DEF Deploy, DeployFails, Register, RegisterFails, Allow, Write, Start, StartFails, Stop,
                       AllowTeeVersion, SetTeeGovernance, chainVars
  <2> QED
    BY <2>1
<1>2. CASE \/ PostBuildFails(o) \/ SetExtensionId(o) \/ SetExtensionIdFails(o) \/ Send(o) \/ SendFails(o)
           \/ Look(o) \/ LookFails(o) \/ List(o) \/ (\E plan \in Names : Begin(o, plan))
  <2>1. active' = active
    BY <1>2, Zenon DEF PostBuildFails, SetExtensionId, SetExtensionIdFails, Send, SendFails, Look, LookFails,
                       List, Begin, chainVars
  <2> QED
    BY <2>1
<1>3. CASE RegisterTee(o)
  <2>1. \/ active' = active \cup {[tee |-> node.tee, ext |-> node.ext]}
        \/ active' \in {active, active \cup {[tee |-> node.tee, ext |-> node.ext]}}
    BY <1>3, Zenon DEF RegisterTee
  <2> QED
    BY <2>1
<1> QED
  BY <1>1, <1>2, <1>3, Zenon DEF Work

\* A machine that is paused while it runs was taken for a stale one, by a script that
\* knew no current one or has been overtaken.
LEMMA PauseSpares ==
  ASSUME DeploymentInv, ScriptInv, NEW o \in Operators, NEW tee \in run[o].stale, Pause(o, tee),
         NEW m \in active \ active', node.up, m.tee = node.tee
  PROVE  At(o, "pause") /\ m.tee \in run[o].stale /\ (run[o].current = 0 \/ ~run[o].calm)
<1>1. At(o, "pause") /\ (active' = active \/ active' = active \ {x \in active : x.tee = tee})
  BY Zenon DEF Pause
<1>2. m.tee = tee
  BY <1>1
<1>3. CalmPause(run[o]) /\ run[o].todo # <<>> /\ Head(run[o].todo) = "pause"
  BY <1>1 DEF ScriptInv, At
<1>4. run[o].current \notin run[o].stale
  BY <1>3 DEF CalmPause
<1>5. ~(run[o].calm /\ run[o].current # 0)
  <2> SUFFICES ASSUME run[o].calm, run[o].current # 0 PROVE FALSE
    OBVIOUS
  <2>1. node.tee = run[o].current
    BY <1>3 DEF CalmPause
  <2> QED
    BY <1>2, <1>4, <2>1
<1> QED
  BY <1>1, <1>2, <1>5

\* pause-tee stops the machine that runs only when the proxy did not name it, or
\* something has changed since (pause-tee's look, list and pause are three requests).
THEOREM PausesSpareCurrent == Spec => PauseSparesCurrent
<1>1. ASSUME DeploymentInv, ScriptInv, [Next]_vars, NEW m \in active \ active', node.up, m.tee = node.tee
      PROVE  \E o \in Operators : /\ At(o, "pause") /\ m.tee \in run[o].stale
                                  /\ run[o].current = 0 \/ ~run[o].calm
  <2>1. ~(Crash \/ EditFile \/ SwapKey) /\ ~UNCHANGED vars
    <3>1. active' # active
      BY <1>1
    <3>2. UNCHANGED vars => active' = active
      BY DEF vars
    <3>3. Crash \/ EditFile \/ SwapKey => active' = active
      BY Zenon DEF Crash, EditFile, SwapKey, chainVars
    <3> QED
      BY <3>1, <3>2, <3>3
  <2>2. PICK o \in Operators : Work(o) \/ \E plan \in Names : Begin(o, plan)
    BY <1>1, <2>1, Zenon DEF Next
  <2>3. PICK tee \in run[o].stale : Pause(o, tee)
    <3>1. ~(active \subseteq active')
      BY <1>1
    <3> QED
      BY <2>2, <3>1, MachinesStay
  <2> QED
    BY <1>1, <2>3, PauseSpares
<1>2. DeploymentInv /\ ScriptInv /\ [Next]_vars =>
        \A m \in active \ active' :
          node.up /\ m.tee = node.tee =>
            \E o \in Operators : /\ At(o, "pause") /\ m.tee \in run[o].stale
                                 /\ run[o].current = 0 \/ ~run[o].calm
  BY <1>1, Zenon
<1> QED
  BY <1>2, DeploymentInvariant, ScriptsArePrepared, PTL DEF Spec, PauseSparesCurrent
=============================================================================
