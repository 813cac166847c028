----------------------------- MODULE InfraProof -----------------------------
(***************************************************************************)
(* For every value of the constants and all three providers, whatever      *)
(* calls fail and wherever commands stop: data stays on its volumes, since *)
(* the calls a command has still to make never come to more than it may    *)
(* remove; a destroy that reports no error has destroyed all of it, since  *)
(* what is live keeps a call to come; and nothing is installed, attached   *)
(* or mounted where no server is, since such a call reaches it first.      *)
(***************************************************************************)
EXTENDS InfraProperties, TLAPS, FiniteSetTheorems, SequenceTheorems, WellFoundedInduction,
        FunctionTheorems

----------------------------------------------------------------------------
(***************************************************************************)
(* Sequences of calls put together.                                        *)
(***************************************************************************)
LEMMA Least ==
    ASSUME NEW T, T \subseteq Nat, T # {}
    PROVE  \E i \in T : \A j \in T : i <= j
  <1>1. PICK i \in T : \A j \in T : <<j, i>> \notin OpToRel(<, Nat)
    BY NatLessThanWellFounded, WFMin, Zenon
  <1>2. \A j \in T : ~ (j < i)
    BY <1>1, Zenon DEF OpToRel
  <1>. QED
    BY <1>2

Joins(ss, f, k) ==
    f = [i \in 1..k |-> IF i = 1 THEN ss[i] ELSE f[i - 1] \o ss[i]]

\* The recursive function by which FlattenSeq is defined exists.
LEMMA JoinsExists ==
    ASSUME NEW ss, NEW n \in Nat
    PROVE  \E f : Joins(ss, f, n)
  <1>. DEFINE T == {k \in Nat : ~ \E f : Joins(ss, f, k)}
  <1>1. SUFFICES T = {}
    OBVIOUS
  <1>2. SUFFICES ASSUME T # {} PROVE FALSE
    OBVIOUS
  <1>3. PICK k \in T : \A j \in T : k <= j
    BY <1>2, Least, Zenon
  <1>4. k # 0
    <2>1. Joins(ss, [i \in 1..0 |-> ss], 0)
      BY DEF Joins
    <2>. QED
      BY <2>1
  <1>5. PICK f : Joins(ss, f, k - 1)
    <2>1. k - 1 \in Nat /\ k - 1 \notin T
      BY <1>3, <1>4
    <2>. QED
      BY <2>1
  <1>. DEFINE g == [i \in 1..k |-> IF i < k THEN f[i]
                                   ELSE IF k = 1 THEN ss[k] ELSE f[k - 1] \o ss[k]]
  <1>6. Joins(ss, g, k)
    <2>1. ASSUME NEW i \in 1..k
          PROVE  g[i] = IF i = 1 THEN ss[i] ELSE g[i - 1] \o ss[i]
      <3>1. CASE i = k
        BY <3>1, <1>4
      <3>2. CASE i # k
        <4>1. i \in 1..(k - 1) /\ g[i] = f[i] /\ (i # 1 => g[i - 1] = f[i - 1])
          BY <3>2
        <4>2. f[i] = IF i = 1 THEN ss[i] ELSE f[i - 1] \o ss[i]
          BY <4>1, <1>5, Zenon DEF Joins
        <4>. QED
          BY <4>1, <4>2
      <3>. QED
        BY <3>1, <3>2
    <2>. HIDE DEF g
    <2>2. g = [i \in 1..k |-> g[i]]
      BY DEF g
    <2>3. g = [i \in 1..k |-> IF i = 1 THEN ss[i] ELSE g[i - 1] \o ss[i]]
      BY <2>1, <2>2, Zenon
    <2>. QED
      BY <2>3, Zenon DEF Joins
  <1>. QED
    BY <1>6, <1>3

\* Its values are sequences over the set that all the pieces are over.
LEMMA JoinsIn ==
    ASSUME NEW P, NEW ss \in Seq(Seq(P)), NEW f, Joins(ss, f, Len(ss))
    PROVE  \A i \in 1..Len(ss) : f[i] \in Seq(P)
  <1>. DEFINE T == {i \in 1..Len(ss) : f[i] \notin Seq(P)}
  <1>1. SUFFICES ASSUME T # {} PROVE FALSE
    BY Zenon
  <1>2. PICK k \in T : \A j \in T : k <= j
    <2>1. T \subseteq Nat
      OBVIOUS
    <2>. HIDE DEF T
    <2>. QED
      BY <1>1, <2>1, Least, Zenon
  <1>3. f[k] = IF k = 1 THEN ss[k] ELSE f[k - 1] \o ss[k]
    BY <1>2, Zenon DEF Joins
  <1>4. ss[k] \in Seq(P)
    BY <1>2
  <1>5. k # 1 => f[k - 1] \in Seq(P)
    <2>. SUFFICES ASSUME k # 1 PROVE k - 1 \notin T /\ k - 1 \in 1..Len(ss)
      OBVIOUS
    <2>. QED
      BY <1>2
  <1>6. f[k] \in Seq(P)
    BY <1>3, <1>4, <1>5
  <1>. QED
    BY <1>2, <1>6

\* So is what it flattens them to.
LEMMA FlattenIn ==
    ASSUME NEW P, NEW ss \in Seq(Seq(P))
    PROVE  FlattenSeq(ss) \in Seq(P)
  <1>1. CASE Len(ss) = 0
    <2>1. ss = <<>>
      BY <1>1
    <2>. QED
      BY <2>1 DEF FlattenSeq
  <1>2. CASE Len(ss) # 0
    <2>. DEFINE F == CHOOSE f : Joins(ss, f, Len(ss))
    <2>1. Joins(ss, F, Len(ss))
      <3>1. Len(ss) \in Nat
        OBVIOUS
      <3>2. \E f : Joins(ss, f, Len(ss))
        BY <3>1, JoinsExists, Zenon
      <3>. QED
        BY <3>2
    <2>2. FlattenSeq(ss) = F[Len(ss)]
      BY <1>2 DEF FlattenSeq, Joins
    <2>. HIDE DEF F
    <2>3. F[Len(ss)] \in Seq(P)
      BY <1>2, <2>1, JoinsIn
    <2>. QED
      BY <2>2, <2>3
  <1>. QED
    BY <1>1, <1>2

\* A finite set as a list; the provider modules have a copy each of the operator.
LEMMA Listed ==
    ASSUME NEW Z, IsFiniteSet(Z)
    PROVE  /\ SetToSeq(Z) \in Seq(Z) /\ H!SetToSeq(Z) \in Seq(Z)
           /\ A!SetToSeq(Z) \in Seq(Z) /\ S!SetToSeq(Z) \in Seq(Z)
  <1>1. PICK f \in Bijection(1..Cardinality(Z), Z) : TRUE
    BY FS_CardinalityType DEF ExistsBijection
  <1>2. f \in [1..Cardinality(Z) -> Z] /\ IsInjective(f)
    BY <1>1 DEF Bijection, Injection
  <1>3. /\ H!Cardinality(Z) = Cardinality(Z) /\ A!Cardinality(Z) = Cardinality(Z)
        /\ S!Cardinality(Z) = Cardinality(Z) /\ Cardinality(Z) \in Nat
    BY FS_CardinalityType, Zenon DEF H!Cardinality, A!Cardinality, S!Cardinality, Cardinality
  <1>4. SetToSeq(Z) \in [1..Cardinality(Z) -> Z]
    BY <1>2 DEF SetToSeq
  <1>5. H!IsInjective(f) /\ A!IsInjective(f) /\ S!IsInjective(f)
    BY <1>2 DEF IsInjective, H!IsInjective, A!IsInjective, S!IsInjective
  <1>6. H!SetToSeq(Z) \in [1..Cardinality(Z) -> Z]
    BY <1>2, <1>3, <1>5 DEF H!SetToSeq
  <1>7. A!SetToSeq(Z) \in [1..Cardinality(Z) -> Z]
    BY <1>2, <1>3, <1>5 DEF A!SetToSeq
  <1>8. S!SetToSeq(Z) \in [1..Cardinality(Z) -> Z]
    BY <1>2, <1>3, <1>5 DEF S!SetToSeq
  <1>9. \A n \in Nat : [1..n -> Z] \subseteq Seq(Z)
    OBVIOUS
  <1>10. [1..Cardinality(Z) -> Z] \subseteq Seq(Z)
    BY <1>3, <1>9
  <1>. QED
    BY <1>4, <1>6, <1>7, <1>8, <1>10

\* Their copies of FlattenSeq are the same.
LEMMA SameFlatten ==
    ASSUME NEW ss
    PROVE  /\ H!FlattenSeq(ss) = FlattenSeq(ss) /\ A!FlattenSeq(ss) = FlattenSeq(ss)
           /\ S!FlattenSeq(ss) = FlattenSeq(ss)
  BY DEF H!FlattenSeq, A!FlattenSeq, S!FlattenSeq, FlattenSeq

\* One sequence of calls per element of a list.
LEMMA EachIn ==
    ASSUME NEW P, NEW Z, NEW q \in Seq(Z), NEW ss \in [DOMAIN q -> Seq(P)]
    PROVE  /\ FlattenSeq(ss) \in Seq(P) /\ H!FlattenSeq(ss) \in Seq(P)
           /\ A!FlattenSeq(ss) \in Seq(P) /\ S!FlattenSeq(ss) \in Seq(P)
  <1>1. ss \in Seq(Seq(P))
    <2>1. DOMAIN q = 1..Len(q) /\ Len(q) \in Nat
      OBVIOUS
    <2>. QED
      BY <2>1
  <1>2. FlattenSeq(ss) \in Seq(P)
    BY <1>1, FlattenIn
  <1>. QED
    BY <1>2, SameFlatten

\* Calls and calls again.
LEMMA Joined ==
    ASSUME NEW P, NEW p \in Seq(P), NEW q \in Seq(P)
    PROVE  p \o q \in Seq(P)
  OBVIOUS

LEMMA SevenJoined ==
    ASSUME NEW P, NEW p1 \in Seq(P), NEW p2 \in Seq(P), NEW p3 \in Seq(P), NEW p4 \in Seq(P),
           NEW p5 \in Seq(P), NEW p6 \in Seq(P), NEW p7 \in Seq(P)
    PROVE  p1 \o p2 \o p3 \o p4 \o p5 \o p6 \o p7 \in Seq(P)
  <1>1. p1 \o p2 \o p3 \in Seq(P)
    BY Joined, Zenon
  <1>2. p1 \o p2 \o p3 \o p4 \o p5 \in Seq(P)
    BY <1>1, Joined, Zenon
  <1>. QED
    BY <1>2, Joined, Zenon

LEMMA NoCalls ==
    ASSUME NEW P
    PROVE  <<>> \in Seq(P)
  OBVIOUS

LEMMA OneCall ==
    ASSUME NEW P, NEW a \in P
    PROVE  <<a>> \in Seq(P)
  OBVIOUS

LEMMA TwoCalls ==
    ASSUME NEW P, NEW a \in P, NEW b \in P
    PROVE  <<a, b>> \in Seq(P)
  OBVIOUS

LEMMA ThreeCalls ==
    ASSUME NEW P, NEW a \in P, NEW b \in P, NEW c \in P
    PROVE  <<a, b, c>> \in Seq(P)
  OBVIOUS

LEMMA FourCalls ==
    ASSUME NEW P, NEW a \in P, NEW b \in P, NEW c \in P, NEW d \in P
    PROVE  <<a, b, c, d>> \in Seq(P)
  OBVIOUS

LEMMA FiveCalls ==
    ASSUME NEW P, NEW a \in P, NEW b \in P, NEW c \in P, NEW d \in P, NEW e \in P
    PROVE  <<a, b, c, d, e>> \in Seq(P)
  OBVIOUS

----------------------------------------------------------------------------
(***************************************************************************)
(* Calls, and those a command may come to.                                 *)
(***************************************************************************)
PlainOps == {"ProvisionBuilders", "Bootstrap", "Connect", "FindMaster", "DeleteNetwork",
             "DropNetwork", "StripNetwork", "try", "collect", "warn", "Fail"}
DeployOps == {"Plan", "TeardownOrphans"}
ServerOps == {"PrivateIP", "Reach", "Tunnel", "Join", "InstallMaster", "Label",
              "RemoveServer", "DestroyServer"}
MountOps == {"EnsureVolume", "MountVolume", "UnmountVolume", "Mount", "WriteFstab",
             "Unmount", "EraseFstab"}
Removing == {"RemoveVolume", "DeleteVolume", "DropVolume"}
RuleOps == {"CreateFirewall", "ReplaceRules", "AddRules", "RevokeRules", "ReconcileRules"}

Calls ==
    ((PlainOps \cup DeployOps) \X {""} \X {""})
    \cup ({"Done"} \X {"unchanged", "deployed", "destroyed"} \X {""})
    \cup (ServerOps \X Servers \X {""})
    \cup ({"EnsureServer", "LaunchServer", "BareServer"} \X Servers \X Roles)
    \cup ({"Protect"} \X Servers \X (Roles \cup {"none"}))
    \cup ({"FinishPart"} \X Servers \X (Parts \cup {"docker"}))
    \cup ({"DropFirewall"} \X Roles \X {""})
    \cup (RuleOps \X Roles \X SUBSET Rules)
    \cup ({"SweepFirewalls"} \X (SUBSET Roles) \X {""})
    \cup ({"CreateNetwork"} \X (SUBSET Networking) \X {""})
    \cup ((Removing \cup {"Format"}) \X AllVolumes \X {""})
    \cup (MountOps \X AllVolumes \X Servers)
    \cup ({"AttachVolume"} \X AllVolumes \X (Servers \cup {"none"}))
    \cup ({"CreateVolume"} \X AllVolumes \X {"blank", "empty"})

\* What is written to a new disk, next.
Writing == {"Format", "CreateVolume"}

\* A command named k may remove volume v.
MayRemove(k, v) == (k = "deploy" /\ v \notin DesiredVolumes) \/ k = "destroy volumes"

Permitted(k, c) ==
    /\ c[1] \in DeployOps => k = "deploy"
    /\ (c[1] \in Removing /\ c[2] \in Volumes) => MayRemove(k, c[2])

\* A command ends with one of these calls, and has none of them before.
Closings == {"Plan", "Done"}
Endings(k) ==
    IF k = "deploy" THEN {<<"Plan", "", "">>, <<"Done", "unchanged", "">>, <<"Done", "deployed", "">>}
    ELSE {<<"Done", "destroyed", "">>}

\* The calls that may stand anywhere among those a command named k has still
\* to make before the last, and those it may come to next.
Later(k) == {c \in Calls : c[1] \notin Writing \cup Closings /\ Permitted(k, c)}

First(k) ==
    Later(k)
    \cup {c \in Calls : c[1] = "Format" /\ (c[2] \in DOMAIN volumes => volumes[c[2]].disk = "blank")}
    \cup {c \in Calls : c[1] = "CreateVolume" /\ c[2] \notin DOMAIN volumes}

\* Calls that take something away.
Clearing == {"TeardownOrphans", "RemoveServer", "DestroyServer", "SweepFirewalls", "RemoveVolume",
             "DeleteVolume", "DropVolume", "UnmountVolume", "DeleteNetwork", "DropNetwork",
             "StripNetwork"}

\* Call c is made on server s, which has to be there.
Needs(c, s) ==
    \/ c[1] \in {"Join", "InstallMaster"} /\ c[2] = s
    \/ c[1] \in {"MountVolume", "Mount", "WriteFstab"} /\ c[3] = s
    \/ c[1] = "AttachVolume" /\ c[3] = s /\ s # "none"

\* Calls that take nothing away and need no server.
Free == {c \in Calls : c[1] \notin Writing \cup Closings \cup Clearing /\ \A s : ~ Needs(c, s)}

Program(k, calls) ==
    /\ calls \in Seq(Calls)
    /\ calls # <<>> => Head(calls) \in First(k) /\ Tail(calls) \in Seq(Later(k))

\* All that a command named k has still to do.
Complete(k, calls) ==
    /\ calls \in Seq(Calls) /\ calls # <<>>
    /\ calls[Len(calls)] \in Endings(k)
    /\ Len(calls) > 1 => calls[1] \in First(k)
    /\ \A i \in 2..(Len(calls) - 1) : calls[i] \in Later(k)

\* What is live, and what the running command has still to do to it.
Live ==
    /\ cfg \in Configs
    /\ DOMAIN servers \subseteq Servers
    /\ \A s \in DOMAIN servers : servers[s].fw \in Roles \cup {"none"}
    /\ DOMAIN firewalls \subseteq Roles
    /\ \A f \in DOMAIN firewalls : firewalls[f] \subseteq Rules
    /\ DOMAIN volumes \subseteq AllVolumes
    /\ \A v \in DOMAIN volumes :
          volumes[v] \in [at : Servers \cup {"none"}, disk : {"blank", "empty", "data"}]

USE DEF Call, H!Call, A!Call, S!Call

\* Which calls may stand anywhere in a command.
LEMMA LaterCalls ==
    ASSUME NEW k
    PROVE  /\ \A op \in PlainOps : <<op, "", "">> \in Later(k)
           /\ k = "deploy" => <<"TeardownOrphans", "", "">> \in Later(k)
           /\ \A op \in ServerOps, s \in Servers : <<op, s, "">> \in Later(k)
           /\ \A op \in {"EnsureServer", "LaunchServer", "BareServer"}, s \in Servers, r \in Roles :
                 <<op, s, r>> \in Later(k)
           /\ \A s \in Servers, f \in Roles \cup {"none"} : <<"Protect", s, f>> \in Later(k)
           /\ \A s \in Servers, p \in Parts \cup {"docker"} : <<"FinishPart", s, p>> \in Later(k)
           /\ \A f \in Roles : <<"DropFirewall", f, "">> \in Later(k)
           /\ \A op \in RuleOps, f \in Roles, rules \in SUBSET Rules : <<op, f, rules>> \in Later(k)
           /\ \A fs \in SUBSET Roles : <<"SweepFirewalls", fs, "">> \in Later(k)
           /\ \A ps \in SUBSET Networking : <<"CreateNetwork", ps, "">> \in Later(k)
           /\ \A op \in Removing, v \in AllVolumes :
                 (v \in Volumes => MayRemove(k, v)) => <<op, v, "">> \in Later(k)
           /\ \A op \in MountOps, v \in AllVolumes, s \in Servers : <<op, v, s>> \in Later(k)
           /\ \A v \in AllVolumes, s \in Servers \cup {"none"} : <<"AttachVolume", v, s>> \in Later(k)
  <1>1. \A op \in PlainOps : <<op, "", "">> \in Later(k)
    <2>. SUFFICES ASSUME NEW op \in PlainOps
                  PROVE  <<op, "", "">> \in Later(k)
      BY Zenon
    <2>1. op \notin Writing /\ op \notin Closings /\ op \notin DeployOps
          /\ op \notin Removing
      BY DEF PlainOps, Writing, Closings, DeployOps, Removing
    <2>2. <<op, "", "">> \in Calls
      BY Zenon DEF Calls
    <2>. QED
      BY <2>1, <2>2, Zenon DEF Later, Permitted
  <1>2. k = "deploy" => <<"TeardownOrphans", "", "">> \in Later(k)
    BY Zenon DEF Later, Closings, Calls, Permitted, Writing, PlainOps, DeployOps, ServerOps,
                 RuleOps, Removing, MountOps
  <1>3. \A op \in ServerOps, s \in Servers : <<op, s, "">> \in Later(k)
    BY Zenon DEF Later, Closings, Calls, Permitted, Writing, PlainOps, DeployOps, ServerOps,
                 RuleOps, Removing, MountOps
  <1>4. \A op \in {"EnsureServer", "LaunchServer", "BareServer"}, s \in Servers, r \in Roles : <<op, s, r>> \in Later(k)
    BY Zenon DEF Later, Closings, Calls, Permitted, Writing, PlainOps, DeployOps, ServerOps,
                 RuleOps, Removing, MountOps
  <1>5. \A s \in Servers, f \in Roles \cup {"none"} : <<"Protect", s, f>> \in Later(k)
    BY Zenon DEF Later, Closings, Calls, Permitted, Writing, PlainOps, DeployOps, ServerOps,
                 RuleOps, Removing, MountOps
  <1>6. \A s \in Servers, p \in Parts \cup {"docker"} : <<"FinishPart", s, p>> \in Later(k)
    BY Zenon DEF Later, Closings, Calls, Permitted, Writing, PlainOps, DeployOps, ServerOps,
                 RuleOps, Removing, MountOps
  <1>7. \A f \in Roles : <<"DropFirewall", f, "">> \in Later(k)
    BY Zenon DEF Later, Closings, Calls, Permitted, Writing, PlainOps, DeployOps, ServerOps,
                 RuleOps, Removing, MountOps
  <1>8. \A op \in RuleOps, f \in Roles, rules \in SUBSET Rules : <<op, f, rules>> \in Later(k)
    BY Zenon DEF Later, Closings, Calls, Permitted, Writing, PlainOps, DeployOps, ServerOps,
                 RuleOps, Removing, MountOps
  <1>9. \A fs \in SUBSET Roles : <<"SweepFirewalls", fs, "">> \in Later(k)
    BY Zenon DEF Later, Closings, Calls, Permitted, Writing, PlainOps, DeployOps, ServerOps,
                 RuleOps, Removing, MountOps
  <1>10. \A ps \in SUBSET Networking : <<"CreateNetwork", ps, "">> \in Later(k)
    BY Zenon DEF Later, Closings, Calls, Permitted, Writing, PlainOps, DeployOps, ServerOps,
                 RuleOps, Removing, MountOps
  <1>11. \A op \in Removing, v \in AllVolumes : (v \in Volumes => MayRemove(k, v)) => <<op, v, "">> \in Later(k)
    BY Zenon DEF Later, Closings, Calls, Permitted, Writing, PlainOps, DeployOps, ServerOps,
                 RuleOps, Removing, MountOps
  <1>12. \A op \in MountOps, v \in AllVolumes, s \in Servers : <<op, v, s>> \in Later(k)
    BY Zenon DEF Later, Closings, Calls, Permitted, Writing, PlainOps, DeployOps, ServerOps,
                 RuleOps, Removing, MountOps
  <1>13. \A v \in AllVolumes, s \in Servers \cup {"none"} : <<"AttachVolume", v, s>> \in Later(k)
    BY Zenon DEF Later, Closings, Calls, Permitted, Writing, PlainOps, DeployOps, ServerOps,
                 RuleOps, Removing, MountOps
  <1>. QED
    BY <1>1, <1>2, <1>3, <1>4, <1>5, <1>6, <1>7, <1>8, <1>9, <1>10, <1>11, <1>12, <1>13, Zenon

\* Those among them that are free.
LEMMA FreeCalls ==
    /\ \A op \in {"ProvisionBuilders", "Bootstrap", "Connect", "FindMaster", "try", "collect", "warn",
                  "Fail"} : <<op, "", "">> \in Free
    /\ \A op \in {"PrivateIP", "Reach", "Tunnel", "Label"}, s \in Servers : <<op, s, "">> \in Free
    /\ \A op \in {"EnsureServer", "LaunchServer", "BareServer"}, s \in Servers, r \in Roles :
          <<op, s, r>> \in Free
    /\ \A s \in Servers, f \in Roles \cup {"none"} : <<"Protect", s, f>> \in Free
    /\ \A s \in Servers, p \in Parts \cup {"docker"} : <<"FinishPart", s, p>> \in Free
    /\ \A op \in RuleOps, f \in Roles, rules \in SUBSET Rules : <<op, f, rules>> \in Free
    /\ \A ps \in SUBSET Networking : <<"CreateNetwork", ps, "">> \in Free
    /\ \A v \in AllVolumes, s \in Servers : <<"EnsureVolume", v, s>> \in Free
    /\ \A v \in AllVolumes : <<"AttachVolume", v, "none">> \in Free
  <1>1. \A c \in Calls : c[1] \notin Writing \cup Closings \cup Clearing
            /\ c[1] \notin {"Join", "InstallMaster", "MountVolume", "Mount", "WriteFstab", "AttachVolume"}
            => c \in Free
    BY Zenon DEF Free, Needs
  <1>2. ASSUME NEW op \in {"ProvisionBuilders", "Bootstrap", "Connect", "FindMaster", "try", "collect",
                           "warn", "Fail"}
        PROVE  <<op, "", "">> \in Free
    <2>1. <<op, "", "">> \in Calls
      BY Zenon DEF Calls, PlainOps
    <2>. QED
      BY <1>1, <2>1 DEF Writing, Closings, Clearing
  <1>3. ASSUME NEW op \in {"PrivateIP", "Reach", "Tunnel", "Label"}, NEW s \in Servers
        PROVE  <<op, s, "">> \in Free
    <2>1. <<op, s, "">> \in Calls
      BY Zenon DEF Calls, ServerOps
    <2>. QED
      BY <1>1, <2>1 DEF Writing, Closings, Clearing
  <1>4. ASSUME NEW op \in {"EnsureServer", "LaunchServer", "BareServer"}, NEW s \in Servers, NEW r \in Roles
        PROVE  <<op, s, r>> \in Free
    <2>1. <<op, s, r>> \in Calls
      BY Zenon DEF Calls
    <2>. QED
      BY <1>1, <2>1 DEF Writing, Closings, Clearing
  <1>5. ASSUME NEW s \in Servers, NEW f \in Roles \cup {"none"}
        PROVE  <<"Protect", s, f>> \in Free
    <2>1. <<"Protect", s, f>> \in Calls
      BY Zenon DEF Calls
    <2>. QED
      BY <1>1, <2>1 DEF Writing, Closings, Clearing
  <1>6. ASSUME NEW s \in Servers, NEW p \in Parts \cup {"docker"}
        PROVE  <<"FinishPart", s, p>> \in Free
    <2>1. <<"FinishPart", s, p>> \in Calls
      BY Zenon DEF Calls
    <2>. QED
      BY <1>1, <2>1 DEF Writing, Closings, Clearing
  <1>7. ASSUME NEW op \in RuleOps, NEW f \in Roles, NEW rules \in SUBSET Rules
        PROVE  <<op, f, rules>> \in Free
    <2>1. <<op, f, rules>> \in Calls
      BY Zenon DEF Calls
    <2>. QED
      BY <1>1, <2>1 DEF Writing, Closings, Clearing, RuleOps
  <1>8. ASSUME NEW ps \in SUBSET Networking
        PROVE  <<"CreateNetwork", ps, "">> \in Free
    <2>1. <<"CreateNetwork", ps, "">> \in Calls
      BY Zenon DEF Calls
    <2>. QED
      BY <1>1, <2>1 DEF Writing, Closings, Clearing
  <1>9. ASSUME NEW v \in AllVolumes, NEW s \in Servers
        PROVE  <<"EnsureVolume", v, s>> \in Free
    <2>1. <<"EnsureVolume", v, s>> \in Calls
      BY Zenon DEF Calls, MountOps
    <2>. QED
      BY <1>1, <2>1 DEF Writing, Closings, Clearing
  <1>10. ASSUME NEW v \in AllVolumes
         PROVE  <<"AttachVolume", v, "none">> \in Free
    <2>1. <<"AttachVolume", v, "none">> \in Calls
      BY Zenon DEF Calls
    <2>. QED
      BY <2>1 DEF Free, Needs, Writing, Closings, Clearing
  <1>. QED
    BY <1>2, <1>3, <1>4, <1>5, <1>6, <1>7, <1>8, <1>9, <1>10, Zenon

LEMMA FreeIsLater ==
    ASSUME NEW k
    PROVE  Free \subseteq Later(k) /\ Seq(Free) \subseteq Seq(Later(k))
  <1>1. Free \subseteq Later(k)
    BY DEF Free, Later, Permitted, DeployOps, Closings, Clearing, Removing
  <1>. QED
    BY <1>1, SeqMonotonic

\* And which may come next.
LEMMA FirstCalls ==
    ASSUME NEW k
    PROVE  /\ Later(k) \subseteq First(k)
           /\ \A v \in AllVolumes : (v \in DOMAIN volumes => volumes[v].disk = "blank")
                 => <<"Format", v, "">> \in First(k)
           /\ \A v \in AllVolumes, d \in {"blank", "empty"} : v \notin DOMAIN volumes
                 => <<"CreateVolume", v, d>> \in First(k)
  BY Zenon DEF First, Calls

\* Programs put together.
LEMMA ProgramOfLater ==
    ASSUME NEW k, NEW p \in Seq(Later(k))
    PROVE  Program(k, p)
  <1>1. p # <<>> => Head(p) \in Later(k) /\ Tail(p) \in Seq(Later(k))
    OBVIOUS
  <1>2. p \in Seq(Calls)
    BY DEF Later
  <1>. QED
    BY <1>1, <1>2, FirstCalls, Zenon DEF Program

LEMMA ProgramOfFirst ==
    ASSUME NEW k, NEW c \in First(k), NEW p \in Seq(Later(k))
    PROVE  Program(k, <<c>> \o p)
  <1>1. Head(<<c>> \o p) = c /\ Tail(<<c>> \o p) = p
    OBVIOUS
  <1>2. c \in Calls /\ p \in Seq(Calls)
    BY DEF First, Later
  <1>3. <<c>> \o p \in Seq(Calls)
    BY <1>2, Joined, OneCall
  <1>. QED
    BY <1>1, <1>3, Zenon DEF Program

\* A complete program, its last call behind the others.
LEMMA EndingCalls ==
    ASSUME NEW k, NEW e \in Endings(k)
    PROVE  e \in Calls /\ e[1] \in Closings
  <1>1. /\ <<"Plan", "", "">> \in Calls /\ <<"Done", "unchanged", "">> \in Calls
        /\ <<"Done", "deployed", "">> \in Calls /\ <<"Done", "destroyed", "">> \in Calls
    BY Zenon DEF Calls, DeployOps
  <1>2. \/ e = <<"Plan", "", "">> \/ e = <<"Done", "unchanged", "">>
        \/ e = <<"Done", "deployed", "">> \/ e = <<"Done", "destroyed", "">>
    BY Zenon DEF Endings
  <1>3. /\ <<"Plan", "", "">>[1] = "Plan" /\ <<"Done", "unchanged", "">>[1] = "Done"
        /\ <<"Done", "deployed", "">>[1] = "Done" /\ <<"Done", "destroyed", "">>[1] = "Done"
    OBVIOUS
  <1>. QED
    BY <1>1, <1>2, <1>3, Zenon DEF Closings

LEMMA CompleteOf ==
    ASSUME NEW k, NEW p \in Seq(Later(k)), NEW e \in Endings(k)
    PROVE  Complete(k, p \o <<e>>)
  <1>. DEFINE x == p \o <<e>>
  <1>1. p \in Seq(Calls) /\ e \in Calls
    BY EndingCalls DEF Later
  <1>2. x \in Seq(Calls) /\ Len(x) = Len(p) + 1 /\ x[Len(x)] = e
        /\ \A i \in 1..Len(p) : x[i] = p[i]
    BY <1>1
  <1>3. \A i \in 1..Len(p) : p[i] \in Later(k)
    OBVIOUS
  <1>4. x # <<>> /\ Len(p) \in Nat
    BY <1>2
  <1>. HIDE DEF x
  <1>5. Len(x) > 1 => x[1] \in First(k)
    <2>. SUFFICES ASSUME Len(x) > 1 PROVE x[1] \in First(k)
      OBVIOUS
    <2>1. 1 \in 1..Len(p)
      BY <1>2, <1>4
    <2>2. x[1] \in Later(k)
      BY <1>2, <1>3, <2>1
    <2>. QED
      BY <2>2, FirstCalls
  <1>6. \A i \in 2..(Len(x) - 1) : x[i] \in Later(k)
    BY <1>2, <1>3, <1>4
  <1>. QED
    BY <1>2, <1>4, <1>5, <1>6 DEF Complete, x

\* Calls put in the place of the first one.
LEMMA CompleteInstead ==
    ASSUME NEW k, NEW p, Program(k, p), NEW x, Complete(k, x), Len(x) > 1
    PROVE  Complete(k, p \o Tail(x))
  <1>. DEFINE y == p \o Tail(x)
  <1>1. p \in Seq(Calls) /\ x \in Seq(Calls)
    BY DEF Program, Complete
  <1>2. /\ y \in Seq(Calls) /\ Len(y) = Len(p) + Len(x) - 1
        /\ \A i \in 1..Len(p) : y[i] = p[i]
        /\ \A i \in (Len(p) + 1)..Len(y) : y[i] = x[i - Len(p) + 1]
    BY <1>1
  <1>3. Len(p) \in Nat /\ Len(x) \in Nat
    BY <1>1
  <1>4. /\ Len(p) > 0 => p[1] \in First(k)
        /\ \A i \in 2..Len(p) : p[i] \in Later(k)
    <2>. SUFFICES ASSUME p # <<>>
                  PROVE  p[1] \in First(k) /\ \A i \in 2..Len(p) : p[i] \in Later(k)
      BY <1>1, <1>3
    <2>1. Head(p) \in First(k) /\ Tail(p) \in Seq(Later(k))
      BY DEF Program
    <2>2. \A i \in 2..Len(p) : p[i] = Tail(p)[i - 1] /\ i - 1 \in 1..Len(Tail(p))
      BY <1>1
    <2>. QED
      BY <1>1, <2>1, <2>2
  <1>5. x[Len(x)] \in Endings(k) /\ \A i \in 2..(Len(x) - 1) : x[i] \in Later(k)
    BY DEF Complete
  <1>. HIDE DEF y
  <1>6. y # <<>> /\ y[Len(y)] = x[Len(x)]
    BY <1>2, <1>3
  <1>7. Len(y) > 1 => y[1] \in First(k)
    <2>. SUFFICES ASSUME Len(y) > 1 PROVE y[1] \in First(k)
      OBVIOUS
    <2>1. CASE Len(p) > 0
      <3>1. 1 \in 1..Len(p)
        BY <1>3, <2>1
      <3>. QED
        BY <1>2, <1>4, <2>1, <3>1
    <2>2. CASE Len(p) = 0
      <3>1. y[1] = x[2] /\ 2 \in 2..(Len(x) - 1)
        BY <1>2, <1>3, <2>2
      <3>. QED
        BY <1>5, <3>1, FirstCalls
    <2>. QED
      BY <1>3, <2>1, <2>2
  <1>8. ASSUME NEW i \in 2..(Len(y) - 1)
        PROVE  y[i] \in Later(k)
    <2>1. CASE i <= Len(p)
      BY <1>2, <1>3, <1>4, <2>1
    <2>2. CASE i > Len(p)
      <3>1. y[i] = x[i - Len(p) + 1] /\ i - Len(p) + 1 \in 2..(Len(x) - 1)
        BY <1>2, <1>3, <2>2
      <3>. QED
        BY <1>5, <3>1
    <2>. QED
      BY <1>3, <2>1, <2>2
  <1>. QED
    BY <1>2, <1>5, <1>6, <1>7, <1>8 DEF Complete, y


----------------------------------------------------------------------------
(***************************************************************************)
(* Finite sets, and names of the configuration.                            *)
(***************************************************************************)
LEMMA FiniteSets ==
    /\ IsFiniteSet(Servers) /\ IsFiniteSet(AllVolumes)
    /\ IsFiniteSet(Roles) /\ IsFiniteSet(Rules)
  <1>1. IsFiniteSet(Servers) /\ IsFiniteSet(Volumes)
    BY FiniteAssumption
  <1>2. IsFiniteSet({Cache(s) : s \in Servers})
    <2>. DEFINE f == [s \in Servers |-> Cache(s)]
    <2>1. f \in Surjection(Servers, {Cache(s) : s \in Servers})
      BY DEF Surjection
    <2>. QED
      BY <1>1, <2>1, FS_Surjection
  <1>3. IsFiniteSet(AllVolumes)
    BY <1>1, <1>2, FS_Union, Zenon DEF AllVolumes
  <1>4. IsFiniteSet(Roles)
    <2>1. IsFiniteSet({"master"} \cup {"worker"} \cup {"builder"})
      BY FS_Singleton, FS_Union, Zenon
    <2>2. Roles = {"master"} \cup {"worker"} \cup {"builder"}
      BY DEF Roles
    <2>. QED
      BY <2>1, <2>2
  <1>5. IsFiniteSet(Rules)
    <2>1. IsFiniteSet({"ssh"} \cup {"internal"} \cup {"web"} \cup {"web4"} \cup {"custom"})
      BY FS_Singleton, FS_Union, Zenon
    <2>2. Rules = {"ssh"} \cup {"internal"} \cup {"web"} \cup {"web4"} \cup {"custom"}
      BY DEF Rules, Base
    <2>. QED
      BY <2>1, <2>2
  <1>. QED
    BY <1>1, <1>3, <1>4, <1>5

\* What is live or declared is finite and has the names it should have.
LEMMA LiveSets ==
    ASSUME Live
    PROVE  /\ IsFiniteSet(DOMAIN servers) /\ IsFiniteSet(DOMAIN volumes)
           /\ IsFiniteSet(DOMAIN firewalls)
           /\ \A f \in DOMAIN firewalls : IsFiniteSet(firewalls[f])
           /\ Declared \subseteq Servers /\ IsFiniteSet(Declared)
           /\ DOMAIN cfg.volume \subseteq Volumes /\ IsFiniteSet(DOMAIN cfg.volume)
           /\ \A s \in Declared : cfg.role[s] \in Roles
           /\ \A v \in DOMAIN cfg.volume : cfg.volume[v] \in Declared
  BY FiniteSets, FS_Subset, CloudAssumption, FiniteAssumption, Zenon DEF Live, Declared

\* A configuration has a master, so there is a server to be taken for it.
LEMMA MasterIsServer ==
    ASSUME Live
    PROVE  Master \in Servers
  <1>1. \E s \in DOMAIN cfg.role : cfg.role[s] = "master"
    <2>1. Cardinality({s \in DOMAIN cfg.role : cfg.role[s] = "master"}) = 1
      BY CloudAssumption DEF Live
    <2>2. Cardinality({}) = 0
      BY FS_EmptySet
    <2>. QED
      BY <2>1, <2>2
  <1>2. Servers # {}
    BY <1>1, LiveSets DEF Declared
  <1>3. MasterLabelled \subseteq Servers
    BY DEF MasterLabelled, Live
  <1>4. \E m \in Servers : MasterLabelled # {} => m \in MasterLabelled
    BY <1>2, <1>3
  <1>. QED
    BY <1>4 DEF Master

----------------------------------------------------------------------------
(***************************************************************************)
(* What each operation comes to, provider by provider.                     *)
(***************************************************************************)
\* Calls that are free: on servers, plain ones, and calls between two marks.
LEMMA FreeOnServers ==
    ASSUME NEW s \in Servers
    PROVE  /\ \A r \in Roles : /\ <<"EnsureServer", s, r>> \in Free
                             /\ <<"LaunchServer", s, r>> \in Free
                             /\ <<"BareServer", s, r>> \in Free
           /\ \A f \in Roles \cup {"none"} : <<"Protect", s, f>> \in Free
           /\ \A p \in {"userdata", "nic", "power", "docker"} : <<"FinishPart", s, p>> \in Free
           /\ <<"PrivateIP", s, "">> \in Free /\ <<"Reach", s, "">> \in Free
           /\ <<"Tunnel", s, "">> \in Free /\ <<"Label", s, "">> \in Free
  BY FreeCalls, Zenon DEF Parts

LEMMA FreePlain ==
    /\ <<"Fail", "", "">> \in Free /\ <<"try", "", "">> \in Free
    /\ <<"collect", "", "">> \in Free /\ <<"warn", "", "">> \in Free
    /\ <<"Connect", "", "">> \in Free /\ <<"FindMaster", "", "">> \in Free
  BY FreeCalls, Zenon

LEMMA FreeMarked ==
    ASSUME NEW p \in Seq(Free)
    PROVE  H!Warned(p) \in Seq(Free) /\ A!Warned(p) \in Seq(Free) /\ S!Warned(p) \in Seq(Free)
  BY FreePlain, Joined, OneCall, Zenon DEF H!Warned, A!Warned, S!Warned

\* Firewalls and networks.
LEMMA AddEachCalls ==
    ASSUME NEW f \in Roles, NEW rules \in SUBSET Rules
    PROVE  S!AddEach(f, rules) \in Seq(Free)
  <1>1. IsFiniteSet(rules)
    BY FiniteSets, FS_Subset
  <1>2. ASSUME NEW x \in rules
        PROVE  <<Call("AddRules", f, {IF x = "web" THEN "web4" ELSE x})>> \in Seq(Free)
    <2>1. {IF x = "web" THEN "web4" ELSE x} \in SUBSET Rules /\ "AddRules" \in RuleOps
      BY DEF RuleOps, Rules, Base
    <2>2. <<"AddRules", f, {IF x = "web" THEN "web4" ELSE x}>> \in Free
      BY <2>1, FreeCalls, Zenon
    <2>. QED
      BY <2>2
  <1>3. PICK q \in Seq(rules) : q = S!SetToSeq(rules)
    BY <1>1, Listed
  <1>. DEFINE ss == [i \in DOMAIN q |-> <<Call("AddRules", f, {IF q[i] = "web" THEN "web4" ELSE q[i]})>>]
  <1>4. ss \in [DOMAIN q -> Seq(Free)]
    BY <1>2
  <1>5. S!FlattenSeq(ss) \in Seq(Free)
    BY <1>4, EachIn, Zenon
  <1>6. S!AddEach(f, rules) = S!FlattenSeq(ss)
    BY <1>3 DEF S!AddEach, S!Each
  <1>. QED
    BY <1>5, <1>6

LEMMA EnsureFirewallCalls ==
    ASSUME NEW f \in Roles
    PROVE  /\ H!EnsureFirewall(f) \in Seq(Free)
           /\ A!EnsureFirewall(f) \in Seq(Free)
           /\ S!EnsureFirewall(f) \in Seq(Free)
  <1>1. /\ Base \in SUBSET Rules /\ {} \in SUBSET Rules
        /\ <<"CreateFirewall", f, Base>> \in Free /\ <<"CreateFirewall", f, {}>> \in Free
        /\ <<"AddRules", f, Base>> \in Free
    <2>1. "CreateFirewall" \in RuleOps /\ "AddRules" \in RuleOps /\ Base \in SUBSET Rules
      BY DEF RuleOps, Rules
    <2>. QED
      BY <2>1, FreeCalls, Zenon
  <1>2. H!EnsureFirewall(f) \in Seq(Free)
    BY <1>1 DEF H!EnsureFirewall, H!Base, Base
  <1>3. A!EnsureFirewall(f) \in Seq(Free)
    BY <1>1 DEF A!EnsureFirewall, A!Base, Base
  <1>4. S!EnsureFirewall(f) \in Seq(Free)
    <2>1. S!AddEach(f, Base) \in Seq(Free)
      BY <1>1, AddEachCalls
    <2>. QED
      BY <1>1, <2>1 DEF S!EnsureFirewall, S!Base, Base
  <1>. QED
    BY <1>2, <1>3, <1>4

LEMMA EnsureNetworkCalls ==
    /\ H!EnsureNetwork \in Seq(Free)
    /\ A!EnsureNetwork \in Seq(Free)
    /\ S!EnsureNetwork \in Seq(Free)
  <1>1. H!EnsureNetwork \in Seq(Free)
    <2>1. Networking \in SUBSET Networking
      OBVIOUS
    <2>. QED
      BY <2>1, FreeCalls, NoCalls, OneCall, Zenon DEF H!EnsureNetwork, H!Networking, Networking
  <1>2. A!EnsureNetwork \in Seq(Free)
    <2>1. {"vpc"} \in SUBSET Networking /\ {"subnet"} \in SUBSET Networking
          /\ {"route"} \in SUBSET Networking
      BY DEF Networking
    <2>2. /\ <<"CreateNetwork", {"vpc"}, "">> \in Free /\ <<"CreateNetwork", {"subnet"}, "">> \in Free
          /\ <<"CreateNetwork", {"route"}, "">> \in Free
      BY <2>1, FreeCalls, Zenon
    <2>3. <<"Fail", "", "">> \in Free
      BY FreePlain, Zenon
    <2>. QED
      BY <2>2, <2>3, NoCalls, OneCall, ThreeCalls, Zenon DEF A!EnsureNetwork, A!Fail
  <1>3. S!EnsureNetwork \in Seq(Free)
    <2>1. Networking \in SUBSET Networking
      OBVIOUS
    <2>. QED
      BY <2>1, FreeCalls, NoCalls, OneCall, Zenon DEF S!EnsureNetwork, S!Networking, Networking
  <1>. QED
    BY <1>1, <1>2, <1>3

\* Servers.
LEMMA ServerCalls ==
    ASSUME NEW k, NEW s \in Servers
    PROVE  /\ \A r \in Roles : /\ <<"EnsureServer", s, r>> \in Later(k)
                             /\ <<"LaunchServer", s, r>> \in Later(k)
                             /\ <<"BareServer", s, r>> \in Later(k)
           /\ \A f \in Roles \cup {"none"} : <<"Protect", s, f>> \in Later(k)
           /\ \A p \in {"userdata", "nic", "power", "docker"} : <<"FinishPart", s, p>> \in Later(k)
           /\ <<"PrivateIP", s, "">> \in Later(k) /\ <<"Reach", s, "">> \in Later(k)
           /\ <<"Tunnel", s, "">> \in Later(k) /\ <<"Join", s, "">> \in Later(k)
           /\ <<"InstallMaster", s, "">> \in Later(k) /\ <<"Label", s, "">> \in Later(k)
           /\ <<"RemoveServer", s, "">> \in Later(k) /\ <<"DestroyServer", s, "">> \in Later(k)
  BY LaterCalls, Zenon DEF ServerOps, Parts

LEMMA PlainCalls ==
    ASSUME NEW k
    PROVE  /\ <<"Fail", "", "">> \in Later(k) /\ <<"try", "", "">> \in Later(k)
           /\ <<"collect", "", "">> \in Later(k) /\ <<"warn", "", "">> \in Later(k)
           /\ <<"Connect", "", "">> \in Later(k) /\ <<"FindMaster", "", "">> \in Later(k)
           /\ <<"Bootstrap", "", "">> \in Later(k) /\ <<"ProvisionBuilders", "", "">> \in Later(k)
           /\ <<"DeleteNetwork", "", "">> \in Later(k) /\ <<"DropNetwork", "", "">> \in Later(k)
           /\ <<"StripNetwork", "", "">> \in Later(k)
  BY LaterCalls, Zenon DEF PlainOps

\* Calls between two marks.
LEMMA MarkedCalls ==
    ASSUME NEW k, NEW p \in Seq(Later(k))
    PROVE  /\ H!Collected(p) \in Seq(Later(k)) /\ H!Warned(p) \in Seq(Later(k))
           /\ A!Collected(p) \in Seq(Later(k)) /\ A!Warned(p) \in Seq(Later(k))
           /\ S!Collected(p) \in Seq(Later(k)) /\ S!Warned(p) \in Seq(Later(k))
  <1>1. H!Collected(p) \in Seq(Later(k)) /\ H!Warned(p) \in Seq(Later(k))
    BY PlainCalls, Joined, OneCall, Zenon DEF H!Collected, H!Warned
  <1>2. A!Collected(p) \in Seq(Later(k)) /\ A!Warned(p) \in Seq(Later(k))
    BY PlainCalls, Joined, OneCall, Zenon DEF A!Collected, A!Warned
  <1>3. S!Collected(p) \in Seq(Later(k)) /\ S!Warned(p) \in Seq(Later(k))
    BY PlainCalls, Joined, OneCall, Zenon DEF S!Collected, S!Warned
  <1>. QED
    BY <1>1, <1>2, <1>3

LEMMA ReconcileServerFirewallCalls ==
    ASSUME NEW s \in Servers, NEW f \in Roles
    PROVE  /\ H!ReconcileServerFirewall(s, f) \in Seq(Free)
           /\ A!ReconcileServerFirewall(s, f) \in Seq(Free)
           /\ S!ReconcileServerFirewall(s, f) \in Seq(Free)
  <1>1. H!ReconcileServerFirewall(s, f) \in Seq(Free)
    <2>1. <<"Protect", s, "none">> \in Free /\ <<"Protect", s, f>> \in Free
      BY FreeOnServers, Zenon
    <2>. QED
      BY <2>1, EnsureFirewallCalls, Joined, NoCalls, OneCall DEF H!ReconcileServerFirewall
  <1>2. A!ReconcileServerFirewall(s, f) \in Seq(Free)
    BY FreeOnServers, NoCalls, OneCall, Zenon DEF A!ReconcileServerFirewall
  <1>3. S!ReconcileServerFirewall(s, f) \in Seq(Free)
    BY FreeOnServers, NoCalls, OneCall, Zenon DEF S!ReconcileServerFirewall
  <1>. QED
    BY <1>1, <1>2, <1>3

LEMMA EnsureServerCalls ==
    ASSUME NEW s \in Servers, NEW r \in Roles
    PROVE  /\ H!EnsureServer(s, r) \in Seq(Free)
           /\ A!EnsureServer(s, r) \in Seq(Free)
           /\ S!EnsureServer(s, r) \in Seq(Free)
  <1>1. H!EnsureServer(s, r) \in Seq(Free)
    BY FreeOnServers, EnsureFirewallCalls, EnsureNetworkCalls, ReconcileServerFirewallCalls,
       Joined, OneCall, Zenon DEF H!EnsureServer
  <1>2. A!EnsureServer(s, r) \in Seq(Free)
    BY FreeOnServers, EnsureFirewallCalls, EnsureNetworkCalls, ReconcileServerFirewallCalls,
       Joined, OneCall, Zenon DEF A!EnsureServer
  <1>3. S!EnsureServer(s, r) \in Seq(Free)
    <2>1. S!AttachMissingNic(s) \in Seq(Free)
      BY FreeOnServers, FreeMarked, NoCalls, OneCall, Zenon DEF S!AttachMissingNic
    <2>2. S!NewServer(s, r) \in Seq(Free)
      BY FreeOnServers, EnsureFirewallCalls, EnsureNetworkCalls, Joined, FourCalls, Zenon DEF S!NewServer
    <2>. QED
      BY <2>1, <2>2, ReconcileServerFirewallCalls, Joined DEF S!EnsureServer
  <1>. QED
    BY <1>1, <1>2, <1>3

LEMMA ReconcileRulesCalls ==
    ASSUME Live, NEW f \in Roles, NEW rules \in SUBSET Rules
    PROVE  /\ H!ReconcileRules(f, rules) \in Seq(Free)
           /\ A!ReconcileRules(f, rules) \in Seq(Free)
           /\ S!ReconcileRules(f, rules) \in Seq(Free)
  <1>1. H!ReconcileRules(f, rules) \in Seq(Free)
    <2>1. <<"ReplaceRules", f, rules>> \in Free
      BY FreeCalls, Zenon DEF RuleOps
    <2>. QED
      BY <2>1, FreePlain, OneCall, Zenon DEF H!ReconcileRules, H!Fail
  <1>2. A!ReconcileRules(f, rules) \in Seq(Free)
    <2>1. <<"AddRules", f, rules>> \in Free
      BY FreeCalls, Zenon DEF RuleOps
    <2>2. f \in DOMAIN firewalls => <<"RevokeRules", f, firewalls[f]>> \in Free
      <3>1. f \in DOMAIN firewalls => firewalls[f] \in SUBSET Rules
        BY DEF Live
      <3>. QED
        BY <3>1, FreeCalls, Zenon DEF RuleOps
    <2>. QED
      BY <2>1, <2>2, FreePlain, Joined, NoCalls, OneCall, Zenon DEF A!ReconcileRules, A!Fail
  <1>3. S!ReconcileRules(f, rules) \in Seq(Free)
    <2>0. CASE f \in DOMAIN firewalls
      <3>1. ASSUME NEW x \in firewalls[f]
            PROVE  <<Call("RevokeRules", f, {x})>> \in Seq(Free)
        <4>1. {x} \in SUBSET Rules /\ "RevokeRules" \in RuleOps
          BY <2>0 DEF Live, RuleOps
        <4>2. <<"RevokeRules", f, {x}>> \in Free
          BY <4>1, FreeCalls, Zenon
        <4>. QED
          BY <4>2, OneCall
      <3>2. PICK q \in Seq(firewalls[f]) : q = S!SetToSeq(firewalls[f])
        BY <2>0, LiveSets, Listed
      <3>. DEFINE ss == [i \in DOMAIN q |-> <<Call("RevokeRules", f, {q[i]})>>]
      <3>3. ss \in [DOMAIN q -> Seq(Free)]
        <4>1. \A i \in DOMAIN q : q[i] \in firewalls[f]
          OBVIOUS
        <4>. QED
          BY <4>1, <3>1
      <3>4. S!FlattenSeq(ss) \in Seq(Free)
        BY <3>3, EachIn, Zenon
      <3>5. S!AddEach(f, rules) \in Seq(Free)
        BY AddEachCalls
      <3>6. S!ReconcileRules(f, rules) = S!FlattenSeq(ss) \o S!AddEach(f, rules)
        BY <2>0, <3>2 DEF S!ReconcileRules, S!Each
      <3>. QED
        BY <3>4, <3>5, <3>6, Joined
    <2>. QED
      BY <2>0, FreePlain, OneCall, Zenon DEF S!ReconcileRules, S!Fail
  <1>. QED
    BY <1>1, <1>2, <1>3

LEMMA DeleteServerCalls ==
    ASSUME Live, NEW k, NEW s \in Servers
    PROVE  /\ H!DeleteServer(s) \in Seq(Later(k))
           /\ A!DeleteServer(s) \in Seq(Later(k))
           /\ S!DeleteServer(s) \in Seq(Later(k))
  <1>1. H!DeleteServer(s) \in Seq(Later(k))
    <2>0. IsFiniteSet(H!Holding(s))
      BY LiveSets, FS_Subset DEF H!Holding
    <2>1. ASSUME NEW x \in H!Holding(s)
          PROVE  <<Call("AttachVolume", x, "none")>> \in Seq(Later(k))
      <3>1. <<"AttachVolume", x, "none">> \in Later(k)
        BY LaterCalls, Zenon DEF H!Holding, Live
      <3>. QED
        BY <3>1, OneCall
    <2>2. PICK q \in Seq(H!Holding(s)) : q = H!SetToSeq(H!Holding(s))
      BY <2>0, Listed
    <2>. DEFINE ss == [i \in DOMAIN q |-> <<Call("AttachVolume", q[i], "none")>>]
    <2>3. ss \in [DOMAIN q -> Seq(Later(k))]
      <3>1. \A i \in DOMAIN q : q[i] \in H!Holding(s)
        OBVIOUS
      <3>. QED
        BY <3>1, <2>1
    <2>4. H!FlattenSeq(ss) \in Seq(Later(k))
      BY <2>3, EachIn, Zenon
    <2>5. H!DeleteServer(s) = (IF servers[s].fw = "none" THEN <<>> ELSE <<Call("Protect", s, "none")>>)
              \o H!FlattenSeq(ss) \o <<Call("DestroyServer", s, "")>>
      BY <2>2 DEF H!DeleteServer, H!Each
    <2>. HIDE DEF ss
    <2>6. <<"DestroyServer", s, "">> \in Later(k) /\ <<"Protect", s, "none">> \in Later(k)
      BY ServerCalls, Zenon
    <2>7. (IF servers[s].fw = "none" THEN <<>> ELSE <<Call("Protect", s, "none")>>) \in Seq(Later(k))
      BY <2>6, MarkedCalls, NoCalls, OneCall, Zenon
    <2>. QED
      BY <2>4, <2>5, <2>6, <2>7, Joined, OneCall, Zenon
  <1>2. A!DeleteServer(s) \in Seq(Later(k))
    <2>0. IsFiniteSet(A!Holding(s))
      BY LiveSets, FS_Subset DEF A!Holding
    <2>1. ASSUME NEW x \in A!Holding(s)
          PROVE  <<Call("AttachVolume", x, "none")>> \in Seq(Later(k))
      <3>1. <<"AttachVolume", x, "none">> \in Later(k)
        BY LaterCalls, Zenon DEF A!Holding, Live
      <3>. QED
        BY <3>1, OneCall
    <2>2. PICK q \in Seq(A!Holding(s)) : q = A!SetToSeq(A!Holding(s))
      BY <2>0, Listed
    <2>. DEFINE ss == [i \in DOMAIN q |-> <<Call("AttachVolume", q[i], "none")>>]
    <2>3. ss \in [DOMAIN q -> Seq(Later(k))]
      <3>1. \A i \in DOMAIN q : q[i] \in A!Holding(s)
        OBVIOUS
      <3>. QED
        BY <3>1, <2>1
    <2>4. A!FlattenSeq(ss) \in Seq(Later(k))
      BY <2>3, EachIn, Zenon
    <2>5. A!DeleteServer(s) = A!FlattenSeq(ss) \o <<Call("DestroyServer", s, "")>>
      BY <2>2 DEF A!DeleteServer, A!Each
    <2>. HIDE DEF ss
    <2>6. <<"DestroyServer", s, "">> \in Later(k) /\ <<"Protect", s, "none">> \in Later(k)
      BY ServerCalls, Zenon
    <2>7. <<>> \in Seq(Later(k))
      BY <2>6, MarkedCalls, NoCalls, OneCall, Zenon
    <2>. QED
      BY <2>4, <2>5, <2>6, <2>7, Joined, OneCall, Zenon
  <1>3. S!DeleteServer(s) \in Seq(Later(k))
    <2>0. IsFiniteSet(S!Holding(s))
      BY LiveSets, FS_Subset DEF S!Holding
    <2>1. ASSUME NEW x \in S!Holding(s)
          PROVE  <<Call("AttachVolume", x, "none")>> \in Seq(Later(k))
      <3>1. <<"AttachVolume", x, "none">> \in Later(k)
        BY LaterCalls, Zenon DEF S!Holding, Live
      <3>. QED
        BY <3>1, OneCall
    <2>2. PICK q \in Seq(S!Holding(s)) : q = S!SetToSeq(S!Holding(s))
      BY <2>0, Listed
    <2>. DEFINE ss == [i \in DOMAIN q |-> <<Call("AttachVolume", q[i], "none")>>]
    <2>3. ss \in [DOMAIN q -> Seq(Later(k))]
      <3>1. \A i \in DOMAIN q : q[i] \in S!Holding(s)
        OBVIOUS
      <3>. QED
        BY <3>1, <2>1
    <2>4. S!FlattenSeq(ss) \in Seq(Later(k))
      BY <2>3, EachIn, Zenon
    <2>5. S!DeleteServer(s) = S!Warned(<<Call("Protect", s, "none")>>)
              \o S!FlattenSeq(ss) \o <<Call("DestroyServer", s, "")>>
      BY <2>2 DEF S!DeleteServer, S!Each
    <2>. HIDE DEF ss
    <2>6. <<"DestroyServer", s, "">> \in Later(k) /\ <<"Protect", s, "none">> \in Later(k)
      BY ServerCalls, Zenon
    <2>7. S!Warned(<<Call("Protect", s, "none")>>) \in Seq(Later(k))
      BY <2>6, MarkedCalls, NoCalls, OneCall, Zenon
    <2>. QED
      BY <2>4, <2>5, <2>6, <2>7, Joined, OneCall, Zenon
  <1>. QED
    BY <1>1, <1>2, <1>3

LEMMA DrainAndDeleteServerCalls ==
    ASSUME Live, NEW k, NEW s \in Servers
    PROVE  /\ H!DrainAndDeleteServer(s) \in Seq(Later(k))
           /\ A!DrainAndDeleteServer(s) \in Seq(Later(k))
           /\ S!DrainAndDeleteServer(s) \in Seq(Later(k))
  <1>1. H!DrainAndDeleteServer(s) \in Seq(Later(k))
    BY DeleteServerCalls, NoCalls DEF H!DrainAndDeleteServer
  <1>2. A!DrainAndDeleteServer(s) \in Seq(Later(k))
    BY DeleteServerCalls, NoCalls DEF A!DrainAndDeleteServer
  <1>3. S!DrainAndDeleteServer(s) \in Seq(Later(k))
    BY DeleteServerCalls, NoCalls DEF S!DrainAndDeleteServer
  <1>. QED
    BY <1>1, <1>2, <1>3

\* Volumes.
LEMMA DetachVolumeCalls ==
    ASSUME NEW v \in AllVolumes
    PROVE  /\ H!DetachVolume(v) \in Seq(Free)
           /\ A!DetachVolume(v) \in Seq(Free)
           /\ S!DetachVolume(v) \in Seq(Free)
  <1>1. H!DetachVolume(v) \in Seq(Free)
    <2>1. <<"AttachVolume", v, "none">> \in Free
      BY FreeCalls, Zenon
    <2>. QED
      BY <2>1, FreeMarked, NoCalls, OneCall DEF H!DetachVolume
  <1>2. A!DetachVolume(v) \in Seq(Free)
    <2>1. <<"AttachVolume", v, "none">> \in Free
      BY FreeCalls, Zenon
    <2>. QED
      BY <2>1, FreeMarked, NoCalls, OneCall DEF A!DetachVolume
  <1>3. S!DetachVolume(v) \in Seq(Free)
    <2>1. <<"AttachVolume", v, "none">> \in Free
      BY FreeCalls, Zenon
    <2>. QED
      BY <2>1, FreeMarked, NoCalls, OneCall DEF S!DetachVolume
  <1>. QED
    BY <1>1, <1>2, <1>3

LEMMA DeleteVolumeCalls ==
    ASSUME NEW k, NEW v \in AllVolumes, v \in Volumes => MayRemove(k, v)
    PROVE  /\ H!DeleteVolume(v) \in Seq(Later(k))
           /\ A!DeleteVolume(v) \in Seq(Later(k))
           /\ S!DeleteVolume(v) \in Seq(Later(k))
  <1>1. H!DeleteVolume(v) \in Seq(Later(k))
    <2>1. <<"DropVolume", v, "">> \in Later(k)
      BY LaterCalls, Zenon DEF Removing
    <2>. QED
      BY <2>1, DetachVolumeCalls, FreeIsLater, Joined, NoCalls, OneCall, Zenon DEF H!DeleteVolume
  <1>2. A!DeleteVolume(v) \in Seq(Later(k))
    <2>1. <<"DropVolume", v, "">> \in Later(k)
      BY LaterCalls, Zenon DEF Removing
    <2>. QED
      BY <2>1, DetachVolumeCalls, FreeIsLater, Joined, NoCalls, OneCall, Zenon DEF A!DeleteVolume
  <1>3. S!DeleteVolume(v) \in Seq(Later(k))
    <2>1. <<"DropVolume", v, "">> \in Later(k)
      BY LaterCalls, Zenon DEF Removing
    <2>. QED
      BY <2>1, DetachVolumeCalls, FreeIsLater, Joined, NoCalls, OneCall, Zenon DEF S!DeleteVolume
  <1>. QED
    BY <1>1, <1>2, <1>3

LEMMA EnsureVolumeCalls ==
    ASSUME NEW k, NEW v \in AllVolumes, NEW s \in Servers
    PROVE  /\ Program(k, H!EnsureVolume(v, s))
           /\ Program(k, A!EnsureVolume(v, s))
           /\ Program(k, S!EnsureVolume(v, s))
  <1>1. Program(k, H!EnsureVolume(v, s))
    <2>1. H!DetachVolume(v) \o <<Call("AttachVolume", v, s)>> \in Seq(Later(k))
      <3>1. <<"AttachVolume", v, s>> \in Later(k)
        BY LaterCalls, Zenon
      <3>. QED
        BY <3>1, DetachVolumeCalls, FreeIsLater, Joined, OneCall
    <2>. DEFINE rest == IF H!Attached(v) = s THEN <<>>
                        ELSE H!DetachVolume(v) \o <<Call("AttachVolume", v, s)>>
    <2>2. rest \in Seq(Later(k))
      BY <2>1, NoCalls
    <2>3. H!Fail \in Seq(Later(k))
      BY PlainCalls, OneCall, Zenon DEF H!Fail
    <2>6. <<>> \o rest = rest
      <3>. HIDE DEF rest
      <3>. QED
        BY <2>2
    <2>4. v \notin DOMAIN volumes => Call("CreateVolume", v, "empty") \in First(k)
      BY FirstCalls, Zenon
    <2>5. H!EnsureVolume(v, s) =
              IF s \notin DOMAIN servers THEN H!Fail
              ELSE (IF v \in DOMAIN volumes THEN <<>> ELSE <<Call("CreateVolume", v, "empty")>>) \o rest
      BY DEF H!EnsureVolume
    <2>. HIDE DEF rest
    <2>. QED
      BY <2>2, <2>3, <2>4, <2>5, <2>6, ProgramOfLater, ProgramOfFirst, Zenon
  <1>2. Program(k, A!EnsureVolume(v, s))
    <2>1. A!DetachVolume(v) \o <<Call("AttachVolume", v, s)>> \in Seq(Later(k))
      <3>1. <<"AttachVolume", v, s>> \in Later(k)
        BY LaterCalls, Zenon
      <3>. QED
        BY <3>1, DetachVolumeCalls, FreeIsLater, Joined, OneCall
    <2>. DEFINE rest == IF A!Attached(v) = s THEN <<>>
                        ELSE A!DetachVolume(v) \o <<Call("AttachVolume", v, s)>>
    <2>2. rest \in Seq(Later(k))
      BY <2>1, NoCalls
    <2>3. A!Fail \in Seq(Later(k))
      BY PlainCalls, OneCall, Zenon DEF A!Fail
    <2>6. <<>> \o rest = rest
      <3>. HIDE DEF rest
      <3>. QED
        BY <2>2
    <2>4. v \notin DOMAIN volumes => Call("CreateVolume", v, "blank") \in First(k)
      BY FirstCalls, Zenon
    <2>5. A!EnsureVolume(v, s) =
              IF s \notin DOMAIN servers THEN A!Fail
              ELSE (IF v \in DOMAIN volumes THEN <<>> ELSE <<Call("CreateVolume", v, "blank")>>) \o rest
      BY DEF A!EnsureVolume
    <2>. HIDE DEF rest
    <2>. QED
      BY <2>2, <2>3, <2>4, <2>5, <2>6, ProgramOfLater, ProgramOfFirst, Zenon
  <1>3. Program(k, S!EnsureVolume(v, s))
    <2>1. S!DetachVolume(v) \o <<Call("AttachVolume", v, s)>> \in Seq(Later(k))
      <3>1. <<"AttachVolume", v, s>> \in Later(k)
        BY LaterCalls, Zenon
      <3>. QED
        BY <3>1, DetachVolumeCalls, FreeIsLater, Joined, OneCall
    <2>. DEFINE rest == IF S!Attached(v) = s THEN <<>>
                        ELSE S!DetachVolume(v) \o <<Call("AttachVolume", v, s)>>
    <2>2. rest \in Seq(Later(k))
      BY <2>1, NoCalls
    <2>3. S!Fail \in Seq(Later(k))
      BY PlainCalls, OneCall, Zenon DEF S!Fail
    <2>6. <<>> \o rest = rest
      <3>. HIDE DEF rest
      <3>. QED
        BY <2>2
    <2>4. v \notin DOMAIN volumes => Call("CreateVolume", v, "blank") \in First(k)
      BY FirstCalls, Zenon
    <2>5. S!EnsureVolume(v, s) =
              IF s \notin DOMAIN servers THEN S!Fail
              ELSE (IF v \in DOMAIN volumes THEN <<>> ELSE <<Call("CreateVolume", v, "blank")>>) \o rest
      BY DEF S!EnsureVolume
    <2>. HIDE DEF rest
    <2>. QED
      BY <2>2, <2>3, <2>4, <2>5, <2>6, ProgramOfLater, ProgramOfFirst, Zenon
  <1>. QED
    BY <1>1, <1>2, <1>3

LEMMA DeleteNetworkCalls ==
    ASSUME NEW k
    PROVE  /\ H!DeleteNetwork \in Seq(Later(k))
           /\ A!DeleteNetwork \in Seq(Later(k))
           /\ S!DeleteNetwork \in Seq(Later(k))
  <1>1. H!DeleteNetwork \in Seq(Later(k))
    BY PlainCalls, NoCalls, OneCall, TwoCalls, Zenon DEF H!DeleteNetwork
  <1>2. A!DeleteNetwork \in Seq(Later(k))
    BY PlainCalls, NoCalls, OneCall, TwoCalls, Zenon DEF A!DeleteNetwork
  <1>3. S!DeleteNetwork \in Seq(Later(k))
    BY PlainCalls, NoCalls, OneCall, TwoCalls, Zenon DEF S!DeleteNetwork
  <1>. QED
    BY <1>1, <1>2, <1>3

(* Names of the configuration, as each provider's module has them. *)
LEMMA SameNames ==
    /\ H!Declared = Declared /\ A!Declared = Declared /\ S!Declared = Declared
    /\ \A r : H!WithRole(r) = WithRole(r) /\ A!WithRole(r) = WithRole(r) /\ S!WithRole(r) = WithRole(r)
    /\ \A s : H!Cache(s) = Cache(s) /\ A!Cache(s) = Cache(s) /\ S!Cache(s) = Cache(s)
    /\ H!DesiredVolumes = DesiredVolumes /\ A!DesiredVolumes = DesiredVolumes
    /\ S!DesiredVolumes = DesiredVolumes
    /\ H!DesiredFirewalls = DesiredFirewalls /\ A!DesiredFirewalls = DesiredFirewalls
    /\ S!DesiredFirewalls = DesiredFirewalls
    /\ H!Master = Master /\ A!Master = Master /\ S!Master = Master
    /\ H!Base = Base /\ A!Base = Base /\ S!Base = Base
    /\ \A r : H!DesiredRules(r) = DesiredRules(r) /\ A!DesiredRules(r) = DesiredRules(r)
               /\ S!DesiredRules(r) = DesiredRules(r)
  BY DEF H!Declared, A!Declared, S!Declared, Declared, H!WithRole, A!WithRole, S!WithRole, WithRole,
         H!Cache, A!Cache, S!Cache, Cache,
         H!DesiredVolumes, A!DesiredVolumes, S!DesiredVolumes, DesiredVolumes,
         H!DesiredFirewalls, A!DesiredFirewalls, S!DesiredFirewalls, DesiredFirewalls,
         H!Master, A!Master, S!Master, Master, H!MasterLabelled, A!MasterLabelled, S!MasterLabelled,
         MasterLabelled, H!Base, A!Base, S!Base, Base,
         H!DesiredRules, A!DesiredRules, S!DesiredRules, DesiredRules,
         H!PublicRules, A!PublicRules, S!PublicRules, PublicRules

LEMMA DeclaredNames ==
    ASSUME Live
    PROVE  /\ \A r : WithRole(r) \subseteq Declared /\ IsFiniteSet(WithRole(r))
           /\ \A r \in Roles : DesiredRules(r) \in SUBSET Rules
           /\ DesiredFirewalls \in SUBSET Roles
           /\ \A s \in Servers : Cache(s) \in AllVolumes
  <1>1. \A r : WithRole(r) \subseteq Declared
    BY DEF WithRole
  <1>2. \A r : IsFiniteSet(WithRole(r))
    BY <1>1, LiveSets, FS_Subset
  <1>3. \A r \in Roles : DesiredRules(r) \in SUBSET Rules
    BY DEF DesiredRules, PublicRules, Rules
  <1>4. DesiredFirewalls \in SUBSET Roles
    BY LiveSets DEF DesiredFirewalls
  <1>5. \A s \in Servers : Cache(s) \in AllVolumes
    BY DEF AllVolumes
  <1>. QED
    BY <1>1, <1>2, <1>3, <1>4, <1>5

\* Attaching and converging.
LEMMA FindMasterCalls ==
    ASSUME Live
    PROVE  /\ H!FindMaster \in Seq(Free)
           /\ A!FindMaster \in Seq(Free)
           /\ S!FindMaster \in Seq(Free)
  <1>1. H!FindMaster \in Seq(Free)
    BY FreePlain, FreeOnServers, MasterIsServer, SameNames, OneCall, Zenon DEF H!FindMaster, H!Fail
  <1>2. A!FindMaster \in Seq(Free)
    BY FreePlain, NoCalls, OneCall, Zenon DEF A!FindMaster, A!Fail
  <1>3. S!FindMaster \in Seq(Free)
    BY FreePlain, NoCalls, OneCall, Zenon DEF S!FindMaster, S!Fail
  <1>. QED
    BY <1>1, <1>2, <1>3

LEMMA ConnectCalls ==
    ASSUME Live
    PROVE  /\ H!Connect \in Seq(Free)
           /\ A!Connect \in Seq(Free)
           /\ S!Connect \in Seq(Free)
  <1>1. H!Connect \in Seq(Free)
    BY FreePlain, FreeOnServers, MasterIsServer, SameNames, NoCalls, ThreeCalls, Zenon DEF H!Connect
  <1>2. A!Connect \in Seq(Free)
    BY FreePlain, FreeOnServers, MasterIsServer, SameNames, NoCalls, ThreeCalls, Zenon DEF A!Connect
  <1>3. S!Connect \in Seq(Free)
    BY FreePlain, FreeOnServers, MasterIsServer, SameNames, NoCalls, ThreeCalls, Zenon DEF S!Connect
  <1>. QED
    BY <1>1, <1>2, <1>3

LEMMA ProvisionServerCalls ==
    ASSUME Live, NEW k, NEW s \in Declared
    PROVE  /\ H!ProvisionServer(s) \in Seq(Later(k))
           /\ A!ProvisionServer(s) \in Seq(Later(k))
           /\ S!ProvisionServer(s) \in Seq(Later(k))
  <1>1. H!ProvisionServer(s) \in Seq(Later(k))
    <2>1. s \in Servers /\ cfg.role[s] \in Roles
      BY LiveSets
    <2>2. /\ <<"EnsureServer", s, cfg.role[s]>> \in Later(k) /\ <<"PrivateIP", s, "">> \in Later(k)
          /\ <<"Reach", s, "">> \in Later(k) /\ <<"Join", s, "">> \in Later(k)
          /\ <<"InstallMaster", s, "">> \in Later(k) /\ <<"Label", s, "">> \in Later(k)
          /\ <<"FindMaster", "", "">> \in Later(k)
      BY <2>1, ServerCalls, PlainCalls, Zenon
    <2>3. (IF cfg.role[s] = "worker" THEN <<Call("FindMaster", "", ""), Call("Join", s, "")>>
           ELSE <<Call("InstallMaster", s, "")>>) \in Seq(Later(k))
      BY <2>2, OneCall, TwoCalls, Zenon
    <2>. QED
      BY <2>2, <2>3, Joined, OneCall, TwoCalls, ThreeCalls, Zenon DEF H!ProvisionServer
  <1>2. A!ProvisionServer(s) \in Seq(Later(k))
    <2>1. s \in Servers /\ cfg.role[s] \in Roles
      BY LiveSets
    <2>2. /\ <<"EnsureServer", s, cfg.role[s]>> \in Later(k) /\ <<"PrivateIP", s, "">> \in Later(k)
          /\ <<"Reach", s, "">> \in Later(k) /\ <<"Join", s, "">> \in Later(k)
          /\ <<"InstallMaster", s, "">> \in Later(k) /\ <<"Label", s, "">> \in Later(k)
          /\ <<"FindMaster", "", "">> \in Later(k)
      BY <2>1, ServerCalls, PlainCalls, Zenon
    <2>3. (IF cfg.role[s] = "worker" THEN <<Call("FindMaster", "", ""), Call("Join", s, "")>>
           ELSE <<Call("InstallMaster", s, "")>>) \in Seq(Later(k))
      BY <2>2, OneCall, TwoCalls, Zenon
    <2>. QED
      BY <2>2, <2>3, Joined, OneCall, TwoCalls, ThreeCalls, Zenon DEF A!ProvisionServer
  <1>3. S!ProvisionServer(s) \in Seq(Later(k))
    <2>1. s \in Servers /\ cfg.role[s] \in Roles
      BY LiveSets
    <2>2. /\ <<"EnsureServer", s, cfg.role[s]>> \in Later(k) /\ <<"PrivateIP", s, "">> \in Later(k)
          /\ <<"Reach", s, "">> \in Later(k) /\ <<"Join", s, "">> \in Later(k)
          /\ <<"InstallMaster", s, "">> \in Later(k) /\ <<"Label", s, "">> \in Later(k)
          /\ <<"FindMaster", "", "">> \in Later(k)
      BY <2>1, ServerCalls, PlainCalls, Zenon
    <2>3. (IF cfg.role[s] = "worker" THEN <<Call("FindMaster", "", ""), Call("Join", s, "")>>
           ELSE <<Call("InstallMaster", s, "")>>) \in Seq(Later(k))
      BY <2>2, OneCall, TwoCalls, Zenon
    <2>. QED
      BY <2>2, <2>3, Joined, OneCall, TwoCalls, ThreeCalls, Zenon DEF S!ProvisionServer
  <1>. QED
    BY <1>1, <1>2, <1>3

LEMMA ProvisionVolumeCalls ==
    ASSUME Live, NEW k, NEW v \in DOMAIN cfg.volume
    PROVE  /\ H!ProvisionVolume(v) \in Seq(Later(k))
           /\ A!ProvisionVolume(v) \in Seq(Later(k))
           /\ S!ProvisionVolume(v) \in Seq(Later(k))
  <1>1. H!ProvisionVolume(v) \in Seq(Later(k))
    <2>1. v \in AllVolumes /\ cfg.volume[v] \in Servers
      BY LiveSets DEF AllVolumes
    <2>2. /\ <<"EnsureVolume", v, cfg.volume[v]>> \in Later(k)
          /\ <<"MountVolume", v, cfg.volume[v]>> \in Later(k)
          /\ <<"Reach", cfg.volume[v], "">> \in Later(k)
      BY <2>1, LaterCalls, ServerCalls, Zenon DEF MountOps
    <2>. QED
      BY <2>2, ThreeCalls, Zenon DEF H!ProvisionVolume
  <1>2. A!ProvisionVolume(v) \in Seq(Later(k))
    <2>1. v \in AllVolumes /\ cfg.volume[v] \in Servers
      BY LiveSets DEF AllVolumes
    <2>2. /\ <<"EnsureVolume", v, cfg.volume[v]>> \in Later(k)
          /\ <<"MountVolume", v, cfg.volume[v]>> \in Later(k)
          /\ <<"Reach", cfg.volume[v], "">> \in Later(k)
      BY <2>1, LaterCalls, ServerCalls, Zenon DEF MountOps
    <2>. QED
      BY <2>2, ThreeCalls, Zenon DEF A!ProvisionVolume
  <1>3. S!ProvisionVolume(v) \in Seq(Later(k))
    <2>1. v \in AllVolumes /\ cfg.volume[v] \in Servers
      BY LiveSets DEF AllVolumes
    <2>2. /\ <<"EnsureVolume", v, cfg.volume[v]>> \in Later(k)
          /\ <<"MountVolume", v, cfg.volume[v]>> \in Later(k)
          /\ <<"Reach", cfg.volume[v], "">> \in Later(k)
      BY <2>1, LaterCalls, ServerCalls, Zenon DEF MountOps
    <2>. QED
      BY <2>2, ThreeCalls, Zenon DEF S!ProvisionVolume
  <1>. QED
    BY <1>1, <1>2, <1>3

LEMMA ProvisionBuilderCalls ==
    ASSUME Live, NEW k, NEW s \in Servers
    PROVE  /\ H!ProvisionBuilder(s) \in Seq(Later(k))
           /\ A!ProvisionBuilder(s) \in Seq(Later(k))
           /\ S!ProvisionBuilder(s) \in Seq(Later(k))
  <1>1. H!ProvisionBuilder(s) \in Seq(Later(k))
    <2>1. Cache(s) \in AllVolumes /\ "builder" \in Roles
      BY DEF AllVolumes, Roles
    <2>2. /\ <<"EnsureServer", s, "builder">> \in Later(k) /\ <<"Reach", s, "">> \in Later(k)
          /\ <<"EnsureVolume", Cache(s), s>> \in Later(k) /\ <<"MountVolume", Cache(s), s>> \in Later(k)
          /\ <<"FinishPart", s, "docker">> \in Later(k)
      BY <2>1, LaterCalls, ServerCalls, Zenon DEF MountOps
    <2>. QED
      BY <2>2, SameNames, FiveCalls, Zenon DEF H!ProvisionBuilder
  <1>2. A!ProvisionBuilder(s) \in Seq(Later(k))
    <2>1. Cache(s) \in AllVolumes /\ "builder" \in Roles
      BY DEF AllVolumes, Roles
    <2>2. /\ <<"EnsureServer", s, "builder">> \in Later(k) /\ <<"Reach", s, "">> \in Later(k)
          /\ <<"EnsureVolume", Cache(s), s>> \in Later(k) /\ <<"MountVolume", Cache(s), s>> \in Later(k)
          /\ <<"FinishPart", s, "docker">> \in Later(k)
      BY <2>1, LaterCalls, ServerCalls, Zenon DEF MountOps
    <2>. QED
      BY <2>2, SameNames, FiveCalls, Zenon DEF A!ProvisionBuilder
  <1>3. S!ProvisionBuilder(s) \in Seq(Later(k))
    <2>1. Cache(s) \in AllVolumes /\ "builder" \in Roles
      BY DEF AllVolumes, Roles
    <2>2. /\ <<"EnsureServer", s, "builder">> \in Later(k) /\ <<"Reach", s, "">> \in Later(k)
          /\ <<"EnsureVolume", Cache(s), s>> \in Later(k) /\ <<"MountVolume", Cache(s), s>> \in Later(k)
          /\ <<"FinishPart", s, "docker">> \in Later(k)
      BY <2>1, LaterCalls, ServerCalls, Zenon DEF MountOps
    <2>. QED
      BY <2>2, SameNames, FiveCalls, Zenon DEF S!ProvisionBuilder
  <1>. QED
    BY <1>1, <1>2, <1>3

LEMMA ApplyFirewallCalls ==
    ASSUME NEW f \in Roles, NEW rules \in SUBSET Rules
    PROVE  /\ H!ApplyFirewall(f, rules) \in Seq(Free)
           /\ A!ApplyFirewall(f, rules) \in Seq(Free)
           /\ S!ApplyFirewall(f, rules) \in Seq(Free)
  <1>1. H!ApplyFirewall(f, rules) \in Seq(Free)
    <2>1. <<"ReconcileRules", f, rules>> \in Free
      BY FreeCalls, Zenon DEF RuleOps
    <2>. QED
      BY <2>1, OneCall DEF H!ApplyFirewall
  <1>2. A!ApplyFirewall(f, rules) \in Seq(Free)
    <2>1. <<"ReconcileRules", f, rules>> \in Free
      BY FreeCalls, Zenon DEF RuleOps
    <2>. QED
      BY <2>1, OneCall DEF A!ApplyFirewall
  <1>3. S!ApplyFirewall(f, rules) \in Seq(Free)
    <2>1. <<"ReconcileRules", f, rules>> \in Free
      BY FreeCalls, Zenon DEF RuleOps
    <2>. QED
      BY <2>1, OneCall DEF S!ApplyFirewall
  <1>. QED
    BY <1>1, <1>2, <1>3

LEMMA EachServerCalls ==
    ASSUME Live, NEW k, NEW r
    PROVE  /\ H!Each(WithRole(r), H!ProvisionServer) \in Seq(Later(k))
           /\ A!Each(WithRole(r), A!ProvisionServer) \in Seq(Later(k))
           /\ S!Each(WithRole(r), S!ProvisionServer) \in Seq(Later(k))
  <1>1. H!Each(WithRole(r), H!ProvisionServer) \in Seq(Later(k))
    <2>1. \A x \in WithRole(r) : H!ProvisionServer(x) \in Seq(Later(k))
      BY DeclaredNames, ProvisionServerCalls
    <2>2. PICK q \in Seq(WithRole(r)) : q = H!SetToSeq(WithRole(r))
      BY DeclaredNames, Listed
    <2>. DEFINE ss == [i \in DOMAIN q |-> H!ProvisionServer(q[i])]
    <2>3. ss \in [DOMAIN q -> Seq(Later(k))]
      <3>1. \A i \in DOMAIN q : q[i] \in WithRole(r)
        OBVIOUS
      <3>. QED
        BY <3>1, <2>1
    <2>4. H!FlattenSeq(ss) \in Seq(Later(k))
      BY <2>3, EachIn
    <2>5. H!Each(WithRole(r), H!ProvisionServer) = H!FlattenSeq(ss)
      BY <2>2 DEF H!Each
    <2>. QED
      BY <2>4, <2>5
  <1>2. A!Each(WithRole(r), A!ProvisionServer) \in Seq(Later(k))
    <2>1. \A x \in WithRole(r) : A!ProvisionServer(x) \in Seq(Later(k))
      BY DeclaredNames, ProvisionServerCalls
    <2>2. PICK q \in Seq(WithRole(r)) : q = A!SetToSeq(WithRole(r))
      BY DeclaredNames, Listed
    <2>. DEFINE ss == [i \in DOMAIN q |-> A!ProvisionServer(q[i])]
    <2>3. ss \in [DOMAIN q -> Seq(Later(k))]
      <3>1. \A i \in DOMAIN q : q[i] \in WithRole(r)
        OBVIOUS
      <3>. QED
        BY <3>1, <2>1
    <2>4. A!FlattenSeq(ss) \in Seq(Later(k))
      BY <2>3, EachIn
    <2>5. A!Each(WithRole(r), A!ProvisionServer) = A!FlattenSeq(ss)
      BY <2>2 DEF A!Each
    <2>. QED
      BY <2>4, <2>5
  <1>3. S!Each(WithRole(r), S!ProvisionServer) \in Seq(Later(k))
    <2>1. \A x \in WithRole(r) : S!ProvisionServer(x) \in Seq(Later(k))
      BY DeclaredNames, ProvisionServerCalls
    <2>2. PICK q \in Seq(WithRole(r)) : q = S!SetToSeq(WithRole(r))
      BY DeclaredNames, Listed
    <2>. DEFINE ss == [i \in DOMAIN q |-> S!ProvisionServer(q[i])]
    <2>3. ss \in [DOMAIN q -> Seq(Later(k))]
      <3>1. \A i \in DOMAIN q : q[i] \in WithRole(r)
        OBVIOUS
      <3>. QED
        BY <3>1, <2>1
    <2>4. S!FlattenSeq(ss) \in Seq(Later(k))
      BY <2>3, EachIn
    <2>5. S!Each(WithRole(r), S!ProvisionServer) = S!FlattenSeq(ss)
      BY <2>2 DEF S!Each
    <2>. QED
      BY <2>4, <2>5
  <1>. QED
    BY <1>1, <1>2, <1>3

LEMMA EachVolumeCalls ==
    ASSUME Live, NEW k
    PROVE  /\ H!Each(DOMAIN cfg.volume, H!ProvisionVolume) \in Seq(Later(k))
           /\ A!Each(DOMAIN cfg.volume, A!ProvisionVolume) \in Seq(Later(k))
           /\ S!Each(DOMAIN cfg.volume, S!ProvisionVolume) \in Seq(Later(k))
  <1>1. H!Each(DOMAIN cfg.volume, H!ProvisionVolume) \in Seq(Later(k))
    <2>1. \A x \in DOMAIN cfg.volume : H!ProvisionVolume(x) \in Seq(Later(k))
      BY ProvisionVolumeCalls
    <2>2. PICK q \in Seq(DOMAIN cfg.volume) : q = H!SetToSeq(DOMAIN cfg.volume)
      BY LiveSets, Listed, Zenon
    <2>. DEFINE ss == [i \in DOMAIN q |-> H!ProvisionVolume(q[i])]
    <2>3. ss \in [DOMAIN q -> Seq(Later(k))]
      <3>1. \A i \in DOMAIN q : q[i] \in DOMAIN cfg.volume
        OBVIOUS
      <3>. QED
        BY <3>1, <2>1
    <2>4. H!FlattenSeq(ss) \in Seq(Later(k))
      BY <2>3, EachIn
    <2>5. H!Each(DOMAIN cfg.volume, H!ProvisionVolume) = H!FlattenSeq(ss)
      BY <2>2 DEF H!Each
    <2>. QED
      BY <2>4, <2>5
  <1>2. A!Each(DOMAIN cfg.volume, A!ProvisionVolume) \in Seq(Later(k))
    <2>1. \A x \in DOMAIN cfg.volume : A!ProvisionVolume(x) \in Seq(Later(k))
      BY ProvisionVolumeCalls
    <2>2. PICK q \in Seq(DOMAIN cfg.volume) : q = A!SetToSeq(DOMAIN cfg.volume)
      BY LiveSets, Listed, Zenon
    <2>. DEFINE ss == [i \in DOMAIN q |-> A!ProvisionVolume(q[i])]
    <2>3. ss \in [DOMAIN q -> Seq(Later(k))]
      <3>1. \A i \in DOMAIN q : q[i] \in DOMAIN cfg.volume
        OBVIOUS
      <3>. QED
        BY <3>1, <2>1
    <2>4. A!FlattenSeq(ss) \in Seq(Later(k))
      BY <2>3, EachIn
    <2>5. A!Each(DOMAIN cfg.volume, A!ProvisionVolume) = A!FlattenSeq(ss)
      BY <2>2 DEF A!Each
    <2>. QED
      BY <2>4, <2>5
  <1>3. S!Each(DOMAIN cfg.volume, S!ProvisionVolume) \in Seq(Later(k))
    <2>1. \A x \in DOMAIN cfg.volume : S!ProvisionVolume(x) \in Seq(Later(k))
      BY ProvisionVolumeCalls
    <2>2. PICK q \in Seq(DOMAIN cfg.volume) : q = S!SetToSeq(DOMAIN cfg.volume)
      BY LiveSets, Listed, Zenon
    <2>. DEFINE ss == [i \in DOMAIN q |-> S!ProvisionVolume(q[i])]
    <2>3. ss \in [DOMAIN q -> Seq(Later(k))]
      <3>1. \A i \in DOMAIN q : q[i] \in DOMAIN cfg.volume
        OBVIOUS
      <3>. QED
        BY <3>1, <2>1
    <2>4. S!FlattenSeq(ss) \in Seq(Later(k))
      BY <2>3, EachIn
    <2>5. S!Each(DOMAIN cfg.volume, S!ProvisionVolume) = S!FlattenSeq(ss)
      BY <2>2 DEF S!Each
    <2>. QED
      BY <2>4, <2>5
  <1>. QED
    BY <1>1, <1>2, <1>3

LEMMA EachBuilderCalls ==
    ASSUME Live, NEW k
    PROVE  /\ H!Each(WithRole("builder"), H!ProvisionBuilder) \in Seq(Later(k))
           /\ A!Each(WithRole("builder"), A!ProvisionBuilder) \in Seq(Later(k))
           /\ S!Each(WithRole("builder"), S!ProvisionBuilder) \in Seq(Later(k))
  <1>1. H!Each(WithRole("builder"), H!ProvisionBuilder) \in Seq(Later(k))
    <2>1. \A x \in WithRole("builder") : H!ProvisionBuilder(x) \in Seq(Later(k))
      BY DeclaredNames, LiveSets, ProvisionBuilderCalls
    <2>2. PICK q \in Seq(WithRole("builder")) : q = H!SetToSeq(WithRole("builder"))
      BY DeclaredNames, Listed
    <2>. DEFINE ss == [i \in DOMAIN q |-> H!ProvisionBuilder(q[i])]
    <2>3. ss \in [DOMAIN q -> Seq(Later(k))]
      <3>1. \A i \in DOMAIN q : q[i] \in WithRole("builder")
        OBVIOUS
      <3>. QED
        BY <3>1, <2>1
    <2>4. H!FlattenSeq(ss) \in Seq(Later(k))
      BY <2>3, EachIn
    <2>5. H!Each(WithRole("builder"), H!ProvisionBuilder) = H!FlattenSeq(ss)
      BY <2>2 DEF H!Each
    <2>. QED
      BY <2>4, <2>5
  <1>2. A!Each(WithRole("builder"), A!ProvisionBuilder) \in Seq(Later(k))
    <2>1. \A x \in WithRole("builder") : A!ProvisionBuilder(x) \in Seq(Later(k))
      BY DeclaredNames, LiveSets, ProvisionBuilderCalls
    <2>2. PICK q \in Seq(WithRole("builder")) : q = A!SetToSeq(WithRole("builder"))
      BY DeclaredNames, Listed
    <2>. DEFINE ss == [i \in DOMAIN q |-> A!ProvisionBuilder(q[i])]
    <2>3. ss \in [DOMAIN q -> Seq(Later(k))]
      <3>1. \A i \in DOMAIN q : q[i] \in WithRole("builder")
        OBVIOUS
      <3>. QED
        BY <3>1, <2>1
    <2>4. A!FlattenSeq(ss) \in Seq(Later(k))
      BY <2>3, EachIn
    <2>5. A!Each(WithRole("builder"), A!ProvisionBuilder) = A!FlattenSeq(ss)
      BY <2>2 DEF A!Each
    <2>. QED
      BY <2>4, <2>5
  <1>3. S!Each(WithRole("builder"), S!ProvisionBuilder) \in Seq(Later(k))
    <2>1. \A x \in WithRole("builder") : S!ProvisionBuilder(x) \in Seq(Later(k))
      BY DeclaredNames, LiveSets, ProvisionBuilderCalls
    <2>2. PICK q \in Seq(WithRole("builder")) : q = S!SetToSeq(WithRole("builder"))
      BY DeclaredNames, Listed
    <2>. DEFINE ss == [i \in DOMAIN q |-> S!ProvisionBuilder(q[i])]
    <2>3. ss \in [DOMAIN q -> Seq(Later(k))]
      <3>1. \A i \in DOMAIN q : q[i] \in WithRole("builder")
        OBVIOUS
      <3>. QED
        BY <3>1, <2>1
    <2>4. S!FlattenSeq(ss) \in Seq(Later(k))
      BY <2>3, EachIn
    <2>5. S!Each(WithRole("builder"), S!ProvisionBuilder) = S!FlattenSeq(ss)
      BY <2>2 DEF S!Each
    <2>. QED
      BY <2>4, <2>5
  <1>. QED
    BY <1>1, <1>2, <1>3

LEMMA BootstrapCalls ==
    ASSUME Live, NEW k
    PROVE  /\ H!Bootstrap \in Seq(Later(k))
           /\ A!Bootstrap \in Seq(Later(k))
           /\ S!Bootstrap \in Seq(Later(k))
  <1>1. H!Bootstrap \in Seq(Later(k))
    <2>1. "master" \in Roles /\ "worker" \in Roles /\ Base \in SUBSET Rules
      BY DEF Roles, Rules
    <2>2. H!ApplyFirewall("master", DesiredRules("master")) \in Seq(Later(k))
      BY <2>1, DeclaredNames, ApplyFirewallCalls, FreeIsLater
    <2>3. (IF WithRole("worker") = {} THEN <<>> ELSE H!ApplyFirewall("worker", Base)) \in Seq(Later(k))
      BY <2>1, ApplyFirewallCalls, FreeIsLater, NoCalls
    <2>4. <<Call("Connect", "", "")>> \in Seq(Later(k))
      BY PlainCalls, OneCall, Zenon
    <2>5. H!Bootstrap = H!Each(WithRole("master"), H!ProvisionServer)
              \o H!Each(WithRole("worker"), H!ProvisionServer)
              \o H!ApplyFirewall("master", DesiredRules("master"))
              \o (IF WithRole("worker") = {} THEN <<>> ELSE H!ApplyFirewall("worker", Base))
              \o H!Each(DOMAIN cfg.volume, H!ProvisionVolume)
              \o <<Call("Connect", "", "")>>
      BY SameNames, Zenon DEF H!Bootstrap
    <2>. QED
      BY <2>2, <2>3, <2>4, <2>5, EachServerCalls, EachVolumeCalls, Joined, Zenon
  <1>2. A!Bootstrap \in Seq(Later(k))
    <2>1. "master" \in Roles /\ "worker" \in Roles /\ Base \in SUBSET Rules
      BY DEF Roles, Rules
    <2>2. A!ApplyFirewall("master", DesiredRules("master")) \in Seq(Later(k))
      BY <2>1, DeclaredNames, ApplyFirewallCalls, FreeIsLater
    <2>3. (IF WithRole("worker") = {} THEN <<>> ELSE A!ApplyFirewall("worker", Base)) \in Seq(Later(k))
      BY <2>1, ApplyFirewallCalls, FreeIsLater, NoCalls
    <2>4. <<Call("Connect", "", "")>> \in Seq(Later(k))
      BY PlainCalls, OneCall, Zenon
    <2>5. A!Bootstrap = A!Each(WithRole("master"), A!ProvisionServer)
              \o A!Each(WithRole("worker"), A!ProvisionServer)
              \o A!ApplyFirewall("master", DesiredRules("master"))
              \o (IF WithRole("worker") = {} THEN <<>> ELSE A!ApplyFirewall("worker", Base))
              \o A!Each(DOMAIN cfg.volume, A!ProvisionVolume)
              \o <<Call("Connect", "", "")>>
      BY SameNames, Zenon DEF A!Bootstrap
    <2>. QED
      BY <2>2, <2>3, <2>4, <2>5, EachServerCalls, EachVolumeCalls, Joined, Zenon
  <1>3. S!Bootstrap \in Seq(Later(k))
    <2>1. "master" \in Roles /\ "worker" \in Roles /\ Base \in SUBSET Rules
      BY DEF Roles, Rules
    <2>2. S!ApplyFirewall("master", DesiredRules("master")) \in Seq(Later(k))
      BY <2>1, DeclaredNames, ApplyFirewallCalls, FreeIsLater
    <2>3. (IF WithRole("worker") = {} THEN <<>> ELSE S!ApplyFirewall("worker", Base)) \in Seq(Later(k))
      BY <2>1, ApplyFirewallCalls, FreeIsLater, NoCalls
    <2>4. <<Call("Connect", "", "")>> \in Seq(Later(k))
      BY PlainCalls, OneCall, Zenon
    <2>5. S!Bootstrap = S!Each(WithRole("master"), S!ProvisionServer)
              \o S!Each(WithRole("worker"), S!ProvisionServer)
              \o S!ApplyFirewall("master", DesiredRules("master"))
              \o (IF WithRole("worker") = {} THEN <<>> ELSE S!ApplyFirewall("worker", Base))
              \o S!Each(DOMAIN cfg.volume, S!ProvisionVolume)
              \o <<Call("Connect", "", "")>>
      BY SameNames, Zenon DEF S!Bootstrap
    <2>. QED
      BY <2>2, <2>3, <2>4, <2>5, EachServerCalls, EachVolumeCalls, Joined, Zenon
  <1>. QED
    BY <1>1, <1>2, <1>3

LEMMA ProvisionBuildersCalls ==
    ASSUME Live, NEW k
    PROVE  /\ H!ProvisionBuilders \in Seq(Later(k))
           /\ A!ProvisionBuilders \in Seq(Later(k))
           /\ S!ProvisionBuilders \in Seq(Later(k))
  <1>1. H!ProvisionBuilders \in Seq(Later(k))
    <2>1. "builder" \in Roles /\ Base \in SUBSET Rules
      BY DEF Roles, Rules
    <2>2. H!ApplyFirewall("builder", Base) \in Seq(Later(k))
      BY <2>1, ApplyFirewallCalls, FreeIsLater
    <2>3. H!ProvisionBuilders =
              IF WithRole("builder") = {} THEN <<>>
              ELSE H!ApplyFirewall("builder", Base) \o H!Each(WithRole("builder"), H!ProvisionBuilder)
      BY SameNames DEF H!ProvisionBuilders
    <2>. QED
      BY <2>2, <2>3, EachBuilderCalls, Joined, NoCalls
  <1>2. A!ProvisionBuilders \in Seq(Later(k))
    <2>1. "builder" \in Roles /\ Base \in SUBSET Rules
      BY DEF Roles, Rules
    <2>2. A!ApplyFirewall("builder", Base) \in Seq(Later(k))
      BY <2>1, ApplyFirewallCalls, FreeIsLater
    <2>3. A!ProvisionBuilders =
              IF WithRole("builder") = {} THEN <<>>
              ELSE A!ApplyFirewall("builder", Base) \o A!Each(WithRole("builder"), A!ProvisionBuilder)
      BY SameNames DEF A!ProvisionBuilders
    <2>. QED
      BY <2>2, <2>3, EachBuilderCalls, Joined, NoCalls
  <1>3. S!ProvisionBuilders \in Seq(Later(k))
    <2>1. "builder" \in Roles /\ Base \in SUBSET Rules
      BY DEF Roles, Rules
    <2>2. S!ApplyFirewall("builder", Base) \in Seq(Later(k))
      BY <2>1, ApplyFirewallCalls, FreeIsLater
    <2>3. S!ProvisionBuilders =
              IF WithRole("builder") = {} THEN <<>>
              ELSE S!ApplyFirewall("builder", Base) \o S!Each(WithRole("builder"), S!ProvisionBuilder)
      BY SameNames DEF S!ProvisionBuilders
    <2>. QED
      BY <2>2, <2>3, EachBuilderCalls, Joined, NoCalls
  <1>. QED
    BY <1>1, <1>2, <1>3

\* Taking away.
LEMMA UnmountAndDeleteVolumeCalls ==
    ASSUME Live, NEW k, NEW v \in AllVolumes, v \in Volumes => MayRemove(k, v)
    PROVE  /\ H!UnmountAndDeleteVolume(v) \in Seq(Later(k))
           /\ A!UnmountAndDeleteVolume(v) \in Seq(Later(k))
           /\ S!UnmountAndDeleteVolume(v) \in Seq(Later(k))
  <1>1. H!UnmountAndDeleteVolume(v) \in Seq(Later(k))
    <2>0. CASE v \in H!LiveVolumes
      <3>1. ASSUME NEW x \in DOMAIN servers
            PROVE  H!Warned(<<Call("Reach", x, ""), Call("UnmountVolume", v, x)>>) \in Seq(Later(k))
        <4>1. <<"Reach", x, "">> \in Later(k) /\ <<"UnmountVolume", v, x>> \in Later(k)
          BY LaterCalls, Zenon DEF Live, ServerOps, MountOps
        <4>. QED
          BY <4>1, TwoCalls, MarkedCalls, Zenon
      <3>2. PICK q \in Seq(DOMAIN servers) : q = H!SetToSeq(DOMAIN servers)
        BY LiveSets, Listed
      <3>. DEFINE ss == [i \in DOMAIN q |-> H!Warned(<<Call("Reach", q[i], ""), Call("UnmountVolume", v, q[i])>>)]
      <3>3. ss \in [DOMAIN q -> Seq(Later(k))]
        <4>1. \A i \in DOMAIN q : q[i] \in DOMAIN servers
          OBVIOUS
        <4>. QED
          BY <4>1, <3>1, Zenon
      <3>4. H!FlattenSeq(ss) \in Seq(Later(k))
        BY <3>3, EachIn, Zenon
      <3>5. H!UnmountAndDeleteVolume(v) = H!FlattenSeq(ss) \o <<Call("DeleteVolume", v, "")>>
        BY <2>0, <3>2, Zenon DEF H!UnmountAndDeleteVolume, H!Each
      <3>. HIDE DEF ss
      <3>6. <<"DeleteVolume", v, "">> \in Later(k)
        BY LaterCalls, Zenon DEF Removing
      <3>. QED
        BY <3>4, <3>5, <3>6, Joined, OneCall, Zenon
    <2>. QED
      BY <2>0, NoCalls, Zenon DEF H!UnmountAndDeleteVolume
  <1>2. A!UnmountAndDeleteVolume(v) \in Seq(Later(k))
    <2>0. CASE v \in A!LiveVolumes
      <3>1. ASSUME NEW x \in DOMAIN servers
            PROVE  A!Warned(<<Call("Reach", x, ""), Call("UnmountVolume", v, x)>>) \in Seq(Later(k))
        <4>1. <<"Reach", x, "">> \in Later(k) /\ <<"UnmountVolume", v, x>> \in Later(k)
          BY LaterCalls, Zenon DEF Live, ServerOps, MountOps
        <4>. QED
          BY <4>1, TwoCalls, MarkedCalls, Zenon
      <3>2. PICK q \in Seq(DOMAIN servers) : q = A!SetToSeq(DOMAIN servers)
        BY LiveSets, Listed
      <3>. DEFINE ss == [i \in DOMAIN q |-> A!Warned(<<Call("Reach", q[i], ""), Call("UnmountVolume", v, q[i])>>)]
      <3>3. ss \in [DOMAIN q -> Seq(Later(k))]
        <4>1. \A i \in DOMAIN q : q[i] \in DOMAIN servers
          OBVIOUS
        <4>. QED
          BY <4>1, <3>1, Zenon
      <3>4. A!FlattenSeq(ss) \in Seq(Later(k))
        BY <3>3, EachIn, Zenon
      <3>5. A!UnmountAndDeleteVolume(v) = A!FlattenSeq(ss) \o <<Call("DeleteVolume", v, "")>>
        BY <2>0, <3>2, Zenon DEF A!UnmountAndDeleteVolume, A!Each
      <3>. HIDE DEF ss
      <3>6. <<"DeleteVolume", v, "">> \in Later(k)
        BY LaterCalls, Zenon DEF Removing
      <3>. QED
        BY <3>4, <3>5, <3>6, Joined, OneCall, Zenon
    <2>. QED
      BY <2>0, NoCalls, Zenon DEF A!UnmountAndDeleteVolume
  <1>3. S!UnmountAndDeleteVolume(v) \in Seq(Later(k))
    <2>0. CASE v \in S!LiveVolumes
      <3>1. ASSUME NEW x \in DOMAIN servers
            PROVE  S!Warned(<<Call("Reach", x, ""), Call("UnmountVolume", v, x)>>) \in Seq(Later(k))
        <4>1. <<"Reach", x, "">> \in Later(k) /\ <<"UnmountVolume", v, x>> \in Later(k)
          BY LaterCalls, Zenon DEF Live, ServerOps, MountOps
        <4>. QED
          BY <4>1, TwoCalls, MarkedCalls, Zenon
      <3>2. PICK q \in Seq(DOMAIN servers) : q = S!SetToSeq(DOMAIN servers)
        BY LiveSets, Listed
      <3>. DEFINE ss == [i \in DOMAIN q |-> S!Warned(<<Call("Reach", q[i], ""), Call("UnmountVolume", v, q[i])>>)]
      <3>3. ss \in [DOMAIN q -> Seq(Later(k))]
        <4>1. \A i \in DOMAIN q : q[i] \in DOMAIN servers
          OBVIOUS
        <4>. QED
          BY <4>1, <3>1, Zenon
      <3>4. S!FlattenSeq(ss) \in Seq(Later(k))
        BY <3>3, EachIn, Zenon
      <3>5. S!UnmountAndDeleteVolume(v) = S!FlattenSeq(ss) \o <<Call("DeleteVolume", v, "")>>
        BY <2>0, <3>2, Zenon DEF S!UnmountAndDeleteVolume, S!Each
      <3>. HIDE DEF ss
      <3>6. <<"DeleteVolume", v, "">> \in Later(k)
        BY LaterCalls, Zenon DEF Removing
      <3>. QED
        BY <3>4, <3>5, <3>6, Joined, OneCall, Zenon
    <2>. QED
      BY <2>0, NoCalls, Zenon DEF S!UnmountAndDeleteVolume
  <1>. QED
    BY <1>1, <1>2, <1>3

LEMMA SweepFirewallsCalls ==
    ASSUME Live, NEW k, NEW desired
    PROVE  /\ H!SweepFirewalls(desired) \in Seq(Later(k))
           /\ A!SweepFirewalls(desired) \in Seq(Later(k))
           /\ S!SweepFirewalls(desired) \in Seq(Later(k))
  <1>1. H!SweepFirewalls(desired) \in Seq(Later(k))
    <2>0. IsFiniteSet(DOMAIN firewalls \ desired)
      BY LiveSets, FS_Subset
    <2>1. ASSUME NEW x \in (DOMAIN firewalls \ desired)
          PROVE  H!Warned(<<Call("DropFirewall", x, "")>>) \in Seq(Later(k))
      <3>1. <<"DropFirewall", x, "">> \in Later(k)
        BY LaterCalls, Zenon DEF Live
      <3>. QED
        BY <3>1, OneCall, MarkedCalls, Zenon
    <2>2. PICK q \in Seq((DOMAIN firewalls \ desired)) : q = H!SetToSeq((DOMAIN firewalls \ desired))
      BY <2>0, Listed
    <2>. DEFINE ss == [i \in DOMAIN q |-> H!Warned(<<Call("DropFirewall", q[i], "")>>)]
    <2>3. ss \in [DOMAIN q -> Seq(Later(k))]
      <3>1. \A i \in DOMAIN q : q[i] \in (DOMAIN firewalls \ desired)
        OBVIOUS
      <3>. QED
        BY <3>1, <2>1, Zenon
    <2>4. H!FlattenSeq(ss) \in Seq(Later(k))
      BY <2>3, EachIn, Zenon
    <2>5. H!SweepFirewalls(desired) = H!FlattenSeq(ss)
      BY <2>2, SameNames DEF H!SweepFirewalls, H!Each
    <2>. HIDE DEF ss
    <2>. QED
      BY <2>4, <2>5
  <1>2. A!SweepFirewalls(desired) \in Seq(Later(k))
    <2>0. IsFiniteSet(DOMAIN firewalls \ desired)
      BY LiveSets, FS_Subset
    <2>1. ASSUME NEW x \in (DOMAIN firewalls \ desired)
          PROVE  A!Warned(<<Call("DropFirewall", x, "")>>) \in Seq(Later(k))
      <3>1. <<"DropFirewall", x, "">> \in Later(k)
        BY LaterCalls, Zenon DEF Live
      <3>. QED
        BY <3>1, OneCall, MarkedCalls, Zenon
    <2>2. PICK q \in Seq((DOMAIN firewalls \ desired)) : q = A!SetToSeq((DOMAIN firewalls \ desired))
      BY <2>0, Listed
    <2>. DEFINE ss == [i \in DOMAIN q |-> A!Warned(<<Call("DropFirewall", q[i], "")>>)]
    <2>3. ss \in [DOMAIN q -> Seq(Later(k))]
      <3>1. \A i \in DOMAIN q : q[i] \in (DOMAIN firewalls \ desired)
        OBVIOUS
      <3>. QED
        BY <3>1, <2>1, Zenon
    <2>4. A!FlattenSeq(ss) \in Seq(Later(k))
      BY <2>3, EachIn, Zenon
    <2>5. A!SweepFirewalls(desired) = A!FlattenSeq(ss)
      BY <2>2, SameNames DEF A!SweepFirewalls, A!Each
    <2>. HIDE DEF ss
    <2>. QED
      BY <2>4, <2>5
  <1>3. S!SweepFirewalls(desired) \in Seq(Later(k))
    <2>0. IsFiniteSet(DOMAIN firewalls \ desired)
      BY LiveSets, FS_Subset
    <2>1. ASSUME NEW x \in (DOMAIN firewalls \ desired)
          PROVE  S!Warned(<<Call("DropFirewall", x, "")>>) \in Seq(Later(k))
      <3>1. <<"DropFirewall", x, "">> \in Later(k)
        BY LaterCalls, Zenon DEF Live
      <3>. QED
        BY <3>1, OneCall, MarkedCalls, Zenon
    <2>2. PICK q \in Seq((DOMAIN firewalls \ desired)) : q = S!SetToSeq((DOMAIN firewalls \ desired))
      BY <2>0, Listed
    <2>. DEFINE ss == [i \in DOMAIN q |-> S!Warned(<<Call("DropFirewall", q[i], "")>>)]
    <2>3. ss \in [DOMAIN q -> Seq(Later(k))]
      <3>1. \A i \in DOMAIN q : q[i] \in (DOMAIN firewalls \ desired)
        OBVIOUS
      <3>. QED
        BY <3>1, <2>1, Zenon
    <2>4. S!FlattenSeq(ss) \in Seq(Later(k))
      BY <2>3, EachIn, Zenon
    <2>5. S!SweepFirewalls(desired) = S!FlattenSeq(ss)
      BY <2>2, SameNames DEF S!SweepFirewalls, S!Each
    <2>. HIDE DEF ss
    <2>. QED
      BY <2>4, <2>5
  <1>. QED
    BY <1>1, <1>2, <1>3

\* What a deploy sweeps with.
Sweeping == {c \in Later("deploy") :
                c[1] \in {"RemoveServer", "SweepFirewalls", "RemoveVolume", "try", "warn"}}

LEMMA SweepingCalls ==
    /\ \A s \in Servers : <<"RemoveServer", s, "">> \in Sweeping
    /\ \A fs \in SUBSET Roles : <<"SweepFirewalls", fs, "">> \in Sweeping
    /\ \A v \in AllVolumes \ DesiredVolumes : <<"RemoveVolume", v, "">> \in Sweeping
    /\ <<"try", "", "">> \in Sweeping /\ <<"warn", "", "">> \in Sweeping
    /\ Seq(Sweeping) \subseteq Seq(Later("deploy"))
  <1>1. ASSUME NEW s \in Servers
        PROVE  <<"RemoveServer", s, "">> \in Sweeping
    <2>1. <<"RemoveServer", s, "">> \in Later("deploy")
      BY ServerCalls, Zenon
    <2>. QED
      BY <2>1 DEF Sweeping
  <1>2. ASSUME NEW fs \in SUBSET Roles
        PROVE  <<"SweepFirewalls", fs, "">> \in Sweeping
    <2>1. <<"SweepFirewalls", fs, "">> \in Later("deploy")
      BY LaterCalls, Zenon
    <2>. QED
      BY <2>1 DEF Sweeping
  <1>3. ASSUME NEW v \in AllVolumes \ DesiredVolumes
        PROVE  <<"RemoveVolume", v, "">> \in Sweeping
    <2>1. <<"RemoveVolume", v, "">> \in Later("deploy")
      BY LaterCalls, Zenon DEF Removing, MayRemove
    <2>. QED
      BY <2>1 DEF Sweeping
  <1>4. <<"try", "", "">> \in Sweeping /\ <<"warn", "", "">> \in Sweeping
    <2>1. <<"try", "", "">> \in Later("deploy") /\ <<"warn", "", "">> \in Later("deploy")
      BY PlainCalls, Zenon
    <2>. QED
      BY <2>1 DEF Sweeping
  <1>5. Seq(Sweeping) \subseteq Seq(Later("deploy"))
    BY SeqMonotonic DEF Sweeping
  <1>. QED
    BY <1>1, <1>2, <1>3, <1>4, <1>5, Zenon

LEMMA SweepingMarked ==
    ASSUME NEW p \in Seq(Sweeping)
    PROVE  H!Warned(p) \in Seq(Sweeping) /\ A!Warned(p) \in Seq(Sweeping) /\ S!Warned(p) \in Seq(Sweeping)
  BY SweepingCalls, Joined, OneCall, Zenon DEF H!Warned, A!Warned, S!Warned

LEMMA OrphanServerCalls ==
    ASSUME Live
    PROVE  /\ H!Each(DOMAIN servers \ Declared, LAMBDA s : <<Call("RemoveServer", s, "")>>) \in Seq(Sweeping)
           /\ A!Each(DOMAIN servers \ Declared, LAMBDA s : <<Call("RemoveServer", s, "")>>) \in Seq(Sweeping)
           /\ S!Each(DOMAIN servers \ Declared, LAMBDA s : <<Call("RemoveServer", s, "")>>) \in Seq(Sweeping)
  <1>1. H!Each(DOMAIN servers \ Declared, LAMBDA s : <<Call("RemoveServer", s, "")>>) \in Seq(Sweeping)
    <2>0. IsFiniteSet(DOMAIN servers \ Declared)
      BY LiveSets, FS_Subset
    <2>1. ASSUME NEW x \in (DOMAIN servers \ Declared)
          PROVE  <<Call("RemoveServer", x, "")>> \in Seq(Sweeping)
      <3>1. <<"RemoveServer", x, "">> \in Sweeping
        BY SweepingCalls, Zenon DEF Live
      <3>. QED
        BY <3>1, OneCall, Zenon
    <2>2. PICK q \in Seq((DOMAIN servers \ Declared)) : q = H!SetToSeq((DOMAIN servers \ Declared))
      BY <2>0, Listed
    <2>. DEFINE ss == [i \in DOMAIN q |-> <<Call("RemoveServer", q[i], "")>>]
    <2>3. ss \in [DOMAIN q -> Seq(Sweeping)]
      <3>1. \A i \in DOMAIN q : q[i] \in (DOMAIN servers \ Declared)
        OBVIOUS
      <3>. QED
        BY <3>1, <2>1, Zenon
    <2>4. H!FlattenSeq(ss) \in Seq(Sweeping)
      BY <2>3, EachIn, Zenon
    <2>5. H!Each(DOMAIN servers \ Declared, LAMBDA s : <<Call("RemoveServer", s, "")>>) = H!FlattenSeq(ss)
      BY <2>2, SameNames DEF H!Each
    <2>. HIDE DEF ss
    <2>. QED
      BY <2>4, <2>5, Zenon
  <1>2. A!Each(DOMAIN servers \ Declared, LAMBDA s : <<Call("RemoveServer", s, "")>>) \in Seq(Sweeping)
    <2>0. IsFiniteSet(DOMAIN servers \ Declared)
      BY LiveSets, FS_Subset
    <2>1. ASSUME NEW x \in (DOMAIN servers \ Declared)
          PROVE  <<Call("RemoveServer", x, "")>> \in Seq(Sweeping)
      <3>1. <<"RemoveServer", x, "">> \in Sweeping
        BY SweepingCalls, Zenon DEF Live
      <3>. QED
        BY <3>1, OneCall, Zenon
    <2>2. PICK q \in Seq((DOMAIN servers \ Declared)) : q = A!SetToSeq((DOMAIN servers \ Declared))
      BY <2>0, Listed
    <2>. DEFINE ss == [i \in DOMAIN q |-> <<Call("RemoveServer", q[i], "")>>]
    <2>3. ss \in [DOMAIN q -> Seq(Sweeping)]
      <3>1. \A i \in DOMAIN q : q[i] \in (DOMAIN servers \ Declared)
        OBVIOUS
      <3>. QED
        BY <3>1, <2>1, Zenon
    <2>4. A!FlattenSeq(ss) \in Seq(Sweeping)
      BY <2>3, EachIn, Zenon
    <2>5. A!Each(DOMAIN servers \ Declared, LAMBDA s : <<Call("RemoveServer", s, "")>>) = A!FlattenSeq(ss)
      BY <2>2, SameNames DEF A!Each
    <2>. HIDE DEF ss
    <2>. QED
      BY <2>4, <2>5, Zenon
  <1>3. S!Each(DOMAIN servers \ Declared, LAMBDA s : <<Call("RemoveServer", s, "")>>) \in Seq(Sweeping)
    <2>0. IsFiniteSet(DOMAIN servers \ Declared)
      BY LiveSets, FS_Subset
    <2>1. ASSUME NEW x \in (DOMAIN servers \ Declared)
          PROVE  <<Call("RemoveServer", x, "")>> \in Seq(Sweeping)
      <3>1. <<"RemoveServer", x, "">> \in Sweeping
        BY SweepingCalls, Zenon DEF Live
      <3>. QED
        BY <3>1, OneCall, Zenon
    <2>2. PICK q \in Seq((DOMAIN servers \ Declared)) : q = S!SetToSeq((DOMAIN servers \ Declared))
      BY <2>0, Listed
    <2>. DEFINE ss == [i \in DOMAIN q |-> <<Call("RemoveServer", q[i], "")>>]
    <2>3. ss \in [DOMAIN q -> Seq(Sweeping)]
      <3>1. \A i \in DOMAIN q : q[i] \in (DOMAIN servers \ Declared)
        OBVIOUS
      <3>. QED
        BY <3>1, <2>1, Zenon
    <2>4. S!FlattenSeq(ss) \in Seq(Sweeping)
      BY <2>3, EachIn, Zenon
    <2>5. S!Each(DOMAIN servers \ Declared, LAMBDA s : <<Call("RemoveServer", s, "")>>) = S!FlattenSeq(ss)
      BY <2>2, SameNames DEF S!Each
    <2>. HIDE DEF ss
    <2>. QED
      BY <2>4, <2>5, Zenon
  <1>. QED
    BY <1>1, <1>2, <1>3, Zenon

LEMMA OrphanVolumeCalls ==
    ASSUME Live
    PROVE  /\ H!Each(H!LiveVolumes \ DesiredVolumes,
              LAMBDA v : H!Warned(<<Call("RemoveVolume", v, "")>>)) \in Seq(Sweeping)
           /\ A!Each(A!LiveVolumes \ DesiredVolumes,
              LAMBDA v : A!Warned(<<Call("RemoveVolume", v, "")>>)) \in Seq(Sweeping)
           /\ S!Each(S!LiveVolumes \ DesiredVolumes,
              LAMBDA v : S!Warned(<<Call("RemoveVolume", v, "")>>)) \in Seq(Sweeping)
  <1>1. H!Each(H!LiveVolumes \ DesiredVolumes,
              LAMBDA v : H!Warned(<<Call("RemoveVolume", v, "")>>)) \in Seq(Sweeping)
    <2>0. IsFiniteSet(H!LiveVolumes \ DesiredVolumes) /\ H!LiveVolumes \subseteq AllVolumes
      BY LiveSets, FS_Subset DEF H!LiveVolumes, Live
    <2>1. ASSUME NEW x \in (H!LiveVolumes \ DesiredVolumes)
          PROVE  H!Warned(<<Call("RemoveVolume", x, "")>>) \in Seq(Sweeping)
      <3>1. <<"RemoveVolume", x, "">> \in Sweeping
        BY <2>0, SweepingCalls, Zenon
      <3>. QED
        BY <3>1, OneCall, SweepingMarked, Zenon
    <2>2. PICK q \in Seq((H!LiveVolumes \ DesiredVolumes)) : q = H!SetToSeq((H!LiveVolumes \ DesiredVolumes))
      BY <2>0, Listed
    <2>. DEFINE ss == [i \in DOMAIN q |-> H!Warned(<<Call("RemoveVolume", q[i], "")>>)]
    <2>3. ss \in [DOMAIN q -> Seq(Sweeping)]
      <3>1. \A i \in DOMAIN q : q[i] \in (H!LiveVolumes \ DesiredVolumes)
        OBVIOUS
      <3>. QED
        BY <3>1, <2>1, Zenon
    <2>4. H!FlattenSeq(ss) \in Seq(Sweeping)
      BY <2>3, EachIn, Zenon
    <2>5. H!Each(H!LiveVolumes \ DesiredVolumes,
                  LAMBDA v : H!Warned(<<Call("RemoveVolume", v, "")>>)) = H!FlattenSeq(ss)
      BY <2>2, SameNames DEF H!Each
    <2>. HIDE DEF ss
    <2>. QED
      BY <2>4, <2>5, Zenon
  <1>2. A!Each(A!LiveVolumes \ DesiredVolumes,
              LAMBDA v : A!Warned(<<Call("RemoveVolume", v, "")>>)) \in Seq(Sweeping)
    <2>0. IsFiniteSet(A!LiveVolumes \ DesiredVolumes) /\ A!LiveVolumes \subseteq AllVolumes
      BY LiveSets, FS_Subset DEF A!LiveVolumes, Live
    <2>1. ASSUME NEW x \in (A!LiveVolumes \ DesiredVolumes)
          PROVE  A!Warned(<<Call("RemoveVolume", x, "")>>) \in Seq(Sweeping)
      <3>1. <<"RemoveVolume", x, "">> \in Sweeping
        BY <2>0, SweepingCalls, Zenon
      <3>. QED
        BY <3>1, OneCall, SweepingMarked, Zenon
    <2>2. PICK q \in Seq((A!LiveVolumes \ DesiredVolumes)) : q = A!SetToSeq((A!LiveVolumes \ DesiredVolumes))
      BY <2>0, Listed
    <2>. DEFINE ss == [i \in DOMAIN q |-> A!Warned(<<Call("RemoveVolume", q[i], "")>>)]
    <2>3. ss \in [DOMAIN q -> Seq(Sweeping)]
      <3>1. \A i \in DOMAIN q : q[i] \in (A!LiveVolumes \ DesiredVolumes)
        OBVIOUS
      <3>. QED
        BY <3>1, <2>1, Zenon
    <2>4. A!FlattenSeq(ss) \in Seq(Sweeping)
      BY <2>3, EachIn, Zenon
    <2>5. A!Each(A!LiveVolumes \ DesiredVolumes,
                  LAMBDA v : A!Warned(<<Call("RemoveVolume", v, "")>>)) = A!FlattenSeq(ss)
      BY <2>2, SameNames DEF A!Each
    <2>. HIDE DEF ss
    <2>. QED
      BY <2>4, <2>5, Zenon
  <1>3. S!Each(S!LiveVolumes \ DesiredVolumes,
              LAMBDA v : S!Warned(<<Call("RemoveVolume", v, "")>>)) \in Seq(Sweeping)
    <2>0. IsFiniteSet(S!LiveVolumes \ DesiredVolumes) /\ S!LiveVolumes \subseteq AllVolumes
      BY LiveSets, FS_Subset DEF S!LiveVolumes, Live
    <2>1. ASSUME NEW x \in (S!LiveVolumes \ DesiredVolumes)
          PROVE  S!Warned(<<Call("RemoveVolume", x, "")>>) \in Seq(Sweeping)
      <3>1. <<"RemoveVolume", x, "">> \in Sweeping
        BY <2>0, SweepingCalls, Zenon
      <3>. QED
        BY <3>1, OneCall, SweepingMarked, Zenon
    <2>2. PICK q \in Seq((S!LiveVolumes \ DesiredVolumes)) : q = S!SetToSeq((S!LiveVolumes \ DesiredVolumes))
      BY <2>0, Listed
    <2>. DEFINE ss == [i \in DOMAIN q |-> S!Warned(<<Call("RemoveVolume", q[i], "")>>)]
    <2>3. ss \in [DOMAIN q -> Seq(Sweeping)]
      <3>1. \A i \in DOMAIN q : q[i] \in (S!LiveVolumes \ DesiredVolumes)
        OBVIOUS
      <3>. QED
        BY <3>1, <2>1, Zenon
    <2>4. S!FlattenSeq(ss) \in Seq(Sweeping)
      BY <2>3, EachIn, Zenon
    <2>5. S!Each(S!LiveVolumes \ DesiredVolumes,
                  LAMBDA v : S!Warned(<<Call("RemoveVolume", v, "")>>)) = S!FlattenSeq(ss)
      BY <2>2, SameNames DEF S!Each
    <2>. HIDE DEF ss
    <2>. QED
      BY <2>4, <2>5, Zenon
  <1>. QED
    BY <1>1, <1>2, <1>3, Zenon

LEMMA TeardownOrphansCalls ==
    ASSUME Live
    PROVE  /\ H!TeardownOrphans \in Seq(Sweeping)
           /\ A!TeardownOrphans \in Seq(Sweeping)
           /\ S!TeardownOrphans \in Seq(Sweeping)
  <1>1. H!TeardownOrphans \in Seq(Sweeping)
    <2>1. <<"SweepFirewalls", DesiredFirewalls, "">> \in Sweeping
      BY DeclaredNames, SweepingCalls, Zenon
    <2>2. <<Call("SweepFirewalls", DesiredFirewalls, "")>> \in Seq(Sweeping)
      BY <2>1, NoCalls, OneCall, Zenon
    <2>3. H!TeardownOrphans =
              IF DOMAIN servers = {} THEN <<>>
              ELSE H!Each(DOMAIN servers \ Declared, LAMBDA s : <<Call("RemoveServer", s, "")>>)
                   \o <<Call("SweepFirewalls", DesiredFirewalls, "")>>
                   \o H!Each(H!LiveVolumes \ DesiredVolumes,
                           LAMBDA v : H!Warned(<<Call("RemoveVolume", v, "")>>))
      BY SameNames, Zenon DEF H!TeardownOrphans
    <2>. QED
      BY <2>2, <2>3, OrphanServerCalls, OrphanVolumeCalls, Joined, NoCalls, Zenon
  <1>2. A!TeardownOrphans \in Seq(Sweeping)
    <2>1. <<"SweepFirewalls", DesiredFirewalls, "">> \in Sweeping
      BY DeclaredNames, SweepingCalls, Zenon
    <2>2. (IF cfg.custom THEN <<Call("SweepFirewalls", DesiredFirewalls, "")>> ELSE <<>>) \in Seq(Sweeping)
      BY <2>1, NoCalls, OneCall, Zenon
    <2>3. A!TeardownOrphans =
              IF DOMAIN servers = {} THEN <<>>
              ELSE A!Each(DOMAIN servers \ Declared, LAMBDA s : <<Call("RemoveServer", s, "")>>)
                   \o (IF cfg.custom THEN <<Call("SweepFirewalls", DesiredFirewalls, "")>> ELSE <<>>)
                   \o A!Each(A!LiveVolumes \ DesiredVolumes,
                           LAMBDA v : A!Warned(<<Call("RemoveVolume", v, "")>>))
      BY SameNames, Zenon DEF A!TeardownOrphans
    <2>. QED
      BY <2>2, <2>3, OrphanServerCalls, OrphanVolumeCalls, Joined, NoCalls, Zenon
  <1>3. S!TeardownOrphans \in Seq(Sweeping)
    <2>1. <<"SweepFirewalls", DesiredFirewalls, "">> \in Sweeping
      BY DeclaredNames, SweepingCalls, Zenon
    <2>2. (IF cfg.custom THEN <<Call("SweepFirewalls", DesiredFirewalls, "")>> ELSE <<>>) \in Seq(Sweeping)
      BY <2>1, NoCalls, OneCall, Zenon
    <2>3. S!TeardownOrphans =
              IF DOMAIN servers = {} THEN <<>>
              ELSE S!Each(DOMAIN servers \ Declared, LAMBDA s : <<Call("RemoveServer", s, "")>>)
                   \o (IF cfg.custom THEN <<Call("SweepFirewalls", DesiredFirewalls, "")>> ELSE <<>>)
                   \o S!Each(S!LiveVolumes \ DesiredVolumes,
                           LAMBDA v : S!Warned(<<Call("RemoveVolume", v, "")>>))
      BY SameNames, Zenon DEF S!TeardownOrphans
    <2>. QED
      BY <2>2, <2>3, OrphanServerCalls, OrphanVolumeCalls, Joined, NoCalls, Zenon
  <1>. QED
    BY <1>1, <1>2, <1>3

LEMMA GoneCalls ==
    ASSUME NEW k, NEW vs \in SUBSET AllVolumes, IsFiniteSet(vs),
           \A v \in vs : v \in Volumes => MayRemove(k, v)
    PROVE  /\ H!Each(vs, LAMBDA v : H!Collected(<<Call("RemoveVolume", v, "")>>)) \in Seq(Later(k))
           /\ A!Each(vs, LAMBDA v : A!Collected(<<Call("RemoveVolume", v, "")>>)) \in Seq(Later(k))
           /\ S!Each(vs, LAMBDA v : S!Collected(<<Call("RemoveVolume", v, "")>>)) \in Seq(Later(k))
  <1>1. H!Each(vs, LAMBDA v : H!Collected(<<Call("RemoveVolume", v, "")>>)) \in Seq(Later(k))
    <2>1. ASSUME NEW x \in vs
          PROVE  H!Collected(<<Call("RemoveVolume", x, "")>>) \in Seq(Later(k))
      <3>1. <<"RemoveVolume", x, "">> \in Later(k)
        BY LaterCalls, Zenon DEF Removing
      <3>. QED
        BY <3>1, OneCall, MarkedCalls, Zenon
    <2>2. PICK q \in Seq(vs) : q = H!SetToSeq(vs)
      BY Listed
    <2>. DEFINE ss == [i \in DOMAIN q |-> H!Collected(<<Call("RemoveVolume", q[i], "")>>)]
    <2>3. ss \in [DOMAIN q -> Seq(Later(k))]
      <3>1. \A i \in DOMAIN q : q[i] \in vs
        OBVIOUS
      <3>. QED
        BY <3>1, <2>1, Zenon
    <2>4. H!FlattenSeq(ss) \in Seq(Later(k))
      BY <2>3, EachIn, Zenon
    <2>5. H!Each(vs, LAMBDA v : H!Collected(<<Call("RemoveVolume", v, "")>>)) = H!FlattenSeq(ss)
      BY <2>2, SameNames DEF H!Each
    <2>. HIDE DEF ss
    <2>. QED
      BY <2>4, <2>5, Zenon
  <1>2. A!Each(vs, LAMBDA v : A!Collected(<<Call("RemoveVolume", v, "")>>)) \in Seq(Later(k))
    <2>1. ASSUME NEW x \in vs
          PROVE  A!Collected(<<Call("RemoveVolume", x, "")>>) \in Seq(Later(k))
      <3>1. <<"RemoveVolume", x, "">> \in Later(k)
        BY LaterCalls, Zenon DEF Removing
      <3>. QED
        BY <3>1, OneCall, MarkedCalls, Zenon
    <2>2. PICK q \in Seq(vs) : q = A!SetToSeq(vs)
      BY Listed
    <2>. DEFINE ss == [i \in DOMAIN q |-> A!Collected(<<Call("RemoveVolume", q[i], "")>>)]
    <2>3. ss \in [DOMAIN q -> Seq(Later(k))]
      <3>1. \A i \in DOMAIN q : q[i] \in vs
        OBVIOUS
      <3>. QED
        BY <3>1, <2>1, Zenon
    <2>4. A!FlattenSeq(ss) \in Seq(Later(k))
      BY <2>3, EachIn, Zenon
    <2>5. A!Each(vs, LAMBDA v : A!Collected(<<Call("RemoveVolume", v, "")>>)) = A!FlattenSeq(ss)
      BY <2>2, SameNames DEF A!Each
    <2>. HIDE DEF ss
    <2>. QED
      BY <2>4, <2>5, Zenon
  <1>3. S!Each(vs, LAMBDA v : S!Collected(<<Call("RemoveVolume", v, "")>>)) \in Seq(Later(k))
    <2>1. ASSUME NEW x \in vs
          PROVE  S!Collected(<<Call("RemoveVolume", x, "")>>) \in Seq(Later(k))
      <3>1. <<"RemoveVolume", x, "">> \in Later(k)
        BY LaterCalls, Zenon DEF Removing
      <3>. QED
        BY <3>1, OneCall, MarkedCalls, Zenon
    <2>2. PICK q \in Seq(vs) : q = S!SetToSeq(vs)
      BY Listed
    <2>. DEFINE ss == [i \in DOMAIN q |-> S!Collected(<<Call("RemoveVolume", q[i], "")>>)]
    <2>3. ss \in [DOMAIN q -> Seq(Later(k))]
      <3>1. \A i \in DOMAIN q : q[i] \in vs
        OBVIOUS
      <3>. QED
        BY <3>1, <2>1, Zenon
    <2>4. S!FlattenSeq(ss) \in Seq(Later(k))
      BY <2>3, EachIn, Zenon
    <2>5. S!Each(vs, LAMBDA v : S!Collected(<<Call("RemoveVolume", v, "")>>)) = S!FlattenSeq(ss)
      BY <2>2, SameNames DEF S!Each
    <2>. HIDE DEF ss
    <2>. QED
      BY <2>4, <2>5, Zenon
  <1>. QED
    BY <1>1, <1>2, <1>3, Zenon

LEMMA NukeCalls ==
    ASSUME NEW k, NEW ns \in SUBSET Servers, IsFiniteSet(ns)
    PROVE  /\ H!Each(ns, LAMBDA s : H!Collected(<<Call("RemoveServer", s, "")>>)) \in Seq(Later(k))
           /\ A!Each(ns, LAMBDA s : A!Collected(<<Call("RemoveServer", s, "")>>)) \in Seq(Later(k))
           /\ S!Each(ns, LAMBDA s : S!Collected(<<Call("RemoveServer", s, "")>>)) \in Seq(Later(k))
  <1>1. H!Each(ns, LAMBDA s : H!Collected(<<Call("RemoveServer", s, "")>>)) \in Seq(Later(k))
    <2>1. ASSUME NEW x \in ns
          PROVE  H!Collected(<<Call("RemoveServer", x, "")>>) \in Seq(Later(k))
      <3>1. <<"RemoveServer", x, "">> \in Later(k)
        BY ServerCalls, Zenon
      <3>. QED
        BY <3>1, OneCall, MarkedCalls, Zenon
    <2>2. PICK q \in Seq(ns) : q = H!SetToSeq(ns)
      BY Listed
    <2>. DEFINE ss == [i \in DOMAIN q |-> H!Collected(<<Call("RemoveServer", q[i], "")>>)]
    <2>3. ss \in [DOMAIN q -> Seq(Later(k))]
      <3>1. \A i \in DOMAIN q : q[i] \in ns
        OBVIOUS
      <3>. QED
        BY <3>1, <2>1, Zenon
    <2>4. H!FlattenSeq(ss) \in Seq(Later(k))
      BY <2>3, EachIn, Zenon
    <2>5. H!Each(ns, LAMBDA s : H!Collected(<<Call("RemoveServer", s, "")>>)) = H!FlattenSeq(ss)
      BY <2>2, SameNames DEF H!Each
    <2>. HIDE DEF ss
    <2>. QED
      BY <2>4, <2>5, Zenon
  <1>2. A!Each(ns, LAMBDA s : A!Collected(<<Call("RemoveServer", s, "")>>)) \in Seq(Later(k))
    <2>1. ASSUME NEW x \in ns
          PROVE  A!Collected(<<Call("RemoveServer", x, "")>>) \in Seq(Later(k))
      <3>1. <<"RemoveServer", x, "">> \in Later(k)
        BY ServerCalls, Zenon
      <3>. QED
        BY <3>1, OneCall, MarkedCalls, Zenon
    <2>2. PICK q \in Seq(ns) : q = A!SetToSeq(ns)
      BY Listed
    <2>. DEFINE ss == [i \in DOMAIN q |-> A!Collected(<<Call("RemoveServer", q[i], "")>>)]
    <2>3. ss \in [DOMAIN q -> Seq(Later(k))]
      <3>1. \A i \in DOMAIN q : q[i] \in ns
        OBVIOUS
      <3>. QED
        BY <3>1, <2>1, Zenon
    <2>4. A!FlattenSeq(ss) \in Seq(Later(k))
      BY <2>3, EachIn, Zenon
    <2>5. A!Each(ns, LAMBDA s : A!Collected(<<Call("RemoveServer", s, "")>>)) = A!FlattenSeq(ss)
      BY <2>2, SameNames DEF A!Each
    <2>. HIDE DEF ss
    <2>. QED
      BY <2>4, <2>5, Zenon
  <1>3. S!Each(ns, LAMBDA s : S!Collected(<<Call("RemoveServer", s, "")>>)) \in Seq(Later(k))
    <2>1. ASSUME NEW x \in ns
          PROVE  S!Collected(<<Call("RemoveServer", x, "")>>) \in Seq(Later(k))
      <3>1. <<"RemoveServer", x, "">> \in Later(k)
        BY ServerCalls, Zenon
      <3>. QED
        BY <3>1, OneCall, MarkedCalls, Zenon
    <2>2. PICK q \in Seq(ns) : q = S!SetToSeq(ns)
      BY Listed
    <2>. DEFINE ss == [i \in DOMAIN q |-> S!Collected(<<Call("RemoveServer", q[i], "")>>)]
    <2>3. ss \in [DOMAIN q -> Seq(Later(k))]
      <3>1. \A i \in DOMAIN q : q[i] \in ns
        OBVIOUS
      <3>. QED
        BY <3>1, <2>1, Zenon
    <2>4. S!FlattenSeq(ss) \in Seq(Later(k))
      BY <2>3, EachIn, Zenon
    <2>5. S!Each(ns, LAMBDA s : S!Collected(<<Call("RemoveServer", s, "")>>)) = S!FlattenSeq(ss)
      BY <2>2, SameNames DEF S!Each
    <2>. HIDE DEF ss
    <2>. QED
      BY <2>4, <2>5, Zenon
  <1>. QED
    BY <1>1, <1>2, <1>3, Zenon

\* No volume of nvoi.yaml is called like a builder's cache.
CachesApart == \A s \in Servers : Cache(s) \notin Volumes

Destroying(deleteVolumes) == IF deleteVolumes THEN "destroy volumes" ELSE "destroy"

LEMMA TeardownCalls ==
    ASSUME Live, CachesApart, NEW deleteVolumes \in BOOLEAN
    PROVE  /\ H!Teardown(deleteVolumes) \in Seq(Later(Destroying(deleteVolumes)))
           /\ A!Teardown(deleteVolumes) \in Seq(Later(Destroying(deleteVolumes)))
           /\ S!Teardown(deleteVolumes) \in Seq(Later(Destroying(deleteVolumes)))
  <1>1. H!Teardown(deleteVolumes) \in Seq(Later(Destroying(deleteVolumes)))
    <2>. DEFINE k == Destroying(deleteVolumes)
                caches == {Cache(s) : s \in WithRole("builder")}
                Gone(vs) == H!Each(vs, LAMBDA v : H!Collected(<<Call("RemoveVolume", v, "")>>))
                Nuke(ns) == H!Each(ns, LAMBDA s : H!Collected(<<Call("RemoveServer", s, "")>>))
    <2>1. (IF deleteVolumes THEN Gone(DOMAIN cfg.volume) ELSE <<>>) \in Seq(Later(k))
      <3>1. CASE deleteVolumes
        <4>1. \A v : MayRemove(k, v)
          BY <3>1 DEF MayRemove, Destroying
        <4>2. DOMAIN cfg.volume \in SUBSET AllVolumes
          BY LiveSets DEF AllVolumes
        <4>. HIDE DEF k
        <4>. QED
          BY <3>1, <4>1, <4>2, LiveSets, GoneCalls, Zenon
      <3>2. CASE ~ deleteVolumes
        BY <3>2, NoCalls
      <3>. QED
        BY <3>1, <3>2, Zenon
    <2>2. Gone(caches) \in Seq(Later(k))
      <3>1. caches \in SUBSET AllVolumes /\ \A v \in caches : v \notin Volumes
        BY DeclaredNames, LiveSets DEF CachesApart
      <3>2. IsFiniteSet(caches)
        BY <3>1, FiniteSets, FS_Subset
      <3>. HIDE DEF k, caches
      <3>. QED
        BY <3>1, <3>2, GoneCalls, Zenon
    <2>3. \A r : Nuke(WithRole(r)) \in Seq(Later(k))
      <3>1. \A r : WithRole(r) \in SUBSET Servers /\ IsFiniteSet(WithRole(r))
        BY DeclaredNames, LiveSets
      <3>. HIDE DEF k
      <3>. QED
        BY <3>1, NukeCalls, Zenon
    <2>4. <<Call("SweepFirewalls", {}, "")>> \in Seq(Later(k))
      <3>1. <<"SweepFirewalls", {}, "">> \in Later(k)
        BY LaterCalls, Zenon
      <3>. QED
        BY <3>1, OneCall, Zenon
    <2>5. H!Collected(<<Call("DeleteNetwork", "", "")>>) \in Seq(Later(k))
      BY PlainCalls, OneCall, MarkedCalls, Zenon
    <2>6. H!Teardown(deleteVolumes) =
              (IF deleteVolumes THEN Gone(DOMAIN cfg.volume) ELSE <<>>)
              \o Gone(caches)
              \o Nuke(WithRole("builder"))
              \o Nuke(WithRole("worker"))
              \o Nuke(WithRole("master"))
              \o <<Call("SweepFirewalls", {}, "")>>
              \o H!Collected(<<Call("DeleteNetwork", "", "")>>)
      BY SameNames, Zenon DEF H!Teardown
    <2>7. H!Teardown(deleteVolumes) \in Seq(Later(k))
      <3>. HIDE DEF k, caches, Gone, Nuke
      <3>1. /\ Nuke(WithRole("builder")) \in Seq(Later(k))
            /\ Nuke(WithRole("worker")) \in Seq(Later(k))
            /\ Nuke(WithRole("master")) \in Seq(Later(k))
        BY <2>3, Zenon
      <3>. DEFINE declared == IF deleteVolumes THEN Gone(DOMAIN cfg.volume) ELSE <<>>
                  firewalling == <<Call("SweepFirewalls", {}, "")>>
                  networking == H!Collected(<<Call("DeleteNetwork", "", "")>>)
      <3>2. declared \in Seq(Later(k)) /\ firewalling \in Seq(Later(k)) /\ networking \in Seq(Later(k))
        BY <2>1, <2>4, <2>5, Zenon
      <3>3. H!Teardown(deleteVolumes) =
                declared \o Gone(caches) \o Nuke(WithRole("builder")) \o Nuke(WithRole("worker"))
                \o Nuke(WithRole("master")) \o firewalling \o networking
        BY <2>6, Zenon
      <3>. HIDE DEF declared, firewalling, networking
      <3>. QED
        BY <2>2, <3>1, <3>2, <3>3, SevenJoined
    <2>. QED
      BY <2>7
  <1>2. A!Teardown(deleteVolumes) \in Seq(Later(Destroying(deleteVolumes)))
    <2>. DEFINE k == Destroying(deleteVolumes)
                caches == {Cache(s) : s \in WithRole("builder")}
                Gone(vs) == A!Each(vs, LAMBDA v : A!Collected(<<Call("RemoveVolume", v, "")>>))
                Nuke(ns) == A!Each(ns, LAMBDA s : A!Collected(<<Call("RemoveServer", s, "")>>))
    <2>1. (IF deleteVolumes THEN Gone(DOMAIN cfg.volume) ELSE <<>>) \in Seq(Later(k))
      <3>1. CASE deleteVolumes
        <4>1. \A v : MayRemove(k, v)
          BY <3>1 DEF MayRemove, Destroying
        <4>2. DOMAIN cfg.volume \in SUBSET AllVolumes
          BY LiveSets DEF AllVolumes
        <4>. HIDE DEF k
        <4>. QED
          BY <3>1, <4>1, <4>2, LiveSets, GoneCalls, Zenon
      <3>2. CASE ~ deleteVolumes
        BY <3>2, NoCalls
      <3>. QED
        BY <3>1, <3>2, Zenon
    <2>2. Gone(caches) \in Seq(Later(k))
      <3>1. caches \in SUBSET AllVolumes /\ \A v \in caches : v \notin Volumes
        BY DeclaredNames, LiveSets DEF CachesApart
      <3>2. IsFiniteSet(caches)
        BY <3>1, FiniteSets, FS_Subset
      <3>. HIDE DEF k, caches
      <3>. QED
        BY <3>1, <3>2, GoneCalls, Zenon
    <2>3. \A r : Nuke(WithRole(r)) \in Seq(Later(k))
      <3>1. \A r : WithRole(r) \in SUBSET Servers /\ IsFiniteSet(WithRole(r))
        BY DeclaredNames, LiveSets
      <3>. HIDE DEF k
      <3>. QED
        BY <3>1, NukeCalls, Zenon
    <2>4. <<Call("SweepFirewalls", {}, "")>> \in Seq(Later(k))
      <3>1. <<"SweepFirewalls", {}, "">> \in Later(k)
        BY LaterCalls, Zenon
      <3>. QED
        BY <3>1, OneCall, Zenon
    <2>5. A!Collected(<<Call("DeleteNetwork", "", "")>>) \in Seq(Later(k))
      BY PlainCalls, OneCall, MarkedCalls, Zenon
    <2>6. A!Teardown(deleteVolumes) =
              (IF deleteVolumes THEN Gone(DOMAIN cfg.volume) ELSE <<>>)
              \o Gone(caches)
              \o Nuke(WithRole("builder"))
              \o Nuke(WithRole("worker"))
              \o Nuke(WithRole("master"))
              \o <<Call("SweepFirewalls", {}, "")>>
              \o A!Collected(<<Call("DeleteNetwork", "", "")>>)
      BY SameNames, Zenon DEF A!Teardown
    <2>7. A!Teardown(deleteVolumes) \in Seq(Later(k))
      <3>. HIDE DEF k, caches, Gone, Nuke
      <3>1. /\ Nuke(WithRole("builder")) \in Seq(Later(k))
            /\ Nuke(WithRole("worker")) \in Seq(Later(k))
            /\ Nuke(WithRole("master")) \in Seq(Later(k))
        BY <2>3, Zenon
      <3>. DEFINE declared == IF deleteVolumes THEN Gone(DOMAIN cfg.volume) ELSE <<>>
                  firewalling == <<Call("SweepFirewalls", {}, "")>>
                  networking == A!Collected(<<Call("DeleteNetwork", "", "")>>)
      <3>2. declared \in Seq(Later(k)) /\ firewalling \in Seq(Later(k)) /\ networking \in Seq(Later(k))
        BY <2>1, <2>4, <2>5, Zenon
      <3>3. A!Teardown(deleteVolumes) =
                declared \o Gone(caches) \o Nuke(WithRole("builder")) \o Nuke(WithRole("worker"))
                \o Nuke(WithRole("master")) \o firewalling \o networking
        BY <2>6, Zenon
      <3>. HIDE DEF declared, firewalling, networking
      <3>. QED
        BY <2>2, <3>1, <3>2, <3>3, SevenJoined
    <2>. QED
      BY <2>7
  <1>3. S!Teardown(deleteVolumes) \in Seq(Later(Destroying(deleteVolumes)))
    <2>. DEFINE k == Destroying(deleteVolumes)
                caches == {Cache(s) : s \in WithRole("builder")}
                Gone(vs) == S!Each(vs, LAMBDA v : S!Collected(<<Call("RemoveVolume", v, "")>>))
                Nuke(ns) == S!Each(ns, LAMBDA s : S!Collected(<<Call("RemoveServer", s, "")>>))
    <2>1. (IF deleteVolumes THEN Gone(DOMAIN cfg.volume) ELSE <<>>) \in Seq(Later(k))
      <3>1. CASE deleteVolumes
        <4>1. \A v : MayRemove(k, v)
          BY <3>1 DEF MayRemove, Destroying
        <4>2. DOMAIN cfg.volume \in SUBSET AllVolumes
          BY LiveSets DEF AllVolumes
        <4>. HIDE DEF k
        <4>. QED
          BY <3>1, <4>1, <4>2, LiveSets, GoneCalls, Zenon
      <3>2. CASE ~ deleteVolumes
        BY <3>2, NoCalls
      <3>. QED
        BY <3>1, <3>2, Zenon
    <2>2. Gone(caches) \in Seq(Later(k))
      <3>1. caches \in SUBSET AllVolumes /\ \A v \in caches : v \notin Volumes
        BY DeclaredNames, LiveSets DEF CachesApart
      <3>2. IsFiniteSet(caches)
        BY <3>1, FiniteSets, FS_Subset
      <3>. HIDE DEF k, caches
      <3>. QED
        BY <3>1, <3>2, GoneCalls, Zenon
    <2>3. \A r : Nuke(WithRole(r)) \in Seq(Later(k))
      <3>1. \A r : WithRole(r) \in SUBSET Servers /\ IsFiniteSet(WithRole(r))
        BY DeclaredNames, LiveSets
      <3>. HIDE DEF k
      <3>. QED
        BY <3>1, NukeCalls, Zenon
    <2>4. <<Call("SweepFirewalls", {}, "")>> \in Seq(Later(k))
      <3>1. <<"SweepFirewalls", {}, "">> \in Later(k)
        BY LaterCalls, Zenon
      <3>. QED
        BY <3>1, OneCall, Zenon
    <2>5. S!Collected(<<Call("DeleteNetwork", "", "")>>) \in Seq(Later(k))
      BY PlainCalls, OneCall, MarkedCalls, Zenon
    <2>6. S!Teardown(deleteVolumes) =
              (IF deleteVolumes THEN Gone(DOMAIN cfg.volume) ELSE <<>>)
              \o Gone(caches)
              \o Nuke(WithRole("builder"))
              \o Nuke(WithRole("worker"))
              \o Nuke(WithRole("master"))
              \o <<Call("SweepFirewalls", {}, "")>>
              \o S!Collected(<<Call("DeleteNetwork", "", "")>>)
      BY SameNames, Zenon DEF S!Teardown
    <2>7. S!Teardown(deleteVolumes) \in Seq(Later(k))
      <3>. HIDE DEF k, caches, Gone, Nuke
      <3>1. /\ Nuke(WithRole("builder")) \in Seq(Later(k))
            /\ Nuke(WithRole("worker")) \in Seq(Later(k))
            /\ Nuke(WithRole("master")) \in Seq(Later(k))
        BY <2>3, Zenon
      <3>. DEFINE declared == IF deleteVolumes THEN Gone(DOMAIN cfg.volume) ELSE <<>>
                  firewalling == <<Call("SweepFirewalls", {}, "")>>
                  networking == S!Collected(<<Call("DeleteNetwork", "", "")>>)
      <3>2. declared \in Seq(Later(k)) /\ firewalling \in Seq(Later(k)) /\ networking \in Seq(Later(k))
        BY <2>1, <2>4, <2>5, Zenon
      <3>3. S!Teardown(deleteVolumes) =
                declared \o Gone(caches) \o Nuke(WithRole("builder")) \o Nuke(WithRole("worker"))
                \o Nuke(WithRole("master")) \o firewalling \o networking
        BY <2>6, Zenon
      <3>. HIDE DEF declared, firewalling, networking
      <3>. QED
        BY <2>2, <3>1, <3>2, <3>3, SevenJoined
    <2>. QED
      BY <2>7
  <1>. QED
    BY <1>1, <1>2, <1>3

----------------------------------------------------------------------------
(***************************************************************************)
(* What the calls of Infra come to.                                        *)
(***************************************************************************)
LEMMA DeployCalls == Complete("deploy", Deploy)
  <1>1. <<"ProvisionBuilders", "", "">> \in Later("deploy") /\ <<"Connect", "", "">> \in Later("deploy")
    BY PlainCalls, Zenon
  <1>2. <<"Plan", "", "">> \in Endings("deploy")
    BY DEF Endings
  <1>3. \A a, b, c : <<a, b>> \o <<c>> = <<a, b, c>>
    <2>1. ASSUME NEW a, NEW b, NEW c
          PROVE  <<a, b>> \o <<c>> = <<a, b, c>>
      <3>. DEFINE P == {a, b, c}
                  x == <<a, b>>
                  y == <<c>>
                  z == <<a, b, c>>
      <3>1. x \in Seq(P) /\ y \in Seq(P) /\ z \in Seq(P)
        BY OneCall, TwoCalls, ThreeCalls
      <3>2. /\ Len(x) = 2 /\ Len(y) = 1 /\ Len(z) = 3
            /\ x[1] = a /\ x[2] = b /\ y[1] = c
            /\ z[1] = a /\ z[2] = b /\ z[3] = c
        OBVIOUS
      <3>. HIDE DEF x, y, z, P
      <3>0. /\ x \o y \in Seq(P) /\ Len(x \o y) = Len(x) + Len(y)
            /\ \A i \in 1..(Len(x) + Len(y)) :
                  (x \o y)[i] = IF i <= Len(x) THEN x[i] ELSE y[i - Len(x)]
        BY <3>1, ConcatProperties, Zenon
      <3>3. x \o y \in Seq(P) /\ Len(x \o y) = 3
            /\ \A i \in 1..3 : (x \o y)[i] = IF i <= 2 THEN x[i] ELSE y[i - 2]
        BY <3>0, <3>2
      <3>4. \A i \in 1..3 : (x \o y)[i] = z[i]
        BY <3>2, <3>3
      <3>5. x \o y = z
        BY <3>1, <3>2, <3>3, <3>4, SeqEqual
      <3>. QED
        BY <3>5 DEF x, y, z
    <2>. QED
      BY <2>1
  <1>4. Deploy = <<Call("ProvisionBuilders", "", ""), Call("Connect", "", "")>> \o <<Call("Plan", "", "")>>
    BY <1>3, Zenon DEF Deploy
  <1>5. <<Call("ProvisionBuilders", "", ""), Call("Connect", "", "")>> \in Seq(Later("deploy"))
    BY <1>1, TwoCalls, Zenon
  <1>. QED
    BY <1>2, <1>4, <1>5, CompleteOf, Zenon

\* And how it goes on, by its plan: the loud path sweeps.
LEMMA ApplyCalls == Complete("deploy", Apply)
  <1>1. /\ <<"Bootstrap", "", "">> \in Later("deploy") /\ <<"Connect", "", "">> \in Later("deploy")
        /\ <<"TeardownOrphans", "", "">> \in Later("deploy")
    BY PlainCalls, LaterCalls, Zenon
  <1>2. <<"Done", "unchanged", "">> \in Endings("deploy") /\ <<"Done", "deployed", "">> \in Endings("deploy")
    BY DEF Endings
  <1>3. /\ <<Call("Connect", "", "")>> \in Seq(Later("deploy"))
        /\ <<Call("Bootstrap", "", ""), Call("TeardownOrphans", "", "")>> \in Seq(Later("deploy"))
    BY <1>1, OneCall, TwoCalls, Zenon
  <1>. QED
    BY <1>2, <1>3, CompleteOf, Zenon DEF Apply, Done

\* A disk is formatted by the first call, before any other can write to it.
LEMMA MountVolumeCalls ==
    ASSUME NEW k, NEW v \in AllVolumes, NEW s \in Servers
    PROVE  Program(k, MountVolume(v, s))
  <1>1. <<"Mount", v, s>> \in Later(k) /\ <<"WriteFstab", v, s>> \in Later(k)
    BY LaterCalls, Zenon DEF MountOps
  <1>. DEFINE rest == <<Call("Mount", v, s)>>
                      \o (IF <<s, v>> \in fstab THEN <<>> ELSE <<Call("WriteFstab", v, s)>>)
  <1>2. rest \in Seq(Later(k))
    BY <1>1, NoCalls, OneCall, Joined
  <1>3. MountVolume(v, s) =
            IF <<s, v>> \in mounted THEN <<>>
            ELSE (IF volumes[v].disk = "blank" THEN <<Call("Format", v, "")>> ELSE <<>>) \o rest
    <2>1. \A p \in Seq(Calls) : p \o rest = (p \o <<Call("Mount", v, s)>>)
              \o (IF <<s, v>> \in fstab THEN <<>> ELSE <<Call("WriteFstab", v, s)>>)
      <3>1. <<Call("Mount", v, s)>> \in Seq(Calls)
            /\ (IF <<s, v>> \in fstab THEN <<>> ELSE <<Call("WriteFstab", v, s)>>) \in Seq(Calls)
        BY <1>1, NoCalls, OneCall DEF Later
      <3>. QED
        BY <3>1
    <2>2. <<Call("Format", v, "")>> \in Seq(Calls) /\ <<>> \in Seq(Calls)
      <3>1. <<"Format", v, "">> \in Calls
        BY Zenon DEF Calls
      <3>. QED
        BY <3>1, NoCalls, OneCall, Zenon
    <2>. QED
      BY <2>1, <2>2, Zenon DEF MountVolume
  <1>. HIDE DEF rest
  <1>4. volumes[v].disk = "blank" => <<"Format", v, "">> \in First(k)
    BY FirstCalls, Zenon
  <1>5. <<>> \o rest = rest
    BY <1>2
  <1>. QED
    BY <1>2, <1>3, <1>4, <1>5, ProgramOfLater, ProgramOfFirst, NoCalls, Zenon

LEMMA UnmountVolumeCalls ==
    ASSUME NEW k, NEW v \in AllVolumes, NEW s \in Servers
    PROVE  UnmountVolume(v, s) \in Seq(Later(k))
  <1>1. <<"Unmount", v, s>> \in Later(k) /\ <<"EraseFstab", v, s>> \in Later(k)
    BY LaterCalls, Zenon DEF MountOps
  <1>. QED
    BY <1>1, NoCalls, TwoCalls DEF UnmountVolume

\* What stands in a call, by its name.
LEMMA CallTypes ==
    ASSUME NEW c \in Calls
    PROVE  /\ c[1] \in ServerOps \cup {"EnsureServer", "LaunchServer", "BareServer", "Protect", "FinishPart"}
                 => c[2] \in Servers
           /\ c[1] \in {"EnsureServer", "LaunchServer", "BareServer"} => c[3] \in Roles
           /\ c[1] = "Protect" => c[3] \in Roles \cup {"none"}
           /\ c[1] = "FinishPart" => c[3] \in Parts \cup {"docker"}
           /\ c[1] \in RuleOps => c[2] \in Roles /\ c[3] \in SUBSET Rules
           /\ c[1] \in Removing \cup MountOps \cup {"Format", "CreateVolume", "AttachVolume"}
                 => c[2] \in AllVolumes
           /\ c[1] \in MountOps => c[3] \in Servers
           /\ c[1] = "AttachVolume" => c[3] \in Servers \cup {"none"}
           /\ c[1] = "CreateVolume" => c[3] \in {"blank", "empty"}
           /\ c[1] = "CreateNetwork" => c[2] \in SUBSET Networking
           /\ c[1] = "Done" => c[2] \in {"unchanged", "deployed", "destroyed"}
          
  <1>1. CASE c \in (PlainOps \cup DeployOps) \X {""} \X {""}
    <2>1. c[1] \in (PlainOps \cup DeployOps) /\ c[2] \in {""}
      BY <1>1, Zenon
    <2>. QED
      BY <2>1, Zenon DEF PlainOps, DeployOps, ServerOps, MountOps, Removing, RuleOps
  <1>2. CASE c \in {"Done"} \X {"unchanged", "deployed", "destroyed"} \X {""}
    <2>1. c[1] \in {"Done"} /\ c[2] \in {"unchanged", "deployed", "destroyed"}
      BY <1>2, Zenon
    <2>. QED
      BY <2>1 DEF PlainOps, DeployOps, ServerOps, MountOps, Removing, RuleOps
  <1>3. CASE c \in ServerOps \X Servers \X {""}
    <2>1. c[1] \in ServerOps /\ c[2] \in Servers
      BY <1>3, Zenon
    <2>. QED
      BY <2>1 DEF PlainOps, DeployOps, ServerOps, MountOps, Removing, RuleOps
  <1>4. CASE c \in {"EnsureServer", "LaunchServer", "BareServer"} \X Servers \X Roles
    <2>1. c[1] \in {"EnsureServer", "LaunchServer", "BareServer"} /\ c[2] \in Servers /\ c[3] \in Roles
      BY <1>4
    <2>. QED
      BY <2>1 DEF PlainOps, DeployOps, ServerOps, MountOps, Removing, RuleOps
  <1>5. CASE c \in {"Protect"} \X Servers \X (Roles \cup {"none"})
    <2>1. c[1] \in {"Protect"} /\ c[2] \in Servers /\ c[3] \in (Roles \cup {"none"})
      BY <1>5
    <2>. QED
      BY <2>1 DEF PlainOps, DeployOps, ServerOps, MountOps, Removing, RuleOps
  <1>6. CASE c \in {"FinishPart"} \X Servers \X (Parts \cup {"docker"})
    <2>1. c[1] \in {"FinishPart"} /\ c[2] \in Servers /\ c[3] \in Parts \cup {"docker"}
      BY <1>6
    <2>. QED
      BY <2>1 DEF PlainOps, DeployOps, ServerOps, MountOps, Removing, RuleOps
  <1>7. CASE c \in {"DropFirewall"} \X Roles \X {""}
    <2>1. c[1] \in {"DropFirewall"} /\ c[2] \in Roles
      BY <1>7, Zenon
    <2>. QED
      BY <2>1 DEF PlainOps, DeployOps, ServerOps, MountOps, Removing, RuleOps
  <1>8. CASE c \in RuleOps \X Roles \X SUBSET Rules
    <2>1. c[1] \in RuleOps /\ c[2] \in Roles /\ c[3] \in SUBSET Rules
      BY <1>8
    <2>. QED
      BY <2>1 DEF PlainOps, DeployOps, ServerOps, MountOps, Removing, RuleOps
  <1>9. CASE c \in {"SweepFirewalls"} \X (SUBSET Roles) \X {""}
    <2>1. c[1] \in {"SweepFirewalls"} /\ c[2] \in (SUBSET Roles)
      BY <1>9, Zenon
    <2>. QED
      BY <2>1 DEF PlainOps, DeployOps, ServerOps, MountOps, Removing, RuleOps
  <1>10. CASE c \in {"CreateNetwork"} \X (SUBSET Networking) \X {""}
    <2>1. c[1] \in {"CreateNetwork"} /\ c[2] \in (SUBSET Networking)
      BY <1>10, Zenon
    <2>. QED
      BY <2>1 DEF PlainOps, DeployOps, ServerOps, MountOps, Removing, RuleOps
  <1>11. CASE c \in (Removing \cup {"Format"}) \X AllVolumes \X {""}
    <2>1. c[1] \in (Removing \cup {"Format"}) /\ c[2] \in AllVolumes
      BY <1>11, Zenon
    <2>. QED
      BY <2>1 DEF PlainOps, DeployOps, ServerOps, MountOps, Removing, RuleOps
  <1>12. CASE c \in MountOps \X AllVolumes \X Servers
    <2>1. c[1] \in MountOps /\ c[2] \in AllVolumes /\ c[3] \in Servers
      BY <1>12
    <2>. QED
      BY <2>1 DEF PlainOps, DeployOps, ServerOps, MountOps, Removing, RuleOps
  <1>13. CASE c \in {"AttachVolume"} \X AllVolumes \X (Servers \cup {"none"})
    <2>1. c[1] \in {"AttachVolume"} /\ c[2] \in AllVolumes /\ c[3] \in (Servers \cup {"none"})
      BY <1>13
    <2>. QED
      BY <2>1 DEF PlainOps, DeployOps, ServerOps, MountOps, Removing, RuleOps
  <1>14. CASE c \in {"CreateVolume"} \X AllVolumes \X {"blank", "empty"}
    <2>1. c[1] \in {"CreateVolume"} /\ c[2] \in AllVolumes /\ c[3] \in {"blank", "empty"}
      BY <1>14
    <2>. QED
      BY <2>1 DEF PlainOps, DeployOps, ServerOps, MountOps, Removing, RuleOps
  <1>. QED
    BY <1>1, <1>2, <1>3, <1>4, <1>5, <1>6, <1>7, <1>8, <1>9, <1>10, <1>11, <1>12, <1>13, <1>14, Zenon DEF Calls

\* One of three, by the provider.
LEMMA OneOf ==
    ASSUME NEW Q, NEW x \in Q, NEW y \in Q, NEW z \in Q
    PROVE  Of(x, y, z) \in Q
  BY DEF Of

\* A call that stands among the later ones comes to calls that may stand there.
LEMMA ExpansionProgram ==
    ASSUME Live, NEW k, NEW c \in Later(k), Op(c) \in Compound
    PROVE  Program(k, Expansion(c))
  <1>1. c \in Calls /\ Permitted(k, c)
    BY DEF Later
  <1>2. Op(c) # "Plan"
    BY DEF Later, Closings, Op
  <1>3. CASE Op(c) = "ProvisionBuilders"
    <2>1. Expansion(c) = Of(H!ProvisionBuilders, A!ProvisionBuilders, S!ProvisionBuilders)
      BY <1>3 DEF Expansion
    <2>2. Expansion(c) \in Seq(Later(k))
      BY <2>1, ProvisionBuildersCalls, OneOf
    <2>. QED
      BY <2>2, ProgramOfLater
  <1>4. CASE Op(c) = "Bootstrap"
    <2>1. Expansion(c) = Of(H!Bootstrap, A!Bootstrap, S!Bootstrap)
      BY <1>4 DEF Expansion
    <2>2. Expansion(c) \in Seq(Later(k))
      BY <2>1, BootstrapCalls, OneOf
    <2>. QED
      BY <2>2, ProgramOfLater
  <1>5. CASE Op(c) = "Connect"
    <2>1. Expansion(c) = Of(H!Connect, A!Connect, S!Connect)
      BY <1>5 DEF Expansion
    <2>2. Expansion(c) \in Seq(Later(k))
      BY <2>1, ConnectCalls, FreeIsLater, OneOf
    <2>. QED
      BY <2>2, ProgramOfLater
  <1>6. CASE Op(c) = "FindMaster"
    <2>1. Expansion(c) = Of(H!FindMaster, A!FindMaster, S!FindMaster)
      BY <1>6 DEF Expansion
    <2>2. Expansion(c) \in Seq(Later(k))
      BY <2>1, FindMasterCalls, FreeIsLater, OneOf
    <2>. QED
      BY <2>2, ProgramOfLater
  <1>7. CASE Op(c) = "TeardownOrphans"
    <2>1. k = "deploy"
      BY <1>1, <1>7 DEF Permitted, DeployOps, Op
    <2>2. Expansion(c) = Of(H!TeardownOrphans, A!TeardownOrphans, S!TeardownOrphans)
      BY <1>7 DEF Expansion
    <2>3. Expansion(c) \in Seq(Sweeping)
      BY <2>2, TeardownOrphansCalls, OneOf
    <2>4. Expansion(c) \in Seq(Later(k))
      BY <2>1, <2>3, SweepingCalls, Zenon
    <2>. QED
      BY <2>4, ProgramOfLater
  <1>8. CASE Op(c) = "EnsureServer"
    <2>1. c[2] \in Servers /\ c[3] \in Roles
      BY <1>1, <1>8, CallTypes DEF Op
    <2>2. Expansion(c) =
              Of(H!EnsureServer(c[2], c[3]), A!EnsureServer(c[2], c[3]), S!EnsureServer(c[2], c[3]))
      BY <1>8 DEF Expansion
    <2>3. Expansion(c) \in Seq(Later(k))
      BY <2>1, <2>2, EnsureServerCalls, FreeIsLater, OneOf
    <2>. QED
      BY <2>3, ProgramOfLater
  <1>9. CASE Op(c) = "EnsureVolume"
    <2>1. c[2] \in AllVolumes /\ c[3] \in Servers
      BY <1>1, <1>9, CallTypes DEF Op, MountOps
    <2>2. Expansion(c) =
              Of(H!EnsureVolume(c[2], c[3]), A!EnsureVolume(c[2], c[3]), S!EnsureVolume(c[2], c[3]))
      BY <1>9 DEF Expansion
    <2>3. /\ Program(k, H!EnsureVolume(c[2], c[3])) /\ Program(k, A!EnsureVolume(c[2], c[3]))
          /\ Program(k, S!EnsureVolume(c[2], c[3]))
      BY <2>1, EnsureVolumeCalls
    <2>. QED
      BY <2>2, <2>3 DEF Of
  <1>10. CASE Op(c) = "ReconcileRules"
    <2>1. c[2] \in Roles /\ c[3] \in SUBSET Rules
      BY <1>1, <1>10, CallTypes DEF Op, RuleOps
    <2>2. Expansion(c) =
              Of(H!ReconcileRules(c[2], c[3]), A!ReconcileRules(c[2], c[3]),
                 S!ReconcileRules(c[2], c[3]))
      BY <1>10 DEF Expansion
    <2>3. Expansion(c) \in Seq(Later(k))
      BY <2>1, <2>2, ReconcileRulesCalls, FreeIsLater, OneOf
    <2>. QED
      BY <2>3, ProgramOfLater
  <1>11. CASE Op(c) = "RemoveServer"
    <2>1. c[2] \in Servers
      BY <1>1, <1>11, CallTypes DEF Op, ServerOps
    <2>2. Expansion(c) =
              Of(H!DrainAndDeleteServer(c[2]), A!DrainAndDeleteServer(c[2]),
                 S!DrainAndDeleteServer(c[2]))
      BY <1>11 DEF Expansion
    <2>3. Expansion(c) \in Seq(Later(k))
      BY <2>1, <2>2, DrainAndDeleteServerCalls, OneOf
    <2>. QED
      BY <2>3, ProgramOfLater
  <1>12. CASE Op(c) = "RemoveVolume"
    <2>1. c[2] \in AllVolumes /\ (c[2] \in Volumes => MayRemove(k, c[2]))
      BY <1>1, <1>12, CallTypes DEF Op, Removing, Permitted
    <2>2. Expansion(c) =
              Of(H!UnmountAndDeleteVolume(c[2]), A!UnmountAndDeleteVolume(c[2]),
                 S!UnmountAndDeleteVolume(c[2]))
      BY <1>12 DEF Expansion
    <2>3. Expansion(c) \in Seq(Later(k))
      BY <2>1, <2>2, UnmountAndDeleteVolumeCalls, OneOf
    <2>. QED
      BY <2>3, ProgramOfLater
  <1>13. CASE Op(c) = "DeleteVolume"
    <2>1. c[2] \in AllVolumes /\ (c[2] \in Volumes => MayRemove(k, c[2]))
      BY <1>1, <1>13, CallTypes DEF Op, Removing, Permitted
    <2>2. Expansion(c) = Of(H!DeleteVolume(c[2]), A!DeleteVolume(c[2]), S!DeleteVolume(c[2]))
      BY <1>13 DEF Expansion
    <2>3. Expansion(c) \in Seq(Later(k))
      BY <2>1, <2>2, DeleteVolumeCalls, OneOf
    <2>. QED
      BY <2>3, ProgramOfLater
  <1>14. CASE Op(c) = "SweepFirewalls"
    <2>1. Expansion(c) =
              Of(H!SweepFirewalls(c[2]), A!SweepFirewalls(c[2]), S!SweepFirewalls(c[2]))
      BY <1>14 DEF Expansion
    <2>2. Expansion(c) \in Seq(Later(k))
      BY <2>1, SweepFirewallsCalls, OneOf
    <2>. QED
      BY <2>2, ProgramOfLater
  <1>15. CASE Op(c) = "DeleteNetwork"
    <2>1. Expansion(c) = Of(H!DeleteNetwork, A!DeleteNetwork, S!DeleteNetwork)
      BY <1>15 DEF Expansion
    <2>2. Expansion(c) \in Seq(Later(k))
      BY <2>1, DeleteNetworkCalls, OneOf
    <2>. QED
      BY <2>2, ProgramOfLater
  <1>16. CASE Op(c) = "MountVolume"
    <2>1. c[2] \in AllVolumes /\ c[3] \in Servers
      BY <1>1, <1>16, CallTypes DEF Op, MountOps
    <2>2. Expansion(c) = MountVolume(c[2], c[3])
      BY <1>16 DEF Expansion
    <2>. QED
      BY <2>1, <2>2, MountVolumeCalls
  <1>17. CASE Op(c) = "UnmountVolume"
    <2>1. c[2] \in AllVolumes /\ c[3] \in Servers
      BY <1>1, <1>17, CallTypes DEF Op, MountOps
    <2>2. Expansion(c) = UnmountVolume(c[2], c[3])
      BY <1>17 DEF Expansion
    <2>. QED
      BY <2>1, <2>2, UnmountVolumeCalls, ProgramOfLater
  <1>. QED
    BY <1>2, <1>3, <1>4, <1>5, <1>6, <1>7, <1>8, <1>9, <1>10, <1>11, <1>12, <1>13, <1>14, <1>15,
       <1>16, <1>17 DEF Compound

----------------------------------------------------------------------------
(***************************************************************************)
(* What every state keeps.                                                 *)
(***************************************************************************)
Machines ==
    \A s \in DOMAIN servers :
        servers[s] \in [fw : Roles \cup {"none"}, role : Roles, parts : SUBSET (Parts \cup {"docker"})]

Inv ==
    /\ Live /\ Machines
    /\ cmd \in {"none", "deploy", "destroy", "destroy volumes"}
    /\ IF cmd = "none" THEN todo = <<>> ELSE Complete(cmd, todo)

\* The calls a command may make depend on the configuration, and for the next
\* one on the volumes.
LEMMA LaterStays ==
    ASSUME cfg' = cfg
    PROVE  \A k : Later(k)' = Later(k) /\ Later(k)' \subseteq First(k)'
  BY Zenon DEF Later, First, Permitted, MayRemove, DesiredVolumes, WithRole, Declared

\* What is left of a command after some calls is complete in the next state too.
LEMMA CompleteRest ==
    ASSUME cfg' = cfg, NEW k, NEW x, Complete(k, x), NEW d \in 1..(Len(x) - 1)
    PROVE  Complete(k, SubSeq(x, d + 1, Len(x)))'
  <1>. DEFINE y == SubSeq(x, d + 1, Len(x))
  <1>1. x \in Seq(Calls) /\ Len(x) \in Nat
    BY DEF Complete
  <1>2. /\ y \in Seq(Calls) /\ Len(y) = Len(x) - d
        /\ \A i \in 1..Len(y) : y[i] = x[i + d]
    BY <1>1
  <1>3. x[Len(x)] \in Endings(k) /\ \A i \in 2..(Len(x) - 1) : x[i] \in Later(k)
    BY DEF Complete
  <1>4. Later(k)' = Later(k) /\ Later(k)' \subseteq First(k)'
    BY LaterStays
  <1>. HIDE DEF y
  <1>5. y # <<>> /\ y[Len(y)] = x[Len(x)]
    BY <1>1, <1>2
  <1>6. \A i \in 1..(Len(y) - 1) : y[i] \in Later(k)
    <2>1. ASSUME NEW i \in 1..(Len(y) - 1)
          PROVE  y[i] = x[i + d] /\ i + d \in 2..(Len(x) - 1)
      BY <1>1, <1>2
    <2>. QED
      BY <1>3, <2>1
  <1>7. /\ Len(y) > 1 => y[1] \in First(k)'
        /\ \A i \in 2..(Len(y) - 1) : y[i] \in Later(k)'
    BY <1>1, <1>2, <1>4, <1>6
  <1>8. Complete(k, y)'
    BY <1>2, <1>3, <1>5, <1>7 DEF Complete
  <1>. QED
    BY <1>8 DEF y

\* The call at hand: the last one, or one of those before.
LEMMA Current ==
    ASSUME Inv, todo # <<>>
    PROVE  /\ cmd # "none" /\ Complete(cmd, todo) /\ ThisCall \in Calls
           /\ ThisCall[1] \notin Closings => Len(todo) > 1 /\ ThisCall \in First(cmd)
           /\ ThisCall[1] \notin Closings \cup Writing => ThisCall \in Later(cmd)
           /\ ThisCall[1] \in Closings => Len(todo) = 1 /\ ThisCall \in Endings(cmd)
  <1>1. cmd # "none" /\ Complete(cmd, todo)
    BY DEF Inv
  <1>2. /\ todo \in Seq(Calls) /\ Len(todo) \in Nat /\ Len(todo) >= 1 /\ ThisCall = todo[1]
        /\ ThisCall \in Calls
    BY <1>1 DEF Complete, ThisCall
  <1>3. CASE Len(todo) = 1
    <2>1. ThisCall \in Endings(cmd)
      BY <1>1, <1>2, <1>3 DEF Complete
    <2>2. ThisCall[1] \in Closings
      BY <2>1, EndingCalls
    <2>. QED
      BY <1>1, <1>2, <1>3, <2>1, <2>2
  <1>4. CASE Len(todo) > 1
    <2>1. ThisCall \in First(cmd)
      BY <1>1, <1>2, <1>4 DEF Complete
    <2>2. ThisCall[1] \notin Closings
      BY <2>1 DEF First, Later, Writing, Closings
    <2>3. ThisCall[1] \notin Writing => ThisCall \in Later(cmd)
      BY <2>1 DEF First, Writing
    <2>. QED
      BY <1>1, <1>2, <1>4, <2>1, <2>2, <2>3
  <1>. QED
    <2>1. Len(todo) = 1 \/ Len(todo) > 1
      BY <1>2
    <2>. QED
      BY <1>3, <1>4, <2>1

\* A call that returns leaves the rest.
LEMMA CallReturnsKeeps ==
    ASSUME Inv, todo # <<>>, ThisCall[1] \notin Closings, CallReturns
    PROVE  cmd' = cmd /\ cmd # "none" /\ Complete(cmd, todo)'
  <1>1. cfg' = cfg /\ cmd' = cmd /\ todo' = Tail(todo) /\ cmd # "none"
    BY Current DEF CallReturns, inputs
  <1>2. Complete(cmd, todo) /\ Len(todo) > 1
    BY Current
  <1>3. todo \in Seq(Calls) /\ 1 \in 1..(Len(todo) - 1)
    BY <1>2 DEF Complete
  <1>4. todo' = SubSeq(todo, 1 + 1, Len(todo))
    BY <1>1, <1>2, <1>3
  <1>. QED
    BY <1>1, <1>2, <1>3, <1>4, CompleteRest, Zenon

\* An error is handled at a mark behind the call, or not at all.
LEMMA HandlerPlace ==
    ASSUME NEW P, todo \in Seq(P)
    PROVE  Handler \in 0..Len(todo) /\ (Handler # 0 => todo[Handler][1] \in Closing)
  <1>. DEFINE Closed(i) == Cardinality({j \in 1..i : Op(todo[j]) \in Closing})
              Opened(i) == Cardinality({j \in 1..i : Op(todo[j]) = "try"})
              marks == {i \in 1..Len(todo) : Op(todo[i]) \in Closing /\ Closed(i) > Opened(i)}
  <1>1. Handler = IF marks = {} THEN 0 ELSE CHOOSE i \in marks : \A j \in marks : i <= j
    BY DEF Handler
  <1>2. marks \subseteq 1..Len(todo) /\ marks \subseteq Nat /\ Len(todo) \in Nat
    OBVIOUS
  <1>3. \A i \in marks : todo[i][1] \in Closing
    BY DEF Op
  <1>. HIDE DEF marks
  <1>4. marks # {} => \E i \in marks : \A j \in marks : i <= j
    BY <1>2, Least, Zenon
  <1>5. CASE marks = {}
    BY <1>1, <1>2, <1>5
  <1>6. CASE marks # {}
    <2>. DEFINE h == CHOOSE i \in marks : \A j \in marks : i <= j
    <2>1. h \in marks
      BY <1>4, <1>6
    <2>2. Handler = h
      BY <1>1, <1>6
    <2>. HIDE DEF h
    <2>. QED
      BY <1>2, <1>3, <2>1, <2>2
  <1>. QED
    BY <1>5, <1>6

\* So does an error that is handled; another ends the command.
LEMMA RaiseKeeps ==
    ASSUME Inv, todo # <<>>, Raise, cfg' = cfg
    PROVE  IF cmd' = "none" THEN todo' = <<>> ELSE cmd' = cmd /\ Complete(cmd, todo)'
  <1>1. CASE Handler = 0
    BY <1>1 DEF Raise
  <1>2. CASE Handler # 0
    <2>1. todo' = SubSeq(todo, Handler + 1, Len(todo)) /\ cmd' = cmd
      BY <1>2 DEF Raise
    <2>2. cmd # "none" /\ Complete(cmd, todo)
      BY Current
    <2>3. todo \in Seq(Calls) /\ todo[Len(todo)][1] \notin Closing
      <3>1. todo[Len(todo)][1] \in Closings
        BY <2>2, EndingCalls DEF Complete
      <3>. QED
        BY <2>2, <3>1 DEF Complete, Closing, Closings
    <2>4. Handler \in 1..(Len(todo) - 1)
      <3>1. Handler \in 0..Len(todo) /\ todo[Handler][1] \in Closing /\ Len(todo) \in Nat
        BY <1>2, <2>3, HandlerPlace
      <3>. QED
        BY <1>2, <2>3, <3>1
    <2>. QED
      BY <2>1, <2>2, <2>4, CompleteRest, Zenon
  <1>. QED
    BY <1>1, <1>2

----------------------------------------------------------------------------
(***************************************************************************)
(* What a call does to what is live, and to the data.                      *)
(***************************************************************************)
Data(v) == v \in DOMAIN volumes /\ volumes[v].disk = "data"

Kept == \A v \in Volumes : Data(v) => MayRemove(cmd, v) \/ Data(v)'

\* Every call that succeeds returns, and is not the last one.
LEMMA CallsReturn ==
    ASSUME CallSucceeds
    PROVE  todo # <<>> /\ CallReturns /\ ThisCall[1] \notin Closings
  <1>1. CASE CreateFirewall \/ ReplaceRules \/ AddRules \/ RevokeRules \/ DropFirewall
    BY <1>1 DEF CreateFirewall, ReplaceRules, AddRules, RevokeRules, DropFirewall, SetRules, Doing,
                Op, Closings
  <1>2. CASE CreateNetwork \/ StripNetwork \/ DropNetwork
    BY <1>2 DEF CreateNetwork, StripNetwork, DropNetwork, Doing, Op, Closings
  <1>3. CASE LaunchServer \/ BareServer \/ FinishPart \/ Protect \/ DestroyServer
    BY <1>3 DEF LaunchServer, BareServer, FinishPart, Protect, DestroyServer, CreateServer,
                ChangeServer, Doing, Op, Closings
  <1>4. CASE Reach \/ Join \/ Label
    BY <1>4 DEF Reach, Join, Label, Doing, Op, Closings
  <1>5. CASE CreateVolume \/ AttachVolume \/ Format \/ DropVolume
    BY <1>5 DEF CreateVolume, AttachVolume, Format, DropVolume, ChangeVolume, Doing, Op, Closings
  <1>6. CASE Mount \/ WriteFstab \/ Unmount \/ EraseFstab
    BY <1>6 DEF Mount, WriteFstab, Unmount, EraseFstab, Doing, Op, Closings
  <1>. QED
    BY <1>1, <1>2, <1>3, <1>4, <1>5, <1>6 DEF CallSucceeds

\* What changes nothing in the cloud changes no data.
LEMMA CloudStays ==
    ASSUME Live, Machines, cfg' = cfg, UNCHANGED cloud
    PROVE  Live' /\ Machines' /\ Kept
  BY DEF Live, Machines, Kept, Data, cloud

\* Firewalls and the network.
LEMMA FirewallCalls ==
    ASSUME Inv,
           CreateFirewall \/ ReplaceRules \/ AddRules \/ RevokeRules \/ DropFirewall
    PROVE  Live' /\ Machines' /\ Kept
  <1>. DEFINE Rest == /\ UNCHANGED <<servers, volumes>> /\ cfg' = cfg
                      /\ CallReturns /\ todo # <<>>
  <1>1. Rest
    BY DEF CreateFirewall, ReplaceRules, AddRules, RevokeRules, DropFirewall, SetRules, Doing,
           CallReturns, inputs
  <1>2. DOMAIN firewalls' \subseteq Roles /\ \A f \in DOMAIN firewalls' : firewalls'[f] \subseteq Rules
    <2>0. Thing = ThisCall[2] /\ Arg = ThisCall[3] /\ ThisCall \in Calls
      BY <1>1, Current DEF Thing, Arg
    <2>1. DOMAIN firewalls \subseteq Roles /\ \A f \in DOMAIN firewalls : firewalls[f] \subseteq Rules
      BY DEF Inv, Live
    <2>2. CASE CreateFirewall
      <3>1. ThisCall[1] \in RuleOps
        BY <2>2 DEF CreateFirewall, Doing, Op, RuleOps
      <3>2. Thing \in Roles /\ Arg \in SUBSET Rules
        BY <2>0, <3>1, CallTypes
      <3>. QED
        BY <2>1, <2>2, <3>2 DEF CreateFirewall
    <2>3. CASE ReplaceRules \/ AddRules \/ RevokeRules
      <3>1. ThisCall[1] \in RuleOps
        BY <2>3 DEF ReplaceRules, AddRules, RevokeRules, Doing, Op, RuleOps
      <3>2. Thing \in Roles /\ Arg \in SUBSET Rules
        BY <2>0, <3>1, CallTypes
      <3>. QED
        BY <2>1, <2>3, <3>2 DEF ReplaceRules, AddRules, RevokeRules, SetRules
    <2>4. CASE DropFirewall
      BY <2>1, <2>4 DEF DropFirewall
    <2>. QED
      BY <2>2, <2>3, <2>4
  <1>3. Live' /\ Machines' /\ Kept
    BY <1>1, <1>2 DEF Inv, Live, Machines, Kept, Data
  <1>. QED
    BY <1>1, <1>3

LEMMA NetworkCalls ==
    ASSUME Inv, CreateNetwork \/ StripNetwork \/ DropNetwork
    PROVE  Live' /\ Machines' /\ Kept
  <1>1. /\ UNCHANGED <<firewalls, volumes>> /\ cfg' = cfg
        /\ CallReturns /\ todo # <<>>
    BY DEF CreateNetwork, StripNetwork, DropNetwork, Doing, CallReturns, inputs
  <1>2. DOMAIN servers' = DOMAIN servers /\ Machines'
    <2>1. Machines
      BY DEF Inv
    <2>2. CASE CreateNetwork \/ StripNetwork
      BY <2>1, <2>2 DEF Machines, CreateNetwork, StripNetwork
    <2>3. CASE DropNetwork
      BY <2>1, <2>3 DEF Machines, DropNetwork
    <2>. QED
      BY <2>2, <2>3
  <1>3. \A s \in DOMAIN servers' : servers'[s].fw \in Roles \cup {"none"}
    BY <1>2 DEF Machines
  <1>4. Live' /\ Kept
    BY <1>1, <1>2, <1>3 DEF Inv, Live, Kept, Data
  <1>. QED
    BY <1>1, <1>2, <1>4

LEMMA ServerCallsKeep ==
    ASSUME Inv, LaunchServer \/ BareServer \/ FinishPart \/ Protect
    PROVE  Live' /\ Machines' /\ Kept
  <1>1. /\ UNCHANGED <<firewalls, volumes>> /\ cfg' = cfg
        /\ CallReturns /\ todo # <<>>
    BY DEF LaunchServer, BareServer, FinishPart, Protect, CreateServer, ChangeServer, Doing,
           CallReturns, inputs
  <1>2. Thing = ThisCall[2] /\ Arg = ThisCall[3] /\ ThisCall \in Calls
    BY <1>1, Current DEF Thing, Arg
  <1>3. DOMAIN servers \subseteq Servers /\ Machines
    BY DEF Inv, Live
  <1>4. DOMAIN servers' \subseteq Servers /\ Machines'
    <2>1. CASE LaunchServer
      <3>1. Thing \in Servers /\ Arg \in Roles
        BY <1>2, <2>1, CallTypes DEF LaunchServer, Doing, Op
      <3>. QED
        BY <1>3, <2>1, <3>1 DEF LaunchServer, CreateServer, Machines
    <2>2. CASE BareServer
      <3>1. Thing \in Servers /\ Arg \in Roles
        BY <1>2, <2>2, CallTypes DEF BareServer, Doing, Op
      <3>. QED
        BY <1>3, <2>2, <3>1 DEF BareServer, CreateServer, Machines
    <2>3. CASE FinishPart
      <3>1. Arg \in Parts \cup {"docker"}
        BY <1>2, <2>3, CallTypes DEF FinishPart, Doing, Op
      <3>. QED
        BY <1>3, <2>3, <3>1 DEF FinishPart, ChangeServer, Machines
    <2>4. CASE Protect
      <3>1. Arg \in Roles \cup {"none"}
        BY <1>2, <2>4, CallTypes DEF Protect, Doing, Op
      <3>. QED
        BY <1>3, <2>4, <3>1 DEF Protect, ChangeServer, Machines
    <2>. QED
      BY <2>1, <2>2, <2>3, <2>4
  <1>5. \A s \in DOMAIN servers' : servers'[s].fw \in Roles \cup {"none"}
    BY <1>4 DEF Machines
  <1>6. Live' /\ Kept
    BY <1>1, <1>4, <1>5 DEF Inv, Live, Kept, Data
  <1>. QED
    BY <1>1, <1>4, <1>6

\* A volume outlives the server it is attached to.
LEMMA DestroyServerKeeps ==
    ASSUME Inv, DestroyServer
    PROVE  Live' /\ Machines' /\ Kept
  <1>1. /\ UNCHANGED firewalls /\ cfg' = cfg
        /\ CallReturns /\ todo # <<>>
    BY DEF DestroyServer, Doing, CallReturns, inputs
  <1>2. /\ DOMAIN servers' \subseteq Servers /\ Machines'
        /\ \A s \in DOMAIN servers' : servers'[s].fw \in Roles \cup {"none"}
    BY DEF Inv, Live, Machines, DestroyServer
  <1>3. /\ DOMAIN volumes' = DOMAIN volumes
        /\ \A v \in DOMAIN volumes :
              /\ volumes'[v] \in [at : Servers \cup {"none"}, disk : {"blank", "empty", "data"}]
              /\ volumes'[v].disk = volumes[v].disk
    BY DEF Inv, Live, DestroyServer
  <1>4. Live' /\ Kept
    BY <1>1, <1>2, <1>3 DEF Inv, Live, Kept, Data
  <1>. QED
    BY <1>1, <1>2, <1>4

LEMMA HostCalls ==
    ASSUME Inv, Reach \/ Join \/ Label \/ Mount \/ WriteFstab \/ Unmount \/ EraseFstab
    PROVE  Live' /\ Machines' /\ Kept
  <1>1. UNCHANGED cloud /\ CallReturns /\ todo # <<>>
    BY DEF Reach, Join, Label, Mount, WriteFstab, Unmount, EraseFstab, Doing
  <1>2. cfg' = cfg
    BY <1>1 DEF CallReturns, inputs
  <1>. QED
    BY <1>1, <1>2, CloudStays DEF Inv

\* A new volume takes nobody's place, a blank disk alone is formatted, and
\* a volume is removed by a command that may.
LEMMA VolumeCalls ==
    ASSUME Inv, CreateVolume \/ AttachVolume \/ Format \/ DropVolume
    PROVE  Live' /\ Machines' /\ Kept
  <1>1. /\ UNCHANGED <<servers, firewalls>> /\ cfg' = cfg
        /\ CallReturns /\ todo # <<>>
    BY DEF CreateVolume, AttachVolume, Format, DropVolume, ChangeVolume, Doing, CallReturns, inputs
  <1>2. /\ Thing = ThisCall[2] /\ Arg = ThisCall[3]
        /\ ThisCall \in Calls /\ ThisCall \in First(cmd)
    BY <1>1, Current, CallsReturn DEF Thing, Arg, CallSucceeds
  <1>3. DOMAIN volumes \subseteq AllVolumes
        /\ \A v \in DOMAIN volumes :
              volumes[v] \in [at : Servers \cup {"none"}, disk : {"blank", "empty", "data"}]
    BY DEF Inv, Live
  <1>4. /\ DOMAIN volumes' \subseteq AllVolumes
        /\ \A v \in DOMAIN volumes' :
              volumes'[v] \in [at : Servers \cup {"none"}, disk : {"blank", "empty", "data"}]
        /\ Kept
    <2>1. CASE CreateVolume
      <3>1. ThisCall[1] = "CreateVolume"
        BY <2>1 DEF CreateVolume, Doing, Op
      <3>2. Thing \in AllVolumes /\ Arg \in {"blank", "empty"}
        BY <1>2, <3>1, CallTypes
      <3>3. Thing \notin DOMAIN volumes
        BY <1>2, <3>1 DEF First, Later, Writing
      <3>. QED
        BY <1>3, <2>1, <3>2, <3>3 DEF CreateVolume, Kept, Data
    <2>2. CASE AttachVolume
      <3>1. Arg \in Servers \cup {"none"}
        BY <1>2, <2>2, CallTypes DEF AttachVolume, Doing, Op
      <3>. QED
        BY <1>3, <2>2, <3>1 DEF AttachVolume, ChangeVolume, Kept, Data
    <2>3. CASE Format
      <3>1. ThisCall[1] = "Format"
        BY <2>3 DEF Format, Doing, Op
      <3>2. Thing \in DOMAIN volumes => volumes[Thing].disk = "blank"
        BY <1>2, <3>1 DEF First, Later, Writing
      <3>. QED
        BY <1>3, <2>3, <3>2 DEF Format, ChangeVolume, Kept, Data
    <2>4. CASE DropVolume
      <3>1. ThisCall[1] = "DropVolume"
        BY <2>4 DEF DropVolume, Doing, Op
      <3>2. Permitted(cmd, ThisCall)
        BY <1>2, <3>1 DEF First, Later
      <3>3. Thing \in Volumes => MayRemove(cmd, Thing)
        BY <1>2, <3>1, <3>2 DEF Permitted, Removing
      <3>. QED
        BY <1>3, <2>4, <3>3 DEF DropVolume, Kept, Data
    <2>. QED
      BY <2>1, <2>2, <2>3, <2>4
  <1>5. Live' /\ Machines'
    BY <1>1, <1>4 DEF Inv, Live, Machines
  <1>. QED
    BY <1>1, <1>4, <1>5

LEMMA WorksKeeps ==
    ASSUME Inv, CallSucceeds
    PROVE  Inv' /\ Kept
  <1>1. Live' /\ Machines' /\ Kept
    BY FirewallCalls, NetworkCalls, ServerCallsKeep, DestroyServerKeeps, HostCalls, VolumeCalls
       DEF CallSucceeds
  <1>2. cmd' = cmd /\ cmd # "none" /\ Complete(cmd, todo)'
    BY CallsReturn, CallReturnsKeeps
  <1>. QED
    BY <1>1, <1>2 DEF Inv

----------------------------------------------------------------------------
(***************************************************************************)
(* Every step.                                                             *)
(***************************************************************************)
LEMMA CompleteSame ==
    ASSUME cfg' = cfg, volumes' = volumes, NEW k, NEW x, Complete(k, x)
    PROVE  Complete(k, x)'
  <1>1. First(k)' = First(k) /\ Later(k)' = Later(k)
    BY DEF First, Later, Permitted, MayRemove, DesiredVolumes, WithRole, Declared
  <1>. QED
    BY <1>1 DEF Complete

\* A cluster that was deployed, or nothing, and no command.
LEMMA InitInv == Init => Inv
  <1>. SUFFICES ASSUME Init PROVE Inv
    OBVIOUS
  <1>1. cfg \in Configs /\ todo = <<>>
    BY DEF Init
  <1>2. CASE Nothing
    BY <1>1, <1>2 DEF Init, Inv, Live, Machines, Nothing
  <1>3. CASE Deployed(cfg)
    <2>1. /\ DOMAIN cfg.role \subseteq Servers /\ \A s \in DOMAIN cfg.role : cfg.role[s] \in Roles
          /\ DOMAIN cfg.volume \subseteq Volumes
          /\ \A v \in DOMAIN cfg.volume : cfg.volume[v] \in Servers
      BY <1>1, CloudAssumption, Zenon
    <2>2. /\ DOMAIN servers = DOMAIN cfg.role
          /\ \A s \in DOMAIN servers :
                servers[s] = [fw |-> cfg.role[s], role |-> cfg.role[s], parts |-> Parts]
      BY <1>3 DEF Deployed
    <2>3. /\ DOMAIN firewalls = {cfg.role[s] : s \in DOMAIN cfg.role}
          /\ \A f \in DOMAIN firewalls : firewalls[f] = RulesOf(cfg, f)
      BY <1>3 DEF Deployed
    <2>4. \A f : RulesOf(cfg, f) \subseteq Rules
      BY DEF RulesOf, Rules
    <2>5. /\ DOMAIN volumes = DOMAIN cfg.volume
          /\ \A v \in DOMAIN volumes : volumes[v] = [at |-> cfg.volume[v], disk |-> "empty"]
      BY <1>3 DEF Deployed
    <2>6. Machines
      <3>1. ASSUME NEW s \in DOMAIN servers
            PROVE  servers[s] \in [fw : Roles \cup {"none"}, role : Roles,
                                   parts : SUBSET (Parts \cup {"docker"})]
        <4>1. cfg.role[s] \in Roles
          BY <2>1, <2>2
        <4>2. servers[s] = [fw |-> cfg.role[s], role |-> cfg.role[s], parts |-> Parts]
          BY <2>2
        <4>3. Parts \in SUBSET (Parts \cup {"docker"})
          OBVIOUS
        <4>. QED
          BY <4>1, <4>2, <4>3
      <3>. QED
        BY <3>1 DEF Machines
    <2>7. Live
      <3>1. DOMAIN servers \subseteq Servers /\ \A s \in DOMAIN servers : servers[s].fw \in Roles \cup {"none"}
        BY <2>1, <2>2, <2>6 DEF Machines
      <3>2. DOMAIN firewalls \subseteq Roles /\ \A f \in DOMAIN firewalls : firewalls[f] \subseteq Rules
        BY <2>1, <2>3, <2>4
      <3>3. DOMAIN volumes \subseteq AllVolumes
        BY <2>1, <2>5 DEF AllVolumes
      <3>4. ASSUME NEW v \in DOMAIN volumes
            PROVE  volumes[v] \in [at : Servers \cup {"none"}, disk : {"blank", "empty", "data"}]
        <4>1. cfg.volume[v] \in Servers /\ volumes[v] = [at |-> cfg.volume[v], disk |-> "empty"]
          BY <2>1, <2>5
        <4>. QED
          BY <4>1
      <3>. QED
        BY <1>1, <3>1, <3>2, <3>3, <3>4 DEF Live
    <2>. QED
      BY <1>1, <2>6, <2>7 DEF Init, Inv
  <1>. QED
    BY <1>2, <1>3 DEF Init

\* A command begins with a program it may run.
LEMMA BeginKeeps ==
    ASSUME Inv, CachesApart,
           DeployBegins \/ \E deleteVolumes \in BOOLEAN : DestroyBegins(deleteVolumes)
    PROVE  Inv' /\ Kept
  <1>1. CASE DeployBegins
    <2>1. todo' = Deploy /\ cmd' = "deploy" /\ cfg' = cfg /\ UNCHANGED cloud
      BY <1>1 DEF DeployBegins, Begin, inputs
    <2>2. Live' /\ Machines' /\ Kept
      BY <2>1, CloudStays DEF Inv
    <2>3. Complete(cmd', todo')
      BY <2>1, DeployCalls, Zenon
    <2>4. Complete(cmd, todo)'
      BY <2>1, <2>3, CompleteSame, Zenon DEF cloud
    <2>. QED
      BY <2>1, <2>2, <2>4 DEF Inv
  <1>2. ASSUME NEW deleteVolumes \in BOOLEAN, DestroyBegins(deleteVolumes)
        PROVE  Inv' /\ Kept
    <2>. DEFINE down == Of(H!Teardown(deleteVolumes), A!Teardown(deleteVolumes),
                           S!Teardown(deleteVolumes))
                k == Destroying(deleteVolumes)
    <2>1. /\ todo' = down \o Done("destroyed") /\ cmd' = k
          /\ cfg' = cfg /\ UNCHANGED cloud
      BY <1>2, Zenon DEF DestroyBegins, Begin, inputs, Destroying
    <2>2. down \in Seq(Later(k))
      BY TeardownCalls, OneOf DEF Inv
    <2>3. k \in {"destroy", "destroy volumes"} /\ <<"Done", "destroyed", "">> \in Endings(k)
      BY DEF Destroying, Endings
    <2>4. Live' /\ Machines' /\ Kept
      BY <2>1, CloudStays DEF Inv
    <2>. HIDE DEF down, k
    <2>5. Complete(k, down \o <<<<"Done", "destroyed", "">>>>)
      BY <2>2, <2>3, CompleteOf, Zenon
    <2>6. Complete(cmd', todo')
      BY <2>1, <2>5, Zenon DEF Done
    <2>7. Complete(cmd, todo)'
      BY <2>1, <2>6, CompleteSame, Zenon DEF cloud
    <2>8. cmd' \in {"none", "deploy", "destroy", "destroy volumes"} /\ cmd' # "none"
      BY <2>1, <2>3
    <2>. QED
      BY <2>4, <2>7, <2>8, Zenon DEF Inv
  <1>. QED
    BY <1>1, <1>2

\* Expanding a call, from what is live now, leaves a program; the plan is the
\* last call of a deploy that knows no more.
LEMMA ExpandKeeps ==
    ASSUME Inv, Expand
    PROVE  Inv' /\ Kept
  <1>1. /\ todo # <<>> /\ Op(ThisCall) \in Compound
        /\ todo' = Expansion(ThisCall) \o Tail(todo)
        /\ cfg' = cfg /\ cmd' = cmd /\ UNCHANGED cloud
    BY DEF Expand, inputs
  <1>2. Complete(cmd, todo) /\ cmd # "none"
    BY <1>1, Current
  <1>3. Complete(cmd, Expansion(ThisCall) \o Tail(todo))
    <2>1. CASE ThisCall[1] \notin Closings
      <3>1. ThisCall \in Later(cmd) /\ Len(todo) > 1
        BY <1>1, <2>1, Current DEF Op, Compound, Writing
      <3>2. Program(cmd, Expansion(ThisCall))
        BY <1>1, <3>1, ExpansionProgram DEF Inv
      <3>. QED
        BY <1>2, <3>1, <3>2, CompleteInstead, Zenon
    <2>2. CASE ThisCall[1] \in Closings
      <3>1. Len(todo) = 1 /\ ThisCall \in Endings(cmd) /\ Op(ThisCall) = "Plan"
        BY <1>1, <2>2, Current DEF Op, Compound, Closings
      <3>2. cmd = "deploy"
        <4>. SUFFICES ASSUME cmd # "deploy" PROVE FALSE
          OBVIOUS
        <4>1. ThisCall = <<"Done", "destroyed", "">>
          BY <3>1, Zenon DEF Endings
        <4>. QED
          BY <3>1, <4>1 DEF Op
      <3>3. Expansion(ThisCall) = Apply
        BY <3>1 DEF Expansion
      <3>4. todo \in Seq(Calls) /\ Apply \in Seq(Calls)
        BY <1>2, ApplyCalls DEF Complete
      <3>5. Apply \o Tail(todo) = Apply
        <4>1. Tail(todo) \in Seq(Calls) /\ Len(Tail(todo)) = 0
          BY <1>1, <3>1, <3>4, HeadTailProperties
        <4>2. Tail(todo) = <<>>
          BY <4>1, EmptySeq, Zenon
        <4>. QED
          BY <3>4, <4>2, ConcatEmptySeq
      <3>. QED
        BY <3>2, <3>3, <3>5, ApplyCalls, Zenon
    <2>. QED
      BY <2>1, <2>2
  <1>4. Complete(cmd, todo)'
    BY <1>1, <1>3, CompleteSame, Zenon DEF cloud
  <1>5. Live' /\ Machines' /\ Kept
    BY <1>1, CloudStays DEF Inv
  <1>. QED
    BY <1>1, <1>2, <1>4, <1>5 DEF Inv

\* Marks are passed; a listing that fails counts as nothing found.
LEMMA MarkKeeps ==
    ASSUME Inv, PassMark \/ ListingFails
    PROVE  Inv' /\ Kept
  <1>1. todo # <<>> /\ CallReturns /\ UNCHANGED cloud /\ ThisCall[1] \notin Closings
    BY DEF PassMark, ListingFails, TakesErrorForAbsence, Doing, Op, Closings, Closing
  <1>2. cfg' = cfg
    BY <1>1 DEF CallReturns, inputs
  <1>. QED
    BY <1>1, <1>2, CloudStays, CallReturnsKeeps DEF Inv

\* Errors skip calls.
LEMMA ErrorKeeps ==
    ASSUME Inv, CallIsRefused \/ CallFails
    PROVE  Inv' /\ Kept
  <1>1. Raise /\ cfg' = cfg /\ UNCHANGED cloud
    BY DEF CallIsRefused, CallFails, inputs
  <1>2. todo # <<>>
    BY DEF CallIsRefused, CallFails, Refused, Doing
  <1>. QED
    BY <1>1, <1>2, CloudStays, RaiseKeeps DEF Inv

\* A command that ended has nothing left to do.
LEMMA EndKeeps ==
    ASSUME Inv, Finish \/ CommandStops
    PROVE  Inv' /\ Kept
  <1>1. todo' = <<>> /\ cmd' = "none" /\ cfg' = cfg /\ UNCHANGED cloud
    BY DEF Finish, CommandStops, inputs
  <1>. QED
    BY <1>1, CloudStays DEF Inv

\* Between commands: edits, writes, an operator's firewall.
LEMMA AroundKeeps ==
    ASSUME Inv,
           \/ \E c \in Configs : Edit(c)
           \/ \E v \in DOMAIN volumes : PodWrites(v)
           \/ OperatorCreatesFirewall
    PROVE  Inv' /\ Kept
  <1>1. ASSUME NEW c \in Configs, Edit(c)
        PROVE  Inv' /\ Kept
    <2>1. cfg' \in Configs /\ UNCHANGED cloud /\ todo' = <<>> /\ cmd' = "none"
      BY <1>1 DEF Edit, Idle, Inv
    <2>2. Live' /\ Machines' /\ Kept
      BY <2>1 DEF Inv, Live, Machines, Kept, Data, cloud
    <2>. QED
      BY <2>1, <2>2 DEF Inv
  <1>2. ASSUME NEW v \in DOMAIN volumes, PodWrites(v)
        PROVE  Inv' /\ Kept
    <2>1. /\ cfg' = cfg /\ UNCHANGED <<servers, firewalls>> /\ todo' = <<>> /\ cmd' = "none"
          /\ volumes' = [volumes EXCEPT ![v].disk = "data"]
      BY <1>2 DEF PodWrites, Idle, Inv, inputs, control
    <2>2. Live' /\ Machines' /\ Kept
      BY <2>1 DEF Inv, Live, Machines, Kept, Data
    <2>. QED
      BY <2>1, <2>2 DEF Inv
  <1>3. ASSUME OperatorCreatesFirewall
        PROVE  Inv' /\ Kept
    <2>1. /\ cfg' = cfg /\ UNCHANGED <<servers, volumes>> /\ todo' = <<>> /\ cmd' = "none"
          /\ firewalls' = [f \in DOMAIN firewalls \cup {"builder"} |->
                              IF f = "builder" THEN Base ELSE firewalls[f]]
      BY <1>3 DEF OperatorCreatesFirewall, Idle, Inv, inputs, control
    <2>2. Live' /\ Machines' /\ Kept
      BY <2>1 DEF Inv, Live, Machines, Kept, Data, Roles, Rules
    <2>. QED
      BY <2>1, <2>2 DEF Inv
  <1>. QED
    BY <1>1, <1>2, <1>3

LEMMA StepKeeps ==
    ASSUME Inv, CachesApart, [Next]_vars
    PROVE  Inv' /\ Kept
  <1>1. CASE Next
    BY <1>1, BeginKeeps, ExpandKeeps, MarkKeeps, WorksKeeps, ErrorKeeps, EndKeeps, AroundKeeps
       DEF Next, CommandGoesOn, Works
  <1>2. CASE UNCHANGED vars
    <2>1. cfg' = cfg /\ cmd' = cmd /\ todo' = todo /\ UNCHANGED cloud
      BY <1>2 DEF vars, inputs, control
    <2>2. Complete(cmd, todo) => Complete(cmd, todo)'
      BY <2>1, CompleteSame DEF cloud
    <2>. QED
      BY <2>1, <2>2, CloudStays DEF Inv
  <1>. QED
    BY <1>1, <1>2

(***************************************************************************)
(* What an application wrote to a volume goes only with a volume no longer *)
(* declared, in a deploy, or in a destroy of the volumes too: whichever    *)
(* calls of TeardownOrphans, Teardown, EnsureVolume and MountVolume fail,  *)
(* at any of the three providers.                                          *)
(***************************************************************************)
THEOREM DataStays ==
    ASSUME CachesApart
    PROVE  Spec => DataKept
  <1>. DEFINE Stays == \A v \in Volumes :
                          (v \in DOMAIN volumes /\ volumes[v].disk = "data")
                             => MayGo(v) \/ (v \in DOMAIN volumes' /\ volumes'[v].disk = "data")
  <1>1. Inv /\ [Next]_vars => Inv'
    BY StepKeeps
  <1>2. Inv /\ [Next]_vars => [Stays]_vars
    <2>. SUFFICES ASSUME Inv, [Next]_vars PROVE Stays
      OBVIOUS
    <2>1. Kept
      BY StepKeeps
    <2>. QED
      BY <2>1, Zenon DEF Kept, Data, MayGo, MayRemove
  <1>. QED
    BY InitInv, <1>1, <1>2, PTL DEF Spec, DataKept

----------------------------------------------------------------------------
(***************************************************************************)
(* What a destroy may come to.                                             *)
(***************************************************************************)
\* The calls whose errors a destroy only warns of, those that end what is to
\* be destroyed, and all that come before the last.
Gentle == {"Reach", "UnmountVolume", "Unmount", "EraseFstab", "AttachVolume", "DropFirewall", "Protect"}
Final == {"RemoveServer", "DestroyServer", "DeleteNetwork", "DropNetwork"}
DestroyOps ==
    Gentle \cup Final
    \cup {"try", "collect", "warn", "SweepFirewalls", "RemoveVolume", "DeleteVolume", "DropVolume",
          "StripNetwork"}

DestroyCalls == {c \in Calls : c[1] \in DestroyOps /\ (c[1] = "AttachVolume" => c[3] = "none")}
GentleCalls == {c \in DestroyCalls : c[1] \in Gentle}

\* From b on, nothing but gentle calls comes before the mark at h.
Section(x, b, h) == \A i \in b..(h - 1) : x[i][1] \in Gentle

\* Calls with warnings that begin among them.
Whole ==
    {x \in Seq(DestroyCalls) :
        \A h \in 1..Len(x) : x[h][1] = "warn"
            => \E t \in 1..(h - 1) : x[t][1] = "try" /\ Section(x, t + 1, h)}

LEMMA WholeJoined ==
    ASSUME NEW p \in Whole, NEW q \in Whole
    PROVE  p \o q \in Whole
  <1>. DEFINE x == p \o q
  <1>1. p \in Seq(DestroyCalls) /\ q \in Seq(DestroyCalls)
    BY DEF Whole
  <1>2. /\ x \in Seq(DestroyCalls) /\ Len(x) = Len(p) + Len(q)
        /\ \A i \in 1..Len(p) : x[i] = p[i]
        /\ \A i \in 1..Len(q) : x[i + Len(p)] = q[i]
    BY <1>1
  <1>3. Len(p) \in Nat /\ Len(q) \in Nat
    BY <1>1
  <1>. HIDE DEF x
  <1>4. ASSUME NEW h \in 1..Len(x), x[h][1] = "warn"
        PROVE  \E t \in 1..(h - 1) : x[t][1] = "try" /\ Section(x, t + 1, h)
    <2>1. CASE h <= Len(p)
      <3>1. h \in 1..Len(p) /\ p[h][1] = "warn"
        BY <1>2, <1>3, <1>4, <2>1
      <3>2. PICK t \in 1..(h - 1) : p[t][1] = "try" /\ Section(p, t + 1, h)
        BY <3>1 DEF Whole
      <3>3. x[t][1] = "try" /\ \A i \in (t + 1)..(h - 1) : x[i][1] \in Gentle
        BY <1>2, <1>3, <3>1, <3>2 DEF Section
      <3>. QED
        BY <3>3 DEF Section
    <2>2. CASE h > Len(p)
      <3>. DEFINE g == h - Len(p)
      <3>1. g \in 1..Len(q) /\ q[g][1] = "warn" /\ g + Len(p) = h
        BY <1>2, <1>3, <1>4, <2>2
      <3>. HIDE DEF g
      <3>2. PICK t \in 1..(g - 1) : q[t][1] = "try" /\ Section(q, t + 1, g)
        BY <3>1 DEF Whole
      <3>3. x[t + Len(p)][1] = "try" /\ t + Len(p) \in 1..(h - 1)
        <4>1. t \in 1..Len(q) /\ t + Len(p) \in 1..(h - 1)
          BY <1>3, <3>1
        <4>. QED
          BY <1>2, <3>2, <4>1
      <3>4. ASSUME NEW i \in (t + Len(p) + 1)..(h - 1)
            PROVE  x[i][1] \in Gentle
        <4>1. i - Len(p) \in (t + 1)..(g - 1) /\ i - Len(p) \in 1..Len(q)
              /\ i = (i - Len(p)) + Len(p)
          BY <1>2, <1>3, <3>1, <3>2
        <4>2. q[i - Len(p)][1] \in Gentle
          BY <3>2, <4>1 DEF Section
        <4>3. x[(i - Len(p)) + Len(p)] = q[i - Len(p)]
          BY <1>2, <4>1
        <4>. QED
          BY <4>1, <4>2, <4>3
      <3>. QED
        BY <3>3, <3>4 DEF Section
    <2>. QED
      BY <1>2, <1>3, <2>1, <2>2
  <1>. QED
    BY <1>2, <1>4 DEF Whole, x

\* Calls without a warning, and calls that are warned of.
LEMMA WholeOf ==
    ASSUME NEW p \in Seq(DestroyCalls), \A i \in 1..Len(p) : p[i][1] # "warn"
    PROVE  p \in Whole
  BY DEF Whole

LEMMA WholeCalls ==
    ASSUME NEW c \in DestroyCalls, c[1] # "warn"
    PROVE  <<c>> \in Whole /\ \A d \in DestroyCalls : d[1] # "warn" => <<c, d>> \in Whole
  <1>1. <<c>> \in Whole
    <2>1. <<c>> \in Seq(DestroyCalls) /\ Len(<<c>>) = 1 /\ <<c>>[1] = c
      BY OneCall
    <2>2. \A i \in 1..Len(<<c>>) : <<c>>[i][1] # "warn"
      BY <2>1
    <2>. QED
      BY <2>1, <2>2, WholeOf, Zenon
  <1>2. ASSUME NEW d \in DestroyCalls, d[1] # "warn"
        PROVE  <<c, d>> \in Whole
    <2>1. /\ <<c, d>> \in Seq(DestroyCalls) /\ Len(<<c, d>>) = 2
          /\ <<c, d>>[1] = c /\ <<c, d>>[2] = d
      BY TwoCalls
    <2>2. \A i \in 1..Len(<<c, d>>) : <<c, d>>[i][1] # "warn"
      BY <1>2, <2>1
    <2>. QED
      BY <2>1, <2>2, WholeOf, Zenon
  <1>. QED
    BY <1>1, <1>2

LEMMA WholeEmpty == <<>> \in Whole
  <1>1. <<>> \in Seq(DestroyCalls) /\ \A i \in 1..Len(<<>>) : FALSE
    OBVIOUS
  <1>. QED
    BY <1>1, WholeOf, Zenon

\* Marks, with the calls between them.
LEMMA WholeMarked ==
    ASSUME NEW p \in Seq(GentleCalls)
    PROVE  Warned(p) \in Whole
  <1>. DEFINE try == <<"try", "", "">>
              warn == <<"warn", "", "">>
              x == <<try>> \o p \o <<warn>>
  <1>1. try \in DestroyCalls /\ warn \in DestroyCalls /\ try[1] = "try" /\ warn[1] = "warn"
    <2>1. try \in Calls /\ warn \in Calls
      BY Zenon DEF Calls, PlainOps
    <2>. QED
      BY <2>1 DEF DestroyCalls, DestroyOps
  <1>2. p \in Seq(DestroyCalls) /\ \A i \in 1..Len(p) : p[i][1] \in Gentle
    <2>1. p \in Seq(DestroyCalls)
      BY SeqMonotonic DEF GentleCalls
    <2>. QED
      BY <2>1 DEF GentleCalls
  <1>. HIDE DEF try, warn
  <1>3. /\ x \in Seq(DestroyCalls) /\ Len(x) = Len(p) + 2
        /\ x[1] = try /\ x[Len(p) + 2] = warn
        /\ \A i \in 2..(Len(p) + 1) : x[i] = p[i - 1]
    BY <1>1, <1>2
  <1>4. Len(p) \in Nat
    OBVIOUS
  <1>. HIDE DEF x
  <1>5. \A i \in 2..(Len(p) + 1) : x[i][1] \in Gentle
    BY <1>2, <1>3, <1>4
  <1>6. ASSUME NEW h \in 1..Len(x), x[h][1] = "warn"
        PROVE  \E t \in 1..(h - 1) : x[t][1] = "try" /\ Section(x, t + 1, h)
    <2>1. h = Len(p) + 2
      <3>1. h # 1
        BY <1>1, <1>3, <1>6
      <3>2. h \notin 2..(Len(p) + 1)
        BY <1>5, <1>6 DEF Gentle
      <3>. QED
        BY <1>3, <1>4, <3>1, <3>2
    <2>2. 1 \in 1..(h - 1) /\ x[1][1] = "try" /\ Section(x, 1 + 1, h)
      BY <1>1, <1>3, <1>4, <1>5, <2>1 DEF Section
    <2>. QED
      BY <2>2
  <1>7. Warned(p) = x
    BY DEF Warned, x, try, warn
  <1>. QED
    BY <1>3, <1>6, <1>7 DEF Whole

LEMMA WholeCollected ==
    ASSUME NEW c \in DestroyCalls, c[1] # "warn"
    PROVE  Collected(<<c>>) \in Whole
  <1>1. <<"try", "", "">> \in Calls /\ <<"collect", "", "">> \in Calls
    BY Zenon DEF Calls, PlainOps
  <1>2. /\ <<"try", "", "">> \in DestroyCalls /\ <<"collect", "", "">> \in DestroyCalls
        /\ <<"try", "", "">>[1] # "warn" /\ <<"collect", "", "">>[1] # "warn"
    BY <1>1 DEF DestroyCalls, DestroyOps
  <1>3. <<<<"try", "", "">>>> \in Whole /\ <<<<"collect", "", "">>>> \in Whole /\ <<c>> \in Whole
    BY <1>2, WholeCalls, Zenon
  <1>. QED
    BY <1>3, WholeJoined, Zenon DEF Collected

\* What is flattened keeps what each piece has and putting two together keeps.
LEMMA FlattenClosed ==
    ASSUME NEW T, <<>> \in T, \A p \in T, q \in T : p \o q \in T, NEW ss \in Seq(T)
    PROVE  FlattenSeq(ss) \in T
  <1>1. CASE Len(ss) = 0
    <2>1. ss = <<>>
      BY <1>1
    <2>. QED
      BY <2>1 DEF FlattenSeq
  <1>2. CASE Len(ss) # 0
    <2>. DEFINE F == CHOOSE f : Joins(ss, f, Len(ss))
                R == {i \in 1..Len(ss) : F[i] \notin T}
    <2>1. Joins(ss, F, Len(ss))
      <3>1. Len(ss) \in Nat
        OBVIOUS
      <3>2. \E f : Joins(ss, f, Len(ss))
        BY <3>1, JoinsExists, Zenon
      <3>. QED
        BY <3>2
    <2>2. FlattenSeq(ss) = F[Len(ss)]
      BY <1>2 DEF FlattenSeq, Joins
    <2>. HIDE DEF F
    <2>3. R = {}
      <3>. SUFFICES ASSUME R # {} PROVE FALSE
        OBVIOUS
      <3>1. PICK k \in R : \A j \in R : k <= j
        <4>1. R \subseteq Nat
          OBVIOUS
        <4>. HIDE DEF R
        <4>. QED
          BY <4>1, Least, Zenon
      <3>2. F[k] = IF k = 1 THEN ss[k] ELSE F[k - 1] \o ss[k]
        BY <2>1, <3>1, Zenon DEF Joins
      <3>3. ss[k] \in T
        BY <3>1
      <3>4. k # 1 => F[k - 1] \in T
        <4>. SUFFICES ASSUME k # 1 PROVE k - 1 \notin R /\ k - 1 \in 1..Len(ss)
          OBVIOUS
        <4>. QED
          BY <3>1
      <3>5. F[k] \in T
        BY <3>2, <3>3, <3>4
      <3>. QED
        BY <3>1, <3>5
    <2>. QED
      BY <1>2, <2>2, <2>3
  <1>. QED
    BY <1>1, <1>2


\* A set as a list names each of its elements.
LEMMA ListsAll ==
    ASSUME NEW Z, IsFiniteSet(Z)
    PROVE  \A z \in Z : \E i \in 1..Len(SetToSeq(Z)) : SetToSeq(Z)[i] = z
  <1>. DEFINE n == Cardinality(Z)
              q == SetToSeq(Z)
  <1>1. n \in Nat /\ ExistsBijection(1..n, Z)
    BY FS_CardinalityType
  <1>2. PICK f \in Bijection(1..n, Z) : TRUE
    BY <1>1 DEF ExistsBijection
  <1>3. f \in [1..n -> Z] /\ IsInjective(f)
    BY <1>2 DEF Bijection, Injection
  <1>4. q \in [1..n -> Z] /\ IsInjective(q)
    BY <1>3 DEF SetToSeq
  <1>5. IsFiniteSet(1..n) /\ Cardinality(1..n) = n
    BY <1>1, FS_Interval
  <1>. HIDE DEF n, q
  <1>6. q \in Injection(1..n, Z)
    BY <1>4 DEF Injection
  <1>7. q \in Surjection(1..n, Z)
    <2>1. Cardinality(1..n) = Cardinality(Z)
      BY <1>5 DEF n
    <2>. QED
      BY <1>6, <2>1, FS_Injection
  <1>8. q \in Seq(Z) /\ Len(q) = n
    BY <1>1, <1>4
  <1>9. \A z \in Z : \E i \in 1..Len(q) : q[i] = z
    BY <1>7, <1>8 DEF Surjection
  <1>. QED
    BY <1>9 DEF q

\* A call stands among others.
Has(x, c) == \E i \in 1..Len(x) : x[i] = c

LEMMA HasJoined ==
    ASSUME NEW P, NEW p \in Seq(P), NEW q \in Seq(P), NEW c, Has(p, c) \/ Has(q, c)
    PROVE  Has(p \o q, c)
  <1>1. CASE Has(p, c)
    <2>1. PICK i \in 1..Len(p) : p[i] = c
      BY <1>1 DEF Has
    <2>2. i \in 1..Len(p \o q) /\ (p \o q)[i] = c
      BY <2>1
    <2>. QED
      BY <2>2 DEF Has
  <1>2. CASE Has(q, c)
    <2>1. PICK i \in 1..Len(q) : q[i] = c
      BY <1>2 DEF Has
    <2>2. i + Len(p) \in 1..Len(p \o q) /\ (p \o q)[i + Len(p)] = c
      BY <2>1
    <2>. QED
      BY <2>2 DEF Has
  <1>. QED
    BY <1>1, <1>2

LEMMA FlattenHas ==
    ASSUME NEW P, NEW ss \in Seq(Seq(P)), NEW c, NEW i \in 1..Len(ss), Has(ss[i], c)
    PROVE  Has(FlattenSeq(ss), c)
  <1>. DEFINE F == CHOOSE f : Joins(ss, f, Len(ss))
              R == {k \in i..Len(ss) : ~ Has(F[k], c)}
  <1>0. Len(ss) \in Nat /\ Len(ss) # 0
    OBVIOUS
  <1>1. Joins(ss, F, Len(ss))
    <2>1. \E f : Joins(ss, f, Len(ss))
      BY <1>0, JoinsExists, Zenon
    <2>. QED
      BY <2>1
  <1>2. FlattenSeq(ss) = F[Len(ss)]
    BY <1>0 DEF FlattenSeq, Joins
  <1>. HIDE DEF F
  <1>3. \A k \in 1..Len(ss) : F[k] \in Seq(P) /\ ss[k] \in Seq(P)
    BY <1>1, JoinsIn
  <1>4. R = {}
    <2>. SUFFICES ASSUME R # {} PROVE FALSE
      OBVIOUS
    <2>1. PICK k \in R : \A j \in R : k <= j
      <3>1. R \subseteq Nat
        OBVIOUS
      <3>. HIDE DEF R
      <3>. QED
        BY <3>1, Least, Zenon
    <2>2. k \in 1..Len(ss) /\ k >= i
      BY <1>0, <2>1
    <2>3. F[k] = IF k = 1 THEN ss[k] ELSE F[k - 1] \o ss[k]
      BY <1>1, <2>2, Zenon DEF Joins
    <2>4. CASE k = 1
      <3>1. k = i
        BY <2>2, <2>4
      <3>. QED
        BY <2>1, <2>3, <2>4, <3>1
    <2>5. CASE k # 1
      <3>1. k - 1 \in 1..Len(ss)
        BY <1>0, <2>2, <2>5
      <3>2. F[k - 1] \in Seq(P) /\ ss[k] \in Seq(P)
        BY <1>3, <2>2, <3>1
      <3>3. Has(ss[k], c) \/ Has(F[k - 1], c)
        <4>1. CASE k = i
          BY <4>1
        <4>2. CASE k # i
          <5>1. k - 1 \notin R /\ k - 1 \in i..Len(ss)
            BY <1>0, <2>1, <2>2, <4>2
          <5>. QED
            BY <5>1
        <4>. QED
          BY <4>1, <4>2
      <3>4. Has(F[k - 1] \o ss[k], c)
        BY <3>2, <3>3, HasJoined, Zenon
      <3>. QED
        BY <2>1, <2>3, <2>5, <3>4
    <2>. QED
      BY <2>4, <2>5
  <1>5. Len(ss) \in i..Len(ss)
    BY <1>0
  <1>. QED
    BY <1>2, <1>4, <1>5

\* The provider modules' copies of what lists and puts together are the same.
LEMMA SameLists ==
    ASSUME NEW Z
    PROVE  H!SetToSeq(Z) = SetToSeq(Z) /\ A!SetToSeq(Z) = SetToSeq(Z) /\ S!SetToSeq(Z) = SetToSeq(Z)
  BY DEF H!SetToSeq, A!SetToSeq, S!SetToSeq, SetToSeq, H!IsInjective, A!IsInjective, S!IsInjective,
         IsInjective, H!Cardinality, A!Cardinality, S!Cardinality, Cardinality

LEMMA SameMarks ==
    ASSUME NEW p
    PROVE  /\ H!Warned(p) = Warned(p) /\ A!Warned(p) = Warned(p) /\ S!Warned(p) = Warned(p)
           /\ H!Collected(p) = Collected(p) /\ A!Collected(p) = Collected(p)
           /\ S!Collected(p) = Collected(p)
  BY DEF H!Warned, A!Warned, S!Warned, Warned, H!Collected, A!Collected, S!Collected, Collected

\* One sequence of calls per element of a list.
LEMMA EachWhole ==
    ASSUME NEW Z, NEW q \in Seq(Z), NEW ss \in [DOMAIN q -> Whole]
    PROVE  FlattenSeq(ss) \in Whole
  <1>1. DOMAIN q = 1..Len(q) /\ Len(q) \in Nat
    OBVIOUS
  <1>2. ss \in Seq(Whole)
    BY <1>1
  <1>. QED
    BY <1>2, WholeEmpty, WholeJoined, FlattenClosed

\* Calls but for the mark of a warning, which alone needs calls before it.
Takes == {c \in DestroyCalls : c[1] # "warn"}

LEMMA TakesWhole == Seq(Takes) \subseteq Whole /\ GentleCalls \subseteq Takes
  <1>1. Takes \subseteq DestroyCalls
    BY DEF Takes
  <1>2. Seq(Takes) \subseteq Seq(DestroyCalls)
    BY <1>1, SeqMonotonic
  <1>3. ASSUME NEW p \in Seq(Takes)
        PROVE  p \in Whole
    <2>1. \A i \in 1..Len(p) : p[i][1] # "warn"
      BY DEF Takes
    <2>. QED
      BY <1>2, <2>1, WholeOf
  <1>. QED
    BY <1>3 DEF GentleCalls, Takes, Gentle

\* Which calls a destroy may come to.
LEMMA TakesHave ==
    /\ \A op \in {"RemoveServer", "DestroyServer"}, s \in Servers : <<op, s, "">> \in Takes
    /\ \A op \in {"DeleteNetwork", "DropNetwork", "StripNetwork", "try", "collect"} :
          <<op, "", "">> \in Takes
    /\ \A fs \in SUBSET Roles : <<"SweepFirewalls", fs, "">> \in Takes
    /\ \A op \in Removing, v \in AllVolumes : <<op, v, "">> \in Takes
    /\ \A s \in Servers : <<"Reach", s, "">> \in GentleCalls
    /\ \A s \in Servers, f \in Roles \cup {"none"} : <<"Protect", s, f>> \in GentleCalls
    /\ \A f \in Roles : <<"DropFirewall", f, "">> \in GentleCalls
    /\ \A v \in AllVolumes : <<"AttachVolume", v, "none">> \in GentleCalls
    /\ \A op \in {"UnmountVolume", "Unmount", "EraseFstab"}, v \in AllVolumes, s \in Servers :
          <<op, v, s>> \in GentleCalls
  <1>1. ASSUME NEW op \in {"RemoveServer", "DestroyServer"}, NEW s \in Servers
        PROVE  <<op, s, "">> \in Takes
    <2>1. <<op, s, "">> \in Calls
      BY Zenon DEF Calls, ServerOps
    <2>. QED
      BY <2>1 DEF Takes, DestroyCalls, DestroyOps, Final
  <1>2. ASSUME NEW op \in {"DeleteNetwork", "DropNetwork", "StripNetwork", "try", "collect"}
        PROVE  <<op, "", "">> \in Takes
    <2>1. <<op, "", "">> \in Calls
      BY Zenon DEF Calls, PlainOps
    <2>. QED
      BY <2>1 DEF Takes, DestroyCalls, DestroyOps, Final
  <1>3. ASSUME NEW fs \in SUBSET Roles
        PROVE  <<"SweepFirewalls", fs, "">> \in Takes
    <2>1. <<"SweepFirewalls", fs, "">> \in Calls
      BY Zenon DEF Calls
    <2>. QED
      BY <2>1 DEF Takes, DestroyCalls, DestroyOps
  <1>4. ASSUME NEW op \in Removing, NEW v \in AllVolumes
        PROVE  <<op, v, "">> \in Takes
    <2>1. <<op, v, "">> \in Calls
      BY Zenon DEF Calls
    <2>. QED
      BY <2>1 DEF Takes, DestroyCalls, DestroyOps, Removing
  <1>5. ASSUME NEW s \in Servers
        PROVE  <<"Reach", s, "">> \in GentleCalls
    <2>1. <<"Reach", s, "">> \in Calls
      BY Zenon DEF Calls, ServerOps
    <2>. QED
      BY <2>1 DEF GentleCalls, DestroyCalls, DestroyOps, Gentle
  <1>6. ASSUME NEW s \in Servers, NEW f \in Roles \cup {"none"}
        PROVE  <<"Protect", s, f>> \in GentleCalls
    <2>1. <<"Protect", s, f>> \in Calls
      BY Zenon DEF Calls
    <2>. QED
      BY <2>1 DEF GentleCalls, DestroyCalls, DestroyOps, Gentle
  <1>7. ASSUME NEW f \in Roles
        PROVE  <<"DropFirewall", f, "">> \in GentleCalls
    <2>1. <<"DropFirewall", f, "">> \in Calls
      BY Zenon DEF Calls
    <2>. QED
      BY <2>1 DEF GentleCalls, DestroyCalls, DestroyOps, Gentle
  <1>8. ASSUME NEW v \in AllVolumes
        PROVE  <<"AttachVolume", v, "none">> \in GentleCalls
    <2>1. <<"AttachVolume", v, "none">> \in Calls
      BY Zenon DEF Calls
    <2>. QED
      BY <2>1 DEF GentleCalls, DestroyCalls, DestroyOps, Gentle
  <1>9. ASSUME NEW op \in {"UnmountVolume", "Unmount", "EraseFstab"}, NEW v \in AllVolumes,
               NEW s \in Servers
        PROVE  <<op, v, s>> \in GentleCalls
    <2>1. <<op, v, s>> \in Calls
      BY Zenon DEF Calls, MountOps
    <2>. QED
      BY <2>1 DEF GentleCalls, DestroyCalls, DestroyOps, Gentle
  <1>. QED
    BY <1>1, <1>2, <1>3, <1>4, <1>5, <1>6, <1>7, <1>8, <1>9, Zenon

\* One call, or none, and what is warned of.
LEMMA ShortWhole ==
    /\ \A c \in Takes : <<c>> \in Whole /\ Collected(<<c>>) \in Whole
    /\ \A c \in Takes, d \in Takes : <<c, d>> \in Whole
    /\ \A c \in GentleCalls : <<c>> \in Whole /\ Warned(<<c>>) \in Whole
    /\ \A c \in GentleCalls, d \in GentleCalls : Warned(<<c, d>>) \in Whole
  <1>1. ASSUME NEW c \in Takes
        PROVE  <<c>> \in Whole /\ Collected(<<c>>) \in Whole
    BY WholeCalls, WholeCollected, Zenon DEF Takes
  <1>2. ASSUME NEW c \in Takes, NEW d \in Takes
        PROVE  <<c, d>> \in Whole
    BY WholeCalls, Zenon DEF Takes
  <1>3. ASSUME NEW c \in GentleCalls
        PROVE  <<c>> \in Whole /\ Warned(<<c>>) \in Whole
    BY <1>1, TakesWhole, OneCall, WholeMarked, Zenon
  <1>4. ASSUME NEW c \in GentleCalls, NEW d \in GentleCalls
        PROVE  Warned(<<c, d>>) \in Whole
    BY TwoCalls, WholeMarked, Zenon
  <1>. QED
    BY <1>1, <1>2, <1>3, <1>4, Zenon

----------------------------------------------------------------------------
(***************************************************************************)
(* What the operations of a destroy come to.                               *)
(***************************************************************************)
LEMMA SweepFirewallsWhole ==
    ASSUME Live, NEW fs
    PROVE  H!SweepFirewalls(fs) \in Whole /\ A!SweepFirewalls(fs) \in Whole
           /\ S!SweepFirewalls(fs) \in Whole
  <1>. DEFINE Z == DOMAIN firewalls \ fs
  <1>1. PICK q \in Seq(Z) : q = SetToSeq(Z)
    <2>1. IsFiniteSet(Z)
      BY LiveSets, FS_Subset
    <2>. QED
      BY <2>1, Listed
  <1>. DEFINE ss == [i \in DOMAIN q |-> Warned(<<Call("DropFirewall", q[i], "")>>)]
  <1>2. ss \in [DOMAIN q -> Whole]
    <2>1. \A i \in DOMAIN q : q[i] \in Roles
      BY DEF Live
    <2>2. \A i \in DOMAIN q : Warned(<<Call("DropFirewall", q[i], "")>>) \in Whole
      BY <2>1, TakesHave, ShortWhole, Zenon
    <2>. QED
      BY <2>2, Zenon
  <1>3. FlattenSeq(ss) \in Whole
    BY <1>2, EachWhole, Zenon
  <1>4. H!SweepFirewalls(fs) = FlattenSeq(ss)
    BY <1>1, SameLists, SameFlatten, SameMarks, Zenon DEF H!SweepFirewalls, H!Each
  <1>5. A!SweepFirewalls(fs) = FlattenSeq(ss)
    BY <1>1, SameLists, SameFlatten, SameMarks, Zenon DEF A!SweepFirewalls, A!Each
  <1>6. S!SweepFirewalls(fs) = FlattenSeq(ss)
    BY <1>1, SameLists, SameFlatten, SameMarks, Zenon DEF S!SweepFirewalls, S!Each
  <1>. QED
    BY <1>3, <1>4, <1>5, <1>6

LEMMA DeleteNetworkWhole ==
    /\ H!DeleteNetwork \in Whole /\ A!DeleteNetwork \in Whole /\ S!DeleteNetwork \in Whole
    /\ network # {} => /\ Has(H!DeleteNetwork, <<"DropNetwork", "", "">>)
                       /\ Has(A!DeleteNetwork, <<"DropNetwork", "", "">>)
                       /\ Has(S!DeleteNetwork, <<"DropNetwork", "", "">>)
  <1>. DEFINE drop == <<"DropNetwork", "", "">>
              strip == <<"StripNetwork", "", "">>
  <1>1. <<drop>> \in Whole /\ <<strip, drop>> \in Whole
    BY TakesHave, ShortWhole, Zenon
  <1>2. /\ H!DeleteNetwork = (IF network = {} THEN <<>> ELSE <<drop>>)
        /\ A!DeleteNetwork = (IF network = {} THEN <<>> ELSE <<strip, drop>>)
        /\ S!DeleteNetwork = (IF network = {} THEN <<>> ELSE <<drop>>)
    BY DEF H!DeleteNetwork, A!DeleteNetwork, S!DeleteNetwork
  <1>. HIDE DEF drop, strip
  <1>3. Has(<<drop>>, drop) /\ Has(<<strip, drop>>, drop)
    <2>1. 1 \in 1..Len(<<drop>>) /\ <<drop>>[1] = drop
      OBVIOUS
    <2>2. 2 \in 1..Len(<<strip, drop>>) /\ <<strip, drop>>[2] = drop
      OBVIOUS
    <2>. QED
      BY <2>1, <2>2, Zenon DEF Has
  <1>4. /\ H!DeleteNetwork \in Whole /\ A!DeleteNetwork \in Whole /\ S!DeleteNetwork \in Whole
    BY <1>1, <1>2, WholeEmpty, Zenon
  <1>5. network # {} => /\ Has(H!DeleteNetwork, drop) /\ Has(A!DeleteNetwork, drop)
                        /\ Has(S!DeleteNetwork, drop)
    BY <1>2, <1>3, Zenon
  <1>. QED
    BY <1>4, <1>5 DEF drop

LEMMA DeleteVolumeWhole ==
    ASSUME NEW v \in AllVolumes
    PROVE  H!DeleteVolume(v) \in Whole /\ A!DeleteVolume(v) \in Whole /\ S!DeleteVolume(v) \in Whole
  <1>1. <<<<"DropVolume", v, "">>>> \in Whole
    BY TakesHave, ShortWhole, Zenon DEF Removing
  <1>2. /\ <<<<"AttachVolume", v, "none">>>> \in Whole
        /\ Warned(<<<<"AttachVolume", v, "none">>>>) \in Whole
    BY TakesHave, ShortWhole, Zenon
  <1>3. /\ H!DetachVolume(v) \in Whole /\ A!DetachVolume(v) \in Whole /\ S!DetachVolume(v) \in Whole
    BY <1>2, WholeEmpty, SameMarks, Zenon DEF H!DetachVolume, A!DetachVolume, S!DetachVolume
  <1>. QED
    BY <1>1, <1>3, WholeJoined, WholeEmpty, Zenon DEF H!DeleteVolume, A!DeleteVolume, S!DeleteVolume

\* The calls that remove a server end with the one that destroys it.
LEMMA DeleteServerWhole ==
    ASSUME Live, NEW s \in Servers
    PROVE  \A x \in {H!DeleteServer(s), A!DeleteServer(s), S!DeleteServer(s)} :
              x \in Whole /\ Has(x, <<"DestroyServer", s, "">>)
  <1>. DEFINE Z == Holding(s)
              gone == <<"DestroyServer", s, "">>
              bare == <<"Protect", s, "none">>
  <1>1. PICK q \in Seq(Z) : q = SetToSeq(Z)
    <2>1. IsFiniteSet(Z)
      BY LiveSets, FS_Subset DEF Holding
    <2>. QED
      BY <2>1, Listed
  <1>. DEFINE ss == [i \in DOMAIN q |-> <<Call("AttachVolume", q[i], "none")>>]
  <1>2. ss \in [DOMAIN q -> Whole]
    <2>1. \A i \in DOMAIN q : q[i] \in AllVolumes
      BY DEF Live, Holding
    <2>2. \A i \in DOMAIN q : <<Call("AttachVolume", q[i], "none")>> \in Whole
      BY <2>1, TakesHave, ShortWhole, Zenon
    <2>. QED
      BY <2>2, Zenon
  <1>. DEFINE freed == FlattenSeq(ss)
  <1>3. freed \in Whole
    BY <1>2, EachWhole, Zenon
  <1>4. H!Holding(s) = Holding(s) /\ A!Holding(s) = Holding(s) /\ S!Holding(s) = Holding(s)
    BY DEF H!Holding, A!Holding, S!Holding, Holding
  <1>5. H!DeleteServer(s) =
            (IF servers[s].fw = "none" THEN <<>> ELSE <<bare>>) \o freed \o <<gone>>
    BY <1>1, <1>4, SameLists, SameFlatten, Zenon DEF H!DeleteServer, H!Each
  <1>6. A!DeleteServer(s) = freed \o <<gone>>
    BY <1>1, <1>4, SameLists, SameFlatten, Zenon DEF A!DeleteServer, A!Each
  <1>7. S!DeleteServer(s) = Warned(<<bare>>) \o freed \o <<gone>>
    BY <1>1, <1>4, SameLists, SameFlatten, SameMarks, Zenon DEF S!DeleteServer, S!Each
  <1>8. <<bare>> \in Whole /\ Warned(<<bare>>) \in Whole /\ <<gone>> \in Whole
    BY TakesHave, ShortWhole, Zenon
  <1>. HIDE DEF freed, gone, bare
  <1>9. Has(<<gone>>, gone)
    <2>1. 1 \in 1..Len(<<gone>>) /\ <<gone>>[1] = gone
      OBVIOUS
    <2>. QED
      BY <2>1, Zenon DEF Has
  <1>10. \A p \in Whole : p \o <<gone>> \in Whole /\ Has(p \o <<gone>>, gone)
    <2>1. Whole \subseteq Seq(DestroyCalls)
      BY DEF Whole
    <2>. QED
      BY <1>8, <1>9, <2>1, WholeJoined, HasJoined
  <1>11. /\ (IF servers[s].fw = "none" THEN <<>> ELSE <<bare>>) \o freed \in Whole
         /\ Warned(<<bare>>) \o freed \in Whole
    <2>1. (IF servers[s].fw = "none" THEN <<>> ELSE <<bare>>) \in Whole
      BY <1>8, WholeEmpty, Zenon
    <2>. QED
      BY <1>3, <1>8, <2>1, WholeJoined, Zenon
  <1>12. \A x \in {H!DeleteServer(s), A!DeleteServer(s), S!DeleteServer(s)} :
            x \in Whole /\ Has(x, gone)
    BY <1>3, <1>5, <1>6, <1>7, <1>10, <1>11, Zenon
  <1>. QED
    BY <1>12 DEF gone

LEMMA DrainAndDeleteServerWhole ==
    ASSUME Live, NEW s \in Servers
    PROVE  \A x \in {H!DrainAndDeleteServer(s), A!DrainAndDeleteServer(s), S!DrainAndDeleteServer(s)} :
              x \in Whole /\ (s \in DOMAIN servers => Has(x, <<"DestroyServer", s, "">>))
  BY DeleteServerWhole, WholeEmpty, Zenon
     DEF H!DrainAndDeleteServer, A!DrainAndDeleteServer, S!DrainAndDeleteServer

LEMMA UnmountAndDeleteVolumeWhole ==
    ASSUME Live, NEW v \in AllVolumes
    PROVE  \A x \in {H!UnmountAndDeleteVolume(v), A!UnmountAndDeleteVolume(v),
                     S!UnmountAndDeleteVolume(v)} : x \in Whole
  <1>. DEFINE Z == DOMAIN servers
              next == <<Call("DeleteVolume", v, "")>>
  <1>1. PICK q \in Seq(Z) : q = SetToSeq(Z)
    BY LiveSets, Listed
  <1>. DEFINE ss == [i \in DOMAIN q |->
                        Warned(<<Call("Reach", q[i], ""), Call("UnmountVolume", v, q[i])>>)]
  <1>2. ss \in [DOMAIN q -> Whole]
    <2>1. \A i \in DOMAIN q : q[i] \in Servers
      BY DEF Live
    <2>2. \A i \in DOMAIN q :
              Warned(<<Call("Reach", q[i], ""), Call("UnmountVolume", v, q[i])>>) \in Whole
      BY <2>1, TakesHave, ShortWhole, Zenon
    <2>. QED
      BY <2>2, Zenon
  <1>. DEFINE freed == FlattenSeq(ss)
  <1>3. freed \in Whole
    BY <1>2, EachWhole, Zenon
  <1>4. /\ v \notin H!LiveVolumes => H!UnmountAndDeleteVolume(v) = <<>>
        /\ v \in H!LiveVolumes => H!UnmountAndDeleteVolume(v) = freed \o next
    <2>1. CASE v \notin H!LiveVolumes
      BY <2>1, Zenon DEF H!UnmountAndDeleteVolume
    <2>2. CASE v \in H!LiveVolumes
      <3>. DEFINE hs == [i \in DOMAIN q |->
                           H!Warned(<<Call("Reach", q[i], ""), Call("UnmountVolume", v, q[i])>>)]
      <3>1. H!UnmountAndDeleteVolume(v) = H!FlattenSeq(hs) \o next
        BY <1>1, <2>2, SameLists, Zenon DEF H!UnmountAndDeleteVolume, H!Each
      <3>2. hs = ss
        BY SameMarks, Zenon
      <3>. QED
        BY <2>2, <3>1, <3>2, SameFlatten, Zenon
    <2>. QED
      BY <2>1, <2>2
  <1>5. /\ v \notin A!LiveVolumes => A!UnmountAndDeleteVolume(v) = <<>>
        /\ v \in A!LiveVolumes => A!UnmountAndDeleteVolume(v) = freed \o next
    <2>1. CASE v \notin A!LiveVolumes
      BY <2>1, Zenon DEF A!UnmountAndDeleteVolume
    <2>2. CASE v \in A!LiveVolumes
      <3>. DEFINE hs == [i \in DOMAIN q |->
                           A!Warned(<<Call("Reach", q[i], ""), Call("UnmountVolume", v, q[i])>>)]
      <3>1. A!UnmountAndDeleteVolume(v) = A!FlattenSeq(hs) \o next
        BY <1>1, <2>2, SameLists, Zenon DEF A!UnmountAndDeleteVolume, A!Each
      <3>2. hs = ss
        BY SameMarks, Zenon
      <3>. QED
        BY <2>2, <3>1, <3>2, SameFlatten, Zenon
    <2>. QED
      BY <2>1, <2>2
  <1>6. /\ v \notin S!LiveVolumes => S!UnmountAndDeleteVolume(v) = <<>>
        /\ v \in S!LiveVolumes => S!UnmountAndDeleteVolume(v) = freed \o next
    <2>1. CASE v \notin S!LiveVolumes
      BY <2>1, Zenon DEF S!UnmountAndDeleteVolume
    <2>2. CASE v \in S!LiveVolumes
      <3>. DEFINE hs == [i \in DOMAIN q |->
                           S!Warned(<<Call("Reach", q[i], ""), Call("UnmountVolume", v, q[i])>>)]
      <3>1. S!UnmountAndDeleteVolume(v) = S!FlattenSeq(hs) \o next
        BY <1>1, <2>2, SameLists, Zenon DEF S!UnmountAndDeleteVolume, S!Each
      <3>2. hs = ss
        BY SameMarks, Zenon
      <3>. QED
        BY <2>2, <3>1, <3>2, SameFlatten, Zenon
    <2>. QED
      BY <2>1, <2>2
  <1>7. next \in Whole
    BY TakesHave, ShortWhole, Zenon DEF Removing
  <1>. HIDE DEF freed, next
  <1>8. freed \o next \in Whole
    BY <1>3, <1>7, WholeJoined, Zenon
  <1>. QED
    BY <1>4, <1>5, <1>6, <1>8, WholeEmpty, Zenon

LEMMA UnmountVolumeGentle ==
    ASSUME NEW v \in AllVolumes, NEW s \in Servers
    PROVE  UnmountVolume(v, s) \in Seq(GentleCalls)
  <1>1. <<"Unmount", v, s>> \in GentleCalls /\ <<"EraseFstab", v, s>> \in GentleCalls
    BY TakesHave, Zenon
  <1>. QED
    BY <1>1, NoCalls, TwoCalls DEF UnmountVolume

\* A volume to remove, a server to remove, each on its own.
LEMMA GoneWhole ==
    ASSUME NEW vs \in SUBSET AllVolumes, IsFiniteSet(vs)
    PROVE  Each(vs, LAMBDA v : Collected(<<Call("RemoveVolume", v, "")>>)) \in Whole
  <1>1. PICK q \in Seq(vs) : q = SetToSeq(vs)
    BY Listed
  <1>. DEFINE ss == [i \in DOMAIN q |-> Collected(<<Call("RemoveVolume", q[i], "")>>)]
  <1>2. ss \in [DOMAIN q -> Whole]
    <2>1. \A i \in DOMAIN q : q[i] \in AllVolumes
      OBVIOUS
    <2>2. \A i \in DOMAIN q : Collected(<<Call("RemoveVolume", q[i], "")>>) \in Whole
      BY <2>1, TakesHave, ShortWhole, Zenon DEF Removing
    <2>. QED
      BY <2>2, Zenon
  <1>3. FlattenSeq(ss) \in Whole
    BY <1>2, EachWhole, Zenon
  <1>4. Each(vs, LAMBDA v : Collected(<<Call("RemoveVolume", v, "")>>)) = FlattenSeq(ss)
    BY <1>1, Zenon DEF Each
  <1>. QED
    BY <1>3, <1>4, Zenon

LEMMA NukeWhole ==
    ASSUME NEW ns \in SUBSET Servers, IsFiniteSet(ns)
    PROVE  /\ Each(ns, LAMBDA s : Collected(<<Call("RemoveServer", s, "")>>)) \in Whole
           /\ \A n \in ns : Has(Each(ns, LAMBDA s : Collected(<<Call("RemoveServer", s, "")>>)),
                                <<"RemoveServer", n, "">>)
  <1>1. PICK q \in Seq(ns) : q = SetToSeq(ns)
    BY Listed
  <1>. DEFINE ss == [i \in DOMAIN q |-> Collected(<<Call("RemoveServer", q[i], "")>>)]
  <1>2. ss \in [DOMAIN q -> Whole]
    <2>1. \A i \in DOMAIN q : q[i] \in Servers
      OBVIOUS
    <2>2. \A i \in DOMAIN q : Collected(<<Call("RemoveServer", q[i], "")>>) \in Whole
      BY <2>1, TakesHave, ShortWhole, Zenon
    <2>. QED
      BY <2>2, Zenon
  <1>3. FlattenSeq(ss) \in Whole
    BY <1>2, EachWhole, Zenon
  <1>4. Each(ns, LAMBDA s : Collected(<<Call("RemoveServer", s, "")>>)) = FlattenSeq(ss)
    BY <1>1, Zenon DEF Each
  <1>5. ASSUME NEW n \in ns
        PROVE  Has(FlattenSeq(ss), <<"RemoveServer", n, "">>)
    <2>1. PICK i \in 1..Len(q) : q[i] = n
      BY <1>1, ListsAll, Zenon
    <2>2. ss[i] = Collected(<<Call("RemoveServer", n, "")>>) /\ i \in 1..Len(ss)
          /\ ss \in Seq(Seq(DestroyCalls))
      <3>1. DOMAIN q = 1..Len(q) /\ Len(q) \in Nat
        OBVIOUS
      <3>2. ss[i] = Collected(<<Call("RemoveServer", n, "")>>)
        BY <2>1, <3>1, Zenon
      <3>3. ss \in [1..Len(q) -> Whole] /\ Whole \subseteq Seq(DestroyCalls)
        BY <1>2, <3>1, Zenon DEF Whole
      <3>. HIDE DEF ss
      <3>4. ss \in [1..Len(q) -> Seq(DestroyCalls)]
        BY <3>3
      <3>5. Len(ss) = Len(q) /\ ss \in Seq(Seq(DestroyCalls))
        BY <3>1, <3>4
      <3>. QED
        BY <2>1, <3>2, <3>5
    <2>3. Has(Collected(<<Call("RemoveServer", n, "")>>), <<"RemoveServer", n, "">>)
      <3>. DEFINE c == <<"RemoveServer", n, "">>
      <3>1. <<"try", "", "">> \in Takes /\ <<"collect", "", "">> \in Takes /\ c \in Takes
        BY TakesHave, Zenon
      <3>. HIDE DEF c
      <3>2. 1 \in 1..Len(<<c>>) /\ <<c>>[1] = c
        OBVIOUS
      <3>3. Has(<<c>>, c)
        BY <3>2, Zenon DEF Has
      <3>4. Has(<<<<"try", "", "">>>> \o <<c>>, c)
        BY <3>1, <3>3, OneCall, HasJoined, Zenon
      <3>5. Has(<<<<"try", "", "">>>> \o <<c>> \o <<<<"collect", "", "">>>>, c)
        <4>1. <<<<"try", "", "">>>> \o <<c>> \in Seq(Takes) /\ <<<<"collect", "", "">>>> \in Seq(Takes)
          BY <3>1, OneCall, Joined, Zenon
        <4>. QED
          BY <3>4, <4>1, HasJoined, Zenon
      <3>. QED
        BY <3>5, Zenon DEF Collected, c
    <2>. HIDE DEF ss
    <2>. QED
      BY <2>2, <2>3, FlattenHas, Zenon
  <1>. QED
    BY <1>3, <1>4, <1>5, Zenon

LEMMA SameGone ==
    ASSUME NEW vs
    PROVE  /\ H!Each(vs, LAMBDA v : H!Collected(<<Call("RemoveVolume", v, "")>>))
                = Each(vs, LAMBDA v : Collected(<<Call("RemoveVolume", v, "")>>))
           /\ A!Each(vs, LAMBDA v : A!Collected(<<Call("RemoveVolume", v, "")>>))
                = Each(vs, LAMBDA v : Collected(<<Call("RemoveVolume", v, "")>>))
           /\ S!Each(vs, LAMBDA v : S!Collected(<<Call("RemoveVolume", v, "")>>))
                = Each(vs, LAMBDA v : Collected(<<Call("RemoveVolume", v, "")>>))
  <1>. DEFINE q == SetToSeq(vs)
              ss == [i \in DOMAIN q |-> Collected(<<Call("RemoveVolume", q[i], "")>>)]
  <1>1. Each(vs, LAMBDA v : Collected(<<Call("RemoveVolume", v, "")>>)) = FlattenSeq(ss)
    BY Zenon DEF Each
  <1>2. H!Each(vs, LAMBDA v : H!Collected(<<Call("RemoveVolume", v, "")>>)) = FlattenSeq(ss)
    <2>. DEFINE hs == [i \in DOMAIN q |-> H!Collected(<<Call("RemoveVolume", q[i], "")>>)]
    <2>1. H!Each(vs, LAMBDA v : H!Collected(<<Call("RemoveVolume", v, "")>>)) = H!FlattenSeq(hs)
      BY SameLists, Zenon DEF H!Each
    <2>2. hs = ss
      BY SameMarks, Zenon
    <2>. QED
      BY <2>1, <2>2, SameFlatten, Zenon
  <1>3. A!Each(vs, LAMBDA v : A!Collected(<<Call("RemoveVolume", v, "")>>)) = FlattenSeq(ss)
    <2>. DEFINE hs == [i \in DOMAIN q |-> A!Collected(<<Call("RemoveVolume", q[i], "")>>)]
    <2>1. A!Each(vs, LAMBDA v : A!Collected(<<Call("RemoveVolume", v, "")>>)) = A!FlattenSeq(hs)
      BY SameLists, Zenon DEF A!Each
    <2>2. hs = ss
      BY SameMarks, Zenon
    <2>. QED
      BY <2>1, <2>2, SameFlatten, Zenon
  <1>4. S!Each(vs, LAMBDA v : S!Collected(<<Call("RemoveVolume", v, "")>>)) = FlattenSeq(ss)
    <2>. DEFINE hs == [i \in DOMAIN q |-> S!Collected(<<Call("RemoveVolume", q[i], "")>>)]
    <2>1. S!Each(vs, LAMBDA v : S!Collected(<<Call("RemoveVolume", v, "")>>)) = S!FlattenSeq(hs)
      BY SameLists, Zenon DEF S!Each
    <2>2. hs = ss
      BY SameMarks, Zenon
    <2>. QED
      BY <2>1, <2>2, SameFlatten, Zenon
  <1>. QED
    BY <1>1, <1>2, <1>3, <1>4, Zenon

LEMMA SameNuke ==
    ASSUME NEW ns
    PROVE  /\ H!Each(ns, LAMBDA s : H!Collected(<<Call("RemoveServer", s, "")>>))
                = Each(ns, LAMBDA s : Collected(<<Call("RemoveServer", s, "")>>))
           /\ A!Each(ns, LAMBDA s : A!Collected(<<Call("RemoveServer", s, "")>>))
                = Each(ns, LAMBDA s : Collected(<<Call("RemoveServer", s, "")>>))
           /\ S!Each(ns, LAMBDA s : S!Collected(<<Call("RemoveServer", s, "")>>))
                = Each(ns, LAMBDA s : Collected(<<Call("RemoveServer", s, "")>>))
  <1>. DEFINE q == SetToSeq(ns)
              ss == [i \in DOMAIN q |-> Collected(<<Call("RemoveServer", q[i], "")>>)]
  <1>1. Each(ns, LAMBDA s : Collected(<<Call("RemoveServer", s, "")>>)) = FlattenSeq(ss)
    BY Zenon DEF Each
  <1>2. H!Each(ns, LAMBDA s : H!Collected(<<Call("RemoveServer", s, "")>>)) = FlattenSeq(ss)
    <2>. DEFINE hs == [i \in DOMAIN q |-> H!Collected(<<Call("RemoveServer", q[i], "")>>)]
    <2>1. H!Each(ns, LAMBDA s : H!Collected(<<Call("RemoveServer", s, "")>>)) = H!FlattenSeq(hs)
      BY SameLists, Zenon DEF H!Each
    <2>2. hs = ss
      BY SameMarks, Zenon
    <2>. QED
      BY <2>1, <2>2, SameFlatten, Zenon
  <1>3. A!Each(ns, LAMBDA s : A!Collected(<<Call("RemoveServer", s, "")>>)) = FlattenSeq(ss)
    <2>. DEFINE hs == [i \in DOMAIN q |-> A!Collected(<<Call("RemoveServer", q[i], "")>>)]
    <2>1. A!Each(ns, LAMBDA s : A!Collected(<<Call("RemoveServer", s, "")>>)) = A!FlattenSeq(hs)
      BY SameLists, Zenon DEF A!Each
    <2>2. hs = ss
      BY SameMarks, Zenon
    <2>. QED
      BY <2>1, <2>2, SameFlatten, Zenon
  <1>4. S!Each(ns, LAMBDA s : S!Collected(<<Call("RemoveServer", s, "")>>)) = FlattenSeq(ss)
    <2>. DEFINE hs == [i \in DOMAIN q |-> S!Collected(<<Call("RemoveServer", q[i], "")>>)]
    <2>1. S!Each(ns, LAMBDA s : S!Collected(<<Call("RemoveServer", s, "")>>)) = S!FlattenSeq(hs)
      BY SameLists, Zenon DEF S!Each
    <2>2. hs = ss
      BY SameMarks, Zenon
    <2>. QED
      BY <2>1, <2>2, SameFlatten, Zenon
  <1>. QED
    BY <1>1, <1>2, <1>3, <1>4, Zenon

\* A destroy removes every declared server, and the network.
LEMMA TeardownWhole ==
    ASSUME Live, NEW deleteVolumes \in BOOLEAN
    PROVE  \A x \in {H!Teardown(deleteVolumes), A!Teardown(deleteVolumes), S!Teardown(deleteVolumes)} :
              /\ x \in Whole
              /\ \A s \in Declared : Has(x, <<"RemoveServer", s, "">>)
              /\ Has(x, <<"DeleteNetwork", "", "">>)
  <1>. DEFINE caches == {Cache(s) : s \in WithRole("builder")}
              Gone(vs) == Each(vs, LAMBDA v : Collected(<<Call("RemoveVolume", v, "")>>))
              Nuke(ns) == Each(ns, LAMBDA s : Collected(<<Call("RemoveServer", s, "")>>))
              p1 == IF deleteVolumes THEN Gone(DOMAIN cfg.volume) ELSE <<>>
              p2 == Gone(caches)
              p3 == Nuke(WithRole("builder"))
              p4 == Nuke(WithRole("worker"))
              p5 == Nuke(WithRole("master"))
              p6 == <<Call("SweepFirewalls", {}, "")>>
              p7 == Collected(<<Call("DeleteNetwork", "", "")>>)
              all == p1 \o p2 \o p3 \o p4 \o p5 \o p6 \o p7
  <1>1. p1 \in Whole
    <2>1. DOMAIN cfg.volume \in SUBSET AllVolumes /\ IsFiniteSet(DOMAIN cfg.volume)
      BY LiveSets DEF AllVolumes
    <2>2. Gone(DOMAIN cfg.volume) \in Whole
      BY <2>1, GoneWhole, Zenon
    <2>. QED
      BY <2>2, WholeEmpty, Zenon
  <1>2. p2 \in Whole
    <2>1. caches \in SUBSET AllVolumes
      BY DeclaredNames, LiveSets
    <2>2. IsFiniteSet(caches)
      BY <2>1, FiniteSets, FS_Subset
    <2>. HIDE DEF caches
    <2>. QED
      BY <2>1, <2>2, GoneWhole, Zenon
  <1>3. \A r : /\ Nuke(WithRole(r)) \in Whole
               /\ \A s \in WithRole(r) : Has(Nuke(WithRole(r)), <<"RemoveServer", s, "">>)
    <2>1. \A r : WithRole(r) \in SUBSET Servers /\ IsFiniteSet(WithRole(r))
      BY DeclaredNames, LiveSets
    <2>. QED
      BY <2>1, NukeWhole, Zenon
  <1>4. p6 \in Whole
    BY TakesHave, ShortWhole, Zenon
  <1>5. p7 \in Whole /\ Has(p7, <<"DeleteNetwork", "", "">>)
    <2>. DEFINE c == <<"DeleteNetwork", "", "">>
    <2>1. <<"try", "", "">> \in Takes /\ <<"collect", "", "">> \in Takes /\ c \in Takes
      BY TakesHave, Zenon
    <2>2. Collected(<<c>>) \in Whole
      BY <2>1, ShortWhole, Zenon
    <2>. HIDE DEF c
    <2>3. 1 \in 1..Len(<<c>>) /\ <<c>>[1] = c
      OBVIOUS
    <2>4. Has(<<c>>, c)
      BY <2>3, Zenon DEF Has
    <2>5. Has(<<<<"try", "", "">>>> \o <<c>>, c)
      BY <2>1, <2>4, OneCall, HasJoined, Zenon
    <2>6. <<<<"try", "", "">>>> \o <<c>> \in Seq(Takes) /\ <<<<"collect", "", "">>>> \in Seq(Takes)
      BY <2>1, OneCall, Joined, Zenon
    <2>7. Has(<<<<"try", "", "">>>> \o <<c>> \o <<<<"collect", "", "">>>>, c)
      BY <2>5, <2>6, HasJoined, Zenon
    <2>. QED
      BY <2>2, <2>7, Zenon DEF Collected, c
  <1>6. H!Teardown(deleteVolumes) = all
    BY SameNames, SameGone, SameNuke, SameMarks, Zenon DEF H!Teardown
  <1>7. A!Teardown(deleteVolumes) = all
    BY SameNames, SameGone, SameNuke, SameMarks, Zenon DEF A!Teardown
  <1>8. S!Teardown(deleteVolumes) = all
    BY SameNames, SameGone, SameNuke, SameMarks, Zenon DEF S!Teardown
  <1>9. p3 \in Whole /\ p4 \in Whole /\ p5 \in Whole
    BY <1>3, Zenon
  <1>10. \A s \in Declared : Has(p3, <<"RemoveServer", s, "">>) \/ Has(p4, <<"RemoveServer", s, "">>)
                             \/ Has(p5, <<"RemoveServer", s, "">>)
    <2>. SUFFICES ASSUME NEW s \in Declared
                  PROVE  \/ Has(p3, <<"RemoveServer", s, "">>) \/ Has(p4, <<"RemoveServer", s, "">>)
                         \/ Has(p5, <<"RemoveServer", s, "">>)
      BY Zenon
    <2>1. cfg.role[s] \in Roles
      BY LiveSets
    <2>2. s \in WithRole("builder") \/ s \in WithRole("worker") \/ s \in WithRole("master")
      BY <2>1 DEF WithRole, Roles
    <2>. QED
      BY <1>3, <2>2, Zenon
  <1>. HIDE DEF p1, p2, p3, p4, p5, p6, p7
  <1>11. Whole \subseteq Seq(DestroyCalls)
    BY DEF Whole
  <1>. DEFINE a2 == p1 \o p2
              a3 == a2 \o p3
              a4 == a3 \o p4
              a5 == a4 \o p5
              a6 == a5 \o p6
  <1>12. a2 \in Whole /\ a3 \in Whole /\ a4 \in Whole /\ a5 \in Whole /\ a6 \in Whole
         /\ a6 \o p7 \in Whole
    BY <1>1, <1>2, <1>4, <1>5, <1>9, WholeJoined, Zenon
  <1>13. \A c : /\ Has(p3, c) => Has(a3, c)
                /\ Has(a3, c) \/ Has(p4, c) => Has(a4, c)
                /\ Has(a4, c) \/ Has(p5, c) => Has(a5, c)
                /\ Has(a5, c) => Has(a6, c)
                /\ Has(a6, c) \/ Has(p7, c) => Has(a6 \o p7, c)
    <2>1. /\ a2 \in Seq(DestroyCalls) /\ a3 \in Seq(DestroyCalls) /\ a4 \in Seq(DestroyCalls)
          /\ a5 \in Seq(DestroyCalls) /\ a6 \in Seq(DestroyCalls)
          /\ p3 \in Seq(DestroyCalls) /\ p4 \in Seq(DestroyCalls) /\ p5 \in Seq(DestroyCalls)
          /\ p6 \in Seq(DestroyCalls) /\ p7 \in Seq(DestroyCalls)
      BY <1>4, <1>5, <1>9, <1>11, <1>12
    <2>. HIDE DEF a2
    <2>2. \A c : Has(p3, c) => Has(a3, c)
      BY <2>1, HasJoined, Zenon
    <2>. HIDE DEF a3
    <2>3. \A c : Has(a3, c) \/ Has(p4, c) => Has(a4, c)
      BY <2>1, HasJoined, Zenon
    <2>. HIDE DEF a4
    <2>4. \A c : Has(a4, c) \/ Has(p5, c) => Has(a5, c)
      BY <2>1, HasJoined, Zenon
    <2>. HIDE DEF a5
    <2>5. \A c : Has(a5, c) => Has(a6, c)
      BY <2>1, HasJoined, Zenon
    <2>. HIDE DEF a6
    <2>6. \A c : Has(a6, c) \/ Has(p7, c) => Has(a6 \o p7, c)
      BY <2>1, HasJoined, Zenon
    <2>. QED
      BY <2>2, <2>3, <2>4, <2>5, <2>6, Zenon
  <1>14. all = a6 \o p7
    OBVIOUS
  <1>. HIDE DEF all, a2, a3, a4, a5, a6
  <1>15. /\ all \in Whole
         /\ \A s \in Declared : Has(all, <<"RemoveServer", s, "">>)
         /\ Has(all, <<"DeleteNetwork", "", "">>)
    BY <1>5, <1>10, <1>12, <1>13, <1>14, Zenon
  <1>. QED
    BY <1>6, <1>7, <1>8, <1>15, Zenon

----------------------------------------------------------------------------
(***************************************************************************)
(* What a destroy keeps to.                                                *)
(***************************************************************************)
\* Before every warning, back to where it began or to the call at hand, come
\* gentle calls alone.
Warnings(x) ==
    \A h \in 1..Len(x) : x[h][1] = "warn"
        => \E t \in 0..(h - 1) : (t = 0 \/ x[t][1] = "try") /\ Section(x, t + 1, h)

Ordered(x) == Warnings(x) /\ \A i \in 1..(Len(x) - 1) : x[i] \in DestroyCalls

LEMMA OrderedWhole ==
    ASSUME NEW p \in Whole, NEW e \in Calls, e[1] # "warn"
    PROVE  Ordered(p \o <<e>>)
  <1>. DEFINE x == p \o <<e>>
  <1>1. p \in Seq(DestroyCalls) /\ p \in Seq(Calls)
    BY SeqMonotonic DEF Whole, DestroyCalls
  <1>2. /\ Len(x) = Len(p) + 1 /\ x[Len(x)] = e /\ Len(p) \in Nat
        /\ \A i \in 1..Len(p) : x[i] = p[i] /\ p[i] \in DestroyCalls
    BY <1>1
  <1>. HIDE DEF x
  <1>3. ASSUME NEW h \in 1..Len(x), x[h][1] = "warn"
        PROVE  \E t \in 0..(h - 1) : (t = 0 \/ x[t][1] = "try") /\ Section(x, t + 1, h)
    <2>1. h \in 1..Len(p) /\ p[h][1] = "warn"
      BY <1>2, <1>3
    <2>2. PICK t \in 1..(h - 1) : p[t][1] = "try" /\ Section(p, t + 1, h)
      BY <2>1 DEF Whole
    <2>3. t \in 0..(h - 1) /\ x[t][1] = "try" /\ Section(x, t + 1, h)
      BY <1>2, <2>1, <2>2 DEF Section
    <2>. QED
      BY <2>3
  <1>4. \A i \in 1..(Len(x) - 1) : x[i] \in DestroyCalls
    BY <1>2
  <1>. QED
    BY <1>3, <1>4 DEF Ordered, Warnings, x

\* So it stays when calls are skipped,
LEMMA OrderedRest ==
    ASSUME NEW x \in Seq(Calls), Ordered(x), NEW d \in 1..(Len(x) - 1)
    PROVE  Ordered(SubSeq(x, d + 1, Len(x)))
  <1>. DEFINE y == SubSeq(x, d + 1, Len(x))
  <1>1. /\ Len(y) = Len(x) - d /\ Len(x) \in Nat
        /\ \A i \in 1..Len(y) : y[i] = x[i + d]
    OBVIOUS
  <1>. HIDE DEF y
  <1>2. ASSUME NEW h \in 1..Len(y), y[h][1] = "warn"
        PROVE  \E t \in 0..(h - 1) : (t = 0 \/ y[t][1] = "try") /\ Section(y, t + 1, h)
    <2>1. h + d \in 1..Len(x) /\ x[h + d][1] = "warn"
      BY <1>1, <1>2
    <2>2. PICK t \in 0..(h + d - 1) : (t = 0 \/ x[t][1] = "try") /\ Section(x, t + 1, h + d)
      BY <2>1 DEF Ordered, Warnings
    <2>3. CASE t <= d
      <3>1. Section(y, 0 + 1, h)
        BY <1>1, <2>1, <2>2, <2>3 DEF Section
      <3>. QED
        BY <3>1
    <2>4. CASE t > d
      <3>1. /\ t - d \in 0..(h - 1) /\ t - d \in 1..Len(y) /\ y[t - d] = x[t]
            /\ x[t][1] = "try"
        BY <1>1, <2>1, <2>2, <2>4
      <3>2. ASSUME NEW i \in (t - d + 1)..(h - 1)
            PROVE  y[i][1] \in Gentle
        <4>1. i \in 1..Len(y) /\ i + d \in (t + 1)..(h + d - 1)
          BY <1>1, <2>1, <2>2, <2>4
        <4>. QED
          BY <1>1, <2>2, <4>1 DEF Section
      <3>3. Section(y, t - d + 1, h)
        BY <3>2 DEF Section
      <3>. QED
        BY <3>1, <3>3
    <2>. QED
      BY <2>3, <2>4
  <1>3. \A i \in 1..(Len(y) - 1) : y[i] \in DestroyCalls
    BY <1>1 DEF Ordered
  <1>. QED
    BY <1>2, <1>3 DEF Ordered, Warnings, y

\* and when calls take the place of the first, gentle ones that of a gentle.
LEMMA OrderedInstead ==
    ASSUME NEW x \in Seq(Calls), Ordered(x), Len(x) > 1, x[1][1] \notin {"try", "warn"},
           NEW p \in Whole, x[1][1] \in Gentle => p \in Seq(GentleCalls)
    PROVE  Ordered(p \o Tail(x))
  <1>. DEFINE y == p \o Tail(x)
              n == Len(p)
  <1>1. p \in Seq(DestroyCalls) /\ p \in Seq(Calls)
    BY SeqMonotonic DEF Whole, DestroyCalls
  <1>2. /\ Len(y) = n + Len(x) - 1 /\ n \in Nat /\ Len(x) \in Nat
        /\ \A i \in 1..n : y[i] = p[i] /\ p[i] \in DestroyCalls
        /\ \A i \in 2..Len(x) : y[i + n - 1] = x[i]
    <2>1. /\ Tail(x) \in Seq(Calls) /\ Len(Tail(x)) = Len(x) - 1
          /\ \A i \in 2..Len(x) : Tail(x)[i - 1] = x[i]
      OBVIOUS
    <2>2. \A i \in 1..Len(Tail(x)) : y[i + n] = Tail(x)[i]
      BY <1>1, <2>1
    <2>3. ASSUME NEW i \in 2..Len(x)
          PROVE  y[i + n - 1] = x[i]
      <3>1. i - 1 \in 1..Len(Tail(x)) /\ (i - 1) + n = i + n - 1
        BY <1>1, <2>1
      <3>. HIDE DEF y
      <3>2. y[(i - 1) + n] = Tail(x)[i - 1]
        BY <2>2, <3>1
      <3>. QED
        BY <2>1, <3>1, <3>2
    <2>. QED
      BY <1>1, <2>1, <2>3
  <1>. HIDE DEF y, n
  <1>3. ASSUME NEW h \in 1..Len(y), y[h][1] = "warn"
        PROVE  \E t \in 0..(h - 1) : (t = 0 \/ y[t][1] = "try") /\ Section(y, t + 1, h)
    <2>1. CASE h <= n
      <3>1. h \in 1..n /\ p[h][1] = "warn"
        BY <1>2, <1>3, <2>1
      <3>2. PICK t \in 1..(h - 1) : p[t][1] = "try" /\ Section(p, t + 1, h)
        BY <3>1 DEF Whole, n
      <3>3. t \in 0..(h - 1) /\ y[t][1] = "try" /\ Section(y, t + 1, h)
        BY <1>2, <3>1, <3>2 DEF Section
      <3>. QED
        BY <3>3
    <2>2. CASE h > n
      <3>. DEFINE g == h - n + 1
      <3>1. g \in 2..Len(x) /\ g + n - 1 = h /\ x[g][1] = "warn"
        BY <1>2, <1>3, <2>2
      <3>. HIDE DEF g
      <3>2. PICK t \in 0..(g - 1) : (t = 0 \/ x[t][1] = "try") /\ Section(x, t + 1, g)
        BY <3>1 DEF Ordered, Warnings
      <3>3. \A i \in (n + 1)..(h - 1) : i - n + 1 \in 2..(g - 1) /\ y[i] = x[i - n + 1]
        <4>1. ASSUME NEW i \in (n + 1)..(h - 1)
              PROVE  i - n + 1 \in 2..(g - 1) /\ i - n + 1 \in 2..Len(x)
                     /\ (i - n + 1) + n - 1 = i
          BY <1>2, <3>1
        <4>2. ASSUME NEW i \in (n + 1)..(h - 1)
              PROVE  y[i] = x[i - n + 1]
          <5>1. y[(i - n + 1) + n - 1] = x[i - n + 1]
            BY <1>2, <4>1
          <5>. QED
            BY <4>1, <5>1
        <4>. QED
          BY <4>1, <4>2
      <3>4. CASE t = 0
        <4>1. x[1][1] \in Gentle
          BY <3>1, <3>2, <3>4 DEF Section
        <4>2. \A i \in 1..n : p[i] \in GentleCalls
          BY <4>1 DEF n
        <4>3. \A i \in 1..n : y[i][1] \in Gentle
          BY <1>2, <4>2 DEF GentleCalls
        <4>4. \A i \in (n + 1)..(h - 1) : y[i][1] \in Gentle
          BY <3>2, <3>3, <3>4 DEF Section
        <4>5. Section(y, 0 + 1, h)
          BY <1>2, <3>1, <4>3, <4>4 DEF Section
        <4>. QED
          BY <4>5
      <3>5. CASE t # 0
        <4>1. t >= 2
          BY <3>1, <3>2, <3>5
        <4>2. t \in 2..Len(x) /\ t + n - 1 \in 0..(h - 1)
          BY <1>2, <3>1, <4>1
        <4>3. y[t + n - 1][1] = "try"
          BY <1>2, <3>2, <3>5, <4>2
        <4>4. ASSUME NEW i \in (t + n - 1 + 1)..(h - 1)
              PROVE  y[i][1] \in Gentle
          <5>1. i \in (n + 1)..(h - 1) /\ i - n + 1 \in (t + 1)..(g - 1)
            BY <1>2, <3>1, <4>1, <4>2
          <5>. QED
            BY <3>2, <3>3, <5>1 DEF Section
        <4>. QED
          BY <4>2, <4>3, <4>4 DEF Section
      <3>. QED
        BY <3>4, <3>5
    <2>. QED
      BY <1>2, <2>1, <2>2
  <1>4. ASSUME NEW i \in 1..(Len(y) - 1)
        PROVE  y[i] \in DestroyCalls
    <2>1. CASE i <= n
      BY <1>2, <2>1
    <2>2. CASE i > n
      <3>1. i - n + 1 \in 2..Len(x) /\ i - n + 1 \in 1..(Len(x) - 1) /\ (i - n + 1) + n - 1 = i
        BY <1>2, <2>2
      <3>2. y[(i - n + 1) + n - 1] = x[i - n + 1]
        BY <1>2, <3>1
      <3>. QED
        BY <3>1, <3>2 DEF Ordered
    <2>. QED
      BY <1>2, <2>1, <2>2
  <1>. QED
    BY <1>3, <1>4 DEF Ordered, Warnings, y

\* An error that is only warned of skips gentle calls alone.
LEMMA HandlerGentle ==
    ASSUME todo \in Seq(Calls), Ordered(todo), Handler # 0, todo[Handler][1] = "warn"
    PROVE  \A i \in 1..Handler : todo[i][1] \notin Final
  <1>. DEFINE C(i) == {j \in 1..i : Op(todo[j]) \in Closing}
              O(i) == {j \in 1..i : Op(todo[j]) = "try"}
              marks == {i \in 1..Len(todo) : Op(todo[i]) \in Closing /\ Cardinality(C(i)) > Cardinality(O(i))}
              h == Handler
  <1>1. Len(todo) \in Nat
    OBVIOUS
  <1>2. h \in marks /\ \A j \in marks : h <= j
    <2>1. h = IF marks = {} THEN 0 ELSE CHOOSE i \in marks : \A j \in marks : i <= j
      BY DEF Handler
    <2>2. marks \subseteq Nat
      OBVIOUS
    <2>. HIDE DEF marks
    <2>4. marks # {}
      BY <2>1
    <2>. HIDE DEF h
    <2>3. \E i \in marks : \A j \in marks : i <= j
      BY <2>2, <2>4, Least, Zenon
    <2>. QED
      BY <2>1, <2>3, <2>4
  <1>3. h \in 1..Len(todo) /\ Op(todo[h]) = "warn" /\ Cardinality(C(h)) > Cardinality(O(h))
    BY <1>2 DEF Op
  <1>4. PICK t \in 0..(h - 1) : (t = 0 \/ Op(todo[t]) = "try") /\ Section(todo, t + 1, h)
    BY <1>3 DEF Ordered, Warnings, Op
  <1>. HIDE DEF h
  <1>5. CASE t = 0
    <2>1. \A i \in 1..h : todo[i][1] \in Gentle \/ todo[i][1] = "warn"
      BY <1>3, <1>4, <1>5 DEF Section, Op
    <2>. QED
      BY <2>1 DEF Gentle, Final, h
  <1>6. CASE t # 0
    <2>1. t \in 1..(h - 1) /\ Op(todo[t]) = "try"
      BY <1>3, <1>4, <1>6
    <2>2. \A i \in (t + 1)..(h - 1) : Op(todo[i]) \notin Closing \cup {"try"}
      BY <1>4 DEF Section, Gentle, Closing, Op
    <2>3. C(h) = C(t - 1) \cup {h} /\ h \notin C(t - 1)
      <3>1. ASSUME NEW j
            PROVE  j \in C(h) <=> j \in C(t - 1) \cup {h}
        <4>1. j \in 1..h <=> j \in 1..(t - 1) \/ j = t \/ j \in (t + 1)..(h - 1) \/ j = h
          BY <1>3, <2>1
        <4>2. Op(todo[t]) \notin Closing /\ Op(todo[h]) \in Closing
          BY <1>3, <2>1 DEF Closing
        <4>. QED
          BY <2>2, <4>1, <4>2
      <3>2. h \notin 1..(t - 1)
        BY <1>3, <2>1
      <3>. QED
        BY <3>1, <3>2
    <2>4. O(h) = O(t - 1) \cup {t} /\ t \notin O(t - 1)
      <3>1. ASSUME NEW j
            PROVE  j \in O(h) <=> j \in O(t - 1) \cup {t}
        <4>1. j \in 1..h <=> j \in 1..(t - 1) \/ j = t \/ j \in (t + 1)..(h - 1) \/ j = h
          BY <1>3, <2>1
        <4>. QED
          BY <1>3, <2>1, <2>2, <4>1
      <3>2. t \notin 1..(t - 1)
        BY <2>1
      <3>. QED
        BY <3>1, <3>2
    <2>5. /\ \A i \in Nat : IsFiniteSet(C(i)) /\ IsFiniteSet(O(i))
          /\ t - 1 \in Nat
      <3>1. \A i \in Nat : IsFiniteSet(1..i)
        BY FS_Interval
      <3>2. \A i \in Nat : C(i) \in SUBSET (1..i) /\ O(i) \in SUBSET (1..i)
        OBVIOUS
      <3>. HIDE DEF C, O
      <3>3. \A i \in Nat : IsFiniteSet(C(i)) /\ IsFiniteSet(O(i))
        BY <3>1, <3>2, FS_Subset, Zenon
      <3>. QED
        BY <2>1, <3>3
    <2>6. /\ \A i \in Nat : Cardinality(C(i)) \in Nat /\ Cardinality(O(i)) \in Nat
          /\ Cardinality(C(h)) = Cardinality(C(t - 1)) + 1
          /\ Cardinality(O(h)) = Cardinality(O(t - 1)) + 1
      <3>. HIDE DEF C, O
      <3>1. \A i \in Nat : Cardinality(C(i)) \in Nat /\ Cardinality(O(i)) \in Nat
        BY <2>5, FS_CardinalityType, Zenon
      <3>2. Cardinality(C(t - 1) \cup {h}) = Cardinality(C(t - 1)) + 1
        BY <2>3, <2>5, FS_AddElement
      <3>3. Cardinality(O(t - 1) \cup {t}) = Cardinality(O(t - 1)) + 1
        BY <2>4, <2>5, FS_AddElement
      <3>. QED
        BY <2>3, <2>4, <3>1, <3>2, <3>3
    <2>7. Cardinality(C(t - 1)) > Cardinality(O(t - 1))
      <3>. HIDE DEF C, O
      <3>. QED
        BY <1>3, <2>5, <2>6
    <2>8. PICK j \in C(t - 1) : \A i \in C(t - 1) : i <= j
      <3>. DEFINE E == {k \in Nat : \E i \in C(t - 1) : k = t - 1 - i}
      <3>1. C(t - 1) # {}
        <4>. SUFFICES ASSUME C(t - 1) = {} PROVE FALSE
          OBVIOUS
        <4>1. Cardinality(C(t - 1)) = 0
          BY FS_EmptySet
        <4>. HIDE DEF C, O
        <4>. QED
          BY <2>5, <2>6, <2>7, <4>1
      <3>2. \A i \in C(t - 1) : t - 1 - i \in E
        BY <2>5
      <3>3. E \subseteq Nat /\ E # {}
        BY <3>1, <3>2
      <3>. HIDE DEF E
      <3>4. PICK k \in E : \A l \in E : k <= l
        BY <3>3, Least, Zenon
      <3>5. PICK i \in C(t - 1) : k = t - 1 - i
        BY <3>4 DEF E
      <3>6. \A l \in C(t - 1) : l <= i
        BY <2>5, <3>2, <3>4, <3>5
      <3>. QED
        BY <3>6
    <2>9. j \in 1..(t - 1) /\ Op(todo[j]) \in Closing /\ j \in Nat
      BY <2>5, <2>8
    <2>10. C(j) = C(t - 1) /\ O(j) \in SUBSET O(t - 1)
      BY <2>5, <2>8, <2>9
    <2>11. Cardinality(C(j)) > Cardinality(O(j))
      <3>. HIDE DEF C, O
      <3>1. Cardinality(O(j)) <= Cardinality(O(t - 1))
        BY <2>5, <2>10, FS_Subset
      <3>. QED
        BY <2>5, <2>6, <2>7, <2>9, <2>10, <3>1
    <2>12. j \in marks /\ j < h
      BY <1>1, <1>3, <2>1, <2>9, <2>11
    <2>. QED
      BY <1>2, <1>3, <2>9, <2>12 DEF h
  <1>. QED
    BY <1>5, <1>6

\* What is live and has to go has its call to come.
ToGo(x) ==
    /\ \A s \in DOMAIN servers \cap Declared :
          Has(x, <<"RemoveServer", s, "">>) \/ Has(x, <<"DestroyServer", s, "">>)
    /\ network # {} => Has(x, <<"DeleteNetwork", "", "">>) \/ Has(x, <<"DropNetwork", "", "">>)

Destroys == cmd \in {"destroy", "destroy volumes"}

Thorough ==
    /\ Destroys => Ordered(todo) /\ (~ failed /\ ~ blind => ToGo(todo))
    /\ DestroyIsThorough

\* A call that is not the first is among the others.
LEMMA HasRest ==
    ASSUME NEW x \in Seq(Calls), NEW c, Has(x, c), NEW d \in 0..Len(x),
           \A i \in 1..d : x[i] # c
    PROVE  Has(SubSeq(x, d + 1, Len(x)), c)
  <1>. DEFINE y == SubSeq(x, d + 1, Len(x))
  <1>1. /\ Len(y) = Len(x) - d /\ Len(x) \in Nat
        /\ \A i \in 1..Len(y) : y[i] = x[i + d]
    OBVIOUS
  <1>. HIDE DEF y
  <1>2. PICK i \in 1..Len(x) : x[i] = c
    BY DEF Has
  <1>3. i > d
    BY <1>2
  <1>4. i - d \in 1..Len(y) /\ (i - d) + d = i
    BY <1>1, <1>3
  <1>5. y[i - d] = c
    BY <1>1, <1>2, <1>4
  <1>6. Has(y, c)
    BY <1>4, <1>5 DEF Has
  <1>. QED
    BY <1>6 DEF y

\* The call at hand of a destroy, and the calls behind it.
LEMMA DestroyCurrent ==
    ASSUME Inv, Thorough, Destroys, todo # <<>>, ThisCall[1] \notin Closings
    PROVE  /\ todo \in Seq(Calls) /\ Len(todo) > 1 /\ ThisCall = todo[1] /\ ThisCall \in DestroyCalls
           /\ Tail(todo) = SubSeq(todo, 1 + 1, Len(todo)) /\ Tail(todo) \in Seq(Calls)
           /\ Ordered(Tail(todo))
           /\ \A c : Has(todo, c) /\ c # ThisCall => Has(Tail(todo), c)
  <1>1. Complete(cmd, todo) /\ Len(todo) > 1 /\ Ordered(todo)
    BY Current DEF Thorough
  <1>2. todo \in Seq(Calls)
    BY <1>1 DEF Complete
  <1>3. ThisCall = todo[1] /\ Tail(todo) = SubSeq(todo, 1 + 1, Len(todo)) /\ Tail(todo) \in Seq(Calls)
        /\ Len(todo) \in Nat
    BY <1>1, <1>2 DEF ThisCall
  <1>4. ThisCall \in DestroyCalls
    BY <1>1, <1>3 DEF Ordered
  <1>5. Ordered(Tail(todo))
    <2>1. 1 \in 1..(Len(todo) - 1)
      BY <1>1, <1>3
    <2>. QED
      BY <1>1, <1>2, <1>3, <2>1, OrderedRest, Zenon
  <1>6. ASSUME NEW c, Has(todo, c), c # ThisCall
        PROVE  Has(Tail(todo), c)
    <2>1. 1 \in 0..Len(todo) /\ \A i \in 1..1 : todo[i] # c
      BY <1>1, <1>3, <1>6
    <2>. QED
      BY <1>2, <1>3, <1>6, <2>1, HasRest, Zenon
  <1>. QED
    BY <1>1, <1>2, <1>3, <1>4, <1>5, <1>6

\* A destroy begins with everything declared to go; a deploy promises nothing.
LEMMA BeginThorough ==
    ASSUME Inv, Thorough,
           DeployBegins \/ \E deleteVolumes \in BOOLEAN : DestroyBegins(deleteVolumes)
    PROVE  Thorough'
  <1>1. CASE DeployBegins
    BY <1>1 DEF DeployBegins, Begin, Thorough, Destroys, DestroyIsThorough, Idle
  <1>2. ASSUME NEW deleteVolumes \in BOOLEAN, DestroyBegins(deleteVolumes)
        PROVE  Thorough'
    <2>. DEFINE down == Of(H!Teardown(deleteVolumes), A!Teardown(deleteVolumes),
                           S!Teardown(deleteVolumes))
                e == <<"Done", "destroyed", "">>
    <2>1. /\ todo' = down \o <<e>> /\ cmd' \in {"destroy", "destroy volumes"}
          /\ cfg' = cfg /\ UNCHANGED cloud
      BY <1>2, Zenon DEF DestroyBegins, Begin, inputs, Done
    <2>2. /\ down \in Whole /\ Has(down, <<"DeleteNetwork", "", "">>)
          /\ \A s \in Declared : Has(down, <<"RemoveServer", s, "">>)
      BY TeardownWhole, Zenon DEF Inv, Of
    <2>3. e \in Calls /\ e[1] # "warn"
      <3>1. e \in Endings("destroy")
        BY DEF Endings
      <3>. QED
        BY <3>1, EndingCalls DEF Closings
    <2>. HIDE DEF down, e
    <2>4. Ordered(down \o <<e>>)
      BY <2>2, <2>3, OrderedWhole, Zenon
    <2>5. down \in Seq(Calls) /\ <<e>> \in Seq(Calls)
      <3>1. down \in Seq(DestroyCalls) /\ DestroyCalls \subseteq Calls
        BY <2>2, Zenon DEF Whole, DestroyCalls
      <3>. QED
        BY <2>3, <3>1, SeqMonotonic, OneCall
    <2>6. /\ Has(down \o <<e>>, <<"DeleteNetwork", "", "">>)
          /\ \A s \in Declared : Has(down \o <<e>>, <<"RemoveServer", s, "">>)
      BY <2>2, <2>5, HasJoined, Zenon
    <2>7. Declared' = Declared /\ servers' = servers /\ network' = network
      BY <2>1 DEF cloud, Declared
    <2>8. Ordered(todo') /\ ToGo(todo)'
      <3>1. ToGo(todo)'
        BY <2>1, <2>6, <2>7, Zenon DEF ToGo
      <3>. QED
        BY <2>1, <2>4, <3>1, Zenon
    <2>9. cmd' # "none"
      BY <2>1
    <2>. QED
      BY <2>1, <2>8, <2>9, Zenon DEF Thorough, DestroyIsThorough, Idle
  <1>. QED
    BY <1>1, <1>2

\* What a call of a destroy comes to removes what it stands for.
LEMMA DestroyExpansion ==
    ASSUME Live, NEW c \in DestroyCalls, Op(c) \in Compound
    PROVE  /\ Expansion(c) \in Whole
           /\ c[1] \in Gentle => Expansion(c) \in Seq(GentleCalls)
           /\ (c[1] = "RemoveServer" /\ c[2] \in DOMAIN servers)
                 => Has(Expansion(c), <<"DestroyServer", c[2], "">>)
           /\ (c[1] = "DeleteNetwork" /\ network # {})
                 => Has(Expansion(c), <<"DropNetwork", "", "">>)
  <1>1. c \in Calls /\ c[1] = Op(c)
    BY DEF DestroyCalls, Op
  <1>2. c[1] \in {"RemoveServer", "RemoveVolume", "DeleteVolume", "SweepFirewalls", "DeleteNetwork",
                  "UnmountVolume"}
    BY <1>1 DEF DestroyCalls, DestroyOps, Gentle, Final, Compound
  <1>3. CASE c[1] = "RemoveServer"
    <2>1. c[2] \in Servers
      BY <1>1, <1>3, CallTypes DEF ServerOps
    <2>2. Expansion(c) \in {H!DrainAndDeleteServer(c[2]), A!DrainAndDeleteServer(c[2]),
                            S!DrainAndDeleteServer(c[2])}
      BY <1>1, <1>3 DEF Expansion, Of
    <2>3. Expansion(c) \in Whole
          /\ (c[2] \in DOMAIN servers => Has(Expansion(c), <<"DestroyServer", c[2], "">>))
      BY <2>1, <2>2, DrainAndDeleteServerWhole, Zenon
    <2>. QED
      BY <1>3, <2>3 DEF Gentle
  <1>4. CASE c[1] = "RemoveVolume"
    <2>1. c[2] \in AllVolumes
      BY <1>1, <1>4, CallTypes DEF Removing
    <2>2. Expansion(c) \in {H!UnmountAndDeleteVolume(c[2]), A!UnmountAndDeleteVolume(c[2]),
                            S!UnmountAndDeleteVolume(c[2])}
      BY <1>1, <1>4 DEF Expansion, Of
    <2>3. Expansion(c) \in Whole
      BY <2>1, <2>2, UnmountAndDeleteVolumeWhole, Zenon
    <2>. QED
      BY <1>4, <2>3 DEF Gentle
  <1>5. CASE c[1] = "DeleteVolume"
    <2>1. c[2] \in AllVolumes
      BY <1>1, <1>5, CallTypes DEF Removing
    <2>2. Expansion(c) \in {H!DeleteVolume(c[2]), A!DeleteVolume(c[2]), S!DeleteVolume(c[2])}
      BY <1>1, <1>5 DEF Expansion, Of
    <2>3. Expansion(c) \in Whole
      BY <2>1, <2>2, DeleteVolumeWhole, Zenon
    <2>. QED
      BY <1>5, <2>3 DEF Gentle
  <1>6. CASE c[1] = "SweepFirewalls"
    <2>1. Expansion(c) \in {H!SweepFirewalls(c[2]), A!SweepFirewalls(c[2]), S!SweepFirewalls(c[2])}
      BY <1>1, <1>6 DEF Expansion, Of
    <2>2. Expansion(c) \in Whole
      BY <2>1, SweepFirewallsWhole, Zenon
    <2>. QED
      BY <1>6, <2>2 DEF Gentle
  <1>7. CASE c[1] = "DeleteNetwork"
    <2>1. Expansion(c) \in {H!DeleteNetwork, A!DeleteNetwork, S!DeleteNetwork}
      BY <1>1, <1>7 DEF Expansion, Of
    <2>2. Expansion(c) \in Whole /\ (network # {} => Has(Expansion(c), <<"DropNetwork", "", "">>))
      BY <2>1, DeleteNetworkWhole, Zenon
    <2>. QED
      BY <1>7, <2>2 DEF Gentle
  <1>8. CASE c[1] = "UnmountVolume"
    <2>1. c[2] \in AllVolumes /\ c[3] \in Servers
      BY <1>1, <1>8, CallTypes DEF MountOps
    <2>2. Expansion(c) = UnmountVolume(c[2], c[3])
      BY <1>1, <1>8 DEF Expansion
    <2>3. Expansion(c) \in Seq(GentleCalls)
      BY <2>1, <2>2, UnmountVolumeGentle
    <2>4. Expansion(c) \in Whole
      <3>1. Seq(GentleCalls) \subseteq Seq(Takes)
        BY TakesWhole, SeqMonotonic
      <3>. QED
        BY <2>3, <3>1, TakesWhole
    <2>. QED
      BY <1>8, <2>3, <2>4
  <1>. QED
    BY <1>2, <1>3, <1>4, <1>5, <1>6, <1>7, <1>8

LEMMA ExpandThorough ==
    ASSUME Inv, Thorough, Expand
    PROVE  Thorough'
  <1>1. /\ todo # <<>> /\ Op(ThisCall) \in Compound
        /\ todo' = Expansion(ThisCall) \o Tail(todo)
        /\ cfg' = cfg /\ cmd' = cmd /\ UNCHANGED cloud /\ failed' = failed /\ blind' = blind
        /\ ThisCall[1] = Op(ThisCall)
    BY DEF Expand, inputs, tally, Op
  <1>2. cmd # "none"
    BY <1>1, Current
  <1>3. ASSUME Destroys
        PROVE  Ordered(todo') /\ (~ failed /\ ~ blind => ToGo(todo)')
    <2>1. ThisCall[1] \notin Closings
      <3>. SUFFICES ASSUME ThisCall[1] \in Closings PROVE FALSE
        OBVIOUS
      <3>1. ThisCall \in Endings(cmd) /\ cmd # "deploy"
        BY <1>1, <1>3, Current DEF Destroys
      <3>2. ThisCall = <<"Done", "destroyed", "">>
        BY <3>1, Zenon DEF Endings
      <3>. QED
        BY <1>1, <3>2 DEF Compound
    <2>. DEFINE E == Expansion(ThisCall)
                c == ThisCall
    <2>2. /\ todo \in Seq(Calls) /\ Len(todo) > 1 /\ c = todo[1] /\ c \in DestroyCalls
          /\ Tail(todo) \in Seq(Calls) /\ \A d : Has(todo, d) /\ d # c => Has(Tail(todo), d)
      BY <1>1, <1>3, <2>1, DestroyCurrent
    <2>3. /\ E \in Whole /\ (c[1] \in Gentle => E \in Seq(GentleCalls))
          /\ (c[1] = "RemoveServer" /\ c[2] \in DOMAIN servers) => Has(E, <<"DestroyServer", c[2], "">>)
          /\ (c[1] = "DeleteNetwork" /\ network # {}) => Has(E, <<"DropNetwork", "", "">>)
      BY <1>1, <2>2, DestroyExpansion, Zenon DEF Inv
    <2>4. c[1] \in Compound
      BY <1>1
    <2>. HIDE DEF E, c
    <2>5. Ordered(E \o Tail(todo))
      <3>1. todo[1][1] \notin {"try", "warn"}
        BY <2>2, <2>4 DEF Compound
      <3>2. Ordered(todo)
        BY <1>3 DEF Thorough
      <3>. QED
        BY <2>2, <2>3, <3>1, <3>2, OrderedInstead
    <2>6. E \in Seq(Calls)
      <3>1. E \in Seq(DestroyCalls) /\ DestroyCalls \subseteq Calls
        BY <2>3, Zenon DEF Whole, DestroyCalls
      <3>. QED
        BY <3>1, SeqMonotonic
    <2>7. \A d : Has(E, d) \/ Has(Tail(todo), d) => Has(E \o Tail(todo), d)
      BY <2>2, <2>6, HasJoined, Zenon
    <2>8. ASSUME ~ failed, ~ blind
          PROVE  ToGo(E \o Tail(todo))
      <3>1. ToGo(todo)
        BY <1>3, <2>8 DEF Thorough
      <3>2. ASSUME NEW s \in DOMAIN servers \cap Declared
            PROVE  \/ Has(E \o Tail(todo), <<"RemoveServer", s, "">>)
                   \/ Has(E \o Tail(todo), <<"DestroyServer", s, "">>)
        <4>1. CASE c = <<"RemoveServer", s, "">>
          <5>1. c[1] = "RemoveServer" /\ c[2] = s
            BY <4>1
          <5>2. Has(E, <<"DestroyServer", s, "">>)
            BY <2>3, <3>2, <5>1
          <5>. QED
            BY <2>7, <5>2, Zenon
        <4>2. CASE c # <<"RemoveServer", s, "">>
          <5>1. c # <<"DestroyServer", s, "">>
            <6>1. <<"DestroyServer", s, "">>[1] \notin Compound
              BY DEF Compound
            <6>. QED
              BY <2>4, <6>1, Zenon
          <5>2. Has(todo, <<"RemoveServer", s, "">>) \/ Has(todo, <<"DestroyServer", s, "">>)
            BY <3>1, <3>2, Zenon DEF ToGo
          <5>. QED
            BY <2>2, <2>7, <4>2, <5>1, <5>2, Zenon
        <4>. QED
          BY <4>1, <4>2
      <3>3. ASSUME network # {}
            PROVE  \/ Has(E \o Tail(todo), <<"DeleteNetwork", "", "">>)
                   \/ Has(E \o Tail(todo), <<"DropNetwork", "", "">>)
        <4>1. CASE c = <<"DeleteNetwork", "", "">>
          <5>1. c[1] = "DeleteNetwork"
            BY <4>1
          <5>2. Has(E, <<"DropNetwork", "", "">>)
            BY <2>3, <3>3, <5>1, Zenon
          <5>. QED
            BY <2>7, <5>2, Zenon
        <4>2. CASE c # <<"DeleteNetwork", "", "">>
          <5>1. c # <<"DropNetwork", "", "">>
            <6>1. <<"DropNetwork", "", "">>[1] \notin Compound
              BY DEF Compound
            <6>. QED
              BY <2>4, <6>1, Zenon
          <5>2. Has(todo, <<"DeleteNetwork", "", "">>) \/ Has(todo, <<"DropNetwork", "", "">>)
            BY <3>1, <3>3, Zenon DEF ToGo
          <5>. QED
            BY <2>2, <2>7, <4>2, <5>1, <5>2, Zenon
        <4>. QED
          BY <4>1, <4>2
      <3>. QED
        BY <3>2, <3>3, Zenon DEF ToGo
    <2>9. todo' = E \o Tail(todo) /\ Declared' = Declared /\ servers' = servers /\ network' = network
      BY <1>1 DEF E, cloud, Declared
    <2>10. ~ failed /\ ~ blind => ToGo(todo)'
      BY <2>8, <2>9, Zenon DEF ToGo
    <2>. QED
      BY <2>5, <2>9, <2>10, Zenon
  <1>. QED
    BY <1>1, <1>2, <1>3, Zenon DEF Thorough, Destroys, DestroyIsThorough, Idle

\* Marks, and what a listing that fails leaves out.
LEMMA MarkThorough ==
    ASSUME Inv, Thorough, PassMark \/ ListingFails
    PROVE  Thorough'
  <1>1. /\ todo # <<>> /\ CallReturns /\ UNCHANGED cloud /\ ThisCall[1] \notin Closings
        /\ failed' = failed /\ cmd' = cmd /\ todo' = Tail(todo) /\ cfg' = cfg
    BY DEF PassMark, ListingFails, TakesErrorForAbsence, Doing, Op, Closings, Closing, CallReturns, inputs
  <1>2. cmd # "none"
    BY <1>1, Current
  <1>3. Destroys => /\ Ordered(Tail(todo))
                    /\ \A c : Has(todo, c) /\ c # ThisCall => Has(Tail(todo), c)
    BY <1>1, DestroyCurrent
  <1>4. CASE PassMark
    <2>1. blind' = blind /\ ThisCall[1] \in {"try", "collect", "warn"}
      BY <1>4 DEF PassMark, tally, Op, Closing
    <2>2. /\ \A s : ThisCall # <<"RemoveServer", s, "">> /\ ThisCall # <<"DestroyServer", s, "">>
          /\ ThisCall # <<"DeleteNetwork", "", "">> /\ ThisCall # <<"DropNetwork", "", "">>
      <3>1. /\ \A s : /\ <<"RemoveServer", s, "">>[1] \notin {"try", "collect", "warn"}
                     /\ <<"DestroyServer", s, "">>[1] \notin {"try", "collect", "warn"}
            /\ <<"DeleteNetwork", "", "">>[1] \notin {"try", "collect", "warn"}
            /\ <<"DropNetwork", "", "">>[1] \notin {"try", "collect", "warn"}
        OBVIOUS
      <3>. QED
        BY <2>1, <3>1, Zenon
    <2>3. Declared' = Declared /\ servers' = servers /\ network' = network
      BY <1>1 DEF cloud, Declared
    <2>4. Destroys /\ ToGo(todo) => ToGo(todo)'
      BY <1>1, <1>3, <2>2, <2>3, Zenon DEF ToGo
    <2>. QED
      BY <1>1, <1>2, <1>3, <2>1, <2>4, Zenon DEF Thorough, Destroys, DestroyIsThorough, Idle
  <1>5. CASE ListingFails
    <2>1. blind' = TRUE
      BY <1>5 DEF ListingFails
    <2>. QED
      BY <1>1, <1>2, <1>3, <2>1, Zenon DEF Thorough, Destroys, DestroyIsThorough, Idle
  <1>. QED
    BY <1>4, <1>5

\* A call of a destroy that succeeds takes away, and what it stands for.
LEMMA DestroyTakes ==
    ASSUME CallSucceeds, ThisCall \in DestroyCalls
    PROVE  /\ DOMAIN servers' \subseteq DOMAIN servers /\ network' \subseteq network
           /\ failed' = failed /\ ThisCall[1] \notin {"RemoveServer", "DeleteNetwork"}
           /\ ThisCall[1] = "DestroyServer" => ThisCall[2] \notin DOMAIN servers'
           /\ ThisCall[1] = "DropNetwork" => network' = {}
  <1>1. ThisCall[1] \in DestroyOps /\ Op(ThisCall) = ThisCall[1] /\ Thing = ThisCall[2]
    BY DEF DestroyCalls, Op, Thing
  <1>2. failed' = failed
    BY CallsReturn DEF CallReturns
  <1>3. CASE CreateFirewall \/ ReplaceRules \/ AddRules \/ RevokeRules \/ DropFirewall
    BY <1>1, <1>2, <1>3 DEF CreateFirewall, ReplaceRules, AddRules, RevokeRules, DropFirewall, SetRules,
                            Doing
  <1>4. CASE CreateNetwork \/ LaunchServer \/ BareServer \/ FinishPart
    BY <1>1, <1>4 DEF CreateNetwork, LaunchServer, BareServer, FinishPart, Doing, DestroyOps,
                      Gentle, Final
  <1>5. CASE StripNetwork \/ DropNetwork
    BY <1>1, <1>2, <1>5 DEF StripNetwork, DropNetwork, Doing
  <1>6. CASE Protect
    BY <1>1, <1>2, <1>6 DEF Protect, ChangeServer, Doing
  <1>7. CASE DestroyServer
    BY <1>1, <1>2, <1>7 DEF DestroyServer, Doing
  <1>8. CASE Reach \/ Join \/ Label \/ Mount \/ WriteFstab \/ Unmount \/ EraseFstab
    BY <1>1, <1>2, <1>8 DEF Reach, Join, Label, Mount, WriteFstab, Unmount, EraseFstab, Doing, cloud
  <1>9. CASE CreateVolume \/ AttachVolume \/ Format \/ DropVolume
    BY <1>1, <1>2, <1>9 DEF CreateVolume, AttachVolume, Format, DropVolume, ChangeVolume, Doing
  <1>. QED
    BY <1>3, <1>4, <1>5, <1>6, <1>7, <1>8, <1>9 DEF CallSucceeds

LEMMA WorksThorough ==
    ASSUME Inv, Thorough, Works
    PROVE  Thorough'
  <1>1. /\ todo # <<>> /\ ThisCall[1] \notin Closings
        /\ failed' = failed /\ blind' = blind /\ cmd' = cmd /\ todo' = Tail(todo) /\ cfg' = cfg
    BY CallsReturn DEF Works, CallReturns, inputs, tally
  <1>2. cmd # "none"
    BY <1>1, Current
  <1>3. ASSUME Destroys
        PROVE  Ordered(todo') /\ (~ failed /\ ~ blind => ToGo(todo)')
    <2>1. /\ Ordered(Tail(todo)) /\ ThisCall \in DestroyCalls
          /\ \A c : Has(todo, c) /\ c # ThisCall => Has(Tail(todo), c)
      BY <1>1, <1>3, DestroyCurrent
    <2>2. /\ DOMAIN servers' \subseteq DOMAIN servers /\ network' \subseteq network
          /\ ThisCall[1] \notin {"RemoveServer", "DeleteNetwork"}
          /\ ThisCall[1] = "DestroyServer" => ThisCall[2] \notin DOMAIN servers'
          /\ ThisCall[1] = "DropNetwork" => network' = {}
      BY <2>1, DestroyTakes DEF Works
    <2>3. ASSUME ~ failed, ~ blind
          PROVE  ToGo(todo)'
      <3>1. ToGo(todo)
        BY <1>3, <2>3 DEF Thorough
      <3>2. ASSUME NEW s \in DOMAIN servers' \cap Declared'
            PROVE  \/ Has(Tail(todo), <<"RemoveServer", s, "">>)
                   \/ Has(Tail(todo), <<"DestroyServer", s, "">>)
        <4>1. s \in DOMAIN servers \cap Declared
          BY <1>1, <2>2, <3>2 DEF Declared
        <4>2. ThisCall # <<"DestroyServer", s, "">>
          <5>1. <<"DestroyServer", s, "">>[1] = "DestroyServer" /\ <<"DestroyServer", s, "">>[2] = s
            OBVIOUS
          <5>. QED
            BY <2>2, <3>2, <5>1, Zenon
        <4>3. ThisCall # <<"RemoveServer", s, "">>
          <5>1. <<"RemoveServer", s, "">>[1] = "RemoveServer"
            OBVIOUS
          <5>. QED
            BY <2>2, <5>1, Zenon
        <4>. QED
          BY <2>1, <3>1, <4>1, <4>2, <4>3, Zenon DEF ToGo
      <3>3. ASSUME network' # {}
            PROVE  \/ Has(Tail(todo), <<"DeleteNetwork", "", "">>)
                   \/ Has(Tail(todo), <<"DropNetwork", "", "">>)
        <4>1. network # {}
          BY <2>2, <3>3
        <4>2. ThisCall # <<"DropNetwork", "", "">>
          <5>1. <<"DropNetwork", "", "">>[1] = "DropNetwork"
            OBVIOUS
          <5>. QED
            BY <2>2, <3>3, <5>1, Zenon
        <4>3. ThisCall # <<"DeleteNetwork", "", "">>
          <5>1. <<"DeleteNetwork", "", "">>[1] = "DeleteNetwork"
            OBVIOUS
          <5>. QED
            BY <2>2, <5>1, Zenon
        <4>. QED
          BY <2>1, <3>1, <4>1, <4>2, <4>3, Zenon DEF ToGo
      <3>. QED
        BY <1>1, <3>2, <3>3, Zenon DEF ToGo
    <2>. QED
      BY <1>1, <2>1, <2>3, Zenon
  <1>. QED
    BY <1>1, <1>2, <1>3, Zenon DEF Thorough, Destroys, DestroyIsThorough, Idle

\* An error that counts makes the destroy fail, one that does not skips
\* nothing that has to go.
LEMMA ErrorThorough ==
    ASSUME Inv, Thorough, CallIsRefused \/ CallFails
    PROVE  Thorough'
  <1>1. /\ Raise /\ cfg' = cfg /\ UNCHANGED cloud /\ blind' = blind /\ todo # <<>>
        /\ ThisCall[1] \notin Closings
    BY DEF CallIsRefused, CallFails, inputs, tally, Refused, Doing, Internal, Op, Closings, Compound
  <1>2. CASE Handler = 0
    <2>1. cmd' = "none" /\ outcome' = "failed"
      BY <1>1, <1>2 DEF Raise
    <2>. QED
      BY <2>1 DEF Thorough, Destroys, DestroyIsThorough
  <1>3. CASE Handler # 0
    <2>. DEFINE h == Handler
    <2>1. /\ todo' = SubSeq(todo, h + 1, Len(todo)) /\ cmd' = cmd /\ cmd # "none"
          /\ failed' = (failed \/ Op(todo[h]) = "collect")
      BY <1>1, <1>3, Current DEF Raise
    <2>2. ASSUME Destroys
          PROVE  Ordered(todo') /\ (~ failed' /\ ~ blind' => ToGo(todo)')
      <3>1. todo \in Seq(Calls) /\ Ordered(todo) /\ Complete(cmd, todo) /\ Len(todo) \in Nat
        BY <1>1, <2>2, DestroyCurrent, Current DEF Thorough
      <3>2. h \in 0..Len(todo) /\ todo[h][1] \in Closing
        BY <1>3, <3>1, HandlerPlace
      <3>3. todo[Len(todo)][1] \in Closings
        BY <3>1, EndingCalls DEF Complete
      <3>4. h \in 1..(Len(todo) - 1)
        BY <1>3, <3>1, <3>2, <3>3 DEF Closing, Closings
      <3>5. Ordered(SubSeq(todo, h + 1, Len(todo)))
        BY <3>1, <3>4, OrderedRest, Zenon
      <3>6. ASSUME ~ failed', ~ blind'
            PROVE  ToGo(todo)'
        <4>1. ToGo(todo)
          BY <1>1, <2>1, <2>2, <3>6 DEF Thorough
        <4>2. todo[h][1] = "warn"
          BY <2>1, <3>2, <3>6 DEF Op, Closing
        <4>3. \A i \in 1..h : todo[i][1] \notin Final
          BY <1>3, <3>1, <4>2, HandlerGentle
        <4>. HIDE DEF h
        <4>4. ASSUME NEW c, c[1] \in Final, Has(todo, c)
              PROVE  Has(SubSeq(todo, h + 1, Len(todo)), c)
          <5>1. \A i \in 1..h : todo[i] # c
            BY <4>3, <4>4
          <5>. QED
            BY <3>1, <3>2, <4>4, <5>1, HasRest, Zenon
        <4>5. /\ \A s : /\ <<"RemoveServer", s, "">>[1] \in Final
                        /\ <<"DestroyServer", s, "">>[1] \in Final
              /\ <<"DeleteNetwork", "", "">>[1] \in Final
              /\ <<"DropNetwork", "", "">>[1] \in Final
          BY DEF Final
        <4>6. Declared' = Declared /\ servers' = servers /\ network' = network
          BY <1>1 DEF cloud, Declared
        <4>. QED
          BY <2>1, <4>1, <4>4, <4>5, <4>6, Zenon DEF ToGo
      <3>. QED
        BY <2>1, <3>5, <3>6, Zenon
    <2>. QED
      BY <2>1, <2>2, Zenon DEF Thorough, Destroys, DestroyIsThorough, Idle
  <1>. QED
    BY <1>2, <1>3

\* A destroy that ends without an error has made all its calls.
LEMMA EndThorough ==
    ASSUME Inv, Thorough, Finish \/ CommandStops
    PROVE  Thorough'
  <1>1. CASE CommandStops
    BY <1>1 DEF CommandStops, Thorough, Destroys, DestroyIsThorough
  <1>2. CASE Finish
    <2>1. /\ todo # <<>> /\ ThisCall[1] = "Done" /\ cmd' = "none"
          /\ outcome' = (IF failed THEN "failed" ELSE ThisCall[2])
          /\ cfg' = cfg /\ UNCHANGED cloud /\ blind' = blind
      BY <1>2 DEF Finish, Doing, Op, Thing, inputs, tally
    <2>2. /\ cmd # "none" /\ Complete(cmd, todo) /\ Len(todo) = 1 /\ ThisCall \in Endings(cmd)
          /\ todo[1] = ThisCall
      BY <2>1, Current DEF Closings, Complete, ThisCall
    <2>3. ASSUME outcome' = "destroyed", ~ blind'
          PROVE  DOMAIN servers' \cap Declared' = {} /\ network' = {}
      <3>1. ~ failed /\ ThisCall[2] = "destroyed"
        BY <2>1, <2>3
      <3>2. Destroys
        <4>. SUFFICES ASSUME cmd = "deploy" PROVE FALSE
          BY <2>2 DEF Inv, Destroys
        <4>1. \/ ThisCall = <<"Plan", "", "">> \/ ThisCall = <<"Done", "unchanged", "">>
              \/ ThisCall = <<"Done", "deployed", "">>
          BY <2>2, Zenon DEF Endings
        <4>2. /\ <<"Plan", "", "">>[2] # "destroyed" /\ <<"Done", "unchanged", "">>[2] # "destroyed"
              /\ <<"Done", "deployed", "">>[2] # "destroyed"
          OBVIOUS
        <4>. QED
          BY <3>1, <4>1, <4>2, Zenon
      <3>3. ToGo(todo)
        BY <2>1, <2>3, <3>1, <3>2 DEF Thorough
      <3>4. \A c : Has(todo, c) => c[1] = "Done"
        BY <2>1, <2>2 DEF Has
      <3>5. /\ <<"DeleteNetwork", "", "">>[1] # "Done"
            /\ <<"DropNetwork", "", "">>[1] # "Done"
        OBVIOUS
      <3>6. DOMAIN servers \cap Declared = {} /\ network = {}
        <4>1. ASSUME NEW s \in DOMAIN servers \cap Declared
              PROVE  FALSE
          <5>1. Has(todo, <<"RemoveServer", s, "">>) \/ Has(todo, <<"DestroyServer", s, "">>)
            BY <3>3, Zenon DEF ToGo
          <5>2. PICK c \in {<<"RemoveServer", s, "">>, <<"DestroyServer", s, "">>} : Has(todo, c)
            BY <5>1, Zenon
          <5>3. c[1] \in {"RemoveServer", "DestroyServer"}
            <6>1. CASE c = <<"RemoveServer", s, "">>
              BY <6>1
            <6>2. CASE c = <<"DestroyServer", s, "">>
              BY <6>2
            <6>. QED
              BY <5>2, <6>1, <6>2, Zenon
          <5>. QED
            BY <3>4, <5>2, <5>3
        <4>2. ~ Has(todo, <<"DeleteNetwork", "", "">>) /\ ~ Has(todo, <<"DropNetwork", "", "">>)
          BY <3>4, <3>5, Zenon
        <4>3. network = {}
          BY <3>3, <4>2, Zenon DEF ToGo
        <4>. QED
          BY <4>1, <4>3
      <3>7. Declared' = Declared /\ servers' = servers /\ network' = network
        BY <2>1 DEF cloud, Declared
      <3>. QED
        BY <3>6, <3>7
    <2>. QED
      BY <2>1, <2>3 DEF Thorough, Destroys, DestroyIsThorough
  <1>. QED
    BY <1>1, <1>2

\* Between commands no server, no network comes back.
LEMMA AroundThorough ==
    ASSUME Inv, Thorough,
           \/ \E c \in Configs : Edit(c)
           \/ \E v \in DOMAIN volumes : PodWrites(v)
           \/ OperatorCreatesFirewall
    PROVE  Thorough'
  <1>1. ASSUME NEW c \in Configs, Edit(c)
        PROVE  Thorough'
    BY <1>1 DEF Edit, Idle, Thorough, Destroys, DestroyIsThorough
  <1>2. CASE (\E v \in DOMAIN volumes : PodWrites(v)) \/ OperatorCreatesFirewall
    <2>1. /\ cmd = "none" /\ UNCHANGED <<cfg, cmd, todo, failed, outcome, servers, network, blind>>
      BY <1>2 DEF PodWrites, OperatorCreatesFirewall, Idle, inputs, control, tally
    <2>2. Declared' = Declared
      BY <2>1 DEF Declared
    <2>. QED
      BY <2>1, <2>2 DEF Thorough, Destroys, DestroyIsThorough, Idle
  <1>. QED
    BY <1>1, <1>2

LEMMA StepThorough ==
    ASSUME Inv, Thorough, [Next]_vars
    PROVE  Thorough'
  <1>1. CASE Next
    BY <1>1, BeginThorough, ExpandThorough, MarkThorough, WorksThorough, ErrorThorough, EndThorough,
       AroundThorough DEF Next, CommandGoesOn
  <1>2. CASE UNCHANGED vars
    <2>1. UNCHANGED <<cfg, cmd, todo, failed, outcome, servers, network, blind>>
      BY <1>2 DEF vars, inputs, control, cloud, tally
    <2>2. Declared' = Declared
      BY <2>1 DEF Declared
    <2>3. Ordered(todo') = Ordered(todo) /\ ToGo(todo)' = ToGo(todo)
      BY <2>1, <2>2, Zenon DEF ToGo
    <2>. QED
      BY <2>1, <2>2, <2>3 DEF Thorough, Destroys, DestroyIsThorough, Idle
  <1>. QED
    BY <1>1, <1>2

(***************************************************************************)
(* A destroy that reports no error has destroyed every declared server and *)
(* the network, at each provider: whichever calls of Teardown fail on the  *)
(* way, an error that would leave one of them is collected and reported,   *)
(* and those that are only warned of skip no such call.                    *)
(***************************************************************************)
THEOREM DestroyThorough ==
    ASSUME CachesApart
    PROVE  Spec => []DestroyIsThorough
  <1>1. Init => Inv /\ Thorough
    BY InitInv DEF Init, Thorough, Destroys, DestroyIsThorough
  <1>2. Inv /\ [Next]_vars => Inv'
    BY StepKeeps
  <1>3. Inv /\ Thorough /\ [Next]_vars => Thorough'
    BY StepThorough
  <1>4. Thorough => DestroyIsThorough
    BY DEF Thorough
  <1>. QED
    BY <1>1, <1>2, <1>3, <1>4, PTL DEF Spec

----------------------------------------------------------------------------
(***************************************************************************)
(* Servers are there when a call needs them.                               *)
(***************************************************************************)
Dial(s) == <<"Reach", s, "">>

\* Before its i-th call a command reaches s, and no error is handled between.
Reaches(x, s, i) ==
    \E j \in 1..(i - 1) : x[j] = Dial(s) /\ \A h \in j..i : x[h][1] \notin Closing

Provided(x, up) ==
    \A i \in 1..Len(x), s \in Servers :
        Needs(x[i], s) => s \in up \/ Reaches(x, s, i)

\* What needs a server comes before everything that takes something away.
Sorted(x) ==
    \A i \in 1..Len(x), j \in 1..Len(x) :
        (i < j /\ x[i][1] \in Clearing) => \A s \in Servers : ~ Needs(x[j], s)

Supplied == Provided(todo, DOMAIN servers) /\ Sorted(todo)

\* Calls that build up, with the servers they need.
Built == {x \in Seq(Calls) : (\A i \in 1..Len(x) : x[i][1] \notin Clearing) /\ Provided(x, DOMAIN servers)}

\* Calls that build up on the servers there are, and on s.
Met == {c \in Calls : c[1] \notin Clearing /\ \A s \in Servers : Needs(c, s) => s \in DOMAIN servers}
On(s) == {c \in Calls : c[1] \notin Clearing \cup Closing /\ \A t \in Servers : Needs(c, t) => t = s}

LEMMA ProvidedJoined ==
    ASSUME NEW p \in Seq(Calls), NEW q \in Seq(Calls), NEW up,
           Provided(p, up), Provided(q, up)
    PROVE  Provided(p \o q, up)
  <1>. DEFINE x == p \o q
  <1>1. /\ Len(x) = Len(p) + Len(q) /\ Len(p) \in Nat /\ Len(q) \in Nat
        /\ \A i \in 1..Len(p) : x[i] = p[i]
        /\ \A i \in 1..Len(q) : x[i + Len(p)] = q[i]
    OBVIOUS
  <1>. HIDE DEF x
  <1>2. ASSUME NEW i \in 1..Len(x), NEW s \in Servers, Needs(x[i], s), s \notin up
        PROVE  Reaches(x, s, i)
    <2>1. CASE i <= Len(p)
      <3>1. i \in 1..Len(p) /\ x[i] = p[i]
        BY <1>1, <2>1
      <3>2. PICK j \in 1..(i - 1) : p[j] = Dial(s) /\ \A h \in j..i : p[h][1] \notin Closing
        BY <1>2, <3>1, Zenon DEF Provided, Reaches
      <3>3. x[j] = p[j] /\ \A h \in j..i : x[h] = p[h]
        BY <1>1, <3>1
      <3>. QED
        BY <3>2, <3>3 DEF Reaches
    <2>2. CASE i > Len(p)
      <3>1. i - Len(p) \in 1..Len(q) /\ x[i] = q[i - Len(p)]
        <4>1. i - Len(p) \in 1..Len(q) /\ (i - Len(p)) + Len(p) = i
          BY <1>1, <2>2
        <4>. QED
          BY <1>1, <4>1
      <3>2. PICK j \in 1..(i - Len(p) - 1) :
                q[j] = Dial(s) /\ \A h \in j..(i - Len(p)) : q[h][1] \notin Closing
        BY <1>2, <3>1, Zenon DEF Provided, Reaches
      <3>3. j + Len(p) \in 1..(i - 1) /\ x[j + Len(p)] = q[j]
        BY <1>1, <3>1
      <3>4. ASSUME NEW h \in (j + Len(p))..i
            PROVE  x[h][1] \notin Closing
        <4>1. h - Len(p) \in j..(i - Len(p)) /\ h - Len(p) \in 1..Len(q) /\ (h - Len(p)) + Len(p) = h
          BY <1>1, <3>1, <3>4
        <4>2. x[h] = q[h - Len(p)]
          BY <1>1, <4>1
        <4>. QED
          BY <3>2, <4>1, <4>2
      <3>. QED
        BY <3>2, <3>3, <3>4 DEF Reaches
    <2>. QED
      BY <1>1, <2>1, <2>2
  <1>3. Provided(x, up)
    BY <1>2, Zenon DEF Provided
  <1>. QED
    BY <1>3 DEF x

LEMMA BuiltJoined ==
    ASSUME NEW p \in Built, NEW q \in Built
    PROVE  p \o q \in Built
  <1>1. p \in Seq(Calls) /\ q \in Seq(Calls) /\ Provided(p, DOMAIN servers) /\ Provided(q, DOMAIN servers)
    BY DEF Built
  <1>2. p \o q \in Seq(Calls) /\ Provided(p \o q, DOMAIN servers)
    BY <1>1, ProvidedJoined
  <1>3. \A i \in 1..Len(p \o q) : (p \o q)[i][1] \notin Clearing
    <2>1. /\ \A i \in 1..Len(p) : p[i][1] \notin Clearing
          /\ \A i \in 1..Len(q) : q[i][1] \notin Clearing
      BY DEF Built
    <2>2. ASSUME NEW i \in 1..Len(p \o q)
          PROVE  (p \o q)[i][1] \notin Clearing
      <3>1. (i \in 1..Len(p) /\ (p \o q)[i] = p[i])
            \/ (i - Len(p) \in 1..Len(q) /\ (p \o q)[i] = q[i - Len(p)])
        BY <1>1
      <3>. QED
        BY <2>1, <3>1
    <2>. QED
      BY <2>2
  <1>. QED
    BY <1>2, <1>3 DEF Built

LEMMA MetBuilt == Seq(Met) \subseteq Built /\ Free \subseteq Met /\ Seq(Free) \subseteq Built /\ <<>> \in Built
  <1>1. Seq(Met) \subseteq Seq(Calls)
    BY SeqMonotonic DEF Met
  <1>2. ASSUME NEW x \in Seq(Met)
        PROVE  x \in Built
    <2>1. \A i \in 1..Len(x) : x[i] \in Met
      OBVIOUS
    <2>2. Provided(x, DOMAIN servers)
      BY <2>1 DEF Provided, Met
    <2>. QED
      BY <1>1, <2>1, <2>2 DEF Built, Met
  <1>3. Free \subseteq Met
    BY DEF Free, Met
  <1>4. Seq(Free) \subseteq Seq(Met) /\ <<>> \in Seq(Met)
    BY <1>3, SeqMonotonic
  <1>. QED
    BY <1>2, <1>3, <1>4

\* Free calls, then s is reached, then calls on s.
Reached(x, s, r) ==
    /\ x[r] = Dial(s)
    /\ \A i \in 1..(r - 1) : x[i] \in Free
    /\ \A i \in r..Len(x) : x[i] \in On(s)

LEMMA ReachedBuilt ==
    ASSUME NEW s \in Servers, NEW x \in Seq(Calls), NEW r \in 1..Len(x), Reached(x, s, r)
    PROVE  x \in Built
  <1>1. Len(x) \in Nat
    OBVIOUS
  <1>2. /\ \A i \in 1..(r - 1) : x[i][1] \notin Clearing /\ \A t : ~ Needs(x[i], t)
        /\ \A i \in r..Len(x) : /\ x[i][1] \notin Clearing \cup Closing
                               /\ \A t \in Servers : Needs(x[i], t) => t = s
    <2>1. /\ \A i \in 1..(r - 1) : x[i] \in Free
          /\ \A i \in r..Len(x) : x[i] \in On(s)
      BY DEF Reached
    <2>. QED
      BY <2>1, Zenon DEF Free, On
  <1>3. x[r] = Dial(s)
    BY DEF Reached
  <1>4. \A i \in 1..Len(x) : i \in 1..(r - 1) \/ i \in r..Len(x)
    BY <1>1
  <1>5. ASSUME NEW i \in 1..Len(x), NEW t \in Servers, Needs(x[i], t)
        PROVE  Reaches(x, t, i)
    <2>1. i \in r..Len(x)
      BY <1>2, <1>4, <1>5
    <2>2. t = s
      BY <1>2, <1>5, <2>1
    <2>3. i # r
      <3>1. ~ Needs(Dial(s), t)
        BY DEF Needs, Dial
      <3>. QED
        BY <1>3, <1>5, <3>1, Zenon
    <2>4. r \in 1..(i - 1) /\ \A h \in r..i : h \in r..Len(x)
      BY <1>1, <2>1, <2>3
    <2>. QED
      BY <1>2, <1>3, <2>2, <2>4, Zenon DEF Reaches
  <1>6. Provided(x, DOMAIN servers)
    BY <1>5, Zenon DEF Provided
  <1>7. \A i \in 1..Len(x) : x[i][1] \notin Clearing
    BY <1>2, <1>4
  <1>. QED
    BY <1>6, <1>7 DEF Built

\* Calls on a server that is reached.
LEMMA OnCalls ==
    ASSUME NEW s \in Servers
    PROVE  /\ \A op \in {"PrivateIP", "Reach", "Join", "InstallMaster", "Label"} : <<op, s, "">> \in On(s)
           /\ <<"FindMaster", "", "">> \in On(s) /\ <<"FinishPart", s, "docker">> \in On(s)
           /\ \A v \in AllVolumes : <<"EnsureVolume", v, s>> \in On(s) /\ <<"MountVolume", v, s>> \in On(s)
  <1>1. ASSUME NEW op \in {"PrivateIP", "Reach", "Join", "InstallMaster", "Label"}
        PROVE  <<op, s, "">> \in On(s)
    <2>1. <<op, s, "">> \in Calls
      BY Zenon DEF Calls, ServerOps
    <2>. QED
      BY <2>1 DEF On, Needs, Clearing, Closing
  <1>2. <<"FindMaster", "", "">> \in On(s)
    BY FreePlain DEF Free, On, Needs, Clearing, Closing
  <1>3. <<"FinishPart", s, "docker">> \in On(s)
    BY FreeOnServers DEF Free, On, Needs, Clearing, Closing
  <1>4. ASSUME NEW v \in AllVolumes
        PROVE  <<"EnsureVolume", v, s>> \in On(s) /\ <<"MountVolume", v, s>> \in On(s)
    <2>1. <<"EnsureVolume", v, s>> \in Calls /\ <<"MountVolume", v, s>> \in Calls
      BY Zenon DEF Calls, MountOps
    <2>. QED
      BY <2>1 DEF On, Needs, Clearing, Closing
  <1>. QED
    BY <1>1, <1>2, <1>3, <1>4, Zenon

\* One list of calls per element of a set.
LEMMA EachBuilt ==
    ASSUME NEW Z, NEW q \in Seq(Z), NEW ss \in [DOMAIN q -> Built]
    PROVE  /\ H!FlattenSeq(ss) \in Built /\ A!FlattenSeq(ss) \in Built
           /\ S!FlattenSeq(ss) \in Built
  <1>1. DOMAIN q = 1..Len(q) /\ Len(q) \in Nat
    OBVIOUS
  <1>2. ss \in Seq(Built)
    BY <1>1
  <1>3. <<>> \in Built /\ \A x \in Built, y \in Built : x \o y \in Built
    BY MetBuilt, BuiltJoined
  <1>4. FlattenSeq(ss) \in Built
    BY <1>2, <1>3, FlattenClosed
  <1>. QED
    BY <1>4, SameFlatten

\* Where the calls of a short sequence stand.
LEMMA Places ==
    ASSUME NEW P, NEW a \in P, NEW b \in P, NEW c \in P, NEW d \in P, NEW e \in P
    PROVE  /\ <<a, b>> \in Seq(P) /\ Len(<<a, b>>) = 2
           /\ <<a, b, c>> \in Seq(P) /\ Len(<<a, b, c>>) = 3
           /\ <<a, b, c, d, e>> \in Seq(P) /\ Len(<<a, b, c, d, e>>) = 5
           /\ 1..2 = {1, 2} /\ 1..1 = {1} /\ 2..2 = {2} /\ 2..3 = {2, 3} /\ 3..3 = {3}
           /\ 2..5 = {2, 3, 4, 5} /\ 2 - 1 = 1 /\ 3 - 1 = 2
  OBVIOUS

LEMMA ReachedShort ==
    ASSUME NEW s \in Servers, NEW a \in Free, NEW b \in Free,
           NEW c \in On(s), NEW d \in On(s), NEW e \in On(s)
    PROVE  /\ Reached(<<a, <<"Reach", s, "">>>>, s, 2)
           /\ Reached(<<a, b, <<"Reach", s, "">>>>, s, 3)
           /\ Reached(<<a, <<"Reach", s, "">>, c>>, s, 2)
           /\ Reached(<<a, <<"Reach", s, "">>, c, d, e>>, s, 2)
  <1>. DEFINE g == Dial(s)
  <1>1. g \in On(s) /\ g \in Calls /\ a \in Calls /\ b \in Calls /\ c \in Calls /\ d \in Calls
        /\ e \in Calls
    BY OnCalls DEF Free, On, Dial
  <1>. HIDE DEF g
  <1>2. \A i \in 1..1 : <<a, g>>[i] \in Free
    OBVIOUS
  <1>3. \A i \in 2..Len(<<a, g>>) : <<a, g>>[i] \in On(s)
    BY <1>1
  <1>4. \A i \in 1..2 : <<a, b, g>>[i] \in Free
    OBVIOUS
  <1>5. \A i \in 3..Len(<<a, b, g>>) : <<a, b, g>>[i] \in On(s)
    BY <1>1
  <1>6. \A i \in 1..1 : <<a, g, c>>[i] \in Free
    OBVIOUS
  <1>7. \A i \in 2..Len(<<a, g, c>>) : <<a, g, c>>[i] \in On(s)
    BY <1>1
  <1>8. \A i \in 1..1 : <<a, g, c, d, e>>[i] \in Free
    OBVIOUS
  <1>9. \A i \in 2..Len(<<a, g, c, d, e>>) : <<a, g, c, d, e>>[i] \in On(s)
    BY <1>1
  <1>10. /\ <<a, g>>[2] = g /\ <<a, b, g>>[3] = g /\ <<a, g, c>>[2] = g /\ <<a, g, c, d, e>>[2] = g
         /\ 2 - 1 = 1 /\ 3 - 1 = 2
    OBVIOUS
  <1>11. /\ Reached(<<a, g>>, s, 2) /\ Reached(<<a, b, g>>, s, 3) /\ Reached(<<a, g, c>>, s, 2)
         /\ Reached(<<a, g, c, d, e>>, s, 2)
    <2>1. g = Dial(s)
      BY DEF g
    <2>. QED
      BY <1>2, <1>3, <1>4, <1>5, <1>6, <1>7, <1>8, <1>9, <1>10, <2>1, Zenon DEF Reached
  <1>. QED
    BY <1>11, Zenon DEF g, Dial

LEMMA ReachedMore ==
    ASSUME NEW s \in Servers, NEW x \in Seq(Calls), NEW r \in 1..Len(x), Reached(x, s, r),
           NEW y \in Seq(On(s))
    PROVE  x \o y \in Seq(Calls) /\ r \in 1..Len(x \o y) /\ Reached(x \o y, s, r)
  <1>1. y \in Seq(Calls)
    BY SeqMonotonic DEF On
  <1>. DEFINE z == x \o y
  <1>2. /\ z \in Seq(Calls) /\ Len(z) = Len(x) + Len(y) /\ Len(x) \in Nat /\ Len(y) \in Nat
        /\ \A i \in 1..Len(x) : z[i] = x[i]
        /\ \A i \in 1..Len(y) : z[i + Len(x)] = y[i]
    BY <1>1
  <1>3. \A i \in 1..Len(y) : y[i] \in On(s)
    OBVIOUS
  <1>. HIDE DEF z
  <1>4. r \in 1..Len(z)
    BY <1>2
  <1>5. /\ x[r] = Dial(s) /\ \A i \in 1..(r - 1) : x[i] \in Free
        /\ \A i \in r..Len(x) : x[i] \in On(s)
    BY DEF Reached
  <1>6. \A i \in 1..(r - 1) : z[i] \in Free
    <2>1. \A i \in 1..(r - 1) : i \in 1..Len(x)
      BY <1>2
    <2>. QED
      BY <1>2, <1>5, <2>1
  <1>7. ASSUME NEW i \in r..Len(z)
        PROVE  z[i] \in On(s)
    <2>1. CASE i <= Len(x)
      <3>1. i \in 1..Len(x) /\ i \in r..Len(x)
        BY <1>2, <2>1
      <3>. QED
        BY <1>2, <1>5, <3>1
    <2>2. CASE i > Len(x)
      <3>1. i - Len(x) \in 1..Len(y) /\ (i - Len(x)) + Len(x) = i
        BY <1>2, <2>2
      <3>2. z[i] = y[i - Len(x)]
        BY <1>2, <3>1
      <3>. QED
        BY <1>3, <3>1, <3>2
    <2>. QED
      BY <1>2, <2>1, <2>2
  <1>8. z[r] = x[r]
    BY <1>2
  <1>9. Reached(z, s, r)
    BY <1>5, <1>6, <1>7, <1>8, Zenon DEF Reached
  <1>. QED
    BY <1>2, <1>4, <1>9 DEF z

\* Attaching and converging build up on the servers they reach.
LEMMA ProvisionServerBuilt ==
    ASSUME Live, NEW s \in Declared
    PROVE  /\ H!ProvisionServer(s) \in Built
           /\ A!ProvisionServer(s) \in Built
           /\ S!ProvisionServer(s) \in Built
  <1>1. H!ProvisionServer(s) \in Built
    <2>. DEFINE start == <<Call("EnsureServer", s, cfg.role[s]), Call("PrivateIP", s, ""), Call("Reach", s, "")>>
                middle == IF cfg.role[s] = "worker"
                          THEN <<Call("FindMaster", "", ""), Call("Join", s, "")>>
                          ELSE <<Call("InstallMaster", s, "")>>
                last == <<Call("Label", s, "")>>
    <2>1. s \in Servers /\ cfg.role[s] \in Roles
      BY LiveSets
    <2>2. <<"EnsureServer", s, cfg.role[s]>> \in Free /\ <<"PrivateIP", s, "">> \in Free
      BY <2>1, FreeOnServers, Zenon
    <2>3. /\ <<"FindMaster", "", "">> \in On(s) /\ <<"Join", s, "">> \in On(s)
          /\ <<"InstallMaster", s, "">> \in On(s) /\ <<"Label", s, "">> \in On(s)
          /\ <<"Reach", s, "">> \in On(s)
      BY <2>1, OnCalls, Zenon
    <2>4. middle \in Seq(On(s)) /\ last \in Seq(On(s))
      BY <2>3, OneCall, TwoCalls, Zenon
    <2>5. Free \subseteq Calls /\ On(s) \subseteq Calls
      BY DEF Free, On
    <2>6. start \in Seq(Calls) /\ Len(start) = 3
      BY <2>2, <2>3, <2>5, Places, Zenon
    <2>7. Reached(start, s, 3)
      BY <2>1, <2>2, <2>3, ReachedShort, Zenon
    <2>8. H!ProvisionServer(s) = (start \o middle) \o last
      BY DEF H!ProvisionServer
    <2>. HIDE DEF start, middle, last
    <2>9. 3 \in 1..Len(start)
      BY <2>6
    <2>10. /\ start \o middle \in Seq(Calls) /\ 3 \in 1..Len(start \o middle)
           /\ Reached(start \o middle, s, 3)
      BY <2>1, <2>4, <2>6, <2>7, <2>9, ReachedMore, Zenon
    <2>11. /\ (start \o middle) \o last \in Seq(Calls)
           /\ 3 \in 1..Len((start \o middle) \o last)
           /\ Reached((start \o middle) \o last, s, 3)
      BY <2>1, <2>4, <2>10, ReachedMore, Zenon
    <2>. QED
      BY <2>1, <2>8, <2>11, ReachedBuilt, Zenon
  <1>2. A!ProvisionServer(s) \in Built
    <2>. DEFINE start == <<Call("EnsureServer", s, cfg.role[s]), Call("Reach", s, "")>>
                middle == IF cfg.role[s] = "worker"
                          THEN <<Call("FindMaster", "", ""), Call("Join", s, "")>>
                          ELSE <<Call("InstallMaster", s, "")>>
                last == <<Call("Label", s, "")>>
    <2>1. s \in Servers /\ cfg.role[s] \in Roles
      BY LiveSets
    <2>2. <<"EnsureServer", s, cfg.role[s]>> \in Free /\ <<"PrivateIP", s, "">> \in Free
      BY <2>1, FreeOnServers, Zenon
    <2>3. /\ <<"FindMaster", "", "">> \in On(s) /\ <<"Join", s, "">> \in On(s)
          /\ <<"InstallMaster", s, "">> \in On(s) /\ <<"Label", s, "">> \in On(s)
          /\ <<"Reach", s, "">> \in On(s)
      BY <2>1, OnCalls, Zenon
    <2>4. middle \in Seq(On(s)) /\ last \in Seq(On(s))
      BY <2>3, OneCall, TwoCalls, Zenon
    <2>5. Free \subseteq Calls /\ On(s) \subseteq Calls
      BY DEF Free, On
    <2>6. start \in Seq(Calls) /\ Len(start) = 2
      BY <2>2, <2>3, <2>5, Places, Zenon
    <2>7. Reached(start, s, 2)
      BY <2>1, <2>2, <2>3, ReachedShort, Zenon
    <2>8. A!ProvisionServer(s) = (start \o middle) \o last
      BY DEF A!ProvisionServer
    <2>. HIDE DEF start, middle, last
    <2>9. 2 \in 1..Len(start)
      BY <2>6
    <2>10. /\ start \o middle \in Seq(Calls) /\ 2 \in 1..Len(start \o middle)
           /\ Reached(start \o middle, s, 2)
      BY <2>1, <2>4, <2>6, <2>7, <2>9, ReachedMore, Zenon
    <2>11. /\ (start \o middle) \o last \in Seq(Calls)
           /\ 2 \in 1..Len((start \o middle) \o last)
           /\ Reached((start \o middle) \o last, s, 2)
      BY <2>1, <2>4, <2>10, ReachedMore, Zenon
    <2>. QED
      BY <2>1, <2>8, <2>11, ReachedBuilt, Zenon
  <1>3. S!ProvisionServer(s) \in Built
    <2>. DEFINE start == <<Call("EnsureServer", s, cfg.role[s]), Call("Reach", s, "")>>
                middle == IF cfg.role[s] = "worker"
                          THEN <<Call("FindMaster", "", ""), Call("Join", s, "")>>
                          ELSE <<Call("InstallMaster", s, "")>>
                last == <<Call("Label", s, "")>>
    <2>1. s \in Servers /\ cfg.role[s] \in Roles
      BY LiveSets
    <2>2. <<"EnsureServer", s, cfg.role[s]>> \in Free /\ <<"PrivateIP", s, "">> \in Free
      BY <2>1, FreeOnServers, Zenon
    <2>3. /\ <<"FindMaster", "", "">> \in On(s) /\ <<"Join", s, "">> \in On(s)
          /\ <<"InstallMaster", s, "">> \in On(s) /\ <<"Label", s, "">> \in On(s)
          /\ <<"Reach", s, "">> \in On(s)
      BY <2>1, OnCalls, Zenon
    <2>4. middle \in Seq(On(s)) /\ last \in Seq(On(s))
      BY <2>3, OneCall, TwoCalls, Zenon
    <2>5. Free \subseteq Calls /\ On(s) \subseteq Calls
      BY DEF Free, On
    <2>6. start \in Seq(Calls) /\ Len(start) = 2
      BY <2>2, <2>3, <2>5, Places, Zenon
    <2>7. Reached(start, s, 2)
      BY <2>1, <2>2, <2>3, ReachedShort, Zenon
    <2>8. S!ProvisionServer(s) = (start \o middle) \o last
      BY DEF S!ProvisionServer
    <2>. HIDE DEF start, middle, last
    <2>9. 2 \in 1..Len(start)
      BY <2>6
    <2>10. /\ start \o middle \in Seq(Calls) /\ 2 \in 1..Len(start \o middle)
           /\ Reached(start \o middle, s, 2)
      BY <2>1, <2>4, <2>6, <2>7, <2>9, ReachedMore, Zenon
    <2>11. /\ (start \o middle) \o last \in Seq(Calls)
           /\ 2 \in 1..Len((start \o middle) \o last)
           /\ Reached((start \o middle) \o last, s, 2)
      BY <2>1, <2>4, <2>10, ReachedMore, Zenon
    <2>. QED
      BY <2>1, <2>8, <2>11, ReachedBuilt, Zenon
  <1>. QED
    BY <1>1, <1>2, <1>3

LEMMA ProvisionVolumeBuilt ==
    ASSUME Live, NEW v \in DOMAIN cfg.volume
    PROVE  /\ H!ProvisionVolume(v) \in Built
           /\ A!ProvisionVolume(v) \in Built
           /\ S!ProvisionVolume(v) \in Built
  <1>1. H!ProvisionVolume(v) \in Built
    <2>. DEFINE s == cfg.volume[v]
                x == <<Call("EnsureVolume", v, s), Call("Reach", s, ""), Call("MountVolume", v, s)>>
    <2>1. v \in AllVolumes /\ s \in Servers
      BY LiveSets DEF AllVolumes
    <2>2. /\ <<"EnsureVolume", v, s>> \in Free /\ <<"MountVolume", v, s>> \in On(s)
          /\ <<"Reach", s, "">> \in On(s)
      BY <2>1, OnCalls, FreeCalls, Zenon
    <2>3. Free \subseteq Calls /\ On(s) \subseteq Calls
      BY DEF Free, On
    <2>4. x \in Seq(Calls) /\ Len(x) = 3
      BY <2>2, <2>3, Places, Zenon
    <2>5. Reached(x, s, 2)
      BY <2>1, <2>2, ReachedShort, Zenon
    <2>6. H!ProvisionVolume(v) = x
      BY Zenon DEF H!ProvisionVolume
    <2>. HIDE DEF x
    <2>7. 2 \in 1..Len(x)
      BY <2>4
    <2>. QED
      BY <2>1, <2>4, <2>5, <2>6, <2>7, ReachedBuilt, Zenon
  <1>2. A!ProvisionVolume(v) \in Built
    <2>. DEFINE s == cfg.volume[v]
                x == <<Call("EnsureVolume", v, s), Call("Reach", s, ""), Call("MountVolume", v, s)>>
    <2>1. v \in AllVolumes /\ s \in Servers
      BY LiveSets DEF AllVolumes
    <2>2. /\ <<"EnsureVolume", v, s>> \in Free /\ <<"MountVolume", v, s>> \in On(s)
          /\ <<"Reach", s, "">> \in On(s)
      BY <2>1, OnCalls, FreeCalls, Zenon
    <2>3. Free \subseteq Calls /\ On(s) \subseteq Calls
      BY DEF Free, On
    <2>4. x \in Seq(Calls) /\ Len(x) = 3
      BY <2>2, <2>3, Places, Zenon
    <2>5. Reached(x, s, 2)
      BY <2>1, <2>2, ReachedShort, Zenon
    <2>6. A!ProvisionVolume(v) = x
      BY Zenon DEF A!ProvisionVolume
    <2>. HIDE DEF x
    <2>7. 2 \in 1..Len(x)
      BY <2>4
    <2>. QED
      BY <2>1, <2>4, <2>5, <2>6, <2>7, ReachedBuilt, Zenon
  <1>3. S!ProvisionVolume(v) \in Built
    <2>. DEFINE s == cfg.volume[v]
                x == <<Call("EnsureVolume", v, s), Call("Reach", s, ""), Call("MountVolume", v, s)>>
    <2>1. v \in AllVolumes /\ s \in Servers
      BY LiveSets DEF AllVolumes
    <2>2. /\ <<"EnsureVolume", v, s>> \in Free /\ <<"MountVolume", v, s>> \in On(s)
          /\ <<"Reach", s, "">> \in On(s)
      BY <2>1, OnCalls, FreeCalls, Zenon
    <2>3. Free \subseteq Calls /\ On(s) \subseteq Calls
      BY DEF Free, On
    <2>4. x \in Seq(Calls) /\ Len(x) = 3
      BY <2>2, <2>3, Places, Zenon
    <2>5. Reached(x, s, 2)
      BY <2>1, <2>2, ReachedShort, Zenon
    <2>6. S!ProvisionVolume(v) = x
      BY Zenon DEF S!ProvisionVolume
    <2>. HIDE DEF x
    <2>7. 2 \in 1..Len(x)
      BY <2>4
    <2>. QED
      BY <2>1, <2>4, <2>5, <2>6, <2>7, ReachedBuilt, Zenon
  <1>. QED
    BY <1>1, <1>2, <1>3

LEMMA ProvisionBuilderBuilt ==
    ASSUME Live, NEW s \in Servers
    PROVE  /\ H!ProvisionBuilder(s) \in Built
           /\ A!ProvisionBuilder(s) \in Built
           /\ S!ProvisionBuilder(s) \in Built
  <1>1. H!ProvisionBuilder(s) \in Built
    <2>. DEFINE x == << Call("EnsureServer", s, "builder"), Call("Reach", s, ""),
                        Call("EnsureVolume", Cache(s), s), Call("MountVolume", Cache(s), s),
                        Call("FinishPart", s, "docker") >>
    <2>1. Cache(s) \in AllVolumes /\ "builder" \in Roles
      BY DEF AllVolumes, Roles
    <2>2. /\ <<"EnsureServer", s, "builder">> \in Free /\ <<"Reach", s, "">> \in On(s)
          /\ <<"EnsureVolume", Cache(s), s>> \in On(s) /\ <<"MountVolume", Cache(s), s>> \in On(s)
          /\ <<"FinishPart", s, "docker">> \in On(s)
      BY <2>1, OnCalls, FreeOnServers, Zenon
    <2>3. Free \subseteq Calls /\ On(s) \subseteq Calls
      BY DEF Free, On
    <2>4. x \in Seq(Calls) /\ Len(x) = 5
      BY <2>2, <2>3, Places, Zenon
    <2>5. Reached(x, s, 2)
      BY <2>2, ReachedShort, Zenon
    <2>6. H!ProvisionBuilder(s) = x
      BY SameNames, Zenon DEF H!ProvisionBuilder
    <2>. HIDE DEF x
    <2>7. 2 \in 1..Len(x)
      BY <2>4
    <2>. QED
      BY <2>4, <2>5, <2>6, <2>7, ReachedBuilt, Zenon
  <1>2. A!ProvisionBuilder(s) \in Built
    <2>. DEFINE x == << Call("EnsureServer", s, "builder"), Call("Reach", s, ""),
                        Call("EnsureVolume", Cache(s), s), Call("MountVolume", Cache(s), s),
                        Call("FinishPart", s, "docker") >>
    <2>1. Cache(s) \in AllVolumes /\ "builder" \in Roles
      BY DEF AllVolumes, Roles
    <2>2. /\ <<"EnsureServer", s, "builder">> \in Free /\ <<"Reach", s, "">> \in On(s)
          /\ <<"EnsureVolume", Cache(s), s>> \in On(s) /\ <<"MountVolume", Cache(s), s>> \in On(s)
          /\ <<"FinishPart", s, "docker">> \in On(s)
      BY <2>1, OnCalls, FreeOnServers, Zenon
    <2>3. Free \subseteq Calls /\ On(s) \subseteq Calls
      BY DEF Free, On
    <2>4. x \in Seq(Calls) /\ Len(x) = 5
      BY <2>2, <2>3, Places, Zenon
    <2>5. Reached(x, s, 2)
      BY <2>2, ReachedShort, Zenon
    <2>6. A!ProvisionBuilder(s) = x
      BY SameNames, Zenon DEF A!ProvisionBuilder
    <2>. HIDE DEF x
    <2>7. 2 \in 1..Len(x)
      BY <2>4
    <2>. QED
      BY <2>4, <2>5, <2>6, <2>7, ReachedBuilt, Zenon
  <1>3. S!ProvisionBuilder(s) \in Built
    <2>. DEFINE x == << Call("EnsureServer", s, "builder"), Call("Reach", s, ""),
                        Call("EnsureVolume", Cache(s), s), Call("MountVolume", Cache(s), s),
                        Call("FinishPart", s, "docker") >>
    <2>1. Cache(s) \in AllVolumes /\ "builder" \in Roles
      BY DEF AllVolumes, Roles
    <2>2. /\ <<"EnsureServer", s, "builder">> \in Free /\ <<"Reach", s, "">> \in On(s)
          /\ <<"EnsureVolume", Cache(s), s>> \in On(s) /\ <<"MountVolume", Cache(s), s>> \in On(s)
          /\ <<"FinishPart", s, "docker">> \in On(s)
      BY <2>1, OnCalls, FreeOnServers, Zenon
    <2>3. Free \subseteq Calls /\ On(s) \subseteq Calls
      BY DEF Free, On
    <2>4. x \in Seq(Calls) /\ Len(x) = 5
      BY <2>2, <2>3, Places, Zenon
    <2>5. Reached(x, s, 2)
      BY <2>2, ReachedShort, Zenon
    <2>6. S!ProvisionBuilder(s) = x
      BY SameNames, Zenon DEF S!ProvisionBuilder
    <2>. HIDE DEF x
    <2>7. 2 \in 1..Len(x)
      BY <2>4
    <2>. QED
      BY <2>4, <2>5, <2>6, <2>7, ReachedBuilt, Zenon
  <1>. QED
    BY <1>1, <1>2, <1>3

LEMMA EachServerBuilt ==
    ASSUME Live, NEW r
    PROVE  /\ H!Each(WithRole(r), H!ProvisionServer) \in Built
           /\ A!Each(WithRole(r), A!ProvisionServer) \in Built
           /\ S!Each(WithRole(r), S!ProvisionServer) \in Built
  <1>1. H!Each(WithRole(r), H!ProvisionServer) \in Built
    <2>1. PICK q \in Seq(WithRole(r)) : q = H!SetToSeq(WithRole(r))
      BY DeclaredNames, Listed
    <2>. DEFINE ss == [i \in DOMAIN q |-> H!ProvisionServer(q[i])]
    <2>2. \A i \in DOMAIN q : H!ProvisionServer(q[i]) \in Built
      <3>1. \A i \in DOMAIN q : q[i] \in WithRole(r)
        OBVIOUS
      <3>. QED
        BY <3>1, DeclaredNames, ProvisionServerBuilt
    <2>3. ss \in [DOMAIN q -> Built]
      BY <2>2
    <2>4. H!Each(WithRole(r), H!ProvisionServer) = H!FlattenSeq(ss)
      BY <2>1 DEF H!Each
    <2>. HIDE DEF ss
    <2>. QED
      BY <2>3, <2>4, EachBuilt
  <1>2. A!Each(WithRole(r), A!ProvisionServer) \in Built
    <2>1. PICK q \in Seq(WithRole(r)) : q = A!SetToSeq(WithRole(r))
      BY DeclaredNames, Listed
    <2>. DEFINE ss == [i \in DOMAIN q |-> A!ProvisionServer(q[i])]
    <2>2. \A i \in DOMAIN q : A!ProvisionServer(q[i]) \in Built
      <3>1. \A i \in DOMAIN q : q[i] \in WithRole(r)
        OBVIOUS
      <3>. QED
        BY <3>1, DeclaredNames, ProvisionServerBuilt
    <2>3. ss \in [DOMAIN q -> Built]
      BY <2>2
    <2>4. A!Each(WithRole(r), A!ProvisionServer) = A!FlattenSeq(ss)
      BY <2>1 DEF A!Each
    <2>. HIDE DEF ss
    <2>. QED
      BY <2>3, <2>4, EachBuilt
  <1>3. S!Each(WithRole(r), S!ProvisionServer) \in Built
    <2>1. PICK q \in Seq(WithRole(r)) : q = S!SetToSeq(WithRole(r))
      BY DeclaredNames, Listed
    <2>. DEFINE ss == [i \in DOMAIN q |-> S!ProvisionServer(q[i])]
    <2>2. \A i \in DOMAIN q : S!ProvisionServer(q[i]) \in Built
      <3>1. \A i \in DOMAIN q : q[i] \in WithRole(r)
        OBVIOUS
      <3>. QED
        BY <3>1, DeclaredNames, ProvisionServerBuilt
    <2>3. ss \in [DOMAIN q -> Built]
      BY <2>2
    <2>4. S!Each(WithRole(r), S!ProvisionServer) = S!FlattenSeq(ss)
      BY <2>1 DEF S!Each
    <2>. HIDE DEF ss
    <2>. QED
      BY <2>3, <2>4, EachBuilt
  <1>. QED
    BY <1>1, <1>2, <1>3

LEMMA EachVolumeBuilt ==
    ASSUME Live
    PROVE  /\ H!Each(DOMAIN cfg.volume, H!ProvisionVolume) \in Built
           /\ A!Each(DOMAIN cfg.volume, A!ProvisionVolume) \in Built
           /\ S!Each(DOMAIN cfg.volume, S!ProvisionVolume) \in Built
  <1>1. H!Each(DOMAIN cfg.volume, H!ProvisionVolume) \in Built
    <2>1. PICK q \in Seq(DOMAIN cfg.volume) : q = H!SetToSeq(DOMAIN cfg.volume)
      BY LiveSets, Listed
    <2>. DEFINE ss == [i \in DOMAIN q |-> H!ProvisionVolume(q[i])]
    <2>2. \A i \in DOMAIN q : H!ProvisionVolume(q[i]) \in Built
      <3>1. \A i \in DOMAIN q : q[i] \in DOMAIN cfg.volume
        OBVIOUS
      <3>. QED
        BY <3>1, LiveSets, ProvisionVolumeBuilt
    <2>3. ss \in [DOMAIN q -> Built]
      BY <2>2
    <2>4. H!Each(DOMAIN cfg.volume, H!ProvisionVolume) = H!FlattenSeq(ss)
      BY <2>1 DEF H!Each
    <2>. HIDE DEF ss
    <2>. QED
      BY <2>3, <2>4, EachBuilt
  <1>2. A!Each(DOMAIN cfg.volume, A!ProvisionVolume) \in Built
    <2>1. PICK q \in Seq(DOMAIN cfg.volume) : q = A!SetToSeq(DOMAIN cfg.volume)
      BY LiveSets, Listed
    <2>. DEFINE ss == [i \in DOMAIN q |-> A!ProvisionVolume(q[i])]
    <2>2. \A i \in DOMAIN q : A!ProvisionVolume(q[i]) \in Built
      <3>1. \A i \in DOMAIN q : q[i] \in DOMAIN cfg.volume
        OBVIOUS
      <3>. QED
        BY <3>1, LiveSets, ProvisionVolumeBuilt
    <2>3. ss \in [DOMAIN q -> Built]
      BY <2>2
    <2>4. A!Each(DOMAIN cfg.volume, A!ProvisionVolume) = A!FlattenSeq(ss)
      BY <2>1 DEF A!Each
    <2>. HIDE DEF ss
    <2>. QED
      BY <2>3, <2>4, EachBuilt
  <1>3. S!Each(DOMAIN cfg.volume, S!ProvisionVolume) \in Built
    <2>1. PICK q \in Seq(DOMAIN cfg.volume) : q = S!SetToSeq(DOMAIN cfg.volume)
      BY LiveSets, Listed
    <2>. DEFINE ss == [i \in DOMAIN q |-> S!ProvisionVolume(q[i])]
    <2>2. \A i \in DOMAIN q : S!ProvisionVolume(q[i]) \in Built
      <3>1. \A i \in DOMAIN q : q[i] \in DOMAIN cfg.volume
        OBVIOUS
      <3>. QED
        BY <3>1, LiveSets, ProvisionVolumeBuilt
    <2>3. ss \in [DOMAIN q -> Built]
      BY <2>2
    <2>4. S!Each(DOMAIN cfg.volume, S!ProvisionVolume) = S!FlattenSeq(ss)
      BY <2>1 DEF S!Each
    <2>. HIDE DEF ss
    <2>. QED
      BY <2>3, <2>4, EachBuilt
  <1>. QED
    BY <1>1, <1>2, <1>3

LEMMA EachBuilderBuilt ==
    ASSUME Live
    PROVE  /\ H!Each(WithRole("builder"), H!ProvisionBuilder) \in Built
           /\ A!Each(WithRole("builder"), A!ProvisionBuilder) \in Built
           /\ S!Each(WithRole("builder"), S!ProvisionBuilder) \in Built
  <1>1. H!Each(WithRole("builder"), H!ProvisionBuilder) \in Built
    <2>1. PICK q \in Seq(WithRole("builder")) : q = H!SetToSeq(WithRole("builder"))
      BY LiveSets, DeclaredNames, Listed
    <2>. DEFINE ss == [i \in DOMAIN q |-> H!ProvisionBuilder(q[i])]
    <2>2. \A i \in DOMAIN q : H!ProvisionBuilder(q[i]) \in Built
      <3>1. \A i \in DOMAIN q : q[i] \in WithRole("builder")
        OBVIOUS
      <3>. QED
        BY <3>1, LiveSets, DeclaredNames, ProvisionBuilderBuilt
    <2>3. ss \in [DOMAIN q -> Built]
      BY <2>2
    <2>4. H!Each(WithRole("builder"), H!ProvisionBuilder) = H!FlattenSeq(ss)
      BY <2>1 DEF H!Each
    <2>. HIDE DEF ss
    <2>. QED
      BY <2>3, <2>4, EachBuilt
  <1>2. A!Each(WithRole("builder"), A!ProvisionBuilder) \in Built
    <2>1. PICK q \in Seq(WithRole("builder")) : q = A!SetToSeq(WithRole("builder"))
      BY LiveSets, DeclaredNames, Listed
    <2>. DEFINE ss == [i \in DOMAIN q |-> A!ProvisionBuilder(q[i])]
    <2>2. \A i \in DOMAIN q : A!ProvisionBuilder(q[i]) \in Built
      <3>1. \A i \in DOMAIN q : q[i] \in WithRole("builder")
        OBVIOUS
      <3>. QED
        BY <3>1, LiveSets, DeclaredNames, ProvisionBuilderBuilt
    <2>3. ss \in [DOMAIN q -> Built]
      BY <2>2
    <2>4. A!Each(WithRole("builder"), A!ProvisionBuilder) = A!FlattenSeq(ss)
      BY <2>1 DEF A!Each
    <2>. HIDE DEF ss
    <2>. QED
      BY <2>3, <2>4, EachBuilt
  <1>3. S!Each(WithRole("builder"), S!ProvisionBuilder) \in Built
    <2>1. PICK q \in Seq(WithRole("builder")) : q = S!SetToSeq(WithRole("builder"))
      BY LiveSets, DeclaredNames, Listed
    <2>. DEFINE ss == [i \in DOMAIN q |-> S!ProvisionBuilder(q[i])]
    <2>2. \A i \in DOMAIN q : S!ProvisionBuilder(q[i]) \in Built
      <3>1. \A i \in DOMAIN q : q[i] \in WithRole("builder")
        OBVIOUS
      <3>. QED
        BY <3>1, LiveSets, DeclaredNames, ProvisionBuilderBuilt
    <2>3. ss \in [DOMAIN q -> Built]
      BY <2>2
    <2>4. S!Each(WithRole("builder"), S!ProvisionBuilder) = S!FlattenSeq(ss)
      BY <2>1 DEF S!Each
    <2>. HIDE DEF ss
    <2>. QED
      BY <2>3, <2>4, EachBuilt
  <1>. QED
    BY <1>1, <1>2, <1>3

LEMMA BootstrapBuilt ==
    ASSUME Live
    PROVE  /\ H!Bootstrap \in Built
           /\ A!Bootstrap \in Built
           /\ S!Bootstrap \in Built
  <1>1. H!Bootstrap \in Built
    <2>1. "master" \in Roles /\ "worker" \in Roles /\ Base \in SUBSET Rules
      BY DEF Roles, Rules
    <2>2. H!ApplyFirewall("master", DesiredRules("master")) \in Built
      BY <2>1, DeclaredNames, ApplyFirewallCalls, MetBuilt
    <2>3. (IF WithRole("worker") = {} THEN <<>> ELSE H!ApplyFirewall("worker", Base)) \in Built
      BY <2>1, ApplyFirewallCalls, MetBuilt
    <2>4. <<Call("Connect", "", "")>> \in Built
      BY FreePlain, OneCall, MetBuilt, Zenon
    <2>5. H!Bootstrap = H!Each(WithRole("master"), H!ProvisionServer)
              \o H!Each(WithRole("worker"), H!ProvisionServer)
              \o H!ApplyFirewall("master", DesiredRules("master"))
              \o (IF WithRole("worker") = {} THEN <<>> ELSE H!ApplyFirewall("worker", Base))
              \o H!Each(DOMAIN cfg.volume, H!ProvisionVolume)
              \o <<Call("Connect", "", "")>>
      BY SameNames, Zenon DEF H!Bootstrap
    <2>. QED
      BY <2>2, <2>3, <2>4, <2>5, EachServerBuilt, EachVolumeBuilt, BuiltJoined, Zenon
  <1>2. A!Bootstrap \in Built
    <2>1. "master" \in Roles /\ "worker" \in Roles /\ Base \in SUBSET Rules
      BY DEF Roles, Rules
    <2>2. A!ApplyFirewall("master", DesiredRules("master")) \in Built
      BY <2>1, DeclaredNames, ApplyFirewallCalls, MetBuilt
    <2>3. (IF WithRole("worker") = {} THEN <<>> ELSE A!ApplyFirewall("worker", Base)) \in Built
      BY <2>1, ApplyFirewallCalls, MetBuilt
    <2>4. <<Call("Connect", "", "")>> \in Built
      BY FreePlain, OneCall, MetBuilt, Zenon
    <2>5. A!Bootstrap = A!Each(WithRole("master"), A!ProvisionServer)
              \o A!Each(WithRole("worker"), A!ProvisionServer)
              \o A!ApplyFirewall("master", DesiredRules("master"))
              \o (IF WithRole("worker") = {} THEN <<>> ELSE A!ApplyFirewall("worker", Base))
              \o A!Each(DOMAIN cfg.volume, A!ProvisionVolume)
              \o <<Call("Connect", "", "")>>
      BY SameNames, Zenon DEF A!Bootstrap
    <2>. QED
      BY <2>2, <2>3, <2>4, <2>5, EachServerBuilt, EachVolumeBuilt, BuiltJoined, Zenon
  <1>3. S!Bootstrap \in Built
    <2>1. "master" \in Roles /\ "worker" \in Roles /\ Base \in SUBSET Rules
      BY DEF Roles, Rules
    <2>2. S!ApplyFirewall("master", DesiredRules("master")) \in Built
      BY <2>1, DeclaredNames, ApplyFirewallCalls, MetBuilt
    <2>3. (IF WithRole("worker") = {} THEN <<>> ELSE S!ApplyFirewall("worker", Base)) \in Built
      BY <2>1, ApplyFirewallCalls, MetBuilt
    <2>4. <<Call("Connect", "", "")>> \in Built
      BY FreePlain, OneCall, MetBuilt, Zenon
    <2>5. S!Bootstrap = S!Each(WithRole("master"), S!ProvisionServer)
              \o S!Each(WithRole("worker"), S!ProvisionServer)
              \o S!ApplyFirewall("master", DesiredRules("master"))
              \o (IF WithRole("worker") = {} THEN <<>> ELSE S!ApplyFirewall("worker", Base))
              \o S!Each(DOMAIN cfg.volume, S!ProvisionVolume)
              \o <<Call("Connect", "", "")>>
      BY SameNames, Zenon DEF S!Bootstrap
    <2>. QED
      BY <2>2, <2>3, <2>4, <2>5, EachServerBuilt, EachVolumeBuilt, BuiltJoined, Zenon
  <1>. QED
    BY <1>1, <1>2, <1>3

LEMMA ProvisionBuildersBuilt ==
    ASSUME Live
    PROVE  /\ H!ProvisionBuilders \in Built
           /\ A!ProvisionBuilders \in Built
           /\ S!ProvisionBuilders \in Built
  <1>1. H!ProvisionBuilders \in Built
    <2>1. "builder" \in Roles /\ Base \in SUBSET Rules
      BY DEF Roles, Rules
    <2>2. H!ApplyFirewall("builder", Base) \in Built
      BY <2>1, ApplyFirewallCalls, MetBuilt
    <2>3. H!ProvisionBuilders =
              IF WithRole("builder") = {} THEN <<>>
              ELSE H!ApplyFirewall("builder", Base) \o H!Each(WithRole("builder"), H!ProvisionBuilder)
      BY SameNames DEF H!ProvisionBuilders
    <2>. QED
      BY <2>2, <2>3, EachBuilderBuilt, MetBuilt, BuiltJoined
  <1>2. A!ProvisionBuilders \in Built
    <2>1. "builder" \in Roles /\ Base \in SUBSET Rules
      BY DEF Roles, Rules
    <2>2. A!ApplyFirewall("builder", Base) \in Built
      BY <2>1, ApplyFirewallCalls, MetBuilt
    <2>3. A!ProvisionBuilders =
              IF WithRole("builder") = {} THEN <<>>
              ELSE A!ApplyFirewall("builder", Base) \o A!Each(WithRole("builder"), A!ProvisionBuilder)
      BY SameNames DEF A!ProvisionBuilders
    <2>. QED
      BY <2>2, <2>3, EachBuilderBuilt, MetBuilt, BuiltJoined
  <1>3. S!ProvisionBuilders \in Built
    <2>1. "builder" \in Roles /\ Base \in SUBSET Rules
      BY DEF Roles, Rules
    <2>2. S!ApplyFirewall("builder", Base) \in Built
      BY <2>1, ApplyFirewallCalls, MetBuilt
    <2>3. S!ProvisionBuilders =
              IF WithRole("builder") = {} THEN <<>>
              ELSE S!ApplyFirewall("builder", Base) \o S!Each(WithRole("builder"), S!ProvisionBuilder)
      BY SameNames DEF S!ProvisionBuilders
    <2>. QED
      BY <2>2, <2>3, EachBuilderBuilt, MetBuilt, BuiltJoined
  <1>. QED
    BY <1>1, <1>2, <1>3

\* Calls that need no server.
Alone == {c \in Calls : \A s \in Servers : ~ Needs(c, s)}

LEMMA AloneCalls ==
    /\ DestroyCalls \subseteq Alone /\ Sweeping \subseteq Alone
    /\ \A op \in {"Plan", "TeardownOrphans"} : <<op, "", "">> \in Alone
    /\ Free \subseteq Alone
    /\ \A how \in {"unchanged", "deployed", "destroyed"} : <<"Done", how, "">> \in Alone
  <1>1. ASSUME NEW c \in Calls, c[1] \notin {"Join", "InstallMaster", "MountVolume", "Mount", "WriteFstab"},
               c[1] = "AttachVolume" => c[3] = "none"
        PROVE  c \in Alone
    BY <1>1 DEF Alone, Needs
  <1>2. DestroyCalls \subseteq Alone
    BY <1>1 DEF DestroyCalls, DestroyOps, Gentle, Final
  <1>3. Sweeping \subseteq Alone
    BY <1>1 DEF Sweeping, Later
  <1>4. ASSUME NEW op \in {"Plan", "TeardownOrphans"}
        PROVE  <<op, "", "">> \in Alone
    <2>1. <<op, "", "">> \in Calls
      BY Zenon DEF Calls, DeployOps
    <2>. QED
      BY <1>1, <2>1
  <1>5. Free \subseteq Alone
    BY DEF Free, Alone
  <1>6. ASSUME NEW how \in {"unchanged", "deployed", "destroyed"}
        PROVE  <<"Done", how, "">> \in Alone
    <2>1. <<"Done", how, "">> \in Calls
      BY Zenon DEF Calls
    <2>. QED
      BY <1>1, <2>1
  <1>. QED
    BY <1>2, <1>3, <1>4, <1>5, <1>6, Zenon

LEMMA AloneSupplied ==
    ASSUME NEW x \in Seq(Alone), NEW up
    PROVE  Provided(x, up) /\ Sorted(x)
  <1>1. \A i \in 1..Len(x), s \in Servers : ~ Needs(x[i], s)
    <2>1. \A i \in 1..Len(x) : x[i] \in Alone
      OBVIOUS
    <2>. QED
      BY <2>1, Zenon DEF Alone
  <1>. QED
    BY <1>1, Zenon DEF Provided, Sorted

\* A volume is attached to a server that is there.
LEMMA MetCalls ==
    ASSUME NEW v \in AllVolumes, NEW s \in DOMAIN servers, s \in Servers
    PROVE  /\ <<"CreateVolume", v, "empty">> \in Met /\ <<"CreateVolume", v, "blank">> \in Met
           /\ <<"AttachVolume", v, s>> \in Met /\ <<"Format", v, "">> \in Met
           /\ <<"Mount", v, s>> \in Met /\ <<"WriteFstab", v, s>> \in Met
  <1>1. ASSUME NEW disk \in {"empty", "blank"}
        PROVE  <<"CreateVolume", v, disk>> \in Met
    <2>1. <<"CreateVolume", v, disk>> \in Calls
      BY Zenon DEF Calls
    <2>. QED
      BY <2>1 DEF Met, Needs, Clearing
  <1>2. <<"AttachVolume", v, s>> \in Met
    <2>1. <<"AttachVolume", v, s>> \in Calls
      BY Zenon DEF Calls
    <2>. QED
      BY <2>1 DEF Met, Needs, Clearing
  <1>3. <<"Format", v, "">> \in Met
    <2>1. <<"Format", v, "">> \in Calls
      BY Zenon DEF Calls
    <2>. QED
      BY <2>1 DEF Met, Needs, Clearing
  <1>4. ASSUME NEW op \in {"Mount", "WriteFstab"}
        PROVE  <<op, v, s>> \in Met
    <2>1. <<op, v, s>> \in Calls
      BY Zenon DEF Calls, MountOps
    <2>. QED
      BY <2>1 DEF Met, Needs, Clearing
  <1>. QED
    BY <1>1, <1>2, <1>3, <1>4, Zenon

LEMMA EnsureVolumeBuilt ==
    ASSUME NEW v \in AllVolumes, NEW s \in Servers
    PROVE  /\ H!EnsureVolume(v, s) \in Built
           /\ A!EnsureVolume(v, s) \in Built
           /\ S!EnsureVolume(v, s) \in Built
  <1>1. H!EnsureVolume(v, s) \in Built
    <2>1. CASE s \notin DOMAIN servers
      <3>1. H!EnsureVolume(v, s) = H!Fail
        BY <2>1 DEF H!EnsureVolume
      <3>. QED
        BY <3>1, FreePlain, OneCall, MetBuilt, Zenon DEF H!Fail
    <2>2. CASE s \in DOMAIN servers
      <3>. DEFINE start == IF v \in DOMAIN volumes THEN <<>> ELSE <<Call("CreateVolume", v, "empty")>>
                  rest == IF H!Attached(v) = s THEN <<>>
                          ELSE H!DetachVolume(v) \o <<Call("AttachVolume", v, s)>>
      <3>1. start \in Seq(Met)
        BY <2>2, MetCalls, NoCalls, OneCall, Zenon
      <3>2. <<Call("AttachVolume", v, s)>> \in Seq(Met)
        BY <2>2, MetCalls, OneCall, Zenon
      <3>3. H!DetachVolume(v) \in Seq(Met)
        <4>1. Seq(Free) \subseteq Seq(Met)
          BY MetBuilt, SeqMonotonic
        <4>. QED
          BY <4>1, DetachVolumeCalls
      <3>4. rest \in Seq(Met)
        BY <3>2, <3>3, NoCalls, Joined, Zenon
      <3>5. H!EnsureVolume(v, s) = start \o rest
        BY <2>2 DEF H!EnsureVolume
      <3>. HIDE DEF start, rest
      <3>6. start \o rest \in Seq(Met)
        BY <3>1, <3>4, Joined
      <3>. QED
        BY <3>5, <3>6, MetBuilt
    <2>. QED
      BY <2>1, <2>2
  <1>2. A!EnsureVolume(v, s) \in Built
    <2>1. CASE s \notin DOMAIN servers
      <3>1. A!EnsureVolume(v, s) = A!Fail
        BY <2>1 DEF A!EnsureVolume
      <3>. QED
        BY <3>1, FreePlain, OneCall, MetBuilt, Zenon DEF A!Fail
    <2>2. CASE s \in DOMAIN servers
      <3>. DEFINE start == IF v \in DOMAIN volumes THEN <<>> ELSE <<Call("CreateVolume", v, "blank")>>
                  rest == IF A!Attached(v) = s THEN <<>>
                          ELSE A!DetachVolume(v) \o <<Call("AttachVolume", v, s)>>
      <3>1. start \in Seq(Met)
        BY <2>2, MetCalls, NoCalls, OneCall, Zenon
      <3>2. <<Call("AttachVolume", v, s)>> \in Seq(Met)
        BY <2>2, MetCalls, OneCall, Zenon
      <3>3. A!DetachVolume(v) \in Seq(Met)
        <4>1. Seq(Free) \subseteq Seq(Met)
          BY MetBuilt, SeqMonotonic
        <4>. QED
          BY <4>1, DetachVolumeCalls
      <3>4. rest \in Seq(Met)
        BY <3>2, <3>3, NoCalls, Joined, Zenon
      <3>5. A!EnsureVolume(v, s) = start \o rest
        BY <2>2 DEF A!EnsureVolume
      <3>. HIDE DEF start, rest
      <3>6. start \o rest \in Seq(Met)
        BY <3>1, <3>4, Joined
      <3>. QED
        BY <3>5, <3>6, MetBuilt
    <2>. QED
      BY <2>1, <2>2
  <1>3. S!EnsureVolume(v, s) \in Built
    <2>1. CASE s \notin DOMAIN servers
      <3>1. S!EnsureVolume(v, s) = S!Fail
        BY <2>1 DEF S!EnsureVolume
      <3>. QED
        BY <3>1, FreePlain, OneCall, MetBuilt, Zenon DEF S!Fail
    <2>2. CASE s \in DOMAIN servers
      <3>. DEFINE start == IF v \in DOMAIN volumes THEN <<>> ELSE <<Call("CreateVolume", v, "blank")>>
                  rest == IF S!Attached(v) = s THEN <<>>
                          ELSE S!DetachVolume(v) \o <<Call("AttachVolume", v, s)>>
      <3>1. start \in Seq(Met)
        BY <2>2, MetCalls, NoCalls, OneCall, Zenon
      <3>2. <<Call("AttachVolume", v, s)>> \in Seq(Met)
        BY <2>2, MetCalls, OneCall, Zenon
      <3>3. S!DetachVolume(v) \in Seq(Met)
        <4>1. Seq(Free) \subseteq Seq(Met)
          BY MetBuilt, SeqMonotonic
        <4>. QED
          BY <4>1, DetachVolumeCalls
      <3>4. rest \in Seq(Met)
        BY <3>2, <3>3, NoCalls, Joined, Zenon
      <3>5. S!EnsureVolume(v, s) = start \o rest
        BY <2>2 DEF S!EnsureVolume
      <3>. HIDE DEF start, rest
      <3>6. start \o rest \in Seq(Met)
        BY <3>1, <3>4, Joined
      <3>. QED
        BY <3>5, <3>6, MetBuilt
    <2>. QED
      BY <2>1, <2>2
  <1>. QED
    BY <1>1, <1>2, <1>3

LEMMA MountVolumeBuilt ==
    ASSUME NEW v \in AllVolumes, NEW s \in DOMAIN servers, s \in Servers
    PROVE  MountVolume(v, s) \in Built
  <1>. DEFINE start == IF volumes[v].disk = "blank" THEN <<Call("Format", v, "")>> ELSE <<>>
              middle == <<Call("Mount", v, s)>>
              last == IF <<s, v>> \in fstab THEN <<>> ELSE <<Call("WriteFstab", v, s)>>
  <1>1. start \in Seq(Met) /\ middle \in Seq(Met) /\ last \in Seq(Met)
    BY MetCalls, NoCalls, OneCall, Zenon
  <1>2. MountVolume(v, s) = IF <<s, v>> \in mounted THEN <<>> ELSE (start \o middle) \o last
    BY DEF MountVolume
  <1>. HIDE DEF start, middle, last
  <1>3. (start \o middle) \o last \in Seq(Met)
    BY <1>1, Joined
  <1>. QED
    BY <1>2, <1>3, MetBuilt

\* What a call comes to needs the servers the call itself needs, and those
\* it reaches.
LEMMA ExpansionBuilt ==
    ASSUME Live, NEW c \in Calls, Op(c) \in Compound \ (Clearing \cup {"Plan"}),
           \A s \in Servers : Needs(c, s) => s \in DOMAIN servers
    PROVE  Expansion(c) \in Built
  <1>1. Op(c) = c[1]
    BY DEF Op
  <1>2. CASE c[1] = "ProvisionBuilders"
    <2>1. Expansion(c) = Of(H!ProvisionBuilders, A!ProvisionBuilders, S!ProvisionBuilders)
      BY <1>1, <1>2 DEF Expansion
    <2>. QED
      BY <2>1, ProvisionBuildersBuilt, OneOf
  <1>3. CASE c[1] = "Bootstrap"
    <2>1. Expansion(c) = Of(H!Bootstrap, A!Bootstrap, S!Bootstrap)
      BY <1>1, <1>3 DEF Expansion
    <2>. QED
      BY <2>1, BootstrapBuilt, OneOf
  <1>4. CASE c[1] = "Connect"
    <2>1. Expansion(c) = Of(H!Connect, A!Connect, S!Connect)
      BY <1>1, <1>4 DEF Expansion
    <2>2. Expansion(c) \in Seq(Free)
      BY <2>1, ConnectCalls, OneOf
    <2>. QED
      BY <2>2, MetBuilt
  <1>5. CASE c[1] = "FindMaster"
    <2>1. Expansion(c) = Of(H!FindMaster, A!FindMaster, S!FindMaster)
      BY <1>1, <1>5 DEF Expansion
    <2>2. Expansion(c) \in Seq(Free)
      BY <2>1, FindMasterCalls, OneOf
    <2>. QED
      BY <2>2, MetBuilt
  <1>6. CASE c[1] = "EnsureServer"
    <2>1. c[2] \in Servers /\ c[3] \in Roles
      BY <1>6, CallTypes
    <2>2. Expansion(c) =
              Of(H!EnsureServer(c[2], c[3]), A!EnsureServer(c[2], c[3]), S!EnsureServer(c[2], c[3]))
      BY <1>1, <1>6 DEF Expansion
    <2>3. Expansion(c) \in Seq(Free)
      BY <2>1, <2>2, EnsureServerCalls, OneOf
    <2>. QED
      BY <2>3, MetBuilt
  <1>7. CASE c[1] = "EnsureVolume"
    <2>1. c[2] \in AllVolumes /\ c[3] \in Servers
      BY <1>7, CallTypes DEF MountOps
    <2>2. Expansion(c) =
              Of(H!EnsureVolume(c[2], c[3]), A!EnsureVolume(c[2], c[3]), S!EnsureVolume(c[2], c[3]))
      BY <1>1, <1>7 DEF Expansion
    <2>. QED
      BY <2>1, <2>2, EnsureVolumeBuilt, OneOf
  <1>8. CASE c[1] = "ReconcileRules"
    <2>1. c[2] \in Roles /\ c[3] \in SUBSET Rules
      BY <1>8, CallTypes DEF RuleOps
    <2>2. Expansion(c) =
              Of(H!ReconcileRules(c[2], c[3]), A!ReconcileRules(c[2], c[3]),
                 S!ReconcileRules(c[2], c[3]))
      BY <1>1, <1>8 DEF Expansion
    <2>3. Expansion(c) \in Seq(Free)
      BY <2>1, <2>2, ReconcileRulesCalls, OneOf
    <2>. QED
      BY <2>3, MetBuilt
  <1>9. CASE c[1] = "MountVolume"
    <2>1. c[2] \in AllVolumes /\ c[3] \in Servers
      BY <1>9, CallTypes DEF MountOps
    <2>2. c[3] \in DOMAIN servers
      BY <1>9, <2>1 DEF Needs
    <2>3. Expansion(c) = MountVolume(c[2], c[3])
      BY <1>1, <1>9 DEF Expansion
    <2>. QED
      BY <2>1, <2>2, <2>3, MountVolumeBuilt
  <1>. QED
    BY <1>1, <1>2, <1>3, <1>4, <1>5, <1>6, <1>7, <1>8, <1>9 DEF Compound, Clearing

LEMMA ExpansionAlone ==
    ASSUME Live, NEW c \in Calls, Op(c) \in Compound, c[1] \in Clearing
    PROVE  Expansion(c) \in Seq(Alone)
  <1>1. Op(c) = c[1]
    BY DEF Op
  <1>2. CASE c[1] = "TeardownOrphans"
    <2>1. Expansion(c) = Of(H!TeardownOrphans, A!TeardownOrphans, S!TeardownOrphans)
      BY <1>1, <1>2 DEF Expansion
    <2>2. Expansion(c) \in Seq(Sweeping)
      BY <2>1, TeardownOrphansCalls, OneOf
    <2>3. Seq(Sweeping) \subseteq Seq(Alone)
      <3>1. Sweeping \subseteq Alone
        BY AloneCalls, Zenon
      <3>. QED
        BY <3>1, SeqMonotonic
    <2>. QED
      BY <2>2, <2>3
  <1>3. CASE c[1] # "TeardownOrphans"
    <2>1. c \in DestroyCalls
      BY <1>1, <1>3 DEF DestroyCalls, DestroyOps, Gentle, Final, Clearing, Compound
    <2>2. Expansion(c) \in Seq(DestroyCalls)
      <3>1. Expansion(c) \in Whole
        BY <2>1, DestroyExpansion, Zenon
      <3>. QED
        BY <3>1 DEF Whole
    <2>3. Seq(DestroyCalls) \subseteq Seq(Alone)
      <3>1. DestroyCalls \subseteq Alone
        BY AloneCalls, Zenon
      <3>. QED
        BY <3>1, SeqMonotonic
    <2>. QED
      BY <2>2, <2>3
  <1>. QED
    BY <1>2, <1>3

LEMMA CommandsAlone == Deploy \in Seq(Alone) /\ Apply \in Seq(Alone)
  <1>1. /\ <<"ProvisionBuilders", "", "">> \in Alone /\ <<"Connect", "", "">> \in Alone
        /\ <<"Plan", "", "">> \in Alone /\ <<"Bootstrap", "", "">> \in Alone
        /\ <<"TeardownOrphans", "", "">> \in Alone /\ <<"Done", "unchanged", "">> \in Alone
        /\ <<"Done", "deployed", "">> \in Alone
    BY AloneCalls, FreeCalls, Zenon
  <1>2. Deploy \in Seq(Alone)
    BY <1>1, ThreeCalls, Zenon DEF Deploy
  <1>3. Apply \in Seq(Alone)
    BY <1>1, OneCall, TwoCalls, Joined, Zenon DEF Apply, Done
  <1>. QED
    BY <1>2, <1>3

\* If call c reached a server, that server is there.
Right(c, up) == \A s \in Servers : c = Dial(s) => s \in up

\* What is left of a command behind a call that returned, or a mark that
\* closed an error.
LEMMA SuppliedRest ==
    ASSUME NEW x \in Seq(Calls), NEW up, Provided(x, up), Sorted(x), NEW d \in 1..Len(x),
           \/ x[d][1] \in Closing
           \/ d = 1 /\ Right(x[1], up)
    PROVE  Provided(SubSeq(x, d + 1, Len(x)), up) /\ Sorted(SubSeq(x, d + 1, Len(x)))
  <1>. DEFINE y == SubSeq(x, d + 1, Len(x))
  <1>1. /\ Len(y) = Len(x) - d /\ Len(x) \in Nat /\ d \in Nat
        /\ \A i \in 1..Len(y) : y[i] = x[i + d] /\ i + d \in 1..Len(x)
    <2>1. Len(x) \in Nat /\ Len(y) = Len(x) - d
      OBVIOUS
    <2>2. \A i \in 1..Len(y) : y[i] = x[i + d]
      OBVIOUS
    <2>. QED
      BY <2>1, <2>2
  <1>. HIDE DEF y
  <1>2. ASSUME NEW i \in 1..Len(y), NEW s \in Servers, Needs(y[i], s), s \notin up
        PROVE  Reaches(y, s, i)
    <2>1. /\ i + d \in 1..Len(x) /\ i + d \in Nat /\ i \in Nat /\ y[i] = x[i + d]
          /\ Needs(x[i + d], s)
      <3>1. i + d \in 1..Len(x) /\ i + d \in Nat /\ i \in Nat /\ y[i] = x[i + d]
        BY <1>1
      <3>. QED
        BY <1>2, <3>1, Zenon
    <2>2. Reaches(x, s, i + d)
      BY <1>2, <2>1, Zenon DEF Provided
    <2>3. PICK j \in 1..((i + d) - 1) : x[j] = Dial(s) /\ \A h \in j..(i + d) : x[h][1] \notin Closing
      BY <2>2 DEF Reaches
    <2>4. ~ (j <= d)
      <3>. SUFFICES ASSUME j <= d PROVE FALSE
        OBVIOUS
      <3>1. d \in j..(i + d)
        BY <1>1
      <3>2. d = 1 /\ Right(x[1], up)
        BY <2>3, <3>1
      <3>3. j = 1
        BY <1>1, <3>2
      <3>. QED
        BY <1>2, <2>3, <3>2, <3>3, Zenon DEF Right
    <2>5. j - d \in 1..(i - 1) /\ y[j - d] = x[j]
      <3>1. j - d \in 1..(i - 1) /\ j - d \in 1..Len(y) /\ (j - d) + d = j
        BY <1>1, <2>4
      <3>. QED
        BY <1>1, <3>1
    <2>6. ASSUME NEW h \in (j - d)..i
          PROVE  y[h][1] \notin Closing
      <3>1. h \in 1..Len(y) /\ h + d \in j..(i + d)
        BY <1>1, <2>5
      <3>. QED
        BY <1>1, <2>3, <3>1
    <2>. QED
      BY <2>3, <2>5, <2>6 DEF Reaches
  <1>3. Provided(y, up)
    BY <1>2, Zenon DEF Provided
  <1>4. Sorted(y)
    <2>1. ASSUME NEW i \in 1..Len(y), NEW j \in 1..Len(y), i < j, y[i][1] \in Clearing,
                 NEW s \in Servers
          PROVE  ~ Needs(y[j], s)
      <3>1. /\ i + d \in 1..Len(x) /\ j + d \in 1..Len(x) /\ i + d < j + d
            /\ y[i] = x[i + d] /\ y[j] = x[j + d]
        BY <1>1, <2>1
      <3>. QED
        BY <2>1, <3>1, Zenon DEF Sorted
    <2>. QED
      BY <2>1, Zenon DEF Sorted
  <1>. QED
    BY <1>3, <1>4 DEF y

\* Before calls in order, calls that take nothing away.
LEMMA SortedJoined ==
    ASSUME NEW p \in Seq(Calls), NEW q \in Seq(Calls), Sorted(q),
           \A i \in 1..Len(p) : p[i][1] \notin Clearing
    PROVE  Sorted(p \o q)
  <1>. DEFINE x == p \o q
  <1>1. /\ Len(x) = Len(p) + Len(q) /\ Len(p) \in Nat /\ Len(q) \in Nat
        /\ \A i \in 1..Len(p) : x[i] = p[i]
        /\ \A i \in 1..Len(q) : x[i + Len(p)] = q[i]
    OBVIOUS
  <1>. HIDE DEF x
  <1>2. ASSUME NEW i \in 1..Len(x), NEW j \in 1..Len(x), i < j, x[i][1] \in Clearing, NEW s \in Servers
        PROVE  ~ Needs(x[j], s)
    <2>1. i > Len(p)
      BY <1>1, <1>2
    <2>2. /\ i - Len(p) \in 1..Len(q) /\ (i - Len(p)) + Len(p) = i
          /\ j - Len(p) \in 1..Len(q) /\ (j - Len(p)) + Len(p) = j /\ i - Len(p) < j - Len(p)
      BY <1>1, <1>2, <2>1
    <2>3. x[i] = q[i - Len(p)] /\ x[j] = q[j - Len(p)]
      BY <1>1, <2>2
    <2>. QED
      BY <1>2, <2>2, <2>3, Zenon DEF Sorted
  <1>3. Sorted(x)
    BY <1>2, Zenon DEF Sorted
  <1>. QED
    BY <1>3 DEF x

\* The call at hand has the servers it needs.
LEMMA ThisMet ==
    ASSUME Inv, Supplied, todo # <<>>
    PROVE  /\ todo \in Seq(Calls) /\ Len(todo) \in Nat /\ 1 \in 1..Len(todo) /\ ThisCall = todo[1]
           /\ Tail(todo) = SubSeq(todo, 1 + 1, Len(todo)) /\ Tail(todo) \in Seq(Calls)
           /\ \A s \in Servers : Needs(ThisCall, s) => s \in DOMAIN servers
           /\ ThisCall[1] \in Clearing => Tail(todo) \in Seq(Alone)
           /\ Right(ThisCall, DOMAIN servers)
                 => Provided(Tail(todo), DOMAIN servers) /\ Sorted(Tail(todo))
  <1>1. todo \in Seq(Calls)
    BY Current DEF Complete
  <1>2. /\ Len(todo) \in Nat /\ 1 \in 1..Len(todo) /\ ThisCall = todo[1]
        /\ Tail(todo) = SubSeq(todo, 1 + 1, Len(todo)) /\ Tail(todo) \in Seq(Calls)
    BY <1>1 DEF ThisCall
  <1>3. Provided(todo, DOMAIN servers) /\ Sorted(todo)
    BY DEF Supplied
  <1>4. ASSUME NEW s \in Servers, Needs(ThisCall, s)
        PROVE  s \in DOMAIN servers
    <2>1. ~ Reaches(todo, s, 1)
      BY DEF Reaches
    <2>2. Needs(todo[1], s)
      BY <1>2, <1>4, Zenon
    <2>. QED
      BY <1>2, <1>3, <2>1, <2>2, Zenon DEF Provided
  <1>5. ASSUME ThisCall[1] \in Clearing
        PROVE  Tail(todo) \in Seq(Alone)
    <2>1. /\ Len(Tail(todo)) \in Nat /\ \A i \in 1..Len(Tail(todo)) : Tail(todo)[i] \in Calls
          /\ \A i \in 1..Len(Tail(todo)) :
                i + 1 \in 1..Len(todo) /\ 1 < i + 1 /\ Tail(todo)[i] = todo[i + 1]
      <3>1. /\ Len(Tail(todo)) = Len(todo) - 1 /\ Len(Tail(todo)) \in Nat
            /\ \A i \in 1..Len(Tail(todo)) : Tail(todo)[i] \in Calls
            /\ \A i \in 1..Len(Tail(todo)) : Tail(todo)[i] = todo[i + 1]
        BY <1>1, <1>2
      <3>. QED
        BY <1>2, <3>1
    <2>2. todo[1][1] \in Clearing
      BY <1>2, <1>5
    <2>3. ASSUME NEW i \in 1..Len(Tail(todo)), NEW s \in Servers
          PROVE  ~ Needs(Tail(todo)[i], s)
      <3>1. ~ Needs(todo[i + 1], s)
        BY <1>2, <1>3, <2>1, <2>2, Zenon DEF Sorted
      <3>. QED
        BY <2>1, <3>1, Zenon
    <2>4. \A i \in 1..Len(Tail(todo)) : Tail(todo)[i] \in Alone
      BY <2>1, <2>3, Zenon DEF Alone
    <2>. DEFINE y == Tail(todo)
    <2>5. y \in Seq(Calls) /\ \A i \in 1..Len(y) : y[i] \in Alone
      BY <1>2, <2>4
    <2>. HIDE DEF y
    <2>6. y \in Seq(Alone)
      BY <2>5
    <2>. QED
      BY <2>6 DEF y
  <1>6. ASSUME Right(ThisCall, DOMAIN servers)
        PROVE  Provided(Tail(todo), DOMAIN servers) /\ Sorted(Tail(todo))
    <2>1. Right(todo[1], DOMAIN servers)
      BY <1>2, <1>6, Zenon
    <2>. QED
      BY <1>1, <1>2, <1>3, <2>1, SuppliedRest, Zenon
  <1>. QED
    BY <1>1, <1>2, <1>4, <1>5, <1>6

LEMMA SuppliedAlone ==
    ASSUME todo' \in Seq(Alone)
    PROVE  Supplied'
  <1>1. Provided(todo', DOMAIN servers') /\ Sorted(todo')
    BY AloneSupplied
  <1>. QED
    BY <1>1 DEF Supplied

LEMMA BeginSupplied ==
    ASSUME Inv, Supplied,
           DeployBegins \/ \E deleteVolumes \in BOOLEAN : DestroyBegins(deleteVolumes)
    PROVE  Supplied'
  <1>1. CASE DeployBegins
    <2>1. todo' = Deploy
      BY <1>1 DEF DeployBegins, Begin
    <2>. QED
      BY <2>1, CommandsAlone, SuppliedAlone
  <1>2. ASSUME NEW deleteVolumes \in BOOLEAN, DestroyBegins(deleteVolumes)
        PROVE  Supplied'
    <2>. DEFINE down == Of(H!Teardown(deleteVolumes), A!Teardown(deleteVolumes),
                           S!Teardown(deleteVolumes))
                e == <<"Done", "destroyed", "">>
    <2>1. todo' = down \o <<e>>
      BY <1>2, Zenon DEF DestroyBegins, Begin, Done
    <2>2. down \in Seq(DestroyCalls)
      BY TeardownWhole, Zenon DEF Inv, Of, Whole
    <2>3. e \in Alone /\ DestroyCalls \subseteq Alone
      BY AloneCalls, Zenon
    <2>. HIDE DEF down, e
    <2>4. down \in Seq(Alone) /\ <<e>> \in Seq(Alone)
      BY <2>2, <2>3, SeqMonotonic, OneCall
    <2>. QED
      BY <2>1, <2>4, Joined, SuppliedAlone, Zenon
  <1>. QED
    BY <1>1, <1>2

LEMMA ExpandSupplied ==
    ASSUME Inv, Supplied, Expand
    PROVE  Supplied'
  <1>1. /\ todo # <<>> /\ Op(ThisCall) \in Compound /\ Op(ThisCall) = ThisCall[1]
        /\ todo' = Expansion(ThisCall) \o Tail(todo) /\ servers' = servers
    BY DEF Expand, cloud, Op
  <1>2. ThisCall \in Calls /\ Live
    BY <1>1, Current DEF Inv
  <1>3. CASE ThisCall[1] = "Plan"
    <2>1. Len(todo) = 1 /\ todo \in Seq(Calls)
      BY <1>1, <1>3, Current DEF Closings, Complete
    <2>2. Tail(todo) = <<>>
      <3>1. Tail(todo) \in Seq(Calls) /\ Len(Tail(todo)) = 0
        BY <1>1, <2>1, HeadTailProperties
      <3>. QED
        BY <3>1, EmptySeq, Zenon
    <2>3. Expansion(ThisCall) = Apply
      BY <1>1, <1>3 DEF Expansion
    <2>4. todo' \in Seq(Alone)
      BY <1>1, <2>2, <2>3, CommandsAlone, ConcatEmptySeq
    <2>. QED
      BY <2>4, SuppliedAlone
  <1>4. CASE ThisCall[1] \in Clearing
    <2>1. Tail(todo) \in Seq(Alone)
      BY <1>1, <1>4, ThisMet
    <2>2. Expansion(ThisCall) \in Seq(Alone)
      BY <1>1, <1>2, <1>4, ExpansionAlone
    <2>3. todo' \in Seq(Alone)
      BY <1>1, <2>1, <2>2, Joined, Zenon
    <2>. QED
      BY <2>3, SuppliedAlone
  <1>5. CASE ThisCall[1] \notin Clearing \cup {"Plan"}
    <2>1. \A s \in Servers : Needs(ThisCall, s) => s \in DOMAIN servers
      BY <1>1, ThisMet
    <2>2. Expansion(ThisCall) \in Built
      BY <1>1, <1>2, <1>5, <2>1, ExpansionBuilt
    <2>3. /\ Expansion(ThisCall) \in Seq(Calls) /\ Provided(Expansion(ThisCall), DOMAIN servers)
          /\ \A i \in 1..Len(Expansion(ThisCall)) : Expansion(ThisCall)[i][1] \notin Clearing
      BY <2>2, Zenon DEF Built
    <2>4. Right(ThisCall, DOMAIN servers)
      <3>1. ThisCall[1] # "Reach"
        BY <1>1 DEF Compound
      <3>2. \A s : Dial(s)[1] = "Reach"
        BY DEF Dial
      <3>. QED
        BY <3>1, <3>2, Zenon DEF Right
    <2>5. /\ Tail(todo) \in Seq(Calls) /\ Provided(Tail(todo), DOMAIN servers) /\ Sorted(Tail(todo))
      BY <1>1, <2>4, ThisMet
    <2>6. Provided(todo', DOMAIN servers)
      BY <1>1, <2>3, <2>5, ProvidedJoined, Zenon
    <2>7. Sorted(todo')
      BY <1>1, <2>3, <2>5, SortedJoined, Zenon
    <2>. QED
      BY <1>1, <2>6, <2>7 DEF Supplied
  <1>. QED
    BY <1>3, <1>4, <1>5

LEMMA MarkSupplied ==
    ASSUME Inv, Supplied, PassMark \/ ListingFails
    PROVE  Supplied'
  <1>1. /\ todo # <<>> /\ todo' = Tail(todo) /\ servers' = servers /\ ThisCall[1] # "Reach"
    BY DEF PassMark, ListingFails, TakesErrorForAbsence, Doing, Op, Closing, CallReturns, cloud
  <1>2. Right(ThisCall, DOMAIN servers)
    <2>1. \A s : Dial(s)[1] = "Reach"
      BY DEF Dial
    <2>. QED
      BY <1>1, <2>1, Zenon DEF Right
  <1>3. Provided(Tail(todo), DOMAIN servers) /\ Sorted(Tail(todo))
    BY <1>1, <1>2, ThisMet
  <1>. QED
    BY <1>1, <1>3 DEF Supplied

\* A call that returns takes no server away, but for the one that destroys
\* it; a server that was reached is there.
LEMMA WorksGrow ==
    ASSUME CallSucceeds
    PROVE  \/ ThisCall[1] \in Clearing
           \/ DOMAIN servers \subseteq DOMAIN servers' /\ (ThisCall[1] = "Reach" => ThisCall[2] \in DOMAIN servers)
  <1>1. CASE CreateFirewall \/ ReplaceRules \/ AddRules \/ RevokeRules \/ DropFirewall
    BY <1>1 DEF CreateFirewall, ReplaceRules, AddRules, RevokeRules, DropFirewall, SetRules, Doing, Op
  <1>2. CASE CreateNetwork \/ StripNetwork \/ DropNetwork
    BY <1>2 DEF CreateNetwork, StripNetwork, DropNetwork, Doing, Op, Clearing
  <1>3. CASE LaunchServer \/ BareServer
    BY <1>3 DEF LaunchServer, BareServer, CreateServer, Doing, Op
  <1>4. CASE FinishPart \/ Protect
    BY <1>4 DEF FinishPart, Protect, ChangeServer, Doing, Op
  <1>5. CASE DestroyServer
    BY <1>5 DEF DestroyServer, Doing, Op, Clearing
  <1>6. CASE Reach
    BY <1>6 DEF Reach, Refused, Reachable, Doing, Op, Thing, cloud
  <1>7. CASE Join \/ Label \/ Mount \/ WriteFstab \/ Unmount \/ EraseFstab
    BY <1>7 DEF Join, Label, Mount, WriteFstab, Unmount, EraseFstab, Doing, Op, cloud
  <1>8. CASE CreateVolume \/ AttachVolume \/ Format \/ DropVolume
    BY <1>8 DEF CreateVolume, AttachVolume, Format, DropVolume, ChangeVolume, Doing, Op
  <1>. QED
    BY <1>1, <1>2, <1>3, <1>4, <1>5, <1>6, <1>7, <1>8 DEF CallSucceeds

LEMMA WorksSupplied ==
    ASSUME Inv, Supplied, Works
    PROVE  Supplied'
  <1>1. CallSucceeds /\ todo # <<>> /\ todo' = Tail(todo)
    BY CallsReturn DEF Works, CallReturns
  <1>2. CASE ThisCall[1] \in Clearing
    BY <1>1, <1>2, ThisMet, SuppliedAlone
  <1>3. CASE ThisCall[1] \notin Clearing
    <2>1. /\ DOMAIN servers \subseteq DOMAIN servers'
          /\ ThisCall[1] = "Reach" => ThisCall[2] \in DOMAIN servers
      BY <1>1, <1>3, WorksGrow
    <2>2. Right(ThisCall, DOMAIN servers)
      <3>1. \A s : Dial(s)[1] = "Reach" /\ Dial(s)[2] = s
        BY DEF Dial
      <3>. QED
        BY <2>1, <3>1, Zenon DEF Right
    <2>3. Provided(Tail(todo), DOMAIN servers) /\ Sorted(Tail(todo))
      BY <1>1, <2>2, ThisMet
    <2>4. Provided(Tail(todo), DOMAIN servers')
      BY <2>1, <2>3, Zenon DEF Provided
    <2>. QED
      BY <1>1, <2>3, <2>4 DEF Supplied
  <1>. QED
    BY <1>2, <1>3

LEMMA ErrorSupplied ==
    ASSUME Inv, Supplied, CallIsRefused \/ CallFails
    PROVE  Supplied'
  <1>1. Raise /\ servers' = servers /\ todo # <<>>
    BY DEF CallIsRefused, CallFails, cloud, Refused, Doing
  <1>2. CASE Handler = 0
    <2>1. todo' \in Seq(Alone)
      BY <1>1, <1>2 DEF Raise
    <2>. QED
      BY <2>1, SuppliedAlone
  <1>3. CASE Handler # 0
    <2>1. todo' = SubSeq(todo, Handler + 1, Len(todo))
      BY <1>1, <1>3 DEF Raise
    <2>2. todo \in Seq(Calls) /\ Len(todo) \in Nat
      BY <1>1, ThisMet
    <2>3. Handler \in 0..Len(todo) /\ todo[Handler][1] \in Closing
      BY <1>3, <2>2, HandlerPlace
    <2>4. Handler \in 1..Len(todo)
      BY <1>3, <2>2, <2>3
    <2>5. Provided(todo, DOMAIN servers) /\ Sorted(todo)
      BY DEF Supplied
    <2>6. /\ Provided(SubSeq(todo, Handler + 1, Len(todo)), DOMAIN servers)
          /\ Sorted(SubSeq(todo, Handler + 1, Len(todo)))
      BY <2>2, <2>3, <2>4, <2>5, SuppliedRest, Zenon
    <2>. QED
      BY <1>1, <2>1, <2>6, Zenon DEF Supplied
  <1>. QED
    BY <1>2, <1>3

LEMMA RestSupplied ==
    ASSUME Supplied,
           \/ Finish \/ CommandStops
           \/ \E c \in Configs : Edit(c)
           \/ \E v \in DOMAIN volumes : PodWrites(v)
           \/ OperatorCreatesFirewall
           \/ UNCHANGED vars
    PROVE  Supplied'
  <1>1. CASE Finish \/ CommandStops
    <2>1. todo' = <<>>
      BY <1>1 DEF Finish, CommandStops
    <2>2. <<>> \in Seq(Alone)
      OBVIOUS
    <2>. QED
      BY <2>1, <2>2, SuppliedAlone
  <1>2. CASE ~ (Finish \/ CommandStops)
    <2>1. todo' = todo /\ servers' = servers
      BY <1>2 DEF Edit, PodWrites, OperatorCreatesFirewall, vars, control, cloud
    <2>. QED
      BY <2>1 DEF Supplied
  <1>. QED
    BY <1>1, <1>2

LEMMA StepSupplied ==
    ASSUME Inv, Supplied, [Next]_vars
    PROVE  Supplied'
  BY BeginSupplied, ExpandSupplied, MarkSupplied, WorksSupplied, ErrorSupplied, RestSupplied
     DEF Next, CommandGoesOn

----------------------------------------------------------------------------
(***************************************************************************)
(* Types: what is where, and what is counted.                              *)
(***************************************************************************)
Placed ==
    /\ \A v \in DOMAIN volumes : volumes[v].at \in DOMAIN servers \cup {"none"}
    /\ labels \subseteq nodes /\ nodes \subseteq agents /\ agents \subseteq DOMAIN servers
    /\ mounted \cup fstab \subseteq (DOMAIN servers) \X AllVolumes

Counted ==
    /\ provider \in {"hetzner", "aws", "scaleway"} /\ borrowed \in BOOLEAN
    /\ network \subseteq Networking
    /\ failed \in BOOLEAN /\ blind \in BOOLEAN
    /\ outcome \in {"none", "unchanged", "deployed", "destroyed", "failed"}
    /\ edits \in 0..MaxEdits /\ mishaps \in 0..MaxMishaps /\ halfway \subseteq AllVolumes

LEMMA Types ==
    ASSUME Inv, Placed, Counted
    PROVE  TypeOK
  <1>1. /\ cfg \in Configs /\ DOMAIN servers \subseteq Servers
        /\ \A s \in DOMAIN servers :
              servers[s] \in [fw : Firewalls \cup {"none"}, role : Roles,
                              parts : SUBSET (Parts \cup {"docker"})]
        /\ DOMAIN firewalls \subseteq Firewalls
        /\ \A f \in DOMAIN firewalls : firewalls[f] \subseteq Rules
        /\ DOMAIN volumes \subseteq AllVolumes
    BY DEF Inv, Live, Machines, Firewalls
  <1>2. \A v \in DOMAIN volumes :
            volumes[v] \in [at : DOMAIN servers \cup {"none"}, disk : {"blank", "empty", "data"}]
    BY DEF Inv, Live, Placed
  <1>3. (cmd = "none") = (todo = <<>>)
    BY DEF Inv, Complete
  <1>4. cmd \in {"none", "deploy", "destroy", "destroy volumes"}
    BY DEF Inv
  <1>. QED
    BY <1>1, <1>2, <1>3, <1>4 DEF TypeOK, Placed, Counted

\* What the call at hand speaks of.
LEMMA ThisTyped ==
    ASSUME Inv, Supplied, todo # <<>>
    PROVE  /\ ThisCall[1] \in {"Join", "InstallMaster"} => Thing \in DOMAIN servers
           /\ ThisCall[1] \in {"Mount", "WriteFstab"} => Thing \in AllVolumes /\ Arg \in DOMAIN servers
           /\ ThisCall[1] = "AttachVolume" => Arg \in DOMAIN servers \cup {"none"}
           /\ ThisCall[1] = "CreateNetwork" => Thing \subseteq Networking
           /\ ThisCall[1] = "Done" => Thing \in {"unchanged", "deployed", "destroyed"}
  <1>1. ThisCall \in Calls /\ Thing = ThisCall[2] /\ Arg = ThisCall[3]
    BY Current DEF Thing, Arg
  <1>2. \A s \in Servers : Needs(ThisCall, s) => s \in DOMAIN servers
    BY ThisMet
  <1>3. ASSUME ThisCall[1] \in {"Join", "InstallMaster"}
        PROVE  Thing \in DOMAIN servers
    <2>1. Thing \in Servers
      BY <1>1, <1>3, CallTypes DEF ServerOps
    <2>. QED
      BY <1>1, <1>2, <1>3, <2>1 DEF Needs
  <1>4. ASSUME ThisCall[1] \in {"Mount", "WriteFstab"}
        PROVE  Thing \in AllVolumes /\ Arg \in DOMAIN servers
    <2>1. Thing \in AllVolumes /\ Arg \in Servers
      BY <1>1, <1>4, CallTypes DEF MountOps
    <2>. QED
      BY <1>1, <1>2, <1>4, <2>1 DEF Needs
  <1>5. ASSUME ThisCall[1] = "AttachVolume"
        PROVE  Arg \in DOMAIN servers \cup {"none"}
    <2>1. Arg \in Servers \cup {"none"}
      BY <1>1, <1>5, CallTypes
    <2>. QED
      BY <1>1, <1>2, <1>5, <2>1 DEF Needs
  <1>6. /\ ThisCall[1] = "CreateNetwork" => Thing \subseteq Networking
        /\ ThisCall[1] = "Done" => Thing \in {"unchanged", "deployed", "destroyed"}
    BY <1>1, CallTypes
  <1>. QED
    BY <1>3, <1>4, <1>5, <1>6

\* Calls on firewalls, the network and servers keep everything where it is;
\* a server that is destroyed takes with it what is on it.
LEMMA CloudCallsPlaced ==
    ASSUME Inv, Placed,
           \/ CreateFirewall \/ ReplaceRules \/ AddRules \/ RevokeRules \/ DropFirewall
           \/ CreateNetwork \/ StripNetwork \/ DropNetwork
           \/ LaunchServer \/ BareServer \/ FinishPart \/ Protect \/ Reach
    PROVE  Placed'
  <1>1. /\ UNCHANGED <<agents, nodes, labels, mounted, fstab, volumes>>
        /\ DOMAIN servers \subseteq DOMAIN servers'
    <2>1. CASE CreateFirewall \/ ReplaceRules \/ AddRules \/ RevokeRules \/ DropFirewall
      BY <2>1 DEF CreateFirewall, ReplaceRules, AddRules, RevokeRules, DropFirewall, SetRules, hosts
    <2>2. CASE CreateNetwork \/ StripNetwork \/ DropNetwork
      BY <2>2 DEF CreateNetwork, StripNetwork, DropNetwork, hosts
    <2>3. CASE LaunchServer \/ BareServer
      BY <2>3 DEF LaunchServer, BareServer, CreateServer, hosts
    <2>4. CASE FinishPart \/ Protect
      BY <2>4 DEF FinishPart, Protect, ChangeServer, hosts
    <2>5. CASE Reach
      BY <2>5 DEF Reach, cloud, hosts
    <2>. QED
      BY <2>1, <2>2, <2>3, <2>4, <2>5
  <1>2. /\ \A v \in DOMAIN volumes' : volumes'[v].at \in DOMAIN servers' \cup {"none"}
        /\ labels' \subseteq nodes' /\ nodes' \subseteq agents' /\ agents' \subseteq DOMAIN servers'
    BY <1>1 DEF Placed
  <1>3. ASSUME NEW p \in mounted' \cup fstab'
        PROVE  p \in (DOMAIN servers') \X AllVolumes
    <2>1. p \in (DOMAIN servers) \X AllVolumes
      BY <1>1, <1>3 DEF Placed
    <2>. QED
      BY <1>1, <2>1
  <1>. QED
    BY <1>2, <1>3 DEF Placed

LEMMA DestroyServerPlaced ==
    ASSUME Inv, Placed, DestroyServer
    PROVE  Placed'
  <1>1. /\ servers' = [s \in DOMAIN servers \ {Thing} |-> servers[s]]
        /\ agents' = agents \ {Thing} /\ labels' = labels \cap nodes'
        /\ nodes' = {} \/ nodes' = nodes \ {Thing}
        /\ mounted' = {p \in mounted : p[1] # Thing} /\ fstab' = {p \in fstab : p[1] # Thing}
        /\ volumes' = [v \in DOMAIN volumes |->
                          IF volumes[v].at = Thing THEN [volumes[v] EXCEPT !.at = "none"]
                          ELSE volumes[v]]
    BY DEF DestroyServer
  <1>2. DOMAIN servers' = DOMAIN servers \ {Thing}
    BY <1>1
  <1>3. labels' \subseteq nodes' /\ nodes' \subseteq agents' /\ agents' \subseteq DOMAIN servers'
    BY <1>1, <1>2 DEF Placed
  <1>4. ASSUME NEW v \in DOMAIN volumes'
        PROVE  volumes'[v].at \in DOMAIN servers' \cup {"none"}
    <2>1. v \in DOMAIN volumes /\ volumes[v].at \in DOMAIN servers \cup {"none"}
      BY <1>1, <1>4 DEF Placed
    <2>2. volumes[v] \in [at : Servers \cup {"none"}, disk : {"blank", "empty", "data"}]
      BY <2>1 DEF Inv, Live
    <2>3. CASE volumes[v].at = Thing
      BY <1>1, <2>1, <2>2, <2>3
    <2>4. CASE volumes[v].at # Thing
      BY <1>1, <1>2, <2>1, <2>4
    <2>. QED
      BY <2>3, <2>4
  <1>5. ASSUME NEW p \in mounted' \cup fstab'
        PROVE  p \in (DOMAIN servers') \X AllVolumes
    <2>1. p \in (DOMAIN servers) \X AllVolumes /\ p[1] # Thing
      BY <1>1, <1>5 DEF Placed
    <2>. QED
      BY <1>2, <2>1
  <1>. QED
    BY <1>3, <1>4, <1>5 DEF Placed

LEMMA HostCallsPlaced ==
    ASSUME Inv, Supplied, Placed,
           Join \/ Label \/ Mount \/ WriteFstab \/ Unmount \/ EraseFstab
    PROVE  Placed'
  <1>1. todo # <<>> /\ servers' = servers /\ volumes' = volumes
    BY DEF Join, Label, Mount, WriteFstab, Unmount, EraseFstab, Doing, cloud
  <1>2. CASE Join
    <2>1. Thing \in DOMAIN servers
      BY <1>1, <1>2, ThisTyped DEF Join, Doing, Op
    <2>. QED
      BY <1>1, <1>2, <2>1 DEF Join, Placed
  <1>3. CASE Label
    BY <1>1, <1>3 DEF Label, Refused, Doing, Placed
  <1>4. CASE Mount \/ WriteFstab
    <2>1. Thing \in AllVolumes /\ Arg \in DOMAIN servers
      BY <1>1, <1>4, ThisTyped DEF Mount, WriteFstab, Doing, Op
    <2>2. <<Arg, Thing>> \in (DOMAIN servers) \X AllVolumes
      BY <2>1
    <2>3. /\ mounted' \subseteq mounted \cup {<<Arg, Thing>>} /\ fstab' \subseteq fstab \cup {<<Arg, Thing>>}
          /\ UNCHANGED <<agents, nodes, labels>>
      BY <1>4 DEF Mount, WriteFstab
    <2>. QED
      BY <1>1, <2>2, <2>3 DEF Placed
  <1>5. CASE Unmount \/ EraseFstab
    <2>1. mounted' \subseteq mounted /\ fstab' \subseteq fstab /\ UNCHANGED <<agents, nodes, labels>>
      BY <1>5 DEF Unmount, EraseFstab
    <2>. QED
      BY <1>1, <2>1 DEF Placed
  <1>. QED
    BY <1>2, <1>3, <1>4, <1>5

LEMMA VolumeCallsPlaced ==
    ASSUME Inv, Supplied, Placed, CreateVolume \/ AttachVolume \/ Format \/ DropVolume
    PROVE  Placed'
  <1>1. todo # <<>> /\ servers' = servers /\ UNCHANGED <<agents, nodes, labels, mounted, fstab>>
    BY DEF CreateVolume, AttachVolume, Format, DropVolume, ChangeVolume, Doing, hosts
  <1>2. ASSUME NEW v \in DOMAIN volumes'
        PROVE  volumes'[v].at \in DOMAIN servers \cup {"none"}
    <2>1. v \in DOMAIN volumes => volumes[v].at \in DOMAIN servers \cup {"none"}
                                  /\ volumes[v] \in [at : Servers \cup {"none"}, disk : {"blank", "empty", "data"}]
      BY DEF Placed, Inv, Live
    <2>2. CASE CreateVolume
      BY <1>2, <2>1, <2>2 DEF CreateVolume
    <2>3. CASE AttachVolume
      <3>1. Arg \in DOMAIN servers \cup {"none"}
        BY <1>1, <2>3, ThisTyped DEF AttachVolume, Doing, Op
      <3>. QED
        BY <1>2, <2>1, <2>3, <3>1 DEF AttachVolume, ChangeVolume
    <2>4. CASE Format
      BY <1>2, <2>1, <2>4 DEF Format, ChangeVolume
    <2>5. CASE DropVolume
      BY <1>2, <2>1, <2>5 DEF DropVolume
    <2>. QED
      BY <2>2, <2>3, <2>4, <2>5
  <1>. QED
    BY <1>1, <1>2 DEF Placed

LEMMA WorksCounted ==
    ASSUME Inv, Supplied, Counted, Works
    PROVE  Counted'
  <1>1. UNCHANGED <<provider, borrowed, failed, blind, outcome, edits, mishaps, halfway>> /\ todo # <<>>
    BY CallsReturn DEF Works, CallReturns, inputs, tally
  <1>2. CASE CreateNetwork
    <2>1. Thing \subseteq Networking
      BY <1>1, <1>2, ThisTyped DEF CreateNetwork, Doing, Op
    <2>. QED
      BY <1>1, <1>2, <2>1 DEF CreateNetwork, Counted
  <1>3. CASE StripNetwork \/ DropNetwork
    BY <1>1, <1>3 DEF StripNetwork, DropNetwork, Counted
  <1>4. CASE ~ (CreateNetwork \/ StripNetwork \/ DropNetwork)
    <2>1. network' = network
      BY <1>4 DEF Works, CallSucceeds, CreateFirewall, ReplaceRules, AddRules, RevokeRules, DropFirewall,
                  SetRules, LaunchServer, BareServer, CreateServer, FinishPart, Protect, ChangeServer,
                  DestroyServer, Reach, Join, Label, Mount, WriteFstab, Unmount, EraseFstab, cloud,
                  CreateVolume, AttachVolume, Format, DropVolume, ChangeVolume
    <2>. QED
      BY <1>1, <2>1 DEF Counted
  <1>. QED
    BY <1>2, <1>3, <1>4

LEMMA RaiseCounted ==
    ASSUME Counted, Raise
    PROVE  failed' \in BOOLEAN /\ outcome' \in {"none", "unchanged", "deployed", "destroyed", "failed"}
  <1>1. CASE Handler = 0
    BY <1>1 DEF Raise, Counted
  <1>2. CASE Handler # 0
    <2>1. outcome' = outcome /\ failed' = (failed \/ Op(todo[Handler]) = "collect")
      BY <1>2 DEF Raise
    <2>2. failed' \in BOOLEAN
      BY <2>1 DEF Counted
    <2>. QED
      BY <2>1, <2>2 DEF Counted
  <1>. QED
    BY <1>1, <1>2

LEMMA CutShortTyped ==
    ASSUME Inv, Supplied
    PROVE  CutShort \subseteq AllVolumes
  <1>1. Doing("WriteFstab") => Thing \in AllVolumes
    BY ThisTyped DEF Doing, Op
  <1>. QED
    BY <1>1 DEF CutShort

LEMMA StepTyped ==
    ASSUME Inv, Supplied, Placed, Counted, [Next]_vars
    PROVE  Placed' /\ Counted'
  <1>0. MaxEdits \in Nat /\ MaxMishaps \in Nat
    BY BoundsAssumption
  <1>1. CASE Works
    <2>1. Placed'
      BY <1>1, CloudCallsPlaced, DestroyServerPlaced, HostCallsPlaced, VolumeCallsPlaced
         DEF Works, CallSucceeds
    <2>. QED
      BY <1>1, <2>1, WorksCounted
  <1>2. ASSUME UNCHANGED <<servers, volumes, hosts>>
        PROVE  Placed'
    BY <1>2 DEF Placed, hosts
  <1>3. CASE DeployBegins \/ \E deleteVolumes \in BOOLEAN : DestroyBegins(deleteVolumes)
    <2>1. UNCHANGED <<servers, volumes, hosts>>
      BY <1>3 DEF DeployBegins, DestroyBegins, Begin, cloud
    <2>2. /\ UNCHANGED <<provider, borrowed, network, outcome, mishaps, halfway>>
          /\ failed' = FALSE /\ blind' = FALSE
          /\ edits' = edits \/ (edits < MaxEdits /\ edits' = edits + 1)
      BY <1>3 DEF DeployBegins, DestroyBegins, Begin, inputs, cloud
    <2>3. edits' \in 0..MaxEdits
      BY <1>0, <2>2 DEF Counted
    <2>4. Counted'
      BY <2>2, <2>3 DEF Counted
    <2>. QED
      BY <1>2, <2>1, <2>4
  <1>4. CASE Expand \/ PassMark
    <2>1. /\ UNCHANGED <<servers, volumes, hosts>>
          /\ UNCHANGED <<provider, borrowed, network, failed, blind, outcome, edits, mishaps, halfway>>
      BY <1>4 DEF Expand, PassMark, CallReturns, inputs, cloud, tally
    <2>2. Counted'
      BY <1>0, <2>1 DEF Counted
    <2>. QED
      BY <1>2, <2>1, <2>2
  <1>5. CASE ListingFails
    <2>1. /\ UNCHANGED <<servers, volumes, hosts>>
          /\ UNCHANGED <<provider, borrowed, network, failed, outcome, edits, halfway>>
          /\ blind' = TRUE /\ mishaps < MaxMishaps /\ mishaps' = mishaps + 1
      BY <1>5 DEF ListingFails, CallReturns, inputs, cloud
    <2>2. Counted'
      BY <1>0, <2>1 DEF Counted
    <2>. QED
      BY <1>2, <2>1, <2>2
  <1>6. CASE CallIsRefused
    <2>1. /\ UNCHANGED <<servers, volumes, hosts>> /\ Raise
          /\ UNCHANGED <<provider, borrowed, network, blind, edits, mishaps, halfway>>
      BY <1>6 DEF CallIsRefused, inputs, cloud, tally
    <2>2. Counted'
      BY <2>1, RaiseCounted DEF Counted
    <2>. QED
      BY <1>2, <2>1, <2>2
  <1>7. CASE CallFails
    <2>1. /\ UNCHANGED <<servers, volumes, hosts>> /\ Raise
          /\ UNCHANGED <<provider, borrowed, network, blind, edits>>
          /\ mishaps < MaxMishaps /\ mishaps' = mishaps + 1 /\ halfway' = halfway \cup CutShort
      BY <1>7 DEF CallFails, inputs, cloud
    <2>2. Counted'
      BY <1>0, <2>1, RaiseCounted, CutShortTyped DEF Counted
    <2>. QED
      BY <1>2, <2>1, <2>2
  <1>8. CASE CommandStops
    <2>1. /\ UNCHANGED <<servers, volumes, hosts>> /\ outcome' = "failed"
          /\ UNCHANGED <<provider, borrowed, network, failed, blind, edits>>
          /\ mishaps < MaxMishaps /\ mishaps' = mishaps + 1 /\ halfway' = halfway \cup CutShort
      BY <1>8 DEF CommandStops, inputs, cloud
    <2>2. Counted'
      BY <1>0, <2>1, CutShortTyped DEF Counted
    <2>. QED
      BY <1>2, <2>1, <2>2
  <1>9. CASE Finish
    <2>1. /\ UNCHANGED <<servers, volumes, hosts>>
          /\ UNCHANGED <<provider, borrowed, network, failed, blind, edits, mishaps, halfway>>
          /\ outcome' = IF failed THEN "failed" ELSE Thing
      BY <1>9 DEF Finish, inputs, cloud, tally
    <2>2. Thing \in {"unchanged", "deployed", "destroyed"}
      BY <1>9, ThisTyped DEF Finish, Doing, Op
    <2>3. Counted'
      BY <2>1, <2>2 DEF Counted
    <2>. QED
      BY <1>2, <2>1, <2>3
  <1>10. CASE \E c \in Configs : Edit(c)
    <2>1. /\ UNCHANGED <<servers, volumes, hosts>> /\ outcome' = "none"
          /\ UNCHANGED <<provider, borrowed, network, failed, blind, mishaps, halfway>>
          /\ edits < MaxEdits /\ edits' = edits + 1
      BY <1>10 DEF Edit, cloud
    <2>2. Counted'
      BY <1>0, <2>1 DEF Counted
    <2>. QED
      BY <1>2, <2>1, <2>2
  <1>11. ASSUME NEW v \in DOMAIN volumes, PodWrites(v)
         PROVE  Placed' /\ Counted'
    <2>1. /\ UNCHANGED <<servers, hosts>> /\ volumes' = [volumes EXCEPT ![v].disk = "data"]
          /\ UNCHANGED <<provider, borrowed, network, failed, blind, outcome, edits, mishaps, halfway>>
      BY <1>11 DEF PodWrites, inputs, control, tally
    <2>2. ASSUME NEW u \in DOMAIN volumes'
          PROVE  volumes'[u].at \in DOMAIN servers' \cup {"none"}
      <3>1. /\ u \in DOMAIN volumes /\ volumes[u].at \in DOMAIN servers \cup {"none"}
            /\ volumes[u] \in [at : Servers \cup {"none"}, disk : {"blank", "empty", "data"}]
        BY <2>1, <2>2 DEF Placed, Inv, Live
      <3>. QED
        BY <2>1, <3>1
    <2>3. Placed'
      BY <2>1, <2>2 DEF Placed, hosts
    <2>4. Counted'
      BY <1>0, <2>1 DEF Counted
    <2>. QED
      BY <2>3, <2>4
  <1>12. CASE OperatorCreatesFirewall \/ UNCHANGED vars
    <2>1. /\ UNCHANGED <<servers, volumes, hosts>>
          /\ UNCHANGED <<provider, borrowed, network, failed, blind, outcome, edits, mishaps, halfway>>
      BY <1>12 DEF OperatorCreatesFirewall, vars, inputs, control, cloud, tally
    <2>2. Counted'
      BY <1>0, <2>1 DEF Counted
    <2>. QED
      BY <1>2, <2>1, <2>2
  <1>. QED
    BY <1>1, <1>3, <1>4, <1>5, <1>6, <1>7, <1>8, <1>9, <1>10, <1>11, <1>12 DEF Next, CommandGoesOn

LEMMA InitTyped == Init => Supplied /\ Placed /\ Counted
  <1>. SUFFICES ASSUME Init PROVE Supplied /\ Placed /\ Counted
    OBVIOUS
  <1>1. Supplied
    <2>1. todo = <<>> /\ <<>> \in Seq(Alone)
      BY DEF Init
    <2>2. Provided(todo, DOMAIN servers) /\ Sorted(todo)
      BY <2>1, AloneSupplied
    <2>. QED
      BY <2>2 DEF Supplied
  <1>2. 0 \in 0..MaxEdits /\ 0 \in 0..MaxMishaps
    BY BoundsAssumption
  <1>3. CASE Nothing
    <2>1. DOMAIN servers = {} /\ DOMAIN volumes = {} /\ network = {}
      BY <1>3 DEF Nothing
    <2>2. Placed
      BY <1>3, <2>1 DEF Nothing, Placed
    <2>3. Counted
      BY <1>2, <2>1 DEF Init, Counted
    <2>. QED
      BY <1>1, <2>2, <2>3
  <1>4. CASE Deployed(cfg)
    <2>1. cfg \in Configs /\ DOMAIN servers = DOMAIN cfg.role /\ DOMAIN volumes = DOMAIN cfg.volume
      BY <1>4 DEF Init, Deployed
    <2>2. /\ \A v \in DOMAIN cfg.volume : cfg.volume[v] \in DOMAIN cfg.role
          /\ DOMAIN cfg.volume \subseteq AllVolumes
      BY <2>1, CloudAssumption DEF AllVolumes
    <2>3. Placed
      <3>1. \A v \in DOMAIN volumes : volumes[v].at \in DOMAIN servers \cup {"none"}
        BY <1>4, <2>1, <2>2 DEF Deployed
      <3>2. mounted \cup fstab \subseteq (DOMAIN servers) \X AllVolumes
        BY <1>4, <2>1, <2>2 DEF Deployed
      <3>. QED
        BY <1>4, <2>1, <3>1, <3>2 DEF Deployed, Placed
    <2>4. Counted
      BY <1>2, <1>4 DEF Init, Deployed, Counted
    <2>. QED
      BY <1>1, <2>3, <2>4
  <1>. QED
    BY <1>1, <1>3, <1>4 DEF Init

(***************************************************************************)
(* Every variable keeps its type: an agent runs, a volume is attached and  *)
(* mounted only on a server that exists, because whatever installs,        *)
(* attaches or mounts has reached the server first, or just looked it up,  *)
(* and a deploy takes servers away only after all that is done.            *)
(***************************************************************************)
THEOREM InfraTyped ==
    ASSUME CachesApart
    PROVE  Spec => []TypeOK
  <1>1. Init => Inv /\ Supplied /\ Placed /\ Counted
    BY InitInv, InitTyped
  <1>2. Inv /\ [Next]_vars => Inv'
    BY StepKeeps
  <1>3. Inv /\ Supplied /\ [Next]_vars => Supplied'
    BY StepSupplied
  <1>4. Inv /\ Supplied /\ Placed /\ Counted /\ [Next]_vars => Placed' /\ Counted'
    BY StepTyped
  <1>5. Inv /\ Placed /\ Counted => TypeOK
    BY Types
  <1>. QED
    BY <1>1, <1>2, <1>3, <1>4, <1>5, PTL DEF Spec
=============================================================================
