------------------------------- MODULE Infra -------------------------------
(***************************************************************************)
(* Deploys and destroys of one application's infrastructure: what the      *)
(* three providers make of them, call by call, with calls that fail,       *)
(* commands that are stopped, and edits of nvoi.yaml in between.           *)
(***************************************************************************)
EXTENDS Cloud

CONSTANTS MaxEdits, MaxMishaps   \* bounds on operators, and on bad luck

ASSUME BoundsAssumption == {MaxEdits, MaxMishaps} \subseteq Nat

VARIABLES
    edits,      \* edits and destroys so far
    mishaps,    \* failed calls and stopped commands so far
    halfway,    \* volumes whose mounting a mishap cut short
    blind       \* the last command took a failed listing for an absence

tally == <<edits, mishaps, halfway, blind>>
vars == <<inputs, cloud, hosts, control, tally>>

H == INSTANCE Hetzner
A == INSTANCE Aws
S == INSTANCE Scaleway

Of(hetzner, aws, scaleway) ==
    CASE provider = "hetzner" -> hetzner
      [] provider = "aws" -> aws
      [] OTHER -> scaleway

LiveVolumes == Of(H!LiveVolumes, A!LiveVolumes, S!LiveVolumes)
Quiet == InfraPlanEmpty(LiveVolumes)

----------------------------------------------------------------------------
(* Commands.                                                               *)

Done(how) == <<Call("Done", how, "")>>

\* Builders come before the images, the images before the plan; the plan
\* attaches to read the cluster.
Deploy ==
    << Call("ProvisionBuilders", "", ""), Call("Connect", "", ""),
       Call("Plan", "", "") >>

\* The loud path converges and sweeps, the quiet one only attaches.
Apply ==
    IF Quiet THEN <<Call("Connect", "", "")>> \o Done("unchanged")
    ELSE <<Call("Bootstrap", "", ""), Call("TeardownOrphans", "", "")>> \o Done("deployed")

Idle == cmd = "none"

Begin(name, calls) ==
    /\ Idle
    /\ cmd' = name /\ todo' = calls
    /\ failed' = FALSE /\ blind' = FALSE
    /\ UNCHANGED <<inputs, cloud, hosts, outcome, mishaps, halfway>>

DeployBegins == Begin("deploy", Deploy) /\ UNCHANGED edits

\* Volumes survive unless the operator asks for them to go.
DestroyBegins(deleteVolumes) ==
    /\ edits < MaxEdits
    /\ Begin(IF deleteVolumes THEN "destroy volumes" ELSE "destroy",
             Of(H!Teardown(deleteVolumes), A!Teardown(deleteVolumes), S!Teardown(deleteVolumes))
             \o Done("destroyed"))
    /\ edits' = edits + 1

Finish ==
    /\ Doing("Done")
    /\ outcome' = IF failed THEN "failed" ELSE Thing
    /\ cmd' = "none" /\ todo' = <<>>
    /\ UNCHANGED <<inputs, cloud, hosts, failed, tally>>

----------------------------------------------------------------------------
(* Steps of a command.                                                     *)

Expansion(c) ==
    CASE Op(c) = "Plan" -> Apply
      [] Op(c) = "ProvisionBuilders" ->
            Of(H!ProvisionBuilders, A!ProvisionBuilders, S!ProvisionBuilders)
      [] Op(c) = "Bootstrap" -> Of(H!Bootstrap, A!Bootstrap, S!Bootstrap)
      [] Op(c) = "Connect" -> Of(H!Connect, A!Connect, S!Connect)
      [] Op(c) = "FindMaster" -> Of(H!FindMaster, A!FindMaster, S!FindMaster)
      [] Op(c) = "TeardownOrphans" -> Of(H!TeardownOrphans, A!TeardownOrphans, S!TeardownOrphans)
      [] Op(c) = "EnsureServer" ->
            Of(H!EnsureServer(c[2], c[3]), A!EnsureServer(c[2], c[3]), S!EnsureServer(c[2], c[3]))
      [] Op(c) = "EnsureVolume" ->
            Of(H!EnsureVolume(c[2], c[3]), A!EnsureVolume(c[2], c[3]), S!EnsureVolume(c[2], c[3]))
      [] Op(c) = "ReconcileRules" ->
            Of(H!ReconcileRules(c[2], c[3]), A!ReconcileRules(c[2], c[3]),
               S!ReconcileRules(c[2], c[3]))
      [] Op(c) = "RemoveServer" ->
            Of(H!DrainAndDeleteServer(c[2]), A!DrainAndDeleteServer(c[2]),
               S!DrainAndDeleteServer(c[2]))
      [] Op(c) = "RemoveVolume" ->
            Of(H!UnmountAndDeleteVolume(c[2]), A!UnmountAndDeleteVolume(c[2]),
               S!UnmountAndDeleteVolume(c[2]))
      [] Op(c) = "DeleteVolume" ->
            Of(H!DeleteVolume(c[2]), A!DeleteVolume(c[2]), S!DeleteVolume(c[2]))
      [] Op(c) = "SweepFirewalls" ->
            Of(H!SweepFirewalls(c[2]), A!SweepFirewalls(c[2]), S!SweepFirewalls(c[2]))
      [] Op(c) = "DeleteNetwork" -> Of(H!DeleteNetwork, A!DeleteNetwork, S!DeleteNetwork)
      [] Op(c) = "MountVolume" -> MountVolume(c[2], c[3])
      [] Op(c) = "UnmountVolume" -> UnmountVolume(c[2], c[3])

Compound ==
    { "Plan", "ProvisionBuilders", "Bootstrap", "Connect", "FindMaster", "TeardownOrphans",
      "EnsureServer", "EnsureVolume", "ReconcileRules", "RemoveServer", "RemoveVolume",
      "DeleteVolume", "SweepFirewalls", "DeleteNetwork", "MountVolume", "UnmountVolume" }
Closing == {"collect", "warn"}
Internal == Compound \cup Closing \cup {"try", "Done", "Fail"}

Expand ==
    /\ todo # <<>> /\ Op(ThisCall) \in Compound
    /\ todo' = Expansion(ThisCall) \o Tail(todo)
    /\ UNCHANGED <<inputs, cloud, hosts, cmd, failed, outcome, tally>>

PassMark ==
    /\ todo # <<>> /\ Op(ThisCall) \in Closing \cup {"try"}
    /\ CallReturns
    /\ UNCHANGED <<cloud, hosts, tally>>

\* The closing mark an error runs to, 0 if the command has to give up.
Handler ==
    LET Closed(i) == Cardinality({j \in 1..i : Op(todo[j]) \in Closing})
        Opened(i) == Cardinality({j \in 1..i : Op(todo[j]) = "try"})
        marks == {i \in 1..Len(todo) : Op(todo[i]) \in Closing /\ Closed(i) > Opened(i)}
    IN IF marks = {} THEN 0 ELSE CHOOSE i \in marks : \A j \in marks : i <= j

Raise ==
    IF Handler = 0
    THEN /\ todo' = <<>> /\ cmd' = "none" /\ outcome' = "failed"
         /\ UNCHANGED failed
    ELSE /\ todo' = SubSeq(todo, Handler + 1, Len(todo))
         /\ failed' = (failed \/ Op(todo[Handler]) = "collect")
         /\ UNCHANGED <<cmd, outcome>>

CallIsRefused ==
    /\ Refused /\ Raise
    /\ UNCHANGED <<inputs, cloud, hosts, tally>>

\* The volumes a command that ends here leaves mounted but not in fstab.
CutShort == IF Doing("WriteFstab") THEN {Thing} ELSE {}

CallFails ==
    /\ todo # <<>> /\ Op(ThisCall) \notin Internal
    /\ mishaps < MaxMishaps /\ mishaps' = mishaps + 1
    /\ Raise
    /\ halfway' = halfway \cup CutShort
    /\ UNCHANGED <<inputs, cloud, hosts, edits, blind>>

CommandStops ==
    /\ ~ Idle
    /\ mishaps < MaxMishaps /\ mishaps' = mishaps + 1
    /\ todo' = <<>> /\ cmd' = "none" /\ outcome' = "failed"
    /\ halfway' = halfway \cup CutShort
    /\ UNCHANGED <<inputs, cloud, hosts, failed, edits, blind>>

\* The calls that take an error of the listing that looks for their server,
\* volume or, at AWS, VPC for "already deleted".
TakesErrorForAbsence ==
    \/ Doing("RemoveServer") \/ Doing("RemoveVolume")
    \/ provider = "aws" /\ Doing("DeleteNetwork")

ListingFails ==
    /\ TakesErrorForAbsence
    /\ mishaps < MaxMishaps /\ mishaps' = mishaps + 1
    /\ blind' = TRUE
    /\ CallReturns
    /\ UNCHANGED <<cloud, hosts, edits, halfway>>

----------------------------------------------------------------------------
(* Around the commands.                                                    *)

Edit(c) ==
    /\ Idle /\ c # cfg /\ edits < MaxEdits
    /\ cfg' = c /\ outcome' = "none" /\ edits' = edits + 1
    /\ UNCHANGED <<provider, borrowed, cloud, hosts, todo, cmd, failed, mishaps, halfway, blind>>

PodWrites(v) ==
    /\ Idle /\ <<volumes[v].at, v>> \in mounted
    /\ volumes[v].disk = "empty"
    /\ volumes' = [volumes EXCEPT ![v].disk = "data"]
    /\ UNCHANGED <<inputs, servers, firewalls, network, hosts, control, tally>>

\* No command of nvoi creates the first builder's firewall: an operator does.
OperatorCreatesFirewall ==
    /\ Idle /\ WithRole("builder") # {} /\ "builder" \notin DOMAIN firewalls
    /\ firewalls' = [f \in DOMAIN firewalls \cup {"builder"} |->
                        IF f = "builder" THEN Base ELSE firewalls[f]]
    /\ UNCHANGED <<inputs, servers, network, volumes, hosts, control, tally>>

----------------------------------------------------------------------------
(* Specification.                                                          *)

\* A cluster as a deploy of c leaves it.
RulesOf(c, f) ==
    Base \cup (IF f # "master" THEN {}
               ELSE (IF ~ c.web THEN {} ELSE IF provider = "scaleway" THEN {"web4"} ELSE {"web"})
                    \cup (IF c.custom THEN {"custom"} ELSE {}))

Deployed(c) ==
    /\ servers = [s \in DOMAIN c.role |->
                     [fw |-> c.role[s], role |-> c.role[s], parts |-> Parts]]
    /\ firewalls = [f \in {c.role[s] : s \in DOMAIN c.role} |-> RulesOf(c, f)]
    /\ network = Networking
    /\ volumes = [v \in DOMAIN c.volume |-> [at |-> c.volume[v], disk |-> "empty"]]
    /\ agents = DOMAIN c.role /\ nodes = agents /\ labels = agents
    /\ mounted = {<<c.volume[v], v>> : v \in DOMAIN c.volume} /\ fstab = mounted

Nothing ==
    /\ servers = <<>> /\ firewalls = <<>> /\ network = {} /\ volumes = <<>>
    /\ agents = {} /\ nodes = {} /\ labels = {} /\ mounted = {} /\ fstab = {}

Init ==
    /\ provider \in {"hetzner", "aws", "scaleway"} /\ borrowed \in BOOLEAN
    /\ cfg \in Configs
    /\ \/ borrowed /\ Nothing
       \/ /\ \A s \in Declared : cfg.role[s] # "builder"
          /\ Deployed(cfg)
    /\ todo = <<>> /\ cmd = "none" /\ failed = FALSE /\ outcome = "none"
    /\ edits = 0 /\ mishaps = 0 /\ halfway = {} /\ blind = FALSE

Works == CallSucceeds /\ UNCHANGED tally

CommandGoesOn == Expand \/ PassMark \/ Works \/ CallIsRefused \/ Finish

Next ==
    \/ DeployBegins
    \/ \E deleteVolumes \in BOOLEAN : DestroyBegins(deleteVolumes)
    \/ CommandGoesOn
    \/ CallFails \/ CommandStops \/ ListingFails
    \/ \E c \in Configs : Edit(c)
    \/ \E v \in DOMAIN volumes : PodWrites(v)
    \/ OperatorCreatesFirewall

\* Commands run to their end, and somebody deploys again and again.
Fairness == WF_vars(CommandGoesOn) /\ WF_vars(DeployBegins)

Spec == Init /\ [][Next]_vars /\ Fairness
============================================================================
