------------------------------- MODULE Cloud -------------------------------
(***************************************************************************)
(* What an infrastructure provider keeps for one application, what nvoi    *)
(* keeps on its servers, and the calls that change both, one action each.  *)
(* A command is the sequence of calls it has still to make: the modules    *)
(* Hetzner, Aws and Scaleway say which calls their provider turns an       *)
(* operation into, and Infra runs them.                                    *)
(***************************************************************************)
EXTENDS Integers, FiniteSets, SequencesExt

CONSTANTS
    Servers,     \* short names of servers
    Volumes,     \* short names of volumes
    Configs,     \* what nvoi.yaml may declare
    Foreign      \* volumes of another environment whose name extends ours

Roles == {"master", "worker", "builder"}

\* A firewall goes by its role; a volume by its name, a builder's cache by
\* its builder.
Cache(s) == <<"cache", s>>
AllVolumes == Volumes \cup {Cache(s) : s \in Servers}

\* The rules of a firewall, and the parts a server, a network consist of.
\* "web" is 80/443 for IPv4 and IPv6, "web4" for IPv4 alone; "custom" stands
\* for what the firewall: block opens. Builders get docker last.
Base == {"ssh", "internal"}
Rules == Base \cup {"web", "web4", "custom"}
Parts == {"userdata", "nic", "power"}
Networking == {"vpc", "subnet", "route"}

\* role: the declared servers; volume: the declared volumes, each on its
\* server; web: domains without a tunnel; custom: a firewall: block.
ASSUME CloudAssumption ==
    /\ Foreign \subseteq Volumes
    /\ \A c \in Configs :
        /\ DOMAIN c.role \subseteq Servers
        /\ Cardinality({s \in DOMAIN c.role : c.role[s] = "master"}) = 1
        /\ \A s \in DOMAIN c.role : c.role[s] \in Roles
        /\ DOMAIN c.volume \subseteq Volumes \ Foreign
        /\ \A v \in DOMAIN c.volume : c.volume[v] \in DOMAIN c.role
        /\ {c.web, c.custom} \subseteq BOOLEAN

\* One call per server, per volume: there are not infinitely many.
ASSUME FiniteAssumption == IsFiniteSet(Servers) /\ IsFiniteSet(Volumes)

VARIABLES
    provider,   \* "hetzner", "aws" or "scaleway"
    borrowed,   \* the caller has a kube client: no command dials for one
    cfg,        \* nvoi.yaml
    servers,    \* live server |-> its firewall, role label, finished parts
    firewalls,  \* live firewall |-> its rules
    network,    \* the parts of the private network
    volumes,    \* live volume |-> where it is attached, what is on its disk
    agents,     \* servers on which k3s or its agent runs
    nodes,      \* nodes registered with the master there is
    labels,     \* nodes that carry their nvoi-role label
    mounted,    \* <<server, volume>>: mountpoint -q says so
    fstab,      \* <<server, volume>>: mounted again after a reboot
    todo,       \* the calls the running command has still to make
    cmd,        \* the running command
    failed,     \* an error it has collected
    outcome     \* how the last command ended, "none" once nvoi.yaml changed

inputs == <<provider, borrowed, cfg>>
cloud == <<servers, firewalls, network, volumes>>
hosts == <<agents, nodes, labels, mounted, fstab>>
control == <<todo, cmd, failed, outcome>>

----------------------------------------------------------------------------
(* Calls.                                                                  *)

Call(op, thing, arg) == <<op, thing, arg>>
Op(call) == call[1]

\* Each(S, F) is one sequence of calls per element of S, in turn.
Each(S, F(_)) ==
    LET q == SetToSeq(S) IN FlattenSeq([i \in DOMAIN q |-> F(q[i])])

Fail == <<Call("Fail", "", "")>>

\* Calls whose error the command collects, or only warns of, and goes on.
Collected(calls) == <<Call("try", "", "")>> \o calls \o <<Call("collect", "", "")>>
Warned(calls) == <<Call("try", "", "")>> \o calls \o <<Call("warn", "", "")>>

ThisCall == Head(todo)
Thing == ThisCall[2]
Arg == ThisCall[3]
Doing(op) == todo # <<>> /\ Op(ThisCall) = op
CallReturns == todo' = Tail(todo) /\ UNCHANGED <<inputs, cmd, failed, outcome>>

\* What the provider or a server answers with an error.
Unprotected(s) == servers[s].fw \notin DOMAIN firewalls

Reachable(s) ==
    /\ s \in DOMAIN servers
    /\ {"userdata", "power"} \subseteq servers[s].parts
    /\ provider = "aws" => "route" \in network
    /\ Unprotected(s) \/ "ssh" \in firewalls[servers[s].fw]

MasterLabelled == {s \in DOMAIN servers : servers[s].role = "master"}

\* The first server listed with the master label, if there is one.
Master == CHOOSE m \in Servers : MasterLabelled # {} => m \in MasterLabelled

Attached(v) == IF v \in DOMAIN volumes THEN volumes[v].at ELSE "none"
Holding(s) == {v \in DOMAIN volumes : volumes[v].at = s}

Refused ==
    \/ Doing("Fail")
    \/ Doing("Reach") /\ ~ Reachable(Thing)
    \/ Doing("PrivateIP") /\ "nic" \notin servers[Thing].parts
    \/ Doing("Join") /\ nodes \cap MasterLabelled = {}
    \/ (Doing("Join") \/ Doing("InstallMaster"))
          /\ Thing \notin agents /\ "nic" \notin servers[Thing].parts
    \/ Doing("Label") /\ Thing \notin nodes
    \/ Doing("DropFirewall") /\ \E s \in DOMAIN servers : servers[s].fw = Thing
    \/ Doing("DropNetwork") /\ provider # "hetzner" /\ DOMAIN servers # {}
    \/ Doing("DropNetwork") /\ provider = "aws" /\ DOMAIN firewalls # {}
    \/ Doing("Tunnel") /\ Thing \notin nodes
    \/ Doing("AttachVolume") /\ Arg # "none"
          /\ Attached(Thing) \notin {"none", Arg}
    \/ Doing("DropVolume") /\ Attached(Thing) # "none"

----------------------------------------------------------------------------
(* Firewalls and the network.                                              *)

CreateFirewall ==
    /\ Doing("CreateFirewall")
    /\ firewalls' = [f \in DOMAIN firewalls \cup {Thing} |->
                        IF f = Thing THEN Arg ELSE firewalls[f]]
    /\ CallReturns
    /\ UNCHANGED <<servers, network, volumes, hosts>>

SetRules(f, rules) ==
    /\ firewalls' = [firewalls EXCEPT ![f] = rules]
    /\ CallReturns
    /\ UNCHANGED <<servers, network, volumes, hosts>>

ReplaceRules == Doing("ReplaceRules") /\ SetRules(Thing, Arg)

AddRules ==
    Doing("AddRules") /\ SetRules(Thing, firewalls[Thing] \cup Arg)

RevokeRules ==
    Doing("RevokeRules") /\ SetRules(Thing, firewalls[Thing] \ Arg)

DropFirewall ==
    /\ Doing("DropFirewall") /\ ~ Refused
    /\ firewalls' = [f \in DOMAIN firewalls \ {Thing} |-> firewalls[f]]
    /\ CallReturns
    /\ UNCHANGED <<servers, network, volumes, hosts>>

CreateNetwork ==
    /\ Doing("CreateNetwork")
    /\ network' = network \cup Thing
    /\ CallReturns
    /\ UNCHANGED <<servers, firewalls, volumes, hosts>>

\* What AWS lets go of before the VPC, errors ignored.
StripNetwork ==
    /\ Doing("StripNetwork")
    /\ network' = IF DOMAIN servers = {} THEN network \cap {"vpc"} ELSE network
    /\ CallReturns
    /\ UNCHANGED <<servers, firewalls, volumes, hosts>>

\* Hetzner detaches what is still attached to it.
DropNetwork ==
    /\ Doing("DropNetwork") /\ ~ Refused
    /\ network' = {}
    /\ servers' = [s \in DOMAIN servers |-> [servers[s] EXCEPT !.parts = @ \ {"nic"}]]
    /\ CallReturns
    /\ UNCHANGED <<firewalls, volumes, hosts>>

----------------------------------------------------------------------------
(* Servers.                                                                *)

CreateServer(parts) ==
    /\ servers' = [s \in DOMAIN servers \cup {Thing} |->
                      IF s = Thing
                      THEN [fw |-> Arg, role |-> Arg, parts |-> parts]
                      ELSE servers[s]]
    /\ CallReturns
    /\ UNCHANGED <<firewalls, network, volumes, hosts>>

LaunchServer == Doing("LaunchServer") /\ CreateServer(Parts)
BareServer == Doing("BareServer") /\ CreateServer({})

ChangeServer(change) ==
    /\ servers' = [servers EXCEPT ![Thing] = change]
    /\ CallReturns
    /\ UNCHANGED <<firewalls, network, volumes, hosts>>

FinishPart ==
    /\ Doing("FinishPart")
    /\ LET s == servers[Thing]
       IN ChangeServer([s EXCEPT !.parts = @ \cup {Arg}])

\* Arg is the firewall, or "none" to leave the one it is behind.
Protect ==
    Doing("Protect") /\ ChangeServer([servers[Thing] EXCEPT !.fw = Arg])

\* With the master its cluster goes, whatever agents remain.
DestroyServer ==
    /\ Doing("DestroyServer")
    /\ servers' = [s \in DOMAIN servers \ {Thing} |-> servers[s]]
    /\ agents' = agents \ {Thing}
    /\ nodes' = IF Thing \in MasterLabelled THEN {} ELSE nodes \ {Thing}
    /\ labels' = labels \cap nodes'
    /\ mounted' = {p \in mounted : p[1] # Thing}
    /\ fstab' = {p \in fstab : p[1] # Thing}
    /\ volumes' = [v \in DOMAIN volumes |->
                      IF volumes[v].at = Thing THEN [volumes[v] EXCEPT !.at = "none"]
                      ELSE volumes[v]]
    /\ CallReturns
    /\ UNCHANGED <<firewalls, network>>

\* Dials, and looks that only have to succeed.
Reach ==
    /\ Doing("Reach") \/ Doing("PrivateIP") \/ Doing("Tunnel")
    /\ ~ Refused
    /\ CallReturns
    /\ UNCHANGED <<cloud, hosts>>

\* InstallK3sMaster and JoinK3sWorker skip a server where k3s runs already.
Join ==
    /\ Doing("Join") \/ Doing("InstallMaster")
    /\ ~ Refused
    /\ agents' = agents \cup {Thing}
    /\ nodes' = IF Thing \in agents THEN nodes ELSE nodes \cup {Thing}
    /\ CallReturns
    /\ UNCHANGED <<cloud, labels, mounted, fstab>>

\* Mutant: labelling a node does not need the node.
LabelAnyway ==
    /\ Doing("Label")
    /\ labels' = labels \cup {Thing}
    /\ CallReturns
    /\ UNCHANGED <<cloud, agents, nodes, mounted, fstab>>

Label ==
    /\ Doing("Label") /\ ~ Refused
    /\ labels' = labels \cup {Thing}
    /\ CallReturns
    /\ UNCHANGED <<cloud, agents, nodes, mounted, fstab>>

----------------------------------------------------------------------------
(* Volumes.                                                                *)

CreateVolume ==
    /\ Doing("CreateVolume")
    /\ volumes' = [v \in DOMAIN volumes \cup {Thing} |->
                      IF v = Thing THEN [at |-> "none", disk |-> Arg]
                      ELSE volumes[v]]
    /\ CallReturns
    /\ UNCHANGED <<servers, firewalls, network, hosts>>

ChangeVolume(change) ==
    /\ volumes' = [volumes EXCEPT ![Thing] = change]
    /\ CallReturns
    /\ UNCHANGED <<servers, firewalls, network, hosts>>

\* Arg is the server, or "none" to detach.
AttachVolume ==
    /\ Doing("AttachVolume") /\ ~ Refused
    /\ ChangeVolume([volumes[Thing] EXCEPT !.at = Arg])

Format == Doing("Format") /\ ChangeVolume([volumes[Thing] EXCEPT !.disk = "empty"])

DropVolume ==
    /\ Doing("DropVolume") /\ ~ Refused
    /\ volumes' = [v \in DOMAIN volumes \ {Thing} |-> volumes[v]]
    /\ CallReturns
    /\ UNCHANGED <<servers, firewalls, network, hosts>>

Mount ==
    /\ Doing("Mount")
    /\ mounted' = mounted \cup {<<Arg, Thing>>}
    /\ CallReturns
    /\ UNCHANGED <<cloud, agents, nodes, labels, fstab>>

WriteFstab ==
    /\ Doing("WriteFstab")
    /\ fstab' = fstab \cup {<<Arg, Thing>>}
    /\ CallReturns
    /\ UNCHANGED <<cloud, agents, nodes, labels, mounted>>

Unmount ==
    /\ Doing("Unmount")
    /\ mounted' = mounted \ {<<Arg, Thing>>}
    /\ CallReturns
    /\ UNCHANGED <<cloud, agents, nodes, labels, fstab>>

EraseFstab ==
    /\ Doing("EraseFstab")
    /\ fstab' = fstab \ {<<Arg, Thing>>}
    /\ CallReturns
    /\ UNCHANGED <<cloud, agents, nodes, labels, mounted>>

\* Mutant: whatever is mounted for the first time is formatted.
MountVolumeFormats(v, s) ==
    IF <<s, v>> \in mounted THEN <<>>
    ELSE <<Call("Format", v, ""), Call("Mount", v, s), Call("WriteFstab", v, s)>>

\* A blank volume is formatted; an fstab line is added with the mount.
MountVolume(v, s) ==
    IF <<s, v>> \in mounted THEN <<>>
    ELSE (IF volumes[v].disk = "blank" THEN <<Call("Format", v, "")>> ELSE <<>>)
         \o <<Call("Mount", v, s)>>
         \o (IF <<s, v>> \in fstab THEN <<>> ELSE <<Call("WriteFstab", v, s)>>)

UnmountVolume(v, s) ==
    IF <<s, v>> \notin mounted THEN <<>>
    ELSE <<Call("Unmount", v, s), Call("EraseFstab", v, s)>>

CallSucceeds ==
    \/ CreateFirewall \/ ReplaceRules \/ AddRules \/ RevokeRules \/ DropFirewall
    \/ CreateNetwork \/ StripNetwork \/ DropNetwork
    \/ LaunchServer \/ BareServer \/ FinishPart \/ Protect \/ DestroyServer
    \/ Reach \/ Join \/ Label
    \/ CreateVolume \/ AttachVolume \/ Format \/ DropVolume
    \/ Mount \/ WriteFstab \/ Unmount \/ EraseFstab

----------------------------------------------------------------------------
(* The configuration, and what a plan compares with it.                    *)

Declared == DOMAIN cfg.role
WithRole(r) == {s \in Declared : cfg.role[s] = r}

DesiredVolumes == DOMAIN cfg.volume \cup {Cache(s) : s \in WithRole("builder")}
DesiredFirewalls == {cfg.role[s] : s \in Declared}

\* What opens on a firewall: 80/443 for Caddy and the custom rules, on the
\* master's alone.
PublicRules(r) ==
    IF r # "master" THEN {}
    ELSE (IF cfg.web THEN {"web"} ELSE {}) \cup (IF cfg.custom THEN {"custom"} ELSE {})

DesiredRules(r) == Base \cup PublicRules(r)

\* Names and public rules are all a plan compares; ssh never counts.
InfraPlanEmpty(live) ==
    /\ DOMAIN servers = Declared
    /\ live = DesiredVolumes
    /\ DOMAIN firewalls = DesiredFirewalls
    /\ \A f \in DesiredFirewalls : firewalls[f] \ Base = PublicRules(f)
============================================================================
