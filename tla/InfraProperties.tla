-------------------------- MODULE InfraProperties --------------------------
(***************************************************************************)
(* What deploys and destroys of the infrastructure promise.                *)
(***************************************************************************)
EXTENDS Infra

Firewalls == Roles

(***************************************************************************)
(* Types: what each variable may hold.                                     *)
(***************************************************************************)
TypeOK ==
    /\ provider \in {"hetzner", "aws", "scaleway"} /\ borrowed \in BOOLEAN
    /\ cfg \in Configs
    /\ DOMAIN servers \subseteq Servers
    /\ \A s \in DOMAIN servers :
          servers[s] \in [fw : Firewalls \cup {"none"}, role : Roles,
                          parts : SUBSET (Parts \cup {"docker"})]
    /\ DOMAIN firewalls \subseteq Firewalls
    /\ \A f \in DOMAIN firewalls : firewalls[f] \subseteq Rules
    /\ network \subseteq Networking
    /\ DOMAIN volumes \subseteq AllVolumes
    /\ \A v \in DOMAIN volumes :
          volumes[v] \in [at : DOMAIN servers \cup {"none"}, disk : {"blank", "empty", "data"}]
    /\ labels \subseteq nodes /\ nodes \subseteq agents /\ agents \subseteq DOMAIN servers
    /\ mounted \cup fstab \subseteq (DOMAIN servers) \X AllVolumes
    /\ cmd \in {"none", "deploy", "destroy", "destroy volumes"}
    /\ (cmd = "none") = (todo = <<>>)
    /\ failed \in BOOLEAN /\ blind \in BOOLEAN
    /\ outcome \in {"none", "unchanged", "deployed", "destroyed", "failed"}
    /\ edits \in 0..MaxEdits /\ mishaps \in 0..MaxMishaps /\ halfway \subseteq AllVolumes

(***************************************************************************)
(* A deploy that converged the infrastructure and returned without error   *)
(* has left, whatever failed or stopped before it:                         *)
(***************************************************************************)
JustDeployed == Idle /\ outcome = "deployed"

\* every declared server up, behind rules that let SSH in, joined to the
\* master's cluster and labelled; builders with docker;
ServersReady ==
    \A s \in Declared :
        /\ Reachable(s)
        /\ IF cfg.role[s] = "builder" THEN "docker" \in servers[s].parts
           ELSE s \in nodes \cap labels

\* each firewall with exactly its rules, and the master's only;
RulesReady ==
    \A f \in DesiredFirewalls : firewalls[f] = RulesOf(cfg, f)

\* each volume attached where it is declared, formatted and mounted, and
\* mounted again after a reboot unless a mishap came between the two;
VolumesReady ==
    \A v \in DOMAIN cfg.volume :
        /\ volumes[v].at = cfg.volume[v] /\ volumes[v].disk # "blank"
        /\ <<cfg.volume[v], v>> \in mounted
        /\ <<cfg.volume[v], v>> \in fstab \/ v \in halfway

\* and no server that is not declared, unless its listing failed.
NothingElse == blind \/ DOMAIN servers = Declared

ReadyWhenDeployed ==
    JustDeployed => ServersReady /\ RulesReady /\ VolumesReady /\ NothingElse

(***************************************************************************)
(* What an application wrote to a volume goes only with a volume that is   *)
(* no longer declared, or when the operator destroys volumes too: not when *)
(* servers are replaced, volumes move, or a mount is tried again.          *)
(***************************************************************************)
MayGo(v) ==
    \/ cmd = "deploy" /\ v \notin DesiredVolumes
    \/ cmd = "destroy volumes"

DataKept ==
    [][\A v \in Volumes :
          (v \in DOMAIN volumes /\ volumes[v].disk = "data")
             => MayGo(v) \/ (v \in DOMAIN volumes' /\ volumes'[v].disk = "data")]_vars

(***************************************************************************)
(* A destroy that reports no error has destroyed what nvoi.yaml declares:  *)
(* no such server is left; and the network is gone with the last server.   *)
(* This holds of a destroy that took no failed listing for an absence: of  *)
(* a server, of a volume, or of AWS's VPC (findVPCByName in DeleteNetwork).*)
(***************************************************************************)
DestroyIsThorough ==
    (Idle /\ outcome = "destroyed" /\ ~ blind)
       => /\ DOMAIN servers \cap Declared = {}
          /\ network = {}

(***************************************************************************)
(* Deployed again and again after the last edit, Hetzner's side ends with  *)
(* nothing left to change, whatever failed or stopped on the way: unless a *)
(* declared server outlived the network in a destroy, which no deploy puts *)
(* it back into (EnsureServer takes a server that exists as it is).        *)
(***************************************************************************)
Outcast == \E s \in DOMAIN servers : "nic" \notin servers[s].parts

Settles ==
    (provider = "hetzner" /\ borrowed /\ <>[](WithRole("builder") = {}))
       => <>[](Idle => Quiet) \/ <>[]Outcast
============================================================================
