------------------------------ MODULE Ingress ------------------------------
(***************************************************************************)
(* How requests reach the domains: through Caddy on the master, or through *)
(* a Cloudflare or ngrok tunnel.  A commit may switch between them; every  *)
(* deploy plans, then walks the steps of the mode it finds in the          *)
(* configuration, and may stop between any two of them.  All other parts   *)
(* of a deploy are one input here: what else its plan holds.               *)
(***************************************************************************)
EXTENDS Naturals, FiniteSets

CONSTANTS
    Domains,        \* domains a commit may declare
    MaxEdits,       \* bound: commits and teardowns
    MaxFaults,      \* bound: stops, restarts of Caddy, calls that only warn
    MaxTunnels      \* bound: tunnels created at Cloudflare

ASSUME IngressAssumption == MaxEdits \in Nat /\ MaxFaults \in Nat /\ MaxTunnels \in Nat

VARIABLES
    cfg,        \* providers.tunnel ("caddy" when unset) and domains:
    dns,        \* the record of each domain: none, an address, or a CNAME
    web,        \* the master's firewall lets 80 and 443 in
    caddy,      \* Caddy's Deployment, and the routes it has loaded
    tunnel,     \* at Cloudflare: number of the live tunnel (0: none), routes
    reserved,   \* at ngrok: reserved domains
    agents,     \* per tunnel provider: deployed, what it is told, what it runs
    run,        \* the deploy or teardown: step, path, domains left, warnings
    last,       \* how the latest run ended
    bounds,     \* edits, faults and tunnels left
    tracked     \* history: domains Caddy has had a route for, but for records
                \* a deploy cannot know: Caddy's pod is new, its answer was
                \* missed, Unroute only warned, or the record was written
                \* anew and no reload has followed

outside == <<web, caddy, tunnel, reserved, agents>>
ingress_vars == <<cfg, dns, outside, run, last, bounds, tracked>>

Tunnels == {"cloudflare", "ngrok"}
Configs == {c \in [mode: Tunnels \cup {"caddy"}, domains: SUBSET Domains] :
                c.mode # "caddy" => c.domains # {}}
Public == cfg.mode = "caddy" /\ cfg.domains # {}

\* A CNAME to Cloudflare names a tunnel by its number.
Record(kind, id) == [kind |-> kind, id |-> id]
Absent == Record("none", 0)
Address == Record("address", 0)
Cname == Record(cfg.mode, IF cfg.mode = "ngrok" THEN 0 ELSE tunnel.id)

\* ngrok's agent is told routes, cloudflared the number of its tunnel.
NoAgents == [t \in Tunnels |-> LET nothing == IF t = "ngrok" THEN {} ELSE 0
                               IN [deployed |-> FALSE, told |-> nothing, runs |-> nothing]]
NoCaddy == [deployed |-> FALSE, routes |-> {}]
NoTunnel == [id |-> 0, routes |-> {}]
Idle == [step |-> "idle", loud |-> FALSE, left |-> {}, outcome |-> "done"]

IngressInit ==
    /\ cfg \in Configs
    /\ dns = [d \in Domains |-> Absent]
    /\ web = FALSE /\ caddy = NoCaddy /\ tunnel = NoTunnel /\ reserved = {}
    /\ agents = NoAgents
    /\ run = Idle /\ last = "none"
    /\ bounds = [edits |-> MaxEdits, faults |-> MaxFaults, tunnels |-> MaxTunnels]
    /\ tracked = {}

Step(name) == run.step = name
GoTo(name, left) == run' = [run EXCEPT !.step = name, !.left = left]
Ends(how) == run' = Idle /\ last' = how
Fault == bounds.faults > 0 /\ bounds' = [bounds EXCEPT !.faults = @ - 1]

----------------------------------------------------------------------------
\* ComputePlan.  ListBindings lists addresses and no CNAMEs.
\* Mutant: CNAMEs are listed too.
ListedAny(d) == dns[d] # Absent

Listed(d) == dns[d] = Address

\* GetCaddyRoutes has no error to return: a pod that is not found or does
\* not answer has no routes.
RoutesRead == {caddy.routes} \cup (IF Public THEN {{}} ELSE {})

\* What is left to hold a deploy to when it has read these routes.
Missed(routes) == (caddy.routes \ cfg.domains) \ routes

\* Mutant: records to remove are not planned.
PlanNewDns(routes) == Public /\ \E d \in cfg.domains : ~ Listed(d)

PlanDns(routes) ==
    /\ Public
    /\ \E d \in Domains : \/ d \in cfg.domains /\ ~ Listed(d)
                          \/ d \in routes \ cfg.domains /\ Listed(d)

\* Mutant: only Caddy's presence is planned, not its routes.
PlanCaddyPresence(routes) == Public /\ ~ caddy.deployed

PlanCaddy(routes) == Public /\ (~ caddy.deployed \/ routes # cfg.domains)
PlanTunnel == cfg.mode \in Tunnels /\ \A t \in Tunnels : ~ agents[t].deployed
PlanFirewall == web # Public
InfraChanges(routes) == PlanDns(routes) \/ PlanTunnel \/ PlanFirewall

\* The plan of the records and the plan of the routes each read Caddy.
NoChanges ==
    /\ Step("idle")
    /\ \E forDns, forCaddy \in RoutesRead : ~ InfraChanges(forDns) /\ ~ PlanCaddy(forCaddy)
    /\ last' = "no changes"
    /\ UNCHANGED <<cfg, dns, outside, run, bounds, tracked>>

\* "other": what else the plan holds, an image to roll out or a server.
Begin(other) ==
    /\ Step("idle")
    /\ \E forDns, forCaddy \in RoutesRead :
        /\ InfraChanges(forDns) \/ PlanCaddy(forCaddy) \/ other # "none"
        /\ run' = [Idle EXCEPT !.step = "infra",
                               !.loud = InfraChanges(forDns) \/ other = "infra"]
        /\ tracked' = tracked \ Missed(forDns)
    /\ last' = "running"
    /\ UNCHANGED <<cfg, dns, outside, bounds>>

\* Bootstrap derives the firewall from the mode; Connect changes nothing.
Infra ==
    /\ Step("infra")
    /\ web' = IF run.loud THEN Public ELSE web
    /\ IF cfg.mode = "cloudflare" THEN GoTo("tunnel", {})
       ELSE IF cfg.mode = "ngrok" THEN GoTo("reserve", cfg.domains)
       ELSE IF cfg.domains = {} THEN GoTo("end", {})
       ELSE IF run.loud THEN GoTo("route", cfg.domains)
       ELSE GoTo("sweep agents", {})
    /\ UNCHANGED <<cfg, dns, caddy, tunnel, reserved, agents, last, bounds, tracked>>

----------------------------------------------------------------------------
\* Mutant: any record goes first, also one of the right type.
BlockedByAny(d, record) == dns[d] # Absent

\* RouteTo: a record of the other type blocks and goes first.
Blocked(d, record) ==
    dns[d] # Absent /\ (dns[d] = Address) # (record = Address)

Unblock(d, record) ==
    /\ Blocked(d, record)
    /\ dns' = [dns EXCEPT ![d] = Absent]
    /\ UNCHANGED <<cfg, outside, run, last, bounds, tracked>>

Write(d, record, next, left) ==
    /\ ~ Blocked(d, record)
    /\ dns' = [dns EXCEPT ![d] = record]
    /\ IF run.left = {d} THEN GoTo(next, left) ELSE GoTo(run.step, run.left \ {d})
    /\ tracked' = IF record = Address /\ d \in caddy.routes THEN tracked ELSE tracked \ {d}
    /\ UNCHANGED <<cfg, outside, last, bounds>>

\* RouteDomains: the declared domains, then those only Caddy still knows, as
\* far as it answers.
RouteDomain ==
    /\ Step("route")
    /\ \E d \in run.left :
        \/ Unblock(d, Address)
        \/ Write(d, Address, "orphans", {})

ReadOrphans ==
    /\ Step("orphans")
    /\ \E routes \in RoutesRead :
        /\ GoTo("unroute", routes \ cfg.domains)
        /\ tracked' = tracked \ Missed(routes)
    /\ UNCHANGED <<cfg, dns, outside, last, bounds>>

UnrouteOrphan ==
    /\ Step("unroute")
    /\ \E d \in run.left :
        /\ \/ dns' = [dns EXCEPT ![d] = Absent] /\ UNCHANGED <<bounds, tracked>>
           \/ Fault /\ tracked' = tracked \ {d} /\ UNCHANGED dns
        /\ GoTo("unroute", run.left \ {d})
    /\ UNCHANGED <<cfg, outside, last>>

OrphansUnrouted ==
    /\ Step("unroute") /\ run.left = {}
    /\ GoTo("sweep agents", {})
    /\ UNCHANGED <<cfg, dns, outside, last, bounds, tracked>>

\* Mutant: only the agents of one provider are swept.
SweepCloudflared ==
    /\ Step("sweep agents")
    /\ agents' = [agents EXCEPT !["cloudflare"] = NoAgents["cloudflare"]]
    /\ GoTo("ensure caddy", {})
    /\ UNCHANGED <<cfg, dns, web, caddy, tunnel, reserved, last, bounds, tracked>>

\* Ingress: what a tunnel left, Caddy, its routes.  A failed sweep is a warning.
SweepAgents ==
    /\ Step("sweep agents")
    /\ \/ /\ agents' = NoAgents
          /\ GoTo("ensure caddy", {}) /\ UNCHANGED bounds
       \/ /\ Fault /\ run' = [run EXCEPT !.step = "ensure caddy", !.outcome = "warned"]
          /\ UNCHANGED agents
    /\ UNCHANGED <<cfg, dns, web, caddy, tunnel, reserved, last, tracked>>

EnsureCaddy ==
    /\ Step("ensure caddy")
    /\ caddy' = [caddy EXCEPT !.deployed = TRUE]
    /\ GoTo("reload", {})
    /\ UNCHANGED <<cfg, dns, web, tunnel, reserved, agents, last, bounds, tracked>>

ReloadCaddyConfig ==
    /\ Step("reload")
    /\ caddy' = [caddy EXCEPT !.routes = cfg.domains]
    /\ tracked' = cfg.domains \cup {d \in tracked : dns[d] # Absent}
    /\ GoTo("end", {})
    /\ UNCHANGED <<cfg, dns, web, tunnel, reserved, agents, last, bounds>>

----------------------------------------------------------------------------
\* TunnelIngress: first the provider's side.
CreateTunnel ==
    /\ Step("tunnel") /\ tunnel.id = 0 /\ bounds.tunnels > 0
    /\ tunnel' = [id |-> MaxTunnels - bounds.tunnels + 1, routes |-> {}]
    /\ bounds' = [bounds EXCEPT !.tunnels = @ - 1]
    /\ UNCHANGED <<cfg, dns, web, caddy, reserved, agents, run, last, tracked>>

PushConfig ==
    /\ Step("tunnel") /\ tunnel.id # 0
    /\ tunnel' = [tunnel EXCEPT !.routes = cfg.domains]
    /\ GoTo("tell", {})
    /\ UNCHANGED <<cfg, dns, web, caddy, reserved, agents, last, bounds, tracked>>

EnsureDomain ==
    /\ Step("reserve")
    /\ \E d \in run.left :
        /\ reserved' = reserved \cup {d}
        /\ IF run.left = {d} THEN GoTo("tell", {}) ELSE GoTo("reserve", run.left \ {d})
    /\ UNCHANGED <<cfg, dns, web, caddy, tunnel, agents, last, bounds, tracked>>

\* Mutant: an agent that is deployed is not told anew.
ApplyTokenOnce ==
    /\ Step("tell")
    /\ agents' = IF agents[cfg.mode].deployed THEN agents
                 ELSE [agents EXCEPT ![cfg.mode].told =
                          IF cfg.mode = "ngrok" THEN cfg.domains ELSE tunnel.id]
    /\ GoTo("agents", {})
    /\ UNCHANGED <<cfg, dns, web, caddy, tunnel, reserved, last, bounds, tracked>>

\* The Secret or ConfigMap of the agents, then their Deployment: as the pods'
\* template names neither's content, pods that run already are left alone.
ApplyToken ==
    /\ Step("tell")
    /\ agents' = [agents EXCEPT ![cfg.mode].told =
                     IF cfg.mode = "ngrok" THEN cfg.domains ELSE tunnel.id]
    /\ GoTo("agents", {})
    /\ UNCHANGED <<cfg, dns, web, caddy, tunnel, reserved, last, bounds, tracked>>

StartAgents(t) == agents' = [agents EXCEPT ![t].deployed = TRUE, ![t].runs = agents[t].told]

ApplyAgents ==
    /\ Step("agents")
    /\ IF agents[cfg.mode].deployed THEN UNCHANGED agents ELSE StartAgents(cfg.mode)
    /\ GoTo("sweep caddy", {})
    /\ UNCHANGED <<cfg, dns, web, caddy, tunnel, reserved, last, bounds, tracked>>

SweepCaddy ==
    /\ Step("sweep caddy")
    /\ \/ /\ caddy' = NoCaddy /\ tracked' = {}
          /\ GoTo("cnames", cfg.domains) /\ UNCHANGED bounds
       \/ /\ Fault /\ run' = [run EXCEPT !.step = "cnames", !.left = cfg.domains,
                                         !.outcome = "warned"]
          /\ UNCHANGED <<caddy, tracked>>
    /\ UNCHANGED <<cfg, dns, web, tunnel, reserved, agents, last>>

RouteToTunnel ==
    /\ Step("cnames")
    /\ \E d \in run.left : Unblock(d, Cname) \/ Write(d, Cname, "end", {})

Done ==
    /\ Step("end")
    /\ Ends(run.outcome)
    /\ UNCHANGED <<cfg, dns, outside, bounds, tracked>>

----------------------------------------------------------------------------
\* Teardown collects its errors and goes on.
TeardownSteps == {"teardown", "destroy", "delete tunnel"}

TeardownBegins ==
    /\ Step("idle") /\ bounds.edits > 0
    /\ bounds' = [bounds EXCEPT !.edits = @ - 1]
    /\ GoTo("teardown", cfg.domains)
    /\ last' = "running"
    /\ UNCHANGED <<cfg, dns, outside, tracked>>

TeardownDns ==
    /\ Step("teardown")
    /\ \E d \in run.left :
        /\ \/ dns' = [dns EXCEPT ![d] = Absent] /\ UNCHANGED bounds
           \/ Fault /\ UNCHANGED dns
        /\ GoTo("teardown", run.left \ {d})
    /\ UNCHANGED <<cfg, outside, last, tracked>>

TeardownInfra ==
    /\ Step("teardown") /\ run.left = {}
    /\ \/ /\ web' = FALSE /\ caddy' = NoCaddy /\ agents' = NoAgents /\ tracked' = {}
          /\ UNCHANGED bounds
       \/ Fault /\ UNCHANGED <<web, caddy, agents, tracked>>
    /\ GoTo("delete tunnel", {})
    /\ UNCHANGED <<cfg, dns, tunnel, reserved, last>>

TeardownTunnel ==
    /\ Step("delete tunnel")
    /\ \/ /\ tunnel' = IF cfg.mode = "cloudflare" THEN NoTunnel ELSE tunnel
          /\ reserved' = IF cfg.mode = "ngrok" THEN reserved \ cfg.domains ELSE reserved
          /\ UNCHANGED bounds
       \/ /\ Fault /\ UNCHANGED tunnel
          /\ \E gone \in IF cfg.mode = "ngrok" THEN SUBSET cfg.domains ELSE {{}} :
                reserved' = reserved \ gone
    /\ Ends("destroyed")
    /\ UNCHANGED <<cfg, dns, web, caddy, agents, tracked>>

----------------------------------------------------------------------------
\* Mutant: a run that stops leaves no trace.
StopSilently ==
    /\ ~ Step("idle") /\ Fault
    /\ run' = Idle
    /\ UNCHANGED <<cfg, dns, outside, last, tracked>>

\* Outside the program: a run that stops, pods that restart, a commit.
Stop ==
    /\ ~ Step("idle") /\ Fault
    /\ Ends("stopped")
    /\ UNCHANGED <<cfg, dns, outside, tracked>>

\* Routes live in Caddy's memory: a new pod boots with an empty seed.  The
\* probes at the end of a deploy warn of the domains this takes away.
RestartCaddy ==
    /\ caddy.deployed /\ caddy.routes # {} /\ Fault
    /\ caddy' = [caddy EXCEPT !.routes = {}] /\ tracked' = {}
    /\ run' = [run EXCEPT !.outcome = IF Step("end") THEN "dark" ELSE @]
    /\ last' = IF Step("idle") THEN "none" ELSE last
    /\ UNCHANGED <<cfg, dns, web, tunnel, reserved, agents>>

RestartAgents(t) ==
    /\ agents[t].deployed /\ agents[t].runs # agents[t].told
    /\ StartAgents(t)
    /\ UNCHANGED <<cfg, dns, web, caddy, tunnel, reserved, run, last, bounds, tracked>>

EditConfig ==
    /\ Step("idle") /\ bounds.edits > 0
    /\ bounds' = [bounds EXCEPT !.edits = @ - 1]
    /\ cfg' \in Configs \ {cfg}
    /\ last' = "none"
    /\ UNCHANGED <<dns, outside, run, tracked>>

DeployNext ==
    \/ NoChanges \/ Begin("none")
    \/ Infra \/ Done
    \/ RouteDomain \/ ReadOrphans \/ UnrouteOrphan \/ OrphansUnrouted
    \/ SweepAgents \/ EnsureCaddy \/ ReloadCaddyConfig
    \/ CreateTunnel \/ PushConfig \/ EnsureDomain \/ ApplyToken \/ ApplyAgents
    \/ SweepCaddy \/ RouteToTunnel
    \/ TeardownDns \/ TeardownInfra \/ TeardownTunnel

IngressNext ==
    \/ DeployNext \/ \E other \in {"workload", "infra"} : Begin(other)
    \/ TeardownBegins
    \/ Stop \/ EditConfig \/ RestartCaddy \/ \E t \in Tunnels : RestartAgents(t)

\* Somebody keeps deploying, whether or not anything else has changed, and a
\* run goes on until it ends or is stopped.
IngressSpec == IngressInit /\ [][IngressNext]_ingress_vars /\ WF_ingress_vars(DeployNext)

----------------------------------------------------------------------------
\* The variables keep their shapes; a live run stands at one of its steps.
CaddySteps == {"route", "orphans", "unroute", "sweep agents", "ensure caddy", "reload"}
TunnelSteps == {"tunnel", "reserve", "tell", "agents", "sweep caddy", "cnames"}

TypeOK ==
    /\ cfg \in Configs
    /\ dns \in [Domains -> [kind: {"none", "address", "cloudflare", "ngrok"},
                           id: 0..MaxTunnels]]
    /\ web \in BOOLEAN
    /\ caddy \in [deployed: BOOLEAN, routes: SUBSET Domains]
    /\ tunnel \in [id: 0..MaxTunnels, routes: SUBSET Domains]
    /\ reserved \in SUBSET Domains /\ tracked \in SUBSET Domains
    /\ DOMAIN agents = Tunnels
    /\ agents["cloudflare"] \in [deployed: BOOLEAN, told: 0..MaxTunnels, runs: 0..MaxTunnels]
    /\ agents["ngrok"] \in [deployed: BOOLEAN, told: SUBSET Domains, runs: SUBSET Domains]
    /\ run \in [step: {"idle", "infra", "end"} \cup CaddySteps \cup TunnelSteps \cup TeardownSteps,
                loud: BOOLEAN, left: SUBSET Domains, outcome: {"done", "warned", "dark"}]
    /\ last \in {"none", "running", "no changes", "done", "warned", "dark", "stopped",
                "destroyed"}
    /\ bounds \in [edits: 0..MaxEdits, faults: 0..MaxFaults, tunnels: 0..MaxTunnels]
    /\ Step("idle") <=> last # "running"

\* A request for d finds its way, but for agents that still run what they were
\* told before.
Wired(d) ==
    \/ /\ cfg.mode = "caddy"
       /\ web /\ dns[d] = Address /\ caddy.deployed /\ d \in caddy.routes
    \/ /\ cfg.mode = "cloudflare" /\ agents["cloudflare"].deployed
       /\ tunnel.id # 0 /\ d \in tunnel.routes /\ dns[d] = Cname
       /\ agents["cloudflare"].told = tunnel.id
    \/ /\ cfg.mode = "ngrok" /\ agents["ngrok"].deployed
       /\ d \in reserved /\ dns[d] = Cname /\ d \in agents["ngrok"].told

Serves(d) ==
    /\ Wired(d)
    /\ cfg.mode = "cloudflare" => agents["cloudflare"].runs = tunnel.id
    /\ cfg.mode = "ngrok" => d \in agents["ngrok"].runs

(***************************************************************************)
(* reconcile.go:254: a deploy that ends without an error has every domain  *)
(* served in the mode of its configuration, whatever mode, stopped runs    *)
(* and failed sweeps came before, on the loud and on the quiet path.       *)
(***************************************************************************)
WiredWhenDone ==
    last \in {"done", "warned"} => \A d \in cfg.domains : Wired(d)

(***************************************************************************)
(* reconcile.go:141: in Caddy mode "No changes." means that every domain   *)
(* is served: the plan misses nothing a stopped switch left undone.        *)
(***************************************************************************)
NoChangesIsServed ==
    last = "no changes" /\ cfg.mode = "caddy" => \A d \in cfg.domains : Serves(d)

(***************************************************************************)
(* ingress.go:48, 193: after a deploy whose sweeps succeeded one way in is *)
(* left: no tunnel agent beside Caddy, no Caddy beside a tunnel.           *)
(***************************************************************************)
OneIngress ==
    last = "done" /\ cfg.domains # {} =>
        IF cfg.mode = "caddy" THEN \A t \in Tunnels : ~ agents[t].deployed
        ELSE ~ caddy.deployed

(***************************************************************************)
(* ingress.go:14, 142: as every step is idempotent, no step of a deploy,   *)
(* and no stop between two of them, takes away a domain that its           *)
(* configuration already has served.                                       *)
(***************************************************************************)
RedeployKeepsServing ==
    [][\A d \in cfg.domains :
          Serves(d) /\ cfg' = cfg /\ run.step \notin TeardownSteps /\ ~ RestartCaddy
              => Serves(d)']_ingress_vars

(***************************************************************************)
(* reconcile.go:410: only Caddy's routes tell which records are ours, and  *)
(* the reload forgets them; still, whatever runs stop in between, a record *)
(* whose route was loaded, and that no deploy missed, does not outlive the *)
(* removal of its domain.                                                  *)
(***************************************************************************)
OrphansRemoved ==
    Public /\ last \in {"no changes", "done", "warned"} =>
        \A d \in tracked \ cfg.domains : dns[d] = Absent

(***************************************************************************)
(* plan.go:199-229: once the configuration stays in Caddy mode, deploys    *)
(* that are repeated get every domain served and keep it so, though a pod  *)
(* of Caddy that restarts has lost its routes.                             *)
(***************************************************************************)
CaddyReconverges ==
    <>[](cfg.mode = "caddy") => <>[](\A d \in cfg.domains : Serves(d))
============================================================================
