---------------------------- MODULE IngressProof ----------------------------
(***************************************************************************)
(* The safety properties of Ingress, for any domains and any number of     *)
(* commits, faults and tunnels.  None of them is inductive: what a step    *)
(* may assume is what the earlier steps of its run have established, and   *)
(* a run may be the first after any number that stopped.  IInv says it,    *)
(* step by step.                                                           *)
(***************************************************************************)
EXTENDS Ingress, TLAPS

\* A deploy whose plan holds no change of the infrastructure.
Quiet == Step("infra") /\ ~ run.loud

AfterRoute == {"orphans", "unroute", "sweep agents", "ensure caddy", "reload", "end"}
AfterUnroute == AfterRoute \ {"orphans", "unroute"}
AfterSweep == {"ensure caddy", "reload", "end"}
AfterPush == {"tell", "agents", "sweep caddy", "cnames", "end"}
AfterTell == AfterPush \ {"tell"}
AfterAgents == AfterTell \ {"agents"}

ModeOfStep ==
    /\ run.step \in CaddySteps => Public
    /\ run.step \in TunnelSteps => cfg.mode \in Tunnels
    /\ Step("tunnel") => cfg.mode = "cloudflare"
    /\ Step("reserve") => cfg.mode = "ngrok"

WebOfStep ==
    Public /\ (run.step \in CaddySteps \cup {"end"} \/ Quiet) => web

DnsOfStep ==
    Public =>
        /\ Step("route") => \A d \in cfg.domains \ run.left : Listed(d)
        /\ Step("unroute") => run.left \cap cfg.domains = {}
        /\ run.step \in AfterRoute \/ Quiet => \A d \in cfg.domains : Listed(d)

CaddyOfStep ==
    Public =>
        /\ run.step \in {"reload", "end"} => caddy.deployed
        /\ Step("end") => caddy.routes = cfg.domains \/ run.outcome = "dark"

CloudflareOfStep ==
    cfg.mode = "cloudflare" =>
        /\ run.step \in AfterPush => tunnel.id # 0 /\ tunnel.routes = cfg.domains
        /\ run.step \in AfterTell => agents["cloudflare"].told = tunnel.id

NgrokOfStep ==
    cfg.mode = "ngrok" =>
        /\ Step("reserve") => cfg.domains \ run.left \subseteq reserved
        /\ run.step \in AfterPush => cfg.domains \subseteq reserved
        /\ run.step \in AfterTell => agents["ngrok"].told = cfg.domains

CnamesOfStep ==
    cfg.mode \in Tunnels =>
        /\ run.step \in AfterAgents => agents[cfg.mode].deployed
        /\ Step("cnames") => \A d \in cfg.domains \ run.left : dns[d] = Cname
        /\ Step("end") => \A d \in cfg.domains : dns[d] = Cname

OtherIngressGone ==
    run.outcome = "done" =>
        /\ Public /\ run.step \in AfterSweep => \A t \in Tunnels : ~ agents[t].deployed
        /\ cfg.mode \in Tunnels /\ run.step \in {"cnames", "end"} => ~ caddy.deployed

\* Of a record that is still there, Caddy has the route until it is removed.
TrackedIsRouted ==
    \A d \in tracked : dns[d] = Absent \/ (dns[d] = Address /\ d \in caddy.routes)

OrphansOfStep ==
    Public =>
        /\ Step("unroute") =>
              \A d \in tracked \ cfg.domains : d \in run.left \/ dns[d] = Absent
        /\ run.step \in AfterUnroute \/ Quiet =>
              \A d \in tracked \ cfg.domains : dns[d] = Absent

IInv ==
    /\ TypeOK /\ ModeOfStep /\ WebOfStep /\ DnsOfStep /\ CaddyOfStep
    /\ CloudflareOfStep /\ NgrokOfStep /\ CnamesOfStep
    /\ OtherIngressGone /\ TrackedIsRouted /\ OrphansOfStep
    /\ WiredWhenDone /\ NoChangesIsServed /\ OneIngress /\ OrphansRemoved
----------------------------------------------------------------------------
(***************************************************************************)
(* TypeOK: what every variable may hold, and that a run is at a step       *)
(* exactly while `last' says that it is running.                           *)
(***************************************************************************)
USE DEF Step

Steps == {"idle", "infra", "end"} \cup CaddySteps \cup TunnelSteps \cup TeardownSteps
Outcomes == {"done", "warned", "dark"}
Records == [kind: {"none", "address", "cloudflare", "ngrok"}, id: 0..MaxTunnels]

ConfigTypes == cfg \in Configs /\ web \in BOOLEAN
DnsTypes == dns \in [Domains -> Records]
CaddyTypes == caddy \in [deployed: BOOLEAN, routes: SUBSET Domains]
ProviderTypes ==
    /\ tunnel \in [id: 0..MaxTunnels, routes: SUBSET Domains]
    /\ reserved \in SUBSET Domains /\ tracked \in SUBSET Domains
AgentTypes ==
    /\ DOMAIN agents = Tunnels
    /\ agents["cloudflare"] \in [deployed: BOOLEAN, told: 0..MaxTunnels, runs: 0..MaxTunnels]
    /\ agents["ngrok"] \in [deployed: BOOLEAN, told: SUBSET Domains, runs: SUBSET Domains]
RunTypes == run \in [step: Steps, loud: BOOLEAN, left: SUBSET Domains, outcome: Outcomes]
LastTypes ==
    last \in {"none", "running", "no changes", "stopped", "destroyed"} \cup Outcomes
BoundTypes ==
    bounds \in [edits: 0..MaxEdits, faults: 0..MaxFaults, tunnels: 0..MaxTunnels]
LastOfStep == Step("idle") <=> last # "running"

Types ==
    /\ ConfigTypes /\ DnsTypes /\ CaddyTypes /\ ProviderTypes /\ AgentTypes
    /\ RunTypes /\ LastTypes /\ BoundTypes /\ LastOfStep

\* The type invariant in parts, so that a step cites the parts it disturbs.
LEMMA TypeParts == (TypeOK <=> Types) /\ (TypeOK' <=> Types')
  <1>. USE DEF TypeOK, Types, ConfigTypes, DnsTypes, CaddyTypes, ProviderTypes,
               AgentTypes, RunTypes, LastTypes, BoundTypes, LastOfStep,
               Steps, Outcomes, Records
  <1>1. TypeOK <=> Types
    OBVIOUS
  <1>2. TypeOK' <=> Types'
    OBVIOUS
  <1>. QED
    BY <1>1, <1>2

\* A CNAME in the configured mode is a record.
LEMMA CnameTypes ==
    ASSUME Types, cfg.mode \in Tunnels
    PROVE  Cname \in Records
  <1>1. tunnel.id \in 0..MaxTunnels
    BY DEF Types, ProviderTypes
  <1>. QED
    BY <1>1, IngressAssumption DEF Cname, Record, Records, Tunnels

\* What there is before the first deploy, and after a teardown, is well typed.
LEMMA EmptyTypes ==
    /\ DOMAIN NoAgents = Tunnels
    /\ NoAgents["cloudflare"] \in
          [deployed: BOOLEAN, told: 0..MaxTunnels, runs: 0..MaxTunnels]
    /\ NoAgents["ngrok"] \in
          [deployed: BOOLEAN, told: SUBSET Domains, runs: SUBSET Domains]
    /\ NoCaddy \in [deployed: BOOLEAN, routes: SUBSET Domains]
    /\ NoTunnel \in [id: 0..MaxTunnels, routes: SUBSET Domains]
    /\ Absent \in Records /\ Address \in Records
  <1>1. 0 \in 0..MaxTunnels
    BY IngressAssumption
  <1>. QED
    BY <1>1 DEF NoAgents, NoCaddy, NoTunnel, Tunnels, Absent, Address, Record, Records

\* A fault is counted off its bound.
LEMMA FaultTypes == BoundTypes /\ Fault => BoundTypes'
  BY IngressAssumption DEF BoundTypes, Fault

\* Caddy answers with domains, or not at all.
LEMMA ReadAreDomains ==
    ASSUME Types, NEW routes \in RoutesRead
    PROVE  routes \in SUBSET Domains
  BY DEF Types, CaddyTypes, RoutesRead

\* Nothing has been deployed yet, and that is well typed.
LEMMA InitTypes == IngressInit => TypeOK
  <1>. SUFFICES ASSUME IngressInit
                PROVE  Types
    BY TypeParts
  <1>1. BoundTypes
    <2>1. MaxEdits \in 0..MaxEdits /\ MaxFaults \in 0..MaxFaults /\ MaxTunnels \in 0..MaxTunnels
      BY IngressAssumption
    <2>. QED
      BY <2>1 DEF IngressInit, BoundTypes
  <1>2. ConfigTypes /\ DnsTypes /\ CaddyTypes /\ ProviderTypes /\ AgentTypes
    BY EmptyTypes DEF IngressInit, ConfigTypes, DnsTypes, CaddyTypes, ProviderTypes, AgentTypes
  <1>3. RunTypes /\ LastTypes /\ LastOfStep
    BY DEF IngressInit, RunTypes, LastTypes, LastOfStep, Idle, Steps, Outcomes
  <1>. QED
    BY <1>1, <1>2, <1>3 DEF Types

\* Every step keeps the types.
LEMMA StepTypes == TypeOK /\ ModeOfStep /\ [IngressNext]_ingress_vars => TypeOK'
  <1>. SUFFICES ASSUME Types, ModeOfStep, [IngressNext]_ingress_vars
                PROVE  Types'
    BY TypeParts
  <1>. USE DEF Types
  <1>1. CASE NoChanges
    <2>1. (ConfigTypes /\ DnsTypes /\ CaddyTypes /\ ProviderTypes /\ AgentTypes /\
              BoundTypes)'
      BY <1>1 DEF NoChanges, outside, ConfigTypes, DnsTypes, CaddyTypes, ProviderTypes,
          AgentTypes, BoundTypes
    <2>2. (RunTypes /\ LastTypes /\ LastOfStep)'
      BY <1>1 DEF NoChanges, outside, RunTypes, LastTypes, LastOfStep, Steps, Outcomes
    <2>. QED
      BY <2>1, <2>2
  <1>2. ASSUME NEW other, Begin(other)
        PROVE  Types'
    <2>1. (ConfigTypes /\ DnsTypes /\ CaddyTypes /\ AgentTypes /\ BoundTypes)'
      BY <1>2 DEF Begin, outside, ConfigTypes, DnsTypes, CaddyTypes, AgentTypes, BoundTypes
    <2>2. ProviderTypes'
      <3>1. UNCHANGED <<tunnel, reserved>> /\ tracked' \subseteq tracked
        BY <1>2 DEF Begin, outside
      <3>. QED
        BY <3>1 DEF ProviderTypes
    <2>3. last' = "running"
          /\ \E loud \in BOOLEAN : run' = [Idle EXCEPT !.step = "infra", !.loud = loud]
      BY <1>2 DEF Begin, InfraChanges, PlanDns, PlanTunnel, PlanFirewall
    <2>4. (RunTypes /\ LastTypes /\ LastOfStep)'
      BY <2>3 DEF Idle, RunTypes, LastTypes, LastOfStep, Steps, Outcomes
    <2>. QED
      BY <2>1, <2>2, <2>3, <2>4
  <1>3. CASE Infra
    <2>1. (DnsTypes /\ CaddyTypes /\ ProviderTypes /\ AgentTypes /\ BoundTypes)'
      BY <1>3 DEF Infra, GoTo, CaddySteps, TunnelSteps, outside, DnsTypes, CaddyTypes,
          ProviderTypes, AgentTypes, BoundTypes
    <2>2. ConfigTypes'
      BY <1>3 DEF Infra, GoTo, CaddySteps, TunnelSteps, outside, ConfigTypes, Public
    <2>3. (RunTypes /\ LastTypes /\ LastOfStep)'
      BY <1>3 DEF Infra, GoTo, CaddySteps, TunnelSteps, outside, RunTypes, LastTypes,
          LastOfStep, Steps, Outcomes, ConfigTypes, Configs
    <2>. QED
      BY <2>1, <2>2, <2>3
  <1>4. CASE Done
    <2>1. (ConfigTypes /\ DnsTypes /\ CaddyTypes /\ ProviderTypes /\ AgentTypes /\
              BoundTypes)'
      BY <1>4 DEF Done, Ends, Idle, outside, ConfigTypes, DnsTypes, CaddyTypes,
          ProviderTypes, AgentTypes, BoundTypes
    <2>2. (RunTypes /\ LastTypes /\ LastOfStep)'
      BY <1>4 DEF Done, Ends, Idle, outside, RunTypes, LastTypes, LastOfStep, Steps,
          Outcomes
    <2>. QED
      BY <2>1, <2>2
  <1>5. CASE RouteDomain
    <2>1. (ConfigTypes /\ CaddyTypes /\ AgentTypes /\ BoundTypes)'
      BY <1>5 DEF RouteDomain, Unblock, Write, GoTo, CaddySteps, outside, ConfigTypes,
          CaddyTypes, AgentTypes, BoundTypes
    <2>2. UNCHANGED dns \/ \E d \in run.left, r \in {Absent, Address} : dns' = [dns
              EXCEPT ![d] = r]
      BY <1>5 DEF RouteDomain, Unblock, Write
    <2>3. DnsTypes'
      BY <2>2, EmptyTypes DEF DnsTypes
    <2>4. ProviderTypes'
      BY <1>5, IngressAssumption DEF RouteDomain, Unblock, Write, GoTo, CaddySteps,
          outside, ProviderTypes
    <2>5. UNCHANGED run \/ (\E left \in SUBSET run.left : GoTo(run.step, left)) \/
              GoTo("orphans", {})
      BY <1>5 DEF RouteDomain, Unblock, Write
    <2>6. last' = last /\ run.step # "idle"
      BY <1>5 DEF RouteDomain, Unblock, Write
    <2>7. (RunTypes /\ LastTypes /\ LastOfStep)'
      BY <2>5, <2>6 DEF GoTo, CaddySteps, CaddyTypes, RunTypes, LastTypes, LastOfStep,
          Steps, Outcomes
    <2>. QED
      BY <2>1, <2>2, <2>3, <2>4, <2>5, <2>6, <2>7
  <1>6. CASE UnrouteOrphan
    <2>1. (ConfigTypes /\ CaddyTypes /\ AgentTypes)'
      BY <1>6 DEF UnrouteOrphan, Fault, GoTo, CaddySteps, outside, ConfigTypes,
          CaddyTypes, AgentTypes
    <2>2. UNCHANGED dns \/ \E d \in run.left, r \in {Absent} : dns' = [dns EXCEPT ![d] =
              r]
      BY <1>6 DEF UnrouteOrphan
    <2>3. DnsTypes'
      BY <2>2, EmptyTypes DEF DnsTypes
    <2>4. ProviderTypes'
      BY <1>6, IngressAssumption DEF UnrouteOrphan, Fault, GoTo, CaddySteps, outside,
          ProviderTypes
    <2>5. Fault \/ UNCHANGED bounds
      BY <1>6 DEF UnrouteOrphan
    <2>6. BoundTypes'
      BY <2>5, FaultTypes DEF BoundTypes
    <2>7. (RunTypes /\ LastTypes /\ LastOfStep)'
      BY <1>6 DEF UnrouteOrphan, Fault, GoTo, CaddySteps, outside, RunTypes, LastTypes,
          LastOfStep, Steps, Outcomes
    <2>. QED
      BY <2>1, <2>2, <2>3, <2>4, <2>5, <2>6, <2>7
  <1>7. CASE OrphansUnrouted
    <2>1. (ConfigTypes /\ DnsTypes /\ CaddyTypes /\ ProviderTypes /\ AgentTypes /\
              BoundTypes)'
      BY <1>7 DEF OrphansUnrouted, GoTo, CaddySteps, outside, ConfigTypes, DnsTypes,
          CaddyTypes, ProviderTypes, AgentTypes, BoundTypes
    <2>2. (RunTypes /\ LastTypes /\ LastOfStep)'
      BY <1>7 DEF OrphansUnrouted, GoTo, CaddySteps, outside, RunTypes, LastTypes,
          LastOfStep, Steps, Outcomes
    <2>. QED
      BY <2>1, <2>2
  <1>8. CASE SweepAgents
    <2>1. (ConfigTypes /\ DnsTypes /\ CaddyTypes /\ ProviderTypes)'
      BY <1>8 DEF SweepAgents, Fault, GoTo, CaddySteps, outside, ConfigTypes, DnsTypes,
          CaddyTypes, ProviderTypes
    <2>2. agents' \in {agents, NoAgents}
      BY <1>8 DEF SweepAgents, outside
    <2>3. AgentTypes'
      BY <2>2, EmptyTypes DEF AgentTypes
    <2>4. Fault \/ UNCHANGED bounds
      BY <1>8 DEF SweepAgents
    <2>5. BoundTypes'
      BY <2>4, FaultTypes DEF BoundTypes
    <2>6. (RunTypes /\ LastTypes /\ LastOfStep)'
      BY <1>8 DEF SweepAgents, Fault, GoTo, CaddySteps, outside, RunTypes, LastTypes,
          LastOfStep, Steps, Outcomes
    <2>. QED
      BY <2>1, <2>2, <2>3, <2>4, <2>5, <2>6
  <1>9. CASE EnsureCaddy
    <2>1. (ConfigTypes /\ DnsTypes /\ ProviderTypes /\ AgentTypes /\ BoundTypes)'
      BY <1>9 DEF EnsureCaddy, GoTo, CaddySteps, outside, ConfigTypes, DnsTypes,
          ProviderTypes, AgentTypes, BoundTypes
    <2>2. CaddyTypes'
      BY <1>9 DEF EnsureCaddy, GoTo, CaddySteps, outside, CaddyTypes
    <2>3. (RunTypes /\ LastTypes /\ LastOfStep)'
      BY <1>9 DEF EnsureCaddy, GoTo, CaddySteps, outside, RunTypes, LastTypes,
          LastOfStep, Steps, Outcomes
    <2>. QED
      BY <2>1, <2>2, <2>3
  <1>10. CASE ReloadCaddyConfig
    <2>1. (ConfigTypes /\ DnsTypes /\ AgentTypes /\ BoundTypes)'
      BY <1>10 DEF ReloadCaddyConfig, GoTo, outside, ConfigTypes, DnsTypes, AgentTypes,
          BoundTypes
    <2>2. CaddyTypes'
      BY <1>10 DEF ReloadCaddyConfig, GoTo, outside, CaddyTypes, ConfigTypes, Configs
    <2>3. ProviderTypes'
      BY <1>10, IngressAssumption DEF ReloadCaddyConfig, GoTo, outside, ProviderTypes,
          ConfigTypes, Configs
    <2>4. (RunTypes /\ LastTypes /\ LastOfStep)'
      BY <1>10 DEF ReloadCaddyConfig, GoTo, outside, RunTypes, LastTypes, LastOfStep,
          Steps, Outcomes
    <2>. QED
      BY <2>1, <2>2, <2>3, <2>4
  <1>11. CASE CreateTunnel
    <2>1. (ConfigTypes /\ DnsTypes /\ CaddyTypes /\ AgentTypes)'
      BY <1>11 DEF CreateTunnel, outside, ConfigTypes, DnsTypes, CaddyTypes, AgentTypes
    <2>2. ProviderTypes'
      BY <1>11, IngressAssumption DEF CreateTunnel, outside, ProviderTypes, BoundTypes
    <2>3. BoundTypes'
      BY <1>11, IngressAssumption DEF CreateTunnel, outside, BoundTypes
    <2>4. (RunTypes /\ LastTypes /\ LastOfStep)'
      BY <1>11 DEF CreateTunnel, outside, RunTypes, LastTypes, LastOfStep, Steps,
          Outcomes
    <2>. QED
      BY <2>1, <2>2, <2>3, <2>4
  <1>12. CASE PushConfig
    <2>1. (ConfigTypes /\ DnsTypes /\ CaddyTypes /\ AgentTypes /\ BoundTypes)'
      BY <1>12 DEF PushConfig, GoTo, TunnelSteps, outside, ConfigTypes, DnsTypes,
          CaddyTypes, AgentTypes, BoundTypes
    <2>2. ProviderTypes'
      BY <1>12, IngressAssumption DEF PushConfig, GoTo, TunnelSteps, outside,
          ProviderTypes, ConfigTypes, Configs
    <2>3. (RunTypes /\ LastTypes /\ LastOfStep)'
      BY <1>12 DEF PushConfig, GoTo, TunnelSteps, outside, RunTypes, LastTypes,
          LastOfStep, Steps, Outcomes
    <2>. QED
      BY <2>1, <2>2, <2>3
  <1>13. CASE EnsureDomain
    <2>1. (ConfigTypes /\ DnsTypes /\ CaddyTypes /\ AgentTypes /\ BoundTypes)'
      BY <1>13 DEF EnsureDomain, GoTo, TunnelSteps, outside, ConfigTypes, DnsTypes,
          CaddyTypes, AgentTypes, BoundTypes
    <2>2. ProviderTypes'
      BY <1>13, IngressAssumption DEF EnsureDomain, GoTo, TunnelSteps, outside,
          ProviderTypes, RunTypes
    <2>3. (RunTypes /\ LastTypes /\ LastOfStep)'
      BY <1>13 DEF EnsureDomain, GoTo, TunnelSteps, outside, RunTypes, LastTypes,
          LastOfStep, Steps, Outcomes
    <2>. QED
      BY <2>1, <2>2, <2>3
  <1>14. CASE ApplyToken
    <2>1. (ConfigTypes /\ DnsTypes /\ CaddyTypes /\ ProviderTypes /\ BoundTypes)'
      BY <1>14 DEF ApplyToken, GoTo, TunnelSteps, outside, ConfigTypes, DnsTypes,
          CaddyTypes, ProviderTypes, BoundTypes
    <2>2. AgentTypes'
      BY <1>14, IngressAssumption DEF ApplyToken, GoTo, TunnelSteps, outside,
          AgentTypes, ModeOfStep, Tunnels, ConfigTypes, Configs, ProviderTypes
    <2>3. (RunTypes /\ LastTypes /\ LastOfStep)'
      BY <1>14 DEF ApplyToken, GoTo, TunnelSteps, outside, RunTypes, LastTypes,
          LastOfStep, Steps, Outcomes
    <2>. QED
      BY <2>1, <2>2, <2>3
  <1>15. CASE ApplyAgents
    <2>1. (ConfigTypes /\ DnsTypes /\ CaddyTypes /\ ProviderTypes /\ BoundTypes)'
      BY <1>15 DEF ApplyAgents, StartAgents, GoTo, TunnelSteps, outside, ConfigTypes,
          DnsTypes, CaddyTypes, ProviderTypes, BoundTypes
    <2>2. cfg.mode \in Tunnels /\ (UNCHANGED agents \/ StartAgents(cfg.mode))
      BY <1>15 DEF ApplyAgents, ModeOfStep, TunnelSteps
    <2>3. ASSUME UNCHANGED agents PROVE AgentTypes'
      BY <2>3 DEF AgentTypes
    <2>4. ASSUME StartAgents("cloudflare") PROVE AgentTypes'
      BY <2>4 DEF AgentTypes, StartAgents, Tunnels
    <2>5. ASSUME StartAgents("ngrok") PROVE AgentTypes'
      BY <2>5 DEF AgentTypes, StartAgents, Tunnels
    <2>6. AgentTypes'
      BY <2>2, <2>3, <2>4, <2>5 DEF Tunnels
    <2>7. (RunTypes /\ LastTypes /\ LastOfStep)'
      BY <1>15 DEF ApplyAgents, StartAgents, GoTo, TunnelSteps, outside, RunTypes,
          LastTypes, LastOfStep, Steps, Outcomes
    <2>. QED
      BY <2>1, <2>2, <2>3, <2>4, <2>5, <2>6, <2>7
  <1>16. CASE SweepCaddy
    <2>1. (ConfigTypes /\ DnsTypes /\ AgentTypes)'
      BY <1>16 DEF SweepCaddy, Fault, GoTo, TunnelSteps, outside, ConfigTypes, DnsTypes,
          AgentTypes
    <2>2. caddy' \in {caddy, NoCaddy}
      BY <1>16 DEF SweepCaddy, outside
    <2>3. CaddyTypes'
      BY <2>2, EmptyTypes DEF CaddyTypes
    <2>4. ProviderTypes'
      BY <1>16, IngressAssumption DEF SweepCaddy, Fault, GoTo, TunnelSteps, outside,
          ProviderTypes
    <2>5. Fault \/ UNCHANGED bounds
      BY <1>16 DEF SweepCaddy
    <2>6. BoundTypes'
      BY <2>5, FaultTypes DEF BoundTypes
    <2>7. (RunTypes /\ LastTypes /\ LastOfStep)'
      BY <1>16 DEF SweepCaddy, Fault, GoTo, TunnelSteps, outside, RunTypes, LastTypes,
          LastOfStep, Steps, Outcomes, ConfigTypes, Configs
    <2>. QED
      BY <2>1, <2>2, <2>3, <2>4, <2>5, <2>6, <2>7
  <1>17. CASE RouteToTunnel
    <2>1. (ConfigTypes /\ CaddyTypes /\ AgentTypes /\ BoundTypes)'
      BY <1>17 DEF RouteToTunnel, Unblock, Write, GoTo, TunnelSteps, outside,
          ConfigTypes, CaddyTypes, AgentTypes, BoundTypes
    <2>2. UNCHANGED dns \/ \E d \in run.left, r \in {Absent, Cname} : dns' = [dns EXCEPT
              ![d] = r]
      BY <1>17 DEF RouteToTunnel, Unblock, Write
    <2>3. Cname \in Records
      BY <1>17, CnameTypes DEF RouteToTunnel, ModeOfStep, TunnelSteps
    <2>4. DnsTypes'
      BY <2>2, <2>3, EmptyTypes DEF DnsTypes
    <2>5. ProviderTypes'
      BY <1>17, IngressAssumption DEF RouteToTunnel, Unblock, Write, GoTo, TunnelSteps,
          outside, ProviderTypes
    <2>6. UNCHANGED run \/ (\E left \in SUBSET run.left : GoTo(run.step, left)) \/
              GoTo("end", {})
      BY <1>17 DEF RouteToTunnel, Unblock, Write
    <2>7. last' = last /\ run.step # "idle"
      BY <1>17 DEF RouteToTunnel, Unblock, Write
    <2>8. (RunTypes /\ LastTypes /\ LastOfStep)'
      BY <2>6, <2>7 DEF GoTo, CaddySteps, CaddyTypes, RunTypes, LastTypes, LastOfStep,
          Steps, Outcomes
    <2>. QED
      BY <2>1, <2>2, <2>3, <2>4, <2>5, <2>6, <2>7, <2>8
  <1>18. CASE TeardownBegins
    <2>1. (ConfigTypes /\ DnsTypes /\ CaddyTypes /\ ProviderTypes /\ AgentTypes)'
      BY <1>18 DEF TeardownBegins, GoTo, TeardownSteps, outside, ConfigTypes, DnsTypes,
          CaddyTypes, ProviderTypes, AgentTypes
    <2>2. BoundTypes'
      BY <1>18, IngressAssumption DEF TeardownBegins, GoTo, TeardownSteps, outside,
          BoundTypes
    <2>3. (RunTypes /\ LastTypes /\ LastOfStep)'
      BY <1>18 DEF TeardownBegins, GoTo, TeardownSteps, outside, RunTypes, LastTypes,
          LastOfStep, Steps, Outcomes, ConfigTypes, Configs
    <2>. QED
      BY <2>1, <2>2, <2>3
  <1>19. CASE TeardownDns
    <2>1. (ConfigTypes /\ CaddyTypes /\ ProviderTypes /\ AgentTypes)'
      BY <1>19 DEF TeardownDns, Fault, GoTo, TeardownSteps, outside, ConfigTypes,
          CaddyTypes, ProviderTypes, AgentTypes
    <2>2. UNCHANGED dns \/ \E d \in run.left, r \in {Absent} : dns' = [dns EXCEPT ![d] =
              r]
      BY <1>19 DEF TeardownDns
    <2>3. DnsTypes'
      BY <2>2, EmptyTypes DEF DnsTypes
    <2>4. Fault \/ UNCHANGED bounds
      BY <1>19 DEF TeardownDns
    <2>5. BoundTypes'
      BY <2>4, FaultTypes DEF BoundTypes
    <2>6. (RunTypes /\ LastTypes /\ LastOfStep)'
      BY <1>19 DEF TeardownDns, Fault, GoTo, TeardownSteps, outside, RunTypes,
          LastTypes, LastOfStep, Steps, Outcomes
    <2>. QED
      BY <2>1, <2>2, <2>3, <2>4, <2>5, <2>6
  <1>20. CASE TeardownInfra
    <2>1. (DnsTypes)'
      BY <1>20 DEF TeardownInfra, Fault, GoTo, TeardownSteps, outside, DnsTypes
    <2>2. ConfigTypes'
      BY <1>20 DEF TeardownInfra, Fault, GoTo, TeardownSteps, outside, ConfigTypes
    <2>3. caddy' \in {caddy, NoCaddy}
      BY <1>20 DEF TeardownInfra, outside
    <2>4. CaddyTypes'
      BY <2>3, EmptyTypes DEF CaddyTypes
    <2>5. agents' \in {agents, NoAgents}
      BY <1>20 DEF TeardownInfra, outside
    <2>6. AgentTypes'
      BY <2>5, EmptyTypes DEF AgentTypes
    <2>7. ProviderTypes'
      BY <1>20, IngressAssumption DEF TeardownInfra, Fault, GoTo, TeardownSteps,
          outside, ProviderTypes
    <2>8. Fault \/ UNCHANGED bounds
      BY <1>20 DEF TeardownInfra
    <2>9. BoundTypes'
      BY <2>8, FaultTypes DEF BoundTypes
    <2>10. (RunTypes /\ LastTypes /\ LastOfStep)'
      BY <1>20 DEF TeardownInfra, Fault, GoTo, TeardownSteps, outside, RunTypes,
          LastTypes, LastOfStep, Steps, Outcomes
    <2>. QED
      BY <2>1, <2>2, <2>3, <2>4, <2>5, <2>6, <2>7, <2>8, <2>9, <2>10
  <1>21. CASE TeardownTunnel
    <2>1. (ConfigTypes /\ DnsTypes /\ CaddyTypes /\ AgentTypes)'
      BY <1>21 DEF TeardownTunnel, Fault, Ends, Idle, outside, ConfigTypes, DnsTypes,
          CaddyTypes, AgentTypes
    <2>2. tunnel' \in {tunnel, NoTunnel} /\ reserved' \in SUBSET reserved /\ tracked' =
              tracked
      BY <1>21 DEF TeardownTunnel
    <2>3. ProviderTypes'
      BY <2>2, EmptyTypes DEF ProviderTypes
    <2>4. Fault \/ UNCHANGED bounds
      BY <1>21 DEF TeardownTunnel
    <2>5. BoundTypes'
      BY <2>4, FaultTypes DEF BoundTypes
    <2>6. (RunTypes /\ LastTypes /\ LastOfStep)'
      BY <1>21 DEF TeardownTunnel, Fault, Ends, Idle, outside, RunTypes, LastTypes,
          LastOfStep, Steps, Outcomes
    <2>. QED
      BY <2>1, <2>2, <2>3, <2>4, <2>5, <2>6
  <1>22. CASE Stop
    <2>1. (ConfigTypes /\ DnsTypes /\ CaddyTypes /\ ProviderTypes /\ AgentTypes)'
      BY <1>22 DEF Stop, Fault, Ends, Idle, outside, ConfigTypes, DnsTypes, CaddyTypes,
          ProviderTypes, AgentTypes
    <2>2. BoundTypes'
      BY <1>22, FaultTypes DEF Stop
    <2>3. (RunTypes /\ LastTypes /\ LastOfStep)'
      BY <1>22 DEF Stop, Fault, Ends, Idle, outside, RunTypes, LastTypes, LastOfStep,
          Steps, Outcomes
    <2>. QED
      BY <2>1, <2>2, <2>3
  <1>23. CASE RestartCaddy
    <2>1. (ConfigTypes /\ DnsTypes /\ AgentTypes)'
      BY <1>23 DEF RestartCaddy, Fault, outside, ConfigTypes, DnsTypes, AgentTypes
    <2>2. CaddyTypes'
      BY <1>23 DEF RestartCaddy, Fault, outside, CaddyTypes
    <2>3. ProviderTypes'
      BY <1>23, IngressAssumption DEF RestartCaddy, Fault, outside, ProviderTypes
    <2>4. BoundTypes'
      BY <1>23, FaultTypes DEF RestartCaddy
    <2>5. (RunTypes /\ LastTypes /\ LastOfStep)'
      BY <1>23 DEF RestartCaddy, Fault, outside, RunTypes, LastTypes, LastOfStep, Steps,
          Outcomes
    <2>. QED
      BY <2>1, <2>2, <2>3, <2>4, <2>5
  <1>24. ASSUME NEW t \in Tunnels, RestartAgents(t)
        PROVE  Types'
    <2>1. (ConfigTypes /\ DnsTypes /\ CaddyTypes /\ ProviderTypes /\ BoundTypes)'
      BY <1>24 DEF RestartAgents, StartAgents, outside, ConfigTypes, DnsTypes,
          CaddyTypes, ProviderTypes, BoundTypes
    <2>2. AgentTypes'
      BY <1>24, IngressAssumption DEF RestartAgents, StartAgents, outside, AgentTypes,
          Tunnels
    <2>3. (RunTypes /\ LastTypes /\ LastOfStep)'
      BY <1>24 DEF RestartAgents, StartAgents, outside, RunTypes, LastTypes, LastOfStep,
          Steps, Outcomes
    <2>. QED
      BY <2>1, <2>2, <2>3
  <1>25. CASE EditConfig
    <2>1. (DnsTypes /\ CaddyTypes /\ ProviderTypes /\ AgentTypes)'
      BY <1>25 DEF EditConfig, outside, DnsTypes, CaddyTypes, ProviderTypes, AgentTypes
    <2>2. ConfigTypes'
      BY <1>25 DEF EditConfig, outside, ConfigTypes
    <2>3. BoundTypes'
      BY <1>25, IngressAssumption DEF EditConfig, outside, BoundTypes
    <2>4. (RunTypes /\ LastTypes /\ LastOfStep)'
      BY <1>25 DEF EditConfig, outside, RunTypes, LastTypes, LastOfStep, Steps, Outcomes
    <2>. QED
      BY <2>1, <2>2, <2>3, <2>4
  <1>26. CASE UNCHANGED ingress_vars
    <2>1. (ConfigTypes /\ DnsTypes /\ CaddyTypes /\ ProviderTypes /\ AgentTypes /\
              BoundTypes)'
      BY <1>26 DEF ingress_vars, outside, ConfigTypes, DnsTypes, CaddyTypes,
          ProviderTypes, AgentTypes, BoundTypes
    <2>2. (RunTypes /\ LastTypes /\ LastOfStep)'
      BY <1>26 DEF ingress_vars, outside, RunTypes, LastTypes, LastOfStep, Steps,
          Outcomes
    <2>. QED
      BY <2>1, <2>2
  <1>27. CASE ReadOrphans
    <2>1. (ConfigTypes /\ DnsTypes /\ CaddyTypes /\ AgentTypes /\ BoundTypes)'
      BY <1>27 DEF ReadOrphans, GoTo, outside, ConfigTypes, DnsTypes, CaddyTypes,
          AgentTypes, BoundTypes
    <2>2. ProviderTypes'
      <3>1. UNCHANGED <<tunnel, reserved>> /\ tracked' \subseteq tracked
        BY <1>27 DEF ReadOrphans, outside
      <3>. QED
        BY <3>1 DEF ProviderTypes
    <2>3. \E left \in SUBSET Domains : GoTo("unroute", left)
      BY <1>27, ReadAreDomains DEF ReadOrphans, CaddyTypes
    <2>4. last' = last /\ run.step # "idle"
      BY <1>27 DEF ReadOrphans
    <2>5. (RunTypes /\ LastTypes /\ LastOfStep)'
      BY <2>3, <2>4 DEF GoTo, CaddySteps, RunTypes, LastTypes, LastOfStep, Steps, Outcomes
    <2>. QED
      BY <2>1, <2>2, <2>3, <2>4, <2>5
  <1>. QED
    BY <1>1, <1>2, <1>3, <1>4, <1>5, <1>6, <1>7, <1>8, <1>9, <1>10, <1>11, <1>12, <1>13,
        <1>14, <1>15, <1>16, <1>17, <1>18, <1>19, <1>20, <1>21, <1>22, <1>23, <1>24,
        <1>25, <1>26, <1>27 DEF IngressNext, DeployNext

----------------------------------------------------------------------------
(***************************************************************************)
(* Which step of a run an action belongs to, and so which parts of the     *)
(* invariant it can disturb.                                               *)
(***************************************************************************)
CaddyActions ==
    RouteDomain \/ ReadOrphans \/ UnrouteOrphan \/ OrphansUnrouted \/ SweepAgents
        \/ EnsureCaddy \/ ReloadCaddyConfig

TunnelActions ==
    CreateTunnel \/ PushConfig \/ EnsureDomain \/ ApplyToken \/ ApplyAgents
        \/ SweepCaddy \/ RouteToTunnel

\* What leaves no deploy under way.
OtherActions ==
    NoChanges \/ Done \/ TeardownBegins \/ TeardownDns \/ TeardownInfra \/ TeardownTunnel
        \/ Stop \/ EditConfig

OffSteps == {"idle"} \cup TeardownSteps

StepParts ==
    /\ ModeOfStep /\ WebOfStep /\ DnsOfStep /\ CaddyOfStep
    /\ CloudflareOfStep /\ NgrokOfStep /\ CnamesOfStep
    /\ OtherIngressGone /\ OrphansOfStep

\* Every step is one of Caddy's mode, of a tunnel's mode, or of neither.
LEMMA ActionKinds ==
    ASSUME [IngressNext]_ingress_vars
    PROVE  \/ CaddyActions \/ TunnelActions \/ OtherActions
           \/ (\E other : Begin(other)) \/ Infra
           \/ RestartCaddy \/ (\E t \in Tunnels : RestartAgents(t))
           \/ UNCHANGED ingress_vars
  BY DEF IngressNext, DeployNext, CaddyActions, TunnelActions, OtherActions

\* A step of Caddy's mode is one of its steps, and leaves the tunnel providers alone.
LEMMA CaddyActionsKeep ==
    ASSUME Types, ModeOfStep, CaddyActions
    PROVE  /\ Public /\ run.step \in CaddySteps
           /\ UNCHANGED <<cfg, web, tunnel, reserved>>
           /\ run'.step \in CaddySteps \cup {"end"}
  <1>. USE DEF Types, RunTypes, ModeOfStep, CaddySteps, GoTo, outside
  <1>1. CASE RouteDomain
    BY <1>1 DEF RouteDomain, Unblock, Write
  <1>2. CASE UnrouteOrphan
    BY <1>2 DEF UnrouteOrphan
  <1>3. CASE OrphansUnrouted
    BY <1>3 DEF OrphansUnrouted
  <1>4. CASE SweepAgents
    BY <1>4 DEF SweepAgents
  <1>5. CASE EnsureCaddy
    BY <1>5 DEF EnsureCaddy
  <1>6. CASE ReloadCaddyConfig
    BY <1>6 DEF ReloadCaddyConfig
  <1>7. CASE ReadOrphans
    BY <1>7 DEF ReadOrphans
  <1>. QED
    BY <1>1, <1>2, <1>3, <1>4, <1>5, <1>6, <1>7 DEF CaddyActions

\* A step of a tunnel's mode is one of its steps, and leaves the firewall alone.
LEMMA TunnelActionsKeep ==
    ASSUME Types, ModeOfStep, TunnelActions
    PROVE  /\ cfg.mode \in Tunnels /\ run.step \in TunnelSteps
           /\ UNCHANGED <<cfg, web>>
           /\ run'.step \in TunnelSteps \cup {"end"}
  <1>. USE DEF Types, RunTypes, ModeOfStep, TunnelSteps, GoTo, outside
  <1>1. CASE CreateTunnel
    BY <1>1 DEF CreateTunnel
  <1>2. CASE PushConfig
    BY <1>2 DEF PushConfig
  <1>3. CASE EnsureDomain
    BY <1>3 DEF EnsureDomain
  <1>4. CASE ApplyToken
    BY <1>4 DEF ApplyToken
  <1>5. CASE ApplyAgents
    BY <1>5 DEF ApplyAgents
  <1>6. CASE SweepCaddy
    BY <1>6 DEF SweepCaddy
  <1>7. CASE RouteToTunnel
    BY <1>7 DEF RouteToTunnel, Unblock, Write
  <1>. QED
    BY <1>1, <1>2, <1>3, <1>4, <1>5, <1>6, <1>7 DEF TunnelActions

\* These steps end a run, or belong to a teardown.
LEMMA OtherActionsLeave ==
    ASSUME Types, OtherActions
    PROVE  run'.step \in OffSteps
  <1>. USE DEF Types, RunTypes, OffSteps, TeardownSteps, GoTo, Ends, Idle
  <1>1. CASE NoChanges \/ EditConfig
    BY <1>1 DEF NoChanges, EditConfig
  <1>2. CASE Done
    BY <1>2 DEF Done
  <1>3. CASE Stop
    BY <1>3 DEF Stop
  <1>4. CASE TeardownBegins \/ TeardownDns
    BY <1>4 DEF TeardownBegins, TeardownDns
  <1>5. CASE TeardownInfra
    BY <1>5 DEF TeardownInfra
  <1>6. CASE TeardownTunnel
    BY <1>6 DEF TeardownTunnel
  <1>. QED
    BY <1>1, <1>2, <1>3, <1>4, <1>5, <1>6 DEF OtherActions

\* With no deploy under way there is nothing to say.
LEMMA OffStepsHold ==
    /\ run.step \in OffSteps => StepParts
    /\ run'.step \in OffSteps => StepParts'
  <1>. USE DEF OffSteps, TeardownSteps, StepParts, ModeOfStep, WebOfStep, DnsOfStep,
               CaddyOfStep, CloudflareOfStep, NgrokOfStep, CnamesOfStep,
               OtherIngressGone, OrphansOfStep, CaddySteps, TunnelSteps, Quiet,
               AfterRoute, AfterUnroute, AfterSweep, AfterPush, AfterTell, AfterAgents
  <1>1. ASSUME run.step \in OffSteps
        PROVE  StepParts
    BY <1>1
  <1>2. ASSUME run'.step \in OffSteps
        PROVE  StepParts'
    BY <1>2
  <1>. QED
    BY <1>1, <1>2

----------------------------------------------------------------------------
\* Where a run stands, and the firewall it has opened.
LEMMA StepMode ==
    ASSUME Types, ModeOfStep, [IngressNext]_ingress_vars
    PROVE  ModeOfStep'
  <1>. USE DEF Types, RunTypes, GoTo
  <1>1. CASE CaddyActions
    BY <1>1, CaddyActionsKeep DEF ModeOfStep, Public, CaddySteps, TunnelSteps
  <1>2. CASE TunnelActions
    <2>1. run'.step \notin {"tunnel", "reserve"} \/ run'.step = run.step
      BY <1>2
      DEF TunnelActions, CreateTunnel, PushConfig, EnsureDomain, ApplyToken, ApplyAgents,
          SweepCaddy, RouteToTunnel, Unblock, Write
    <2>. QED
      BY <1>2, <2>1, TunnelActionsKeep DEF ModeOfStep, CaddySteps, TunnelSteps
  <1>3. CASE OtherActions
    BY <1>3, OtherActionsLeave, OffStepsHold DEF StepParts
  <1>4. ASSUME NEW other, Begin(other)
        PROVE  ModeOfStep'
    BY <1>4 DEF Begin, Idle, ModeOfStep, CaddySteps, TunnelSteps
  <1>5. CASE Infra
    BY <1>5 DEF Infra, ModeOfStep, CaddySteps, TunnelSteps, Public, Tunnels,
                ConfigTypes, Configs
  <1>6. CASE RestartCaddy
    BY <1>6 DEF RestartCaddy, ModeOfStep, Public
  <1>7. ASSUME NEW t \in Tunnels, RestartAgents(t)
        PROVE  ModeOfStep'
    BY <1>7 DEF RestartAgents, ModeOfStep, Public
  <1>8. CASE UNCHANGED ingress_vars
    BY <1>8 DEF ingress_vars, ModeOfStep, Public
  <1>. QED
    BY <1>1, <1>2, <1>3, <1>4, <1>5, <1>6, <1>7, <1>8, ActionKinds

\* Ports 80 and 443 are open from the step on that needs them.
LEMMA StepWeb ==
    ASSUME Types, ModeOfStep, WebOfStep, [IngressNext]_ingress_vars
    PROVE  WebOfStep'
  <1>. USE DEF Types, RunTypes, GoTo, WebOfStep, Quiet, Public
  <1>1. CASE CaddyActions
    BY <1>1, CaddyActionsKeep
  <1>2. CASE TunnelActions
    BY <1>2, TunnelActionsKeep DEF Tunnels
  <1>3. CASE OtherActions
    BY <1>3, OtherActionsLeave, OffStepsHold DEF StepParts
  <1>4. ASSUME NEW other, Begin(other)
        PROVE  WebOfStep'
    BY <1>4 DEF Begin, Idle, CaddySteps, InfraChanges, PlanFirewall, outside
  <1>5. CASE Infra
    BY <1>5 DEF Infra, CaddySteps
  <1>6. CASE RestartCaddy
    BY <1>6 DEF RestartCaddy
  <1>7. ASSUME NEW t \in Tunnels, RestartAgents(t)
        PROVE  WebOfStep'
    BY <1>7 DEF RestartAgents
  <1>8. CASE UNCHANGED ingress_vars
    BY <1>8 DEF ingress_vars, outside
  <1>. QED
    BY <1>1, <1>2, <1>3, <1>4, <1>5, <1>6, <1>7, <1>8, ActionKinds

----------------------------------------------------------------------------
\* The steps of Caddy's mode: records, then Caddy and its routes.
LEMMA WriteMoves ==
    ASSUME Types, NEW d \in run.left, NEW record, NEW next, NEW left,
           Write(d, record, next, left)
    PROVE  \/ run'.step = run.step /\ run'.left = run.left \ {d}
           \/ run.left = {d} /\ run'.step = next /\ run'.left = left
  BY DEF Types, RunTypes, Write, GoTo

\* The records of the domains a run has routed are there until it ends.
LEMMA StepDns ==
    ASSUME Types, ModeOfStep, DnsOfStep, [IngressNext]_ingress_vars
    PROVE  DnsOfStep'
  <1>. USE DEF Types, RunTypes, DnsTypes, GoTo, DnsOfStep, Quiet, Public, Listed
  <1>1. CASE CaddyActions
    <2>. Public /\ UNCHANGED cfg
      BY <1>1, CaddyActionsKeep
    <2>1. CASE RouteDomain
      <3>1. PICK d \in run.left :
                \/ Unblock(d, Address)
                \/ Write(d, Address, "orphans", {})
        BY <2>1 DEF RouteDomain
      <3>2. \A e \in cfg.domains \ run.left : Listed(e)
        BY <2>1 DEF RouteDomain
      <3>3. CASE Unblock(d, Address)
        <4>1. \A e \in cfg.domains \ run.left : Listed(e)'
          BY <3>2, <3>3 DEF Unblock, ConfigTypes, Configs
        <4>2. run' = run /\ run.step = "route"
          BY <2>1, <3>3 DEF RouteDomain, Unblock
        <4>. QED
          BY <4>1, <4>2 DEF AfterRoute
      <3>4. CASE Write(d, Address, "orphans", {})
        <4>1. \A e \in cfg.domains \ (run.left \ {d}) : Listed(e)'
          BY <3>2, <3>4 DEF Write, ConfigTypes, Configs
        <4>2. \/ run'.step = "route" /\ run'.left = run.left \ {d}
              \/ run.left = {d} /\ run'.step = "orphans"
          BY <2>1, <3>4, WriteMoves DEF RouteDomain
        <4>. QED
          BY <4>1, <4>2 DEF AfterRoute
      <3>. QED
        BY <3>1, <3>3, <3>4
    <2>2. CASE UnrouteOrphan
      <3>1. PICK d \in run.left :
                /\ dns' = [dns EXCEPT ![d] = Absent] \/ UNCHANGED dns
                /\ GoTo("unroute", run.left \ {d})
        BY <2>2 DEF UnrouteOrphan
      <3>2. run.step = "unroute" /\ run.left \cap cfg.domains = {}
        BY <2>2 DEF UnrouteOrphan
      <3>3. \A e \in cfg.domains : dns'[e] = dns[e]
        BY <3>1, <3>2 DEF ConfigTypes, Configs
      <3>. QED
        BY <3>1, <3>2, <3>3 DEF AfterRoute
    <2>3. CASE OrphansUnrouted
      BY <2>3 DEF OrphansUnrouted, AfterRoute
    <2>4. CASE SweepAgents
      BY <2>4 DEF SweepAgents, AfterRoute
    <2>5. CASE EnsureCaddy
      BY <2>5 DEF EnsureCaddy, AfterRoute
    <2>6. CASE ReloadCaddyConfig
      BY <2>6 DEF ReloadCaddyConfig, AfterRoute
    <2>7. CASE ReadOrphans
      BY <2>7 DEF ReadOrphans, AfterRoute
    <2>. QED
      BY <1>1, <2>1, <2>2, <2>3, <2>4, <2>5, <2>6, <2>7 DEF CaddyActions
  <1>2. CASE TunnelActions
    BY <1>2, TunnelActionsKeep DEF Tunnels
  <1>3. CASE OtherActions
    BY <1>3, OtherActionsLeave, OffStepsHold DEF StepParts
  <1>4. ASSUME NEW other, Begin(other)
        PROVE  DnsOfStep'
    <2>1. run'.step = "infra" /\ UNCHANGED <<cfg, dns>>
      BY <1>4 DEF Begin, Idle
    <2>2. Public /\ ~ run'.loud => \A d \in cfg.domains : Listed(d)
      BY <1>4 DEF Begin, Idle, InfraChanges, PlanDns, ConfigTypes, Configs
    <2>. QED
      BY <2>1, <2>2 DEF AfterRoute
  <1>5. CASE Infra
    BY <1>5 DEF Infra, AfterRoute
  <1>6. CASE RestartCaddy
    BY <1>6 DEF RestartCaddy
  <1>7. ASSUME NEW t \in Tunnels, RestartAgents(t)
        PROVE  DnsOfStep'
    BY <1>7 DEF RestartAgents
  <1>8. CASE UNCHANGED ingress_vars
    BY <1>8 DEF ingress_vars
  <1>. QED
    BY <1>1, <1>2, <1>3, <1>4, <1>5, <1>6, <1>7, <1>8, ActionKinds

\* Caddy is deployed before the reload and has the routes after it.
LEMMA StepCaddy ==
    ASSUME Types, ModeOfStep, CaddyOfStep, [IngressNext]_ingress_vars
    PROVE  CaddyOfStep'
  <1>. USE DEF Types, RunTypes, CaddyTypes, GoTo, CaddyOfStep, Public, outside
  <1>1. CASE CaddyActions
    <2>1. CASE RouteDomain
      BY <2>1 DEF RouteDomain, Unblock, Write
    <2>2. CASE ReadOrphans \/ UnrouteOrphan \/ OrphansUnrouted
      BY <2>2 DEF ReadOrphans, UnrouteOrphan, OrphansUnrouted
    <2>3. CASE SweepAgents
      BY <2>3 DEF SweepAgents
    <2>4. CASE EnsureCaddy
      BY <2>4 DEF EnsureCaddy
    <2>5. CASE ReloadCaddyConfig
      BY <2>5 DEF ReloadCaddyConfig
    <2>. QED
      BY <1>1, <2>1, <2>2, <2>3, <2>4, <2>5 DEF CaddyActions
  <1>2. CASE TunnelActions
    BY <1>2, TunnelActionsKeep DEF Tunnels
  <1>3. CASE OtherActions
    BY <1>3, OtherActionsLeave, OffStepsHold DEF StepParts
  <1>4. ASSUME NEW other, Begin(other)
        PROVE  CaddyOfStep'
    BY <1>4 DEF Begin, Idle
  <1>5. CASE Infra
    BY <1>5 DEF Infra
  <1>6. CASE RestartCaddy
    BY <1>6 DEF RestartCaddy
  <1>7. ASSUME NEW t \in Tunnels, RestartAgents(t)
        PROVE  CaddyOfStep'
    BY <1>7 DEF RestartAgents
  <1>8. CASE UNCHANGED ingress_vars
    BY <1>8 DEF ingress_vars
  <1>. QED
    BY <1>1, <1>2, <1>3, <1>4, <1>5, <1>6, <1>7, <1>8, ActionKinds

----------------------------------------------------------------------------
\* The steps of the tunnels' modes: provider, agents, records.
LEMMA StepCloudflare ==
    ASSUME Types, ModeOfStep, CloudflareOfStep, [IngressNext]_ingress_vars
    PROVE  CloudflareOfStep'
  <1>. USE DEF Types, RunTypes, GoTo, CloudflareOfStep, AfterPush, AfterTell, outside
  <1>1. CASE CaddyActions
    BY <1>1, CaddyActionsKeep DEF Public
  <1>2. CASE TunnelActions
    <2>. cfg' = cfg
      BY <1>2, TunnelActionsKeep
    <2>1. CASE CreateTunnel
      BY <2>1 DEF CreateTunnel
    <2>2. CASE PushConfig
      BY <2>2 DEF PushConfig, ProviderTypes
    <2>3. CASE EnsureDomain
      BY <2>3 DEF EnsureDomain, ModeOfStep
    <2>4. CASE ApplyToken
      BY <2>4 DEF ApplyToken, AgentTypes, Tunnels
    <2>5. CASE ApplyAgents
      BY <2>5 DEF ApplyAgents, StartAgents, AgentTypes, Tunnels
    <2>6. CASE SweepCaddy
      BY <2>6 DEF SweepCaddy
    <2>7. CASE RouteToTunnel
      BY <2>7 DEF RouteToTunnel, Unblock, Write
    <2>. QED
      BY <1>2, <2>1, <2>2, <2>3, <2>4, <2>5, <2>6, <2>7 DEF TunnelActions
  <1>3. CASE OtherActions
    BY <1>3, OtherActionsLeave, OffStepsHold DEF StepParts
  <1>4. ASSUME NEW other, Begin(other)
        PROVE  CloudflareOfStep'
    BY <1>4 DEF Begin, Idle
  <1>5. CASE Infra
    BY <1>5 DEF Infra
  <1>6. CASE RestartCaddy
    BY <1>6 DEF RestartCaddy
  <1>7. ASSUME NEW t \in Tunnels, RestartAgents(t)
        PROVE  CloudflareOfStep'
    BY <1>7 DEF RestartAgents, StartAgents, AgentTypes, Tunnels
  <1>8. CASE UNCHANGED ingress_vars
    BY <1>8 DEF ingress_vars
  <1>. QED
    BY <1>1, <1>2, <1>3, <1>4, <1>5, <1>6, <1>7, <1>8, ActionKinds

\* What is reserved and told at ngrok stays so until the run ends.
LEMMA StepNgrok ==
    ASSUME Types, ModeOfStep, NgrokOfStep, [IngressNext]_ingress_vars
    PROVE  NgrokOfStep'
  <1>. USE DEF Types, RunTypes, GoTo, NgrokOfStep, AfterPush, AfterTell, outside
  <1>1. CASE CaddyActions
    BY <1>1, CaddyActionsKeep DEF Public
  <1>2. CASE TunnelActions
    <2>. cfg' = cfg
      BY <1>2, TunnelActionsKeep
    <2>1. CASE CreateTunnel
      BY <2>1 DEF CreateTunnel
    <2>2. CASE PushConfig
      BY <2>2 DEF PushConfig, ModeOfStep
    <2>3. CASE EnsureDomain
      <3>1. PICK d \in run.left :
                /\ reserved' = reserved \cup {d}
                /\ IF run.left = {d} THEN GoTo("tell", {})
                   ELSE GoTo("reserve", run.left \ {d})
        BY <2>3 DEF EnsureDomain
      <3>2. cfg.domains \ run.left \subseteq reserved
        BY <2>3 DEF EnsureDomain, ModeOfStep
      <3>3. cfg.domains \ (run.left \ {d}) \subseteq reserved'
        BY <3>1, <3>2
      <3>4. \/ run'.step = "reserve" /\ run'.left = run.left \ {d}
            \/ run.left = {d} /\ run'.step = "tell"
        BY <3>1
      <3>. QED
        BY <3>3, <3>4
    <2>4. CASE ApplyToken
      BY <2>4 DEF ApplyToken, AgentTypes, Tunnels
    <2>5. CASE ApplyAgents
      BY <2>5 DEF ApplyAgents, StartAgents, AgentTypes, Tunnels
    <2>6. CASE SweepCaddy
      BY <2>6 DEF SweepCaddy
    <2>7. CASE RouteToTunnel
      BY <2>7 DEF RouteToTunnel, Unblock, Write
    <2>. QED
      BY <1>2, <2>1, <2>2, <2>3, <2>4, <2>5, <2>6, <2>7 DEF TunnelActions
  <1>3. CASE OtherActions
    BY <1>3, OtherActionsLeave, OffStepsHold DEF StepParts
  <1>4. ASSUME NEW other, Begin(other)
        PROVE  NgrokOfStep'
    BY <1>4 DEF Begin, Idle
  <1>5. CASE Infra
    BY <1>5 DEF Infra
  <1>6. CASE RestartCaddy
    BY <1>6 DEF RestartCaddy
  <1>7. ASSUME NEW t \in Tunnels, RestartAgents(t)
        PROVE  NgrokOfStep'
    BY <1>7 DEF RestartAgents, StartAgents, AgentTypes, Tunnels
  <1>8. CASE UNCHANGED ingress_vars
    BY <1>8 DEF ingress_vars
  <1>. QED
    BY <1>1, <1>2, <1>3, <1>4, <1>5, <1>6, <1>7, <1>8, ActionKinds

\* Away from the provider's side no step renames a tunnel.
LEMMA CnameKept ==
    ASSUME UNCHANGED <<cfg, tunnel>>
    PROVE  Cname' = Cname
  BY DEF Cname, Record

\* Agents run before the CNAMEs are written, and both stay.
LEMMA StepCnames ==
    ASSUME Types, ModeOfStep, CnamesOfStep, [IngressNext]_ingress_vars
    PROVE  CnamesOfStep'
  <1>. USE DEF Types, RunTypes, GoTo, CnamesOfStep, AfterPush, AfterTell, AfterAgents
  <1>1. CASE CaddyActions
    BY <1>1, CaddyActionsKeep DEF Public, Tunnels
  <1>2. CASE TunnelActions
    <2>. cfg.mode \in Tunnels /\ cfg' = cfg
      BY <1>2, TunnelActionsKeep
    <2>1. CASE CreateTunnel \/ PushConfig \/ EnsureDomain \/ ApplyToken
      <3>1. run'.step \in {"tunnel", "reserve", "tell", "agents"}
        BY <2>1 DEF CreateTunnel, PushConfig, EnsureDomain, ApplyToken
      <3>. QED
        BY <3>1
    <2>2. CASE ApplyAgents
      <3>1. agents'[cfg.mode].deployed
        BY <2>2 DEF ApplyAgents, StartAgents, AgentTypes, Tunnels
      <3>2. run'.step = "sweep caddy"
        BY <2>2 DEF ApplyAgents
      <3>. QED
        BY <3>1, <3>2
    <2>3. CASE SweepCaddy
      <3>1. run'.step = "cnames" /\ run'.left = cfg.domains /\ agents' = agents
        BY <2>3 DEF SweepCaddy
      <3>. QED
        BY <2>3, <3>1 DEF SweepCaddy
    <2>4. CASE RouteToTunnel
      <3>1. PICK d \in run.left : Unblock(d, Cname) \/ Write(d, Cname, "end", {})
        BY <2>4 DEF RouteToTunnel
      <3>2. Cname' = Cname /\ agents' = agents
        BY <3>1, CnameKept DEF Unblock, Write, outside
      <3>3. run.step = "cnames" /\ \A e \in cfg.domains \ run.left : dns[e] = Cname
        BY <2>4 DEF RouteToTunnel
      <3>4. CASE Unblock(d, Cname)
        <4>1. \A e \in cfg.domains \ run.left : dns'[e] = Cname
          BY <3>3, <3>4 DEF Unblock, DnsTypes, ConfigTypes, Configs
        <4>2. run' = run
          BY <3>4 DEF Unblock
        <4>. QED
          BY <3>2, <3>3, <4>1, <4>2
      <3>5. CASE Write(d, Cname, "end", {})
        <4>1. \A e \in cfg.domains \ (run.left \ {d}) : dns'[e] = Cname
          BY <3>3, <3>5 DEF Write, DnsTypes, ConfigTypes, Configs
        <4>2. \/ run'.step = "cnames" /\ run'.left = run.left \ {d}
              \/ run.left = {d} /\ run'.step = "end"
          BY <3>3, <3>5, WriteMoves
        <4>. QED
          BY <3>2, <3>3, <4>1, <4>2
      <3>. QED
        BY <3>1, <3>4, <3>5
    <2>. QED
      BY <1>2, <2>1, <2>2, <2>3, <2>4 DEF TunnelActions
  <1>3. CASE OtherActions
    BY <1>3, OtherActionsLeave, OffStepsHold DEF StepParts
  <1>4. ASSUME NEW other, Begin(other)
        PROVE  CnamesOfStep'
    BY <1>4 DEF Begin, Idle
  <1>5. CASE Infra
    BY <1>5 DEF Infra, Tunnels
  <1>6. CASE RestartCaddy
    <2>1. Cname' = Cname
      BY <1>6, CnameKept DEF RestartCaddy
    <2>. QED
      BY <1>6, <2>1 DEF RestartCaddy
  <1>7. ASSUME NEW t \in Tunnels, RestartAgents(t)
        PROVE  CnamesOfStep'
    <2>1. Cname' = Cname
      BY <1>7, CnameKept DEF RestartAgents
    <2>2. \A u \in Tunnels : agents[u].deployed => agents'[u].deployed
      BY <1>7 DEF RestartAgents, StartAgents, AgentTypes, Tunnels
    <2>. QED
      BY <1>7, <2>1, <2>2 DEF RestartAgents
  <1>8. CASE UNCHANGED ingress_vars
    <2>1. Cname' = Cname
      BY <1>8, CnameKept DEF ingress_vars, outside
    <2>. QED
      BY <1>8, <2>1 DEF ingress_vars, outside
  <1>. QED
    BY <1>1, <1>2, <1>3, <1>4, <1>5, <1>6, <1>7, <1>8, ActionKinds

----------------------------------------------------------------------------
\* What the other mode left is swept; what only Caddy knows is unrouted.
LEMMA StepOther ==
    ASSUME Types, ModeOfStep, OtherIngressGone, [IngressNext]_ingress_vars
    PROVE  OtherIngressGone'
  <1>. USE DEF Types, RunTypes, CaddyTypes, GoTo, OtherIngressGone, AfterSweep, Public
  <1>1. CASE CaddyActions
    <2>. Public /\ cfg' = cfg /\ cfg.mode \notin Tunnels
      BY <1>1, CaddyActionsKeep DEF Tunnels
    <2>1. CASE RouteDomain
      <3>1. run'.step \in {"route", "orphans"}
        BY <2>1 DEF RouteDomain, Unblock, Write
      <3>. QED
        BY <3>1
    <2>2. CASE ReadOrphans \/ UnrouteOrphan \/ OrphansUnrouted
      <3>1. run'.step \in {"unroute", "sweep agents"}
        BY <2>2 DEF ReadOrphans, UnrouteOrphan, OrphansUnrouted
      <3>. QED
        BY <3>1
    <2>3. CASE SweepAgents
      <3>1. agents' = NoAgents \/ run'.outcome = "warned"
        BY <2>3 DEF SweepAgents
      <3>2. \A t \in Tunnels : ~ NoAgents[t].deployed
        BY DEF NoAgents
      <3>. QED
        BY <3>1, <3>2
    <2>4. CASE EnsureCaddy \/ ReloadCaddyConfig
      <3>1. run.step \in AfterSweep /\ agents' = agents /\ run'.outcome = run.outcome
        BY <2>4 DEF EnsureCaddy, ReloadCaddyConfig
      <3>. QED
        BY <3>1
    <2>. QED
      BY <1>1, <2>1, <2>2, <2>3, <2>4 DEF CaddyActions
  <1>2. CASE TunnelActions
    <2>. cfg' = cfg /\ cfg.mode # "caddy"
      BY <1>2, TunnelActionsKeep DEF Tunnels
    <2>1. CASE CreateTunnel \/ PushConfig \/ EnsureDomain \/ ApplyToken
      <3>1. run'.step \in {"tunnel", "reserve", "tell", "agents"}
        BY <2>1 DEF CreateTunnel, PushConfig, EnsureDomain, ApplyToken
      <3>. QED
        BY <3>1
    <2>2. CASE ApplyAgents
      BY <2>2 DEF ApplyAgents
    <2>3. CASE SweepCaddy
      <3>1. caddy' = NoCaddy \/ run'.outcome = "warned"
        BY <2>3 DEF SweepCaddy
      <3>2. ~ NoCaddy.deployed
        BY DEF NoCaddy
      <3>. QED
        BY <3>1, <3>2
    <2>4. CASE RouteToTunnel
      <3>1. run.step = "cnames" /\ caddy' = caddy /\ run'.outcome = run.outcome
        BY <2>4 DEF RouteToTunnel, Unblock, Write, outside
      <3>. QED
        BY <3>1
    <2>. QED
      BY <1>2, <2>1, <2>2, <2>3, <2>4 DEF TunnelActions
  <1>3. CASE OtherActions
    BY <1>3, OtherActionsLeave, OffStepsHold DEF StepParts
  <1>4. ASSUME NEW other, Begin(other)
        PROVE  OtherIngressGone'
    BY <1>4 DEF Begin, Idle
  <1>5. CASE Infra
    <2>1. \/ run'.step \in {"tunnel", "reserve", "route", "sweep agents"}
          \/ run'.step = "end" /\ cfg' = cfg /\ cfg.domains = {} /\ cfg.mode \notin Tunnels
      BY <1>5 DEF Infra, Tunnels
    <2>. QED
      BY <2>1
  <1>6. CASE RestartCaddy
    <2>1. /\ run'.step = run.step /\ cfg' = cfg /\ agents' = agents
          /\ caddy'.deployed = caddy.deployed
          /\ run'.outcome = "done" => run.outcome = "done"
      BY <1>6 DEF RestartCaddy
    <2>. QED
      BY <2>1
  <1>7. ASSUME NEW t \in Tunnels, RestartAgents(t)
        PROVE  OtherIngressGone'
    BY <1>7 DEF RestartAgents, StartAgents, AgentTypes, Tunnels
  <1>8. CASE UNCHANGED ingress_vars
    BY <1>8 DEF ingress_vars, outside
  <1>. QED
    BY <1>1, <1>2, <1>3, <1>4, <1>5, <1>6, <1>7, <1>8, ActionKinds

\* The two facts need each other: the reload forgets routes only of domains
\* whose records are gone.
Tracked(d) == dns[d] = Absent \/ (dns[d] = Address /\ d \in caddy.routes)

\* Of a tracked record that is still there, Caddy keeps the route.
LEMMA StepTracked ==
    ASSUME Types, ModeOfStep, DnsOfStep, OrphansOfStep, TrackedIsRouted,
           [IngressNext]_ingress_vars
    PROVE  TrackedIsRouted'
  <1>. USE DEF Types, ProviderTypes, DnsTypes, CaddyTypes
  <1>. SUFFICES ASSUME NEW e \in tracked'
                PROVE  Tracked(e)'
    BY DEF TrackedIsRouted, Tracked, Absent, Address
  <1>. USE DEF Tracked
  <1>0. \A d \in tracked : Tracked(d)
    BY DEF TrackedIsRouted
  <1>. HIDE DEF Tracked
  <1>1. ASSUME UNCHANGED <<dns, caddy>>, tracked' \subseteq tracked
        PROVE  Tracked(e)'
    BY <1>0, <1>1 DEF Tracked, Absent, Address, Record
  <1>2. ASSUME NEW d, NEW r, NEW next, NEW left, Write(d, r, next, left)
        PROVE  Tracked(e)'
    <2>1. e \in tracked /\ caddy' = caddy
      BY <1>2 DEF Write, outside
    <2>2. e # d => dns'[e] = dns[e]
      BY <1>2 DEF Write
    <2>3. e = d => dns'[e] = Address /\ e \in caddy.routes
      BY <1>2, <2>1 DEF Write
    <2>. QED
      BY <1>0, <2>1, <2>2, <2>3 DEF Tracked, Absent, Address, Record
  <1>3. ASSUME NEW d, dns' = [dns EXCEPT ![d] = Absent], caddy' = caddy, e \in tracked
        PROVE  Tracked(e)'
    BY <1>0, <1>3 DEF Tracked, Absent, Address, Record
  <1>4. CASE RouteDomain
    <2>1. PICK d \in run.left :
              \/ Unblock(d, Address)
              \/ Write(d, Address, "orphans", {})
      BY <1>4 DEF RouteDomain
    <2>. QED
      BY <1>2, <1>3, <2>1 DEF Unblock, outside
  <1>5. CASE UnrouteOrphan
    <2>1. caddy' = caddy /\ tracked' \subseteq tracked
      BY <1>5 DEF UnrouteOrphan, outside
    <2>2. UNCHANGED dns \/ \E d \in run.left : dns' = [dns EXCEPT ![d] = Absent]
      BY <1>5 DEF UnrouteOrphan
    <2>. QED
      BY <1>1, <1>3, <2>1, <2>2
  <1>6. CASE ReadOrphans \/ OrphansUnrouted \/ SweepAgents
    BY <1>1, <1>6 DEF ReadOrphans, OrphansUnrouted, SweepAgents, outside
  <1>7. CASE EnsureCaddy
    <2>1. dns' = dns /\ tracked' = tracked /\ caddy'.routes = caddy.routes
      BY <1>7 DEF EnsureCaddy
    <2>. QED
      BY <1>0, <2>1 DEF Tracked, Absent, Address, Record
  <1>8. CASE ReloadCaddyConfig
    <2>1. Public /\ run.step = "reload"
      BY <1>8 DEF ReloadCaddyConfig, ModeOfStep, CaddySteps
    <2>2. \A d \in cfg.domains : Listed(d)
      BY <2>1 DEF DnsOfStep, AfterRoute
    <2>3. \A d \in tracked \ cfg.domains : dns[d] = Absent
      BY <2>1 DEF OrphansOfStep, AfterUnroute, AfterRoute
    <2>4. dns' = dns /\ caddy'.routes = cfg.domains /\ e \in cfg.domains
      BY <1>8, <2>3 DEF ReloadCaddyConfig
    <2>. QED
      BY <2>2, <2>4 DEF Tracked, Listed, Address, Record
  <1>9. CASE CreateTunnel \/ PushConfig \/ EnsureDomain \/ ApplyToken \/ ApplyAgents
    BY <1>1, <1>9 DEF CreateTunnel, PushConfig, EnsureDomain, ApplyToken, ApplyAgents
  <1>10. CASE SweepCaddy
    BY <1>1, <1>10 DEF SweepCaddy
  <1>11. CASE RouteToTunnel
    <2>1. PICK d \in run.left : Unblock(d, Cname) \/ Write(d, Cname, "end", {})
      BY <1>11 DEF RouteToTunnel
    <2>. QED
      BY <1>2, <1>3, <2>1 DEF Unblock, outside
  <1>12. CASE NoChanges \/ Done \/ TeardownBegins \/ Stop \/ EditConfig \/ Infra
    BY <1>1, <1>12 DEF NoChanges, Done, TeardownBegins, Stop, EditConfig, Infra, outside
  <1>13. CASE TeardownDns
    <2>1. UNCHANGED <<caddy, tracked>>
      BY <1>13 DEF TeardownDns, outside
    <2>2. UNCHANGED dns \/ \E d \in run.left : dns' = [dns EXCEPT ![d] = Absent]
      BY <1>13 DEF TeardownDns
    <2>. QED
      BY <1>1, <1>3, <2>1, <2>2
  <1>14. CASE TeardownInfra \/ TeardownTunnel
    BY <1>1, <1>14 DEF TeardownInfra, TeardownTunnel
  <1>15. ASSUME NEW other, Begin(other)
         PROVE  Tracked(e)'
    BY <1>1, <1>15 DEF Begin, outside
  <1>16. CASE RestartCaddy
    BY <1>16 DEF RestartCaddy
  <1>17. ASSUME NEW t \in Tunnels, RestartAgents(t)
         PROVE  Tracked(e)'
    BY <1>1, <1>17 DEF RestartAgents
  <1>18. CASE UNCHANGED ingress_vars
    BY <1>1, <1>18 DEF ingress_vars, outside
  <1>. QED
    BY <1>4, <1>5, <1>6, <1>7, <1>8, <1>9, <1>10, <1>11, <1>12, <1>13, <1>14, <1>15,
       <1>16, <1>17, <1>18, ActionKinds
    DEF CaddyActions, TunnelActions, OtherActions

\* A plan without changes of DNS has seen every record that has a route, but
\* for those it missed.
LEMMA NoOrphanUnplanned ==
    ASSUME Types, TrackedIsRouted, Public, NEW routes, ~ PlanDns(routes)
    PROVE  \A d \in (tracked \ Missed(routes)) \ cfg.domains : dns[d] = Absent
  BY DEF Types, ProviderTypes, TrackedIsRouted, PlanDns, Missed, Listed

\* A plan without changes of Caddy has had its answer.
LEMMA UnchangedIsRead ==
    ASSUME Types, Public, NEW routes \in RoutesRead, ~ PlanCaddy(routes)
    PROVE  caddy.deployed /\ caddy.routes = cfg.domains
  BY DEF Public, PlanCaddy, RoutesRead

\* A run past its orphans has removed the records of all of them.
LEMMA StepOrphans ==
    ASSUME Types, ModeOfStep, TrackedIsRouted, OrphansOfStep, [IngressNext]_ingress_vars
    PROVE  OrphansOfStep'
  <1>. USE DEF Types, RunTypes, GoTo, OrphansOfStep, Quiet, Public, AfterRoute, AfterUnroute
  <1>1. CASE CaddyActions
    <2>. Public /\ cfg' = cfg
      BY <1>1, CaddyActionsKeep
    <2>1. CASE RouteDomain
      <3>1. PICK d \in run.left :
                \/ Unblock(d, Address)
                \/ Write(d, Address, "orphans", {})
        BY <2>1 DEF RouteDomain
      <3>2. CASE Unblock(d, Address)
        BY <2>1, <3>2 DEF Unblock, RouteDomain
      <3>3. CASE Write(d, Address, "orphans", {})
        <4>1. run'.step \in {"route", "orphans"}
          BY <2>1, <3>3, WriteMoves DEF RouteDomain
        <4>. QED
          BY <4>1
      <3>. QED
        BY <3>1, <3>2, <3>3
    <2>2. CASE UnrouteOrphan
      <3>1. PICK d \in run.left :
                /\ \/ dns' = [dns EXCEPT ![d] = Absent] /\ UNCHANGED tracked
                   \/ tracked' = tracked \ {d} /\ UNCHANGED dns
                /\ GoTo("unroute", run.left \ {d})
        BY <2>2 DEF UnrouteOrphan
      <3>2. \A e \in tracked' \ cfg.domains : e \in run.left \ {d} \/ dns'[e] = Absent
        BY <2>2, <3>1 DEF UnrouteOrphan, DnsTypes, ProviderTypes
      <3>. QED
        BY <3>1, <3>2 DEF Absent, Record
    <2>3. CASE OrphansUnrouted
      BY <2>3 DEF OrphansUnrouted
    <2>4. CASE SweepAgents
      BY <2>4 DEF SweepAgents
    <2>5. CASE EnsureCaddy
      BY <2>5 DEF EnsureCaddy
    <2>6. CASE ReloadCaddyConfig
      BY <2>6 DEF ReloadCaddyConfig
    <2>7. CASE ReadOrphans
      <3>1. PICK routes \in RoutesRead :
                /\ run'.step = "unroute" /\ run'.left = routes \ cfg.domains
                /\ tracked' = tracked \ Missed(routes)
        BY <2>7 DEF ReadOrphans
      <3>2. \A d \in tracked' \ cfg.domains : d \in run'.left \/ dns[d] = Absent
        BY <3>1 DEF TrackedIsRouted, Missed
      <3>3. dns' = dns
        BY <2>7 DEF ReadOrphans
      <3>. QED
        BY <3>1, <3>2, <3>3 DEF Absent, Record
    <2>. QED
      BY <1>1, <2>1, <2>2, <2>3, <2>4, <2>5, <2>6, <2>7 DEF CaddyActions
  <1>2. CASE TunnelActions
    BY <1>2, TunnelActionsKeep DEF Tunnels
  <1>3. CASE OtherActions
    BY <1>3, OtherActionsLeave, OffStepsHold DEF StepParts
  <1>4. ASSUME NEW other, Begin(other)
        PROVE  OrphansOfStep'
    <2>1. run'.step = "infra" /\ UNCHANGED <<cfg, dns>>
      BY <1>4 DEF Begin, Idle
    <2>2. PICK routes \in RoutesRead :
              /\ run'.loud <=> InfraChanges(routes) \/ other = "infra"
              /\ tracked' = tracked \ Missed(routes)
      BY <1>4 DEF Begin, Idle, InfraChanges, PlanDns, PlanTunnel, PlanFirewall
    <2>3. ~ run'.loud => ~ PlanDns(routes)
      BY <2>2 DEF InfraChanges
    <2>. QED
      BY <2>1, <2>2, <2>3, NoOrphanUnplanned DEF Absent, Record
  <1>5. CASE Infra
    BY <1>5 DEF Infra
  <1>6. CASE RestartCaddy
    BY <1>6 DEF RestartCaddy
  <1>7. ASSUME NEW t \in Tunnels, RestartAgents(t)
        PROVE  OrphansOfStep'
    BY <1>7 DEF RestartAgents
  <1>8. CASE UNCHANGED ingress_vars
    BY <1>8 DEF ingress_vars
  <1>. QED
    BY <1>1, <1>2, <1>3, <1>4, <1>5, <1>6, <1>7, <1>8, ActionKinds

----------------------------------------------------------------------------
\* What `last' comes to say, and when a state that it speaks of changes after.
LEMMA LastChanges ==
    ASSUME Types, Types', ModeOfStep, [IngressNext]_ingress_vars
    PROVE  \/ last' \in {"none", "running", "stopped", "destroyed"}
           \/ Done \/ NoChanges
           \/ \E t \in Tunnels : RestartAgents(t)
           \/ UNCHANGED ingress_vars
  <1>. USE DEF Types, RunTypes, LastOfStep, LastTypes
  <1>1. CASE CaddyActions
    BY <1>1, CaddyActionsKeep DEF CaddySteps
  <1>2. CASE TunnelActions
    BY <1>2, TunnelActionsKeep DEF TunnelSteps
  <1>3. CASE TeardownBegins \/ TeardownDns \/ TeardownInfra
    BY <1>3 DEF TeardownBegins, TeardownDns, TeardownInfra
  <1>4. CASE TeardownTunnel \/ Stop \/ EditConfig
    BY <1>4 DEF TeardownTunnel, Stop, EditConfig, Ends
  <1>5. ASSUME NEW other, Begin(other)
        PROVE  last' = "running"
    BY <1>5 DEF Begin
  <1>6. CASE Infra
    BY <1>6 DEF Infra
  <1>7. CASE RestartCaddy
    BY <1>7 DEF RestartCaddy
  <1>. QED
    BY <1>1, <1>2, <1>3, <1>4, <1>5, <1>6, <1>7, ActionKinds DEF OtherActions

\* Pods that restart change neither what they are told nor what is routed.
LEMMA RestartAgentsKeeps ==
    ASSUME Types, NEW t \in Tunnels, RestartAgents(t)
    PROVE  /\ UNCHANGED <<cfg, dns, web, caddy, tunnel, reserved, run, last, bounds, tracked>>
           /\ Cname' = Cname
           /\ \A u \in Tunnels : /\ agents'[u].deployed = agents[u].deployed
                                 /\ agents'[u].told = agents[u].told
                                 /\ agents'[u].runs \in {agents[u].runs, agents[u].told}
  <1>1. UNCHANGED <<cfg, dns, web, caddy, tunnel, reserved, run, last, bounds, tracked>>
    BY DEF RestartAgents
  <1>2. Cname' = Cname
    BY <1>1, CnameKept
  <1>3. \A u \in Tunnels : /\ agents'[u].deployed = agents[u].deployed
                           /\ agents'[u].told = agents[u].told
                           /\ agents'[u].runs \in {agents[u].runs, agents[u].told}
    <2>1. CASE t = "cloudflare"
      BY <2>1 DEF RestartAgents, StartAgents, Types, AgentTypes, Tunnels
    <2>2. CASE t = "ngrok"
      BY <2>2 DEF RestartAgents, StartAgents, Types, AgentTypes, Tunnels
    <2>. QED
      BY <2>1, <2>2 DEF Tunnels
  <1>. QED
    BY <1>1, <1>2, <1>3

\* Every domain is wired at the last step of a run, but for a dark Caddy.
LEMMA WiredAtEnd ==
    ASSUME Types, WebOfStep, DnsOfStep, CaddyOfStep, CloudflareOfStep, NgrokOfStep,
           CnamesOfStep, run.step = "end", run.outcome # "dark", NEW d \in cfg.domains
    PROVE  Wired(d)
  <1>. USE DEF Types, ConfigTypes, Configs, Tunnels, Wired
  <1>1. CASE cfg.mode = "caddy"
    <2>1. Public
      BY <1>1 DEF Public
    <2>. QED
      BY <1>1, <2>1 DEF WebOfStep, DnsOfStep, CaddyOfStep, AfterRoute, Listed
  <1>2. CASE cfg.mode = "cloudflare"
    BY <1>2 DEF CloudflareOfStep, CnamesOfStep, AfterPush, AfterTell, AfterAgents
  <1>3. CASE cfg.mode = "ngrok"
    BY <1>3 DEF NgrokOfStep, CnamesOfStep, AfterPush, AfterTell, AfterAgents
  <1>. QED
    BY <1>1, <1>2, <1>3

\* The run that ends without an error is at its last step: all is wired.
LEMMA StepWired ==
    ASSUME Types, Types', StepParts, WiredWhenDone, [IngressNext]_ingress_vars
    PROVE  WiredWhenDone'
  <1>. USE DEF WiredWhenDone
  <1>1. CASE last' \in {"none", "running", "stopped", "destroyed"}
    BY <1>1
  <1>2. CASE Done
    <2>1. run.step = "end" /\ last' = run.outcome /\ UNCHANGED <<cfg, dns, outside>>
      BY <1>2 DEF Done, Ends
    <2>2. Cname' = Cname
      BY <2>1, CnameKept DEF outside
    <2>3. last' # "dark" => \A d \in cfg.domains : Wired(d)
      BY <2>1, WiredAtEnd DEF StepParts
    <2>. QED
      BY <2>1, <2>2, <2>3 DEF Wired, outside, Address, Record
  <1>3. CASE NoChanges
    BY <1>3 DEF NoChanges
  <1>4. ASSUME NEW t \in Tunnels, RestartAgents(t)
        PROVE  WiredWhenDone'
    BY <1>4, RestartAgentsKeeps DEF Wired, Tunnels, Address, Record
  <1>5. CASE UNCHANGED ingress_vars
    BY <1>5, CnameKept DEF ingress_vars, outside, Wired, Address, Record
  <1>. QED
    BY <1>1, <1>2, <1>3, <1>4, <1>5, LastChanges DEF StepParts

\* The plan without a change has read what serving takes.
LEMMA StepServed ==
    ASSUME Types, Types', StepParts, NoChangesIsServed, [IngressNext]_ingress_vars
    PROVE  NoChangesIsServed'
  <1>. USE DEF NoChangesIsServed
  <1>1. CASE last' \in {"none", "running", "stopped", "destroyed"}
    BY <1>1
  <1>2. CASE Done
    <2>1. last' \in Outcomes
      BY <1>2 DEF Done, Ends, Types, RunTypes
    <2>. QED
      BY <2>1 DEF Outcomes
  <1>3. CASE NoChanges
    <2>1. /\ UNCHANGED <<cfg, dns, web, caddy>>
          /\ \E forDns, forCaddy \in RoutesRead :
                ~ PlanDns(forDns) /\ ~ PlanFirewall /\ ~ PlanCaddy(forCaddy)
      BY <1>3 DEF NoChanges, InfraChanges, outside
    <2>2. ASSUME cfg.mode = "caddy", NEW d \in cfg.domains
          PROVE  web /\ Listed(d) /\ caddy.deployed /\ d \in caddy.routes
      <3>1. Public
        BY <2>2 DEF Public
      <3>. QED
        BY <2>1, <2>2, <3>1, UnchangedIsRead
        DEF PlanDns, PlanFirewall, Types, ConfigTypes, Configs
    <2>. QED
      BY <2>1, <2>2 DEF Serves, Wired, Listed, Address, Record
  <1>4. ASSUME NEW t \in Tunnels, RestartAgents(t)
        PROVE  NoChangesIsServed'
    <2>1. UNCHANGED <<cfg, dns, web, caddy, last>>
      BY <1>4 DEF RestartAgents
    <2>. QED
      BY <2>1 DEF Serves, Wired, Address, Record
  <1>5. CASE UNCHANGED ingress_vars
    BY <1>5 DEF ingress_vars, outside, Serves, Wired, Address, Record
  <1>. QED
    BY <1>1, <1>2, <1>3, <1>4, <1>5, LastChanges DEF StepParts

\* The run that ends without a warning has swept the other way in.
LEMMA StepOneIngress ==
    ASSUME Types, Types', StepParts, OneIngress, [IngressNext]_ingress_vars
    PROVE  OneIngress'
  <1>. USE DEF OneIngress
  <1>1. CASE last' \in {"none", "running", "stopped", "destroyed"}
    BY <1>1
  <1>2. CASE Done
    <2>1. run.step = "end" /\ last' = run.outcome /\ UNCHANGED <<cfg, caddy, agents>>
      BY <1>2 DEF Done, Ends, outside
    <2>. QED
      BY <2>1 DEF StepParts, OtherIngressGone, AfterSweep, Public, Types, ConfigTypes, Configs
  <1>3. CASE NoChanges
    BY <1>3 DEF NoChanges
  <1>4. ASSUME NEW t \in Tunnels, RestartAgents(t)
        PROVE  OneIngress'
    BY <1>4, RestartAgentsKeeps
  <1>5. CASE UNCHANGED ingress_vars
    BY <1>5 DEF ingress_vars, outside
  <1>. QED
    BY <1>1, <1>2, <1>3, <1>4, <1>5, LastChanges DEF StepParts

\* The run that ends has removed the orphans; later steps track no other.
LEMMA StepOrphansRemoved ==
    ASSUME Types, Types', StepParts, TrackedIsRouted, OrphansRemoved,
           [IngressNext]_ingress_vars
    PROVE  OrphansRemoved'
  <1>. USE DEF OrphansRemoved, Public, Absent, Record
  <1>1. CASE last' \in {"none", "running", "stopped", "destroyed"}
    BY <1>1
  <1>2. CASE Done
    <2>1. run.step = "end" /\ UNCHANGED <<cfg, dns, tracked>>
      BY <1>2 DEF Done
    <2>. QED
      BY <2>1 DEF StepParts, OrphansOfStep, AfterUnroute, AfterRoute
  <1>3. CASE NoChanges
    <2>1. UNCHANGED <<cfg, dns, tracked>> /\ \E routes \in RoutesRead : ~ PlanCaddy(routes)
      BY <1>3 DEF NoChanges
    <2>. QED
      BY <2>1, UnchangedIsRead DEF TrackedIsRouted
  <1>4. ASSUME NEW t \in Tunnels, RestartAgents(t)
        PROVE  OrphansRemoved'
    BY <1>4 DEF RestartAgents
  <1>5. CASE UNCHANGED ingress_vars
    BY <1>5 DEF ingress_vars
  <1>. QED
    BY <1>1, <1>2, <1>3, <1>4, <1>5, LastChanges DEF StepParts

----------------------------------------------------------------------------
(***************************************************************************)
(* The invariant, and what follows from it.                                *)
(***************************************************************************)
LEMMA InitInvariant == IngressInit => IInv
  <1>. SUFFICES ASSUME IngressInit
                PROVE  IInv
    OBVIOUS
  <1>1. TypeOK
    BY InitTypes
  <1>2. StepParts
    <2>1. run.step \in OffSteps
      BY DEF IngressInit, Idle, OffSteps
    <2>. QED
      BY <2>1, OffStepsHold
  <1>3. TrackedIsRouted
    BY DEF IngressInit, TrackedIsRouted
  <1>4. WiredWhenDone /\ NoChangesIsServed /\ OneIngress /\ OrphansRemoved
    BY DEF IngressInit, WiredWhenDone, NoChangesIsServed, OneIngress, OrphansRemoved
  <1>. QED
    BY <1>1, <1>2, <1>3, <1>4 DEF IInv, StepParts

\* Every step keeps the invariant.
LEMMA StepInvariant == IInv /\ [IngressNext]_ingress_vars => IInv'
  <1>. SUFFICES ASSUME IInv, [IngressNext]_ingress_vars
                PROVE  IInv'
    OBVIOUS
  <1>. USE DEF IInv
  <1>1. TypeOK' /\ Types /\ Types'
    BY StepTypes, TypeParts
  <1>2. ModeOfStep' /\ WebOfStep' /\ DnsOfStep' /\ CaddyOfStep'
    BY <1>1, StepMode, StepWeb, StepDns, StepCaddy
  <1>3. CloudflareOfStep' /\ NgrokOfStep' /\ CnamesOfStep'
    BY <1>1, StepCloudflare, StepNgrok, StepCnames
  <1>4. OtherIngressGone' /\ TrackedIsRouted' /\ OrphansOfStep'
    BY <1>1, StepOther, StepTracked, StepOrphans
  <1>5. WiredWhenDone' /\ NoChangesIsServed' /\ OneIngress' /\ OrphansRemoved'
    BY <1>1, StepWired, StepServed, StepOneIngress, StepOrphansRemoved DEF StepParts
  <1>. QED
    BY <1>1, <1>2, <1>3, <1>4, <1>5

\* The invariant holds in every state.
LEMMA Invariant == IngressSpec => []IInv
  BY InitInvariant, StepInvariant, PTL DEF IngressSpec

\* Ingress keeps its variables in shape, however runs stop and pods restart.
THEOREM TypeCorrect == IngressSpec => []TypeOK
  <1>1. IInv => TypeOK
    BY DEF IInv
  <1>. QED
    BY <1>1, Invariant, PTL

\* reconcile.go:254: a deploy that ends without an error leaves every domain
\* wired, whichever modes and stopped runs came before.
THEOREM WiredCorrect == IngressSpec => []WiredWhenDone
  <1>1. IInv => WiredWhenDone
    BY DEF IInv
  <1>. QED
    BY <1>1, Invariant, PTL

\* reconcile.go:141: in Caddy mode "No changes." is never said of a domain
\* that is not served.
THEOREM NoChangesCorrect == IngressSpec => []NoChangesIsServed
  <1>1. IInv => NoChangesIsServed
    BY DEF IInv
  <1>. QED
    BY <1>1, Invariant, PTL

\* ingress.go:48, 193: after a deploy whose sweeps succeeded only the
\* configured way in is left.
THEOREM OneIngressCorrect == IngressSpec => []OneIngress
  <1>1. IInv => OneIngress
    BY DEF IInv
  <1>. QED
    BY <1>1, Invariant, PTL

\* reconcile.go:410: no stop between a route and its reload lets a record that
\* Caddy knew, and answered of when it was asked, outlive its domain.
THEOREM OrphansCorrect == IngressSpec => []OrphansRemoved
  <1>1. IInv => OrphansRemoved
    BY DEF IInv
  <1>. QED
    BY <1>1, Invariant, PTL

----------------------------------------------------------------------------
(***************************************************************************)
(* RedeployKeepsServing, step by step.                                     *)
(***************************************************************************)
LEMMA KeepsServing ==
    ASSUME IInv, [IngressNext]_ingress_vars, NEW d \in cfg.domains,
           Serves(d), cfg' = cfg, run.step \notin TeardownSteps, ~ RestartCaddy
    PROVE  Serves(d)'
  <1>1. Types /\ Types'
    BY StepTypes, TypeParts DEF IInv
  <1>. USE <1>1 DEF Types, IInv, ConfigTypes, Configs
  <1>. d \in Domains
    OBVIOUS
  <1>2. ASSUME UNCHANGED <<dns, web, caddy, tunnel, reserved, agents>>
        PROVE  Serves(d)'
    <2>1. Cname' = Cname
      BY <1>2, CnameKept
    <2>. QED
      BY <1>2, <2>1 DEF Serves, Wired, Address, Record
  \* In Caddy's mode the record, the route and the firewall stay.
  <1>3. ASSUME Public, web' = web, dns'[d] = dns[d],
               caddy.deployed => caddy'.deployed, d \in caddy.routes => d \in caddy'.routes
        PROVE  Serves(d)'
    BY <1>3 DEF Serves, Wired, Public, Address, Record
  <1>4. CASE CaddyActions
    <2>1. Public /\ web' = web /\ dns[d] = Address
      BY <1>4, CaddyActionsKeep DEF Serves, Wired, Public
    <2>2. CASE RouteDomain
      <3>1. PICK e \in run.left :
                \/ Unblock(e, Address)
                \/ Write(e, Address, "orphans", {})
        BY <2>2 DEF RouteDomain
      <3>2. dns'[d] = dns[d]
        BY <2>1, <3>1 DEF Unblock, Write, Blocked, DnsTypes
      <3>3. caddy' = caddy
        BY <3>1 DEF Unblock, Write, outside
      <3>. QED
        BY <1>3, <2>1, <3>2, <3>3
    <2>3. CASE UnrouteOrphan
      <3>1. d \notin run.left /\ caddy' = caddy
        BY <2>1, <2>3 DEF UnrouteOrphan, DnsOfStep, outside
      <3>2. dns'[d] = dns[d]
        BY <2>3, <3>1 DEF UnrouteOrphan, DnsTypes
      <3>. QED
        BY <1>3, <2>1, <3>1, <3>2
    <2>4. CASE ReadOrphans \/ OrphansUnrouted \/ SweepAgents
      BY <1>3, <2>1, <2>4 DEF ReadOrphans, OrphansUnrouted, SweepAgents, outside
    <2>5. CASE EnsureCaddy
      BY <1>3, <2>1, <2>5 DEF EnsureCaddy, CaddyTypes
    <2>6. CASE ReloadCaddyConfig
      BY <1>3, <2>1, <2>6 DEF ReloadCaddyConfig, CaddyTypes
    <2>. QED
      BY <1>4, <2>2, <2>3, <2>4, <2>5, <2>6 DEF CaddyActions
  <1>5. CASE TunnelActions
    <2>. cfg.mode \in Tunnels
      BY <1>5, TunnelActionsKeep
    <2>1. CASE CreateTunnel
      BY <2>1 DEF CreateTunnel, Serves, Wired, Cname, Record, Tunnels
    <2>2. CASE PushConfig
      <3>1. /\ cfg.mode = "cloudflare" /\ UNCHANGED <<dns, agents>>
            /\ tunnel'.id = tunnel.id /\ d \in tunnel'.routes
        BY <2>2 DEF PushConfig, ModeOfStep, ProviderTypes
      <3>2. Cname' = Cname
        BY <3>1 DEF Cname, Record
      <3>. QED
        BY <3>1, <3>2 DEF Serves, Wired
    <2>3. CASE EnsureDomain
      <3>1. /\ cfg.mode = "ngrok" /\ UNCHANGED <<dns, agents, tunnel>>
            /\ reserved \subseteq reserved'
        BY <2>3 DEF EnsureDomain, ModeOfStep
      <3>2. Cname' = Cname
        BY <3>1, CnameKept
      <3>. QED
        BY <3>1, <3>2 DEF Serves, Wired
    <2>4. CASE ApplyToken
      <3>1. UNCHANGED <<dns, tunnel, reserved>>
        BY <2>4 DEF ApplyToken
      <3>2. Cname' = Cname
        BY <3>1, CnameKept
      <3>3. CASE cfg.mode = "cloudflare"
        <4>1. /\ agents'["cloudflare"].deployed = agents["cloudflare"].deployed
              /\ agents'["cloudflare"].runs = agents["cloudflare"].runs
              /\ agents'["cloudflare"].told = tunnel.id
          BY <2>4, <3>3 DEF ApplyToken, AgentTypes, Tunnels
        <4>. QED
          BY <3>1, <3>2, <3>3, <4>1 DEF Serves, Wired
      <3>4. CASE cfg.mode = "ngrok"
        <4>1. /\ agents'["ngrok"].deployed = agents["ngrok"].deployed
              /\ agents'["ngrok"].runs = agents["ngrok"].runs
              /\ agents'["ngrok"].told = cfg.domains
          BY <2>4, <3>4 DEF ApplyToken, AgentTypes, Tunnels
        <4>. QED
          BY <3>1, <3>2, <3>4, <4>1 DEF Serves, Wired
      <3>. QED
        BY <3>3, <3>4 DEF Tunnels
    <2>5. CASE ApplyAgents
      <3>1. agents[cfg.mode].deployed
        BY DEF Serves, Wired, Tunnels
      <3>. QED
        BY <1>2, <2>5, <3>1 DEF ApplyAgents
    <2>6. CASE SweepCaddy
      <3>1. UNCHANGED <<dns, tunnel, reserved, agents>>
        BY <2>6 DEF SweepCaddy
      <3>2. Cname' = Cname
        BY <3>1, CnameKept
      <3>. QED
        BY <3>1, <3>2 DEF Serves, Wired, Tunnels
    <2>7. CASE RouteToTunnel
      <3>1. PICK e \in run.left : Unblock(e, Cname) \/ Write(e, Cname, "end", {})
        BY <2>7 DEF RouteToTunnel
      <3>2. dns[d] = Cname
        BY DEF Serves, Wired, Tunnels
      <3>3. UNCHANGED <<web, caddy, tunnel, reserved, agents>>
        BY <3>1 DEF Unblock, Write, outside
      <3>4. dns'[d] = dns[d] /\ Cname' = Cname
        BY <3>1, <3>2, <3>3, CnameKept DEF Unblock, Write, Blocked, DnsTypes
      <3>. QED
        BY <3>3, <3>4 DEF Serves, Wired, Tunnels
    <2>. QED
      BY <1>5, <2>1, <2>2, <2>3, <2>4, <2>5, <2>6, <2>7 DEF TunnelActions
  <1>6. CASE OtherActions
    <2>1. CASE NoChanges \/ Done \/ TeardownBegins \/ Stop \/ EditConfig
      BY <1>2, <2>1 DEF NoChanges, Done, TeardownBegins, Stop, EditConfig, outside
    <2>2. CASE TeardownDns \/ TeardownInfra \/ TeardownTunnel
      BY <2>2 DEF TeardownDns, TeardownInfra, TeardownTunnel, TeardownSteps
    <2>. QED
      BY <1>6, <2>1, <2>2 DEF OtherActions
  <1>7. ASSUME NEW other, Begin(other)
        PROVE  Serves(d)'
    BY <1>2, <1>7 DEF Begin, outside
  <1>8. CASE Infra
    <2>1. UNCHANGED <<dns, caddy, tunnel, reserved, agents>> /\ web' \in {web, Public}
      BY <1>8 DEF Infra
    <2>2. Cname' = Cname
      BY <2>1, CnameKept
    <2>. QED
      BY <2>1, <2>2 DEF Serves, Wired, Public, Address, Record
  <1>9. ASSUME NEW t \in Tunnels, RestartAgents(t)
        PROVE  Serves(d)'
    <2>1. \A u \in Tunnels : /\ agents'[u].deployed = agents[u].deployed
                             /\ agents'[u].told = agents[u].told
                             /\ agents'[u].runs \in {agents[u].runs, agents[u].told}
      BY <1>9, RestartAgentsKeeps
    <2>2. UNCHANGED <<dns, web, caddy, tunnel, reserved>> /\ Cname' = Cname
      BY <1>9, RestartAgentsKeeps
    <2>. QED
      BY <2>1, <2>2 DEF Serves, Wired, Tunnels, Address, Record
  <1>10. CASE UNCHANGED ingress_vars
    BY <1>2, <1>10 DEF ingress_vars, outside
  <1>. QED
    BY <1>4, <1>5, <1>6, <1>7, <1>8, <1>9, <1>10, ActionKinds

\* ingress.go:14, 142: no step of a deploy, in any mode, takes away a domain
\* that its configuration already has served.
THEOREM RedeployCorrect == IngressSpec => RedeployKeepsServing
  <1>1. ASSUME IInv, [IngressNext]_ingress_vars
        PROVE  [\A d \in cfg.domains :
                   Serves(d) /\ cfg' = cfg /\ run.step \notin TeardownSteps /\ ~ RestartCaddy
                       => Serves(d)']_ingress_vars
    BY <1>1, KeepsServing
  <1>. QED
    BY <1>1, Invariant, PTL DEF IngressSpec, RedeployKeepsServing
=============================================================================
