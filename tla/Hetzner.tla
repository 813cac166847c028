------------------------------ MODULE Hetzner ------------------------------
(***************************************************************************)
(* The calls Hetzner's operations come down to. An operation whose calls   *)
(* depend on what is live when it starts is itself a call, expanded then.  *)
(***************************************************************************)
EXTENDS Cloud

LiveVolumes == DOMAIN volumes \ Foreign

----------------------------------------------------------------------------
(* Resources.                                                              *)

EnsureFirewall(f) ==
    IF f \in DOMAIN firewalls THEN <<>> ELSE <<Call("CreateFirewall", f, Base)>>

EnsureNetwork ==
    IF network # {} THEN <<>> ELSE <<Call("CreateNetwork", Networking, "")>>

\* The firewall a server should not be behind is detached first.
ReconcileServerFirewall(s, f) ==
    EnsureFirewall(f)
    \o (IF servers[s].fw \in {f, "none"} THEN <<>> ELSE <<Call("Protect", s, "none")>>)
    \o (IF servers[s].fw = f THEN <<>> ELSE <<Call("Protect", s, f)>>)

EnsureServer(s, r) ==
    IF s \in DOMAIN servers THEN ReconcileServerFirewall(s, r)
    ELSE EnsureFirewall(r) \o EnsureNetwork \o <<Call("LaunchServer", s, r)>>

ReconcileRules(f, rules) ==
    IF f \in DOMAIN firewalls THEN <<Call("ReplaceRules", f, rules)>> ELSE Fail

DeleteServer(s) ==
    (IF servers[s].fw = "none" THEN <<>> ELSE <<Call("Protect", s, "none")>>)
    \o Each(Holding(s), LAMBDA v : <<Call("AttachVolume", v, "none")>>)
    \o <<Call("DestroyServer", s, "")>>

DetachVolume(v) ==
    IF Attached(v) = "none" THEN <<>> ELSE <<Call("AttachVolume", v, "none")>>

\* Mutant: a volume that exists is taken as it is.
EnsureVolumeWhereItIs(v, s) ==
    IF s \notin DOMAIN servers THEN Fail
    ELSE IF v \in DOMAIN volumes THEN <<>>
    ELSE <<Call("CreateVolume", v, "empty"), Call("AttachVolume", v, s)>>

EnsureVolume(v, s) ==
    IF s \notin DOMAIN servers THEN Fail
    ELSE (IF v \in DOMAIN volumes THEN <<>> ELSE <<Call("CreateVolume", v, "empty")>>)
         \o (IF Attached(v) = s THEN <<>>
             ELSE DetachVolume(v) \o <<Call("AttachVolume", v, s)>>)

DeleteVolume(v) ==
    IF v \notin DOMAIN volumes THEN <<>>
    ELSE DetachVolume(v) \o <<Call("DropVolume", v, "")>>

DeleteNetwork == IF network = {} THEN <<>> ELSE <<Call("DropNetwork", "", "")>>

----------------------------------------------------------------------------
(* Attaching and converging.                                               *)

FindMaster == IF MasterLabelled = {} THEN Fail ELSE <<Call("PrivateIP", Master, "")>>

Connect ==
    IF borrowed THEN <<>>
    ELSE <<Call("FindMaster", "", ""), Call("Reach", Master, ""), Call("Tunnel", Master, "")>>

ProvisionServer(s) ==
    <<Call("EnsureServer", s, cfg.role[s]), Call("PrivateIP", s, ""), Call("Reach", s, "")>>
    \o (IF cfg.role[s] = "worker"
        THEN <<Call("FindMaster", "", ""), Call("Join", s, "")>>
        ELSE <<Call("InstallMaster", s, "")>>)
    \o <<Call("Label", s, "")>>

ApplyFirewall(f, rules) == <<Call("ReconcileRules", f, rules)>>

ProvisionVolume(v) ==
    LET s == cfg.volume[v]
    IN <<Call("EnsureVolume", v, s), Call("Reach", s, ""), Call("MountVolume", v, s)>>

Bootstrap ==
    Each(WithRole("master"), ProvisionServer)
    \o Each(WithRole("worker"), ProvisionServer)
    \o ApplyFirewall("master", DesiredRules("master"))
    \o (IF WithRole("worker") = {} THEN <<>> ELSE ApplyFirewall("worker", Base))
    \o Each(DOMAIN cfg.volume, ProvisionVolume)
    \o <<Call("Connect", "", "")>>

ProvisionBuilder(s) ==
    << Call("EnsureServer", s, "builder"), Call("Reach", s, ""),
       Call("EnsureVolume", Cache(s), s), Call("MountVolume", Cache(s), s),
       Call("FinishPart", s, "docker") >>

ProvisionBuilders ==
    IF WithRole("builder") = {} THEN <<>>
    ELSE ApplyFirewall("builder", Base) \o Each(WithRole("builder"), ProvisionBuilder)

----------------------------------------------------------------------------
(* Taking away.                                                            *)

DrainAndDeleteServer(s) == IF s \in DOMAIN servers THEN DeleteServer(s) ELSE <<>>

UnmountAndDeleteVolume(v) ==
    IF v \notin LiveVolumes THEN <<>>
    ELSE Each(DOMAIN servers,
              LAMBDA s : Warned(<<Call("Reach", s, ""), Call("UnmountVolume", v, s)>>))
         \o <<Call("DeleteVolume", v, "")>>

SweepFirewalls(desired) ==
    Each(DOMAIN firewalls \ desired, LAMBDA f : Warned(<<Call("DropFirewall", f, "")>>))

\* Mutant: without a firewall: block no firewall is swept.
TeardownOrphansGated ==
    IF DOMAIN servers = {} THEN <<>>
    ELSE Each(DOMAIN servers \ Declared, LAMBDA s : <<Call("RemoveServer", s, "")>>)
         \o (IF cfg.custom THEN <<Call("SweepFirewalls", DesiredFirewalls, "")>> ELSE <<>>)
         \o Each(LiveVolumes \ DesiredVolumes,
                 LAMBDA v : Warned(<<Call("RemoveVolume", v, "")>>))

TeardownOrphans ==
    IF DOMAIN servers = {} THEN <<>>
    ELSE Each(DOMAIN servers \ Declared, LAMBDA s : <<Call("RemoveServer", s, "")>>)
         \o <<Call("SweepFirewalls", DesiredFirewalls, "")>>
         \o Each(LiveVolumes \ DesiredVolumes,
                 LAMBDA v : Warned(<<Call("RemoveVolume", v, "")>>))

\* Mutant: a server that could not be deleted is only warned of.
TeardownWarns(deleteVolumes) ==
    Each(DOMAIN servers, LAMBDA s : Warned(<<Call("RemoveServer", s, "")>>))
    \o <<Call("SweepFirewalls", {}, "")>>
    \o Collected(<<Call("DeleteNetwork", "", "")>>)

Teardown(deleteVolumes) ==
    LET Gone(v) == Collected(<<Call("RemoveVolume", v, "")>>)
        Nuke(s) == Collected(<<Call("RemoveServer", s, "")>>)
    IN (IF deleteVolumes THEN Each(DOMAIN cfg.volume, Gone) ELSE <<>>)
       \o Each({Cache(s) : s \in WithRole("builder")}, Gone)
       \o Each(WithRole("builder"), Nuke)
       \o Each(WithRole("worker"), Nuke)
       \o Each(WithRole("master"), Nuke)
       \o <<Call("SweepFirewalls", {}, "")>>
       \o Collected(<<Call("DeleteNetwork", "", "")>>)
============================================================================
