-------------------------------- MODULE Aws --------------------------------
(***************************************************************************)
(* The calls AWS's operations come down to. An operation whose calls       *)
(* depend on what is live when it starts is itself a call, expanded then.  *)
(***************************************************************************)
EXTENDS Cloud

LiveVolumes == DOMAIN volumes \ Foreign

----------------------------------------------------------------------------
(* Resources.                                                              *)

\* A security group starts empty; its rules are a second call.
EnsureFirewall(f) ==
    IF f \in DOMAIN firewalls THEN <<>>
    ELSE <<Call("CreateFirewall", f, {}), Call("AddRules", f, Base)>>

\* A VPC that is there is taken as it is, and must have its subnet.
EnsureNetwork ==
    IF network = {}
    THEN << Call("CreateNetwork", {"vpc"}, ""), Call("CreateNetwork", {"subnet"}, ""),
            Call("CreateNetwork", {"route"}, "") >>
    ELSE IF "subnet" \in network THEN <<>> ELSE Fail

\* Without the security group the instance stays where it is.
ReconcileServerFirewall(s, f) ==
    IF f \notin DOMAIN firewalls \/ servers[s].fw = f THEN <<>>
    ELSE <<Call("Protect", s, f)>>

EnsureServer(s, r) ==
    IF s \in DOMAIN servers THEN ReconcileServerFirewall(s, r)
    ELSE EnsureNetwork \o EnsureFirewall(r) \o <<Call("LaunchServer", s, r)>>

\* Every rule is revoked before the wanted ones are authorized.
ReconcileRules(f, rules) ==
    IF f \notin DOMAIN firewalls THEN Fail
    ELSE (IF firewalls[f] = {} THEN <<>> ELSE <<Call("RevokeRules", f, firewalls[f])>>)
         \o <<Call("AddRules", f, rules)>>

DeleteServer(s) ==
    Each(Holding(s), LAMBDA v : <<Call("AttachVolume", v, "none")>>)
    \o <<Call("DestroyServer", s, "")>>

\* Detaching may fail unnoticed; the next call then does.
DetachVolume(v) ==
    IF Attached(v) = "none" THEN <<>> ELSE Warned(<<Call("AttachVolume", v, "none")>>)

EnsureVolume(v, s) ==
    IF s \notin DOMAIN servers THEN Fail
    ELSE (IF v \in DOMAIN volumes THEN <<>> ELSE <<Call("CreateVolume", v, "blank")>>)
         \o (IF Attached(v) = s THEN <<>>
             ELSE DetachVolume(v) \o <<Call("AttachVolume", v, s)>>)

DeleteVolume(v) ==
    IF v \notin DOMAIN volumes THEN <<>>
    ELSE DetachVolume(v) \o <<Call("DropVolume", v, "")>>

DeleteNetwork ==
    IF network = {} THEN <<>>
    ELSE <<Call("StripNetwork", "", ""), Call("DropNetwork", "", "")>>

----------------------------------------------------------------------------
(* Attaching and converging.                                               *)

FindMaster == IF MasterLabelled = {} THEN Fail ELSE <<>>

Connect ==
    IF borrowed THEN <<>>
    ELSE <<Call("FindMaster", "", ""), Call("Reach", Master, ""), Call("Tunnel", Master, "")>>

ProvisionServer(s) ==
    <<Call("EnsureServer", s, cfg.role[s]), Call("Reach", s, "")>>
    \o (IF cfg.role[s] = "worker"
        THEN <<Call("FindMaster", "", ""), Call("Join", s, "")>>
        ELSE <<Call("InstallMaster", s, "")>>)
    \o <<Call("Label", s, "")>>

ApplyFirewall(f, rules) == <<Call("ReconcileRules", f, rules)>>

ProvisionVolume(v) ==
    LET s == cfg.volume[v]
    IN <<Call("EnsureVolume", v, s), Call("Reach", s, ""), Call("MountVolume", v, s)>>

Bootstrap ==
    Each(WithRole("master"), ProvisionServer)
    \o Each(WithRole("worker"), ProvisionServer)
    \o ApplyFirewall("master", DesiredRules("master"))
    \o (IF WithRole("worker") = {} THEN <<>> ELSE ApplyFirewall("worker", Base))
    \o Each(DOMAIN cfg.volume, ProvisionVolume)
    \o <<Call("Connect", "", "")>>

ProvisionBuilder(s) ==
    << Call("EnsureServer", s, "builder"), Call("Reach", s, ""),
       Call("EnsureVolume", Cache(s), s), Call("MountVolume", Cache(s), s),
       Call("FinishPart", s, "docker") >>

ProvisionBuilders ==
    IF WithRole("builder") = {} THEN <<>>
    ELSE ApplyFirewall("builder", Base) \o Each(WithRole("builder"), ProvisionBuilder)

----------------------------------------------------------------------------
(* Taking away.                                                            *)

DrainAndDeleteServer(s) == IF s \in DOMAIN servers THEN DeleteServer(s) ELSE <<>>

UnmountAndDeleteVolume(v) ==
    IF v \notin LiveVolumes THEN <<>>
    ELSE Each(DOMAIN servers,
              LAMBDA s : Warned(<<Call("Reach", s, ""), Call("UnmountVolume", v, s)>>))
         \o <<Call("DeleteVolume", v, "")>>

SweepFirewalls(desired) ==
    Each(DOMAIN firewalls \ desired, LAMBDA f : Warned(<<Call("DropFirewall", f, "")>>))

TeardownOrphans ==
    IF DOMAIN servers = {} THEN <<>>
    ELSE Each(DOMAIN servers \ Declared, LAMBDA s : <<Call("RemoveServer", s, "")>>)
         \o (IF cfg.custom THEN <<Call("SweepFirewalls", DesiredFirewalls, "")>> ELSE <<>>)
         \o Each(LiveVolumes \ DesiredVolumes,
                 LAMBDA v : Warned(<<Call("RemoveVolume", v, "")>>))

Teardown(deleteVolumes) ==
    LET Gone(v) == Collected(<<Call("RemoveVolume", v, "")>>)
        Nuke(s) == Collected(<<Call("RemoveServer", s, "")>>)
    IN (IF deleteVolumes THEN Each(DOMAIN cfg.volume, Gone) ELSE <<>>)
       \o Each({Cache(s) : s \in WithRole("builder")}, Gone)
       \o Each(WithRole("builder"), Nuke)
       \o Each(WithRole("worker"), Nuke)
       \o Each(WithRole("master"), Nuke)
       \o <<Call("SweepFirewalls", {}, "")>>
       \o Collected(<<Call("DeleteNetwork", "", "")>>)
============================================================================
