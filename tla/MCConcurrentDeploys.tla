------------------------ MODULE MCConcurrentDeploys ------------------------
(* Two deploys, two services, three keys. *)
EXTENDS ConcurrentDeploys, TLC

CONSTANTS a, b, web, api, k, l, m, one, two

MCServices == {web, api}
MCObjects == {Secret(s) : s \in MCServices} \cup {Workload(s) : s \in MCServices}

\* Many entries; or one of them with a new value, and a service without.
MCConfigs ==
    { web :> (k :> one @@ l :> one @@ m :> one),
      (web :> (k :> two)) @@ (api :> <<>>) }
============================================================================
