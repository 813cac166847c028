------------------------------ MODULE MCDeploy ------------------------------
(* Configurations for model-checking Deploy.                               *)
EXTENDS DeployProperties

CONSTANTS web, api, job,       \* names
          db,                  \* a database
          shop, blog,          \* domains
          m, w1, w2,           \* servers
          files, media,        \* buckets, media with a name of its own
          img, img2, std, big, key

NoFcn == [x \in {} |-> NoVal]

\* One entry added to a function, or put over the one it has.
With(f, x, v) == [y \in DOMAIN f \cup {x} |-> IF y = x THEN v ELSE f[y]]

Without(f, x) == [y \in DOMAIN f \ {x} |-> f[y]]

PullOnly == [image |-> img, built |-> FALSE, spec |-> std, stateful |-> FALSE,
             deps |-> {}, secrets |-> {}, dbs |-> {}]

Built == [PullOnly EXCEPT !.built = TRUE]

Nightly == [image |-> img, schedule |-> std, secrets |-> {key}]

OnW1 == [server |-> w1, backup |-> FALSE]

Empty == [servers |-> {m}, services |-> NoFcn, crons |-> NoFcn,
          databases |-> NoFcn, domains |-> NoFcn, storage |-> {},
          registry |-> TRUE]

\* A pulled service that uses a database and a secret, and one behind it.
Shop ==
    [Empty EXCEPT
        !.servers = {m, w1},
        !.services = With(With(NoFcn, web, [Built EXCEPT !.deps = {api}]),
                          api, [PullOnly EXCEPT !.dbs = {db}]),
        !.crons = With(NoFcn, job, Nightly),
        !.databases = With(NoFcn, db, OnW1),
        !.domains = With(NoFcn, shop, web)]

\* The database, the cron, the domain and a secret change; no domain is left.
NoDatabase ==
    [Shop EXCEPT !.servers = {m}, !.databases = NoFcn, !.crons = NoFcn,
                 !.domains = NoFcn, !.services[api].dbs = {},
                 !.services[api].secrets = {key}, !.services[api].image = img2]

\* The database asked to move, its old server kept; another domain; a bucket.
Moved ==
    [Shop EXCEPT !.servers = {m, w1, w2}, !.databases[db].server = w2,
                 !.domains = With(NoFcn, blog, web), !.storage = {media}]

ShopConfigs == {Shop, NoDatabase, Moved}

Backed(databases) == [d \in DOMAIN databases |-> [databases[d] EXCEPT !.backup = TRUE]]

\* The same with nothing built and no bucket named, so that a run may find
\* nothing to do, and with backups.
Plain(c) == [c EXCEPT !.services[web].built = FALSE, !.registry = FALSE,
                      !.databases = Backed(@), !.storage = @ \ {media}]

PlainConfigs ==
    {Plain(Shop), Plain(Moved),
     [Plain(Shop) EXCEPT !.registry = TRUE, !.storage = {files}],
     [Plain(Shop) EXCEPT !.crons[job].schedule = big,
                         !.services[api].secrets = {key},
                         !.services[web].image = img2],
     [Plain(NoDatabase) EXCEPT !.services = Without(@, api),
                               !.services[web].deps = {}]}

SweepConfigs ==
    {Plain(Shop),
     [Plain(NoDatabase) EXCEPT !.services = Without(@, api),
                               !.services[web].deps = {},
                               !.domains = With(NoFcn, blog, web)]}

\* For liveness: no database, and every service built.
Small ==
    [Empty EXCEPT !.services = With(NoFcn, web, Built),
                  !.crons = With(NoFcn, job, Nightly),
                  !.domains = With(NoFcn, shop, web)]

BuiltConfigs ==
    {Small,
     [Small EXCEPT !.servers = {m, w1}, !.services[web].secrets = {key},
                   !.services[web].stateful = FALSE, !.crons = NoFcn,
                   !.domains = With(NoFcn, blog, web)]}

\* One edit each.
One == [Empty EXCEPT !.services = With(NoFcn, web, PullOnly)]

OneConfigs == {One}

DbOn(s, all) ==
    [One EXCEPT !.servers = all, !.services[web].dbs = {db},
                !.databases = With(NoFcn, db, [server |-> s, backup |-> FALSE])]

\* The read of Caddy's routes, which each planner and RouteDomains make.
RouteReads == {<<"dns", NoVal>>, <<"caddy", NoVal>>, <<"unroute", NoVal>>}

\* All but the one of planRouteDomains, which a plan needs to list every
\* deletion of a record.
OtherReads == {<<"caddy", NoVal>>, <<"unroute", NoVal>>}

\* Reads about the workloads a sweep may have left.
WorkloadReads ==
    {<<"Deployment", web>>, <<"service keys", api>>, <<"CronJob", job>>,
     <<"caddy", NoVal>>}

DbMoveConfigs == {DbOn(w1, {m, w1}), DbOn(w2, {m, w2})}
============================================================================
