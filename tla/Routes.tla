------------------------------- MODULE Routes -------------------------------
(***************************************************************************)
(* The commands that change routes and where they are published: `proxy    *)
(* access`, `config set`, `proxy export` (guided or not) and `proxy relay  *)
(* recommend` (src/commands/proxy.ts, config.ts, proxy-export-routes.ts,   *)
(* recommend.ts).  Each loads the configuration, works on what it loaded   *)
(* for as long as it takes (prompts, a catalog, pings), and saves that:    *)
(* commands in two terminals overwrite each other's whole configuration.   *)
(*                                                                         *)
(* The artifacts an export renders are Lifecycle's; here a render and its  *)
(* validation only succeed or fail.                                        *)
(***************************************************************************)
EXTENDS Selection

CONSTANTS
  Procs,            \* terminals
  Asks,             \* Asks[p]: the commands that may be given there
  GuidedSelectors,  \* the selectors that prompts may yield
  Catalogs,         \* the relays an export may be told of
  Latencies,        \* what pings may tell: host -> ms, 0 for no answer
  InitialConfigs,   \* what setup may have saved
  Nothing,          \* no catalog
  MaxCommands       \* bound: commands given in all

Modes == {"loopback", "private-network", "public"}
Accesses == {"published-routes", "inline-selector"}
IsList(s) == s \in Seq({s[i] : i \in DOMAIN s})

\* A catalog lists a relay once, and the order of relays knows it.
ASSUME CatalogsAssumption ==
  \A relays \in Catalogs :
    /\ IsFiniteSet(relays)
    /\ \A r \in relays :
         /\ r.host \in Seq(STRING) \ {<<>>} /\ r.host \in DOMAIN Rank
         /\ r.owned \in BOOLEAN /\ r.speed \in Nat
         /\ \A s \in relays : s.host = r.host => s = r
         /\ \A latency \in Latencies : latency[r.host] \in Nat

\* What the parser of the command line lets through.
ASSUME AsksAssumption ==
  \A p \in Procs : \A ask \in Asks[p] :
    /\ ask.kind \in {"access", "set", "export", "recommend"}
    /\ IsList(ask.tokens)
    /\ \A i \in DOMAIN ask.tokens :
         /\ ask.tokens[i].flag \in Flags
         /\ ask.tokens[i].flag = "count" => ask.tokens[i].value \in Nat
    /\ ask.kind = "access" =>
         ask.mode \in Modes \cup {""} /\ ask.access \in Accesses \cup {""} /\ ask.unsafe \in BOOLEAN
    /\ ask.kind = "set" /\ ask.key = "setup.access.mode" => ask.value \in Accesses \cup {"malformed"}

AreSelectors(selectors) ==
  /\ IsList(selectors)
  /\ \A i \in DOMAIN selectors :
       DOMAIN selectors[i] = SelectorFields /\ selectors[i].count \in Nat

ASSUME GuidedAssumption == \A selectors \in GuidedSelectors : AreSelectors(selectors)

ASSUME MaxCommandsAssumption == MaxCommands \in Nat

VARIABLES
  config,           \* the saved configuration
  run,              \* run[p]: the command p runs, or how its last one ended
  given             \* commands given so far

vars == <<config, run, given>>

Idle == [pc |-> "idle", ask |-> Nothing, held |-> Nothing, relays |-> {}, selectors |-> <<>>,
         recommended |-> <<>>, outcome |-> "none"]

Init == config \in InitialConfigs /\ run = [p \in Procs |-> Idle] /\ given = 0

-----------------------------------------------------------------------------
(* normalizeMullgateConfig: the shared host is the first route's address,  *)
(* and route ids are made different in their order.                        *)

BindHost(c) == c.routes[1].bindIp
BindIps(c) == [i \in DOMAIN c.routes |-> c.routes[i].bindIp]

Normal(c) ==
  LET ids == UniqueNames([i \in DOMAIN c.routes |-> c.routes[i].id])
  IN [c EXCEPT !.routes = [i \in DOMAIN @ |-> [@[i] EXCEPT !.id = ids[i]]],
               !.phase = "unvalidated"]

\* Slip: the status is set to what the message says.
StatusAsSaid(c, phase) == [c EXCEPT !.phase = IF phase = "validated" THEN "complete" ELSE phase]

WithStatus(c, phase) == [c EXCEPT !.phase = phase]

-----------------------------------------------------------------------------
(* updateExposureConfig.  An option that is not given is <<>> or "".       *)

NextMode(c, ask) == IF ask.mode = "" THEN c.mode ELSE ask.mode
NextAccess(c, ask) == IF ask.access = "" THEN c.access ELSE ask.access
NextDomain(c, ask) ==
  IF ask.domain # <<>> THEN ask.domain ELSE IF ask.clearDomain THEN <<>> ELSE c.domain

RequestedBindIps(c, ask) ==
  IF ask.ips # <<>> THEN ask.ips
  ELSE IF SharedHost(NextMode(c, ask), NextAccess(c, ask)) THEN <<BindHost(c)>>
  ELSE IF NextMode(c, ask) = "loopback" \/ (c.mode = "loopback" /\ ask.mode # "") THEN <<>>
  ELSE BindIps(c)

AccessVerdict(c, ask) ==
  LET verdict == ExposureVerdict(Len(c.routes), NextMode(c, ask), NextAccess(c, ask),
                                 NextDomain(c, ask), RequestedBindIps(c, ask))
  IN IF ask.domain # <<>> /\ ask.clearDomain THEN "both"
     ELSE IF verdict # "ok" THEN verdict
     ELSE IF ~AccessAllowed(NextMode(c, ask), NextAccess(c, ask), c.password,
                            ask.unsafe \/ c.unsafe) THEN "password"
     ELSE "ok"

WithExposure(c, ask) ==
  LET mode == NextMode(c, ask)
      access == NextAccess(c, ask)
      domain == NextDomain(c, ask)
      ips == RouteBindIps(Len(c.routes), mode, access, RequestedBindIps(c, ask))
      Moved(i) == [c.routes[i] EXCEPT !.bindIp = ips[i],
                     !.hostname = DeriveHostname(c.routes[i].alias, ips[i], domain, mode)]
  IN Normal([c EXCEPT !.mode = mode, !.access = access, !.domain = domain,
               !.unsafe = @ \/ ask.unsafe, !.byHand = FALSE,
               !.routes = [i \in DOMAIN c.routes |-> Moved(i)]])

(* config set: a field on its own, parsed, then put right with its like.    *)

EditableFields ==
  {"setup.bind.host", "setup.bind.httpsPort", "setup.auth.password", "setup.access.mode",
   "setup.access.allowUnsafePublicEmptyPassword", "setup.https.enabled", "setup.https.certPath",
   "setup.https.keyPath", "mullvad.deviceName"}

Nullable == {"setup.bind.httpsPort", "setup.https.certPath", "setup.https.keyPath"}

\* A path that is cleared parses as null, which the schema then refuses.
FieldVerdict(ask) ==
  IF ask.key \notin EditableFields THEN "not editable"
  ELSE IF ask.value = "malformed" THEN "malformed"
  ELSE IF ask.value = "null" /\ ask.key \in Nullable \ {"setup.bind.httpsPort"} THEN "schema"
  ELSE "ok"

NoHttps == [port |-> FALSE, enabled |-> FALSE, cert |-> FALSE, key |-> FALSE]
Enabled(https) == [https EXCEPT !.port = TRUE, !.enabled = TRUE]

\* Slip: without a port HTTPS stays enabled.
PortLeft(https, ask) ==
  CASE ask.key = "setup.bind.httpsPort" /\ ask.value = "null" -> [https EXCEPT !.port = FALSE]
    [] ask.key = "setup.https.enabled" /\ ask.value = "false" -> NoHttps
    [] ask.key = "setup.https.certPath" -> [Enabled(https) EXCEPT !.cert = TRUE]
    [] ask.key = "setup.https.keyPath" -> [Enabled(https) EXCEPT !.key = TRUE]
    [] OTHER -> Enabled(https)

\* A port enables HTTPS, enabling gives it a port, and a file both.
WithHttps(https, ask) ==
  CASE ask.key = "setup.bind.httpsPort" /\ ask.value = "null" -> NoHttps
    [] ask.key = "setup.https.enabled" /\ ask.value = "false" -> NoHttps
    [] ask.key = "setup.https.certPath" -> [Enabled(https) EXCEPT !.cert = TRUE]
    [] ask.key = "setup.https.keyPath" -> [Enabled(https) EXCEPT !.key = TRUE]
    [] OTHER -> Enabled(https)

\* byHand: the access settings were last changed without a look at the
\* addresses.  bind.host is put back to the first route's address.
WithField(c, ask) ==
  CASE ask.key = "setup.access.mode" -> Normal([c EXCEPT !.access = ask.value, !.byHand = TRUE])
    [] ask.key = "setup.auth.password" -> Normal([c EXCEPT !.password = ask.value, !.byHand = TRUE])
    [] ask.key = "setup.access.allowUnsafePublicEmptyPassword" ->
         Normal([c EXCEPT !.unsafe = (ask.value = "true"), !.byHand = TRUE])
    [] ask.key \in {"setup.bind.httpsPort", "setup.https.enabled",
                    "setup.https.certPath", "setup.https.keyPath"} ->
         Normal([c EXCEPT !.https = WithHttps(@, ask)])
    [] ask.key \in {"setup.bind.host", "mullvad.deviceName"} -> Normal(c)

-----------------------------------------------------------------------------
(* Routes for the targets of an export.                                    *)

\* incrementIpv4Address, a number in base 256; <<>> where there is no next.
NextIp(ip) ==
  IF \A k \in 1..4 : ip[k] = 255 THEN <<>>
  ELSE LET last == CHOOSE k \in 1..4 : ip[k] # 255 /\ \A l \in (k + 1)..4 : ip[l] = 255
       IN [k \in 1..4 |-> IF k < last THEN ip[k] ELSE IF k = last THEN ip[k] + 1 ELSE 0]

NextIps(ip, count) ==
  LET made[n \in 0..count] ==
        IF n = 0 THEN ip ELSE IF made[n - 1] = <<>> THEN <<>> ELSE NextIp(made[n - 1])
  IN [n \in 1..count |-> made[n]]

AddedIps(c, count) ==
  LET have == Len(c.routes)
  IN IF SharedHost(c.mode, c.access) THEN [n \in 1..count |-> BindHost(c)]
     ELSE IF c.mode = "loopback" THEN [n \in 1..count |-> DeriveLoopbackBindIp(have + n - 1)]
     ELSE NextIps(c.routes[have].bindIp, count)

\* Slip: the addresses are only counted.
CountedOnly(c, count) ==
  IF \E n \in 1..count : AddedIps(c, count)[n] = <<>> THEN "no next" ELSE "ok"

\* Public addresses are all validated again, the new ones with the old.
AddedIpsVerdict(c, count) ==
  IF SharedHost(c.mode, c.access) THEN "ok"
  ELSE IF \E n \in 1..count : AddedIps(c, count)[n] = <<>> THEN "no next"
  ELSE ExposureVerdict(Len(c.routes) + count, c.mode, c.access, c.domain,
                       BindIps(c) \o AddedIps(c, count))

AddedRoutes(c, targets) ==
  LET labels == UniqueNames([n \in DOMAIN targets |-> targets[n].relay.host])
      ips == AddedIps(c, Len(targets))
  IN [n \in DOMAIN targets |->
       [id |-> labels[n], alias |-> labels[n], bindIp |-> ips[n],
        hostname |-> DeriveHostname(labels[n], ips[n], c.domain, c.mode),
        exit |-> targets[n].relay.host, country |-> targets[n].relay.country,
        city |-> targets[n].relay.city,
        preferred |-> <<targets[n].relay.country, targets[n].relay.city>>,
        providers |-> targets[n].selector.providers]]

TargetsVerdict(c, targets, relays) ==
  IF c.source = "tailscale-exit" /\ \E n \in DOMAIN targets : ~targets[n].relay.internalIp
    THEN "tailscale"
  ELSE IF AddedIpsVerdict(c, Len(targets)) # "ok" THEN AddedIpsVerdict(c, Len(targets))
  ELSE IF AliasCollision(relays) THEN "aliases"
  ELSE IF \E n \in DOMAIN targets : ~targets[n].relay.socks THEN "no socks"
  ELSE "ok"

\* Slip: the routes there were are made again from the catalog.
Renewed(c, targets) == Normal([c EXCEPT !.routes = AddedRoutes(c, targets) \o @])

WithRoutes(c, targets) == Normal([c EXCEPT !.routes = @ \o AddedRoutes(c, targets)])

-----------------------------------------------------------------------------
(* The steps of a command. *)

At(p, pc) == run[p].pc = pc
Succeeds == {"exported", "applied"}
\* The process ends: what it exported or applied is remembered, and how it ended.
Ended(r, outcome) == IF outcome \in Succeeds THEN [r EXCEPT !.pc = "idle", !.outcome = outcome]
                     ELSE [Idle EXCEPT !.outcome = outcome]
End(p, outcome) == run' = [run EXCEPT ![p] = Ended(@, outcome)]

\* The command line is read and the configuration loaded.
Begin(p) ==
  /\ At(p, "idle") /\ given < MaxCommands
  /\ given' = given + 1
  /\ \E ask \in Asks[p] :
       LET parsed == ParseSelectors(ask.tokens)
           r == [Idle EXCEPT !.ask = ask, !.held = config, !.selectors = parsed.selectors]
       IN run' = [run EXCEPT ![p] =
            CASE ask.kind \in {"access", "set"} -> [r EXCEPT !.pc = "edit"]
              [] ~parsed.ok -> Ended(r, "selectors")
              [] ask.kind = "recommend" /\ ask.tokens = <<>> -> Ended(r, "selectors")
              [] OTHER -> [r EXCEPT !.pc = "catalog"]]
  /\ UNCHANGED config

EditAccess(p) ==
  /\ At(p, "edit") /\ run[p].ask.kind = "access"
  /\ LET c == run[p].held
         verdict == AccessVerdict(c, run[p].ask)
     IN \/ /\ verdict = "ok"
           /\ config' = WithExposure(c, run[p].ask) /\ End(p, "edited")
        \/ End(p, IF verdict = "ok" THEN "save" ELSE verdict) /\ UNCHANGED config
  /\ UNCHANGED given

EditField(p) ==
  /\ At(p, "edit") /\ run[p].ask.kind = "set"
  /\ LET verdict == FieldVerdict(run[p].ask)
     IN \/ /\ verdict = "ok"
           /\ config' = WithField(run[p].held, run[p].ask) /\ End(p, "edited")
        \/ End(p, IF verdict = "ok" THEN "save" ELSE verdict) /\ UNCHANGED config
  /\ UNCHANGED given

\* The cache where it is rich, else the endpoint, else the cache as it is.
LoadCatalog(p) ==
  /\ At(p, "catalog")
  /\ \E relays \in Catalogs \cup {Nothing} :
       LET r == [run[p] EXCEPT !.relays = relays]
           verdict == ResolveVerdict(r.selectors, r.held.routes, relays)
           coded == [r EXCEPT !.selectors = ResolveSelectors(@, r.held.routes, relays)]
       IN run' = [run EXCEPT ![p] =
            CASE relays = Nothing -> Ended(@, "relays")
              [] relays # Nothing /\ r.ask.write = "conflict" -> Ended(@, "mode")
              [] relays # Nothing /\ r.ask.write # "conflict" /\ r.ask.guided ->
                   [r EXCEPT !.pc = "prompts"]
              [] relays # Nothing /\ r.ask.write # "conflict" /\ ~r.ask.guided /\ verdict # "ok" ->
                   Ended(r, verdict)
              [] OTHER -> [coded EXCEPT !.pc = IF r.ask.kind = "recommend" THEN "probe" ELSE "plan"]]
  /\ UNCHANGED <<config, given>>

\* Selectors from the command line are taken as they are, their names not
\* resolved; without any they are asked for.
CollectedSelectors(r) ==
  IF r.selectors # <<>> THEN {r.selectors}
  ELSE {s \in GuidedSelectors : Prompted(s, r.relays)}

\* The prompts for what the command line left open.
Prompts(p) ==
  /\ At(p, "prompts")
  /\ LET r == run[p]
         Writes == IF r.ask.write = "file" THEN {"file", "stdout", "dry-run"} ELSE {r.ask.write}
         Protocols == IF r.ask.protocol = "ask" THEN {"socks5", "https"} ELSE {r.ask.protocol}
     IN \/ End(p, "cancelled")
        \/ \E chosen \in CollectedSelectors(r),
              write \in Writes, protocol \in Protocols :
             run' = [run EXCEPT ![p].pc = "plan", ![p].selectors = chosen,
                                ![p].ask.write = write, ![p].ask.protocol = protocol]
  /\ UNCHANGED <<config, given>>

\* Relays are pinged one by one; the fastest go on as selectors of one server.
Probe(p) ==
  /\ At(p, "probe")
  /\ \E latency \in Latencies :
       LET made == Recommend(run[p].selectors, run[p].relays, latency)
       IN IF ~made.ok THEN End(p, "no relay")
          ELSE run' = [run EXCEPT ![p].pc = "plan", ![p].recommended = made.chosen,
                         ![p].selectors = [k \in DOMAIN made.chosen |-> Pinned(made.chosen[k])]]
  /\ UNCHANGED <<config, given>>

\* ensureProxyExportRoutes up to the first save; a dry run stops short of it.
Plan(p) ==
  /\ At(p, "plan")
  /\ LET r == run[p]
         targets == PlanTargets(r.selectors, r.held.routes, r.relays)
         verdict == TargetsVerdict(r.held, targets, r.relays)
     IN IF targets = <<>> THEN run' = [run EXCEPT ![p].pc = "deliver"]
        ELSE IF verdict # "ok" THEN End(p, verdict)
        ELSE run' = [run EXCEPT ![p].held = WithRoutes(r.held, targets),
                       ![p].pc = IF r.ask.write = "dry-run" THEN "deliver" ELSE "save"]
  /\ UNCHANGED <<config, given>>

SaveRoutes(p) ==
  /\ At(p, "save")
  /\ \/ config' = run[p].held /\ run' = [run EXCEPT ![p].pc = "render"]
     \/ End(p, "save") /\ UNCHANGED config
  /\ UNCHANGED given

\* Files that cannot be written leave "unvalidated"; a report, whatever it
\* says, is saved with the configuration that was held.
RenderRoutes(p) ==
  /\ At(p, "render")
  /\ \/ End(p, "render") /\ UNCHANGED config
     \/ End(p, "final save") /\ UNCHANGED config
     \/ /\ config' = WithStatus(run[p].held, "error") /\ End(p, "validation")
     \/ /\ config' = WithStatus(run[p].held, "validated")
        /\ run' = [run EXCEPT ![p].pc = "deliver", ![p].held = config']
  /\ UNCHANGED given

DeliveryVerdict(r) ==
  IF r.ask.kind = "recommend" THEN IF r.ask.write = "dry-run" THEN "previewed" ELSE "applied"
  ELSE IF r.held.access = "inline-selector" THEN "inline"
  ELSE IF \E n \in DOMAIN r.selectors :
            r.selectors[n].kind = "region" /\ ~KnownRegion(r.selectors[n])
    THEN "region"
  ELSE IF r.ask.protocol = "https" /\ ~r.held.https.port THEN "protocol"
  ELSE IF r.selectors # <<>> /\ \A n \in DOMAIN r.selectors :
            ExportedBy(r.selectors, r.held.routes, r.relays)[n] = {}
    THEN "nothing"
  ELSE "exported"

\* A file that is there is kept, unless prompts may ask for another or to overwrite it.
FileOutcomes(r) ==
  {"exported", "file"} \cup IF r.ask.guided THEN {"cancelled"} ELSE {"file exists"}

\* The list goes to the terminal or to a file, which may be there already.
Deliver(p) ==
  /\ At(p, "deliver")
  /\ LET verdict == DeliveryVerdict(run[p])
     IN IF verdict = "exported" /\ run[p].ask.write = "file"
          THEN \E outcome \in FileOutcomes(run[p]) : End(p, outcome)
        ELSE End(p, verdict)
  /\ UNCHANGED <<config, given>>

Crash(p) == ~At(p, "idle") /\ End(p, "crashed") /\ UNCHANGED <<config, given>>

Step(p) == \/ EditAccess(p) \/ EditField(p) \/ LoadCatalog(p) \/ Prompts(p) \/ Probe(p)
           \/ Plan(p) \/ SaveRoutes(p) \/ RenderRoutes(p) \/ Deliver(p)

Next == \E p \in Procs : Begin(p) \/ Step(p) \/ Crash(p)

Spec == Init /\ [][Next]_vars

-----------------------------------------------------------------------------
(* Properties. *)

Pcs == {"idle", "edit", "catalog", "prompts", "probe", "plan", "save", "render", "deliver"}

ConfigFields == {"mode", "access", "domain", "password", "unsafe", "byHand", "https", "source",
                 "phase", "routes"}
RouteFields == {"id", "alias", "bindIp", "hostname", "exit", "country", "city", "preferred",
                "providers"}

Typed(c) ==
  /\ DOMAIN c = ConfigFields
  /\ c.mode \in Modes /\ c.access \in Accesses
  /\ c.unsafe \in BOOLEAN /\ c.byHand \in BOOLEAN
  /\ c.https \in [port : BOOLEAN, enabled : BOOLEAN, cert : BOOLEAN, key : BOOLEAN]
  /\ c.phase \in {"unvalidated", "validated", "error"}
  /\ IsList(c.routes) /\ Len(c.routes) > 0
  /\ \A i \in DOMAIN c.routes : c.routes[i] = [f \in RouteFields |-> c.routes[i][f]]

\* A configuration, saved or held, always has a route; a command is at one of its steps.
TypeOK ==
  /\ Typed(config) /\ given \in 0..MaxCommands
  /\ \A p \in Procs : run[p].pc \in Pcs /\ (run[p].pc # "idle" => Typed(run[p].held))

\* doctor's bind check (src/commands/doctor.ts buildBindCheck): addresses
\* follow from, or are allowed by, the mode and the access.
BindPosture(c) ==
  /\ SharedHost(c.mode, c.access) => \A i \in DOMAIN c.routes : c.routes[i].bindIp = BindHost(c)
  /\ IF c.mode = "loopback" /\ c.access = "published-routes"
       THEN \A i \in DOMAIN c.routes : c.routes[i].bindIp = DeriveLoopbackBindIp(i - 1)
     ELSE ExposureVerdict(Len(c.routes), c.mode, c.access, c.domain,
            IF SharedHost(c.mode, c.access) THEN <<BindHost(c)>> ELSE BindIps(c)) = "ok"

\* Every route is called what its mode, address and domain make of its alias.
NamePosture(c) ==
  \A i \in DOMAIN c.routes :
    c.routes[i].hostname = DeriveHostname(c.routes[i].alias, c.routes[i].bindIp, c.domain, c.mode)

Postured(c) ==
  /\ NamePosture(c)
  /\ ~c.byHand => BindPosture(c) /\ AccessAllowed(c.mode, c.access, c.password, c.unsafe)

\* Whatever commands overlap, and whoever overwrites whom, addresses, names,
\* mode and access that are saved together were made for each other: no
\* mixture of two commands' configurations is ever saved.  Only `config set`,
\* which checks a field on its own, can leave access and addresses at odds,
\* until the next `proxy access`.
PostureHolds == Postured(config)

StandApart(routes) ==
  \A i, j \in DOMAIN routes : i # j =>
    routes[i].id # routes[j].id /\ routes[i].alias # routes[j].alias

\* No two saved routes share an id or an alias, though an export names its
\* routes without a look at the names there are.
NamesStandApart == StandApart(config.routes)

\* setup saves what planSetupRoutes named; a route that goes by the name of a
\* relay goes through that relay.
ASSUME InitialConfigsAssumption ==
  \A c \in InitialConfigs :
    /\ Typed(c) /\ Postured(c) /\ StandApart(c.routes)
    /\ \A i \in DOMAIN c.routes :
         /\ c.routes[i].id \in Seq(STRING)
         /\ \A relays \in Catalogs : \A r \in relays :
              c.routes[i].alias = r.host => c.routes[i].exit = r.host

ExitsOf(routes) == {routes[i].exit : i \in DOMAIN routes}

\* A command that is running holds what it loaded, in front, and only adds
\* routes, each through a relay that no other route goes through.
HoldsOnlyMore(old, new) ==
  /\ Len(new) >= Len(old) /\ SubSeq(new, 1, Len(old)) = old
  /\ \A i \in (Len(old) + 1)..Len(new) : \A j \in DOMAIN new : j # i => new[i].exit # new[j].exit

\* An export or recommendation keeps every route it loaded, at its place (the
\* loopback address and the private port follow from the place), and never
\* adds a second route through a relay that has one.
ExportsOnlyAdd ==
  [][\A p \in Procs : run[p].pc = "plan" /\ run'[p].pc \in {"save", "deliver"} =>
       HoldsOnlyMore(run[p].held.routes, run'[p].held.routes)]_vars

AssetsPass(https) == https.enabled => https.cert /\ https.key
BundleRenders(https) ==
  https.port \/ https.enabled \/ https.cert \/ https.key => https.port /\ https.cert /\ https.key
Startable(https) == AssetsPass(https) => BundleRenders(https)

\* The two checks of a start agree: a configuration whose HTTPS files pass the
\* first (src/app/setup-runner.ts verifyHttpsAssets) is one the bundle can be
\* rendered from (src/runtime/render-runtime-bundle.ts resolveHttpsRuntime).
\* No edit, in whatever order fields are set, makes them disagree.  (setup
\* does, given the two files and no port.)
HttpsStaysStartable ==
  [][\A p \in Procs : run[p].pc = "edit" /\ run'[p].pc = "idle" /\ config' # config =>
       (Startable(run[p].held.https) => Startable(config'.https))]_vars

Delivered(p) == At(p, "idle") /\ run[p].outcome = "exported"
Counted(p) == \A n \in DOMAIN run[p].selectors : run[p].selectors[n].count # Uncounted

\* A selector with a count exports that many routes, or there is no active
\* relay left that it matches and that has no route: what was planned from
\* relays and what is exported from routes agree, selector by selector
\* ("later selectors only see routes that earlier selectors did not already
\* consume", docs/mullgate-docs/content/docs/guides/usage.mdx:303).
CountsAreMet ==
  \A p \in Procs : Delivered(p) /\ Counted(p) =>
    LET r == run[p]
        exported == ExportedBy(r.selectors, r.held.routes, r.relays)
    IN \A n \in DOMAIN r.selectors :
         \/ Cardinality(exported[n]) = r.selectors[n].count
         \/ \A x \in ActiveMatches(r.selectors[n], r.relays) : x.host \in ExitsOf(r.held.routes)

\* The same export again, counted, from the same catalog, adds no route.
AgainAddsNothing ==
  \A p \in Procs : Delivered(p) /\ Counted(p) =>
    PlanTargets(run[p].selectors, run[p].held.routes, run[p].relays) = <<>>

\* After `recommend --apply` every relay that was recommended has a route.
AppliedIsRecommended ==
  \A p \in Procs : At(p, "idle") /\ run[p].outcome = "applied" =>
    \A k \in DOMAIN run[p].recommended : run[p].recommended[k].host \in ExitsOf(run[p].held.routes)
=============================================================================
