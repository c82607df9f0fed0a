---------------------------- MODULE Provisioning ----------------------------
(***************************************************************************)
(* mullgate setup (src/app/setup-runner.ts) with the Mullvad account it    *)
(* registers a device at (src/mullvad/provision-wireguard.ts): inputs,     *)
(* relays, planned routes, up to three registration requests, the exits,   *)
(* and the configuration saved, rendered and validated at the end.         *)
(*                                                                         *)
(* A request may be lost before Mullvad sees it, or its answer after, and  *)
(* the process may die between any two steps.  The account is Mullvad's:   *)
(* nothing in the program ever takes a device off it.                      *)
(***************************************************************************)
EXTENDS Relays, Exposure

CONSTANTS
  Procs,          \* terminals in which setup may be run
  Asks,           \* Asks[p]: what an operator may ask of setup there
  Payloads,       \* what the relay endpoint may answer
  Nothing,        \* there is no configuration, no answer
  SlotLimit,      \* devices an account may have
  RetryLimit,     \* PROVISION_RETRY_LIMIT
  MaxSetups       \* bound: how many times setup is run in all

ASSUME LimitsAssumption ==
  SlotLimit \in Nat /\ RetryLimit \in Nat \ {0} /\ MaxSetups \in Nat

\* The source is one of the two, locations are a list, ports are numbers, and names are sequences of tokens.
ASSUME AsksAssumption ==
  \A p \in Procs : \A ask \in Asks[p] :
    /\ ask.source \in {"mullvad-wireguard-socks", "tailscale-exit"}
    /\ ask.locations \in Seq(Seq(STRING))
    /\ ask.ports.socks \in Nat /\ ask.ports.http \in Nat
ASSUME PayloadsAssumption ==
  \A payload \in Payloads : \A r \in payload.relays :
    \A name \in {"host", "countryName", "cityName"} : name \in DOMAIN r /\ r[name] \in Seq(STRING)

VARIABLES
  account,        \* the keys registered at Mullvad
  config,         \* the saved configuration, or Nothing
  run,            \* run[p]: the setup p runs, or how its last one ended
  started         \* setups begun so far

vars == <<account, config, run, started>>

\* A key pair is fresh in every attempt: it is named by setup and attempt.
Key(id, attempt) == [setup |-> id, attempt |-> attempt]
TakenBy(id) == {k \in account : k.setup = id}

Idle == [pc |-> "idle", id |-> 0, ask |-> Nothing, relays |-> {}, routes |-> <<>>,
         attempt |-> 0, lost |-> 0, device |-> Nothing, outcome |-> "none"]

Init == account = {} /\ config = Nothing /\ run = [p \in Procs |-> Idle] /\ started = 0

-----------------------------------------------------------------------------
(* What setup makes of its inputs. *)

Locations(ask) == IF ask.locations = <<>> THEN << <<"se", "gothenburg">> >> ELSE ask.locations

BindIps(ask) ==
  IF ask.ips # <<>> THEN ask.ips ELSE <<DefaultBindHost(ask.mode, <<>>)>>

Needed(ask) ==
  IF ask.source = "tailscale-exit" THEN {"tailnet", "auth key", "exit node", "password"}
  ELSE {"account", "password"}
MissingInputs(ask) == ~ask.interactive /\ ~(Needed(ask) \subseteq ask.given)

\* Only the prompts check ports and the account; options go through as they are.
Answerable(ask) == ask.interactive => ask.portsOk /\ ask.accountOk

\* Options and environment: an unknown mode or source, or a port that is no number.
Readable(ask) == ask.optionsOk

InputVerdict(ask) ==
  IF ~Readable(ask) THEN "options"
  ELSE IF MissingInputs(ask) THEN "missing"
  ELSE IF ExposureVerdict(Len(Locations(ask)), ask.mode, "published-routes",
                          ask.domain, BindIps(ask)) # "ok" THEN "exposure"
  ELSE IF ask.https \in {"half", "unreadable"} THEN "https"
  ELSE "ok"

PlanVerdict(ask, relays) ==
  IF AliasCollision(relays) THEN "aliases"
  ELSE IF \E i \in 1..Len(Locations(ask)) : ~Resolves(relays, Locations(ask)[i]) THEN "location"
  ELSE "ok"

\* planSetupRoutes: one route per location, named and addressed.
PlannedRoutes(ask, relays) ==
  LET asked == Locations(ask)
      target == [i \in 1..Len(asked) |-> Resolved(relays, asked[i])]
      labels == UniqueNames([i \in 1..Len(asked) |-> CanonicalLabel(target[i])])
      ips == RouteBindIps(Len(asked), ask.mode, "published-routes", BindIps(ask))
  IN [i \in 1..Len(asked) |->
       [id |-> labels[i], requested |-> asked[i], target |-> target[i], bindIp |-> ips[i],
        hostname |-> DeriveHostname(labels[i], ips[i], ask.domain, ask.mode)]]

\* selectSetupRouteExit: an exit is of no use without a SOCKS endpoint.
ExitOf(route, relays) == Preferred(Matching(relays, route.target))
ExitsUsable(r) == \A i \in DOMAIN r.routes : ExitOf(r.routes[i], r.relays).socks

\* createCanonicalConfig; the schema refuses a port the options let through.
Canonical(r) ==
  [by |-> r.id, source |-> r.ask.source, device |-> r.device, mode |-> r.ask.mode,
   ports |-> r.ask.ports, phase |-> "unvalidated", routes |-> r.routes]
MeetsSchema(r) == r.ask.portsOk

\* Slip: the status is set to what the message says.
PhaseAsSaid(c, phase) == [c EXCEPT !.phase = IF phase = "validated" THEN "complete" ELSE phase]

WithPhase(c, phase) == [c EXCEPT !.phase = phase]

\* planRuntimeProxyArtifacts over what was just saved.
RenderPlanned(r) ==
  LET c == Canonical(r)
  IN \/ c.source = "tailscale-exit"
     \/ c.device # Nothing /\ EntryCandidates(r.relays, c.routes[1]) # {}

-----------------------------------------------------------------------------
(* The steps of one setup. *)

At(p, pc) == run[p].pc = pc
Go(p, pc) == run' = [run EXCEPT ![p].pc = pc]
\* The process ends: what it held is gone, how it ended and what it lost is kept.
Ended(r, outcome) == [Idle EXCEPT !.id = r.id, !.lost = r.lost, !.outcome = outcome]
End(p, outcome) == run' = [run EXCEPT ![p] = Ended(run[p], outcome)]

Begun(ask) == [Idle EXCEPT !.id = started + 1, !.ask = ask]

\* Prompts, or options and environment; nothing is touched before they are whole.
CollectInputs(p) ==
  /\ At(p, "idle") /\ started < MaxSetups
  /\ started' = started + 1
  /\ \E ask \in Asks[p] :
       LET begun == Begun(ask)
           verdict == InputVerdict(ask)
       IN /\ Answerable(ask)
          /\ \/ /\ ask.interactive /\ Readable(ask)
                /\ run' = [run EXCEPT ![p] = [begun EXCEPT !.outcome = "cancelled"]]
             \/ run' = [run EXCEPT ![p] = IF verdict = "ok" THEN [begun EXCEPT !.pc = "relays"]
                                          ELSE [begun EXCEPT !.outcome = verdict]]
  /\ UNCHANGED <<account, config>>

FetchRelays(p) ==
  /\ At(p, "relays")
  /\ \E payload \in Payloads, unanswered \in SUBSET {h \in DOMAIN Rank : Rank[h] = 1} :
       LET relays == Normalized(payload)
           ask == run[p].ask
           wireguard == ask.source = "mullvad-wireguard-socks"
       IN IF ~Supported(payload) THEN End(p, "relays")
          ELSE IF ~wireguard /\ ~SocksIpsResolve(relays, unanswered) THEN End(p, "dns")
          ELSE IF PlanVerdict(ask, relays) # "ok" THEN End(p, PlanVerdict(ask, relays))
          ELSE run' = [run EXCEPT ![p].relays = relays, ![p].routes = PlannedRoutes(ask, relays),
                                  ![p].pc = IF wireguard THEN "provision" ELSE "exits"]
  /\ UNCHANGED <<account, config, started>>

\* The request for relays is answered by nobody, or by an error.
FetchRelaysFails(p) ==
  At(p, "relays") /\ End(p, "relays") /\ UNCHANGED <<account, config, started>>

\* An account number that cannot be one, or no key: no request is made.
RefuseAccount(p) ==
  /\ At(p, "provision")
  /\ \/ ~run[p].ask.accountOk /\ End(p, "account")
     \/ run[p].ask.accountOk /\ End(p, "keygen")
  /\ UNCHANGED <<account, config, started>>

SendRequest(p) ==
  /\ At(p, "provision") /\ run[p].ask.accountOk
  /\ run' = [run EXCEPT ![p].pc = "sent", ![p].attempt = @ + 1]
  /\ UNCHANGED <<account, config, started>>

\* Mullvad takes the request and registers its key, if a slot is free.
Register(p) ==
  /\ At(p, "sent") /\ Cardinality(account) < SlotLimit
  /\ account' = account \cup {Key(run[p].id, run[p].attempt)}
  /\ Go(p, "registered")
  /\ UNCHANGED <<config, started>>

Registered(p) == At(p, "registered")

\* Slip: one attempt more than the limit.
OneMore(p) == run[p].attempt <= RetryLimit

Retries(p) == run[p].attempt < RetryLimit

\* No device came of this attempt: another one, with a new key, or the end.
AgainOr(p, outcome) ==
  LET r == [run[p] EXCEPT !.lost = IF Registered(p) THEN @ + 1 ELSE @]
  IN run' = [run EXCEPT ![p] = IF Retries(p) THEN [r EXCEPT !.pc = "provision"]
                               ELSE Ended(r, outcome)]

\* A device, as JSON or as a line of text: its address and the key that was sent.
AnswerDevice(p) ==
  /\ Registered(p)
  /\ run' = [run EXCEPT ![p].pc = "exits", ![p].device = Key(run[p].id, run[p].attempt)]
  /\ UNCHANGED <<account, config, started>>

\* Slip: no answer is taken for a good one.
LostIsDone(p) ==
  /\ At(p, "sent") \/ Registered(p)
  /\ run' = [run EXCEPT ![p].pc = "exits", ![p].device = Key(run[p].id, run[p].attempt)]
  /\ UNCHANGED <<account, config, started>>

\* Slip: a retry starts the count again.
CountAgain(p) ==
  /\ At(p, "sent") \/ Registered(p)
  /\ run' = [run EXCEPT ![p].pc = "provision", ![p].attempt = 0]
  /\ UNCHANGED <<account, config, started>>

\* NETWORK_ERROR: nobody knows whether the request or its answer was lost.
AnswerLost(p) ==
  /\ At(p, "sent") \/ Registered(p)
  /\ AgainOr(p, "network")
  /\ UNCHANGED <<account, config, started>>

\* HTTP 429, or an error that says to try again, whatever became of the request.
AnswerThrottled(p) ==
  /\ At(p, "sent") \/ Registered(p)
  /\ AgainOr(p, "refused")
  /\ UNCHANGED <<account, config, started>>

\* Any other error, also a 5xx behind which the device is registered.
AnswerRefused(p) ==
  /\ At(p, "sent") \/ Registered(p)
  /\ End(p, "refused")
  /\ UNCHANGED <<account, config, started>>

\* An empty answer, text without an address, a payload off the schema; or the
\* body is lost after the headers, which no handler expects: setup throws.
AnswerUnreadable(p) ==
  /\ Registered(p)
  /\ End(p, "response") \/ End(p, "threw")
  /\ UNCHANGED <<account, config, started>>

\* Slip: locations are only checked once the device is there.
CheckedLate(p) ==
  /\ At(p, "exits")
  /\ IF ~ExitsUsable(run[p]) THEN End(p, "location")
     ELSE IF ~MeetsSchema(run[p]) THEN End(p, "schema")
     ELSE Go(p, "save")
  /\ UNCHANGED <<account, config, started>>

\* resolveSetupRouteExits and createCanonicalConfig, after the registration.
ResolveExits(p) ==
  /\ At(p, "exits")
  /\ IF ~ExitsUsable(run[p]) THEN End(p, "exit")
     ELSE IF ~MeetsSchema(run[p]) THEN End(p, "schema")
     ELSE Go(p, "save")
  /\ UNCHANGED <<account, config, started>>

SaveInitial(p) ==
  /\ At(p, "save")
  /\ \/ config' = Canonical(run[p]) /\ Go(p, "render")
     \/ End(p, "save") /\ UNCHANGED config
  /\ UNCHANGED <<account, started>>

\* A plan that fails or files that cannot be written: "error" is saved, or not.
Render(p) ==
  /\ At(p, "render")
  /\ \/ RenderPlanned(run[p]) /\ Go(p, "validate") /\ UNCHANGED config
     \/ /\ End(p, IF RenderPlanned(run[p]) THEN "render" ELSE "plan")
        /\ config' \in {config, WithPhase(Canonical(run[p]), "error")}
  /\ UNCHANGED <<account, started>>

Validate(p) ==
  /\ At(p, "validate")
  /\ \E ok \in BOOLEAN :
       \/ /\ config' = WithPhase(Canonical(run[p]), IF ok THEN "validated" ELSE "error")
          /\ End(p, IF ok THEN "complete" ELSE "validation")
       \/ End(p, "final save") /\ UNCHANGED config
  /\ UNCHANGED <<account, started>>

Crash(p) ==
  /\ ~At(p, "idle")
  /\ End(p, "crashed")
  /\ UNCHANGED <<account, config, started>>

Answer(p) == \/ AnswerDevice(p) \/ AnswerLost(p) \/ AnswerThrottled(p)
             \/ AnswerRefused(p) \/ AnswerUnreadable(p)
Step(p) == \/ FetchRelays(p) \/ FetchRelaysFails(p) \/ RefuseAccount(p) \/ SendRequest(p)
           \/ Answer(p) \/ ResolveExits(p) \/ SaveInitial(p) \/ Render(p) \/ Validate(p)

Next == \E p \in Procs : CollectInputs(p) \/ Step(p) \/ Register(p) \/ Crash(p)

\* A step that can be taken is taken: fetch answers or fails in the end.
Spec == Init /\ [][Next]_vars /\ \A p \in Procs : WF_vars(Step(p))

-----------------------------------------------------------------------------
(* Properties. *)

FreeOutcomes == {"options", "cancelled", "missing", "exposure", "https", "relays", "dns", "aliases",
                 "location", "account"}
Outcomes == FreeOutcomes \cup {"none", "keygen", "network", "refused", "response", "threw", "exit",
  "schema", "save", "plan", "render", "validation", "final save", "complete", "crashed"}
Keys == [setup : 1..MaxSetups, attempt : 1..RetryLimit]

ASSUME NothingAssumption == Nothing \notin Keys

\* The account holds keys of setups that began; a setup is at one of its steps
\* or ended in one of the ways listed; the saved phase is one setup saves.
TypeOK ==
  /\ account \subseteq Keys /\ Cardinality(account) <= SlotLimit
  /\ started \in 0..MaxSetups
  /\ config # Nothing => config.phase \in {"unvalidated", "validated", "error"}
  /\ \A p \in Procs :
       /\ run[p].pc \in {"idle", "relays", "provision", "sent", "registered", "exits",
                         "save", "render", "validate"}
       /\ run[p].outcome \in Outcomes /\ run[p].id \in 0..started
       /\ run[p].attempt \in 0..RetryLimit /\ run[p].lost \in 0..RetryLimit

\* The tunnel key in the saved configuration is registered at the account, also
\* after lost answers, retries with new keys, and setups that overlap
\* (provisionRouteWithRetries keeps the pair of the attempt that was answered).
SavedDeviceIsRegistered ==
  config # Nothing /\ config.source = "mullvad-wireguard-socks" => config.device \in account

\* A setup takes one slot, and one more for each request that reached Mullvad
\* and whose answer did not arrive; never more than the attempts it may make.
OneSlotUnlessLost ==
  \A p \in Procs : /\ Cardinality(TakenBy(run[p].id)) <= 1 + run[p].lost
                   /\ Cardinality(TakenBy(run[p].id)) <= RetryLimit

\* A setup that is cancelled, or refuses its inputs, addresses, certificates,
\* relays or locations, has taken no slot and saved nothing ("Setup cancelled
\* before Mullgate wrote any configuration").
RefusalIsFree ==
  \A p \in Procs : run[p].outcome \in FreeOutcomes =>
    TakenBy(run[p].id) = {} /\ (config # Nothing => config.by # run[p].id)

\* Two saved routes never share an id, nor a SOCKS or HTTP listener, however
\* often a location was asked for and whatever the exposure.
SavedRoutesStandApart ==
  config # Nothing =>
    \A i, j \in DOMAIN config.routes : i # j =>
      LET Listener(k, base) == <<config.routes[k].bindIp,
                                 ComputePublishedPort(config.mode, base, k - 1)>>
      IN /\ config.routes[i].id # config.routes[j].id
         /\ \A base \in {config.ports.socks, config.ports.http} :
              Listener(i, base) # Listener(j, base)

\* What setup accepted and saved, the renderer can plan from the same relays:
\* the entry relay is found again from the preference that was kept, also
\* where the label kept is an ambiguous alias.
SavedCanBeRendered == \A p \in Procs : run[p].outcome # "plan"

\* Every setup that begins ends, unless requests stay unanswered for ever.
SetupsEnd == \A p \in Procs : ~At(p, "idle") ~> At(p, "idle")
=============================================================================
