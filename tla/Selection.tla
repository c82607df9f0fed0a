----------------------------- MODULE Selection ------------------------------
(***************************************************************************)
(* Selectors of `proxy export` and `proxy relay recommend`: how they are   *)
(* read and resolved, which configured routes and relays they take, which  *)
(* routes they lack, and which entries they export                         *)
(* (src/commands/proxy-export-*.ts, src/commands/recommend.ts).            *)
(*                                                                         *)
(* Names are tuples of tokens, as in Relays; <<>> is no city, no server.   *)
(* A route is [id, alias, hostname, bindIp, exit, country, city,           *)
(* preferred, providers]: exit is the hostname of its relay, country and   *)
(* city what was saved with it, preferred the country, or the country and  *)
(* the city, it was asked by.                                              *)
(***************************************************************************)
EXTENDS Relays, Exposure

CONSTANT RegionCountries    \* region -> the codes of its countries

-----------------------------------------------------------------------------
(* parseProxyExportSelectors: options bind to the selector before them.    *)

All == 1000          \* --count all: more than any catalog has
Uncounted == 0       \* no --count

Bare(kind, value) ==
  [kind |-> kind, value |-> value, city |-> <<>>, server |-> <<>>, providers |-> {},
   owner |-> "all", runMode |-> "all", minSpeed |-> 0, count |-> Uncounted]

SelectorFields ==
  {"kind", "value", "city", "server", "providers", "owner", "runMode", "minSpeed", "count"}
Flags == {"country", "region", "city", "server", "providers", "owner", "runMode", "minSpeed",
          "count"}

GivenTwice(s, flag) == flag # "providers" /\ s[flag] # Bare(s.kind, s.value)[flag]

Misplaced(s, flag) ==
  \/ flag \in {"city", "server"} /\ s.kind # "country"
  \/ flag = "city" /\ s.server # <<>>
  \/ GivenTwice(s, flag)

Filtered(s, flag, value) ==
  [s EXCEPT ![flag] = IF flag = "providers" THEN @ \cup {value} ELSE value]

\* One token [flag, value]; a refusal stays one.
ReadToken(parsed, token) ==
  LET last == Len(parsed.selectors)
  IN IF ~parsed.ok THEN parsed
     ELSE IF token.flag \in {"country", "region"}
       THEN [parsed EXCEPT !.selectors = Append(@, Bare(token.flag, token.value))]
     ELSE IF last = 0 \/ Misplaced(parsed.selectors[last], token.flag)
       THEN [parsed EXCEPT !.ok = FALSE]
     ELSE [parsed EXCEPT !.selectors[last] = Filtered(@, token.flag, token.value)]

ParseSelectors(tokens) ==
  LET parsed[n \in 0..Len(tokens)] ==
        IF n = 0 THEN [ok |-> TRUE, selectors |-> <<>>]
        ELSE ReadToken(parsed[n - 1], tokens[n])
  IN parsed[Len(tokens)]

-----------------------------------------------------------------------------
(* What a selector matches: relays and routes by one description.          *)

KnownRegion(s) == s.value \in DOMAIN RegionCountries

InSelectedPlace(s, e) ==
  IF s.kind = "region" THEN KnownRegion(s) /\ e.country \in RegionCountries[s.value]
  ELSE /\ s.value = <<e.country>>
       /\ s.city # <<>> => s.city = <<e.city>>
       /\ s.server # <<>> => s.server = e.host

Matches(s, e) ==
  /\ InSelectedPlace(s, e)
  /\ s.providers # {} => e.provider \in s.providers
  /\ s.owner # "all" => e.owner = s.owner
  /\ s.runMode # "all" => e.runMode = s.runMode
  /\ e.speed >= s.minSpeed

AsEntry(r) ==
  [country |-> r.country, city |-> r.city, host |-> r.host, provider |-> r.provider,
   owner |-> IF r.owned THEN "mullvad" ELSE "rented", runMode |-> r.runMode, speed |-> r.speed]

\* A route whose relay the catalog no longer has goes by what was saved.
Forgotten(route) ==
  [country |-> route.country, city |-> route.city, host |-> route.exit,
   provider |-> IF route.providers = {} THEN "none" ELSE CHOOSE p \in route.providers : TRUE,
   owner |-> "unknown", runMode |-> "unknown", speed |-> 0]

Described(routes, relays) ==
  [i \in DOMAIN routes |->
     LET known == {r \in relays : r.host = routes[i].exit}
     IN IF known = {} THEN Forgotten(routes[i]) ELSE AsEntry(CHOOSE r \in known : TRUE)]

ActiveMatches(s, relays) == {r \in relays : r.active /\ Matches(s, AsEntry(r))}

-----------------------------------------------------------------------------
(* collectGuidedProxyExportSelectors: what the prompts can yield from the  *)
(* catalog they offer; a count is always asked for.                        *)

ProvidersOf(relays) == {r.provider : r \in relays}

PromptedRegion(s, relays) ==
  /\ s.kind = "region" /\ KnownRegion(s)
  /\ s.providers \subseteq ProvidersOf({r \in relays : r.active})

PromptedCountry(s, relays) ==
  LET offered == {r \in relays : r.active /\ <<r.country>> = s.value /\ s.city \in {<<>>, <<r.city>>}}
  IN /\ s.kind = "country"
     /\ \E r \in relays : <<r.country>> = s.value /\ s.city \in {<<>>, <<r.city>>}
     /\ s.providers \subseteq ProvidersOf(offered)
     /\ s.server # <<>> => /\ \E r \in offered : r.host = s.server /\ Matches(s, AsEntry(r))
                           /\ s.count = 1

Prompted(selectors, relays) ==
  \A n \in DOMAIN selectors :
    LET s == selectors[n]
    IN /\ s.owner = "all" /\ s.runMode = "all" /\ s.minSpeed = 0 /\ s.count # Uncounted
       /\ PromptedRegion(s, relays) \/ PromptedCountry(s, relays)

-----------------------------------------------------------------------------
(* resolveProxyExportSelectorsWithCatalog: names become codes.             *)

Preferences(routes) == {routes[i].preferred : i \in DOMAIN routes}

CountriesNamed(value, routes, relays) ==
  LET known == {r.country : r \in {r \in relays : value \in {<<r.country>>, r.countryName}}}
  IN IF known # {} THEN known
     ELSE {c \in {p[1] : p \in Preferences(routes)} : value = <<c>>}

CitiesNamed(value, country, routes, relays) ==
  LET known == {r.city : r \in {r \in relays : r.country = country
                                             /\ value \in {<<r.city>>, r.cityName}}}
  IN IF known # {} THEN known
     ELSE {p[2] : p \in {p \in Preferences(routes) : Len(p) = 2 /\ p = <<country>> \o value}}

Coded(s, routes, relays) ==
  IF s.kind = "region" THEN s
  ELSE LET country == CHOOSE c \in CountriesNamed(s.value, routes, relays) : TRUE
           cities == CitiesNamed(s.city, country, routes, relays)
       IN [s EXCEPT !.value = <<country>>,
                    !.city = IF @ = <<>> THEN @ ELSE <<CHOOSE c \in cities : TRUE>>]

\* The server is looked for among active relays of the place and providers.
ServerKnown(s, relays) ==
  \E r \in relays : /\ r.active /\ InSelectedPlace(s, AsEntry(r))
                    /\ s.providers # {} => r.provider \in s.providers

SelectorVerdict(s, routes, relays) ==
  LET countries == CountriesNamed(s.value, routes, relays)
  IN IF ~(s.providers \subseteq {r.provider : r \in relays}) THEN "provider"
     ELSE IF s.kind = "region" THEN IF KnownRegion(s) THEN "ok" ELSE "region"
     ELSE IF countries = {} THEN "country"
     ELSE IF s.city # <<>> /\ \A c \in countries : CitiesNamed(s.city, c, routes, relays) = {}
       THEN "city"
     ELSE IF s.server # <<>> /\ ~ServerKnown(Coded(s, routes, relays), relays) THEN "server"
     ELSE IF s.server # <<>> /\ s.count > 1 THEN "server count"
     ELSE "ok"

ResolveVerdict(selectors, routes, relays) ==
  LET bad == {i \in DOMAIN selectors : SelectorVerdict(selectors[i], routes, relays) # "ok"}
  IN IF bad = {} THEN "ok"
     ELSE LET first == CHOOSE i \in bad : \A j \in bad : i <= j
          IN SelectorVerdict(selectors[first], routes, relays)

ResolveSelectors(selectors, routes, relays) ==
  [i \in DOMAIN selectors |-> Coded(selectors[i], routes, relays)]

-----------------------------------------------------------------------------
(* listMatchingRelays' order, and chooseSpreadRelays: one relay of every   *)
(* place in turn, places by name, the relays of a place in the order given.*)

\* before[r] is what comes before r: the i-th has i - 1 before it.
Ordered(S, before) ==
  [i \in 1..Cardinality(S) |-> CHOOSE r \in S : Cardinality(before[r]) = i - 1]

BestBefore(r, s) ==
  \/ r.owned /\ ~s.owned
  \/ r.owned = s.owned /\ r.speed > s.speed
  \/ r.owned = s.owned /\ r.speed = s.speed /\ Precedes(r, s)
BestFirst(S) == Ordered(S, [r \in S |-> {s \in S : BestBefore(s, r)}])

SpreadKey(s, r) == IF s.kind = "region" THEN r.country
                   ELSE IF s.city # <<>> THEN r.host
                   ELSE r.city

\* Hosts rank by country, then city, then name: so do the groups they form.
Spread(s, candidates, count) ==
  LET Round(i) == Cardinality({j \in 1..(i - 1) :
                                 SpreadKey(s, candidates[j]) = SpreadKey(s, candidates[i])})
      Sooner(i, j) == \/ Round(i) < Round(j)
                      \/ /\ Round(i) = Round(j)
                         /\ Precedes(candidates[i], candidates[j])
      places == DOMAIN candidates
      turn == Ordered(places, [i \in places |-> {j \in places : Sooner(j, i)}])
  IN [k \in 1..(IF count < Len(candidates) THEN count ELSE Len(candidates)) |->
        candidates[turn[k]]]

ChooseRelays(s, relays, count, taken) ==
  Spread(s, BestFirst({r \in ActiveMatches(s, relays) : r.host \notin taken}), count)

-----------------------------------------------------------------------------
(* planProxyExportRelayTargets: the relays that routes must be added for.  *)

FirstOf(S, n) == {i \in S : Cardinality({j \in S : j < i}) < n}

Desired(s, existing, relays, taken) ==
  CASE s.count = All ->
         Cardinality(existing)
         + Cardinality({r \in relays : r.host \notin taken /\ Matches(s, AsEntry(r))})
    [] s.count = Uncounted -> IF existing = {} THEN 1 ELSE Cardinality(existing)
    [] OTHER -> s.count

\* Slip: a route that an earlier selector takes counts for a later one as well.
AnyMatching(plan, s, described) == {i \in DOMAIN described : Matches(s, described[i])}

Unreserved(plan, s, described) ==
  {i \in DOMAIN described : described[i].host \notin plan.taken /\ Matches(s, described[i])}

\* Slip: what is there already is not counted.
AllOfThem(desired, kept) == desired

Lacking(desired, kept) == desired - Cardinality(kept)

\* Slip: the relays of configured routes are free for new ones.
OnlyPlanned(plan, kept, described) == plan.taken

Reserved(plan, kept, described) == plan.taken \cup {described[i].host : i \in kept}

\* One selector: matching routes first, then relays nobody has taken.
TakeFor(plan, s, described, relays) ==
  LET existing == Unreserved(plan, s, described)
      desired == Desired(s, existing, relays, plan.taken)
      kept == FirstOf(existing, desired)
      taken == Reserved(plan, kept, described)
      added == ChooseRelays(s, relays, Lacking(desired, kept), taken)
  IN [taken |-> taken \cup {added[k].host : k \in DOMAIN added},
      targets |-> plan.targets \o [k \in DOMAIN added |-> [relay |-> added[k], selector |-> s]]]

PlanTargets(selectors, routes, relays) ==
  LET described == Described(routes, relays)
      plan[n \in 0..Len(selectors)] ==
        IF n = 0 THEN [taken |-> {}, targets |-> <<>>]
        ELSE TakeFor(plan[n - 1], selectors[n], described, relays)
  IN plan[Len(selectors)].targets

-----------------------------------------------------------------------------
(* buildProxyExportPlan: the routes each selector exports, in their order. *)

ExportedBy(selectors, routes, relays) ==
  LET described == Described(routes, relays)
      taken[n \in 0..Len(selectors)] ==
        IF n = 0 THEN {}
        ELSE taken[n - 1] \cup
             FirstOf({i \in DOMAIN routes \ taken[n - 1] : Matches(selectors[n], described[i])},
                     IF selectors[n].count = Uncounted THEN All ELSE selectors[n].count)
  IN [n \in DOMAIN selectors |-> taken[n] \ taken[n - 1]]

-----------------------------------------------------------------------------
(* recommendRelaysForSelectors: the fastest of those that answer a ping,   *)
(* spread like an export; latency[host] is 0 where no answer comes.        *)

Wanted(s) == IF s.count = Uncounted THEN 1 ELSE s.count

Answering(relays, latency) == {r \in relays : latency[r.host] > 0}

FastestFirst(S, latency) ==
  LET Faster(r, q) == \/ latency[r.host] < latency[q.host]
                      \/ latency[r.host] = latency[q.host] /\ BestBefore(r, q)
  IN Ordered(S, [r \in S |-> {q \in S : Faster(q, r)}])

RecommendStep(sofar, s, relays, latency) ==
  LET matching == {r \in ActiveMatches(s, relays) :
                     \A k \in DOMAIN sofar.chosen : sofar.chosen[k].host # r.host}
      answering == Answering(matching, latency)
      spread == Spread(s, FastestFirst(answering, latency), Wanted(s))
  IN IF ~sofar.ok \/ answering = {} THEN [sofar EXCEPT !.ok = FALSE]
     ELSE [sofar EXCEPT !.chosen =
             @ \o FastestFirst({spread[k] : k \in DOMAIN spread}, latency)]

Recommend(selectors, relays, latency) ==
  LET made[n \in 0..Len(selectors)] ==
        IF n = 0 THEN [ok |-> TRUE, chosen |-> <<>>]
        ELSE RecommendStep(made[n - 1], selectors[n], relays, latency)
  IN made[Len(selectors)]

\* Slip: the city is pinned, not the relay.
PinnedCity(r) ==
  [Bare("country", <<r.country>>) EXCEPT !.city = <<r.city>>, !.count = 1]

\* A recommendation goes on as a selector of that one server.
Pinned(r) ==
  [Bare("country", <<r.country>>) EXCEPT !.city = <<r.city>>, !.server = r.host, !.count = 1]
=============================================================================
