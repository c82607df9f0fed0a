------------------------------- MODULE Relays -------------------------------
(***************************************************************************)
(* The relay catalog: what is kept of Mullvad's answer, the aliases that   *)
(* countries, cities and relays go by, and the relay a location stands for *)
(* (src/mullvad/fetch-relays.ts, src/domain/location-aliases.ts and the    *)
(* selection that setup, the renderer and the export share).               *)
(*                                                                         *)
(* A name that went through normalizeLocationToken is the sequence of its  *)
(* dash-separated tokens.  A catalog is a set of relays: createSuccess     *)
(* sorts the list it received, and Rank is the place of a relay in that    *)
(* order (country code, city code, hostname).                              *)
(***************************************************************************)
EXTENDS Naturals, Sequences, FiniteSets, TLC

CONSTANT Rank     \* relay hostname -> its place in compareRelays' order

ASSUME RanksDiffer ==
  \A h, k \in DOMAIN Rank : Rank[h] \in Nat /\ (Rank[h] = Rank[k] => h = k)

Precedes(r, s) == Rank[r.host] < Rank[s.host]

-----------------------------------------------------------------------------
(* A payload: [format, relays].  The app format has no SOCKS metadata and  *)
(* calls every relay active; the legacy one lists other kinds of servers.  *)

Normalized(payload) ==
  CASE payload.format = "app" ->
         {[r EXCEPT !.active = TRUE, !.socks = FALSE] : r \in payload.relays}
    [] payload.format = "legacy" ->
         {r \in payload.relays : r.type = "wireguard" /\ r.pubkey}

Supported(payload) == payload.format \in {"app", "legacy"}

\* tailscale-exit looks every SOCKS name up; the names DNS does not answer for.
SocksIpsResolve(relays, unanswered) ==
  \A r \in relays : r.socks => r.host \notin unanswered

-----------------------------------------------------------------------------
(* Locations.  A target is a country, a city or a relay. *)

Country(r) == [kind |-> "country", country |-> r.country, name |-> r.countryName]
City(r) == [kind |-> "city", country |-> r.country, name |-> r.countryName,
            city |-> r.city, cityName |-> r.cityName]
Exact(r) == [kind |-> "relay", country |-> r.country, city |-> r.city, host |-> r.host]

Targets(relays) == UNION {{Country(r), City(r), Exact(r)} : r \in relays}

Aliases(t) ==
  CASE t.kind = "country" -> {<<t.country>>, t.name}
    [] t.kind = "city" -> {<<t.country, t.city>>, <<t.country>> \o t.cityName,
                           t.name \o t.cityName, t.cityName}
    [] t.kind = "relay" -> {t.host, t.host \o <<"relays", "mullvad", "net">>}

StartsWith(alias, prefix) ==
  Len(alias) > Len(prefix) /\ SubSeq(alias, 1, Len(prefix)) = prefix

\* A bare city name is optional: it may be shared, and is then ambiguous.
Required(t, alias) ==
  t.kind = "city" => StartsWith(alias, <<t.country>>) \/ StartsWith(alias, t.name)

RelayMatches(r, t) ==
  CASE t.kind = "country" -> r.country = t.country
    [] t.kind = "city" -> r.country = t.country /\ r.city = t.city
    [] t.kind = "relay" -> r.host = t.host

Matching(relays, t) == {r \in relays : RelayMatches(r, t)}

\* The order in which createLocationAliasCatalog registers targets.
KindRank == [country |-> 1, city |-> 2, relay |-> 3]
RegisteredBefore(relays, t, u) ==
  \/ KindRank[t.kind] < KindRank[u.kind]
  \/ /\ t.kind = u.kind
     /\ \E r \in Matching(relays, t) : \A s \in Matching(relays, u) : Precedes(r, s)

\* A code with two names, or a required alias that is taken already.
AliasCollision(relays) ==
  \/ \E r, s \in relays : r.country = s.country /\
       (r.countryName # s.countryName \/ (r.city = s.city /\ r.cityName # s.cityName))
  \/ \E t, u \in Targets(relays) : RegisteredBefore(relays, u, t) /\
       \E a \in Aliases(t) \cap Aliases(u) : Required(t, a)

\* The targets behind an alias: one, none (not found), several (ambiguous).
Index(relays, alias) == {t \in Targets(relays) : alias \in Aliases(t)}
Resolves(relays, alias) == Cardinality(Index(relays, alias)) = 1
Resolved(relays, alias) == CHOOSE t \in Index(relays, alias) : TRUE

\* The name of a location's route.
CanonicalLabel(t) ==
  CASE t.kind = "country" -> t.name
    [] t.kind = "city" -> t.name \o t.cityName
    [] t.kind = "relay" -> t.host

-----------------------------------------------------------------------------
(* choosePreferredRelay: active relays first, then by rank; an inactive    *)
(* one is taken where no other matches.                                    *)

Better(r, s) == (r.active /\ ~s.active) \/ (r.active = s.active /\ Precedes(r, s))
Preferred(relays) == CHOOSE r \in relays : \A s \in relays : s = r \/ Better(r, s)

\* Slip: the counter is not raised past the first number.
NumberedOnce(base, used) == IF base \notin used THEN base ELSE Append(base, "2")

\* candidate-2, candidate-3, ...
Suffixed(base, n) == Append(base, ToString(n))

\* The first of candidate, candidate-2, candidate-3, ... that nobody has.
Numbered(base, used) ==
  IF base \notin used THEN base
  ELSE LET n == CHOOSE k \in 2..(Cardinality(used) + 2) :
                  /\ Suffixed(base, k) \notin used
                  /\ \A m \in 2..(k - 1) : Suffixed(base, m) \in used
       IN Suffixed(base, n)

\* One name per candidate, in their order, each avoiding the earlier ones.
UniqueNames(candidates) ==
  LET names[i \in 0..Len(candidates)] ==
        IF i = 0 THEN <<>>
        ELSE Append(names[i - 1],
                    Numbered(candidates[i], {names[i - 1][j] : j \in 1..(i - 1)}))
  IN names[Len(candidates)]

-----------------------------------------------------------------------------
(* resolveEntryRelay: the relay the shared tunnel enters through, found    *)
(* again from a saved preference and the catalog at hand.                  *)

\* [requested, target]: what createRouteRelayPreference keeps of a location.
Named(relays, pref) ==
  {r \in relays : \/ pref.target.kind = "relay" /\ r.host = pref.target.host
                  \/ pref.requested \in {r.host, r.host \o <<"relays", "mullvad", "net">>}}
InPlace(relays, pref) ==
  {r \in relays : /\ r.country = pref.target.country
                  /\ pref.target.kind \in {"city", "relay"} => r.city = pref.target.city}

\* Slip: the alias is looked up where no relay is named.
ByAlias(relays, pref) ==
  LET label == CanonicalLabel(pref.target)
  IN IF Named(relays, pref) # {} THEN Named(relays, pref)
     ELSE IF ~AliasCollision(relays) /\ Resolves(relays, label)
            THEN Matching(relays, Resolved(relays, label))
          ELSE {}

\* The relay named, else the best of the place, else the alias once more.
EntryCandidates(relays, pref) ==
  LET label == CanonicalLabel(pref.target)
  IN IF Named(relays, pref) # {} THEN Named(relays, pref)
     ELSE IF InPlace(relays, pref) # {} THEN InPlace(relays, pref)
     ELSE IF ~AliasCollision(relays) /\ Resolves(relays, label)
            THEN Matching(relays, Resolved(relays, label))
          ELSE {}
=============================================================================
