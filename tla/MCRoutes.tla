------------------------------ MODULE MCRoutes ------------------------------
(* Instances of Routes for TLC: four relays in two countries of one region, *)
(* two of them slow or rented, and a catalog in which one is out of use;    *)
(* configurations of every exposure, one with two routes through one relay. *)
EXTENDS Routes

CONSTANTS none, p1, p2

Relay(country, name, city, cityName, number, owned, speed) ==
  [host |-> <<country, city, "wg", number>>, country |-> country, countryName |-> name,
   city |-> city, cityName |-> cityName, active |-> TRUE, socks |-> TRUE, internalIp |-> TRUE,
   type |-> "wireguard", pubkey |-> TRUE, owned |-> owned, speed |-> speed,
   provider |-> IF owned THEN "31173" ELSE "m247", runMode |-> "ram"]

Got1 == Relay("se", <<"sweden">>, "got", <<"gothenburg">>, "1", FALSE, 1)
Got2 == Relay("se", <<"sweden">>, "got", <<"gothenburg">>, "2", TRUE, 10)
Mma1 == Relay("se", <<"sweden">>, "mma", <<"malmo">>, "1", TRUE, 10)
Osl1 == Relay("no", <<"norway">>, "osl", <<"oslo">>, "1", TRUE, 1)

HostRank == (Osl1.host :> 1) @@ (Got1.host :> 2) @@ (Got2.host :> 3) @@ (Mma1.host :> 4)
Regions == <<"europe">> :> {"se", "no"}

AllRelays == {Got1, Got2, Mma1, Osl1}
Lacking2 == {Got1, [Got2 EXCEPT !.active = FALSE], Osl1}
NoIps == {[r EXCEPT !.internalIp = FALSE, !.socks = (r # Mma1)] : r \in AllRelays}
SomeCatalogs == {AllRelays, Lacking2, NoIps}

Latency(a, b, c, d) == (Osl1.host :> a) @@ (Got1.host :> b) @@ (Got2.host :> c) @@ (Mma1.host :> d)
SomeLatencies == {Latency(30, 10, 20, 0), Latency(0, 0, 0, 0)}

Route(r, label, ip, hostname) ==
  [id |-> label, alias |-> label, hostname |-> hostname, bindIp |-> ip, exit |-> r.host,
   country |-> r.country, city |-> r.city, providers |-> {},
   preferred |-> IF label = r.host THEN <<r.country, r.city>> ELSE <<r.country>>]

Loopback ==
  [mode |-> "loopback", access |-> "published-routes", domain |-> <<>>, password |-> "secret",
   unsafe |-> FALSE, byHand |-> FALSE, https |-> NoHttps, source |-> "mullvad-wireguard-socks",
   phase |-> "validated",
   routes |-> <<Route(Got1, <<"sweden">>, <<127, 0, 0, 1>>, << <<"sweden">> >>),
                Route(Got1, <<"sweden", "2">>, <<127, 0, 0, 2>>, << <<"sweden", "2">> >>)>>]
FullHttps == [port |-> TRUE, enabled |-> TRUE, cert |-> TRUE, key |-> TRUE]
NoPort == [FullHttps EXCEPT !.port = FALSE]
PublicAt(ip) ==
  [Loopback EXCEPT !.mode = "public", !.https = FullHttps,
     !.routes = <<Route(Mma1, Mma1.host, ip, <<ip>>)>>]
Tailnet ==
  [Loopback EXCEPT !.mode = "private-network", !.https = NoPort, !.source = "tailscale-exit",
     !.routes = <<Route(Osl1, <<"norway">>, Wildcard, <<Wildcard>>)>>]

Configs == {Loopback, PublicAt(<<185, 1, 1, 255>>), PublicAt(<<9, 255, 255, 255>>), Tailnet}

T(flag, value) == [flag |-> flag, value |-> value]
Command == [kind |-> "export", tokens |-> <<>>, guided |-> FALSE, write |-> "file",
            protocol |-> "socks5"]
Export(tokens) == [Command EXCEPT !.tokens = tokens]
Recommended(tokens, write) ==
  [Command EXCEPT !.kind = "recommend", !.tokens = tokens, !.write = write]
Access == [kind |-> "access", tokens |-> <<>>, mode |-> "", access |-> "", domain |-> <<>>,
           clearDomain |-> FALSE, ips |-> <<>>, unsafe |-> FALSE]
Set(key, value) == [kind |-> "set", tokens |-> <<>>, key |-> key, value |-> value]

Sweden == T("country", <<"sweden">>)
Europe == T("region", <<"europe">>)

Exports ==
  {Export(<<Sweden, T("count", 2), Europe, T("count", 2)>>),
   Export(<<T("country", <<"se">>), T("city", <<"gothenburg">>), T("count", All)>>),
   Export(<<T("country", <<"se">>), T("server", Got2.host),
            Europe, T("owner", "rented"), T("count", 1)>>),
   Export(<<T("city", <<"malmo">>)>>), Export(<<T("country", <<"xx">>)>>),
   Export(<<Sweden, Europe, T("count", 1)>>),
   [Export(<<Europe, T("minSpeed", 10), T("count", 1)>>) EXCEPT !.write = "dry-run"],
   [Export(<<Sweden>>) EXCEPT !.write = "conflict"],
   [Export(<<Sweden, T("count", 1)>>) EXCEPT !.guided = TRUE, !.protocol = "https"],
   Recommended(<<Sweden, T("city", <<"got">>), Europe, T("providers", "31173")>>, "file"),
   Recommended(<<Europe, T("count", All)>>, "dry-run")}
Edits ==
  {[Access EXCEPT !.mode = "loopback", !.clearDomain = TRUE],
   [Access EXCEPT !.mode = "public", !.ips = << <<185, 1, 1, 2>>, <<185, 1, 1, 1>> >>],
   [Access EXCEPT !.access = "inline-selector", !.domain = <<"example.com">>],
   [Access EXCEPT !.mode = "private-network", !.access = "published-routes", !.ips = <<Wildcard>>],
   [Access EXCEPT !.mode = "public", !.access = "inline-selector", !.ips = << <<185, 1, 1, 9>> >>],
   Set("setup.access.mode", "published-routes"), Set("setup.access.mode", "inline-selector"),
   Set("setup.auth.password", ""), Set("setup.access.allowUnsafePublicEmptyPassword", "true"),
   Set("setup.bind.httpsPort", "8443"), Set("setup.bind.httpsPort", "null"),
   Set("setup.https.certPath", "/cert.pem"), Set("setup.https.keyPath", "/key.pem"),
   Set("setup.https.enabled", "false"), Set("setup.https.certPath", "null"),
   Set("setup.bind.httpsPort", "malformed"), Set("runtime.status", "running")}

Guided == [Export(<<>>) EXCEPT !.guided = TRUE, !.protocol = "ask"]
SomeAsks == [p \in {p1, p2} |-> IF p = p1 THEN Exports ELSE Edits \cup {Guided}]
PromptedSelectors ==
  {<<>>, <<[Bare("country", <<"se">>) EXCEPT !.count = All]>>,
   <<[Bare("region", <<"europe">>) EXCEPT !.count = 3],
     [Bare("country", <<"se">>) EXCEPT !.count = 1]>>,
   <<[Bare("country", <<"se">>) EXCEPT !.city = <<"got">>, !.providers = {"31173"},
                                       !.server = Got2.host, !.count = 1]>>}
TwoProcs == {p1, p2}
=============================================================================
