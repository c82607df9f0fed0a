--------------------------- MODULE MCProvisioning ---------------------------
(* Instances of Provisioning for TLC: five relays in three countries, one of *)
(* which has a city of its own name, and what an operator may ask for.       *)
EXTENDS Provisioning

CONSTANTS none, p1, p2

Relay(country, name, city, cityName, active) ==
  [host |-> <<country, city, "wg">>, country |-> country, countryName |-> name,
   city |-> city, cityName |-> cityName, active |-> active, socks |-> TRUE,
   type |-> "wireguard", pubkey |-> TRUE]

Malmo == Relay("se", <<"sweden">>, "mma", <<"malmo">>, FALSE)
Gothenburg == Relay("se", <<"sweden">>, "got", <<"gothenburg">>, TRUE)
Singapore == Relay("sg", <<"singapore">>, "sin", <<"singapore">>, TRUE)
NoSocks == [Singapore EXCEPT !.socks = FALSE]
Bridge == [Malmo EXCEPT !.type = "bridge", !.host = <<"se", "mma", "br">>]
Renamed == [Malmo EXCEPT !.countryName = <<"sverige">>]

HostRank == (Gothenburg.host :> 1) @@ (Malmo.host :> 2) @@ (Bridge.host :> 3)
            @@ (Singapore.host :> 4)

Legacy(relays) == [format |-> "legacy", relays |-> relays]
AllPayloads ==
  {Legacy({Gothenburg, Malmo, Bridge, Singapore}), Legacy({Malmo, NoSocks}),
   Legacy({Gothenburg, Renamed}), [format |-> "app", relays |-> {Gothenburg, Singapore}],
   [format |-> "other", relays |-> {}]}

Ask == [interactive |-> FALSE, source |-> "mullvad-wireguard-socks",
        given |-> {"account", "password"}, optionsOk |-> TRUE, accountOk |-> TRUE, portsOk |-> TRUE,
        ports |-> [socks |-> 1080, http |-> 8080], locations |-> <<>>, mode |-> "loopback",
        ips |-> <<>>, domain |-> <<>>, https |-> "off"]
Tailnet == [Ask EXCEPT !.source = "tailscale-exit",
                       !.given = {"tailnet", "auth key", "exit node", "password"}]
Public(ips) == [Tailnet EXCEPT !.mode = "public", !.ips = ips,
                               !.locations = << <<"se">>, <<"singapore", "singapore">> >>]

AllAsks ==
  {[Ask EXCEPT !.interactive = TRUE, !.locations = << <<"se">>, <<"se">>, <<"sweden">> >>],
   [Ask EXCEPT !.portsOk = FALSE, !.locations = << <<"singapore">> >>],
   [Ask EXCEPT !.given = {"account"}], [Ask EXCEPT !.https = "unreadable"],
   [Ask EXCEPT !.optionsOk = FALSE],
   [Ask EXCEPT !.accountOk = FALSE],
   Public(<< <<185, 1, 1, 1>>, <<185, 1, 1, 2>> >>),
   Public(<< <<185, 1, 1, 1>>, <<185, 1, 1, 1>> >>),
   Public(<< <<185, 1, 1, 1>>, <<192, 168, 1, 2>> >>)}

Shared == [Ask EXCEPT !.mode = "private-network",
                      !.locations = << <<"sg">>, <<"sg">>, <<"malmo">> >>]
AsksThere == [p \in {p1, p2} |-> IF p = p1 THEN AllAsks ELSE {Shared}]

TwoProcs == {p1, p2}
=============================================================================
