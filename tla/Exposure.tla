------------------------------ MODULE Exposure ------------------------------
(***************************************************************************)
(* The exposure contract (src/config/exposure-contract.ts): the addresses  *)
(* and ports routes are published on, what is refused, and what is said of *)
(* a configuration.  An IPv4 address is the tuple of its octets; <<>> is a *)
(* word that is no IPv4 address.                                           *)
(***************************************************************************)
EXTENDS Naturals, Sequences, FiniteSets

Wildcard == <<0, 0, 0, 0>>            \* PRIVATE_NETWORK_LISTEN_HOST
Localhost == <<127, 0, 0, 1>>         \* PRIVATE_NETWORK_BACKEND_HOST

IsIPv4(ip) == Len(ip) = 4
IsLoopback(ip) == ip[1] = 127
IsPrivate(ip) == \/ ip[1] = 10
                 \/ ip[1] = 172 /\ ip[2] \in 16..31
                 \/ ip[1] = 192 /\ ip[2] = 168
IsTailscale(ip) == ip[1] = 100 /\ ip[2] \in 64..127
IsPrivateNetworkHost(ip) == ip = Wildcard \/ IsPrivate(ip) \/ IsTailscale(ip)
IsPublic(ip) ==
  ~ \/ ip[1] \in {0, 10, 127} \/ ip[1] >= 224
    \/ IsTailscale(ip) \/ IsPrivate(ip)
    \/ ip[1] = 169 /\ ip[2] = 254
    \/ ip[1] = 192 /\ ip[2] = 0
    \/ ip[1] = 198 /\ ip[2] \in {18, 19}

\* The address of route i (from 0) on a machine that publishes to itself.
DeriveLoopbackBindIp(i) == <<127, 0, i \div 254, (i % 254) + 1>>

ComputePublishedPort(mode, base, i) == IF mode = "private-network" THEN base + i ELSE base
ListenerHost(mode, ip) == IF mode = "private-network" THEN Wildcard ELSE ip
BackendHost(mode, ip) == IF mode = "private-network" THEN Localhost ELSE ip

\* A route's name: under the base domain, else its alias or its address.
DeriveHostname(alias, ip, domain, mode) ==
  IF domain # <<>> THEN <<alias, domain>>
  ELSE IF mode = "loopback" THEN <<alias>> ELSE <<ip>>

DefaultBindHost(mode, tailscaleIp) ==
  IF mode # "private-network" THEN Localhost
  ELSE IF tailscaleIp # <<>> THEN tailscaleIp ELSE Wildcard

-----------------------------------------------------------------------------
(* validateExposureSettings and validateAccessSettings: the code of the    *)
(* refusal, or "ok"; and the addresses the routes get when it is "ok".     *)

SharedHost(mode, access) == mode = "private-network" \/ access = "inline-selector"

RightKind(mode, ip) ==
  CASE mode = "loopback" -> IsLoopback(ip)
    [] mode = "private-network" -> IsPrivateNetworkHost(ip)
    [] mode = "public" -> IsPublic(ip)

Unsafe(mode) == CASE mode = "loopback" -> "UNSAFE_LOOPBACK_BIND_IP"
                  [] mode = "private-network" -> "UNSAFE_PRIVATE_BIND_IP"
                  [] mode = "public" -> "UNSAFE_PUBLIC_BIND_IP"

AddressVerdict(mode, ip) == IF ~IsIPv4(ip) THEN "INVALID_BIND_IP"
                            ELSE IF ~RightKind(mode, ip) THEN Unsafe(mode)
                            ELSE "ok"

SharedHostVerdict(mode, ips) ==
  IF Len(ips) # 1 THEN "BIND_IP_COUNT_MISMATCH" ELSE AddressVerdict(mode, ips[1])

\* The first address that will not do decides.
PublicVerdict(count, ips) ==
  LET bad == {i \in 1..count : AddressVerdict("public", ips[i]) # "ok"}
  IN IF Len(ips) # count THEN "BIND_IP_COUNT_MISMATCH"
     ELSE IF \E i, j \in 1..count : i # j /\ ips[i] = ips[j] THEN "AMBIGUOUS_SHARED_BIND_IP"
     ELSE IF bad = {} THEN "ok"
     ELSE LET first == CHOOSE i \in bad : \A j \in bad : i <= j
          IN AddressVerdict("public", ips[first])

ExposureVerdict(count, mode, access, domain, ips) ==
  IF domain = <<"not a domain">> THEN "INVALID_BASE_DOMAIN"
  ELSE IF mode = "loopback" /\ access = "published-routes" THEN "ok"
  ELSE IF SharedHost(mode, access) THEN SharedHostVerdict(mode, ips)
  ELSE PublicVerdict(count, ips)

RouteBindIps(count, mode, access, ips) ==
  [i \in 1..count |->
     IF mode = "loopback" /\ access = "published-routes" THEN DeriveLoopbackBindIp(i - 1)
     ELSE IF SharedHost(mode, access) THEN ips[1]
     ELSE ips[i]]

\* Selector access to a public listener needs a password, or the override.
AccessAllowed(mode, access, password, override) ==
  ~(mode = "public" /\ access = "inline-selector" /\ password = "" /\ ~override)
=============================================================================
