--------------------------- MODULE ClientAddress ---------------------------
(***************************************************************************)
(* The address a request is attributed to (core ip.py). A request goes from *)
(* its host through the proxies of its chain to the application; each proxy *)
(* appends the address it got the request from to X-Forwarded-For, which    *)
(* the host may have filled with anything.                                  *)
(***************************************************************************)
EXTENDS Naturals, Sequences, Subsequence

CONSTANTS
  Trusted,    \* the addresses in trusted_proxy_cidrs
  Addresses,  \* what parses as an address
  Blank       \* a part of a header with nothing but spaces

Nobody == "nobody"  \* the empty address

\* A request as the application gets it: REMOTE_ADDR and X-Forwarded-For.
Sent(visit) ==
  LET hops == <<visit.host>> \o visit.chain IN
  [remote |-> hops[Len(hops)],
   header |-> visit.forged \o SubSeq(hops, 1, Len(hops) - 1)]

\* The hops a trusted request went through after the claimed client.
Hops(parts, count) == {parts[i] : i \in (Len(parts) - count + 2)..Len(parts)}

\* A defect: the entry is taken without a look at what follows it.
ClientFromForwardedFor_AnyHops(header, count) ==
  LET parts == Without(header, {Blank})
      claimed == parts[Len(parts) - count + 1] IN
  IF Len(parts) >= count /\ claimed \in Addresses THEN claimed ELSE Nobody

\* The count-th entry from the last, if all that follow are trusted proxies.
ClientFromForwardedFor(header, count) ==
  LET parts == Without(header, {Blank})
      claimed == parts[Len(parts) - count + 1] IN
  IF Len(parts) >= count /\ Hops(parts, count) \subseteq Trusted /\ claimed \in Addresses
  THEN claimed ELSE Nobody

\* trusted_proxy_count = 0 stands for no configured proxies.
ResolveClientIp(meta, count) ==
  LET claimed == ClientFromForwardedFor(meta.header, count) IN
  CASE meta.remote \notin Addresses -> Nobody
    [] meta.remote \in Addresses /\ (count = 0 \/ meta.remote \notin Trusted) -> meta.remote
    [] OTHER -> IF claimed = Nobody THEN meta.remote ELSE claimed
=============================================================================
