------------------------------- MODULE Clients -------------------------------
(***************************************************************************)
(* Whom a request is accounted to (realIP in internal/api/middleware.go).  *)
(***************************************************************************)
EXTENDS Integers, Sequences

CONSTANTS
  Client,    \* network addresses
  Trusted,   \* TRUSTED_PROXIES
  NoClient   \* a header that is absent, or does not parse as an address

ASSUME ClientsAssumption == Trusted \subseteq Client /\ NoClient \notin Client

\* resolveClientIP: a peer that is no trusted proxy speaks for itself; a proxy names the
\* client in X-Real-Ip, or else as the last address of X-Forwarded-For that is no proxy.
ResolveClientIP(peer, realIp, forwardedFor) ==
  LET outside == {i \in DOMAIN forwardedFor : forwardedFor[i] \in Client \ Trusted}
  IN  IF peer \notin Trusted THEN peer
      ELSE IF realIp # NoClient THEN realIp
      ELSE IF outside = {} THEN peer
      ELSE forwardedFor[CHOOSE i \in outside : \A j \in outside : j <= i]
=============================================================================
