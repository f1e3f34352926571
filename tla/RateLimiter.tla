----------------------------- MODULE RateLimiter -----------------------------
(***************************************************************************)
(* The token bucket of the signup endpoint                                  *)
(* (web/onboarding/server/signup.go, rateLimiter).  Tokens are floats there *)
(* and multiples of 1/Hour here; times are in the unit of Hour.             *)
(***************************************************************************)
EXTENDS Integers

CONSTANTS
    Capacity,    \* signups per hour; 0 disables the limiter
    Hour,        \* one hour
    NoBucket     \* an address not seen yet

\* Fault: the refill is not capped.
RefilledUncappedFault(b, now) ==
    IF b = NoBucket THEN Capacity * Hour ELSE b.tokens + (now - b.seen) * Capacity

\* Tokens in the bucket b at time now, before the request is served.  A request
\* whose timestamp is older than the last one served takes tokens away.
Refilled(b, now) ==
    IF b = NoBucket THEN Capacity * Hour
    ELSE LET t == b.tokens + (now - b.seen) * Capacity IN
         IF t > Capacity * Hour THEN Capacity * Hour ELSE t

Allows(b, now) == Capacity <= 0 \/ Refilled(b, now) >= Hour

\* Fault: a refused request does not count as seen.
ServedSeenFault(b, now) ==
    IF Capacity <= 0 THEN b
    ELSE [tokens |-> Refilled(b, now) - (IF Allows(b, now) THEN Hour ELSE 0),
          seen   |-> IF Allows(b, now) \/ b = NoBucket THEN now ELSE b.seen]

\* The bucket after the request.
Served(b, now) ==
    IF Capacity <= 0 THEN b
    ELSE [tokens |-> Refilled(b, now) - (IF Allows(b, now) THEN Hour ELSE 0),
          seen   |-> now]
=============================================================================
