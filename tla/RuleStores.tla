----------------------------- MODULE RuleStores -----------------------------
(***************************************************************************)
(* What the two stores behind the rules share, set up by                   *)
(* _build_detection_stores: one setting chooses their backend, one Redis   *)
(* may fail them, and their times are those of one clock.                  *)
(***************************************************************************)
CONSTANT
  Faults    \* "redis_error": a call to Redis raises RedisError

VARIABLES
  backend,  \* the stores in use, a setting: "memory" or "redis"
  now       \* the clock

\* At the start.
StoresStart == backend \in {"memory", "redis"} /\ now = 0
=============================================================================
