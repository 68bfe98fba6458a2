----------------------------- MODULE TokenBucket -----------------------------
(***************************************************************************)
(* engine/src/bridge/ratelimit.rs: the token bucket a connection's reader  *)
(* task owns, in front of engine.submit_event.  Time is counted in units   *)
(* of which UnitsPerMs make a millisecond, and tokens in the time it takes *)
(* to refill them, so that the code's fractions of a token are whole here. *)
(***************************************************************************)
EXTENDS Integers, Sequences

CONSTANTS
  BURST_CAPACITY,  \* tokens the bucket holds, 1000
  TokenTime,       \* units it takes to refill a token, 1 / REFILL_PER_SEC
  UnitsPerMs,
  None

ASSUME TokenBucketAssumption ==
  /\ BURST_CAPACITY \in Nat \ {0} /\ TokenTime \in Nat \ {0} /\ UnitsPerMs \in Nat \ {0}
  /\ None \notin Nat

VARIABLES
  now,
  tokens,       \* in units of refill time
  last_refill,
  disabled,     \* HYPEHOUSE_RATE_LIMIT_DISABLED, read once
  admitted,     \* history: when each submit was let through
  advice        \* history: since the last of them, when a retry was told to come

bucket_vars == <<tokens, last_refill, disabled, admitted, advice>>

Full == BURST_CAPACITY * TokenTime

\* RateLimiter::new: full, and with nothing to its account.
BucketInit ==
  /\ tokens = Full /\ last_refill = now /\ disabled \in BOOLEAN
  /\ admitted = <<>> /\ advice = None

BucketReset ==
  /\ tokens' = Full /\ last_refill' = now /\ disabled' \in BOOLEAN
  /\ admitted' = <<>> /\ advice' = None

\* Mutant: the refill is not capped.
refill_uncapped == tokens + (now - last_refill)

\* Mutant: the elapsed time counts from the last millisecond boundary.
refill_coarse ==
  LET added == ((now - last_refill) \div UnitsPerMs) * UnitsPerMs
  IN IF tokens + added < Full THEN tokens + added ELSE Full

refill ==
  IF tokens + (now - last_refill) < Full THEN tokens + (now - last_refill) ELSE Full

HasToken == refill >= TokenTime

\* Mutant: the wait is rounded down.
retry_after_ms_floor ==
  LET whole == (TokenTime - refill) \div UnitsPerMs
  IN IF whole < 1 THEN 1 ELSE whole

\* The deficit rounded up to milliseconds, at least one.
retry_after_ms ==
  LET whole == (TokenTime - refill + UnitsPerMs - 1) \div UnitsPerMs
  IN IF whole < 1 THEN 1 ELSE whole

\* try_acquire, Decision::Allow.
Allow ==
  \/ disabled /\ UNCHANGED bucket_vars
  \/ /\ ~disabled /\ HasToken
     /\ tokens' = refill - TokenTime /\ last_refill' = now
     /\ admitted' = Append(admitted, now) /\ advice' = None
     /\ UNCHANGED disabled

\* try_acquire, Decision::Deny.
Deny ==
  /\ ~disabled /\ ~HasToken
  /\ tokens' = refill /\ last_refill' = now
  /\ advice' = now + retry_after_ms * UnitsPerMs
  /\ UNCHANGED <<disabled, admitted>>
-----------------------------------------------------------------------------
(* Over every stretch of a connection's life the submits let through are   *)
(* at most a burst and what refills in that time: 200 a second sustained,  *)
(* 1000 at once (ratelimit.rs, module doc).                                *)
RateIsBounded ==
  \A i, j \in DOMAIN admitted :
    i <= j => TokenTime * (j - i + 1) <= Full + (admitted[j] - admitted[i])

(* Nobody is turned away for less: a bucket without a token has, since     *)
(* some earlier submit, let through all that stretch allows, so one more   *)
(* would break the bound (try_acquire_at and refill_at).                   *)
DeniesOnlyFloods ==
  (~disabled /\ ~HasToken) =>
    \E i \in DOMAIN admitted :
      TokenTime * (Len(admitted) - i + 2) > Full + (now - admitted[i])

(* A client that waits as long as a denial told it to finds a token,       *)
(* however many more denials it asked for meanwhile (ratelimit.rs,         *)
(* Decision::Deny: the minimum wait until a full token regenerates).       *)
RetryAdviceHolds == (advice # None /\ now >= advice) => HasToken
=============================================================================
