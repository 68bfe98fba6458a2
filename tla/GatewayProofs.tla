---------------------------- MODULE GatewayProofs ----------------------------
(***************************************************************************)
(* For every burst, refill time and set of frames: the rate law of the     *)
(* token bucket, the advice of its denials, and the gate in front of it.   *)
(* The rate law is not inductive by itself: Account keeps, for each submit *)
(* let through, what is left of its stretch together with the tokens.      *)
(***************************************************************************)
EXTENDS Gateway, TLAPS

BucketType ==
  /\ now \in Nat /\ tokens \in 0..Full /\ last_refill \in 0..now /\ disabled \in BOOLEAN
  /\ admitted \in Seq(Nat) /\ advice \in Nat \cup {None}

Account ==
  \A i \in DOMAIN admitted :
    tokens + TokenTime * (Len(admitted) - i + 1) <= Full + (last_refill - admitted[i])

AdviceIsEnough == advice # None => tokens + (advice - last_refill) >= TokenTime

(* A bucket that is not full has a submit since which it never was, and    *)
(* owes what it lacks to it and those that came after.                     *)
Spent ==
  \/ tokens = Full
  \/ \E i \in DOMAIN admitted :
       tokens + TokenTime * (Len(admitted) - i + 1) = Full + (last_refill - admitted[i])

BucketInv == BucketType /\ Account /\ RateIsBounded /\ AdviceIsEnough

LEMMA Sizes == /\ TokenTime \in Nat /\ TokenTime > 0 /\ UnitsPerMs \in Nat /\ UnitsPerMs > 0
               /\ Full \in Nat /\ Full >= TokenTime /\ None \notin Nat
<1>1. \A b, t \in Nat : b > 0 => b * t \in Nat /\ b * t >= t
  <2> SUFFICES ASSUME NEW b \in Nat, NEW t \in Nat, b > 0 PROVE b * t \in Nat /\ b * t >= t
    OBVIOUS
  <2>1. b * t = (b - 1) * t + t /\ (b - 1) * t \in Nat
    OBVIOUS
  <2> QED BY <2>1
<1> QED BY <1>1, TokenBucketAssumption DEF Full

LEMMA Ceiling ==
  ASSUME NEW x \in Nat, NEW u \in Nat, u > 0
  PROVE  /\ (x + u - 1) \div u \in Nat
         /\ ((x + u - 1) \div u) * u >= x
<1> DEFINE q == (x + u - 1) \div u
           r == (x + u - 1) % u
<1>1. q \in Int /\ r \in 0..(u - 1) /\ x + u - 1 = u * q + r
  BY Z3
<1>2. q >= 0
  BY <1>1
<1>3. u * q = q * u
  BY <1>1
<1> QED BY <1>1, <1>2, <1>3

LEMMA RefillRange ==
  ASSUME BucketType
  PROVE  refill \in 0..Full /\ refill <= tokens + (now - last_refill)
BY Sizes DEF BucketType, refill

LEMMA AllowKeeps ==
  ASSUME BucketInv, Allow, now' = now
  PROVE  BucketInv'
<1> USE Sizes
<1>0. TokenTime \in Nat /\ Full \in Nat
  OBVIOUS
<1>1. CASE UNCHANGED bucket_vars
  BY <1>1 DEF BucketInv, BucketType, Account, RateIsBounded, AdviceIsEnough, bucket_vars, Full
<1>2. CASE ~UNCHANGED bucket_vars
  <2>1. /\ HasToken /\ tokens' = refill - TokenTime /\ last_refill' = now
        /\ admitted' = Append(admitted, now) /\ advice' = None /\ disabled' = disabled
    BY <1>2 DEF Allow
  <2>2. refill \in 0..Full /\ refill <= tokens + (now - last_refill)
    BY RefillRange DEF BucketInv
  <2>3. BucketType'
    BY <2>1, <2>2 DEF BucketInv, BucketType, HasToken, Full
  <2> DEFINE n == Len(admitted)
  <2>4. /\ n \in Nat /\ DOMAIN admitted = 1..n /\ DOMAIN admitted' = 1..(n + 1)
        /\ Len(admitted') = n + 1 /\ admitted'[n + 1] = now
        /\ \A i \in 1..n : admitted'[i] = admitted[i] /\ admitted[i] \in Nat
    BY <2>1 DEF BucketInv, BucketType
  <2>5. ASSUME NEW i \in 1..(n + 1)
        PROVE tokens' + TokenTime * (n + 1 - i + 1) <= Full + (now - admitted'[i])
    <3>1. CASE i = n + 1
      BY <2>1, <2>2, <2>4, <3>1 DEF BucketInv, BucketType
    <3>2. CASE i \in 1..n
      <4>1. tokens + TokenTime * (n - i + 1) <= Full + (last_refill - admitted[i])
        BY <2>4, <3>2 DEF BucketInv, Account
      <4>2. TokenTime * (n + 1 - i + 1) = TokenTime * (n - i + 1) + TokenTime
        BY <2>4, <3>2
      <4>3. TokenTime * (n - i + 1) \in Nat
        BY <2>4, <3>2
      <4>4. PICK cost \in Nat : cost = TokenTime * (n - i + 1)
        BY <4>3
      <4>5. /\ tokens \in Int /\ last_refill \in Int /\ now \in Int /\ refill \in Int
            /\ admitted[i] \in Int /\ admitted'[i] = admitted[i]
        BY <2>2, <2>4, <3>2 DEF BucketInv, BucketType
      <4> HIDE DEF n
      <4>6. refill + cost <= Full + (now - admitted[i])
        BY <2>2, <4>1, <4>4, <4>5
      <4>7. tokens' + (cost + TokenTime) <= Full + (now - admitted'[i])
        BY <2>1, <4>5, <4>6
      <4> QED BY <4>2, <4>4, <4>7
    <3> QED BY <3>1, <3>2, <2>4
  <2>6. Account'
    BY <2>1, <2>4, <2>5 DEF Account, Full
  <2>7. RateIsBounded'
    <3> SUFFICES ASSUME NEW i \in 1..(n + 1), NEW j \in 1..(n + 1), i <= j
                 PROVE TokenTime * (j - i + 1) <= Full + (admitted'[j] - admitted'[i])
      BY <2>4 DEF RateIsBounded, Full
    <3>1. CASE j = n + 1
      <4>1. tokens' + TokenTime * (n + 1 - i + 1) <= Full + (now - admitted'[i])
        BY <2>5
      <4>2. TokenTime * (n + 1 - i + 1) \in Int /\ tokens' \in Nat /\ admitted'[i] \in Nat
        BY <2>3, <2>4 DEF BucketType
      <4> QED BY <2>4, <3>1, <4>1, <4>2 DEF BucketInv, BucketType
    <3>2. CASE j \in 1..n
      <4>1. TokenTime * (j - i + 1) <= Full + (admitted[j] - admitted[i])
        <5>1. i \in DOMAIN admitted /\ j \in DOMAIN admitted
          BY <2>4, <3>2
        <5> HIDE DEF n
        <5> QED BY <5>1 DEF BucketInv, RateIsBounded
      <4>2. i \in 1..n /\ j \in 1..n
        BY <2>4, <3>2
      <4>3. admitted'[i] = admitted[i] /\ admitted'[j] = admitted[j]
        BY <2>4, <4>2
      <4> QED BY <4>1, <4>3
    <3> QED BY <3>1, <3>2, <2>4
  <2> QED BY <2>1, <2>3, <2>6, <2>7 DEF BucketInv, AdviceIsEnough
<1> QED BY <1>1, <1>2

LEMMA DenyKeeps ==
  ASSUME BucketInv, Deny, now' = now
  PROVE  BucketInv'
<1> USE Sizes
<1>1. /\ ~HasToken /\ tokens' = refill /\ last_refill' = now /\ admitted' = admitted
      /\ advice' = now + retry_after_ms * UnitsPerMs /\ disabled' = disabled
  BY DEF Deny
<1>2. refill \in 0..Full /\ refill <= tokens + (now - last_refill)
  BY RefillRange DEF BucketInv
<1>3. retry_after_ms \in Nat /\ retry_after_ms * UnitsPerMs \in Nat
      /\ retry_after_ms * UnitsPerMs >= TokenTime - refill
  <2> DEFINE x == TokenTime - refill
             q == (x + UnitsPerMs - 1) \div UnitsPerMs
  <2>1. x \in Nat /\ x > 0
    BY <1>1, <1>2 DEF HasToken
  <2>2. q \in Nat /\ q * UnitsPerMs >= x
    <3> HIDE DEF x
    <3> QED BY <2>1, Ceiling
  <2>3. q # 0
    <3> SUFFICES ASSUME q = 0 PROVE FALSE
      OBVIOUS
    <3> QED BY <2>1, <2>2
  <2>4. retry_after_ms = q
    BY <2>2, <2>3 DEF retry_after_ms
  <2>5. q * UnitsPerMs \in Nat
    <3> HIDE DEF q
    <3> QED BY <2>2
  <2> QED BY <2>2, <2>4, <2>5
<1>4. BucketType'
  BY <1>1, <1>2, <1>3 DEF BucketInv, BucketType, Full
<1>5. Account'
  <2> SUFFICES ASSUME NEW i \in DOMAIN admitted
               PROVE refill + TokenTime * (Len(admitted) - i + 1) <= Full + (now - admitted[i])
    BY <1>1 DEF Account, Full
  <2>1. tokens + TokenTime * (Len(admitted) - i + 1) <= Full + (last_refill - admitted[i])
    BY DEF BucketInv, Account
  <2>2. TokenTime * (Len(admitted) - i + 1) \in Int /\ admitted[i] \in Nat
    BY DEF BucketInv, BucketType
  <2> QED BY <1>2, <2>1, <2>2 DEF BucketInv, BucketType
<1>6. RateIsBounded'
  BY <1>1 DEF BucketInv, RateIsBounded, Full
<1>7. AdviceIsEnough'
  BY <1>1, <1>2, <1>3 DEF AdviceIsEnough, BucketInv, BucketType
<1> QED BY <1>4, <1>5, <1>6, <1>7 DEF BucketInv

LEMMA FreshBucket ==
  ASSUME now' \in Nat, tokens' = Full, last_refill' = now', disabled' \in BOOLEAN,
         admitted' = <<>>, advice' = None
  PROVE  BucketInv'
BY Sizes DEF BucketInv, BucketType, Account, RateIsBounded, AdviceIsEnough, Full

LEMMA Untouched ==
  ASSUME BucketInv, UNCHANGED bucket_vars, now' \in Nat, now' >= now
  PROVE  BucketInv'
<1>1. BucketType'
  BY Sizes DEF BucketInv, BucketType, bucket_vars, Full
<1> QED BY <1>1 DEF BucketInv, Account, RateIsBounded, AdviceIsEnough, bucket_vars, Full

(* Every reachable state of a connection has a bucket that kept its        *)
(* account, for whatever it is sent.                                       *)
THEOREM BucketCorrect == Spec => []BucketInv
<1>1. Init => BucketInv
  BY Sizes DEF Init, BucketInit, BucketInv, BucketType, Account, RateIsBounded, AdviceIsEnough, Full
<1>2. BucketInv /\ [Next]_vars => BucketInv'
  <2> SUFFICES ASSUME BucketInv, [Next]_vars PROVE BucketInv'
    OBVIOUS
  <2>0. now \in Nat
    BY DEF BucketInv, BucketType
  <2>1. ASSUME NEW header, Accept(header) PROVE BucketInv'
    BY <2>0, <2>1, FreshBucket DEF Accept, BucketReset
  <2>2. ASSUME NEW f \in Frames, ReadFrame(f) PROVE BucketInv'
    <3>1. now' = now
      BY <2>2 DEF ReadFrame
    <3>2. UNCHANGED bucket_vars \/ Allow \/ Deny
      BY <2>2 DEF ReadFrame, NotARequest, RateLimited, Admitted, Invalid, AuthHello, Gated, Passes,
        ForwardLibraryCall, SubmitEvent, Dispatch
    <3> QED BY <2>0, <3>1, <3>2, AllowKeeps, DenyKeeps, Untouched
  <2>3. CASE CopilotAnswers \/ CopilotTimeout \/ PendingAuthTimeout \/ Leave
             \/ ControlLoopTakes \/ ControlLoopExits \/ Tick \/ UNCHANGED vars
    <3>1. UNCHANGED bucket_vars /\ (now' = now \/ now' = now + 1)
      BY <2>3 DEF CopilotAnswers, CopilotTimeout, PendingAuthTimeout, Leave, ControlLoopTakes,
        ControlLoopExits, Tick, vars, bucket_vars
    <3> QED BY <2>0, <3>1, Untouched
  <2> QED BY <2>1, <2>2, <2>3 DEF Next
<1> QED BY <1>1, <1>2, PTL DEF Spec

(* No stretch of a connection lets through more submits than a burst and   *)
(* what refills in that time.                                              *)
THEOREM RateCorrect == Spec => []RateIsBounded
<1>1. BucketInv => RateIsBounded
  BY DEF BucketInv
<1> QED BY <1>1, BucketCorrect, PTL

(* Whoever waits as long as a denial says finds a token.                   *)
THEOREM AdviceCorrect == Spec => []RetryAdviceHolds
<1>1. BucketInv => RetryAdviceHolds
  BY Sizes DEF BucketInv, BucketType, AdviceIsEnough, RetryAdviceHolds, HasToken, refill
<1> QED BY <1>1, BucketCorrect, PTL

LEMMA SpentKeeps ==
  ASSUME BucketInv, Spent, Allow \/ Deny, now' = now
  PROVE  Spent'
<1> USE Sizes
<1>0. TokenTime \in Nat /\ Full \in Nat
  OBVIOUS
<1>1. CASE UNCHANGED bucket_vars
  BY <1>1 DEF Spent, bucket_vars, Full
<1>2. CASE ~UNCHANGED bucket_vars
  <2>1. /\ last_refill' = now
        /\ \/ tokens' = refill - TokenTime /\ admitted' = Append(admitted, now)
           \/ tokens' = refill /\ admitted' = admitted
    BY <1>2 DEF Allow, Deny
  <2>2. /\ now \in Nat /\ last_refill \in 0..now /\ tokens \in 0..Full /\ admitted \in Seq(Nat)
    BY DEF BucketInv, BucketType
  <2>3. PICK n \in Nat : n = Len(admitted)
    BY <2>2
  <2>4. /\ refill = Full \/ refill = tokens + (now - last_refill)
        /\ tokens = Full => refill = Full
    BY <2>2 DEF refill
  <2>5. CASE refill = Full
    <3>1. CASE tokens' = refill /\ admitted' = admitted
      BY <2>5, <3>1 DEF Spent, Full
    <3>2. CASE tokens' = refill - TokenTime /\ admitted' = Append(admitted, now)
      <4>1. Len(admitted') = n + 1 /\ n + 1 \in DOMAIN admitted' /\ admitted'[n + 1] = now
        BY <2>2, <2>3, <3>2
      <4>2. TokenTime * ((n + 1) - (n + 1) + 1) = TokenTime
        BY <1>0
      <4>3. tokens' + TokenTime = Full + (now - now)
        BY <1>0, <2>2, <2>5, <3>2
      <4>4. tokens' + TokenTime * (Len(admitted') - (n + 1) + 1) = Full + (last_refill' - admitted'[n + 1])
        BY <2>1, <4>1, <4>2, <4>3
      <4> QED BY <4>1, <4>4 DEF Spent, Full
    <3> QED BY <2>1, <3>1, <3>2
  <2>6. CASE refill # Full
    <3>1. refill = tokens + (now - last_refill) /\ tokens # Full
      BY <2>4, <2>6
    <3>7. PICK i \in DOMAIN admitted :
             tokens + TokenTime * (Len(admitted) - i + 1) = Full + (last_refill - admitted[i])
      BY <3>1, Zenon DEF Spent
    <3>2. i \in 1..n /\ tokens + TokenTime * (n - i + 1) = Full + (last_refill - admitted[i])
      BY <2>2, <2>3, <3>7
    <3>3. PICK a \in Nat, m \in Nat : a = admitted[i] /\ m = TokenTime * (n - i + 1)
      <4>1. n - i + 1 \in Nat
        BY <2>3, <3>2
      <4>2. TokenTime * (n - i + 1) \in Nat
        BY <1>0, <4>1
      <4>3. admitted[i] \in Nat
        BY <2>2, <3>7
      <4> QED BY <4>2, <4>3
    <3>4. refill + m = Full + (now - a)
      <4>1. tokens + m = Full + (last_refill - a)
        BY <3>2, <3>3
      <4>2. refill = tokens + (now - last_refill)
        BY <3>1
      <4>3. tokens \in Int /\ now \in Int /\ last_refill \in Int /\ Full \in Int
        BY <1>0, <2>2
      <4> HIDE Sizes
      <4> QED BY <4>1, <4>2, <4>3
    <3>5. CASE tokens' = refill /\ admitted' = admitted
      <4>1. i \in DOMAIN admitted'
        BY <2>2, <2>3, <3>2, <3>5
      <4>2. tokens' + TokenTime * (Len(admitted') - i + 1) = Full + (last_refill' - admitted'[i])
        BY <2>1, <2>3, <3>3, <3>4, <3>5
      <4> QED BY <4>1, <4>2 DEF Spent, Full
    <3>6. CASE tokens' = refill - TokenTime /\ admitted' = Append(admitted, now)
      <4>1. i \in DOMAIN admitted' /\ Len(admitted') = n + 1 /\ admitted'[i] = a
        BY <2>2, <2>3, <3>2, <3>3, <3>6
      <4>2. TokenTime * ((n + 1) - i + 1) = m + TokenTime
        <5>1. PICK k \in Nat : k = n - i + 1
          <6>1. n - i + 1 \in Nat
            BY <2>3, <3>2
          <6> QED BY <6>1
        <5>2. (n + 1) - i + 1 = k + 1
          BY <2>3, <3>2, <5>1
        <5>3. TokenTime * (k + 1) = TokenTime * k + TokenTime
          BY <1>0
        <5> QED BY <3>3, <5>1, <5>2, <5>3
      <4>3. refill \in Int
        BY <2>2, <3>1
      <4>4. tokens' + (m + TokenTime) = Full + (now - a)
        BY <1>0, <2>2, <3>3, <3>4, <3>6, <4>3
      <4>5. tokens' + TokenTime * (Len(admitted') - i + 1) = Full + (last_refill' - admitted'[i])
        BY <2>1, <4>1, <4>2, <4>4
      <4> QED BY <4>1, <4>5 DEF Spent, Full
    <3> QED BY <2>1, <3>5, <3>6
  <2> QED BY <2>5, <2>6
<1> QED BY <1>1, <1>2

(* Nobody is turned away for less than a flood: where a bucket has no      *)
(* token, one more submit would break the rate law (ratelimit.rs,          *)
(* try_acquire_at).                                                        *)
THEOREM DenialCorrect == Spec => []DeniesOnlyFloods
<1>1. Init => Spent
  BY DEF Init, BucketInit, Spent
<1>2. BucketInv /\ Spent /\ [Next]_vars => Spent'
  <2> SUFFICES ASSUME BucketInv, Spent, [Next]_vars PROVE Spent'
    OBVIOUS
  <2>1. ASSUME UNCHANGED bucket_vars PROVE Spent'
    BY <2>1 DEF Spent, bucket_vars, Full
  <2>2. ASSUME NEW header, Accept(header) PROVE Spent'
    BY <2>2 DEF Accept, BucketReset, Spent, Full
  <2>3. ASSUME NEW f \in Frames, ReadFrame(f) PROVE Spent'
    <3>1. now' = now
      BY <2>3 DEF ReadFrame
    <3>2. UNCHANGED bucket_vars \/ Allow \/ Deny
      BY <2>3 DEF ReadFrame, NotARequest, RateLimited, Admitted, Invalid, AuthHello, Gated, Passes,
        ForwardLibraryCall, SubmitEvent, Dispatch
    <3> QED BY <2>1, <3>1, <3>2, SpentKeeps
  <2>4. CASE CopilotAnswers \/ CopilotTimeout \/ PendingAuthTimeout \/ Leave
             \/ ControlLoopTakes \/ ControlLoopExits \/ Tick \/ UNCHANGED vars
    <3>1. UNCHANGED bucket_vars
      BY <2>4 DEF CopilotAnswers, CopilotTimeout, PendingAuthTimeout, Leave, ControlLoopTakes,
        ControlLoopExits, Tick, vars, bucket_vars
    <3> QED BY <2>1, <3>1
  <2> QED BY <2>2, <2>3, <2>4 DEF Next
<1>3. BucketInv /\ Spent => DeniesOnlyFloods
  <2> SUFFICES ASSUME BucketInv, Spent, ~HasToken
               PROVE  \E i \in DOMAIN admitted :
                        TokenTime * (Len(admitted) - i + 2) > Full + (now - admitted[i])
    BY DEF DeniesOnlyFloods
  <2> USE Sizes
  <2>1. /\ now \in Nat /\ last_refill \in 0..now /\ tokens \in 0..Full /\ admitted \in Seq(Nat)
        /\ TokenTime \in Nat /\ Full \in Nat
    BY DEF BucketInv, BucketType
  <2>2. tokens + (now - last_refill) < TokenTime /\ tokens # Full
    BY <2>1 DEF HasToken, refill
  <2>3. PICK n \in Nat : n = Len(admitted)
    BY <2>1
  <2>11. PICK i \in DOMAIN admitted :
           tokens + TokenTime * (Len(admitted) - i + 1) = Full + (last_refill - admitted[i])
    BY <2>2, Zenon DEF Spent
  <2>4. i \in 1..n /\ tokens + TokenTime * (n - i + 1) = Full + (last_refill - admitted[i])
    BY <2>1, <2>3, <2>11
  <2>5. PICK k \in Nat, a \in Nat : k = n - i + 1 /\ a = admitted[i]
    <3>1. n - i + 1 \in Nat
      BY <2>3, <2>4
    <3>2. admitted[i] \in Nat
      BY <2>1, <2>11
    <3> QED BY <3>1, <3>2
  <2>6. PICK m \in Nat : m = TokenTime * k
    <3>1. TokenTime * k \in Nat
      BY <2>1
    <3> QED BY <3>1
  <2>7. n - i + 2 = k + 1 /\ TokenTime * (k + 1) = m + TokenTime
    <3>1. n - i + 2 = k + 1
      BY <2>3, <2>4, <2>5
    <3>2. TokenTime * (k + 1) = TokenTime * k + TokenTime
      BY <2>1
    <3> QED BY <2>6, <3>1, <3>2
  <2>8. m + TokenTime > Full + (now - a)
    <3>1. tokens + m = Full + (last_refill - a)
      BY <2>4, <2>5, <2>6
    <3> QED BY <2>1, <2>2, <3>1
  <2>9. TokenTime * (Len(admitted) - i + 2) > Full + (now - admitted[i])
    BY <2>3, <2>5, <2>7, <2>8
  <2>10. i \in DOMAIN admitted
    BY <2>1, <2>3
  <2> QED BY <2>9, <2>10
<1> QED BY <1>1, <1>2, <1>3, BucketCorrect, PTL DEF Spec

(* A connection that never showed the token touches nothing.               *)
THEOREM GateCorrect == Spec => []StrangersReachNothing
<1>1. Init => StrangersReachNothing
  BY DEF Init, StrangersReachNothing
<1>2. StrangersReachNothing /\ [Next]_vars => StrangersReachNothing'
  <2> SUFFICES ASSUME StrangersReachNothing, [Next]_vars PROVE StrangersReachNothing'
    OBVIOUS
  <2> USE DEF StrangersReachNothing
  <2>1. ASSUME NEW header, Accept(header) PROVE StrangersReachNothing'
    BY <2>1 DEF Accept
  <2>2. ASSUME NEW f \in Frames, ReadFrame(f) PROVE StrangersReachNothing'
    <3>1. CASE NotARequest(f) \/ RateLimited(f) \/ Invalid(f) \/ Gated(f)
      BY <3>1 DEF NotARequest, RateLimited, Invalid, Gated
    <3>2. CASE AuthHello(f)
      BY <3>2 DEF AuthHello
    <3>3. CASE ForwardLibraryCall(f) \/ SubmitEvent(f) \/ Dispatch(f)
      <4>1. auth_state = "Authed" /\ auth_state' = auth_state /\ proven' = proven
        BY <3>3 DEF ForwardLibraryCall, SubmitEvent, Dispatch, Passes
      <4> QED BY <4>1
    <3> QED BY <2>2, <3>1, <3>2, <3>3 DEF ReadFrame
  <2>3. CASE CopilotAnswers \/ CopilotTimeout \/ PendingAuthTimeout \/ Leave
             \/ ControlLoopTakes \/ ControlLoopExits \/ Tick \/ UNCHANGED vars
    BY <2>3 DEF CopilotAnswers, CopilotTimeout, PendingAuthTimeout, Leave, ControlLoopTakes,
      ControlLoopExits, Tick, vars
  <2> QED BY <2>1, <2>2, <2>3 DEF Next
<1> QED BY <1>1, <1>2, PTL DEF Spec
=============================================================================
