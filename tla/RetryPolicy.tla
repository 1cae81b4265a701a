----------------------------- MODULE RetryPolicy -----------------------------
(***************************************************************************)
(* The policies of src/include/hts/retry_policy.hpp, asked by a client     *)
(* that tries, and when it failed asks should_retry and get_delay with the *)
(* number of attempts made before (nothing in the scheduler retries; the   *)
(* client is that of examples/advanced_features.cpp and the tests).        *)
(*                                                                         *)
(* Delays are computed in doubles and become long long in the end: a       *)
(* product that does not fit has no defined result, and the build gives    *)
(* the least number (x86) or the greatest (ARM).  The multiplier is 2, the *)
(* default; pow and the product are exact then.                            *)
(***************************************************************************)
EXTENDS Integers

CONSTANTS
    MaxRetries,     \* max_retries_
    InitialDelay,   \* initial_delay_, and delay_ of FixedRetryPolicy
    MaxDelay,       \* max_delay_
    JitterPercent,  \* jitter_factor_, in percent
    Randoms,        \* what dist(rng_) gives, in percent
    LongBits        \* width of long long

ASSUME RetryAssumption ==
    /\ MaxRetries \in Nat /\ InitialDelay \in Nat
    /\ LongBits \in Nat \ {0}
    /\ MaxDelay \in InitialDelay .. 2 ^ (LongBits - 1) - 1
    /\ JitterPercent \in 0 .. 100 /\ Randoms \subseteq 0 .. 99
    /\ \A n \in 0 .. MaxRetries : 2 ^ n \in 1 .. 2 ^ (n + 1)

VARIABLES
    retryPolicy,   \* which policy, and whether ConditionalRetryPolicy wraps it
    attempt,       \* attempts made
    delay,         \* the last answer of get_delay, -1 before the first
    backOff,       \* the answer before that
    clientAt       \* the client: "trying", "waiting", "gaveUp", "done"

retryVars == <<retryPolicy, attempt, delay, backOff, clientAt>>

Kinds == {"none", "fixed", "exponential", "jittered"}
Least == - 2 ^ (LongBits - 1)
Greatest == 2 ^ (LongBits - 1) - 1

RetryTypeOK ==
    /\ retryPolicy \in [kind : Kinds, conditional : BOOLEAN]
    /\ attempt \in 0 .. MaxRetries + 1
    /\ {delay, backOff} \subseteq Least .. Greatest
    /\ clientAt \in {"trying", "waiting", "gaveUp", "done"}

RetryInit ==
    /\ retryPolicy \in [kind : Kinds, conditional : BOOLEAN]
    /\ attempt = 0 /\ delay = -1 /\ backOff = -1
    /\ clientAt = "trying"
-----------------------------------------------------------------------------
(* Plausible bug: the retries are counted from one. *)
BugOneRetryMore(n, transient) ==
    /\ retryPolicy.kind # "none" /\ n <= MaxRetries
    /\ retryPolicy.conditional => transient

(* should_retry(n, error), of an error that is transient or not *)
ShouldRetry(n, transient) ==
    /\ retryPolicy.kind # "none" /\ n < MaxRetries
    /\ retryPolicy.conditional => transient

Lower(a, b) == IF a < b THEN a ELSE b
Product(n) == InitialDelay * 2 ^ n

(* static_cast<long long> *)
ToLong(x) == IF x <= Greatest THEN {x} ELSE {Least, Greatest}

(* What the capped delay is multiplied by, in hundredths of a percent. *)
Jitter(r) == 100 * (100 - JitterPercent) + 2 * r * JitterPercent

(* get_delay(n), all its possible answers: jitter is added to the delay    *)
(* that was capped.                                                        *)
Delays(n) ==
    CASE retryPolicy.kind = "none"        -> {0}
      [] retryPolicy.kind = "fixed"       -> {InitialDelay}
      [] retryPolicy.kind = "exponential" -> {Lower(x, MaxDelay) : x \in ToLong(Product(n))}
      [] OTHER -> UNION {ToLong((Lower(Product(n), MaxDelay) * Jitter(r)) \div 10000) :
                             r \in Randoms}

TrySucceeds ==
    /\ clientAt = "trying"
    /\ clientAt' = "done" /\ attempt' = attempt + 1
    /\ UNCHANGED <<retryPolicy, delay, backOff>>

TryFails(transient) ==
    /\ clientAt = "trying"
    /\ attempt' = attempt + 1
    /\ IF ShouldRetry(attempt, transient)
       THEN /\ delay' \in Delays(attempt) /\ backOff' = delay
            /\ clientAt' = "waiting"
       ELSE clientAt' = "gaveUp" /\ UNCHANGED <<delay, backOff>>
    /\ UNCHANGED retryPolicy

WaitIsOver ==
    /\ clientAt = "waiting"
    /\ clientAt' = "trying"
    /\ UNCHANGED <<retryPolicy, attempt, delay, backOff>>

RetryNext ==
    \/ TrySucceeds
    \/ \E transient \in BOOLEAN : TryFails(transient)
    \/ WaitIsOver

RetrySpec == RetryInit /\ [][RetryNext]_retryVars
-----------------------------------------------------------------------------
Fits == attempt = 0 \/ Product(attempt - 1) <= Greatest

(* A client makes at most max_retries retries.  Its waits grow up to the   *)
(* cap, and with jitter pass it by no more than the jitter, as long as the *)
(* product fits a long long.                                               *)
BackoffBounded ==
    /\ attempt <= MaxRetries + 1
    /\ retryPolicy.kind = "exponential" /\ Fits => backOff <= delay /\ delay <= MaxDelay
    /\ retryPolicy.kind = "jittered" => delay * 100 <= (100 + JitterPercent) * MaxDelay

(* A delay that has reached the cap stays there, however many attempts     *)
(* follow (test_retry_policy.cpp: "Still capped").                         *)
StillCapped ==
    retryPolicy.kind = "exponential" => backOff <= delay
==============================================================================
