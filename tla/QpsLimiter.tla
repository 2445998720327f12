---------------------------- MODULE QpsLimiter ----------------------------
(***************************************************************************)
(* The numbers of a qps limiter (rate_limit/qps_limiter.go) and how they   *)
(* travel: typed in the web console, converted to an interval and a        *)
(* timeout in nanoseconds, read back for the next visit of the dialog.     *)
(* All conversions truncate, as the ones of the code do.                   *)
(*                                                                         *)
(* golang.org/x/time/rate is external: a limiter is its interval between   *)
(* two tokens (0 for rate.Inf, no limit) and its burst.                    *)
(***************************************************************************)
EXTENDS Integers

CONSTANTS
    Second,       \* time.Second, in nanoseconds
    Millisecond,  \* time.Millisecond
    RoundedDown,  \* exact quotients that float64 division yields just too small
    HugeSpeed     \* int64(rate.Inf) on the platforms where that is MaxInt64

ASSUME QpsLimiterAssumption ==
    /\ Second \in Nat \ {0}
    /\ Millisecond \in 1 .. Second
    /\ RoundedDown \subseteq Nat
    /\ HugeSpeed \in Nat /\ HugeSpeed > Second

Limiter == [interval : 0 .. Second, burst : Int, timeout : Int]
Form == [speed : Int, volumn : Int, timeout : Int]

\* Unlimited; the timeout of -1 (nanoseconds) stands for none.
NewQpsRateLimiter == [interval |-> 0, burst |-> 0, timeout |-> -1]

\* time.Second / speed, and rate.Every of that: 0 or less is rate.Inf.
Interval(speed) == IF speed \in 1 .. Second THEN Second \div speed ELSE 0

\* Duration.Milliseconds truncates towards 0.
Milliseconds(ns) == IF ns < 0 THEN -((-ns) \div Millisecond) ELSE ns \div Millisecond

\* Mutant: the duration as it is stored.
GetTimeout_Nanoseconds(l) == l.timeout

\* The number of milliseconds, which the caller takes for nanoseconds.
GetTimeout(l) == Milliseconds(l.timeout)

\* Limit() is 1 / interval in float64, truncated to an integer.  The conversion
\* of rate.Inf is out of range: negative on amd64, MaxInt64 on arm64.
GetSpeed(l) ==
    IF l.interval = 0 THEN {-1, HugeSpeed}
    ELSE LET q == Second \div l.interval
         IN  {IF Second % l.interval = 0 /\ q \in RoundedDown THEN q - 1 ELSE q}

\* SetRateLimiter of HTTPProxy: a new limiter; 0 leaves a default in place.
SetRateLimiter(info) ==
    [interval |-> IF info.speed = 0 THEN NewQpsRateLimiter.interval ELSE Interval(info.speed),
     burst    |-> IF info.speed = 0 THEN NewQpsRateLimiter.burst ELSE info.volumn,
     timeout  |-> IF info.timeout = 0 THEN NewQpsRateLimiter.timeout
                                      ELSE info.timeout * Millisecond]

\* May a request be admitted whose token is due in so many nanoseconds?
\* invaildToken: Take if there is no timeout, else TakeWithTimeout, which waits
\* no longer than the timeout.  (With a token at hand the wait may still fail,
\* when a timeout of nanoseconds has passed before it begins.)
MayAdmit(l, due) ==
    LET timeout == GetTimeout(l)
    IN  IF timeout = 0 THEN l.interval = 0 \/ due = 0
        ELSE timeout > 0 /\ (l.interval = 0 \/ due <= timeout)

\* What doGetMehtodLimiter may send for a limiter, as the dialog shows it.
MethodInfo(l) ==
    {[speed |-> IF s <= 0 THEN 0 ELSE s, volumn |-> l.burst, timeout |-> GetTimeout(l)] :
        s \in GetSpeed(l)}
=============================================================================
