------------------------------ MODULE Limiter ------------------------------
(***************************************************************************)
(* The in-process rate limit (rate_limit.py) for one key: a fixed window   *)
(* that opens with the first hit after the last one closed, and a count.   *)
(* Buckets of different keys share nothing.  "now" is the clock; "watch"   *)
(* is an observer with a stopwatch, who may start it at any time and       *)
(* counts the hits let through until a window's length has gone by.        *)
(***************************************************************************)
EXTENDS Naturals

CONSTANTS
  Limit,    \* hits let through in a window; 0 switches the limit off
  Window,   \* the window's length; 0 switches the limit off
  MaxTime   \* bounds the clock

ASSUME LimitIsNat == Limit \in Nat
ASSUME WindowIsNat == Window \in Nat
ASSUME MaxTimeIsNat == MaxTime \in Nat

VARIABLES
  now,      \* the clock
  bucket,   \* the key's bucket; count 0 says that there is none
  watch     \* history: since when hits are counted, and how many passed

limiterVars == <<bucket, watch>>

NoBucket == [count |-> 0, resetAt |-> 0]

LimiterTypeOK ==
  /\ now \in 0 .. MaxTime
  /\ bucket \in [count : 0 .. Limit + 1, resetAt : Nat]
  /\ watch \in [since : 0 .. MaxTime, passed : Nat]
  /\ watch.since <= now

LimiterInit ==
  /\ now = 0
  /\ bucket = NoBucket
  /\ watch = [since |-> 0, passed |-> 0]

Unlimited == Limit = 0 \/ Window = 0
Fresh == bucket.count = 0 \/ now >= bucket.resetAt

(* Mutant: the count is compared before it is raised.                      *)
PassesBefore == Unlimited \/ Fresh \/ bucket.count <= Limit

(* hit lets the caller on, or raises 429.                                  *)
Passes == Unlimited \/ Fresh \/ bucket.count + 1 <= Limit

Watching == now < watch.since + Window

(* hit.  A count beyond Limit + 1 acts like Limit + 1, where it stays.     *)
Hit ==
  /\ bucket' = IF Unlimited THEN bucket
               ELSE IF Fresh THEN [count |-> 1, resetAt |-> now + Window]
               ELSE [bucket EXCEPT !.count = IF @ > Limit THEN @ ELSE @ + 1]
  /\ watch' = IF Passes /\ Watching THEN [watch EXCEPT !.passed = @ + 1] ELSE watch

(* reset, and a restart, forget the key: the observer starts anew.         *)
Forget ==
  /\ bucket' = NoBucket
  /\ watch' = [since |-> now, passed |-> 0]

Watch ==
  /\ watch' = [since |-> now, passed |-> 0]
  /\ UNCHANGED bucket

(* Whenever the observer starts, at most twice the limit passes until a    *)
(* window's length has gone by: once in the window that was open and once  *)
(* in the next, and never in a third (hit).                                *)
TwiceTheLimitAtMost == ~Unlimited => watch.passed <= 2 * Limit
=============================================================================
