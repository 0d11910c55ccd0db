---------------------------- MODULE RateLimiter ----------------------------
(***************************************************************************)
(* rate_limit_exceeded: a fixed-window counter in Redis.  A request        *)
(* increments the counter (INCR), and the one that finds it at 1 gives it  *)
(* its lifetime (EXPIRE).  The two commands are separate, so the counter   *)
(* lives without a lifetime in between.  The module holds the counters and *)
(* the commands; the handlers that call them are in the modules that       *)
(* extend it.                                                              *)
(***************************************************************************)
EXTENDS Naturals

CONSTANTS
  Keys,    \* the counters: one per client and user name, or per user
  Limit,   \* the requests allowed in a window
  Window   \* the lifetime of a counter, in ticks

ASSUME LimiterAssumption == Limit \in Nat \ {0} /\ Window \in Nat \ {0}

VARIABLES
  hits,      \* the value of a counter; 0: there is none
  lifetime,  \* the ticks until it expires
  age,       \* the ticks since it was created (history)
  lost       \* the counters whose EXPIRE was never executed (history)

limiterVars == <<hits, lifetime, age, lost>>

\* The lifetime of a counter on which EXPIRE has not been executed.
Forever == Window + 1

\* Counters above the limit and ages above a window are not told apart.
HitsBound == Limit + 1

LimiterInit ==
  /\ hits = [k \in Keys |-> 0]
  /\ lifetime = [k \in Keys |-> 0]
  /\ age = [k \in Keys |-> 0]
  /\ lost = {}

\* INCR creates a missing counter at 1, without a lifetime.
Incr(k) ==
  /\ hits' = [hits EXCEPT ![k] = IF @ < HitsBound THEN @ + 1 ELSE @]
  /\ lifetime' = IF hits[k] = 0 THEN [lifetime EXCEPT ![k] = Forever]
                                ELSE lifetime
  /\ UNCHANGED <<age, lost>>

\* The two decisions that rate_limit_exceeded takes from the value that INCR
\* returned.
First(k) == hits[k] = 0
Exceeded(k) == hits[k] + 1 > Limit

Expire(k) ==
  /\ lifetime' = [lifetime EXCEPT ![k] = Window]
  /\ UNCHANGED <<hits, age, lost>>

\* The caller has incremented the counter and never executes EXPIRE.
Forget(k) ==
  /\ lost' = lost \cup {k}
  /\ UNCHANGED <<hits, lifetime, age>>

\* INCR created the counter, but the answer was lost and with it the EXPIRE.
IncrForgotten(k) ==
  /\ hits' = [hits EXCEPT ![k] = 1]
  /\ lifetime' = [lifetime EXCEPT ![k] = Forever]
  /\ lost' = lost \cup {k}
  /\ UNCHANGED age

\* A tick passes: counters whose lifetime ends are gone.  Ages stop at top.
LimiterTick(top) ==
  LET ends(k) == lifetime[k] = 1
  IN /\ hits' = [k \in Keys |-> IF ends(k) THEN 0 ELSE hits[k]]
     /\ lifetime' = [k \in Keys |->
          IF lifetime[k] \in 1..Window THEN lifetime[k] - 1 ELSE lifetime[k]]
     /\ age' = [k \in Keys |->
          IF ends(k) \/ hits[k] = 0 \/ k \in lost THEN 0
          ELSE IF age[k] < top THEN age[k] + 1 ELSE age[k]]
     /\ UNCHANGED lost

LimiterTypeOK ==
  /\ hits \in [Keys -> 0..HitsBound]
  /\ lifetime \in [Keys -> 0..Forever]
  /\ age \in [Keys -> Nat]
  /\ lost \subseteq Keys
  /\ \A k \in Keys : hits[k] = 0 <=> lifetime[k] = 0
=============================================================================
