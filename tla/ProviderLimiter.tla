--------------------------- MODULE ProviderLimiter ---------------------------
(***************************************************************************)
(* ProviderCallRateLimiter and AuthStore.consume_provider_call_event       *)
(* (tankai/web/auth.py): the calls of one user to one provider in a        *)
(* sliding window, as rows of provider_call_events.                        *)
(*                                                                         *)
(* consume reads the clock and then waits for the store's lock and BEGIN   *)
(* IMMEDIATE: calls are booked in another order than their times, and the  *)
(* time a call is booked under is up to MaxDelay old.                      *)
(***************************************************************************)
EXTENDS Integers, FiniteSets

CONSTANTS Limit,      \* limit
          Window,     \* window_seconds
          MaxDelay,   \* how long a call may wait after it has read the clock
          MaxTime,    \* bound on the clock
          MaxCalls    \* bound on the calls

ASSUME LimiterAssumption ==
    /\ Limit \in Nat \ {0}
    /\ Window \in Nat \ {0}
    /\ MaxDelay \in Nat
    /\ MaxTime \in Nat
    /\ MaxCalls \in Nat

VARIABLES clock,      \* the time
          rows,       \* provider_call_events of the user and provider
          let         \* every call that was let through, with the time it was

limiterVars == <<clock, rows, let>>

\* call: which call the row is for; at: occurred_at; real: when it was let through.
Call == [call : Nat, at : Nat, real : Nat]

LimiterInit == clock = 0 /\ rows = {} /\ let = {}

\* The instants a call that is booked now may have read.
Readings == {t \in 0..clock : clock - t <= MaxDelay}

\* Mutation: rows expire when they are as old as half the window.
ExpiredEarly(t) == {r \in rows : 2 * (t - r.at) > Window}

\* DELETE ... occurred_at < cutoff.
Expired(t) == {r \in rows : r.at < t - Window}

\* COUNT(*) < limit, over the rows that are left.
Admits(t) == Cardinality(rows \ Expired(t)) < Limit

(***************************************************************************)
(* One transaction: expired rows go, and the call is booked unless the     *)
(* rest fills the limit; then LLMRateLimitExceeded, and the call is not    *)
(* made.                                                                   *)
(***************************************************************************)
Consume(t) ==
    IF Admits(t)
    THEN LET call == [call |-> Cardinality(let), at |-> t, real |-> clock]
         IN  /\ Cardinality(let) < MaxCalls
             /\ rows' = (rows \ Expired(t)) \cup {call}
             /\ let' = let \cup {call}
             /\ UNCHANGED clock
    ELSE /\ rows' = rows \ Expired(t)
         /\ UNCHANGED <<clock, let>>

TimePasses ==
    /\ clock < MaxTime
    /\ clock' = clock + 1
    /\ UNCHANGED <<rows, let>>

LimiterNext == TimePasses \/ \E t \in Readings : Consume(t)

LimiterSpec == LimiterInit /\ [][LimiterNext]_limiterVars

-----------------------------------------------------------------------------
LimiterTypeOK ==
    /\ clock \in Nat
    /\ rows \subseteq let
    /\ let \subseteq Call
    /\ IsFiniteSet(let)
    /\ \A c \in let : c.at <= c.real /\ c.real <= clock /\ c.real - c.at <= MaxDelay

\* The calls let through in the last Window - MaxDelay units.
Recent == {c \in let : c.real >= clock - (Window - MaxDelay)}

\* No more than limit calls are let through in any stretch of the window, short of the time
\* a call may wait between reading the clock and its transaction: a late reading does
\* not make the limiter forget a call that still counts.
WindowIsBounded == Cardinality(Recent) <= Limit
=============================================================================
