---------------------------- MODULE TokenBucket -----------------------------
(***************************************************************************)
(* What max_publish_rate promises for one connection: a bucket that fills  *)
(* by itself as time passes, holds a second's worth, starts full, gives a  *)
(* token per accepted publish and refuses when it has none.  The code only *)
(* looks at its bucket when a publish comes (connection.rs, RateLimiter);  *)
(* module PublishPath shows that nobody can tell.                          *)
(*                                                                         *)
(* A second is Ticks ticks, and a token Ticks units, so that a tick is     *)
(* worth Rate units and no fractions are needed.                           *)
(***************************************************************************)
EXTENDS Naturals

CONSTANTS
    Rate,   \* max_publish_rate, 0 for no limit
    Ticks   \* ticks in a second

VARIABLES
    level,   \* what the bucket holds
    taken,   \* publishes accepted since the connection opened
    cut      \* the connection was refused a publish

vars == <<level, taken, cut>>

Token == Ticks
Full  == Rate * Ticks

Capped(l) == IF l <= Full THEN l ELSE Full

Init == level = Full /\ taken = 0 /\ cut = FALSE

\* Another connection, with a bucket of its own.
Open == level' = Full /\ taken' = 0 /\ cut' = FALSE

Accept ==
    /\ ~cut
    /\ Rate = 0 \/ level >= Token
    /\ level' = IF Rate = 0 THEN level ELSE level - Token
    /\ taken' = taken + 1
    /\ UNCHANGED cut

Refuse ==
    /\ ~cut
    /\ Rate # 0 /\ level < Token
    /\ cut' = TRUE
    /\ UNCHANGED <<level, taken>>

Fill ==
    /\ level' = Capped(level + Rate)
    /\ UNCHANGED <<taken, cut>>

Next == Open \/ Accept \/ Refuse \/ Fill

Spec == Init /\ [][Next]_vars

=============================================================================
