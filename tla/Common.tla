------------------------------- MODULE Common -------------------------------
(* What the smaller components share: SQL NULL and a bounded clock. *)
EXTENDS Naturals

CONSTANTS
    None,     \* SQL NULL, Option::None
    MaxTime   \* bound on the clock

ASSUME ClockAssumption == MaxTime \in Nat

VARIABLE now  \* Utc::now(), NOW()

Advance ==
    /\ now < MaxTime
    /\ now' = now + 1
=============================================================================
