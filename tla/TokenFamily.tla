---------------------------- MODULE TokenFamily ----------------------------
(***************************************************************************)
(* What refresh sessions promise to their owner, whatever tables implement *)
(* them: a session is a family of one-time tokens.  A family is opened     *)
(* once, is held by exactly one token at a time, hands over to a fresh     *)
(* token only while it is live and without gaining any time by it, and     *)
(* once dead never lives again.                                            *)
(***************************************************************************)
CONSTANTS SessionIds, TokenIds, None

VARIABLES
    family,  \* family[s]: unborn, live or dead
    holder,  \* holder[s]: the one token that may be exchanged
    ends,    \* ends[s]: when that token expires
    spent    \* the tokens that have been exchanged

familyVars == <<family, holder, ends, spent>>

Fresh(t) == t \notin spent /\ \A s \in SessionIds : holder[s] # t

FamilyInit ==
    /\ family = [s \in SessionIds |-> "unborn"]
    /\ holder = [s \in SessionIds |-> None]
    /\ ends = [s \in SessionIds |-> 0]
    /\ spent = {}

\* A family ends whenever its opener says, which may be over by now.
Open(s, t) ==
    /\ family[s] = "unborn"
    /\ Fresh(t)
    /\ \E f \in {"live", "dead"} : family' = [family EXCEPT ![s] = f]
    /\ holder' = [holder EXCEPT ![s] = t]
    /\ ends' = [ends EXCEPT ![s] = ends'[s]]
    /\ UNCHANGED spent

Rotate(s, t) ==
    /\ family[s] = "live"
    /\ Fresh(t)
    /\ holder' = [holder EXCEPT ![s] = t]
    /\ spent' = spent \cup {holder[s]}
    /\ UNCHANGED <<family, ends>>

Kill(D) ==
    /\ \A s \in D : family[s] = "live"
    /\ family' = [s \in SessionIds |-> IF s \in D THEN "dead" ELSE family[s]]
    /\ UNCHANGED <<holder, ends, spent>>

FamilyNext ==
    \/ \E s \in SessionIds, t \in TokenIds : Open(s, t) \/ Rotate(s, t)
    \/ \E D \in SUBSET SessionIds : Kill(D)

FamilySpec == FamilyInit /\ [][FamilyNext]_familyVars
=============================================================================
