---------------------------- MODULE StaleRegister ----------------------------
(***************************************************************************)
(* What a cached read endpoint promises.  The database holds a sequence of *)
(* committed versions of the data behind one cache key; a request is       *)
(* answered with some version that was current at most StaleBound ticks    *)
(* ago, or it fails.  Nothing is said of caches, locks or snapshots.       *)
(***************************************************************************)
EXTENDS Naturals

CONSTANTS
    Readers,      \* request slots
    MaxVersion,   \* bound: number of commits that change the data
    StaleBound,   \* ticks a superseded version may still be served
    NoAnswer,     \* the slot's request has no answer yet
    Failed        \* the slot's request ended in an error

VARIABLES
    db,           \* the current committed version
    stale,        \* stale[v]: ticks since version v was superseded (capped)
    ans           \* ans[r]: what the slot's latest request was answered

vars == <<db, stale, ans>>

Versions == 0..MaxVersion

Min2(a, b) == IF a < b THEN a ELSE b

\* One tick of the clock, for the ages of the superseded versions.  The cap
\* is one past the bound: beyond it the exact age no longer matters.
Older(s, current) ==
    [v \in Versions |-> IF v < current THEN Min2(s[v] + 1, StaleBound + 1)
                                       ELSE s[v]]

Init == /\ db = 0
        /\ stale = [v \in Versions |-> 0]
        /\ ans = [r \in Readers |-> NoAnswer]

Commit == /\ db < MaxVersion
          /\ db' = db + 1
          /\ UNCHANGED <<stale, ans>>

Tick == /\ stale' = Older(stale, db)
        /\ UNCHANGED <<db, ans>>

Ask(r) == /\ ans' = [ans EXCEPT ![r] = NoAnswer]
          /\ UNCHANGED <<db, stale>>

Answer(r) == /\ \E v \in 0..db : /\ stale[v] <= StaleBound
                                 /\ ans' = [ans EXCEPT ![r] = v]
             /\ UNCHANGED <<db, stale>>

Fail(r) == /\ ans' = [ans EXCEPT ![r] = Failed]
           /\ UNCHANGED <<db, stale>>

Next == \/ Commit
        \/ Tick
        \/ \E r \in Readers : Ask(r) \/ Answer(r) \/ Fail(r)

Spec == Init /\ [][Next]_vars
==============================================================================
