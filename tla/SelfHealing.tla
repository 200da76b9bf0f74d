----------------------------- MODULE SelfHealing -----------------------------
(***************************************************************************)
(* The immune system of the kernel (rfsn_kernel/self_healing): the outcome *)
(* of every run goes into a sliding window that sets the hardening level,  *)
(* and failures are clustered by the fingerprint of their traceback, in a  *)
(* memory that forgets the cluster that was not seen for longest.          *)
(***************************************************************************)
EXTENDS Naturals, Sequences, FiniteSets, SequencesExt

CONSTANTS
    Fingerprints,  \* normalised tracebacks; all failures without one share theirs
    WindowSize,    \* window_size
    MaxClusters,   \* max_clusters
    MaxCount       \* bound: occurrences of a failure

ASSUME HealingAssumption == WindowSize \in Nat \ {0} /\ MaxClusters \in Nat \ {0}

VARIABLES
    outcomes,  \* the window
    clusters,  \* fingerprint -> count, 0 when it is not in memory
    order,     \* the fingerprints in memory as they were inserted
    seen,      \* those in memory, the one seen last at the end
    hardening, \* hardening_level
    recent     \* history: all failures since the last reset by when they were seen last

healingVars == <<outcomes, clusters, order, seen, hardening, recent>>

HealingInit ==
    /\ outcomes = <<>>
    /\ clusters = [f \in Fingerprints |-> 0]
    /\ order = <<>> /\ seen = <<>>
    /\ hardening = "balanced"
    /\ recent = <<>>

\* No sequence here has an element twice.
Lately(s, f) == Append(RemoveFirst(s, f), f)
Windowed(o) ==
    LET s == Append(outcomes, o) IN SubSeq(s, IF Len(s) > WindowSize THEN 2 ELSE 1, Len(s))

Successes(w) == Cardinality({i \in DOMAIN w : w[i]})
\* At most 0.4 hardens and at least 0.8 relaxes, whatever was chronic before.
AdjustHardening(w) ==
    IF 10 * Successes(w) <= 4 * Len(w) THEN "hardened"
    ELSE IF 10 * Successes(w) >= 8 * Len(w) THEN "fast" ELSE "balanced"

\* Bug: the cluster that was inserted first is evicted, however often it was seen.
OldestInserted == Head(order)
Oldest == Head(seen)

Recorded(f) ==
    IF clusters[f] > 0 \/ Len(seen) < MaxClusters THEN [clusters EXCEPT ![f] = @ + 1]
    ELSE [clusters EXCEPT ![Oldest] = 0, ![f] = 1]
Remaining(s, f) ==
    IF clusters[f] > 0 \/ Len(seen) < MaxClusters THEN s ELSE RemoveFirst(s, Oldest)

IngestSuccess ==
    /\ outcomes' = Windowed(TRUE)
    /\ hardening' = AdjustHardening(outcomes')
    /\ UNCHANGED <<clusters, order, seen, recent>>

IngestFailure(f) ==
    /\ clusters[f] < MaxCount
    /\ outcomes' = Windowed(FALSE)
    /\ hardening' = AdjustHardening(outcomes')
    /\ clusters' = Recorded(f)
    /\ order' = IF clusters[f] > 0 THEN order ELSE Append(Remaining(order, f), f)
    /\ seen' = Lately(Remaining(seen, f), f)
    /\ recent' = Lately(recent, f)

ResetHealing ==
    /\ outcomes' = <<>> /\ hardening' = "balanced"
    /\ clusters' = [f \in Fingerprints |-> 0]
    /\ order' = <<>> /\ seen' = <<>> /\ recent' = <<>>

HealingNext ==
    \/ IngestSuccess
    \/ \E f \in Fingerprints : IngestFailure(f)
    \/ ResetHealing

HealingSpec == HealingInit /\ [][HealingNext]_healingVars

-----------------------------------------------------------------------------
(* Properties *)

\* The memory holds the failures that were seen last, as many as it has room for: one
\* that keeps coming back is never forgotten for newer ones (memory.py:119-139).  And
\* the level never lags: no window of failures only is fast, none of successes only
\* is hardened.
RecentFailuresKept ==
    /\ \A i \in DOMAIN recent : (clusters[recent[i]] > 0) <=> (i > Len(recent) - MaxClusters)
    /\ outcomes # <<>> /\ Successes(outcomes) = 0 => hardening = "hardened"
    /\ outcomes # <<>> /\ Successes(outcomes) = Len(outcomes) => hardening = "fast"
=============================================================================
