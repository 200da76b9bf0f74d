---------------------------- MODULE LearnerStore ----------------------------
(***************************************************************************)
(* The learner service (services/learner_service/app.py, store_duckdb.py): *)
(* POST /suggest picks a strategy from the statistics of a context, POST   *)
(* /ingest checks a result against the latest outcome of its task and then *)
(* writes up to four rows.  Requests are threads, every SQL statement      *)
(* commits by itself, and the service may crash between two of them.       *)
(*                                                                         *)
(* They share one connection, which holds the result of its last statement *)
(* until somebody fetches it.  The clock does not go back.                 *)
(***************************************************************************)
EXTENDS Naturals, Sequences, FiniteSets, SequencesExt

CONSTANTS
    Ingests,      \* calls of /ingest
    Results,      \* what they report: strategy, context, task, patch, forbidden (its files),
                  \* signature, total, failed, success
    Strategies,
    Contexts,
    NoHash        \* no patch, no signature

ASSUME LearnerAssumption ==
    /\ IsFiniteSet(Ingests)
    /\ \A r \in Results : /\ r.strategy \in Strategies /\ r.context \in Contexts
                          /\ r.success \in BOOLEAN /\ r.forbidden \in BOOLEAN

VARIABLES
    stats,      \* <<strategy, context>> that has a row -> wins, losses
    episodes,   \* rows of episodes
    outcomes,   \* rows of outcome_map as inserted: what was reported, ts, and the history which
                \* outcomes the check asked for and whether it was these it fetched
    failures,   \* signature -> occurrences, best strategies known
    ingest,     \* call -> next statement, its report, ts, seen and own as in outcomes
    result,     \* of the connection: kind, the outcomes found, the call whose check asked for them
    clock,      \* time
    uncounted   \* history: episodes whose statistics were lost to a crash or to a missing row

learnerVars == <<stats, episodes, outcomes, failures, ingest, result, clock, uncounted>>

Spent == [kind |-> "outcomes", found |-> {}, by |-> {}]
Counted == [Spent EXCEPT !.kind = "count"]
OfOthers == [Spent EXCEPT !.kind = "others"]

Signatures == {r.signature : r \in Results} \ {NoHash}

LearnerInit ==
    /\ stats = [k \in {} |-> 0]
    /\ episodes = <<>> /\ outcomes = <<>>
    /\ failures = [s \in Signatures |-> [count |-> 0, best |-> {}]]
    /\ ingest \in
        [Ingests -> [pc : {"check"}, r : Results, ts : {0}, seen : {{}}, own : {FALSE}]]
    /\ result = Spent /\ clock = 0
    /\ uncounted = [k \in Strategies \X Contexts |-> 0]

-----------------------------------------------------------------------------
(* /suggest *)

WithPriors(x) ==
    [k \in DOMAIN stats \cup (Strategies \X {x}) |->
        IF k \in DOMAIN stats THEN stats[k] ELSE [wins |-> 0, losses |-> 0]]

\* Priors are inserted for every strategy; each statement touches its own row, so
\* the loop is one step.  What is read and sampled afterwards changes nothing; of its
\* statements, any may be the last one of the connection, fetched or not.
Suggest(x) ==
    /\ stats' = WithPriors(x)
    /\ result' \in {Counted, OfOthers, Spent}
    /\ UNCHANGED <<episodes, outcomes, failures, ingest, clock, uncounted>>

-----------------------------------------------------------------------------
(* /ingest *)

OutcomesOf(t) == {i \in DOMAIN outcomes : outcomes[i].r.task = t}
LatestOf(S) == {i \in S : \A j \in S : outcomes[j].ts <= outcomes[i].ts}

\* Bug: the first outcome instead of the latest one.
EarliestOutcome(S) ==
    {outcomes[i].r : i \in {i \in S : \A j \in S : outcomes[j].ts >= outcomes[i].ts}}
LatestOutcome(S) == {outcomes[i].r : i \in LatestOf(S)}

\* Rejected: the same patch with the same signature again, fewer tests, more failures.
Rejected(prev, r) ==
    \/ prev.patch = r.patch /\ prev.signature = r.signature
    \/ r.total > 0 /\ prev.total > 0 /\ r.total < prev.total
    \/ r.failed > 0 /\ prev.failed > 0 /\ r.failed > prev.failed

IngestGoto(c, pc) == ingest' = [ingest EXCEPT ![c].pc = pc]

\* Forbidden files are rejected unasked, and no outcome is looked for without a patch.
Check(c) ==
    /\ ingest[c].pc = "check"
    /\ LET r == ingest[c].r
           seen == OutcomesOf(r.task) IN
       IF r.forbidden \/ r.patch = NoHash
       THEN IngestGoto(c, IF r.forbidden THEN "done" ELSE "episode") /\ UNCHANGED result
       ELSE /\ ingest' = [ingest EXCEPT ![c].pc = "fetch", ![c].seen = seen]
            /\ result' = [kind |-> "outcomes", found |-> LatestOutcome(seen), by |-> {c}]
    /\ UNCHANGED <<stats, episodes, outcomes, failures, clock, uncounted>>

\* What there is to fetch may be the result of another statement: nothing, for one that
\* was fetched; a count, which raises; or rows of another query, taken for an outcome.
Fetch(c) ==
    /\ ingest[c].pc = "fetch"
    /\ \E pc \in {"episode", "done"} :
           /\ ingest' = [ingest EXCEPT ![c].pc = pc, ![c].own = c \in result.by]
           /\ result.kind = "count" => pc = "done"
           /\ result.kind = "outcomes" =>
                  (pc = "done" <=> \E prev \in result.found : Rejected(prev, ingest[c].r))
    /\ result' = Spent
    /\ UNCHANGED <<stats, episodes, outcomes, failures, clock, uncounted>>

KeyOf(r) == <<r.strategy, r.context>>

InsertEpisode(c) ==
    /\ ingest[c].pc = "episode"
    /\ episodes' = Append(episodes, ingest[c].r)
    /\ IngestGoto(c, "stats")
    /\ result' = Counted
    /\ UNCHANGED <<stats, outcomes, failures, clock, uncounted>>

Tallied(row, success) ==
    IF success THEN [row EXCEPT !.wins = @ + 1] ELSE [row EXCEPT !.losses = @ + 1]

\* The update finds no row when nobody asked for a suggestion in this context.
UpdateStats(c) ==
    /\ ingest[c].pc = "stats"
    /\ LET r == ingest[c].r IN
       /\ IF KeyOf(r) \in DOMAIN stats
          THEN /\ stats' = [stats EXCEPT ![KeyOf(r)] = Tallied(@, r.success)]
               /\ UNCHANGED uncounted
          ELSE uncounted' = [uncounted EXCEPT ![KeyOf(r)] = @ + 1] /\ UNCHANGED stats
       /\ IngestGoto(c, IF r.patch # NoHash THEN "outcome" ELSE "failure")
    /\ result' = Counted
    /\ UNCHANGED <<episodes, outcomes, failures, clock>>

\* The time of an outcome is taken before the statement runs.
StampOutcome(c) ==
    /\ ingest[c].pc = "outcome"
    /\ clock' = clock + 1
    /\ ingest' = [ingest EXCEPT ![c].pc = "insert", ![c].ts = clock']
    /\ UNCHANGED <<stats, episodes, outcomes, failures, result, uncounted>>

InsertOutcome(c) ==
    /\ ingest[c].pc = "insert"
    /\ outcomes' = Append(outcomes,
           [r |-> ingest[c].r, ts |-> ingest[c].ts, seen |-> ingest[c].seen, own |-> ingest[c].own])
    /\ IngestGoto(c, "failure")
    /\ result' = Counted
    /\ UNCHANGED <<stats, episodes, failures, clock, uncounted>>

\* A success makes its strategy the best one; a failure keeps what is known.
UpsertFailure(c) ==
    /\ ingest[c].pc = "failure"
    /\ LET r == ingest[c].r IN
       failures' = IF r.signature = NoHash THEN failures
                   ELSE [failures EXCEPT ![r.signature] =
                       [count |-> @.count + 1, best |-> IF r.success THEN {r.strategy} ELSE @.best]]
    /\ result' = IF ingest[c].r.signature = NoHash THEN result ELSE Counted
    /\ IngestGoto(c, "done")
    /\ UNCHANGED <<stats, episodes, outcomes, clock, uncounted>>

\* Every committed statement is there after the restart; calls under way are not.
LearnerCrash ==
    /\ \E c \in Ingests : ingest[c].pc \notin {"check", "done"}
    /\ uncounted' = [k \in DOMAIN uncounted |->
           uncounted[k] + Cardinality({c \in Ingests : ingest[c].pc = "stats" /\ KeyOf(ingest[c].r) = k})]
    /\ ingest' = [c \in Ingests |->
           IF ingest[c].pc = "check" THEN ingest[c] ELSE [ingest[c] EXCEPT !.pc = "done"]]
    /\ result' = Spent
    /\ UNCHANGED <<stats, episodes, outcomes, failures, clock>>

LearnerNext ==
    \/ \E x \in Contexts : Suggest(x)
    \/ \E c \in Ingests :
        \/ Check(c) \/ Fetch(c) \/ InsertEpisode(c) \/ UpdateStats(c)
        \/ StampOutcome(c) \/ InsertOutcome(c) \/ UpsertFailure(c)
    \/ LearnerCrash

LearnerSpec == LearnerInit /\ [][LearnerNext]_learnerVars

-----------------------------------------------------------------------------
(* Properties *)

Trials(k) == IF k \in DOMAIN stats THEN stats[k].wins + stats[k].losses ELSE 0
Pending(k) == Cardinality({c \in Ingests : ingest[c].pc = "stats" /\ KeyOf(ingest[c].r) = k})
EpisodesOf(k) == Cardinality({i \in DOMAIN episodes : KeyOf(episodes[i]) = k})
\* The outcomes of its task that are older than the i-th row.
Earlier(i) == {j \in OutcomesOf(outcomes[i].r.task) : outcomes[j].ts < outcomes[i].ts}

\* However ingests, suggestions and crashes interleave, the statistics count every
\* episode once, but for those whose update is still to come, was lost to a crash
\* or found no row (store_duckdb.py:159-200).  No outcome of forbidden files is kept,
\* and none that repeats the one before it of its task, has fewer tests or more
\* failures, unless another ingest of the task was under way, or another call used
\* the connection between the query of its check and the fetch (app.py:147-165,
\* store_duckdb.py:288-298).
LearnerConsistent ==
    /\ \A k \in Strategies \X Contexts :
           EpisodesOf(k) = Trials(k) + Pending(k) + uncounted[k]
    /\ \A i \in DOMAIN outcomes :
           /\ ~outcomes[i].r.forbidden
           /\ outcomes[i].own /\ outcomes[i].seen = Earlier(i) =>
                  \A j \in LatestOf(Earlier(i)) : ~Rejected(outcomes[j].r, outcomes[i].r)
=============================================================================
