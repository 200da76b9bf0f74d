-------------------------------- MODULE Swarm --------------------------------
(***************************************************************************)
(* rfsn_kernel/swarm/coordinator.py: an architect splits a task, a coder   *)
(* proposes a patch for each subtask, QA approves, rejects or asks for     *)
(* changes.  The three and the ledger are callbacks: what the three answer *)
(* is a choice, and each of the four may raise, which ends the run         *)
(* wherever it is.                                                         *)
(***************************************************************************)
EXTENDS Naturals, Sequences, FiniteSets

CONSTANTS
    MaxRevisions,  \* max_revisions
    MaxSubtasks    \* bound: subtasks of a decomposition

ASSUME SwarmAssumption == MaxRevisions \in Nat /\ MaxSubtasks \in Nat

VARIABLES
    swarm,    \* where run() is, the subtasks it has, the revision and the request in hand
    results,  \* result.subtask_results
    outcome,  \* result.status and total_revisions
    debate    \* result.ledger_entries: the rows the ledger callback took

swarmVars == <<swarm, results, outcome, debate>>

Verdicts == {"APPROVE", "REQUEST_CHANGES", "REJECT"}
\* A row: of which type, about which subtask, and what the other rows are held against.
\* For a proposal that is the review it answers, which is no field of the row: the
\* number logged as "revision" counts the loop that also makes the requests.
Said(type, index, what) == [type |-> type, index |-> index, what |-> what]

\* How a run may end: the ledger takes its last row, or raises over it.
Endings == {"done", "raised"}

\* The run has begun and the ledger took its first row (a run whose first row is
\* refused does nothing).
SwarmInit ==
    /\ swarm = [pc |-> "architect", subtasks |-> 0, revision |-> 0, request |-> 0]
    /\ results = <<>>
    /\ outcome = [status |-> "pending", revisions |-> 0]
    /\ debate = <<Said("SWARM_START", 0, 0)>>

InHand == Len(results) + 1

StatusOf(rs) ==
    LET approved == {i \in DOMAIN rs : rs[i].status = "approved"}
    IN IF approved = DOMAIN rs THEN "completed" ELSE IF approved # {} THEN "partial" ELSE "failed"

ArchitectDecomposes ==
    /\ swarm.pc = "architect"
    /\ \E n \in 0..MaxSubtasks, end \in Endings :
           LET said == Append(debate, Said("DECOMPOSITION", 0, n)) IN
           /\ swarm' = [swarm EXCEPT !.subtasks = n, !.pc = IF n = 0 THEN end ELSE "coder"]
           /\ outcome' = IF n = 0 THEN [outcome EXCEPT !.status = "failed"] ELSE outcome
           /\ debate' = IF n = 0 /\ end = "done" THEN Append(said, Said("SWARM_END", 0, "failed")) ELSE said
    /\ UNCHANGED results

CoderProposes ==
    /\ swarm.pc = "coder"
    /\ swarm' = [swarm EXCEPT !.pc = "qa"]
    /\ debate' = Append(debate, Said("PATCH_PROPOSAL", InHand, swarm.request))
    /\ UNCHANGED <<results, outcome>>

\* Bug: the review of the last subtask is handed to the coder of the next one.
FirstRequestKept == swarm.request
FirstRequest == 0

\* The subtask in hand has its result; run() takes the next one, or ends.
Settled(status, said, end) ==
    LET rs == Append(results, [status |-> status, revisions |-> swarm.revision])
        last == Len(rs) = swarm.subtasks
    IN /\ results' = rs
       /\ outcome' = [status |-> IF last THEN StatusOf(rs) ELSE outcome.status,
                      revisions |-> outcome.revisions + swarm.revision]
       /\ swarm' = [swarm EXCEPT !.pc = IF last THEN end ELSE "coder",
                                 !.revision = 0, !.request = FirstRequest]
       /\ debate' = IF last /\ end = "done" THEN Append(said, Said("SWARM_END", 0, StatusOf(rs))) ELSE said

OutOfRevisions == swarm.revision >= MaxRevisions

Reviewed(verdict) == Append(debate, Said("REVIEW_VERDICT", InHand, verdict))

Approves ==
    /\ swarm.pc = "qa"
    /\ \E end \in Endings : Settled("approved", Reviewed("APPROVE"), end)

Rejects ==
    /\ swarm.pc = "qa"
    /\ \E end \in Endings :
           Settled("rejected", Append(Reviewed("REJECT"), Said("SUBTASK_REJECTED", InHand, 0)), end)

Escalates ==
    /\ swarm.pc = "qa" /\ OutOfRevisions
    /\ \E end \in Endings :
           Settled("escalated", Append(Reviewed("REQUEST_CHANGES"), Said("SUBTASK_ESCALATED", InHand, 0)), end)

RequestsChanges ==
    /\ swarm.pc = "qa" /\ ~OutOfRevisions
    /\ swarm' = [swarm EXCEPT !.pc = "coder", !.revision = @ + 1, !.request = swarm.revision + 1]
    /\ debate' = Reviewed("REQUEST_CHANGES")
    /\ UNCHANGED <<results, outcome>>

\* An agent raises, or the ledger over the first row of a step.
AgentRaises ==
    /\ swarm.pc \in {"architect", "coder", "qa"}
    /\ swarm' = [swarm EXCEPT !.pc = "raised"]
    /\ UNCHANGED <<results, outcome, debate>>

\* The ledger takes a verdict and raises over the row that settles its subtask.
LedgerRaises ==
    /\ swarm.pc = "qa"
    /\ \/ debate' = Reviewed("REJECT")
       \/ OutOfRevisions /\ debate' = Reviewed("REQUEST_CHANGES")
    /\ swarm' = [swarm EXCEPT !.pc = "raised"]
    /\ UNCHANGED <<results, outcome>>

SwarmNext ==
    \/ ArchitectDecomposes \/ CoderProposes
    \/ Approves \/ Rejects \/ Escalates \/ RequestsChanges
    \/ AgentRaises \/ LedgerRaises

SwarmSpec == SwarmInit /\ [][SwarmNext]_swarmVars

-----------------------------------------------------------------------------
(* Properties *)

\* The rows of a type about a subtask, by their places in the ledger d.
Rows(d, type, i) == {p \in DOMAIN d : d[p].type = type /\ d[p].index = i}
Before(rows, p) == {q \in rows : q < p}
LastSays(d, rows, what) == \E p \in rows : (\A q \in rows : q <= p) /\ d[p].what = what

\* A subtask was proposed and reviewed once more than it was revised, in turns, each
\* proposal answering the review before it and the first answering none; QA approved it,
\* or asked for changes through all its revisions, or rejected it.
Told(d, i, result) ==
    LET proposals == Rows(d, "PATCH_PROPOSAL", i)
        verdicts == Rows(d, "REVIEW_VERDICT", i)
    IN /\ Cardinality(proposals) = result.revisions + 1
       /\ Cardinality(verdicts) = result.revisions + 1
       /\ \A p \in proposals : /\ Cardinality(Before(proposals, p)) = d[p].what
                               /\ Cardinality(Before(verdicts, p)) = d[p].what
       /\ result.status = "approved" <=> LastSays(d, verdicts, "APPROVE")
       /\ result.status = "escalated" <=>
              LastSays(d, verdicts, "REQUEST_CHANGES") /\ result.revisions = MaxRevisions

ProposalsSettled == {p \in DOMAIN debate : debate[p].type = "PATCH_PROPOSAL" /\ debate[p].index \in DOMAIN results}
Ends == Rows(debate, "SWARM_END", 0)

\* The ledger tells what the result tells, of every settled subtask; the totals add up;
\* and a run that has ended says so once, in the last row, with the status its subtasks
\* earn; one that an exception ended says nothing of its end (coordinator.py:166-196,
\* 213-285).
SwarmAccounted ==
    /\ \A i \in DOMAIN results : Told(debate, i, results[i])
    /\ Cardinality(ProposalsSettled) = outcome.revisions + Len(results)
    /\ swarm.pc = "done" <=> Ends # {}
    /\ \A p \in Ends : p = Len(debate) /\ debate[p].what = outcome.status
    /\ outcome.status = "completed" =>
           Len(results) = swarm.subtasks /\ \A i \in DOMAIN results : results[i].status = "approved"
=============================================================================
