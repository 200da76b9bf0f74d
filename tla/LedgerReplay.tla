----------------------------- MODULE LedgerReplay -----------------------------
(***************************************************************************)
(* What the kernel does with ledgers once they are written: the replay of  *)
(* the hard ledger (rfsn_kernel/replay.py), filtered by run or not, and    *)
(* the in-memory hash chain that is saved and loaded as a whole            *)
(* (rfsn_kernel/ledger_chain.py).                                          *)
(*                                                                         *)
(* A hash is what it commits to: the sequence of what was hashed so far.   *)
(***************************************************************************)
EXTENDS Naturals, Sequences, FiniteSets, SequencesExt

CONSTANTS
    Runs,          \* runs whose kernel records share the hard ledger
    Bodies,        \* contents of entries
    LedgerBound,   \* bound: lines of the hard ledger
    MaxChain       \* bound: entries of the chain

\* "all" stands for no filter; a content together with the marks of the entry it
\* comes from is no content.
ASSUME ReplayAssumption ==
    /\ "all" \notin Runs
    /\ \A b \in Bodies, i \in 1..MaxChain : <<b, i>> \notin Bodies
    /\ LedgerBound \in Nat /\ MaxChain \in Nat

VARIABLES
    lines,     \* the hard ledger: run, event or not, decision, outcome, hashes, and the
               \* history whether another thread published between two reads of the head
    chain,     \* the entries of the LedgerChain in memory
    chainFile, \* what save wrote: entries, whether all is there, and their history
    touched    \* history: places of entries that were edited, or hashed with the marks of a chain

replayVars == <<lines, chain, chainFile, touched>>

ReplayInit ==
    /\ lines = <<>>
    /\ chain = <<>>
    /\ chainFile = [entries |-> <<>>, whole |-> FALSE, touched |-> {}]
    /\ touched = {}

-----------------------------------------------------------------------------
(* The hard ledger as replay reads it *)

HashAt(s, i) == IF i = 0 THEN <<>> ELSE s[i].hash

\* append reads the head twice, for the link and for the hash (hard_ledger.py:140-142),
\* and finds the last line each time, or an older one: others append between its
\* reads and its write as much as they like.
WriteLedgerRecord(r, event, decision) ==
    /\ Len(lines) < LedgerBound
    /\ \E linked, hashed \in 0..Len(lines) :
           lines' = Append(lines, [run |-> r, event |-> event, decision |-> decision,
                                   outcome |-> decision = "APPROVE", prev |-> HashAt(lines, linked),
                                   hash |-> Append(HashAt(lines, hashed), r), entry |-> r,
                                   torn |-> linked # hashed])
    /\ UNCHANGED <<chain, chainFile, touched>>

\* Where the records of a run lie among the lines, events left out.
KernelRecords(run) == {i \in DOMAIN lines : ~lines[i].event /\ run \in {lines[i].run, "all"}}

FollowsTheOneBefore(run, i) ==
    \A j \in KernelRecords(run) :
        j < i /\ (\A k \in KernelRecords(run) : k < i => k <= j) => lines[i].prev = lines[j].hash

\* Bug: a run's records are compared with each other although others lie between.
LinkedNeighbours(run, i) == FollowsTheOneBefore(run, i)
\* With a run given, a record is held against its own link; else against the record
\* before it.
Linked(run, i) ==
    IF run # "all" THEN lines[i].hash = Append(lines[i].prev, lines[i].entry)
    ELSE FollowsTheOneBefore(run, i)

Diverging(run) ==
    {i \in KernelRecords(run) :
        \/ ~Linked(run, i)
        \/ lines[i].decision \notin {"APPROVE", "REJECT"}
        \/ lines[i].decision = "APPROVE" /\ ~lines[i].outcome}

DecisionTrace(run) == [i \in KernelRecords(run) |-> lines[i].decision]

-----------------------------------------------------------------------------
(* LedgerChain *)

ChainEntry(hashed, content, prev) ==
    [content |-> content, prev |-> prev, hash |-> Append(prev, hashed)]
HeadOf(entries) == HashAt(entries, Len(entries))

ChainAppend(b) ==
    /\ Len(chain) < MaxChain
    /\ chain' = Append(chain, ChainEntry(b, b, HeadOf(chain)))
    /\ UNCHANGED <<lines, chainFile, touched>>

\* An entry that append returned is appended again: its marks are hashed with it,
\* and verify leaves them out.
AppendEntry(i) ==
    /\ Len(chain) < MaxChain
    /\ chain' = Append(chain, ChainEntry(<<chain[i].content, i>>, chain[i].content, HeadOf(chain)))
    /\ touched' = touched \cup {Len(chain) + 1}
    /\ UNCHANGED <<lines, chainFile>>

\* append and entries hand out the entries themselves: a caller may change one.
EditEntry(i, b) ==
    /\ b # chain[i].content /\ i \notin touched
    /\ chain' = [chain EXCEPT ![i].content = b]
    /\ touched' = touched \cup {i}
    /\ UNCHANGED <<lines, chainFile>>

\* Where verify finds fault; it stops at the first of them.
Invalid(entries) ==
    {i \in DOMAIN entries :
        \/ entries[i].prev # HashAt(entries, i - 1)
        \/ entries[i].hash # Append(HashAt(entries, i - 1), entries[i].content)}
FirstInvalid(entries) ==
    {i \in Invalid(entries) : \A j \in Invalid(entries) : i <= j}

SaveChain ==
    /\ chainFile' = [entries |-> chain, whole |-> TRUE, touched |-> touched]
    /\ UNCHANGED <<lines, chain, touched>>

\* The process ends, in a save perhaps: the old file is gone then.  A new one loads
\* the file, or starts empty when that raises.
RestartChain ==
    /\ chainFile' \in {chainFile, [chainFile EXCEPT !.whole = FALSE]}
    /\ chain' = IF chainFile'.whole THEN chainFile'.entries ELSE <<>>
    /\ touched' = IF chainFile'.whole THEN chainFile'.touched ELSE {}
    /\ UNCHANGED lines

ReplayNext ==
    \/ \E r \in Runs, event \in BOOLEAN, decision \in {"APPROVE", "REJECT"} :
        WriteLedgerRecord(r, event, decision)
    \/ \E b \in Bodies : ChainAppend(b)
    \/ \E i \in DOMAIN chain : AppendEntry(i) \/ \E b \in Bodies : EditEntry(i, b)
    \/ SaveChain \/ RestartChain

ReplaySpec == ReplayInit /\ [][ReplayNext]_replayVars

-----------------------------------------------------------------------------
(* Properties *)

\* In a ledger nobody edited, whatever other runs, events and racing threads wrote
\* between its records, replaying one run finds a divergence only at a record between
\* whose two reads of the head another thread published (replay.py:112-125,
\* hard_ledger.py:140-142); and of all entries of the chain verify names the first that
\* was altered or hashed with marks, over saves, restarts and later appends
\* (ledger_chain.py:57-98).
ReplayFaithful ==
    /\ \A r \in Runs : \A i \in Diverging(r) : lines[i].torn
    /\ \A i \in FirstInvalid(chain) : i \in touched /\ \A j \in touched : i <= j
    /\ Invalid(chain) = {} => touched = {}
=============================================================================
