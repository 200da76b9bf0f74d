---------------------------- MODULE KernelMemory ----------------------------
(***************************************************************************)
(* The memory immune system of the kernel (rfsn_kernel/memory.py): entries *)
(* pass an admission pipeline into the store or into quarantine, decay,    *)
(* are evicted, promoted and protected, and are kept in a JSONL file that  *)
(* is appended to, or written anew after a removal.  One thread; a crash   *)
(* may strike in a save.                                                   *)
(*                                                                         *)
(* Scores and the clock, which decide what is weakest and what is stale,   *)
(* are choices.  A provenance hash has the creation time in it: it stands  *)
(* for one object, whose status store, quarantine and pending list share.  *)
(***************************************************************************)
EXTENDS Integers, Sequences, FiniteSets, SequencesExt

CONSTANTS
    Entries,       \* entries that are offered
    Kind(_),       \* entry_type
    Failing(_),    \* its history is mostly failures
    Poor(_),       \* its quality is below quality_min
    Conflicts(_, _),
    MaxEntries,    \* max_entries
    MaxLines       \* bound: lines of the file, and entries that wait for it

ASSUME MemoryAssumption == IsFiniteSet(Entries) /\ MaxEntries \in Nat /\ MaxLines \in Nat

VARIABLES
    memory,    \* store, core, quarantine (sets), status of the entries, unsaved
               \* (a sequence), needsFull
    file,      \* lines: entry, status, readable or not
    open,      \* the last line lacks its newline
    unfiled    \* history: in the store, but promoted, protected or quarantined
               \* since the last full save, saved with the status quarantined, or
               \* saved by a line that joined an open one

memoryVars == <<memory, file, open, unfiled>>

Statuses == {"active", "quarantined", "core"}

Fresh == [store |-> {}, core |-> {}, quarantine |-> {}, status |-> [e \in Entries |-> "active"],
          unsaved |-> <<>>, needsFull |-> FALSE]

MemoryInit ==
    /\ memory = Fresh
    /\ file = <<>> /\ open = FALSE
    /\ unfiled = {}

-----------------------------------------------------------------------------
(* Admission *)

\* More than risk_max takes a failing history and a conflict with an axiom.
Risky(e) == Failing(e) /\ \E a \in memory.core : Conflicts(e, a)

\* More than contradiction_max (0.6) of the stored entries of its type.
Contradicts(e) ==
    LET same == {x \in memory.store : Kind(x) = Kind(e)} IN
    10 * Cardinality({x \in same : Conflicts(e, x)}) > 6 * Cardinality(same)

\* Which entry is the weakest depends on scores that record_outcome moves: any
\* entry may be whose status is not core.
Weakest(m) == {e \in m.store : m.status[e] # "core"}

\* Bug: an eviction does not ask for a full save.
EvictedQuiet(m) ==
    IF Weakest(m) = {} THEN {m} ELSE {[m EXCEPT !.store = @ \ {w}] : w \in Weakest(m)}

Evicted(m) ==
    IF Weakest(m) = {} THEN {m}
    ELSE {[m EXCEPT !.store = @ \ {w}, !.needsFull = TRUE] : w \in Weakest(m)}

\* Nothing asks whether the entry is known already, or an axiom.
Admit(e) ==
    /\ ~Risky(e)
    /\ \/ /\ Contradicts(e)
          /\ memory' = [memory EXCEPT !.quarantine = @ \cup {e}, !.status[e] = "quarantined"]
          /\ unfiled' = unfiled \cup ({e} \cap memory.store)
       \/ /\ ~Contradicts(e) /\ ~Poor(e) /\ Len(memory.unsaved) < MaxLines
          /\ \E m \in IF Cardinality(memory.store) >= MaxEntries THEN Evicted(memory) ELSE {memory} :
                 memory' = [m EXCEPT !.store = @ \cup {e}, !.status[e] = "active",
                                     !.unsaved = Append(@, e)]
          /\ unfiled' = unfiled \ {e}
    /\ UNCHANGED <<file, open>>

-----------------------------------------------------------------------------
(* Management *)

Bypass(e) == unfiled' = IF e \in memory.store THEN unfiled ELSE unfiled \cup {e}

ProtectAxiom(e) ==
    /\ memory' = [memory EXCEPT !.core = @ \cup {e}, !.store = @ \cup {e}, !.status[e] = "core"]
    /\ Bypass(e)
    /\ UNCHANGED <<file, open>>

PromoteQuarantined(e) ==
    /\ e \in memory.quarantine
    /\ memory' = [memory EXCEPT !.quarantine = @ \ {e}, !.store = @ \cup {e}, !.status[e] = "active"]
    /\ Bypass(e)
    /\ UNCHANGED <<file, open>>

Decaying == {e \in memory.store : memory.status[e] # "core"}

\* What decays is in the store no more, where alone its status would be read.
Decay ==
    /\ \E stale \in SUBSET Decaying \ {{}} :
           memory' = [memory EXCEPT !.store = @ \ stale, !.needsFull = TRUE]
    /\ UNCHANGED <<file, open, unfiled>>

-----------------------------------------------------------------------------
(* The file *)

MemLine(e) == [entry |-> e, status |-> memory.status[e], readable |-> TRUE]
MemLines(s) == [i \in 1..Len(s) |-> MemLine(s[i])]

\* A line that is appended to one without a newline becomes part of it.
Joined(lines) ==
    IF open /\ lines # <<>> /\ file # <<>>
    THEN [Front(file) \o lines EXCEPT ![Len(file)].readable = FALSE]
    ELSE file \o lines

Full == memory.needsFull
WhatIsSaved == IF Full THEN MemLines(SetToSeq(memory.store)) ELSE MemLines(memory.unsaved)

Saved == [memory EXCEPT !.unsaved = <<>>, !.needsFull = FALSE]

\* save writes the whole store and forgets what was pending.
Save ==
    /\ file' = MemLines(SetToSeq(memory.store))
    /\ open' = FALSE
    /\ memory' = Saved
    /\ unfiled' = {e \in memory.store : memory.status[e] = "quarantined"}

AppendSave ==
    IF Full THEN Save
    ELSE /\ memory.unsaved # <<>>
         /\ Len(file) + Len(memory.unsaved) <= MaxLines
         /\ file' = Joined(WhatIsSaved)
         /\ open' = FALSE
         /\ memory' = Saved
         /\ unfiled' = IF open THEN unfiled \cup {Head(memory.unsaved)} ELSE unfiled

\* What load takes the readable lines for; unreadable ones are skipped.
EntriesOf(lines, words) ==
    {lines[i].entry : i \in {i \in DOMAIN lines : lines[i].readable /\ lines[i].status \in words}}
InStore(lines) == EntriesOf(lines, {"active", "core"})
InCore(lines) == EntriesOf(lines, {"core"})
InQuarantine(lines) == EntriesOf(lines, {"quarantined"})

\* In the store a later line of an entry replaces an earlier one; an axiom stays one.
CoreAtLast(lines, e) ==
    \E i \in DOMAIN lines :
        /\ lines[i].readable /\ lines[i].entry = e /\ lines[i].status = "core"
        /\ ~\E j \in DOMAIN lines : /\ j > i /\ lines[j].readable
                                   /\ lines[j].entry = e /\ lines[j].status = "active"

LoadedStatus(lines, e) ==
    IF CoreAtLast(lines, e) THEN "core"
    ELSE IF e \in InQuarantine(lines) \ InStore(lines) THEN "quarantined"
    ELSE "active"

Load(lines) ==
    [Fresh EXCEPT !.store = InStore(lines), !.core = InCore(lines), !.quarantine = InQuarantine(lines),
                  !.status = [e \in Entries |-> LoadedStatus(lines, e)]]

Restart(lines) == memory' = Load(lines) /\ file' = lines

\* The process ends between two calls and a new one loads the file.
Reload ==
    /\ Restart(file)
    /\ unfiled' = {}
    /\ UNCHANGED open

\* It ends in a save: the first n lines are there, the last of them may be cut.
CrashInSave ==
    /\ Full \/ Len(file) + Len(memory.unsaved) <= MaxLines
    /\ \E n \in 0..Len(WhatIsSaved) : \E cut \in {FALSE} \cup (IF n > 0 THEN {TRUE} ELSE {}) :
           LET part == [i \in 1..n |-> [WhatIsSaved[i] EXCEPT !.readable = i < n \/ ~cut]] IN
           /\ Restart(IF Full THEN part ELSE Joined(part))
           /\ open' = IF n > 0 THEN cut ELSE open /\ ~Full
    /\ unfiled' = {}

MemoryNext ==
    \/ \E e \in Entries :
        Admit(e) \/ ProtectAxiom(e) \/ PromoteQuarantined(e)
    \/ Decay \/ Save \/ AppendSave \/ Reload \/ CrashInSave

MemorySpec == MemoryInit /\ [][MemoryNext]_memoryVars

-----------------------------------------------------------------------------
(* Properties *)

\* Whatever crashed before, a file that nothing waits to be written to gives back
\* the store, but for the entries that unfiled names (memory.py:178, 397-405,
\* 490-507), and makes an axiom of no other entry; and no eviction or decay takes
\* an axiom that still has its status (320, 354).
MemoryPersists ==
    /\ ~memory.needsFull /\ memory.unsaved = <<>> =>
           /\ memory.store \ unfiled \subseteq InStore(file)
           /\ InStore(file) \subseteq memory.store
           /\ InCore(file) \subseteq memory.core
    /\ \A e \in memory.core : memory.status[e] = "core" => e \in memory.store

\* "Mark an entry as a core axiom (never decayed)" (memory.py:308): an axiom stays in
\* the store.
AxiomsStay == memory.core \subseteq memory.store
=============================================================================
