------------------------------ MODULE HardLedger ------------------------------
(***************************************************************************)
(* rfsn_kernel/hard_ledger.py: the hash-chained JSONL ledger of the kernel *)
(* (class HardLedger), one object shared by the run threads of the         *)
(* orchestrator and one file on disk.                                      *)
(*                                                                         *)
(* A SHA-256 chain hash is modelled by what it commits to: the sequence of *)
(* entry hashes from the first record on (the 64 zeros of an empty ledger  *)
(* are the empty sequence), so two chain hashes are equal exactly when the *)
(* histories are.  An entry hash stands for the record body it was         *)
(* computed from.  Timestamps, metadata and the optional HMAC, which       *)
(* verify_chain does not look at, are left out.                            *)
(***************************************************************************)
EXTENDS Naturals, Sequences, FiniteSets

CONSTANTS
    Threads,      \* threads that call append on the shared ledger object
    Entries,      \* record bodies
    NoEntry,      \* the body of a line that is not valid JSON
    WriteFaults,  \* TRUE if a write or fsync may fail or be cut short
    MaxLines,     \* bound: lines in the file
    MaxCrashes    \* bound: crashes of the process

ASSUME NoEntryAssumption == NoEntry \notin Entries
ASSUME WriteFaultsAssumption == WriteFaults \in BOOLEAN
ASSUME MaxAssumption == MaxLines \in Nat /\ MaxCrashes \in Nat

VARIABLES
    file,      \* the lines of the JSONL file
    openTail,  \* TRUE if the last line lacks its newline
    up,        \* TRUE if the process holds an initialised HardLedger
    prev,      \* self.prev
    count,     \* self._count
    pc,        \* per thread: how far its append call has come
    rec,       \* per thread: the LedgerRecord being appended
    lock,      \* the threads that hold the flock on the file
    acked,     \* history: how often append returned, per entry
    crashes    \* number of crashes so far

disk == <<file, openTail>>
vars == <<file, openTail, up, prev, count, pc, rec, lock, acked, crashes>>

Hash == Seq(Entries)
Genesis == <<>>

\* SHA256(prev + entry_hash)
ChainHash(p, e) == Append(p, e)

Record == [parses : {TRUE}, body : Entries, entry_hash : Entries,
           prev_chain_hash : Hash, chain_hash : Hash]

\* A line that json.loads rejects: cut short, or two records glued together.
Garbage == [parses |-> FALSE, body |-> NoEntry, entry_hash |-> NoEntry,
            prev_chain_hash |-> Genesis, chain_hash |-> Genesis]

Line == Record \cup {Garbage}

LedgerRecord(e, p, c) ==
    [parses |-> TRUE, body |-> e, entry_hash |-> e,
     prev_chain_hash |-> p, chain_hash |-> c]

\* prev_hash of verify_chain when it reaches line i of f: the chain hash of
\* the nearest earlier line that parses (lines that do not are skipped).
PrevHashAt(f, i) ==
    LET good == {j \in 1..(i - 1) : f[j].parses}
    IN  IF good = {} THEN Genesis
        ELSE f[CHOOSE j \in good : \A k \in good : k <= j].chain_hash

\* Bug: the entry hash is not recomputed from the body.
VerifyErrorsNoBody(f) ==
    {i \in DOMAIN f :
        \/ ~f[i].parses
        \/ f[i].prev_chain_hash # PrevHashAt(f, i)
        \/ f[i].chain_hash # ChainHash(PrevHashAt(f, i), f[i].entry_hash)}

\* Bug: a line that does not parse is skipped without an error.
VerifyErrorsParsed(f) ==
    {i \in DOMAIN f :
        /\ f[i].parses
        /\ \/ f[i].prev_chain_hash # PrevHashAt(f, i)
           \/ f[i].entry_hash # f[i].body
           \/ f[i].chain_hash # ChainHash(PrevHashAt(f, i), f[i].entry_hash)}

\* The line numbers for which verify_chain reports an error.
VerifyErrors(f) ==
    {i \in DOMAIN f :
        \/ ~f[i].parses
        \/ f[i].prev_chain_hash # PrevHashAt(f, i)
        \/ f[i].entry_hash # f[i].body
        \/ f[i].chain_hash # ChainHash(PrevHashAt(f, i), f[i].entry_hash)}

VerifyOk(f) == VerifyErrors(f) = {}

ParsedLines(f) == {i \in DOMAIN f : f[i].parses}

\* How many records with body e read_all returns.
ReadCount(f, e) == Cardinality({i \in ParsedLines(f) : f[i].body = e})

Init ==
    /\ file = <<>>
    /\ openTail = FALSE
    /\ up = FALSE
    /\ prev = Genesis
    /\ count = 0
    /\ pc = [t \in Threads |-> "idle"]
    /\ rec = [t \in Threads |-> Garbage]
    /\ lock = {}
    /\ acked = [e \in Entries |-> 0]
    /\ crashes = 0

\* Bug: a restart counts the records but starts a new chain.
OpenAfresh ==
    /\ ~up
    /\ up' = TRUE
    /\ prev' = Genesis
    /\ count' = Cardinality(ParsedLines(file))
    /\ UNCHANGED <<disk, pc, rec, lock, acked, crashes>>

\* HardLedger(path): take prev and count from the lines that parse.  A chain
\* that does not verify is only logged.
Open ==
    /\ ~up
    /\ up' = TRUE
    /\ prev' = PrevHashAt(file, Len(file) + 1)
    /\ count' = Cardinality(ParsedLines(file))
    /\ UNCHANGED <<disk, pc, rec, lock, acked, crashes>>

\* append(record), first part: the entry hash, and self.prev read into
\* record.prev_chain_hash.
LinkRecord(t, e) ==
    /\ up
    /\ pc[t] = "idle"
    /\ Len(file) + Cardinality({u \in Threads : pc[u] # "idle"}) < MaxLines
    /\ rec' = [rec EXCEPT ![t] = LedgerRecord(e, prev, Genesis)]
    /\ pc' = [pc EXCEPT ![t] = "linked"]
    /\ UNCHANGED <<disk, up, prev, count, lock, acked, crashes>>

\* self.prev is read a second time for record.chain_hash.
HashRecord(t) ==
    /\ pc[t] = "linked"
    /\ rec' = [rec EXCEPT ![t].chain_hash = ChainHash(prev, rec[t].entry_hash)]
    /\ pc' = [pc EXCEPT ![t] = "hashed"]
    /\ UNCHANGED <<disk, up, prev, count, lock, acked, crashes>>

\* open(path, "a") and fcntl.flock(LOCK_EX): every call opens its own file
\* description, so the lock also excludes threads of the same process.
LockFile(t) ==
    /\ pc[t] = "hashed"
    /\ lock = {}
    /\ lock' = lock \cup {t}
    /\ pc' = [pc EXCEPT ![t] = "locked"]
    /\ UNCHANGED <<disk, up, prev, count, rec, acked, crashes>>

\* Bug: the file is opened with mode "w".
WrittenFromStart(line) == <<line>>

\* The file after a whole line: it starts a line of its own unless the tail
\* of the file lacks its newline, and then it spoils that line.
Written(line) ==
    IF openTail THEN [file EXCEPT ![Len(file)] = Garbage] ELSE Append(file, line)

\* Bug: the line is left in the buffer.
WriteLineBuffered(t) ==
    /\ pc[t] = "locked"
    /\ pc' = [pc EXCEPT ![t] = "written"]
    /\ UNCHANGED <<disk, up, prev, count, rec, lock, acked, crashes>>

\* Bug: the line is written a second time (a retry of a write that was done).
WriteLineTwice(t) ==
    /\ pc[t] = "locked"
    /\ file' = Append(Written(rec[t]), rec[t])
    /\ openTail' = FALSE
    /\ pc' = [pc EXCEPT ![t] = "written"]
    /\ UNCHANGED <<up, prev, count, rec, lock, acked, crashes>>

\* write, flush and fsync of the whole line succeed.
WriteLine(t) ==
    /\ pc[t] = "locked"
    /\ file' = Written(rec[t])
    /\ openTail' = FALSE
    /\ pc' = [pc EXCEPT ![t] = "written"]
    /\ UNCHANGED <<up, prev, count, rec, lock, acked, crashes>>

\* What a write that is cut short leaves behind: nothing, a fragment, the
\* record without its newline, or (when only the fsync failed) the line.
CutWrite(t) ==
    \/ UNCHANGED disk
    \/ file' = Written(Garbage) /\ openTail' = TRUE
    \/ file' = Written(rec[t]) /\ openTail' = TRUE
    \/ file' = Written(rec[t]) /\ openTail' = FALSE

\* write, flush or fsync raises OSError: the lock is released in the finally
\* block, self.prev and self._count keep their values, append raises.
WriteFails(t) ==
    /\ WriteFaults
    /\ pc[t] = "locked"
    /\ CutWrite(t)
    /\ lock' = lock \ {t}
    /\ pc' = [pc EXCEPT ![t] = "idle"]
    /\ rec' = [rec EXCEPT ![t] = Garbage]
    /\ UNCHANGED <<up, prev, count, acked, crashes>>

\* Bug: LOCK_UN is forgotten and the descriptor stays open.
UnlockFileNever(t) ==
    /\ pc[t] = "written"
    /\ pc' = [pc EXCEPT ![t] = "unlocked"]
    /\ UNCHANGED <<disk, up, prev, count, rec, lock, acked, crashes>>

\* finally: flock(LOCK_UN), and the file is closed.
UnlockFile(t) ==
    /\ pc[t] = "written"
    /\ lock' = lock \ {t}
    /\ pc' = [pc EXCEPT ![t] = "unlocked"]
    /\ UNCHANGED <<disk, up, prev, count, rec, acked, crashes>>

\* self.prev = record.chain_hash; self._count += 1; return record.  One step: the
\* images run CPython 3.11, which switches threads at calls and at backward jumps,
\* and there is none between the two statements.
Publish(t) ==
    /\ pc[t] = "unlocked"
    /\ prev' = rec[t].chain_hash
    /\ count' = count + 1
    /\ acked' = [acked EXCEPT ![rec[t].body] = @ + 1]
    /\ pc' = [pc EXCEPT ![t] = "idle"]
    /\ rec' = [rec EXCEPT ![t] = Garbage]
    /\ UNCHANGED <<disk, up, lock, crashes>>

\* The process dies: the object and every call are lost, the locks go with
\* the file descriptors, and a write in progress may have been cut short.
Crash ==
    /\ crashes < MaxCrashes
    /\ up
    /\ \/ UNCHANGED disk
       \/ WriteFaults /\ \E t \in lock : pc[t] = "locked" /\ CutWrite(t)
    /\ crashes' = crashes + 1
    /\ up' = FALSE
    /\ prev' = Genesis
    /\ count' = 0
    /\ pc' = [t \in Threads |-> "idle"]
    /\ rec' = [t \in Threads |-> Garbage]
    /\ lock' = {}
    /\ UNCHANGED acked

ThreadStep(t) ==
    \/ \E e \in Entries : LinkRecord(t, e)
    \/ HashRecord(t)
    \/ LockFile(t)
    \/ WriteLine(t)
    \/ WriteFails(t)
    \/ UnlockFile(t)
    \/ Publish(t)

Next == Open \/ Crash \/ \E t \in Threads : ThreadStep(t)

\* A thread inside append runs on: nothing in it waits but the flock.
Finish(t) ==
    HashRecord(t) \/ LockFile(t) \/ WriteLine(t) \/ UnlockFile(t) \/ Publish(t)

Spec == Init /\ [][Next]_vars

FairSpec == Spec /\ \A t \in Threads : SF_vars(LockFile(t)) /\ WF_vars(Finish(t))
-------------------------------------------------------------------------------
\* Type invariant of the ledger object, its calls and its file.
TypeOK ==
    /\ file \in Seq(Line)
    /\ openTail \in BOOLEAN
    /\ up \in BOOLEAN
    /\ prev \in Hash
    /\ count \in Nat
    /\ pc \in [Threads -> {"idle", "linked", "hashed", "locked", "written", "unlocked"}]
    /\ rec \in [Threads -> Line]
    /\ \A t \in Threads : pc[t] # "idle" => rec[t] \in Record
    /\ lock \in SUBSET Threads
    /\ acked \in [Entries -> Nat]
    /\ crashes \in 0..MaxCrashes

\* verify_chain finds no error, whenever it is called: the class promises
\* "Chain integrity is verifiable at any time" (hard_ledger.py:78).
ChainIntact == VerifyOk(file)

\* What makes ChainIntact inductive when writes are whole and one thread
\* appends: no fragments in the file, the object holds the chain hash of the
\* last line except between the write and Publish, and the record in flight
\* is linked to it.
NoFragments == ~openTail /\ \A i \in DOMAIN file : file[i].parses

HeadHash == PrevHashAt(file, Len(file) + 1)

InFlightLinked(t) ==
    /\ pc[t] # "idle" => up /\ rec[t].entry_hash = rec[t].body
    /\ pc[t] \in {"linked", "hashed", "locked"} =>
          rec[t].prev_chain_hash = prev
    /\ pc[t] \in {"hashed", "locked"} =>
          rec[t].chain_hash = ChainHash(prev, rec[t].entry_hash)
    /\ pc[t] \in {"written", "unlocked"} => rec[t].chain_hash = HeadHash
    /\ up /\ pc[t] \notin {"written", "unlocked"} => prev = HeadHash

SingleWriterInv ==
    NoFragments /\ ChainIntact /\ \A t \in Threads : InFlightLinked(t)

\* No returned append is lost: read_all returns every record whose append
\* returned to the kernel, also after crashes and concurrent appends.
AppendsDurable == \A e \in Entries : acked[e] <= ReadCount(file, e)

\* With no call in progress the object agrees with the file it stands for:
\* the next record would be linked to a chain hash that is in the file, and
\* count is the number of records a reload would count.
ObjectMatchesFile ==
    (up /\ \A t \in Threads : pc[t] = "idle") =>
        /\ count = Cardinality(ParsedLines(file))
        /\ \/ file = <<>> /\ prev = Genesis
           \/ \E i \in DOMAIN file : file[i].chain_hash = prev

\* A stored record is never changed, moved or removed by a later call or a
\* restart ("Append-only (no mutation)", hard_ledger.py:9).
RecordsImmutable ==
    [][/\ Len(file) <= Len(file')
       /\ \A i \in DOMAIN file : file'[i] = file[i]]_vars

\* Losses are never silent: as long as verify_chain accepts the file, every
\* returned append is in it, whatever writes failed or were cut short.
LossIsDetected == ChainIntact => AppendsDurable

\* Editing a stored ledger shows: for a ledger that verifies, verify_chain
\* reports an error after the body of one record is replaced (with or
\* without its entry hash), one record that is not the last is dropped, or
\* two neighbouring records that differ are exchanged.
EditsDetected ==
    ChainIntact =>
        \A i \in DOMAIN file :
            /\ \A e \in Entries \ {file[i].body} :
                  /\ ~VerifyOk([file EXCEPT ![i].body = e])
                  /\ ~VerifyOk([file EXCEPT ![i].body = e, ![i].entry_hash = e])
            /\ i < Len(file) =>
                  /\ ~VerifyOk(SubSeq(file, 1, i - 1) \o SubSeq(file, i + 1, Len(file)))
                  /\ ~VerifyOk([file EXCEPT ![i] = file[i + 1], ![i + 1] = file[i]])

\* An append that has been called ends, by returning, failing or dying with
\* the process: no thread waits for the flock forever.
AppendsEnd == \A t \in Threads : (pc[t] # "idle") ~> (pc[t] = "idle")

\* The refinement: the stored bodies are the abstract log, a record is
\* stored by the step that writes its line.
AbstractCall(t) ==
    IF pc[t] = "idle" THEN [phase |-> "none", entry |-> NoEntry]
    ELSE [phase |-> IF pc[t] \in {"written", "unlocked"} THEN "stored" ELSE "pending",
          entry |-> rec[t].body]

Promised == INSTANCE AuditLog WITH
    log <- [i \in DOMAIN file |-> file[i].body],
    call <- [t \in Threads |-> AbstractCall(t)]

\* HardLedger implements the append-only log of AuditLog, for any number of
\* threads, as long as no write is cut short.
ImplementsAuditLog == Promised!Spec
===============================================================================
