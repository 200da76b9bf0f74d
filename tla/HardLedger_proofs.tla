--------------------------- MODULE HardLedger_proofs ---------------------------
(***************************************************************************)
(* Theorems about HardLedger, proved for all values of its constants.      *)
(* They hold for any number of threads and crashes unless a hypothesis     *)
(* says otherwise.                                                         *)
(***************************************************************************)
EXTENDS HardLedger, SequenceTheorems, FiniteSetTheorems, WellFoundedInduction, TLAPS

\* Every nonempty set of naturals has a least element.
LEMMA LeastNatural ==
    ASSUME NEW T \in SUBSET Nat, T # {}
    PROVE  \E x \in T : \A y \in T : x <= y
<1>1. IsWellFoundedOn(OpToRel(<, Nat), Nat)
    BY NatLessThanWellFounded
<1>2. PICK x \in T : \A y \in T : ~(<<y, x>> \in OpToRel(<, Nat))
    BY <1>1, WFMin
<1>3. \A y \in T : ~(y < x)
    BY <1>2 DEF OpToRel
<1> QED BY <1>3

\* Every nonempty set of positions before i has a last one.
LEMMA LastPosition ==
    ASSUME NEW i \in Nat, NEW S \in SUBSET (1..(i - 1)), S # {}
    PROVE  \E j \in S : \A k \in S : k <= j
<1> DEFINE T == {i - j : j \in S}
<1>1. T \in SUBSET Nat /\ T # {}
    <2>1. \A j \in S : j \in Nat /\ i - j \in Nat
        OBVIOUS
    <2>2. \E j \in S : i - j \in T
        OBVIOUS
    <2> QED BY <2>1, <2>2
<1>2. PICK x \in T : \A y \in T : x <= y
    BY <1>1, LeastNatural
<1>3. PICK j \in S : x = i - j
    BY <1>2
<1>4. \A k \in S : i - k \in T
    OBVIOUS
<1> HIDE DEF T
<1>5. ASSUME NEW k \in S PROVE k <= j
    <2>1. i - j <= i - k
        BY <1>2, <1>3, <1>4
    <2>2. j \in Nat /\ k \in Nat
        OBVIOUS
    <2> QED BY <2>1, <2>2
<1> QED BY <1>5

\* The chain hash a verifier holds after some lines is a hash.
LEMMA PrevHashType ==
    ASSUME NEW f \in Seq(Line), NEW i \in Nat, i <= Len(f) + 1
    PROVE  PrevHashAt(f, i) \in Hash
<1> DEFINE good == {j \in 1..(i - 1) : f[j].parses}
<1>1. CASE good = {}
    BY <1>1 DEF PrevHashAt, Genesis, Hash
<1>2. CASE good # {}
    <2>1. \E j \in good : \A k \in good : k <= j
        BY <1>2, LastPosition
    <2> DEFINE last == CHOOSE j \in good : \A k \in good : k <= j
    <2>2. last \in good
        BY <2>1
    <2>3. PrevHashAt(f, i) = f[last].chain_hash
        BY <1>2 DEF PrevHashAt
    <2>4. f[last] \in Line
        BY <2>2
    <2>5. Garbage.chain_hash \in Hash
        BY DEF Garbage, Genesis, Hash
    <2>6. \A l \in Record : l.chain_hash \in Hash
        BY DEF Record
    <2> QED BY <2>3, <2>4, <2>5, <2>6 DEF Line
<1> QED BY <1>1, <1>2

\* In a file whose lines all parse, that hash is the one of the line before.
LEMMA PrevHashOfParsed ==
    ASSUME NEW f \in Seq(Line), NEW i \in 1..(Len(f) + 1),
           \A j \in DOMAIN f : f[j].parses
    PROVE  PrevHashAt(f, i) = IF i = 1 THEN Genesis ELSE f[i - 1].chain_hash
<1>1. {j \in 1..(i - 1) : f[j].parses} = 1..(i - 1)
    OBVIOUS
<1>2. CASE i = 1
    BY <1>1, <1>2 DEF PrevHashAt
<1>3. CASE i # 1
    <2>1. (CHOOSE j \in 1..(i - 1) : \A k \in 1..(i - 1) : k <= j) = i - 1
        BY <1>3
    <2> QED BY <1>1, <1>3, <2>1 DEF PrevHashAt
<1> QED BY <1>2, <1>3
-------------------------------------------------------------------------------
\* A line that does not parse is a line of the file.
LEMMA GarbageIsLine == Garbage \in Line
BY DEF Line

\* Writing a line leaves a sequence of lines, whatever the tail looked like.
LEMMA WrittenType ==
    ASSUME TypeOK, NEW line \in Line
    PROVE  Written(line) \in Seq(Line)
<1>1. file \in Seq(Line) /\ Len(file) \in Nat
    BY DEF TypeOK
<1>2. Append(file, line) \in Seq(Line)
    BY <1>1
<1>3. [file EXCEPT ![Len(file)] = Garbage] \in Seq(Line)
    <2>1. CASE Len(file) \in 1..Len(file)
        BY <1>1, <2>1, GarbageIsLine, ExceptSeq
    <2>2. CASE Len(file) = 0
        <3>1. file = <<>>
            BY <1>1, <2>2, EmptySeq
        <3>2. [file EXCEPT ![Len(file)] = Garbage] = file
            BY <2>2, <3>1
        <3> QED BY <1>1, <3>2
    <2> QED BY <1>1, <2>1, <2>2
<1> QED BY <1>2, <1>3 DEF Written

\* So does a write that is cut short.
LEMMA CutWriteType ==
    ASSUME TypeOK, NEW t \in Threads, CutWrite(t)
    PROVE  file' \in Seq(Line) /\ openTail' \in BOOLEAN
<1>1. Written(Garbage) \in Seq(Line)
    BY GarbageIsLine, WrittenType
<1>2. Written(rec[t]) \in Seq(Line)
    <2>1. rec[t] \in Line
        BY DEF TypeOK
    <2> QED BY <2>1, WrittenType
<1> QED BY <1>1, <1>2 DEF CutWrite, disk, TypeOK

\* An empty ledger is well typed.
LEMMA TypeInit == Init => TypeOK
<1> SUFFICES ASSUME Init PROVE TypeOK
    OBVIOUS
<1>1. file \in Seq(Line) /\ prev \in Hash
    BY DEF Init, Genesis, Hash
<1>2. crashes \in 0..MaxCrashes
    BY MaxAssumption DEF Init
<1> QED BY <1>1, <1>2, GarbageIsLine DEF Init, TypeOK

\* Every step of append, of a restart and of a crash keeps the types.
LEMMA TypeNext == TypeOK /\ [Next]_vars => TypeOK'
<1> SUFFICES ASSUME TypeOK, [Next]_vars PROVE TypeOK'
    OBVIOUS
<1> USE GarbageIsLine DEF TypeOK
<1>1. CASE Open
    <2>1. prev' \in Hash
        BY <1>1, PrevHashType DEF Open
    <2>2. IsFiniteSet(ParsedLines(file))
        <3>1. ParsedLines(file) \subseteq 1..Len(file)
            BY DEF ParsedLines
        <3> QED BY <3>1, FS_Interval, FS_Subset
    <2>3. count' \in Nat
        BY <1>1, <2>2, FS_CardinalityType DEF Open
    <2> QED BY <1>1, <2>1, <2>3 DEF Open, disk
<1>2. CASE Crash
    <2>1. ASSUME NEW t \in Threads, CutWrite(t)
          PROVE  file' \in Seq(Line) /\ openTail' \in BOOLEAN
        BY <2>1, CutWriteType
    <2>2. (\E t \in lock : CutWrite(t)) => file' \in Seq(Line) /\ openTail' \in BOOLEAN
        BY <2>1
    <2>3. UNCHANGED disk => file' \in Seq(Line) /\ openTail' \in BOOLEAN
        BY DEF disk
    <2>4. file' \in Seq(Line) /\ openTail' \in BOOLEAN
        BY <1>2, <2>2, <2>3 DEF Crash
    <2>5. crashes' \in 0..MaxCrashes
        BY <1>2, MaxAssumption DEF Crash
    <2>6. prev' \in Hash
        BY <1>2 DEF Crash, Genesis, Hash
    <2> QED BY <1>2, <2>4, <2>5, <2>6 DEF Crash
<1>3. ASSUME NEW t \in Threads, ThreadStep(t) PROVE TypeOK'
    <2>1. ASSUME NEW e \in Entries, LinkRecord(t, e) PROVE TypeOK'
        <3>1. LedgerRecord(e, prev, Genesis) \in Record
            BY DEF LedgerRecord, Record, Genesis, Hash
        <3>2. rec' \in [Threads -> Line]
            BY <2>1, <3>1 DEF LinkRecord, Line
        <3>3. \A u \in Threads : pc'[u] # "idle" => rec'[u] \in Record
            BY <2>1, <3>1 DEF LinkRecord
        <3>4. pc' \in [Threads -> {"idle", "linked", "hashed", "locked", "written", "unlocked"}]
            BY <2>1 DEF LinkRecord
        <3> QED BY <2>1, <3>2, <3>3, <3>4 DEF LinkRecord, disk
    <2>2. CASE HashRecord(t)
        <3> DEFINE c == ChainHash(prev, rec[t].entry_hash)
        <3>1. rec[t] \in Record
            BY <2>2 DEF HashRecord
        <3>2. c \in Hash
            BY <3>1 DEF ChainHash, Hash, Record
        <3> HIDE DEF c
        <3>3. [rec[t] EXCEPT !.chain_hash = c] \in Record
            BY <3>1, <3>2 DEF Record
        <3>4. rec' = [rec EXCEPT ![t] = [rec[t] EXCEPT !.chain_hash = c]]
            BY <2>2 DEF HashRecord, c
        <3> QED BY <2>2, <3>3, <3>4 DEF HashRecord, disk, Line
    <2>3. CASE LockFile(t)
        BY <2>3 DEF LockFile, disk
    <2>4. CASE WriteLine(t)
        BY <2>4, WrittenType DEF WriteLine
    <2>5. CASE WriteFails(t)
        <3>1. file' \in Seq(Line) /\ openTail' \in BOOLEAN
            BY <2>5, CutWriteType DEF WriteFails
        <3>2. rec' \in [Threads -> Line] /\ lock' \in SUBSET Threads
            BY <2>5 DEF WriteFails
        <3>3. \A u \in Threads : pc'[u] # "idle" => rec'[u] \in Record
            BY <2>5 DEF WriteFails
        <3>4. pc' \in [Threads -> {"idle", "linked", "hashed", "locked", "written", "unlocked"}]
            BY <2>5 DEF WriteFails
        <3> QED BY <2>5, <3>1, <3>2, <3>3, <3>4 DEF WriteFails
    <2>6. CASE UnlockFile(t)
        BY <2>6 DEF UnlockFile, disk
    <2>7. CASE Publish(t)
        <3>1. prev' \in Hash
            BY <2>7 DEF Publish, Record
        <3>2. rec[t].body \in Entries
            BY <2>7 DEF Publish, Record
        <3>3. acked[rec[t].body] + 1 \in Nat
            BY <3>2
        <3>4. acked' \in [Entries -> Nat]
            BY <2>7, <3>3 DEF Publish
        <3> QED BY <2>7, <3>1, <3>4 DEF Publish, disk
    <2> QED BY <1>3, <2>1, <2>2, <2>3, <2>4, <2>5, <2>6, <2>7 DEF ThreadStep
<1>4. CASE UNCHANGED vars
    BY <1>4 DEF vars, disk
<1> QED BY <1>1, <1>2, <1>3, <1>4 DEF Next

\* Type correctness, for any number of threads and with every write fault:
\* the hashes of HardLedger are always hashes, and an append in progress
\* always has its record.
THEOREM Typing == Spec => []TypeOK
BY TypeInit, TypeNext, PTL DEF Spec
-------------------------------------------------------------------------------
\* verify_chain accepts a ledger with one line more exactly when it accepts
\* the ledger and the line is a record linked to its last chain hash.
LEMMA VerifyAppend ==
    ASSUME NEW f \in Seq(Line), NEW line \in Line
    PROVE  VerifyOk(Append(f, line)) <=>
             /\ VerifyOk(f)
             /\ line.parses
             /\ line.prev_chain_hash = PrevHashAt(f, Len(f) + 1)
             /\ line.entry_hash = line.body
             /\ line.chain_hash = ChainHash(PrevHashAt(f, Len(f) + 1), line.entry_hash)
<1> DEFINE g == Append(f, line)
<1>1. /\ DOMAIN g = 1..(Len(f) + 1) /\ DOMAIN f = 1..Len(f)
      /\ \A i \in 1..Len(f) : g[i] = f[i]
      /\ g[Len(f) + 1] = line
    OBVIOUS
<1>2. ASSUME NEW i \in 1..(Len(f) + 1) PROVE PrevHashAt(g, i) = PrevHashAt(f, i)
    <2>1. \A j \in 1..(i - 1) : g[j] = f[j]
        BY <1>1
    <2>2. {j \in 1..(i - 1) : g[j].parses} = {j \in 1..(i - 1) : f[j].parses}
        BY <2>1
    <2> DEFINE good == {j \in 1..(i - 1) : f[j].parses}
               last == CHOOSE j \in good : \A k \in good : k <= j
    <2>3. CASE good = {}
        BY <2>2, <2>3 DEF PrevHashAt
    <2>4. CASE good # {}
        <3>a. i \in Nat /\ good \in SUBSET (1..(i - 1))
            OBVIOUS
        <3> HIDE DEF g
        <3>b. \E j \in good : \A k \in good : k <= j
            BY <2>4, <3>a, LastPosition
        <3>1. last \in good
            BY <3>b
        <3>2. g[last] = f[last]
            BY <3>1, <2>1
        <3>3. PrevHashAt(f, i) = f[last].chain_hash
            BY <2>4 DEF PrevHashAt
        <3>4. {j \in 1..(i - 1) : g[j].parses} = good
            BY <2>2
        <3>5. PrevHashAt(g, i) = g[last].chain_hash
            BY <2>4, <3>4 DEF PrevHashAt
        <3> QED BY <3>2, <3>3, <3>5
    <2> QED BY <2>3, <2>4
<1>3. VerifyOk(g) <=>
        \A i \in 1..(Len(f) + 1) :
            /\ g[i].parses
            /\ g[i].prev_chain_hash = PrevHashAt(f, i)
            /\ g[i].entry_hash = g[i].body
            /\ g[i].chain_hash = ChainHash(PrevHashAt(f, i), g[i].entry_hash)
    <2> HIDE DEF g
    <2> QED BY <1>1, <1>2 DEF VerifyOk, VerifyErrors
<1>4. VerifyOk(f) <=>
        \A i \in 1..Len(f) :
            /\ f[i].parses
            /\ f[i].prev_chain_hash = PrevHashAt(f, i)
            /\ f[i].entry_hash = f[i].body
            /\ f[i].chain_hash = ChainHash(PrevHashAt(f, i), f[i].entry_hash)
    BY <1>1 DEF VerifyOk, VerifyErrors
<1> HIDE DEF g
<1> SUFFICES VerifyOk(g) <=>
             /\ VerifyOk(f)
             /\ line.parses
             /\ line.prev_chain_hash = PrevHashAt(f, Len(f) + 1)
             /\ line.entry_hash = line.body
             /\ line.chain_hash = ChainHash(PrevHashAt(f, Len(f) + 1), line.entry_hash)
    BY DEF g
<1>5. Len(f) \in Nat /\ Len(f) + 1 \in 1..(Len(f) + 1)
      /\ (\A i \in 1..(Len(f) + 1) : (i = Len(f) + 1 \/ i \in 1..Len(f)))
      /\ \A i \in 1..Len(f) : i \in 1..(Len(f) + 1)
    OBVIOUS
<1> QED BY <1>1, <1>3, <1>4, <1>5, ZenonT(60)
-------------------------------------------------------------------------------
\* A file without lines verifies, and its last chain hash is the genesis hash.
LEMMA EmptyLedger == VerifyOk(<<>>) /\ PrevHashAt(<<>>, 1) = Genesis
<1>1. \A g : g = <<>> => DOMAIN g = {}
    OBVIOUS
<1>2. VerifyErrors(<<>>) = {}
    BY <1>1 DEF VerifyErrors
<1>3. PrevHashAt(<<>>, 1) = Genesis
    BY DEF PrevHashAt
<1> QED BY <1>2, <1>3 DEF VerifyOk

\* After a record was appended, it is the one the next record links to.
LEMMA HeadAfterAppend ==
    ASSUME NEW f \in Seq(Line), NEW line \in Line, line.parses,
           \A i \in DOMAIN f : f[i].parses
    PROVE  /\ \A i \in DOMAIN Append(f, line) : Append(f, line)[i].parses
           /\ PrevHashAt(Append(f, line), Len(Append(f, line)) + 1) = line.chain_hash
<1> DEFINE g == Append(f, line)
<1>1. g \in Seq(Line) /\ Len(g) = Len(f) + 1 /\ Len(f) \in Nat
    OBVIOUS
<1>2. \A i \in DOMAIN g : g[i].parses
    OBVIOUS
<1>3. g[Len(g)] = line
    OBVIOUS
<1> HIDE DEF g
<1>4. PrevHashAt(g, Len(g) + 1) = g[Len(g)].chain_hash
    BY <1>1, <1>2, PrevHashOfParsed, SMTT(30)
<1> QED BY <1>2, <1>3, <1>4 DEF g

\* The conjuncts of SingleWriterInv hold initially.
LEMMA SingleWriterInit == Init => SingleWriterInv
BY EmptyLedger
   DEF Init, SingleWriterInv, NoFragments, ChainIntact, InFlightLinked, HeadHash

\* One thread's steps keep the chain and the link of the record in flight.
LEMMA SingleWriterNext ==
    ASSUME ~WriteFaults, \A t, u \in Threads : t = u,
           TypeOK, SingleWriterInv, [Next]_vars
    PROVE  SingleWriterInv'
<1> USE DEF SingleWriterInv
<1>1. CASE Open
    BY <1>1 DEF Open, disk, NoFragments, ChainIntact, InFlightLinked, HeadHash
<1>2. CASE Crash
    BY <1>2 DEF Crash, disk, NoFragments, ChainIntact, InFlightLinked, HeadHash
<1>3. ASSUME NEW t \in Threads, ThreadStep(t) PROVE SingleWriterInv'
    <2>1. \A u \in Threads : u = t
        OBVIOUS
    <2>2. SUFFICES NoFragments' /\ ChainIntact' /\ InFlightLinked(t)'
        BY <2>1
    <2> USE DEF TypeOK
    <2>3. ASSUME NEW e \in Entries, LinkRecord(t, e)
          PROVE  NoFragments' /\ ChainIntact' /\ InFlightLinked(t)'
        BY <2>3 DEF LinkRecord, LedgerRecord, disk, NoFragments, ChainIntact,
                    InFlightLinked, HeadHash
    <2>4. CASE HashRecord(t)
        <3>1. rec[t] \in Record
            BY <2>4 DEF HashRecord
        <3>2. /\ rec'[t].chain_hash = ChainHash(prev, rec[t].entry_hash)
              /\ rec'[t].entry_hash = rec[t].entry_hash /\ rec'[t].body = rec[t].body
              /\ rec'[t].prev_chain_hash = rec[t].prev_chain_hash
            BY <2>4, <3>1 DEF HashRecord, Record
        <3> QED BY <2>4, <3>2 DEF HashRecord, disk, NoFragments, ChainIntact,
                    InFlightLinked, HeadHash
    <2>5. CASE LockFile(t)
        BY <2>5 DEF LockFile, disk, NoFragments, ChainIntact, InFlightLinked, HeadHash
    <2>6. CASE WriteLine(t)
        <3>1. rec[t] \in Record /\ rec[t] \in Line /\ rec[t].parses
            BY <2>6 DEF WriteLine, Line, Record
        <3>2. file' = Append(file, rec[t])
            BY <2>6 DEF WriteLine, Written, NoFragments
        <3>3. ChainIntact'
            BY <2>6, <3>1, <3>2, VerifyAppend, SMTT(30)
               DEF WriteLine, ChainIntact, InFlightLinked, HeadHash
        <3>4. NoFragments' /\ HeadHash' = rec[t].chain_hash
            BY <2>6, <3>1, <3>2, HeadAfterAppend DEF WriteLine, NoFragments, HeadHash
        <3> QED BY <2>6, <3>3, <3>4 DEF WriteLine, InFlightLinked
    <2>7. CASE WriteFails(t)
        BY <2>7 DEF WriteFails
    <2>8. CASE UnlockFile(t)
        BY <2>8 DEF UnlockFile, disk, NoFragments, ChainIntact, InFlightLinked, HeadHash
    <2>9. CASE Publish(t)
        BY <2>9 DEF Publish, disk, NoFragments, ChainIntact, InFlightLinked, HeadHash
    <2> QED BY <1>3, <2>3, <2>4, <2>5, <2>6, <2>7, <2>8, <2>9 DEF ThreadStep
<1>4. CASE UNCHANGED vars
    BY <1>4 DEF vars, disk, NoFragments, ChainIntact, InFlightLinked, HeadHash
<1> QED BY <1>1, <1>2, <1>3, <1>4 DEF Next

\* A ledger written by one thread at a time, whose writes are whole, verifies
\* at every moment, through any number of crashes and restarts between any
\* two steps of append.
THEOREM SingleWriterChain ==
    ASSUME ~WriteFaults, \A t, u \in Threads : t = u
    PROVE  Spec => []ChainIntact
<1>1. TypeOK /\ SingleWriterInv /\ [Next]_vars => SingleWriterInv'
    BY SingleWriterNext
<1>2. SingleWriterInv => ChainIntact
    BY DEF SingleWriterInv
<1> QED BY <1>1, <1>2, SingleWriterInit, Typing, PTL DEF Spec
-------------------------------------------------------------------------------
\* Without write faults the tail of the file always has its newline.
LEMMA TailClosed ==
    ASSUME ~WriteFaults
    PROVE  Spec => []~openTail
<1>1. Init => ~openTail
    BY DEF Init
<1>2. ~openTail /\ [Next]_vars => ~openTail'
    BY DEF Next, ThreadStep, Open, Crash, LinkRecord, HashRecord, LockFile,
           WriteLine, WriteFails, UnlockFile, Publish, disk, vars
<1> QED BY <1>1, <1>2, PTL DEF Spec

\* Append-only: for any number of concurrent writers and any crashes, a line
\* once in the file stays what and where it is, provided writes are whole.
THEOREM Immutability ==
    ASSUME ~WriteFaults
    PROVE  Spec => RecordsImmutable
<1>1. ASSUME TypeOK, ~openTail, [Next]_vars
      PROVE  Len(file) <= Len(file') /\ \A i \in DOMAIN file : file'[i] = file[i]
    <2>1. file \in Seq(Line) /\ rec \in [Threads -> Line]
        BY <1>1 DEF TypeOK
    <2>2. ASSUME NEW t \in Threads, WriteLine(t)
          PROVE  Len(file) <= Len(file') /\ \A i \in DOMAIN file : file'[i] = file[i]
        <3>1. file' = Append(file, rec[t])
            BY <1>1, <2>2 DEF WriteLine, Written
        <3> QED BY <2>1, <3>1
    <2>3. (\A t \in Threads : ~WriteLine(t)) => file' = file
        BY <1>1 DEF Next, ThreadStep, Open, Crash, LinkRecord, HashRecord, LockFile,
           WriteFails, UnlockFile, Publish, disk, vars
    <2>4. CASE file' = file
        BY <2>1, <2>4
    <2> QED BY <2>2, <2>3, <2>4
<1> QED BY <1>1, Typing, TailClosed, PTL DEF Spec, RecordsImmutable
-------------------------------------------------------------------------------
\* The variables of the abstract log, as functions of the ledger's state.
bodies == [i \in DOMAIN file |-> file[i].body]
calls == [t \in Threads |-> AbstractCall(t)]

\* Storing a line appends its body to the abstract log.
LEMMA BodiesAppend ==
    ASSUME NEW f \in Seq(Line), NEW line \in Line
    PROVE  [i \in DOMAIN Append(f, line) |-> Append(f, line)[i].body]
             = Append([i \in DOMAIN f |-> f[i].body], line.body)
<1> DEFINE b == [i \in DOMAIN f |-> f[i].body]
           Bodies == {f[i].body : i \in DOMAIN f} \cup {line.body}
<1>1. b \in Seq(Bodies) /\ Len(b) = Len(f) /\ \A i \in 1..Len(f) : b[i] = f[i].body
    <2>1. DOMAIN f = 1..Len(f) /\ Len(f) \in Nat
        OBVIOUS
    <2>2. b \in [1..Len(f) -> Bodies]
        BY <2>1
    <2> QED BY <2>1, <2>2
<1>2. line.body \in Bodies
    OBVIOUS
<1> DEFINE c == Append(b, line.body)
           g == Append(f, line)
           d == [i \in DOMAIN g |-> g[i].body]
<1>3. c \in Seq(Bodies) /\ Len(c) = Len(f) + 1 /\ c[Len(f) + 1] = line.body
      /\ \A i \in 1..Len(f) : c[i] = f[i].body
    <2> HIDE DEF b, Bodies
    <2> QED BY <1>1, <1>2, AppendProperties
<1>4. DOMAIN g = 1..(Len(f) + 1) /\ g[Len(f) + 1] = line /\ Len(f) \in Nat
      /\ \A i \in 1..Len(f) : g[i] = f[i]
    OBVIOUS
<1>5. DOMAIN c = 1..(Len(f) + 1) /\ c = [i \in 1..(Len(f) + 1) |-> c[i]]
    <2> HIDE DEF c, Bodies
    <2> QED BY <1>3
<1>6. ASSUME NEW i \in 1..(Len(f) + 1) PROVE d[i] = c[i]
    <2> HIDE DEF c
    <2>1. d[i] = g[i].body
        BY <1>4
    <2> HIDE DEF d, g
    <2>2. CASE i = Len(f) + 1
        BY <2>1, <2>2, <1>3, <1>4
    <2>3. CASE i \in 1..Len(f)
        BY <2>1, <2>3, <1>3, <1>4
    <2> QED BY <2>2, <2>3, <1>4
<1>7. d = [i \in 1..(Len(f) + 1) |-> d[i]]
    BY <1>4
<1> HIDE DEF d, c
<1>8. d = c
    BY <1>5, <1>6, <1>7
<1> QED BY <1>8 DEF c, d

\* The empty file is the empty abstract log.
LEMMA RefinementInit == Init => Promised!Init
<1> SUFFICES ASSUME Init PROVE Promised!Init
    OBVIOUS
<1>1. bodies = <<>>
    BY DEF Init, bodies
<1>2. calls = [t \in Threads |-> [phase |-> "none", entry |-> NoEntry]]
    BY DEF Init, calls, AbstractCall
<1> QED BY <1>1, <1>2 DEF Promised!Init, Promised!NoCall, bodies, calls

\* Every step is the storing of one entry, the begin or end of a call, a
\* crash, or no step of the abstract log.
LEMMA RefinementNext ==
    ASSUME ~WriteFaults, TypeOK, TypeOK', ~openTail, [Next]_vars
    PROVE  [Promised!Next]_<<bodies, calls>>
<1> USE DEF TypeOK, Promised!NoCall
<1>1. CASE Open
    BY <1>1 DEF Open, disk, bodies, calls, AbstractCall
<1>2. CASE Crash
    <2>1. bodies' = bodies
        BY <1>2 DEF Crash, disk, bodies
    <2>2. calls' = [t \in Threads |-> Promised!NoCall]
        BY <1>2 DEF Crash, calls, AbstractCall
    <2> QED BY <2>1, <2>2 DEF Promised!Next, Promised!Crash, bodies, calls
<1>3. ASSUME NEW t \in Threads, ThreadStep(t)
      PROVE  [Promised!Next]_<<bodies, calls>>
    <2>1. ASSUME NEW e \in Entries, LinkRecord(t, e)
          PROVE  Promised!Call(t, e)
        <3>1. bodies' = bodies /\ calls[t] = Promised!NoCall
            BY <2>1 DEF LinkRecord, disk, bodies, calls, AbstractCall
        <3>2. calls' = [calls EXCEPT ![t] = [phase |-> "pending", entry |-> e]]
            BY <2>1 DEF LinkRecord, LedgerRecord, calls, AbstractCall
        <3> QED BY <3>1, <3>2 DEF Promised!Call, bodies, calls
    <2>2. ASSUME HashRecord(t) \/ LockFile(t) \/ UnlockFile(t)
          PROVE  UNCHANGED <<bodies, calls>>
        <3>1. bodies' = bodies
            BY <2>2 DEF HashRecord, LockFile, UnlockFile, disk, bodies
        <3>2. rec[t] \in Record
            BY <2>2 DEF HashRecord, LockFile, UnlockFile
        <3>3. \A u \in Threads : rec'[u].body = rec[u].body
            <4>1. CASE HashRecord(t)
                <5> DEFINE c == ChainHash(prev, rec[t].entry_hash)
                <5>1. rec' = [rec EXCEPT ![t] = [rec[t] EXCEPT !.chain_hash = c]]
                    BY <4>1 DEF HashRecord
                <5> HIDE DEF c
                <5>2. [rec[t] EXCEPT !.chain_hash = c].body = rec[t].body
                    BY <3>2 DEF Record
                <5> QED BY <5>1, <5>2
            <4> QED BY <2>2, <4>1 DEF LockFile, UnlockFile
        <3>4. \A u \in Threads : AbstractCall(u)' = AbstractCall(u)
            BY <2>2, <3>3 DEF HashRecord, LockFile, UnlockFile, AbstractCall
        <3>5. calls' = calls
            BY <3>4 DEF calls
        <3> QED BY <3>1, <3>5
    <2>3. CASE WriteLine(t)
        <3>1. file' = Append(file, rec[t]) /\ rec[t] \in Line
            BY <2>3 DEF WriteLine, Written
        <3>2. bodies' = Append(bodies, rec[t].body)
            BY <3>1, BodiesAppend DEF bodies
        <3>3. calls[t] = [phase |-> "pending", entry |-> rec[t].body]
            BY <2>3 DEF WriteLine, calls, AbstractCall
        <3>4. calls' = [calls EXCEPT ![t].phase = "stored"]
            BY <2>3 DEF WriteLine, calls, AbstractCall
        <3> HIDE DEF TypeOK, Promised!NoCall
        <3>a. calls[t].phase = "pending" /\ bodies' = Append(bodies, calls[t].entry)
            BY <3>2, <3>3
        <3>5. Promised!Store(t)
            BY <3>a, <3>4, Zenon DEF Promised!Store, bodies, calls
        <3> QED BY <3>5 DEF Promised!Next
    <2>4. CASE Publish(t)
        <3>1. bodies' = bodies /\ calls[t].phase = "stored"
            BY <2>4 DEF Publish, disk, bodies, calls, AbstractCall
        <3>2. calls' = [calls EXCEPT ![t] = Promised!NoCall]
            BY <2>4 DEF Publish, calls, AbstractCall
        <3>3. Promised!Return(t)
            BY <3>1, <3>2 DEF Promised!Return, bodies, calls
        <3> QED BY <3>3 DEF Promised!Next
    <2>5. ~WriteFails(t)
        BY DEF WriteFails
    <2> QED BY <1>3, <2>1, <2>2, <2>3, <2>4, <2>5 DEF ThreadStep, Promised!Next
<1>4. CASE UNCHANGED vars
    BY <1>4 DEF vars, disk, bodies, calls, AbstractCall
<1> QED BY <1>1, <1>2, <1>3, <1>4 DEF Next

\* Seen through the bodies of its lines, the shared ledger is an append-only
\* log: every append is stored once, before it returns, by any number of
\* threads and through any crashes, provided writes are whole.
THEOREM Refinement ==
    ASSUME ~WriteFaults
    PROVE  Spec => ImplementsAuditLog
<1>1. TypeOK /\ TypeOK' /\ ~openTail /\ [Next]_vars => [Promised!Next]_<<bodies, calls>>
    BY RefinementNext
<1>2. <<bodies, calls>> = Promised!vars
    BY DEF Promised!vars, bodies, calls
<1>3. TypeOK /\ TypeOK' /\ ~openTail /\ [Next]_vars => [Promised!Next]_Promised!vars
    BY <1>1, <1>2 DEF Promised!vars, bodies, calls
<1> QED BY <1>3, RefinementInit, Typing, TailClosed, PTL
        DEF Spec, ImplementsAuditLog, Promised!Spec
-------------------------------------------------------------------------------
(* Durability: an append that returned, or is past its write, accounts for a *)
(* line of its own, or the file is spoiled by a line that does not parse.    *)

Busy == {t \in Threads : pc[t] # "idle"}
Past == {t \in Threads : pc[t] \in {"written", "unlocked"}}
Unreturned(e) == {t \in Past : rec[t].body = e}
StoredAs(f, e) == {i \in ParsedLines(f) : f[i].body = e}
Spoiled(f) == \E i \in DOMAIN f : ~f[i].parses

EveryAppendCounted ==
    \A e \in Entries : acked[e] + Cardinality(Unreturned(e)) <= ReadCount(file, e)

DurableInv ==
    /\ IsFiniteSet(Busy)
    /\ openTail => file # <<>>
    /\ Spoiled(file) \/ EveryAppendCounted

\* read_all returns one record more of a body after a record of it is appended.
LEMMA ReadCountAppend ==
    ASSUME NEW f \in Seq(Line), NEW line \in Record, NEW e \in Entries
    PROVE  /\ ReadCount(f, e) \in Nat
           /\ line.body = e => ReadCount(Append(f, line), e) = ReadCount(f, e) + 1
           /\ line.body # e => ReadCount(Append(f, line), e) = ReadCount(f, e)
<1> DEFINE g == Append(f, line)
           n == Len(f) + 1
<1>1. /\ n \in Nat /\ n \notin 1..Len(f)
      /\ DOMAIN f = 1..Len(f) /\ DOMAIN g = 1..n /\ g[n] = line
      /\ \A i \in 1..Len(f) : g[i] = f[i]
    BY DEF Line
<1>2. line.parses
    BY DEF Record
<1>3. 1..n = 1..Len(f) \cup {n}
    OBVIOUS
<1> HIDE DEF g, n
<1>4. n \notin StoredAs(f, e)
    BY <1>1 DEF StoredAs, ParsedLines
<1>5. line.body = e => StoredAs(g, e) = StoredAs(f, e) \cup {n}
    BY <1>1, <1>2, <1>3 DEF StoredAs, ParsedLines
<1>6. line.body # e => StoredAs(g, e) = StoredAs(f, e)
    BY <1>1, <1>2, <1>3 DEF StoredAs, ParsedLines
<1>7. IsFiniteSet(StoredAs(f, e))
    <2>1. StoredAs(f, e) \subseteq 1..Len(f)
        BY <1>1 DEF StoredAs, ParsedLines
    <2>2. IsFiniteSet(1..Len(f))
        BY FS_Interval
    <2> QED BY <2>1, <2>2, FS_Subset
<1>8. Cardinality(StoredAs(f, e)) \in Nat
    BY <1>7, FS_CardinalityType
<1>9. line.body = e => Cardinality(StoredAs(g, e)) = Cardinality(StoredAs(f, e)) + 1
    BY <1>4, <1>5, <1>7, FS_AddElement
<1>10. ReadCount(f, e) = Cardinality(StoredAs(f, e)) /\ ReadCount(g, e) = Cardinality(StoredAs(g, e))
    BY DEF ReadCount, StoredAs
<1> QED BY <1>6, <1>8, <1>9, <1>10 DEF g

LEMMA ReadCountType == ASSUME NEW f \in Seq(Line), NEW e \in Entries PROVE ReadCount(f, e) \in Nat
<1>1. LedgerRecord(e, Genesis, Genesis) \in Record
    BY DEF LedgerRecord, Record, Genesis, Hash
<1> QED BY <1>1, ReadCountAppend

\* What a set of unreturned appends counts is a number.
LEMMA UnreturnedFinite ==
    ASSUME IsFiniteSet(Busy), NEW e
    PROVE  IsFiniteSet(Unreturned(e)) /\ Cardinality(Unreturned(e)) \in Nat
<1>1. Unreturned(e) \subseteq Busy
    BY DEF Unreturned, Past, Busy
<1> QED BY <1>1, FS_Subset, FS_CardinalityType

\* A line that is written makes a record of its own at the end of an unspoiled file,
\* or leaves a spoiled one.
LEMMA WrittenOutcome ==
    ASSUME TypeOK, openTail => file # <<>>, NEW line \in Line
    PROVE  /\ Written(line) # <<>>
           /\ \/ Spoiled(Written(line))
              \/ ~Spoiled(file) /\ line \in Record /\ Written(line) = Append(file, line)
<1>1. file \in Seq(Line) /\ Len(file) \in Nat /\ DOMAIN file = 1..Len(file)
    BY DEF TypeOK
<1>2. CASE openTail
    <2>1. Len(file) \in DOMAIN file
        BY <1>1, <1>2, EmptySeq
    <2> DEFINE g == [file EXCEPT ![Len(file)] = Garbage]
    <2>2. Len(file) \in DOMAIN g /\ g[Len(file)] = Garbage
        BY <2>1
    <2>3. ~Garbage.parses
        BY DEF Garbage
    <2>4. Spoiled(g)
        BY <2>2, <2>3 DEF Spoiled
    <2>5. g # <<>>
        BY <2>2, <1>1, <2>1
    <2> QED BY <1>2, <2>4, <2>5 DEF Written
<1>3. CASE ~openTail
    <2> DEFINE g == Append(file, line)
    <2>1. /\ DOMAIN g = 1..(Len(file) + 1) /\ g[Len(file) + 1] = line
          /\ \A i \in DOMAIN file : i \in DOMAIN g /\ g[i] = file[i]
        BY <1>1
    <2>2. g # <<>>
        BY <1>1
    <2>3. Written(line) = g
        BY <1>3 DEF Written
    <2> HIDE DEF g
    <2>4. Len(file) + 1 \in DOMAIN g
        BY <1>1, <2>1
    <2>5. CASE line = Garbage
        BY <2>1, <2>2, <2>3, <2>4, <2>5 DEF Spoiled, Garbage
    <2>6. CASE Spoiled(file)
        BY <2>1, <2>2, <2>3, <2>6 DEF Spoiled
    <2>7. CASE line # Garbage /\ ~Spoiled(file)
        BY <2>2, <2>3, <2>7 DEF Line, g
    <2> QED BY <2>5, <2>6, <2>7
<1> QED BY <1>2, <1>3

\* A write that is cut short takes no record out of a file it does not spoil.
LEMMA CutOutcome ==
    ASSUME TypeOK, openTail => file # <<>>, NEW t \in Threads, CutWrite(t)
    PROVE  /\ openTail' => file' # <<>>
           /\ \/ Spoiled(file')
              \/ ~Spoiled(file) /\ \A e \in Entries : ReadCount(file, e) <= ReadCount(file', e)
<1>1. file \in Seq(Line) /\ rec[t] \in Line
    BY DEF TypeOK
<1>2. CASE UNCHANGED disk
    BY <1>1, <1>2, ReadCountType DEF disk
<1>3. CASE file' = Written(Garbage)
    <2>1. Garbage \notin Record
        BY DEF Garbage, Record
    <2> QED BY <1>3, <2>1, WrittenOutcome, GarbageIsLine
<1>4. CASE file' = Written(rec[t])
    <2>1. /\ file' # <<>>
          /\ \/ Spoiled(file')
             \/ ~Spoiled(file) /\ rec[t] \in Record /\ file' = Append(file, rec[t])
        BY <1>1, <1>4, WrittenOutcome
    <2>2. ASSUME rec[t] \in Record, file' = Append(file, rec[t]), NEW e \in Entries
          PROVE  ReadCount(file, e) <= ReadCount(file', e)
        BY <1>1, <2>2, ReadCountAppend
    <2> QED BY <2>1, <2>2
<1> QED BY <1>2, <1>3, <1>4 DEF CutWrite

\* A step that acknowledges nothing, takes no record away and has no thread pass
\* its write.
LEMMA NothingMoreOwed ==
    ASSUME TypeOK, TypeOK', DurableInv, acked' = acked,
           \/ Spoiled(file')
           \/ ~Spoiled(file) /\ \A e \in Entries : ReadCount(file, e) <= ReadCount(file', e),
           \A e \in Entries : Unreturned(e)' \subseteq Unreturned(e)
    PROVE  Spoiled(file') \/ EveryAppendCounted'
<1> SUFFICES ASSUME ~Spoiled(file), NEW e \in Entries, ReadCount(file, e) <= ReadCount(file', e)
             PROVE  acked'[e] + Cardinality(Unreturned(e)') <= ReadCount(file', e)
    BY DEF EveryAppendCounted
<1>1. IsFiniteSet(Unreturned(e)) /\ Cardinality(Unreturned(e)) \in Nat
    BY UnreturnedFinite DEF DurableInv
<1>2. IsFiniteSet(Unreturned(e)') /\ Cardinality(Unreturned(e)') <= Cardinality(Unreturned(e))
    BY <1>1, FS_Subset
<1>3. Cardinality(Unreturned(e)') \in Nat
    BY <1>2, FS_CardinalityType
<1>4. acked[e] \in Nat /\ file \in Seq(Line) /\ file' \in Seq(Line)
    BY DEF TypeOK
<1>5. ReadCount(file, e) \in Nat /\ ReadCount(file', e) \in Nat
    BY <1>4, ReadCountType
<1>6. acked[e] + Cardinality(Unreturned(e)) <= ReadCount(file, e)
    BY DEF DurableInv, EveryAppendCounted
<1> QED BY <1>1, <1>2, <1>3, <1>4, <1>5, <1>6

\* The step that writes a record adds it and the claim to it.
LEMMA RecordStored ==
    ASSUME TypeOK, DurableInv, NEW t \in Threads, WriteLine(t)
    PROVE  Spoiled(file') \/ EveryAppendCounted'
<1>0. /\ file \in Seq(Line) /\ acked \in [Entries -> Nat] /\ acked' = acked
      /\ pc \in [Threads -> {"idle", "linked", "hashed", "locked", "written", "unlocked"}]
      /\ rec[t] \in Record /\ rec[t] \in Line
    BY DEF TypeOK, WriteLine, Line
<1>1. SUFFICES ASSUME ~Spoiled(file), rec[t] \in Record, file' = Append(file, rec[t])
               PROVE  EveryAppendCounted'
    BY <1>0, WrittenOutcome DEF WriteLine, DurableInv
<1>2. t \notin Unreturned(rec[t].body)
    BY DEF WriteLine, Unreturned, Past
<1>3. \A e \in Entries : Unreturned(e)' =
          IF e = rec[t].body THEN Unreturned(e) \cup {t} ELSE Unreturned(e)
    BY <1>0 DEF WriteLine, Unreturned, Past
<1>4. ASSUME NEW e \in Entries
      PROVE  acked'[e] + Cardinality(Unreturned(e)') <= ReadCount(file', e)
    <2>1. /\ Cardinality(Unreturned(e)) \in Nat /\ acked[e] \in Nat
          /\ IsFiniteSet(Unreturned(e))
        BY <1>0, UnreturnedFinite DEF DurableInv
    <2>2. /\ ReadCount(file, e) \in Nat
          /\ rec[t].body = e => ReadCount(file', e) = ReadCount(file, e) + 1
          /\ rec[t].body # e => ReadCount(file', e) = ReadCount(file, e)
        BY <1>0, <1>1, ReadCountAppend
    <2>3. acked[e] + Cardinality(Unreturned(e)) <= ReadCount(file, e)
        BY <1>1 DEF DurableInv, EveryAppendCounted
    <2>4. CASE rec[t].body = e
        <3>1. Cardinality(Unreturned(e)') = Cardinality(Unreturned(e)) + 1
            BY <1>2, <1>3, <2>1, <2>4, FS_AddElement
        <3> QED BY <1>0, <2>1, <2>2, <2>3, <2>4, <3>1
    <2>5. CASE rec[t].body # e
        <3>1. Unreturned(e)' = Unreturned(e)
            BY <1>3, <2>5
        <3> QED BY <1>0, <2>1, <2>2, <2>3, <2>5, <3>1
    <2> QED BY <2>4, <2>5
<1> QED BY <1>4 DEF EveryAppendCounted

\* The step that returns turns the claim into an acknowledgement.
LEMMA RecordAcknowledged ==
    ASSUME TypeOK, DurableInv, NEW t \in Threads, Publish(t)
    PROVE  Spoiled(file') \/ EveryAppendCounted'
<1>0. /\ file \in Seq(Line) /\ acked \in [Entries -> Nat] /\ file' = file
      /\ pc \in [Threads -> {"idle", "linked", "hashed", "locked", "written", "unlocked"}]
      /\ rec[t] \in Record /\ rec[t].body \in Entries
      /\ acked' = [acked EXCEPT ![rec[t].body] = @ + 1]
    BY DEF TypeOK, Publish, disk, Record
<1>1. SUFFICES ASSUME ~Spoiled(file) PROVE EveryAppendCounted'
    BY <1>0
<1>2. t \in Unreturned(rec[t].body)
    BY DEF Publish, Unreturned, Past
<1>3. \A e \in Entries : Unreturned(e)' =
          IF e = rec[t].body THEN Unreturned(e) \ {t} ELSE Unreturned(e)
    BY <1>0 DEF Publish, Unreturned, Past
<1>4. ASSUME NEW e \in Entries
      PROVE  acked'[e] + Cardinality(Unreturned(e)') <= ReadCount(file', e)
    <2>1. /\ Cardinality(Unreturned(e)) \in Nat /\ acked[e] \in Nat
          /\ IsFiniteSet(Unreturned(e))
        BY <1>0, UnreturnedFinite DEF DurableInv
    <2>2. acked[e] + Cardinality(Unreturned(e)) <= ReadCount(file, e)
        BY <1>1 DEF DurableInv, EveryAppendCounted
    <2>3. CASE rec[t].body = e
        <3>1. Cardinality(Unreturned(e)') = Cardinality(Unreturned(e)) - 1
            BY <1>2, <1>3, <2>1, <2>3, FS_RemoveElement
        <3>2. acked'[e] = acked[e] + 1
            BY <1>0, <2>3
        <3>3. acked'[e] + Cardinality(Unreturned(e)') = acked[e] + Cardinality(Unreturned(e))
            BY <2>1, <3>1, <3>2
        <3> QED BY <1>0, <2>2, <3>3
    <2>4. CASE rec[t].body # e
        <3>1. Unreturned(e)' = Unreturned(e) /\ acked'[e] = acked[e]
            BY <1>0, <1>3, <2>4
        <3> QED BY <1>0, <2>2, <3>1
    <2> QED BY <2>3, <2>4
<1> QED BY <1>4 DEF EveryAppendCounted

LEMMA DurableInit == Init => DurableInv
<1> SUFFICES ASSUME Init PROVE DurableInv
    OBVIOUS
<1>1. Busy = {} /\ \A e \in Entries : Unreturned(e) = {} /\ StoredAs(file, e) = {}
    BY DEF Init, Busy, Unreturned, Past, StoredAs, ParsedLines
<1>2. IsFiniteSet({}) /\ Cardinality({}) = 0
    BY FS_EmptySet
<1>3. \A e \in Entries : acked[e] = 0 /\ ReadCount(file, e) = Cardinality(StoredAs(file, e))
    BY DEF Init, ReadCount, StoredAs
<1>4. ASSUME NEW e \in Entries
      PROVE  acked[e] + Cardinality(Unreturned(e)) <= ReadCount(file, e)
    <2>1. Cardinality(Unreturned(e)) = 0 /\ acked[e] = 0 /\ ReadCount(file, e) = 0
        BY <1>1, <1>2, <1>3
    <2>2. 0 + 0 <= 0
        OBVIOUS
    <2> QED BY <2>1, <2>2
<1>5. ~openTail /\ IsFiniteSet(Busy)
    BY <1>1, <1>2 DEF Init
<1> QED BY <1>4, <1>5 DEF DurableInv, EveryAppendCounted

\* Every step keeps the count, whatever write fails or is cut short.
LEMMA DurableNext == TypeOK /\ TypeOK' /\ DurableInv /\ [Next]_vars => DurableInv'
<1> SUFFICES ASSUME TypeOK, TypeOK', DurableInv, [Next]_vars PROVE DurableInv'
    OBVIOUS
<1>0. /\ file \in Seq(Line)
      /\ pc \in [Threads -> {"idle", "linked", "hashed", "locked", "written", "unlocked"}]
      /\ rec \in [Threads -> Line]
      /\ \A t \in Threads : pc[t] # "idle" => rec[t] \in Record
      /\ IsFiniteSet(Busy) /\ (openTail => file # <<>>)
    BY DEF DurableInv, TypeOK
<1>a. \A e \in Entries : ReadCount(file, e) <= ReadCount(file, e)
    BY <1>0, ReadCountType
<1>b. ASSUME UNCHANGED <<disk, acked>>, IsFiniteSet(Busy'),
             \A e \in Entries : Unreturned(e)' \subseteq Unreturned(e)
      PROVE  DurableInv'
    <2>1. file' = file /\ openTail' = openTail /\ acked' = acked
        BY <1>b DEF disk
    <2>2. \/ Spoiled(file')
          \/ ~Spoiled(file) /\ \A e \in Entries : ReadCount(file, e) <= ReadCount(file', e)
        BY <1>a, <2>1
    <2>3. Spoiled(file') \/ EveryAppendCounted'
        BY <1>b, <2>1, <2>2, NothingMoreOwed
    <2> QED BY <1>0, <1>b, <2>1, <2>3 DEF DurableInv
<1>1. CASE Open \/ UNCHANGED vars
    <2>1. UNCHANGED <<disk, acked, pc, rec>>
        BY <1>1 DEF Open, disk, vars
    <2>2. Busy' = Busy /\ \A e \in Entries : Unreturned(e)' = Unreturned(e)
        BY <2>1 DEF Busy, Unreturned, Past
    <2> QED BY <1>0, <1>b, <2>1, <2>2
<1>2. CASE Crash
    <2>1. acked' = acked /\ pc' = [t \in Threads |-> "idle"]
        BY <1>2 DEF Crash
    <2>2. Busy' = {} /\ \A e \in Entries : Unreturned(e)' = {}
        BY <2>1 DEF Busy, Unreturned, Past
    <2>3. IsFiniteSet(Busy') /\ \A e \in Entries : Unreturned(e)' \subseteq Unreturned(e)
        BY <2>2, FS_EmptySet
    <2>4. CASE UNCHANGED disk
        BY <1>b, <2>1, <2>3, <2>4
    <2>5. ASSUME NEW t \in lock, CutWrite(t) PROVE DurableInv'
        <3>1. t \in Threads
            BY DEF TypeOK
        <3>2. /\ openTail' => file' # <<>>
              /\ \/ Spoiled(file')
                 \/ ~Spoiled(file) /\ \A e \in Entries : ReadCount(file, e) <= ReadCount(file', e)
            BY <1>0, <2>5, <3>1, CutOutcome
        <3> QED BY <2>1, <2>3, <3>2, NothingMoreOwed DEF DurableInv
    <2> QED BY <1>2, <2>4, <2>5 DEF Crash
<1>3. ASSUME NEW t \in Threads, ThreadStep(t) PROVE DurableInv'
    <2>1. ASSUME NEW x \in Entries, LinkRecord(t, x) PROVE DurableInv'
        <3>1. Busy' = Busy \cup {t}
            BY <1>0, <2>1 DEF LinkRecord, Busy
        <3>2. \A e \in Entries : Unreturned(e)' = Unreturned(e)
            BY <1>0, <2>1 DEF LinkRecord, Unreturned, Past
        <3>3. IsFiniteSet(Busy')
            BY <1>0, <3>1, FS_AddElement
        <3> QED BY <1>b, <2>1, <3>2, <3>3 DEF LinkRecord
    <2>2. CASE HashRecord(t)
        <3>1. Busy' = Busy
            BY <1>0, <2>2 DEF HashRecord, Busy
        <3>2. \A e \in Entries : Unreturned(e)' = Unreturned(e)
            BY <1>0, <2>2 DEF HashRecord, Unreturned, Past
        <3> QED BY <1>0, <1>b, <2>2, <3>1, <3>2 DEF HashRecord
    <2>3. CASE LockFile(t)
        <3>1. Busy' = Busy
            BY <1>0, <2>3 DEF LockFile, Busy
        <3>2. \A e \in Entries : Unreturned(e)' = Unreturned(e)
            BY <1>0, <2>3 DEF LockFile, Unreturned, Past
        <3> QED BY <1>0, <1>b, <2>3, <3>1, <3>2 DEF LockFile
    <2>4. CASE UnlockFile(t)
        <3>1. Busy' = Busy
            BY <1>0, <2>4 DEF UnlockFile, Busy
        <3>2. \A e \in Entries : Unreturned(e)' = Unreturned(e)
            BY <1>0, <2>4 DEF UnlockFile, Unreturned, Past
        <3> QED BY <1>0, <1>b, <2>4, <3>1, <3>2 DEF UnlockFile
    <2>5. CASE WriteLine(t)
        <3>1. Busy' = Busy /\ openTail' = FALSE
            BY <1>0, <2>5 DEF WriteLine, Busy
        <3>2. Spoiled(file') \/ EveryAppendCounted'
            BY <2>5, RecordStored
        <3> QED BY <1>0, <3>1, <3>2 DEF DurableInv
    <2>6. CASE Publish(t)
        <3>1. Busy' = Busy \ {t} /\ UNCHANGED disk
            BY <1>0, <2>6 DEF Publish, Busy
        <3>2. Spoiled(file') \/ EveryAppendCounted'
            BY <2>6, RecordAcknowledged
        <3>3. IsFiniteSet(Busy')
            BY <1>0, <3>1, FS_RemoveElement
        <3> QED BY <1>0, <3>1, <3>2, <3>3 DEF DurableInv, disk
    <2>7. CASE WriteFails(t)
        <3>1. Busy' = Busy \ {t} /\ acked' = acked
            BY <1>0, <2>7 DEF WriteFails, Busy
        <3>2. \A e \in Entries : Unreturned(e)' \subseteq Unreturned(e)
            BY <1>0, <2>7 DEF WriteFails, Unreturned, Past
        <3>3. IsFiniteSet(Busy')
            BY <1>0, <3>1, FS_RemoveElement
        <3>4. /\ openTail' => file' # <<>>
              /\ \/ Spoiled(file')
                 \/ ~Spoiled(file) /\ \A e \in Entries : ReadCount(file, e) <= ReadCount(file', e)
            BY <1>0, <2>7, CutOutcome DEF WriteFails
        <3> QED BY <3>1, <3>2, <3>3, <3>4, NothingMoreOwed DEF DurableInv
    <2> QED BY <1>3, <2>1, <2>2, <2>3, <2>4, <2>5, <2>6, <2>7 DEF ThreadStep
<1> QED BY <1>1, <1>2, <1>3 DEF Next

\* In an unspoiled file no returned append is missing.
LEMMA DurableUnlessSpoiled == TypeOK /\ DurableInv /\ ~Spoiled(file) => AppendsDurable
<1> SUFFICES ASSUME TypeOK, DurableInv, ~Spoiled(file), NEW e \in Entries
             PROVE  acked[e] <= ReadCount(file, e)
    BY DEF AppendsDurable
<1>1. Cardinality(Unreturned(e)) \in Nat /\ acked[e] \in Nat
    BY UnreturnedFinite DEF DurableInv, TypeOK
<1>2. ReadCount(file, e) \in Nat
    BY ReadCountType DEF TypeOK
<1> QED BY <1>1, <1>2 DEF DurableInv, EveryAppendCounted

\* Losses are never silent, for any number of threads and crashes, whatever writes
\* fail or are cut short: a ledger that verify_chain accepts holds every append that
\* returned, as often as it returned (hard_ledger.py:120-168, 221-268).
THEOREM LossesShow == Spec => []LossIsDetected
<1>1. TypeOK /\ DurableInv => LossIsDetected
    <2>1. ChainIntact => ~Spoiled(file)
        BY DEF ChainIntact, VerifyOk, VerifyErrors, Spoiled
    <2> QED BY <2>1, DurableUnlessSpoiled DEF LossIsDetected
<1> QED BY <1>1, DurableInit, DurableNext, Typing, PTL DEF Spec

\* Whole writes spoil nothing.
Unspoiled == ~Spoiled(file)

LEMMA NothingSpoiled ==
    ASSUME ~WriteFaults
    PROVE  Spec => []Unspoiled
<1>1. Init => Unspoiled
    BY DEF Init, Unspoiled, Spoiled
<1>2. TypeOK /\ ~openTail /\ Unspoiled /\ [Next]_vars => Unspoiled'
    <2> SUFFICES ASSUME TypeOK, ~openTail, Unspoiled, [Next]_vars PROVE Unspoiled'
        OBVIOUS
    <2>1. ASSUME NEW t \in Threads, WriteLine(t) PROVE Unspoiled'
        <3>1. file \in Seq(Line) /\ rec[t] \in Line /\ rec[t].parses
            BY <2>1 DEF TypeOK, WriteLine, Record
        <3>2. file' = Append(file, rec[t])
            BY <2>1 DEF WriteLine, Written
        <3> QED BY <3>1, <3>2 DEF Unspoiled, Spoiled
    <2>2. (\A t \in Threads : ~WriteLine(t)) => file' = file
        BY DEF Next, ThreadStep, Open, Crash, LinkRecord, HashRecord, LockFile,
           WriteFails, UnlockFile, Publish, disk, vars
    <2> QED BY <2>1, <2>2 DEF Unspoiled
<1> QED BY <1>1, <1>2, Typing, TailClosed, PTL DEF Spec

\* Durability: for any number of threads and crashes, every append that
\* returned is in the file as often as it returned, provided writes are whole.
THEOREM Durability ==
    ASSUME ~WriteFaults
    PROVE  Spec => []AppendsDurable
<1>1. TypeOK /\ DurableInv /\ Unspoiled => AppendsDurable
    BY DurableUnlessSpoiled DEF Unspoiled
<1> QED BY <1>1, DurableInit, DurableNext, NothingSpoiled, Typing, PTL DEF Spec
-------------------------------------------------------------------------------
(* The object stands for its file.  Between calls count and prev need not     *)
(* agree with the file; threads past their write make up the difference.      *)

\* The line some thread is about to publish, and the line prev came from, are stored.
Stored(h) == \E i \in DOMAIN file : file[i].chain_hash = h

ObjectInv ==
    /\ ~up => Busy = {}
    /\ up => count + Cardinality(Past) = Len(file)
    /\ \A t \in Past : Stored(rec[t].chain_hash)
    /\ up => \/ prev = Genesis /\ count = 0
             \/ Stored(prev)

LEMMA PastFinite ==
    ASSUME IsFiniteSet(Busy)
    PROVE  IsFiniteSet(Past) /\ Cardinality(Past) \in Nat
<1>1. Past \subseteq Busy
    BY DEF Past, Busy
<1> QED BY <1>1, FS_Subset, FS_CardinalityType

\* In an unspoiled file every line counts.
LEMMA EveryLineCounts ==
    ASSUME TypeOK, Unspoiled
    PROVE  Cardinality(ParsedLines(file)) = Len(file)
<1>1. Len(file) \in Nat /\ DOMAIN file = 1..Len(file)
    BY DEF TypeOK
<1>2. ParsedLines(file) = 1..Len(file)
    BY <1>1 DEF Unspoiled, Spoiled, ParsedLines
<1>3. Cardinality(1..Len(file)) = Len(file)
    <2> DEFINE n == Len(file)
    <2>1. n \in Int /\ 1 \in Int /\ n >= 0
        BY <1>1
    <2> HIDE DEF n
    <2>2. Cardinality(1..n) = IF 1 > n THEN 0 ELSE n - 1 + 1
        BY <2>1, FS_Interval
    <2>3. Cardinality(1..n) = n
        BY <2>1, <2>2
    <2> QED BY <2>3 DEF n
<1> QED BY <1>2, <1>3

LEMMA ObjectInit == Init => ObjectInv
<1> SUFFICES ASSUME Init PROVE ObjectInv
    OBVIOUS
<1>1. Busy = {} /\ Past = {}
    BY DEF Init, Busy, Past
<1> QED BY <1>1 DEF Init, ObjectInv

\* A restart takes over the whole file.
LEMMA ReopenedObject ==
    ASSUME TypeOK, Unspoiled, ObjectInv, Open
    PROVE  ObjectInv'
<1>1. /\ up' = TRUE /\ file' = file /\ count' = Len(file)
      /\ prev' = PrevHashAt(file, Len(file) + 1)
    BY EveryLineCounts DEF Open, disk
<1>2. Busy = {} /\ Past = {} /\ Past' = {}
    BY DEF Open, ObjectInv, Busy, Past
<1>3. file \in Seq(Line) /\ Len(file) \in Nat
    BY DEF TypeOK
<1>4. Cardinality(Past') = 0
    BY <1>2, FS_EmptySet
<1>5. count' + Cardinality(Past') = Len(file')
    BY <1>1, <1>3, <1>4
<1>6. prev' = IF Len(file) = 0 THEN Genesis ELSE file[Len(file)].chain_hash
    <2>1. Len(file) + 1 \in 1..(Len(file) + 1) /\ (Len(file) + 1) - 1 = Len(file)
        BY <1>3
    <2>2. \A j \in DOMAIN file : file[j].parses
        BY DEF Unspoiled, Spoiled
    <2>3. Len(file) + 1 = 1 <=> Len(file) = 0
        BY <1>3
    <2> QED BY <1>1, <1>3, <2>1, <2>2, <2>3, PrevHashOfParsed
<1>7. (prev' = Genesis /\ count' = 0) \/ Stored(prev)'
    <2>1. CASE Len(file) = 0
        BY <1>1, <1>6, <2>1
    <2>2. CASE Len(file) # 0
        <3>1. Len(file) \in DOMAIN file
            BY <1>3, <2>2
        <3> QED BY <1>1, <1>6, <2>2, <3>1 DEF Stored
    <2> QED BY <2>1, <2>2
<1> QED BY <1>1, <1>2, <1>5, <1>7 DEF ObjectInv

\* The step that writes the line moves its thread past the write.
LEMMA StoredByObject ==
    ASSUME TypeOK, ~openTail, IsFiniteSet(Busy), ObjectInv, NEW t \in Threads, WriteLine(t)
    PROVE  ObjectInv'
<1>1. /\ file \in Seq(Line) /\ rec[t] \in Line /\ file' = Append(file, rec[t])
      /\ UNCHANGED <<up, prev, count, rec>>
      /\ pc \in [Threads -> {"idle", "linked", "hashed", "locked", "written", "unlocked"}]
      /\ pc' = [pc EXCEPT ![t] = "written"] /\ pc[t] = "locked"
    BY DEF TypeOK, WriteLine, Written, Line
<1>2. Past' = Past \cup {t} /\ t \notin Past /\ Busy' = Busy
    BY <1>1 DEF Past, Busy
<1>3. IsFiniteSet(Past) /\ Cardinality(Past) \in Nat /\ Cardinality(Past') = Cardinality(Past) + 1
    BY <1>2, PastFinite, FS_AddElement
<1>4. Len(file') = Len(file) + 1 /\ file'[Len(file) + 1] = rec[t]
    BY <1>1
<1>5. \A h : Stored(h) => Stored(h)'
    <2>1. \A i \in DOMAIN file : i \in DOMAIN file' /\ file'[i] = file[i]
        BY <1>1
    <2> QED BY <2>1 DEF Stored
<1>6. Stored(rec[t].chain_hash)'
    <2>1. Len(file) + 1 \in DOMAIN file'
        BY <1>1
    <2> QED BY <1>1, <1>4, <2>1 DEF Stored
<1>7. up => count' + Cardinality(Past') = Len(file')
    <2>1. count \in Nat /\ Len(file) \in Nat /\ count' = count
        BY <1>1 DEF TypeOK
    <2>2. up => count + Cardinality(Past) = Len(file)
        BY DEF ObjectInv
    <2> QED BY <1>3, <1>4, <2>1, <2>2
<1>8. \A u \in Past' : Stored(rec[u].chain_hash)'
    BY <1>1, <1>2, <1>5, <1>6 DEF ObjectInv
<1> QED BY <1>1, <1>2, <1>5, <1>7, <1>8 DEF ObjectInv

\* Publish takes the stored hash over and counts the record.
LEMMA PublishedByObject ==
    ASSUME TypeOK, IsFiniteSet(Busy), ObjectInv, NEW t \in Threads, Publish(t)
    PROVE  ObjectInv'
<1>1. /\ UNCHANGED <<disk, up>> /\ prev' = rec[t].chain_hash /\ count' = count + 1
      /\ pc \in [Threads -> {"idle", "linked", "hashed", "locked", "written", "unlocked"}]
      /\ pc' = [pc EXCEPT ![t] = "idle"] /\ pc[t] = "unlocked"
      /\ rec \in [Threads -> Line] /\ rec' = [rec EXCEPT ![t] = Garbage]
    BY DEF TypeOK, Publish
<1>2. t \in Past /\ t \in Busy /\ Past' = Past \ {t} /\ up
    BY <1>1 DEF Past, Busy, ObjectInv
<1>3. IsFiniteSet(Past) /\ Cardinality(Past) \in Nat /\ Cardinality(Past') = Cardinality(Past) - 1
    BY <1>2, PastFinite, FS_RemoveElement
<1>4. file' = file
    BY <1>1 DEF disk
<1>5. count' + Cardinality(Past') = Len(file')
    <2>1. count \in Nat /\ Len(file) \in Nat
        BY DEF TypeOK
    <2> QED BY <1>1, <1>2, <1>3, <1>4, <2>1 DEF ObjectInv
<1>6. \A u \in Past' : Stored(rec[u].chain_hash)'
    <2>1. \A u \in Past' : u \in Past /\ rec'[u] = rec[u]
        BY <1>1, <1>2 DEF Past
    <2> QED BY <1>4, <2>1 DEF ObjectInv, Stored
<1>7. Stored(prev)'
    BY <1>1, <1>2, <1>4 DEF ObjectInv, Stored
<1> QED BY <1>1, <1>2, <1>5, <1>6, <1>7 DEF ObjectInv

\* Every step keeps it, as long as writes are whole.
LEMMA ObjectNext ==
    ASSUME ~WriteFaults
    PROVE  TypeOK /\ ~openTail /\ DurableInv /\ Unspoiled /\ ObjectInv /\ [Next]_vars => ObjectInv'
<1> SUFFICES ASSUME TypeOK, ~openTail, DurableInv, Unspoiled, ObjectInv, [Next]_vars
             PROVE  ObjectInv'
    OBVIOUS
<1>0. /\ IsFiniteSet(Busy)
      /\ pc \in [Threads -> {"idle", "linked", "hashed", "locked", "written", "unlocked"}]
      /\ rec \in [Threads -> Line]
    BY DEF DurableInv, TypeOK
\* Steps that touch neither the file nor the object, and move no thread into Past.
<1>a. ASSUME UNCHANGED <<file, up, prev, count>>, Past' = Past, ~up => Busy' = {},
             \A u \in Past : rec'[u] = rec[u]
      PROVE  ObjectInv'
    BY <1>a DEF ObjectInv, Stored
<1>1. CASE Open
    BY <1>1, ReopenedObject
<1>2. CASE Crash
    <2>1. up' = FALSE /\ Busy' = {} /\ Past' = {}
        BY <1>2 DEF Crash, Busy, Past
    <2> QED BY <2>1 DEF ObjectInv
<1>3. ASSUME NEW t \in Threads, ThreadStep(t) PROVE ObjectInv'
    <2>1. ASSUME NEW e \in Entries, LinkRecord(t, e) PROVE ObjectInv'
        <3>1. UNCHANGED <<file, up, prev, count>> /\ up /\ Past' = Past
            BY <1>0, <2>1 DEF LinkRecord, Past, disk
        <3>2. \A u \in Past : rec'[u] = rec[u]
            BY <1>0, <2>1 DEF LinkRecord, Past
        <3> QED BY <1>a, <3>1, <3>2
    <2>2. CASE HashRecord(t)
        <3>1. /\ UNCHANGED <<file, up, prev, count>> /\ Past' = Past /\ Busy' = Busy
              /\ \A u \in Past : rec'[u] = rec[u]
            BY <1>0, <2>2 DEF HashRecord, Past, Busy, disk
        <3> QED BY <1>a, <3>1 DEF ObjectInv
    <2>3. CASE LockFile(t)
        <3>1. /\ UNCHANGED <<file, up, prev, count>> /\ Past' = Past /\ Busy' = Busy
              /\ \A u \in Past : rec'[u] = rec[u]
            BY <1>0, <2>3 DEF LockFile, Past, Busy, disk
        <3> QED BY <1>a, <3>1 DEF ObjectInv
    <2>4. CASE UnlockFile(t)
        <3>1. /\ UNCHANGED <<file, up, prev, count>> /\ Past' = Past /\ Busy' = Busy
              /\ \A u \in Past : rec'[u] = rec[u]
            BY <1>0, <2>4 DEF UnlockFile, Past, Busy, disk
        <3> QED BY <1>a, <3>1 DEF ObjectInv
    <2>5. CASE WriteLine(t)
        BY <1>0, <2>5, StoredByObject
    <2>6. CASE Publish(t)
        BY <1>0, <2>6, PublishedByObject
    <2> QED BY <1>3, <2>1, <2>2, <2>3, <2>4, <2>5, <2>6 DEF ThreadStep, WriteFails
<1>4. CASE UNCHANGED vars
    <2>1. UNCHANGED <<file, up, prev, count, pc, rec>>
        BY <1>4 DEF vars, disk
    <2>2. Past' = Past /\ Busy' = Busy
        BY <2>1 DEF Past, Busy
    <2> QED BY <1>a, <2>1, <2>2 DEF ObjectInv
<1> QED BY <1>1, <1>2, <1>3, <1>4 DEF Next

\* With no call in progress the object agrees with its file, for any number of
\* threads and crashes, provided writes are whole (hard_ledger.py:92-168): count is
\* what a reload would count, and the next record links to a hash that is stored.
THEOREM ObjectAgrees ==
    ASSUME ~WriteFaults
    PROVE  Spec => []ObjectMatchesFile
<1>1. TypeOK /\ Unspoiled /\ ObjectInv => ObjectMatchesFile
    <2> SUFFICES ASSUME TypeOK, Unspoiled, ObjectInv, up, \A t \in Threads : pc[t] = "idle"
                 PROVE  /\ count = Cardinality(ParsedLines(file))
                        /\ \/ file = <<>> /\ prev = Genesis
                           \/ \E i \in DOMAIN file : file[i].chain_hash = prev
        BY DEF ObjectMatchesFile
    <2>1. Past = {}
        BY DEF Past
    <2>2. file \in Seq(Line) /\ count \in Nat
        BY DEF TypeOK
    <2>3. count = Len(file)
        BY <2>1, <2>2, FS_EmptySet DEF ObjectInv
    <2>4. count = 0 => file = <<>>
        BY <2>2, <2>3, EmptySeq
    <2> QED BY <2>3, <2>4, EveryLineCounts DEF ObjectInv, Stored
<1> QED BY <1>1, ObjectInit, ObjectNext, DurableInit, DurableNext, NothingSpoiled, Typing,
           TailClosed, PTL DEF Spec
-------------------------------------------------------------------------------
(* Edits of a stored ledger show, for every ledger that verifies.            *)

\* The chain hash before a line depends on the lines before it only.
LEMMA PrevHashLocal ==
    ASSUME NEW f, NEW g, NEW i \in Nat, \A j \in 1..(i - 1) : g[j] = f[j]
    PROVE  PrevHashAt(g, i) = PrevHashAt(f, i)
<1> DEFINE good == {j \in 1..(i - 1) : f[j].parses}
           last == CHOOSE j \in good : \A k \in good : k <= j
<1>1. {j \in 1..(i - 1) : g[j].parses} = good
    OBVIOUS
<1>2. CASE good = {}
    BY <1>1, <1>2 DEF PrevHashAt
<1>3. CASE good # {}
    <2>1. PrevHashAt(f, i) = f[last].chain_hash
        BY <1>3 DEF PrevHashAt
    <2>2. PrevHashAt(g, i) = g[last].chain_hash
        BY <1>1, <1>3 DEF PrevHashAt
    <2>3. \E j \in good : \A k \in good : k <= j
        BY <1>3, LastPosition
    <2>4. last \in good
        BY <2>3
    <2>5. g[last] = f[last]
        BY <2>4
    <2> QED BY <2>1, <2>2, <2>5
<1> QED BY <1>2, <1>3

\* A chain hash is longer than the one it was computed from.
LEMMA ChainHashGrows ==
    ASSUME NEW h \in Hash, NEW e \in Entries
    PROVE  /\ ChainHash(h, e) # h
           /\ \A d \in Entries : ChainHash(h, d) = ChainHash(h, e) => d = e
BY AppendProperties DEF ChainHash, Hash

\* What verify_chain has found out about each line of a ledger it accepts.
LEMMA Verified ==
    ASSUME NEW f \in Seq(Line), VerifyOk(f), NEW i \in DOMAIN f
    PROVE  /\ f[i] \in Record
           /\ f[i].prev_chain_hash = PrevHashAt(f, i)
           /\ f[i].entry_hash = f[i].body
           /\ f[i].chain_hash = ChainHash(PrevHashAt(f, i), f[i].entry_hash)
           /\ PrevHashAt(f, i) \in Hash
<1>1. f[i] \in Line /\ f[i].parses /\ i \in 1..Len(f) /\ Len(f) \in Nat
    BY DEF VerifyOk, VerifyErrors
<1>2. f[i] \in Record
    BY <1>1 DEF Line, Garbage
<1>3. PrevHashAt(f, i) \in Hash
    BY <1>1, PrevHashType
<1> QED BY <1>2, <1>3 DEF VerifyOk, VerifyErrors

\* A line that is not linked to what comes before it is an error.
LEMMA Misfit ==
    ASSUME NEW g, NEW i \in DOMAIN g,
           \/ g[i].prev_chain_hash # PrevHashAt(g, i)
           \/ g[i].entry_hash # g[i].body
           \/ g[i].chain_hash # ChainHash(PrevHashAt(g, i), g[i].entry_hash)
    PROVE  ~VerifyOk(g)
BY DEF VerifyOk, VerifyErrors

\* The line after one links to what that one was computed with, and is out of
\* place anywhere before it.
LEMMA SuccessorMisplaced ==
    ASSUME NEW f \in Seq(Line), VerifyOk(f), NEW i \in DOMAIN f, i < Len(f)
    PROVE  f[i + 1].prev_chain_hash # PrevHashAt(f, i)
<1>1. i \in 1..Len(f) /\ i + 1 \in DOMAIN f /\ Len(f) \in Nat
    OBVIOUS
<1>2. \A j \in DOMAIN f : f[j].parses
    BY DEF VerifyOk, VerifyErrors
<1>3. PrevHashAt(f, i + 1) = f[i].chain_hash
    <2>1. i + 1 \in 1..(Len(f) + 1) /\ i + 1 # 1 /\ (i + 1) - 1 = i
        BY <1>1
    <2> QED BY <1>2, <2>1, PrevHashOfParsed
<1>4. f[i + 1].prev_chain_hash = ChainHash(PrevHashAt(f, i), f[i].entry_hash)
    BY <1>1, <1>3, Verified
<1>5. PrevHashAt(f, i) \in Hash /\ f[i].entry_hash \in Entries
    BY Verified DEF Record
<1> QED BY <1>4, <1>5, ChainHashGrows

\* A body is replaced and its entry hash is not.
LEMMA BodyEditShows ==
    ASSUME NEW f \in Seq(Line), VerifyOk(f), NEW i \in DOMAIN f, NEW e \in Entries \ {f[i].body}
    PROVE  ~VerifyOk([f EXCEPT ![i].body = e])
<1> DEFINE g == [f EXCEPT ![i].body = e]
<1>1. f[i] \in Record /\ f[i].entry_hash = f[i].body
    BY Verified
<1>2. i \in DOMAIN g /\ g[i] = [f[i] EXCEPT !.body = e]
    OBVIOUS
<1>3. g[i].entry_hash = f[i].entry_hash /\ g[i].body = e
    BY <1>1, <1>2 DEF Record
<1> HIDE DEF g
<1>4. ~VerifyOk(g)
    BY <1>1, <1>2, <1>3, Misfit
<1> QED BY <1>4 DEF g

\* A body is replaced together with its entry hash.
LEMMA RecordEditShows ==
    ASSUME NEW f \in Seq(Line), VerifyOk(f), NEW i \in DOMAIN f, NEW e \in Entries \ {f[i].body}
    PROVE  ~VerifyOk([f EXCEPT ![i].body = e, ![i].entry_hash = e])
<1> DEFINE g == [f EXCEPT ![i].body = e, ![i].entry_hash = e]
<1>1. /\ f[i] \in Record /\ f[i].entry_hash = f[i].body /\ PrevHashAt(f, i) \in Hash
      /\ f[i].chain_hash = ChainHash(PrevHashAt(f, i), f[i].entry_hash)
    BY Verified
<1>2. i \in DOMAIN g /\ g[i] = [f[i] EXCEPT !.body = e, !.entry_hash = e]
    OBVIOUS
<1>3. g[i].entry_hash = e /\ g[i].chain_hash = f[i].chain_hash
    BY <1>1, <1>2 DEF Record
<1>4. i \in Nat /\ \A j \in 1..(i - 1) : g[j] = f[j]
    OBVIOUS
<1> HIDE DEF g
<1>5. PrevHashAt(g, i) = PrevHashAt(f, i)
    BY <1>4, PrevHashLocal
<1>6. f[i].entry_hash \in Entries /\ f[i].entry_hash # e
    BY <1>1 DEF Record
<1>7. ChainHash(PrevHashAt(f, i), e) # ChainHash(PrevHashAt(f, i), f[i].entry_hash)
    BY <1>1, <1>6, ChainHashGrows
<1>8. ~VerifyOk(g)
    BY <1>1, <1>2, <1>3, <1>5, <1>7, Misfit
<1> QED BY <1>8 DEF g

\* A record that is not the last is dropped.
LEMMA DropShows ==
    ASSUME NEW f \in Seq(Line), VerifyOk(f), NEW i \in DOMAIN f, i < Len(f)
    PROVE  ~VerifyOk(SubSeq(f, 1, i - 1) \o SubSeq(f, i + 1, Len(f)))
<1> DEFINE a == SubSeq(f, 1, i - 1)
           b == SubSeq(f, i + 1, Len(f))
           g == a \o b
<1>1. i \in Nat /\ Len(f) \in Nat /\ 1 <= i
    OBVIOUS
<1>2. a \in Seq(Line) /\ Len(a) = i - 1 /\ \A j \in 1..(i - 1) : a[j] = f[j]
    BY <1>1, SubSeqProperties
<1>3. b \in Seq(Line) /\ Len(b) = Len(f) - i /\ b[1] = f[i + 1]
    BY <1>1, SubSeqProperties
<1> HIDE DEF a, b
<1>4. /\ i \in DOMAIN g /\ g[i] = f[i + 1]
      /\ \A j \in 1..(i - 1) : g[j] = f[j]
    <2>1. g \in Seq(Line) /\ Len(g) = Len(a) + Len(b)
        BY <1>2, <1>3, ConcatProperties, Zenon
    <2>2. \A j \in 1..(Len(a) + Len(b)) : g[j] = IF j <= Len(a) THEN a[j] ELSE b[j - Len(a)]
        BY <1>2, <1>3, ConcatProperties, Zenon
    <2>3. i \in 1..(Len(a) + Len(b)) /\ ~(i <= Len(a)) /\ i - Len(a) = 1
        BY <1>1, <1>2, <1>3
    <2>4. \A j \in 1..(i - 1) : j \in 1..(Len(a) + Len(b)) /\ j <= Len(a)
        BY <1>1, <1>2, <1>3
    <2> HIDE DEF g
    <2>5. g[i] = f[i + 1]
        BY <1>3, <2>2, <2>3
    <2>6. \A j \in 1..(i - 1) : g[j] = f[j]
        BY <1>2, <2>2, <2>4
    <2> QED BY <2>1, <2>3, <2>5, <2>6
<1>5. PrevHashAt(g, i) = PrevHashAt(f, i)
    BY <1>1, <1>4, PrevHashLocal
<1>6. ~VerifyOk(g)
    BY <1>4, <1>5, SuccessorMisplaced, Misfit
<1> QED BY <1>6 DEF g, a, b

\* Two neighbouring records are exchanged.
LEMMA ExchangeShows ==
    ASSUME NEW f \in Seq(Line), VerifyOk(f), NEW i \in DOMAIN f, i < Len(f)
    PROVE  ~VerifyOk([f EXCEPT ![i] = f[i + 1], ![i + 1] = f[i]])
<1> DEFINE g == [f EXCEPT ![i] = f[i + 1], ![i + 1] = f[i]]
<1>1. i \in Nat /\ i \in DOMAIN g /\ g[i] = f[i + 1] /\ \A j \in 1..(i - 1) : g[j] = f[j]
    OBVIOUS
<1> HIDE DEF g
<1>2. PrevHashAt(g, i) = PrevHashAt(f, i)
    BY <1>1, PrevHashLocal
<1>3. ~VerifyOk(g)
    BY <1>1, <1>2, SuccessorMisplaced, Misfit
<1> QED BY <1>3 DEF g

\* verify_chain finds every single edit of a ledger that verifies, of any length:
\* a replaced body, with or without its entry hash, a dropped record that is not
\* the last, and an exchange of neighbours.
THEOREM EditsShow == Spec => []EditsDetected
<1>1. TypeOK => EditsDetected
    <2> SUFFICES ASSUME TypeOK, VerifyOk(file), NEW i \in DOMAIN file
                 PROVE  /\ \A e \in Entries \ {file[i].body} :
                              /\ ~VerifyOk([file EXCEPT ![i].body = e])
                              /\ ~VerifyOk([file EXCEPT ![i].body = e, ![i].entry_hash = e])
                        /\ i < Len(file) =>
                              /\ ~VerifyOk(SubSeq(file, 1, i - 1) \o SubSeq(file, i + 1, Len(file)))
                              /\ ~VerifyOk([file EXCEPT ![i] = file[i + 1], ![i + 1] = file[i]])
        BY DEF EditsDetected, ChainIntact
    <2>1. file \in Seq(Line)
        BY DEF TypeOK
    <2> QED BY <2>1, BodyEditShows, RecordEditShows, DropShows, ExchangeShows
<1> QED BY <1>1, Typing, PTL
===============================================================================
