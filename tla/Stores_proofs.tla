---------------------------- MODULE Stores_proofs ----------------------------
(***************************************************************************)
(* The parts that keep what they know in files or tables, for any number   *)
(* of entries, threads, runs and lines: the replay of the ledger and the   *)
(* hash chain, the cassette of the LLM service, the learner's tables, and  *)
(* the memory of the kernel.                                               *)
(***************************************************************************)
EXTENDS LedgerReplay, Cassettes, LearnerStore, KernelMemory, SequenceTheorems, FiniteSetTheorems,
        TLAPS

-----------------------------------------------------------------------------
(* Sequences that grow by one. *)

LEMMA Grows ==
  ASSUME NEW S, NEW s \in Seq(S), NEW x \in S
  PROVE  /\ Append(s, x) \in Seq(S) /\ Len(Append(s, x)) = Len(s) + 1 /\ Len(s) \in Nat
         /\ DOMAIN s = 1..Len(s) /\ DOMAIN Append(s, x) = 1..(Len(s) + 1)
         /\ Append(s, x)[Len(s) + 1] = x
         /\ \A i \in 1..Len(s) : Append(s, x)[i] = s[i]
OBVIOUS

LEMMA LastDiffers ==
  ASSUME NEW S, NEW s \in Seq(S), NEW x \in S, NEW y \in S, x # y
  PROVE  Append(s, x) # Append(s, y)
<1>1. Append(s, x)[Len(s) + 1] = x /\ Append(s, y)[Len(s) + 1] = y
  BY Grows
<1>. QED  BY <1>1

LEMMA InitialSize ==
  ASSUME NEW n \in Nat PROVE IsFiniteSet(1..n) /\ Cardinality(1..n) = n
BY FS_Interval, n \in Int, 1 \in Int, SMT

-----------------------------------------------------------------------------
(* The hash chain *)

Hashed == Bodies \cup (Bodies \X (1..MaxChain))
ChainEntries == [content : Bodies, prev : Seq(Hashed), hash : Seq(Hashed)]

\* Entries are linked, and those that do not commit to their content are the touched ones.
ChainOK(entries, edited) ==
    /\ entries \in Seq(ChainEntries)
    /\ Len(entries) <= MaxChain
    /\ edited \subseteq 1..Len(entries)
    /\ \A i \in 1..Len(entries) :
           /\ entries[i].prev = HashAt(entries, i - 1)
           /\ entries[i].hash = Append(entries[i].prev, entries[i].content) <=> i \notin edited

Verdicts == {"APPROVE", "REJECT"}
LedgerLines ==
    {l \in [run : Runs, event : BOOLEAN, decision : Verdicts, outcome : BOOLEAN,
            prev : Seq(Runs), hash : Seq(Runs), entry : Runs, torn : BOOLEAN] :
        /\ l.torn \/ l.hash = Append(l.prev, l.entry)
        /\ l.decision = "APPROVE" => l.outcome}

ReplayInv ==
    /\ lines \in Seq(LedgerLines)
    /\ ChainOK(chain, touched)
    /\ chainFile.whole => ChainOK(chainFile.entries, chainFile.touched)

LEMMA HashTyped ==
  ASSUME NEW entries \in Seq(ChainEntries), NEW i \in 0..Len(entries)
  PROVE  HashAt(entries, i) \in Seq(Hashed)
<1>1. CASE i = 0
  BY <1>1 DEF HashAt
<1>2. CASE i # 0
  <2>1. entries[i] \in ChainEntries
    BY <1>2
  <2>. QED  BY <1>2, <2>1 DEF HashAt, ChainEntries
<1>. QED  BY <1>1, <1>2

\* What an entry with a hash of its content, or of its content and marks, adds.
LEMMA ChainGrows ==
  ASSUME NEW entries, NEW edited, ChainOK(entries, edited), Len(entries) < MaxChain,
         NEW b \in Bodies, NEW h \in Hashed, NEW more \in SUBSET {Len(entries) + 1},
         h = b <=> more = {}
  PROVE  ChainOK(Append(entries, ChainEntry(h, b, HeadOf(entries))), edited \cup more)
<1> DEFINE n == Len(entries)
           head == HeadOf(entries)
           e == ChainEntry(h, b, head)
           longer == Append(entries, e)
<1>1. entries \in Seq(ChainEntries) /\ n \in Nat /\ edited \subseteq 1..n
  BY DEF ChainOK
<1>2. head \in Seq(Hashed)
  BY <1>1, HashTyped, n \in 0..n DEF HeadOf
<1>3. b \in Hashed
  BY DEF Hashed
<1> HIDE DEF head
<1>4. e \in ChainEntries /\ e.content = b /\ e.prev = head /\ e.hash = Append(head, h)
  BY <1>2 DEF ChainEntry, ChainEntries
<1>5. e.hash = Append(e.prev, e.content) <=> h = b
  BY <1>2, <1>3, <1>4, LastDiffers
<1> HIDE DEF e
<1>6. /\ longer \in Seq(ChainEntries) /\ Len(longer) = n + 1 /\ longer[n + 1] = e
      /\ \A i \in 1..n : longer[i] = entries[i]
  BY <1>1, <1>4, Grows
<1> HIDE DEF longer
<1>7. \A i \in 0..n : HashAt(longer, i) = HashAt(entries, i)
  BY <1>6 DEF HashAt
<1>8. ASSUME NEW i \in 1..(n + 1)
      PROVE  /\ longer[i].prev = HashAt(longer, i - 1)
             /\ longer[i].hash = Append(longer[i].prev, longer[i].content) <=> i \notin edited \cup more
  <2>1. CASE i = n + 1
    <3>1. longer[i].prev = HashAt(longer, i - 1)
      BY <1>1, <1>4, <1>6, <1>7, <2>1, n + 1 - 1 = n, n \in 0..n DEF HeadOf, head
    <3>2. i \in more <=> ~(more = {})
      BY <2>1
    <3>3. i \notin edited
      BY <1>1, <2>1
    <3>. QED  BY <1>5, <1>6, <2>1, <3>1, <3>2, <3>3, Zenon
  <2>2. CASE i # n + 1
    <3>1. i \in 1..n /\ i - 1 \in 0..n /\ i \notin more
      BY <1>1, <2>2
    <3>2. /\ entries[i].prev = HashAt(entries, i - 1)
          /\ entries[i].hash = Append(entries[i].prev, entries[i].content) <=> i \notin edited
      BY <3>1 DEF ChainOK
    <3>3. longer[i] = entries[i] /\ HashAt(longer, i - 1) = HashAt(entries, i - 1)
      BY <1>6, <1>7, <3>1
    <3>. QED  BY <3>1, <3>2, <3>3, Zenon
  <2>. QED  BY <2>1, <2>2
<1>9. edited \cup more \subseteq 1..(n + 1) /\ n + 1 <= MaxChain
  BY <1>1, ReplayAssumption
<1>. QED  BY <1>6, <1>8, <1>9 DEF ChainOK, longer, e, head

LEMMA ChainEdited ==
  ASSUME NEW entries, NEW edited, ChainOK(entries, edited),
         NEW i \in DOMAIN entries, NEW b \in Bodies, b # entries[i].content, i \notin edited
  PROVE  ChainOK([entries EXCEPT ![i].content = b], edited \cup {i})
<1> DEFINE n == Len(entries)
           e == [entries[i] EXCEPT !.content = b]
           changed == [entries EXCEPT ![i].content = b]
<1>1. entries \in Seq(ChainEntries) /\ n \in Nat /\ edited \subseteq 1..n /\ i \in 1..n
  BY DEF ChainOK
<1>2. entries[i] \in ChainEntries
  BY <1>1
<1>3. e \in ChainEntries /\ e.content = b /\ e.prev = entries[i].prev /\ e.hash = entries[i].hash
  BY <1>2 DEF ChainEntries
<1>4. changed = [entries EXCEPT ![i] = e]
  OBVIOUS
<1>5. e.hash # Append(e.prev, e.content)
  <2>1. entries[i].hash = Append(entries[i].prev, entries[i].content)
    BY <1>1 DEF ChainOK
  <2>2. entries[i].prev \in Seq(Hashed) /\ entries[i].content \in Hashed /\ b \in Hashed
    BY <1>2 DEF ChainEntries, Hashed
  <2>. QED  BY <1>3, <2>1, <2>2, LastDiffers
<1> HIDE DEF e, changed
<1>6. /\ changed \in Seq(ChainEntries) /\ Len(changed) = n /\ changed[i] = e
      /\ \A j \in 1..n : j # i => changed[j] = entries[j]
  BY <1>1, <1>3, <1>4
<1>7. \A j \in 0..n : HashAt(changed, j) = HashAt(entries, j)
  BY <1>3, <1>6 DEF HashAt
<1>8. ASSUME NEW j \in 1..n
      PROVE  /\ changed[j].prev = HashAt(changed, j - 1)
             /\ changed[j].hash = Append(changed[j].prev, changed[j].content) <=> j \notin edited \cup {i}
  <2>1. /\ entries[j].prev = HashAt(entries, j - 1)
        /\ entries[j].hash = Append(entries[j].prev, entries[j].content) <=> j \notin edited
    BY DEF ChainOK
  <2>2. HashAt(changed, j - 1) = HashAt(entries, j - 1)
    BY <1>1, <1>7, j - 1 \in 0..n
  <2>3. CASE j = i
    BY <1>3, <1>5, <1>6, <2>1, <2>2, <2>3, Zenon
  <2>4. CASE j # i
    BY <1>6, <2>1, <2>2, <2>4, Zenon
  <2>. QED  BY <2>3, <2>4
<1>9. edited \cup {i} \subseteq 1..n /\ n <= MaxChain
  BY <1>1 DEF ChainOK
<1>. QED  BY <1>6, <1>8, <1>9 DEF ChainOK, changed

LEMMA EmptyChain == ChainOK(<<>>, {})
BY ReplayAssumption DEF ChainOK

LEMMA LineWritten ==
  ASSUME lines \in Seq(LedgerLines), NEW r \in Runs, NEW event \in BOOLEAN, NEW decision \in Verdicts,
         WriteLedgerRecord(r, event, decision)
  PROVE  lines' \in Seq(LedgerLines)
<1>1. PICK linked \in 0..Len(lines), hashed \in 0..Len(lines) :
          lines' = Append(lines, [run |-> r, event |-> event, decision |-> decision,
                                  outcome |-> decision = "APPROVE", prev |-> HashAt(lines, linked),
                                  hash |-> Append(HashAt(lines, hashed), r), entry |-> r,
                                  torn |-> linked # hashed])
  BY DEF WriteLedgerRecord
<1>2. ASSUME NEW n \in 0..Len(lines) PROVE HashAt(lines, n) \in Seq(Runs)
  <2>1. CASE n = 0
    BY <2>1 DEF HashAt
  <2>2. CASE n # 0
    <3>1. lines[n] \in LedgerLines
      BY <2>2
    <3>. QED  BY <2>2, <3>1 DEF HashAt, LedgerLines
  <2>. QED  BY <2>1, <2>2
<1> DEFINE p == HashAt(lines, linked)
           h == Append(HashAt(lines, hashed), r)
           o == decision = "APPROVE"
           t == linked # hashed
           l == [run |-> r, event |-> event, decision |-> decision, outcome |-> o,
                 prev |-> p, hash |-> h, entry |-> r, torn |-> t]
<1>3. o \in BOOLEAN /\ (decision = "APPROVE" => o) /\ t \in BOOLEAN /\ (t \/ h = Append(p, r))
  BY Zenon
<1>4. p \in Seq(Runs) /\ h \in Seq(Runs)
  BY <1>2
<1> HIDE DEF p, h, o, t
<1>5. /\ l \in [run : Runs, event : BOOLEAN, decision : Verdicts, outcome : BOOLEAN,
                prev : Seq(Runs), hash : Seq(Runs), entry : Runs, torn : BOOLEAN]
      /\ l.hash = h /\ l.prev = p /\ l.entry = r /\ l.decision = decision
  BY <1>3, <1>4
<1>6. l.outcome = o /\ l.torn = t
  BY Zenon
<1> HIDE DEF l
<1>7. l \in LedgerLines
  <2>1. l.torn \/ l.hash = Append(l.prev, l.entry)
    BY <1>3, <1>5, <1>6, Zenon
  <2>2. l.decision = "APPROVE" => l.outcome
    BY <1>3, <1>5, <1>6, Zenon
  <2>. QED  BY <1>5, <2>1, <2>2, Zenon DEF LedgerLines
<1>8. lines' = Append(lines, l)
  BY <1>1 DEF l, o, p, h, t
<1>. QED  BY <1>7, <1>8

LEMMA ReplayKeeps == ReplayInv /\ [ReplayNext]_replayVars => ReplayInv'
<1>. SUFFICES ASSUME ReplayInv, [ReplayNext]_replayVars PROVE ReplayInv'
  OBVIOUS
<1>1. lines \in Seq(LedgerLines) /\ ChainOK(chain, touched) /\ chain \in Seq(ChainEntries)
  BY DEF ReplayInv, ChainOK
<1>2. chainFile.whole => ChainOK(chainFile.entries, chainFile.touched)
  BY DEF ReplayInv
<1>3. ASSUME NEW r \in Runs, NEW event \in BOOLEAN, NEW decision \in Verdicts,
             WriteLedgerRecord(r, event, decision)
      PROVE  ReplayInv'
  <2>1. lines' \in Seq(LedgerLines)
    BY <1>1, <1>3, LineWritten
  <2>2. UNCHANGED <<chain, chainFile, touched>>
    BY <1>3 DEF WriteLedgerRecord
  <2>. QED  BY <1>1, <1>2, <2>1, <2>2 DEF ReplayInv
<1>4. ASSUME NEW b \in Bodies, ChainAppend(b)
      PROVE  ReplayInv'
  <2>1. ChainOK(chain', touched \cup {})
    BY <1>1, <1>4, ChainGrows, b \in Hashed, {} \in SUBSET {Len(chain) + 1} DEF ChainAppend, Hashed
  <2>2. ChainOK(chain', touched') /\ UNCHANGED <<lines, chainFile>>
    BY <1>4, <2>1, touched \cup {} = touched DEF ChainAppend
  <2>. QED  BY <1>1, <1>2, <2>2 DEF ReplayInv
<1>5. ASSUME NEW i \in DOMAIN chain, AppendEntry(i)
      PROVE  ReplayInv'
  <2> DEFINE b == chain[i].content
             h == <<chain[i].content, i>>
  <2>1. b \in Bodies /\ i \in 1..MaxChain
    <3>1. chain[i] \in ChainEntries
      BY <1>1
    <3>2. i \in 1..Len(chain) /\ Len(chain) <= MaxChain /\ Len(chain) \in Nat /\ MaxChain \in Nat
      BY <1>1, ReplayAssumption DEF ChainOK
    <3>. QED  BY <3>1, <3>2 DEF ChainEntries
  <2>2. h \in Hashed /\ h # b
    BY <2>1, ReplayAssumption DEF Hashed
  <2>3. /\ Len(chain) < MaxChain /\ chain' = Append(chain, ChainEntry(h, b, HeadOf(chain)))
        /\ touched' = touched \cup {Len(chain) + 1} /\ UNCHANGED <<lines, chainFile>>
    BY <1>5 DEF AppendEntry
  <2> HIDE DEF h, b
  <2>4. ChainOK(chain', touched')
    BY <1>1, <2>1, <2>2, <2>3, ChainGrows, {Len(chain) + 1} # {}
  <2>. QED  BY <1>1, <1>2, <2>3, <2>4 DEF ReplayInv
<1>6. ASSUME NEW i \in DOMAIN chain, NEW b \in Bodies, EditEntry(i, b)
      PROVE  ReplayInv'
  <2>1. ChainOK(chain', touched') /\ UNCHANGED <<lines, chainFile>>
    BY <1>1, <1>6, ChainEdited DEF EditEntry
  <2>. QED  BY <1>1, <1>2, <2>1 DEF ReplayInv
<1>7. CASE SaveChain
  BY <1>1, <1>7 DEF SaveChain, ReplayInv
<1>8. CASE RestartChain
  <2>1. chainFile' = chainFile \/ chainFile' = [chainFile EXCEPT !.whole = FALSE]
    BY <1>8, Zenon DEF RestartChain
  <2>2. chainFile'.whole => chainFile' = chainFile
    <3>1. ASSUME NEW f, NEW g, g = [f EXCEPT !.whole = FALSE] /\ g.whole PROVE g = f
      BY <3>1
    <3>. QED  BY <2>1, <3>1, Zenon
  <2>3. chainFile'.whole => ChainOK(chainFile'.entries, chainFile'.touched)
    BY <1>2, <2>2, Zenon
  <2>4. ChainOK(chain', touched')
    <3>1. CASE chainFile'.whole
      BY <1>8, <2>3, <3>1, Zenon DEF RestartChain
    <3>2. CASE ~chainFile'.whole
      BY <1>8, <3>2, EmptyChain, Zenon DEF RestartChain
    <3>. QED  BY <3>1, <3>2
  <2>. QED  BY <1>1, <1>8, <2>3, <2>4, Zenon DEF RestartChain, ReplayInv
<1>9. CASE UNCHANGED replayVars
  BY <1>9, <1>1, <1>2, Zenon DEF ReplayInv, replayVars
<1>. QED  BY <1>3, <1>4, <1>5, <1>6, <1>7, <1>8, <1>9 DEF ReplayNext, Verdicts

LEMMA ReplayShows == ReplayInv => ReplayFaithful
<1>. SUFFICES ASSUME ReplayInv PROVE ReplayFaithful
  OBVIOUS
<1>1. ASSUME NEW r \in Runs PROVE \A i \in Diverging(r) : lines[i].torn
  <2>1. SUFFICES ASSUME NEW i \in KernelRecords(r), ~lines[i].torn
                 PROVE  /\ Linked(r, i)
                        /\ lines[i].decision \in {"APPROVE", "REJECT"}
                        /\ lines[i].decision = "APPROVE" => lines[i].outcome
    BY <2>1, Zenon DEF Diverging
  <2>2. i \in DOMAIN lines
    BY DEF KernelRecords
  <2>3. lines[i] \in LedgerLines
    BY <2>2 DEF ReplayInv
  <2>4. r # "all"
    BY ReplayAssumption, Zenon
  <2>5. lines[i].hash = Append(lines[i].prev, lines[i].entry)
    BY <2>1, <2>3, Zenon DEF LedgerLines
  <2>6. lines[i].decision = "APPROVE" => lines[i].outcome
    BY <2>3, Zenon DEF LedgerLines
  <2>7. lines[i].decision \in Verdicts
    BY <2>3 DEF LedgerLines
  <2>. QED  BY <2>4, <2>5, <2>6, <2>7, Zenon DEF Linked, Verdicts
<1>2. Invalid(chain) = touched
  <2>1. chain \in Seq(ChainEntries) /\ touched \subseteq 1..Len(chain) /\ DOMAIN chain = 1..Len(chain)
    BY DEF ReplayInv, ChainOK
  <2>2. ASSUME NEW i \in 1..Len(chain)
        PROVE  chain[i].prev # HashAt(chain, i - 1)
                 \/ chain[i].hash # Append(HashAt(chain, i - 1), chain[i].content) <=> i \in touched
    <3>1. /\ chain[i].prev = HashAt(chain, i - 1)
          /\ chain[i].hash = Append(chain[i].prev, chain[i].content) <=> i \notin touched
      BY DEF ReplayInv, ChainOK
    <3>. QED  BY <3>1, Zenon
  <2>. QED  BY <2>1, <2>2, Zenon DEF Invalid
<1>. QED  BY <1>1, <1>2 DEF ReplayFaithful, FirstInvalid

\* Any number of runs, lines and entries: replaying one run of an unedited ledger
\* finds a divergence only at a record between whose two reads of the head another
\* thread published, and verify finds fault with the first entry of the chain that
\* was altered or hashed with marks, and with one at all whenever there is one.
THEOREM Replays == ReplaySpec => []ReplayFaithful
<1>1. ReplayInit => ReplayInv
  <2>. SUFFICES ASSUME ReplayInit PROVE ReplayInv
    OBVIOUS
  <2>1. lines \in Seq(LedgerLines)
    BY DEF ReplayInit
  <2>2. ~chainFile.whole
    BY DEF ReplayInit
  <2>. QED  BY <2>1, <2>2, EmptyChain, Zenon DEF ReplayInit, ReplayInv
<1>. QED  BY <1>1, ReplayKeeps, ReplayShows, PTL DEF ReplaySpec

-----------------------------------------------------------------------------
(* The cassette *)

TapeLines == [key : Prompts, serial : Nat, whole : BOOLEAN]
ChatStates ==
    [pc : {"idle", "given", "append", "truncate", "rewrite", "write"}, keys : SUBSET Prompts,
     given : Nat, keep : Seq(TapeLines), from : Seq(TapeLines)]

\* What a trim keeps at least.
Least == MaxRecords - MaxRecords \div 5

\* All lines after the p-th are newer than answer r, and this one is its line or enough follow.
AccountsFrom(s, r, p) ==
    /\ \A j \in (p + 1)..Len(s) : s[j].serial > r
    /\ \/ p > 0 /\ s[p].whole /\ s[p].serial = r
       \/ Len(s) - p >= Least
Accounts(s, r) == \E p \in 0..Len(s) : AccountsFrom(s, r, p)
AllAccounted(s) == \A r \in 1..recorded \ joined : Accounts(s, r)

Rewrites(t) == chat[t].pc = "rewrite"

\* Either nobody rewrites and the tape accounts for every answer; or one thread does, to
\* an empty tape, and what it kept accounts for them; or no undamaged end is in reach.
TapeSound ==
    \/ (\A t \in Chats : ~Rewrites(t)) /\ AllAccounted(tape)
    \/ \E t \in Chats : /\ Rewrites(t) /\ tape = <<>>
                        /\ \A u \in Chats : Rewrites(u) => u = t
                        /\ AllAccounted(chat[t].keep)
    \/ \E t, u \in Chats : t # u /\ Rewrites(t) /\ Rewrites(u)
    \/ tape # <<>> /\ \E t \in Chats : Rewrites(t)

Serves(x) ==
    /\ x \in ChatStates
    /\ x.pc \in {"append", "truncate", "rewrite", "write"} => x.keys # {}
    /\ x.pc = "truncate" => x.keep = Kept(x.from) /\ Len(x.from) >= MaxRecords
    /\ x.pc = "rewrite" => x.keep # <<>>

\* A line without its newline is the one of an answer nobody was given.
CutIsNew == cut => /\ tape # <<>> /\ tape[Len(tape)].serial > recorded
                   /\ \A t \in Chats : ~Rewrites(t)

ChatsServed == chat \in [Chats -> ChatStates] /\ \A t \in Chats : Serves(chat[t])

CassetteInv ==
    /\ tape \in Seq(TapeLines) /\ recorded \in Nat
    /\ ChatsServed
    /\ CutIsNew
    /\ ~damaged => TapeSound

LEMMA LeastFact ==
  ASSUME NEW n \in Nat, n >= MaxRecords
  PROVE  /\ n \div 5 \in 0..n /\ n - n \div 5 >= Least /\ n \div 5 < n /\ Least \in Nat
BY CassetteAssumption, SMT DEF Least

LEMMA TrimKeeps ==
  ASSUME NEW s \in Seq(TapeLines), Len(s) >= MaxRecords
  PROVE  /\ Kept(s) \in Seq(TapeLines) /\ Kept(s) # <<>>
         /\ \A r \in Nat : Accounts(s, r) => Accounts(Kept(s), r)
<1> DEFINE n == Len(s)
           d == n \div 5
           k == Kept(s)
<1>1. n \in Nat /\ d \in 0..n /\ n - d >= Least /\ d < n /\ Least \in Nat
  BY LeastFact
<1>2. \A i \in (d + 1)..n : s[i] \in TapeLines
  BY <1>1
<1>3. k = SubSeq(s, d + 1, n)
  BY DEF Kept
<1> HIDE DEF n, d, k
<1>4. /\ k \in Seq(TapeLines) /\ Len(k) = n - d
      /\ \A i \in 1..(n - d) : k[i] = s[d + i]
  <2> DEFINE m == d + 1
  <2>1. m \in Int /\ n \in Int /\ n - m + 1 = n - d /\ m <= n
    BY <1>1
  <2>2. \A i \in 1..(n - d) : m + i - 1 = d + i
    BY <1>1
  <2>3. \A i \in m..n : s[i] \in TapeLines
    BY <1>2
  <2>4. k = SubSeq(s, m, n)
    BY <1>3
  <2> HIDE DEF m
  <2>5. /\ k \in Seq(TapeLines)
        /\ Len(k) = IF m <= n THEN n - m + 1 ELSE 0
        /\ \A i \in 1..(n - m + 1) : k[i] = s[m + i - 1]
    BY <2>1, <2>3, <2>4, SubSeqProperties
  <2>. QED  BY <2>1, <2>2, <2>5
<1>5. ASSUME NEW r \in Nat, Accounts(s, r)
      PROVE  Accounts(k, r)
  <2>1. PICK p \in 0..n : AccountsFrom(s, r, p)
    BY <1>5 DEF Accounts, n
  <2>2. CASE p > d
    <3>1. p - d \in 0..Len(k) /\ p - d > 0 /\ k[p - d] = s[p]
      BY <1>1, <1>4, <2>2
    <3>2. \A j \in (p - d + 1)..Len(k) : k[j].serial > r
      <4>1. ASSUME NEW j \in (p - d + 1)..Len(k) PROVE k[j].serial > r
        <5>1. k[j] = s[d + j] /\ d + j \in (p + 1)..n
          BY <1>1, <1>4, <2>2
        <5>. QED  BY <2>1, <5>1 DEF AccountsFrom, n
      <4>. QED  BY <4>1
    <3>3. AccountsFrom(k, r, p - d)
      <4>1. Len(k) - (p - d) = n - p
        BY <1>1, <1>4
      <4>2. (s[p].whole /\ s[p].serial = r) \/ n - p >= Least
        BY <2>1 DEF AccountsFrom, n
      <4>. QED  BY <3>1, <3>2, <4>1, <4>2, Zenon DEF AccountsFrom
    <3>. QED  BY <3>1, <3>3 DEF Accounts
  <2>3. CASE ~(p > d)
    <3>1. ASSUME NEW j \in 1..Len(k) PROVE k[j].serial > r
      <4>1. k[j] = s[d + j] /\ d + j \in (p + 1)..n
        BY <1>1, <1>4, <2>3
      <4>. QED  BY <2>1, <4>1 DEF AccountsFrom, n
    <3>2. Len(k) - 0 >= Least /\ 0 \in 0..Len(k) /\ 0 + 1 = 1
      BY <1>1, <1>4
    <3>3. AccountsFrom(k, r, 0)
      BY <3>1, <3>2 DEF AccountsFrom
    <3>. QED  BY <3>2, <3>3 DEF Accounts
  <2>. QED  BY <2>2, <2>3
<1>6. k # <<>>
  BY <1>1, <1>4
<1>. QED  BY <1>4, <1>5, <1>6 DEF k

LEMMA LineAdded ==
  ASSUME NEW s \in Seq(TapeLines), NEW x \in TapeLines
  PROVE  /\ \A r \in Nat : Accounts(s, r) /\ x.serial > r => Accounts(Append(s, x), r)
         /\ x.whole => Accounts(Append(s, x), x.serial)
<1> DEFINE n == Len(s)
           a == Append(s, x)
<1>1. /\ Len(a) = n + 1 /\ n \in Nat /\ a[n + 1] = x
      /\ \A i \in 1..n : a[i] = s[i]
  BY Grows
<1>2. Least \in Nat
  BY LeastFact, CassetteAssumption
<1> HIDE DEF a
<1>3. ASSUME NEW r \in Nat, Accounts(s, r), x.serial > r PROVE Accounts(a, r)
  <2>1. PICK p \in 0..n : AccountsFrom(s, r, p)
    BY <1>3 DEF Accounts
  <2>2. p \in 0..Len(a) /\ (p > 0 => a[p] = s[p])
    BY <1>1
  <2>3. ASSUME NEW j \in (p + 1)..Len(a) PROVE a[j].serial > r
    <3>1. CASE j = n + 1
      BY <1>1, <1>3, <3>1
    <3>2. CASE j # n + 1
      <4>1. j \in (p + 1)..n /\ a[j] = s[j]
        BY <1>1, <3>2
      <4>. QED  BY <2>1, <4>1 DEF AccountsFrom
    <3>. QED  BY <3>1, <3>2
  <2>4. Len(s) - p >= Least => Len(a) - p >= Least
    BY <1>1, <1>2
  <2>5. (p > 0 /\ s[p].whole /\ s[p].serial = r) \/ Len(s) - p >= Least
    BY <2>1, Zenon DEF AccountsFrom
  <2>6. AccountsFrom(a, r, p)
    BY <2>2, <2>3, <2>4, <2>5, Zenon DEF AccountsFrom
  <2>. QED  BY <2>2, <2>6 DEF Accounts
<1>4. ASSUME x.whole PROVE Accounts(a, x.serial)
  <2>1. n + 1 \in 0..Len(a) /\ n + 1 > 0 /\ (n + 1 + 1)..Len(a) = {}
    BY <1>1
  <2>2. AccountsFrom(a, x.serial, n + 1)
    BY <1>1, <1>4, <2>1, Zenon DEF AccountsFrom
  <2>. QED  BY <2>1, <2>2, Zenon DEF Accounts
<1>. QED  BY <1>3, <1>4 DEF a

\* Spoiling the last line, of an answer nobody was given, takes none away.
LEMMA LineSpoiled ==
  ASSUME NEW s \in Seq(TapeLines), s # <<>>
  PROVE  LET m == [s EXCEPT ![Len(s)].whole = FALSE] IN
         /\ m \in Seq(TapeLines) /\ m # <<>> /\ m[Len(m)].serial = s[Len(s)].serial
         /\ \A r \in Nat : Accounts(s, r) /\ s[Len(s)].serial > r => Accounts(m, r)
<1> DEFINE n == Len(s)
           q == [s[n] EXCEPT !.whole = FALSE]
           m == [s EXCEPT ![n].whole = FALSE]
<1>1. n \in Nat /\ n > 0 /\ n \in DOMAIN s /\ s[n] \in TapeLines
  OBVIOUS
<1>2. q \in TapeLines /\ q.serial = s[n].serial
  BY <1>1 DEF TapeLines
<1>3. m = [s EXCEPT ![n] = q]
  OBVIOUS
<1> HIDE DEF q, m
<1>4. m \in Seq(TapeLines) /\ Len(m) = n /\ m[n] = q /\ \A i \in 1..n : i # n => m[i] = s[i]
  BY <1>1, <1>2, <1>3
<1>5. ASSUME NEW r \in Nat, Accounts(s, r), s[n].serial > r PROVE Accounts(m, r)
  <2>1. PICK p \in 0..n : AccountsFrom(s, r, p)
    BY <1>5 DEF Accounts
  <2>2. \A j \in (p + 1)..n : m[j].serial > r
    <3>1. \A j \in (p + 1)..n : s[j].serial > r
      BY <2>1 DEF AccountsFrom
    <3>2. \A j \in 1..n : m[j].serial = s[j].serial
      BY <1>2, <1>4
    <3>. QED  BY <1>1, <3>1, <3>2
  <2>3. (p > 0 /\ s[p].whole /\ s[p].serial = r) \/ n - p >= Least
    BY <2>1, Zenon DEF AccountsFrom
  <2>4. s[p].serial = r => p # n
    BY <1>1, <1>5 DEF TapeLines
  <2>5. p > 0 /\ p # n => m[p] = s[p]
    BY <1>4
  <2>6. AccountsFrom(m, r, p)
    BY <1>4, <2>2, <2>3, <2>4, <2>5, Zenon DEF AccountsFrom
  <2>. QED  BY <1>4, <2>6 DEF Accounts
<1>6. m # <<>> /\ m[Len(m)].serial = s[n].serial
  BY <1>1, <1>2, <1>4
<1>. QED  BY <1>4, <1>5, <1>6, Zenon DEF m

LEMMA SoundShows == CassetteInv => TapeKeepsAnswers
<1>. SUFFICES ASSUME CassetteInv, ~damaged, ~Rewriting, NEW r \in 1..recorded \ joined
              PROVE  OnTape(r) \/ Cardinality({i \in DOMAIN tape : tape[i].serial > r}) >= Least
  BY Zenon DEF TapeKeepsAnswers, Least
<1>1. tape \in Seq(TapeLines) /\ DOMAIN tape = 1..Len(tape) /\ Len(tape) \in Nat
  BY DEF CassetteInv
<1>2. Accounts(tape, r)
  BY Zenon DEF CassetteInv, TapeSound, Rewriting, Rewrites, AllAccounted
<1>3. PICK p \in 0..Len(tape) : AccountsFrom(tape, r, p)
  BY <1>2 DEF Accounts
<1>4. CASE p > 0 /\ tape[p].whole /\ tape[p].serial = r
  <2>1. p \in DOMAIN tape
    BY <1>1, <1>4
  <2>. QED  BY <1>4, <2>1, Zenon DEF OnTape
<1>5. CASE Len(tape) - p >= Least
  <2> DEFINE newer == {i \in DOMAIN tape : tape[i].serial > r}
             after == (p + 1)..Len(tape)
  <2>1. after \subseteq newer
    BY <1>1, <1>3 DEF AccountsFrom
  <2>2. newer \subseteq 1..Len(tape)
    BY <1>1
  <2>3. IsFiniteSet(newer)
    BY <1>1, <2>2, FS_Interval, FS_Subset, 1 \in Int, Len(tape) \in Int
  <2>4. Cardinality(after) = Len(tape) - p /\ IsFiniteSet(after)
    <3> DEFINE n == Len(tape)
               a == p + 1
    <3>1. a \in Int /\ n \in Int /\ (a > n => n - p = 0) /\ n - a + 1 = n - p
      <4>1. n \in Nat /\ p \in 0..n
        BY <1>1
      <4> HIDE DEF n
      <4>. QED  BY <4>1
    <3> HIDE DEF n, a
    <3>2. IsFiniteSet(a..n) /\ Cardinality(a..n) = IF a > n THEN 0 ELSE n - a + 1
      BY <3>1, FS_Interval, Zenon
    <3>3. Cardinality(a..n) = n - p
      BY <3>1, <3>2, Zenon
    <3>. QED  BY <3>2, <3>3 DEF n, a
  <2>5. Cardinality(after) <= Cardinality(newer)
    BY <2>1, <2>3, FS_Subset
  <2>6. Cardinality(newer) \in Nat /\ Least \in Nat
    BY <2>3, FS_CardinalityType, LeastFact, CassetteAssumption
  <2> HIDE DEF newer, after
  <2>7. Cardinality(newer) >= Least
    BY <1>1, <1>5, <2>4, <2>5, <2>6
  <2>. QED  BY <2>7 DEF newer
<1>. QED  BY <1>3, <1>4, <1>5, Zenon DEF AccountsFrom

LEMMA ChatMoves ==
  ASSUME ChatsServed, NEW t \in Chats, NEW x, Serves(x), chat' = [chat EXCEPT ![t] = x]
  PROVE  /\ ChatsServed' /\ chat'[t] = x
         /\ \A u \in Chats : u # t => chat'[u] = chat[u]
<1>1. x \in ChatStates /\ chat \in [Chats -> ChatStates] /\ \A u \in Chats : Serves(chat[u])
  BY Zenon DEF ChatsServed, Serves
<1>2. /\ chat' \in [Chats -> ChatStates] /\ chat'[t] = x
      /\ \A u \in Chats : u # t => chat'[u] = chat[u]
  BY <1>1
<1>3. \A u \in Chats : Serves(chat'[u])
  BY <1>1, <1>2, Zenon
<1>. QED  BY <1>2, <1>3, Zenon DEF ChatsServed

\* What a thread does that neither begins nor ends a rewrite, nor touches the tape.
LEMMA QuietStep ==
  ASSUME CassetteInv, NEW t \in Chats, NEW x, Serves(x), x.pc # "rewrite", ~Rewrites(t),
         chat' = [chat EXCEPT ![t] = x], UNCHANGED <<tape, cut, recorded, joined, damaged>>
  PROVE  CassetteInv'
<1>1. ChatsServed /\ CutIsNew
  BY DEF CassetteInv
<1>2. ChatsServed' /\ chat'[t] = x /\ \A u \in Chats : u # t => chat'[u] = chat[u]
  BY <1>1, ChatMoves
<1>3. \A u \in Chats : /\ Rewrites(u)' <=> Rewrites(u)
                       /\ Rewrites(u) => chat'[u] = chat[u]
  BY <1>2, Zenon DEF Rewrites
<1>4. CutIsNew'
  BY <1>1, <1>3, Zenon DEF CutIsNew
<1>5. ~damaged' => TapeSound'
  <2>1. TapeSound => TapeSound'
    BY <1>3, Zenon DEF TapeSound, AllAccounted
  <2>. QED  BY <2>1, Zenon DEF CassetteInv
<1>. QED  BY <1>2, <1>4, <1>5, Zenon DEF CassetteInv

LEMMA SilentServes ==
  /\ Serves(Silent) /\ Silent \in ChatStates /\ Silent.pc = "idle"
  /\ \A k \in Prompts : Serves([Silent EXCEPT !.pc = "append", !.keys = {k}])
  /\ \A n \in Nat : Serves([Silent EXCEPT !.pc = "given", !.given = n])
<1>1. Silent \in ChatStates /\ Silent.pc = "idle"
  BY DEF Silent, ChatStates
<1>2. Serves(Silent)
  BY <1>1 DEF Serves
<1>3. ASSUME NEW k \in Prompts PROVE Serves([Silent EXCEPT !.pc = "append", !.keys = {k}])
  <2> DEFINE x == [Silent EXCEPT !.pc = "append", !.keys = {k}]
  <2>1. x \in ChatStates /\ x.pc = "append" /\ x.keys = {k}
    BY <1>1 DEF ChatStates
  <2> HIDE DEF x
  <2>2. Serves(x)
    BY <2>1 DEF Serves
  <2>. QED  BY <2>2 DEF x
<1>4. ASSUME NEW n \in Nat PROVE Serves([Silent EXCEPT !.pc = "given", !.given = n])
  <2> DEFINE x == [Silent EXCEPT !.pc = "given", !.given = n]
  <2>1. x \in ChatStates /\ x.pc = "given"
    BY <1>1 DEF ChatStates
  <2> HIDE DEF x
  <2>2. Serves(x)
    BY <2>1 DEF Serves
  <2>. QED  BY <2>2 DEF x
<1>. QED  BY <1>1, <1>2, <1>3, <1>4

LEMMA LineTyped ==
  ASSUME CassetteInv, NEW t \in Chats, chat[t].pc = "write", NEW w \in BOOLEAN
  PROVE  /\ TapeLine(t, w) \in TapeLines /\ TapeLine(t, w).serial = recorded + 1
         /\ TapeLine(t, w).whole = w
<1> DEFINE k == CHOOSE k \in chat[t].keys : TRUE
<1>1. Serves(chat[t]) /\ recorded \in Nat
  BY DEF CassetteInv, ChatsServed
<1>2. chat[t].keys # {} /\ chat[t].keys \in SUBSET Prompts
  BY <1>1 DEF Serves, ChatStates
<1>3. k \in Prompts
  BY <1>2
<1> DEFINE n == recorded + 1
<1>4. TapeLine(t, w) = [key |-> k, serial |-> n, whole |-> w]
  BY Zenon DEF TapeLine
<1> HIDE DEF k, n
<1>5. TapeLine(t, w).whole = w
  <2>1. [key |-> k, serial |-> n, whole |-> w].whole = w
    BY Zenon
  <2>. QED  BY <1>4, <2>1, Zenon
<1>6. TapeLine(t, w) \in TapeLines /\ TapeLine(t, w).serial = recorded + 1
  BY <1>1, <1>3, <1>4 DEF TapeLines, n
<1>. QED  BY <1>5, <1>6

LEMMA WhatIsAppended ==
  ASSUME CassetteInv, NEW line \in TapeLines, line.serial = recorded + 1
  PROVE  /\ Appended(line) \in Seq(TapeLines) /\ Appended(line) # <<>>
         /\ Appended(line)[Len(Appended(line))].serial > recorded
         /\ AllAccounted(tape) => AllAccounted(Appended(line))
         /\ ~cut /\ line.whole => Accounts(Appended(line), recorded + 1)
<1>1. tape \in Seq(TapeLines) /\ recorded \in Nat /\ CutIsNew
  BY DEF CassetteInv
<1>2. \A r \in 1..recorded : r \in Nat
  BY <1>1
<1>3. CASE cut
  <2> DEFINE m == [tape EXCEPT ![Len(tape)].whole = FALSE]
  <2>1. Appended(line) = m /\ tape # <<>> /\ tape[Len(tape)].serial > recorded
    BY <1>1, <1>3 DEF Appended, CutIsNew
  <2>2. /\ m \in Seq(TapeLines) /\ m # <<>> /\ m[Len(m)].serial = tape[Len(tape)].serial
        /\ \A r \in Nat : Accounts(tape, r) /\ tape[Len(tape)].serial > r => Accounts(m, r)
    BY <1>1, <2>1, LineSpoiled
  <2>3. ASSUME NEW r \in 1..recorded PROVE tape[Len(tape)].serial > r
    <3>1. tape[Len(tape)] \in TapeLines
      BY <1>1, <2>1
    <3>. QED  BY <1>1, <2>1, <3>1 DEF TapeLines
  <2> HIDE DEF m
  <2>4. AllAccounted(tape) => AllAccounted(m)
    BY <1>2, <2>2, <2>3, Zenon DEF AllAccounted
  <2>. QED  BY <1>3, <2>1, <2>2, <2>4
<1>4. CASE ~cut
  <2> DEFINE a == Append(tape, line)
  <2>1. Appended(line) = a
    BY <1>4 DEF Appended
  <2>2. /\ \A r \in Nat : Accounts(tape, r) /\ line.serial > r => Accounts(a, r)
        /\ line.whole => Accounts(a, line.serial)
    BY <1>1, LineAdded
  <2>3. \A r \in 1..recorded : line.serial > r
    BY <1>1
  <2>4. a \in Seq(TapeLines) /\ Len(a) = Len(tape) + 1 /\ a[Len(tape) + 1] = line /\ Len(tape) \in Nat
    BY <1>1, Grows
  <2> HIDE DEF a
  <2>5. a # <<>> /\ a[Len(a)].serial > recorded
    BY <1>1, <2>4
  <2>6. AllAccounted(tape) => AllAccounted(a)
    BY <1>2, <2>2, <2>3, Zenon DEF AllAccounted
  <2>. QED  BY <1>4, <2>1, <2>2, <2>4, <2>5, <2>6, Zenon
<1>. QED  BY <1>3, <1>4

LEMMA CassetteWrites ==
  ASSUME CassetteInv, NEW t \in Chats, WriteRecord(t)
  PROVE  CassetteInv'
<1> DEFINE line == TapeLine(t, TRUE)
<1>1. chat[t].pc = "write"
  BY DEF WriteRecord
<1>2. line \in TapeLines /\ line.serial = recorded + 1 /\ line.whole
  BY <1>1, LineTyped
<1> HIDE DEF line
<1>3. tape' = Appended(line) /\ cut' = FALSE /\ recorded' = recorded + 1
  BY DEF WriteRecord, line
<1>4. /\ tape' \in Seq(TapeLines) /\ tape' # <<>>
      /\ AllAccounted(tape) => AllAccounted(tape')
      /\ ~cut => Accounts(tape', recorded + 1)
  BY <1>2, <1>3, WhatIsAppended, Zenon
<1>5. ChatsServed /\ recorded \in Nat
  BY DEF CassetteInv
<1>6. /\ ChatsServed' /\ chat'[t] = Silent
      /\ \A u \in Chats : u # t => chat'[u] = chat[u]
  BY <1>5, SilentServes, ChatMoves DEF WriteRecord
<1>7. \A u \in Chats : Rewrites(u)' <=> Rewrites(u)
  <2>1. ~Rewrites(t) /\ ~Rewrites(t)'
    BY <1>1, <1>6 DEF Rewrites, Silent
  <2>. QED  BY <1>6, <2>1, Zenon DEF Rewrites
<1>8. /\ ~damaged' => ~damaged
      /\ joined' = IF cut THEN joined \cup {recorded + 1} ELSE joined
  BY <1>3, Zenon DEF WriteRecord
<1>9. AllAccounted(tape) => AllAccounted(tape)'
  <2>1. \A r \in 1..recorded' \ joined' :
            (r \in 1..recorded /\ r \notin joined) \/ (r = recorded + 1 /\ ~cut)
    BY <1>3, <1>5, <1>8
  <2>. QED  BY <1>4, <2>1, Zenon DEF AllAccounted
<1>10. ASSUME ~damaged' PROVE TapeSound'
  <2>1. TapeSound
    BY <1>8, <1>10, Zenon DEF CassetteInv
  <2>2. CASE \A u \in Chats : ~Rewrites(u)
    <3>1. AllAccounted(tape)
      BY <2>1, <2>2, Zenon DEF TapeSound
    <3>. QED  BY <1>7, <1>8, <1>9, <1>10, <2>2, <3>1, Zenon DEF TapeSound
  <2>3. CASE \E u \in Chats : Rewrites(u)
    BY <1>4, <1>7, <2>3, Zenon DEF TapeSound
  <2>. QED  BY <2>2, <2>3
<1>11. recorded' \in Nat /\ CutIsNew'
  BY <1>3, <1>5 DEF CutIsNew
<1>. QED  BY <1>4, <1>6, <1>10, <1>11, Zenon DEF CassetteInv

LEMMA CassetteTruncates ==
  ASSUME CassetteInv, NEW t \in Chats, Truncate(t)
  PROVE  CassetteInv'
<1> DEFINE x == [chat[t] EXCEPT !.pc = "rewrite"]
<1>1. /\ chat[t].pc = "truncate" /\ tape' = <<>> /\ cut' = FALSE
      /\ recorded' = recorded /\ joined' = joined
      /\ chat' = [chat EXCEPT ![t] = x]
  BY DEF Truncate
<1>2. ChatsServed /\ Serves(chat[t]) /\ recorded \in Nat /\ chat[t] \in ChatStates
  BY DEF CassetteInv, ChatsServed, Serves
<1>3. chat[t].from \in Seq(TapeLines) /\ chat[t].keep = Kept(chat[t].from) /\ Len(chat[t].from) >= MaxRecords
  BY <1>1, <1>2 DEF Serves, ChatStates
<1>4. x \in ChatStates /\ x.pc = "rewrite" /\ x.keys = chat[t].keys /\ x.keep = chat[t].keep
  BY <1>2 DEF ChatStates
<1> HIDE DEF x
<1>5. chat[t].keys # {}
  BY <1>1, <1>2 DEF Serves
<1>6. /\ chat[t].keep # <<>>
      /\ \A r \in Nat : Accounts(chat[t].from, r) => Accounts(chat[t].keep, r)
  BY <1>3, TrimKeeps
<1>7. Serves(x)
  BY <1>4, <1>5, <1>6 DEF Serves
<1>8. ChatsServed' /\ chat'[t] = x /\ \A u \in Chats : u # t => chat'[u] = chat[u]
  BY <1>1, <1>2, <1>7, ChatMoves
<1>9. Rewrites(t)' /\ ~Rewrites(t) /\ \A u \in Chats : u # t => (Rewrites(u)' <=> Rewrites(u))
  <2>1. Rewrites(t)' /\ ~Rewrites(t)
    BY <1>1, <1>4, <1>8 DEF Rewrites
  <2>. QED  BY <1>8, <2>1, Zenon DEF Rewrites
<1>10. ~damaged' => ~damaged /\ tape = chat[t].from
  BY Zenon DEF Truncate
<1>11. ASSUME ~damaged' PROVE TapeSound'
  <2>1. TapeSound /\ tape = chat[t].from
    BY <1>10, <1>11, Zenon DEF CassetteInv
  <2>2. CASE \A u \in Chats : ~Rewrites(u)
    <3>1. AllAccounted(tape)
      BY <2>1, <2>2, Zenon DEF TapeSound
    <3>2. \A r \in 1..recorded : r \in Nat
      BY <1>2
    <3>3. AllAccounted(chat[t].keep)
      BY <1>6, <2>1, <3>1, <3>2, Zenon DEF AllAccounted
    <3>4. AllAccounted(chat[t].keep)'
      BY <1>1, <1>4, <1>8, <3>3, Zenon DEF AllAccounted
    <3>5. \A u \in Chats : Rewrites(u)' => u = t
      BY <1>9, <2>2, Zenon
    <3>. QED  BY <1>1, <1>9, <3>4, <3>5, Zenon DEF TapeSound
  <2>3. CASE \E u \in Chats : Rewrites(u)
    <3>1. PICK u \in Chats : Rewrites(u)
      BY <2>3
    <3>2. u # t /\ Rewrites(u)' /\ Rewrites(t)'
      BY <1>9, <3>1, Zenon
    <3>. QED  BY <3>1, <3>2, Zenon DEF TapeSound
  <2>. QED  BY <2>2, <2>3
<1>12. tape' \in Seq(TapeLines) /\ recorded' \in Nat /\ CutIsNew'
  BY <1>1, <1>2 DEF CutIsNew
<1>. QED  BY <1>8, <1>11, <1>12, Zenon DEF CassetteInv

LEMMA CassetteRewrites ==
  ASSUME CassetteInv, NEW t \in Chats, Rewrite(t)
  PROVE  CassetteInv'
<1> DEFINE x == [chat[t] EXCEPT !.pc = "write", !.keep = <<>>, !.from = <<>>]
<1>1. /\ chat[t].pc = "rewrite" /\ cut' = cut /\ recorded' = recorded /\ joined' = joined
      /\ chat' = [chat EXCEPT ![t] = x]
      /\ \/ tape' = chat[t].keep
         \/ tape # <<>> /\ tape' = Append(chat[t].keep, [Last(tape) EXCEPT !.whole = FALSE])
  BY DEF Rewrite
<1>2. /\ ChatsServed /\ Serves(chat[t]) /\ recorded \in Nat /\ chat[t] \in ChatStates
      /\ tape \in Seq(TapeLines) /\ CutIsNew
  BY DEF CassetteInv, ChatsServed, Serves
<1>3. x \in ChatStates /\ x.pc = "write" /\ x.keys = chat[t].keys
  <2> DEFINE none == <<>>
  <2>1. none \in Seq(TapeLines) /\ x = [chat[t] EXCEPT !.pc = "write", !.keep = none, !.from = none]
    OBVIOUS
  <2> HIDE DEF none, x
  <2>. QED  BY <1>2, <2>1 DEF ChatStates
<1> HIDE DEF x
<1>4. chat[t].keys # {} /\ chat[t].keep # <<>> /\ chat[t].keep \in Seq(TapeLines)
  BY <1>1, <1>2 DEF Serves, ChatStates
<1>5. Serves(x)
  BY <1>3, <1>4 DEF Serves
<1>6. ChatsServed' /\ chat'[t] = x /\ \A u \in Chats : u # t => chat'[u] = chat[u]
  BY <1>1, <1>2, <1>5, ChatMoves
<1>7. Rewrites(t) /\ ~Rewrites(t)' /\ \A u \in Chats : u # t => (Rewrites(u)' <=> Rewrites(u))
  <2>1. Rewrites(t) /\ ~Rewrites(t)'
    BY <1>1, <1>3, <1>6 DEF Rewrites
  <2>. QED  BY <1>6, <2>1, Zenon DEF Rewrites
<1>8. tape' \in Seq(TapeLines)
  <2>1. CASE tape' = chat[t].keep
    BY <1>4, <2>1
  <2>2. CASE tape # <<>> /\ tape' = Append(chat[t].keep, [Last(tape) EXCEPT !.whole = FALSE])
    <3>1. Last(tape) \in TapeLines
      BY <1>2, <2>2 DEF Last
    <3>2. [Last(tape) EXCEPT !.whole = FALSE] \in TapeLines
      BY <3>1 DEF TapeLines
    <3>. QED  BY <1>4, <2>2, <3>2, Grows
  <2>. QED  BY <1>1, <2>1, <2>2
<1>9. ~cut
  BY <1>2, <1>7, Zenon DEF CutIsNew
<1>10. ~damaged' => ~damaged /\ tape = <<>>
  BY Zenon DEF Rewrite
<1>11. ASSUME ~damaged' PROVE TapeSound'
  <2>1. TapeSound /\ tape = <<>> /\ tape' = chat[t].keep
    BY <1>1, <1>10, <1>11, Zenon DEF CassetteInv
  <2>2. CASE \A u \in Chats : Rewrites(u) => u = t
    <3>1. AllAccounted(chat[t].keep)
      BY <1>7, <2>1, <2>2, Zenon DEF TapeSound
    <3>2. AllAccounted(tape)'
      BY <1>1, <2>1, <3>1, Zenon DEF AllAccounted
    <3>3. \A u \in Chats : ~Rewrites(u)'
      BY <1>7, <2>2, Zenon
    <3>. QED  BY <3>2, <3>3, Zenon DEF TapeSound
  <2>3. CASE \E u \in Chats : Rewrites(u) /\ u # t
    <3>1. PICK u \in Chats : Rewrites(u) /\ u # t
      BY <2>3
    <3>2. Rewrites(u)' /\ tape' # <<>>
      BY <1>4, <1>7, <2>1, <3>1, Zenon
    <3>. QED  BY <3>1, <3>2, Zenon DEF TapeSound
  <2>. QED  BY <2>2, <2>3, Zenon
<1>12. CutIsNew'
  BY <1>1, <1>9 DEF CutIsNew
<1>. QED  BY <1>1, <1>2, <1>6, <1>8, <1>11, <1>12, Zenon DEF CassetteInv

LEMMA CassetteCrashes ==
  ASSUME CassetteInv, CrashAndRestart
  PROVE  CassetteInv'
<1>1. chat' = [t \in Chats |-> Silent] /\ recorded' = recorded /\ joined' = joined
  BY DEF CrashAndRestart
<1>2. ChatsServed' /\ \A t \in Chats : ~Rewrites(t)'
  <2>1. Silent \in ChatStates /\ Silent.pc # "rewrite" /\ Serves(Silent)
    BY SilentServes
  <2>. QED  BY <1>1, <2>1 DEF ChatsServed, Rewrites
<1>3. tape \in Seq(TapeLines) /\ recorded \in Nat /\ CutIsNew
  BY DEF CassetteInv
<1>4. /\ tape' \in Seq(TapeLines)
      /\ cut' => tape' # <<>> /\ tape'[Len(tape')].serial > recorded
      /\ AllAccounted(tape) => AllAccounted(tape')
  <2>1. CASE UNCHANGED <<tape, cut>>
    BY <1>3, <2>1 DEF CutIsNew
  <2>2. ASSUME NEW t \in Chats, NEW w \in BOOLEAN, chat[t].pc = "write",
               tape' = Appended(TapeLine(t, w)), cut' = TRUE
        PROVE  /\ tape' \in Seq(TapeLines)
               /\ cut' => tape' # <<>> /\ tape'[Len(tape')].serial > recorded
               /\ AllAccounted(tape) => AllAccounted(tape')
    <3>1. TapeLine(t, w) \in TapeLines /\ TapeLine(t, w).serial = recorded + 1
      BY <2>2, LineTyped
    <3>. QED  BY <2>2, <3>1, WhatIsAppended, Zenon
  <2>. QED  BY <2>1, <2>2, Zenon DEF CrashAndRestart
<1>5. ASSUME ~damaged' PROVE TapeSound'
  <2>1. ~damaged /\ \A t \in Chats : ~Rewrites(t)
    BY <1>5, Zenon DEF CrashAndRestart, Rewrites
  <2>2. AllAccounted(tape)
    BY <2>1, Zenon DEF CassetteInv, TapeSound
  <2>3. AllAccounted(tape)'
    BY <1>1, <1>4, <2>2, Zenon DEF AllAccounted
  <2>. QED  BY <1>2, <2>3, Zenon DEF TapeSound
<1>6. CutIsNew'
  BY <1>1, <1>2, <1>4, Zenon DEF CutIsNew
<1>. QED  BY <1>1, <1>2, <1>3, <1>4, <1>5, <1>6, Zenon DEF CassetteInv

LEMMA CassetteKeeps == CassetteInv /\ [CassetteNext]_cassetteVars => CassetteInv'
<1>. SUFFICES ASSUME CassetteInv, [CassetteNext]_cassetteVars PROVE CassetteInv'
  OBVIOUS
<1>1. ChatsServed /\ tape \in Seq(TapeLines) /\ CutIsNew
  BY DEF CassetteInv
<1>2. ASSUME NEW t \in Chats, NEW k \in Prompts, AskModel(t, k)
      PROVE  CassetteInv'
  <2> DEFINE x == IF mode = "record" THEN [Silent EXCEPT !.pc = "append", !.keys = {k}] ELSE Silent
  <2>1. Serves(x) /\ x.pc # "rewrite"
    BY SilentServes DEF Silent
  <2>2. ~Rewrites(t) /\ chat' = [chat EXCEPT ![t] = x] /\ UNCHANGED <<tape, cut, recorded, joined, damaged>>
    BY <1>2 DEF AskModel, Rewrites
  <2> HIDE DEF x
  <2>. QED  BY <2>1, <2>2, QuietStep
<1>3. ASSUME NEW t \in Chats, NEW k \in Prompts, Replay(t, k)
      PROVE  CassetteInv'
  <2> DEFINE i == CHOOSE i \in DOMAIN tape : tape[i].key = k
             n == tape[i].serial
             x == [Silent EXCEPT !.pc = "given", !.given = n]
  <2>1. n \in Nat
    <3>1. i \in DOMAIN tape
      BY <1>3 DEF Replay, Hit
    <3>2. tape[i] \in TapeLines
      BY <1>1, <3>1
    <3>. QED  BY <3>2 DEF TapeLines
  <2>2. ~Rewrites(t) /\ chat' = [chat EXCEPT ![t] = x] /\ UNCHANGED <<tape, cut, recorded, joined, damaged>>
    BY <1>3 DEF Replay, Rewrites
  <2> HIDE DEF n
  <2>3. Serves(x) /\ x.pc # "rewrite"
    BY <2>1, SilentServes DEF Silent
  <2> HIDE DEF x
  <2>. QED  BY <2>2, <2>3, QuietStep
<1>4. ASSUME NEW t \in Chats, CheckSize(t)
      PROVE  CassetteInv'
  <2>1. chat[t] \in ChatStates /\ chat[t].pc = "append" /\ chat[t].keys # {}
    BY <1>1, <1>4 DEF CheckSize, ChatsServed, Serves
  <2>2. ~Rewrites(t) /\ UNCHANGED <<tape, cut, recorded, joined, damaged>>
    BY <1>4 DEF CheckSize, Rewrites
  <2>3. CASE Len(tape) < MaxRecords
    <3> DEFINE x == [chat[t] EXCEPT !.pc = "write"]
    <3>1. Serves(x) /\ x.pc # "rewrite"
      BY <2>1 DEF Serves, ChatStates
    <3>2. chat' = [chat EXCEPT ![t] = x]
      BY <1>4, <2>3 DEF CheckSize
    <3> HIDE DEF x
    <3>. QED  BY <2>2, <3>1, <3>2, QuietStep
  <2>4. CASE ~(Len(tape) < MaxRecords)
    <3> DEFINE kept == Kept(tape)
               x == [chat[t] EXCEPT !.pc = "truncate", !.keep = kept, !.from = tape]
    <3>1. Len(tape) >= MaxRecords
      BY <1>1, <2>4, CassetteAssumption
    <3>2. kept \in Seq(TapeLines)
      BY <1>1, <3>1, TrimKeeps
    <3>3. chat' = [chat EXCEPT ![t] = x]
      BY <1>4, <2>4 DEF CheckSize
    <3> HIDE DEF kept
    <3>4. /\ x \in ChatStates /\ x.pc = "truncate" /\ x.keys = chat[t].keys
          /\ x.keep = kept /\ x.from = tape
      BY <1>1, <2>1, <3>2 DEF ChatStates
    <3> HIDE DEF x
    <3>5. Serves(x) /\ x.pc # "rewrite"
      BY <2>1, <3>1, <3>4 DEF Serves, kept
    <3>. QED  BY <2>2, <3>3, <3>5, QuietStep
  <2>. QED  BY <2>3, <2>4
<1>5. ASSUME NEW t \in Chats, Truncate(t) \/ Rewrite(t) \/ WriteRecord(t)
      PROVE  CassetteInv'
  BY <1>5, CassetteTruncates, CassetteRewrites, CassetteWrites
<1>6. CASE CrashAndRestart
  BY <1>6, CassetteCrashes
<1>7. CASE UNCHANGED cassetteVars
  BY <1>7, Zenon DEF cassetteVars, CassetteInv, ChatsServed, CutIsNew, TapeSound, AllAccounted, Rewrites
<1>. QED  BY <1>2, <1>3, <1>4, <1>5, <1>6, <1>7 DEF CassetteNext

\* Any number of threads, prompts and lines: while no trim was overtaken or struck by
\* a crash, the tape holds what callers were given, but for answers that are older
\* than the four fifths a trim keeps and those whose line joined a cut one.  Crashes
\* in a write are not exempted: they take no other answer.
THEOREM CassetteAnswers == CassetteSpec => []TapeKeepsAnswers
<1>1. CassetteInit => CassetteInv
  <2>. SUFFICES ASSUME CassetteInit PROVE CassetteInv
    OBVIOUS
  <2>1. Silent \in ChatStates /\ Silent.pc # "rewrite" /\ Serves(Silent)
    BY SilentServes
  <2>2. ChatsServed /\ \A t \in Chats : ~Rewrites(t)
    BY <2>1 DEF CassetteInit, ChatsServed, Rewrites
  <2>3. AllAccounted(tape)
    BY DEF CassetteInit, AllAccounted
  <2>4. tape \in Seq(TapeLines) /\ recorded \in Nat /\ ~cut
    BY DEF CassetteInit
  <2>. QED  BY <2>2, <2>3, <2>4, Zenon DEF CassetteInv, TapeSound, CutIsNew
<1>. QED  BY <1>1, CassetteKeeps, SoundShows, PTL DEF CassetteSpec

-----------------------------------------------------------------------------
(* The learner *)

Keys == Strategies \X Contexts
Rows == [wins : Nat, losses : Nat]
Places == {"check", "fetch", "episode", "stats", "outcome", "insert", "failure", "done"}
Calls == [pc : Places, r : Results, ts : Nat, seen : SUBSET Nat, own : BOOLEAN]
OutcomeRows == [r : Results, ts : Nat, seen : SUBSET Nat, own : BOOLEAN]

LearnerTypeOK ==
    /\ DOMAIN stats \subseteq Keys /\ \A k \in DOMAIN stats : stats[k] \in Rows
    /\ episodes \in Seq(Results) /\ outcomes \in Seq(OutcomeRows)
    /\ ingest \in [Ingests -> Calls]
    /\ uncounted \in [Keys -> Nat]
    /\ clock \in Nat

NoneRejects(S, r) == \A j \in LatestOf(S) : ~Rejected(outcomes[j].r, r)

\* What a call that fetched its own answer saw does not reject what it reports.
Sees(x) ==
    /\ x.seen \subseteq DOMAIN outcomes
    /\ x.pc = "check" => ~x.own
    /\ x.pc \notin {"check", "done"} => ~x.r.forbidden
    /\ x.pc \in {"episode", "stats", "outcome", "insert"} /\ x.own => NoneRejects(x.seen, x.r)

RowFits(row) ==
    /\ row.seen \subseteq DOMAIN outcomes
    /\ ~row.r.forbidden
    /\ row.own => NoneRejects(row.seen, row.r)

\* While the result of the connection is the answer to a call, the call has yet to fetch it.
Asked ==
    \A c \in result.by :
        /\ c \in Ingests /\ ingest[c].pc = "fetch" /\ result.kind = "outcomes"
        /\ result.found = LatestOutcome(ingest[c].seen)

CountsHold == \A k \in Keys : EpisodesOf(k) = Trials(k) + Pending(k) + uncounted[k]
OutcomesFit == \A i \in DOMAIN outcomes : RowFits(outcomes[i])

LearnerInv ==
    /\ LearnerTypeOK
    /\ CountsHold
    /\ OutcomesFit
    /\ Asked
    /\ \A c \in Ingests : Sees(ingest[c])

\* The calls that still have to count their episode.
Waiting(k) == {c \in Ingests : ingest[c].pc = "stats" /\ KeyOf(ingest[c].r) = k}

LEMMA KeyTyped == \A r \in Results : KeyOf(r) \in Keys
BY LearnerAssumption DEF KeyOf, Keys

LEMMA WaitingFinite ==
  ASSUME NEW k PROVE IsFiniteSet(Waiting(k)) /\ Pending(k) = Cardinality(Waiting(k)) /\ Pending(k) \in Nat
<1>1. IsFiniteSet(Waiting(k))
  BY LearnerAssumption, FS_Subset DEF Waiting
<1>. QED  BY <1>1, FS_CardinalityType DEF Waiting, Pending

LEMMA TrialsTyped == ASSUME LearnerTypeOK, NEW k \in Keys PROVE Trials(k) \in Nat
BY DEF LearnerTypeOK, Trials, Rows

\* A call that goes on with the next statement.
LEMMA CallMoves ==
  ASSUME LearnerTypeOK, NEW c \in Ingests, NEW x \in Calls, ingest' = [ingest EXCEPT ![c] = x]
  PROVE  /\ ingest' \in [Ingests -> Calls] /\ ingest'[c] = x
         /\ \A d \in Ingests : d # c => ingest'[d] = ingest[d]
BY DEF LearnerTypeOK

LEMMA GotoMoves ==
  ASSUME LearnerTypeOK, NEW c \in Ingests,
         NEW pc \in Places, IngestGoto(c, pc)
  PROVE  /\ ingest' \in [Ingests -> Calls] /\ ingest'[c].pc = pc
         /\ ingest'[c].r = ingest[c].r /\ ingest'[c].seen = ingest[c].seen
         /\ ingest'[c].own = ingest[c].own
         /\ \A d \in Ingests : d # c => ingest'[d] = ingest[d]
<1> DEFINE x == [ingest[c] EXCEPT !.pc = pc]
<1>1. ingest[c] \in Calls
  BY DEF LearnerTypeOK
<1>2. x \in Calls /\ x.pc = pc /\ x.r = ingest[c].r /\ x.seen = ingest[c].seen
  BY <1>1 DEF Calls
<1>3. x.own = ingest[c].own
  BY <1>1, Zenon DEF Calls
<1>4. ingest' = [ingest EXCEPT ![c] = x]
  BY DEF IngestGoto
<1> HIDE DEF x
<1>5. /\ ingest' \in [Ingests -> Calls] /\ ingest'[c] = x
      /\ \A d \in Ingests : d # c => ingest'[d] = ingest[d]
  BY <1>2, <1>4, CallMoves
<1>. QED  BY <1>2, <1>3, <1>5, Zenon

\* Who waits changes at most for the call that moves.
LEMMA WaitingStays ==
  ASSUME NEW c \in Ingests, \A d \in Ingests : d # c => ingest'[d] = ingest[d],
         ingest[c].pc # "stats", ingest'[c].pc # "stats"
  PROVE  \A k \in Keys : Pending(k)' = Pending(k)
<1>1. \A k \in Keys : \A d \in Ingests : /\ ingest'[d].pc = "stats" /\ KeyOf(ingest'[d].r) = k
                                      <=> ingest[d].pc = "stats" /\ KeyOf(ingest[d].r) = k
  BY Zenon
<1>. QED  BY <1>1, Zenon DEF Pending

LEMMA WaitingOneMore ==
  ASSUME LearnerTypeOK, NEW c \in Ingests, \A d \in Ingests : d # c => ingest'[d] = ingest[d],
         ingest[c].pc # "stats", ingest'[c].pc = "stats", ingest'[c].r = ingest[c].r,
         NEW k \in Keys
  PROVE  Pending(k)' = IF k = KeyOf(ingest[c].r) THEN Pending(k) + 1 ELSE Pending(k)
<1>1. CASE k = KeyOf(ingest[c].r)
  <2>1. Waiting(k)' = Waiting(k) \cup {c} /\ c \notin Waiting(k)
    BY <1>1, Zenon DEF Waiting
  <2>2. Cardinality(Waiting(k)') = Cardinality(Waiting(k)) + 1
    BY <2>1, WaitingFinite, FS_AddElement
  <2>. QED  BY <1>1, <2>2 DEF Waiting, Pending
<1>2. CASE k # KeyOf(ingest[c].r)
  <2>1. Waiting(k)' = Waiting(k)
    BY <1>2, Zenon DEF Waiting
  <2>. QED  BY <1>2, <2>1 DEF Waiting, Pending
<1>. QED  BY <1>1, <1>2

LEMMA WaitingOneLess ==
  ASSUME LearnerTypeOK, NEW c \in Ingests, \A d \in Ingests : d # c => ingest'[d] = ingest[d],
         ingest[c].pc = "stats", ingest'[c].pc # "stats", NEW k \in Keys
  PROVE  IF k = KeyOf(ingest[c].r) THEN Pending(k) = Pending(k)' + 1 /\ Pending(k)' \in Nat
                                   ELSE Pending(k)' = Pending(k)
<1>1. CASE k = KeyOf(ingest[c].r)
  <2>1. Waiting(k)' = Waiting(k) \ {c} /\ c \in Waiting(k)
    BY <1>1, Zenon DEF Waiting
  <2>2. Cardinality(Waiting(k)') = Cardinality(Waiting(k)) - 1 /\ IsFiniteSet(Waiting(k)')
    BY <2>1, WaitingFinite, FS_RemoveElement
  <2>3. Cardinality(Waiting(k)') \in Nat /\ Cardinality(Waiting(k)) \in Nat
    BY <2>2, WaitingFinite, FS_CardinalityType
  <2>4. Cardinality(Waiting(k)) = Cardinality(Waiting(k)') + 1
    BY <2>2, <2>3
  <2>. QED  BY <1>1, <2>3, <2>4 DEF Waiting, Pending
<1>2. CASE k # KeyOf(ingest[c].r)
  <2>1. Waiting(k)' = Waiting(k)
    BY <1>2, Zenon DEF Waiting
  <2>. QED  BY <1>2, <2>1 DEF Waiting, Pending
<1>. QED  BY <1>1, <1>2

\* What calls saw and what was recorded stays as it is while no outcome is added.
LEMMA SeesStays ==
  ASSUME UNCHANGED outcomes
  PROVE  /\ OutcomesFit => OutcomesFit'
         /\ \A x : Sees(x)' <=> Sees(x)
BY Zenon DEF OutcomesFit, RowFits, NoneRejects, LatestOf, Sees

\* The answer a call waits for is another statement's result, or as it was.
LEMMA AskedNone == ASSUME result'.by = {} PROVE Asked'
BY Zenon DEF Asked

LEMMA AskedStays ==
  ASSUME Asked, UNCHANGED outcomes, UNCHANGED result, NEW c, ingest[c].pc # "fetch",
         \A d \in Ingests : d # c => ingest'[d] = ingest[d]
  PROVE  Asked'
<1>1. ASSUME NEW d \in result.by
      PROVE  /\ d \in Ingests /\ ingest'[d].pc = "fetch" /\ result'.kind = "outcomes"
             /\ (result.found = LatestOutcome(ingest[d].seen))'
  <2>1. d \in Ingests /\ ingest'[d] = ingest[d]
    BY Zenon DEF Asked
  <2>2. PICK S : S = ingest[d].seen
    OBVIOUS
  <2>3. result.found = LatestOutcome(S)
    BY <2>2, Zenon DEF Asked
  <2>4. (result.found = LatestOutcome(S))'
    BY <2>3, Zenon DEF LatestOutcome, LatestOf
  <2>. QED  BY <2>1, <2>2, <2>4, Zenon DEF Asked, LatestOutcome, LatestOf
<1>. QED  BY <1>1, Zenon DEF Asked

LEMMA NobodyAsked == Spent.by = {} /\ Counted.by = {} /\ OfOthers.by = {}
BY DEF Spent, Counted, OfOthers

LEMMA LearnerSuggests ==
  ASSUME LearnerInv, NEW x \in Contexts, Suggest(x)
  PROVE  LearnerInv'
<1>1. LearnerTypeOK /\ CountsHold
  BY DEF LearnerInv
<1> DEFINE none == [wins |-> 0, losses |-> 0]
           all == DOMAIN stats \cup (Strategies \X {x})
<1>2. none \in Rows /\ none.wins + none.losses = 0 /\ all \subseteq Keys
  BY <1>1 DEF Rows, Keys, LearnerTypeOK
<1>3. stats' = [k \in all |-> IF k \in DOMAIN stats THEN stats[k] ELSE none]
  BY DEF Suggest, WithPriors
<1> HIDE DEF none
<1>4. LearnerTypeOK'
  BY <1>1, <1>2, <1>3 DEF LearnerTypeOK, Suggest
<1>5. ASSUME NEW k \in Keys PROVE Trials(k)' = Trials(k)
  <2>1. CASE k \in DOMAIN stats
    BY <1>3, <2>1 DEF Trials
  <2>2. CASE k \notin DOMAIN stats
    BY <1>2, <1>3, <2>2, Zenon DEF Trials
  <2>. QED  BY <2>1, <2>2
<1>6. CountsHold'
  BY <1>1, <1>5, Zenon DEF Suggest, CountsHold, EpisodesOf, Pending
<1>7. Asked'
  BY NobodyAsked, AskedNone, Zenon DEF Suggest
<1>. QED  BY <1>4, <1>6, <1>7, SeesStays, Zenon DEF LearnerInv, Suggest


\* A call moves and no row is written.
LEMMA QuietCall ==
  ASSUME LearnerInv, UNCHANGED <<stats, episodes, outcomes, uncounted>>, clock' \in Nat,
         NEW c \in Ingests, ingest' \in [Ingests -> Calls],
         \A d \in Ingests : d # c => ingest'[d] = ingest[d],
         ingest[c].pc # "stats", ingest'[c].pc # "stats", Sees(ingest'[c]), Asked'
  PROVE  LearnerInv'
<1>1. LearnerTypeOK /\ CountsHold
  BY DEF LearnerInv
<1>2. LearnerTypeOK'
  BY <1>1 DEF LearnerTypeOK
<1>3. \A k \in Keys : Pending(k)' = Pending(k)
  BY WaitingStays
<1>4. CountsHold'
  BY <1>1, <1>3, Zenon DEF CountsHold, EpisodesOf, Trials
<1>5. \A d \in Ingests : Sees(ingest'[d])
  BY Zenon DEF LearnerInv
<1>. QED  BY <1>2, <1>4, <1>5, SeesStays, Zenon DEF LearnerInv

LEMMA LearnerChecks ==
  ASSUME LearnerInv, NEW c \in Ingests, Check(c)
  PROVE  LearnerInv'
<1> DEFINE r == ingest[c].r
           seen == OutcomesOf(r.task)
<1>1. /\ ingest[c] \in Calls /\ ingest[c].pc = "check" /\ clock' \in Nat
      /\ UNCHANGED <<stats, episodes, outcomes, clock, uncounted>> /\ Sees(ingest[c])
      /\ seen \in SUBSET Nat /\ seen \subseteq DOMAIN outcomes /\ LearnerTypeOK
  BY DEF LearnerInv, LearnerTypeOK, Check, OutcomesOf
<1>2. CASE r.forbidden \/ r.patch = NoHash
  <2> DEFINE pc == IF r.forbidden THEN "done" ELSE "episode"
  <2>1. pc \in {"done", "episode"} /\ (pc = "episode" => ~r.forbidden)
    OBVIOUS
  <2>2. IngestGoto(c, pc) /\ UNCHANGED result
    BY <1>2, Zenon DEF Check
  <2> HIDE DEF pc
  <2>3. /\ ingest' \in [Ingests -> Calls] /\ ingest'[c].pc = pc
        /\ ingest'[c].r = r /\ ingest'[c].seen = ingest[c].seen
        /\ ingest'[c].own = ingest[c].own
        /\ \A d \in Ingests : d # c => ingest'[d] = ingest[d]
    <3>1. pc \in Places
      BY <2>1 DEF Places
    <3>. QED  BY <1>1, <2>2, <3>1, GotoMoves
  <2>4. Sees(ingest'[c])
    BY <1>1, <2>1, <2>3, Zenon DEF Sees
  <2>5. Asked'
    BY <1>1, <2>2, <2>3, AskedStays DEF LearnerInv
  <2>6. ingest'[c].pc # "stats"
    BY <2>1, <2>3
  <2>. QED  BY <1>1, <2>3, <2>4, <2>5, <2>6, QuietCall
<1>3. CASE ~r.forbidden /\ r.patch # NoHash
  <2> DEFINE x == [ingest[c] EXCEPT !.pc = "fetch", !.seen = seen]
  <2>1. /\ ingest' = [ingest EXCEPT ![c] = x]
        /\ result' = [kind |-> "outcomes", by |-> {c},
                      found |-> LatestOutcome(seen)]
    BY <1>3, Zenon DEF Check
  <2>2. x \in Calls /\ x.pc = "fetch" /\ x.r = r /\ x.seen = seen
    <3> HIDE DEF seen
    <3>. QED  BY <1>1 DEF Calls, Places
  <2> HIDE DEF x
  <2>3. /\ ingest' \in [Ingests -> Calls] /\ ingest'[c] = x
        /\ \A d \in Ingests : d # c => ingest'[d] = ingest[d]
    BY <1>1, <2>1, <2>2, CallMoves
  <2>4. Sees(x)
    BY <1>1, <1>3, <2>2 DEF Sees
  <2> HIDE DEF seen
  <2>5. /\ result'.kind = "outcomes" /\ result'.by = {c}
        /\ result'.found = LatestOutcome(seen)
    BY <2>1
  <2>7. Asked'
    <3>1. PICK S : S = seen
      OBVIOUS
    <3>2. ingest'[c].seen = S /\ ingest'[c].pc = "fetch"
      BY <2>2, <2>3, <3>1
    <3>3. (result.found = LatestOutcome(S))'
      BY <1>1, <2>5, <3>1, Zenon DEF LatestOutcome, LatestOf
    <3>. QED  BY <2>5, <3>2, <3>3, Zenon DEF Asked, LatestOutcome, LatestOf
  <2>. QED  BY <1>1, <2>2, <2>3, <2>4, <2>7, QuietCall
<1>. QED  BY <1>2, <1>3

LEMMA LearnerFetches ==
  ASSUME LearnerInv, NEW c \in Ingests, Fetch(c)
  PROVE  LearnerInv'
<1>1. /\ ingest[c] \in Calls /\ ingest[c].pc = "fetch" /\ clock' \in Nat /\ LearnerTypeOK
      /\ UNCHANGED <<stats, episodes, outcomes, clock, uncounted>> /\ Sees(ingest[c])
      /\ result' = Spent
  BY DEF LearnerInv, LearnerTypeOK, Fetch
<1> DEFINE b == c \in result.by
           r == ingest[c].r
<1>2. PICK pc \in {"episode", "done"} :
           /\ ingest' = [ingest EXCEPT ![c].pc = pc, ![c].own = c \in result.by]
           /\ result.kind = "count" => pc = "done"
           /\ result.kind = "outcomes" =>
                  (pc = "done" <=> \E prev \in result.found : Rejected(prev, ingest[c].r))
  BY Zenon DEF Fetch
<1>3. pc = "episode" /\ b => NoneRejects(ingest[c].seen, r)
  <2>. SUFFICES ASSUME pc = "episode", b, NEW j \in LatestOf(ingest[c].seen)
                PROVE  ~Rejected(outcomes[j].r, r)
    BY Zenon DEF NoneRejects
  <2>1. result.kind = "outcomes" /\ outcomes[j].r \in result.found
    BY Zenon DEF LearnerInv, Asked, LatestOutcome
  <2>2. pc # "done"
    OBVIOUS
  <2>. QED  BY <1>2, <2>1, <2>2, Zenon
<1>4. b \in BOOLEAN
  OBVIOUS
<1> DEFINE x == [ingest[c] EXCEPT !.pc = pc, !.own = b]
<1>5. ingest' = [ingest EXCEPT ![c] = x]
  BY <1>2
<1> HIDE DEF b
<1>6. x \in Calls /\ x.pc = pc /\ x.r = r /\ x.seen = ingest[c].seen
  BY <1>1, <1>4 DEF Calls, Places
<1>7. x.own = b
  BY <1>1, Zenon DEF Calls
<1> HIDE DEF x
<1>8. /\ ingest' \in [Ingests -> Calls] /\ ingest'[c] = x
      /\ \A d \in Ingests : d # c => ingest'[d] = ingest[d]
  BY <1>1, <1>5, <1>6, CallMoves
<1>9. pc # "check" /\ pc # "stats"
  OBVIOUS
<1>10. Sees(x)
  <2>1. ~r.forbidden
    BY <1>1 DEF Sees
  <2>. QED  BY <1>1, <1>3, <1>6, <1>7, <1>9, <2>1, Zenon DEF Sees
<1>11. Asked'
  BY <1>1, NobodyAsked, AskedNone
<1>. QED  BY <1>1, <1>6, <1>8, <1>9, <1>10, <1>11, QuietCall

LEMMA LearnerStamps ==
  ASSUME LearnerInv, NEW c \in Ingests, StampOutcome(c)
  PROVE  LearnerInv'
<1>1. /\ ingest[c] \in Calls /\ ingest[c].pc = "outcome" /\ LearnerTypeOK
      /\ UNCHANGED <<stats, episodes, outcomes, result, uncounted>> /\ Sees(ingest[c])
      /\ clock' \in Nat
  BY DEF LearnerInv, LearnerTypeOK, StampOutcome
<1>2. PICK t \in Nat : t = clock'
  BY <1>1
<1> DEFINE x == [ingest[c] EXCEPT !.pc = "insert", !.ts = t]
<1>3. ingest' = [ingest EXCEPT ![c] = x]
  BY <1>2 DEF StampOutcome
<1>4. x \in Calls /\ x.pc = "insert" /\ x.r = ingest[c].r /\ x.seen = ingest[c].seen
  BY <1>1 DEF Calls, Places
<1>5. x.own = ingest[c].own
  BY <1>1, Zenon DEF Calls
<1> HIDE DEF x
<1>6. /\ ingest' \in [Ingests -> Calls] /\ ingest'[c] = x
      /\ \A d \in Ingests : d # c => ingest'[d] = ingest[d]
  BY <1>1, <1>3, <1>4, CallMoves
<1>7. Sees(x)
  BY <1>1, <1>4, <1>5, Zenon DEF Sees
<1>8. Asked'
  BY <1>1, <1>6, AskedStays DEF LearnerInv
<1>. QED  BY <1>1, <1>4, <1>6, <1>7, <1>8, QuietCall

LEMMA LearnerStoresEpisode ==
  ASSUME LearnerInv, NEW c \in Ingests, InsertEpisode(c)
  PROVE  LearnerInv'
<1>1. /\ LearnerTypeOK /\ CountsHold /\ ingest[c] \in Calls /\ ingest[c].pc = "episode"
      /\ episodes \in Seq(Results) /\ ingest[c].r \in Results
  BY DEF LearnerInv, LearnerTypeOK, InsertEpisode, Calls
<1> DEFINE r == ingest[c].r
           n == Len(episodes)
<1>2. /\ ingest' \in [Ingests -> Calls] /\ ingest'[c].pc = "stats"
      /\ ingest'[c].r = r /\ ingest'[c].seen = ingest[c].seen
      /\ ingest'[c].own = ingest[c].own
      /\ \A d \in Ingests : d # c => ingest'[d] = ingest[d]
  BY <1>1, GotoMoves DEF InsertEpisode, Places
<1>3. episodes' = Append(episodes, r) /\ UNCHANGED <<stats, outcomes, clock, uncounted>>
  BY DEF InsertEpisode
<1>4. /\ episodes' \in Seq(Results) /\ n \in Nat
      /\ DOMAIN episodes = 1..n /\ DOMAIN episodes' = 1..(n + 1)
      /\ episodes'[n + 1] = r /\ \A i \in 1..n : episodes'[i] = episodes[i]
  BY <1>1, <1>3, Grows
<1>5. ASSUME NEW k \in Keys
      PROVE  EpisodesOf(k)' = IF k = KeyOf(r) THEN EpisodesOf(k) + 1 ELSE EpisodesOf(k)
  <2> DEFINE old == {i \in 1..n : KeyOf(episodes[i]) = k}
             m == n + 1
  <2>1. IsFiniteSet(old) /\ m \notin old
    <3>1. m \notin 1..n
      BY <1>4
    <3>2. IsFiniteSet(1..n)
      BY <1>4, FS_Interval, 1 \in Int, n \in Int
    <3>. QED  BY <3>1, <3>2, FS_Subset
  <2>2. EpisodesOf(k) = Cardinality(old)
    BY <1>4, Zenon DEF EpisodesOf
  <2>3. \A i \in 1..m : i \in 1..n \/ i = m
    BY <1>4
  <2>4. m \in 1..m /\ 1..n \subseteq 1..m
    BY <1>4
  <2> HIDE DEF r
  <2>5. {i \in DOMAIN episodes' : KeyOf(episodes'[i]) = k} = IF k = KeyOf(r) THEN old \cup {m} ELSE old
    <3>1. CASE k = KeyOf(r)
      BY <1>4, <2>3, <2>4, <3>1, Zenon
    <3>2. CASE k # KeyOf(r)
      BY <1>4, <2>3, <2>4, <3>2, Zenon
    <3>. QED  BY <3>1, <3>2
  <2> HIDE DEF old, m
  <2>6. Cardinality(old \cup {m}) = Cardinality(old) + 1
    BY <2>1, FS_AddElement
  <2>. QED  BY <2>2, <2>5, <2>6 DEF EpisodesOf
<1>6. \A k \in Keys : Pending(k)' = IF k = KeyOf(r) THEN Pending(k) + 1 ELSE Pending(k)
  BY <1>1, <1>2, WaitingOneMore
<1>7. ASSUME NEW k \in Keys PROVE EpisodesOf(k)' = Trials(k)' + Pending(k)' + uncounted'[k]
  <2>1. EpisodesOf(k) = Trials(k) + Pending(k) + uncounted[k] /\ Trials(k)' = Trials(k)
    BY <1>1, <1>3, Zenon DEF CountsHold, Trials
  <2>2. Trials(k) \in Nat /\ Pending(k) \in Nat /\ uncounted[k] \in Nat
    BY <1>1, TrialsTyped, WaitingFinite DEF LearnerTypeOK
  <2>. QED  BY <1>3, <1>5, <1>6, <2>1, <2>2
<1>8. CountsHold'
  BY <1>7 DEF CountsHold
<1>9. LearnerTypeOK'
  BY <1>1, <1>2, <1>3, <1>4 DEF LearnerTypeOK
<1>10. \A d \in Ingests : Sees(ingest'[d])
  <2>1. Sees(ingest[c]) => Sees(ingest'[c])
    BY <1>1, <1>2, Zenon DEF Sees
  <2>. QED  BY <1>2, <2>1, Zenon DEF LearnerInv
<1>11. Asked'
  BY NobodyAsked, AskedNone DEF InsertEpisode
<1>. QED  BY <1>3, <1>8, <1>9, <1>10, <1>11, SeesStays, Zenon DEF LearnerInv

LEMMA LearnerCounts ==
  ASSUME LearnerInv, NEW c \in Ingests, UpdateStats(c)
  PROVE  LearnerInv'
<1> DEFINE r == ingest[c].r
           key == KeyOf(r)
           pc == IF r.patch # NoHash THEN "outcome" ELSE "failure"
<1>1. /\ LearnerTypeOK /\ CountsHold /\ ingest[c] \in Calls /\ ingest[c].pc = "stats" /\ r \in Results
      /\ key \in Keys /\ r.success \in BOOLEAN
  BY KeyTyped, LearnerAssumption DEF LearnerInv, LearnerTypeOK, UpdateStats, Calls
<1>2. pc \in {"outcome", "failure"}
  OBVIOUS
<1>3. IngestGoto(c, pc) /\ UNCHANGED <<episodes, outcomes, clock>>
  BY DEF UpdateStats
<1> HIDE DEF pc
<1>4. /\ ingest' \in [Ingests -> Calls] /\ ingest'[c].pc = pc
      /\ ingest'[c].r = r /\ ingest'[c].seen = ingest[c].seen
      /\ ingest'[c].own = ingest[c].own
      /\ \A d \in Ingests : d # c => ingest'[d] = ingest[d]
  BY <1>1, <1>2, <1>3, GotoMoves DEF Places
<1>5. \A k \in Keys : IF k = key THEN Pending(k) = Pending(k)' + 1 /\ Pending(k)' \in Nat
                                 ELSE Pending(k)' = Pending(k)
  <2>1. pc # "stats"
    BY <1>2
  <2>. QED  BY <1>1, <1>4, <2>1, WaitingOneLess
<1>6. ASSUME key \in DOMAIN stats PROVE LearnerTypeOK' /\ CountsHold'
  <2> DEFINE old == stats[key]
             row == Tallied(old, r.success)
  <2>1. stats' = [stats EXCEPT ![key] = row] /\ uncounted' = uncounted
    BY <1>6 DEF UpdateStats
  <2>2. old \in Rows
    BY <1>1, <1>6 DEF LearnerTypeOK
  <2> HIDE DEF old, key
  <2>3. row \in Rows /\ row.wins + row.losses = old.wins + old.losses + 1
    <3>1. [old EXCEPT !.wins = @ + 1] \in Rows /\ [old EXCEPT !.losses = @ + 1] \in Rows
      BY <2>2 DEF Rows
    <3>2. /\ [old EXCEPT !.wins = @ + 1].wins = old.wins + 1 /\ [old EXCEPT !.wins = @ + 1].losses = old.losses
          /\ [old EXCEPT !.losses = @ + 1].losses = old.losses + 1 /\ [old EXCEPT !.losses = @ + 1].wins = old.wins
          /\ old.wins \in Nat /\ old.losses \in Nat
      BY <2>2 DEF Rows
    <3>3. CASE r.success
      <4>1. row = [old EXCEPT !.wins = @ + 1]
        BY <3>3, Zenon DEF Tallied
      <4>. QED  BY <3>1, <3>2, <4>1
    <3>4. CASE ~r.success
      <4>1. row = [old EXCEPT !.losses = @ + 1]
        BY <3>4, Zenon DEF Tallied
      <4>. QED  BY <3>1, <3>2, <4>1
    <3>. QED  BY <3>3, <3>4
  <2> HIDE DEF row
  <2>4. /\ DOMAIN stats' = DOMAIN stats /\ stats'[key] = row
        /\ \A k \in DOMAIN stats : k # key => stats'[k] = stats[k]
    BY <1>6, <2>1
  <2>5. LearnerTypeOK'
    BY <1>1, <1>3, <1>4, <2>1, <2>3, <2>4 DEF LearnerTypeOK
  <2>6. ASSUME NEW k \in Keys PROVE Trials(k)' = IF k = key THEN Trials(k) + 1 ELSE Trials(k)
    BY <1>6, <2>3, <2>4 DEF Trials, old
  <2>7. ASSUME NEW k \in Keys PROVE EpisodesOf(k)' = Trials(k)' + Pending(k)' + uncounted'[k]
    <3>1. EpisodesOf(k) = Trials(k) + Pending(k) + uncounted[k] /\ EpisodesOf(k)' = EpisodesOf(k)
      BY <1>1, <1>3, Zenon DEF CountsHold, EpisodesOf
    <3>2. Trials(k) \in Nat /\ Pending(k) \in Nat /\ uncounted[k] \in Nat
      BY <1>1, TrialsTyped, WaitingFinite DEF LearnerTypeOK
    <3>. QED  BY <1>5, <2>1, <2>6, <3>1, <3>2
  <2>. QED  BY <2>5, <2>7 DEF CountsHold
<1>7. ASSUME key \notin DOMAIN stats PROVE LearnerTypeOK' /\ CountsHold'
  <2>1. stats' = stats /\ uncounted' = [uncounted EXCEPT ![key] = @ + 1]
    BY <1>7, Zenon DEF UpdateStats
  <2> HIDE DEF key
  <2>2. /\ uncounted' \in [Keys -> Nat] /\ uncounted'[key] = uncounted[key] + 1
        /\ \A k \in Keys : k # key => uncounted'[k] = uncounted[k]
    BY <1>1, <2>1 DEF LearnerTypeOK
  <2>3. LearnerTypeOK'
    BY <1>1, <1>3, <1>4, <2>1, <2>2 DEF LearnerTypeOK
  <2>4. ASSUME NEW k \in Keys PROVE EpisodesOf(k)' = Trials(k)' + Pending(k)' + uncounted'[k]
    <3>1. /\ EpisodesOf(k) = Trials(k) + Pending(k) + uncounted[k] /\ EpisodesOf(k)' = EpisodesOf(k)
          /\ Trials(k)' = Trials(k)
      BY <1>1, <1>3, <2>1, Zenon DEF CountsHold, EpisodesOf, Trials
    <3>2. Trials(k) \in Nat /\ Pending(k) \in Nat /\ uncounted[k] \in Nat
      BY <1>1, TrialsTyped, WaitingFinite DEF LearnerTypeOK
    <3>. QED  BY <1>5, <2>2, <3>1, <3>2
  <2>. QED  BY <2>3, <2>4 DEF CountsHold
<1>8. \A d \in Ingests : Sees(ingest'[d])
  <2>1. Sees(ingest[c]) => Sees(ingest'[c])
    <3>1. pc # "check"
      BY <1>2
    <3>. QED  BY <1>1, <1>4, <3>1, Zenon DEF Sees
  <2>. QED  BY <1>4, <2>1, Zenon DEF LearnerInv
<1>9. LearnerTypeOK' /\ CountsHold'
  <2>1. CASE key \in DOMAIN stats
    BY <1>6, <2>1
  <2>. QED  BY <2>1, <1>7
<1>10. Asked'
  BY NobodyAsked, AskedNone DEF UpdateStats
<1>. QED  BY <1>3, <1>8, <1>9, <1>10, SeesStays, Zenon DEF LearnerInv

\* An outcome that is added changes nothing for what was seen before.
LEMMA OutcomeAdded ==
  ASSUME LearnerTypeOK, NEW row \in OutcomeRows, outcomes' = Append(outcomes, row)
  PROVE  /\ outcomes' \in Seq(OutcomeRows)
         /\ DOMAIN outcomes \subseteq DOMAIN outcomes'
         /\ \A i \in DOMAIN outcomes' : outcomes'[i] = row \/ i \in DOMAIN outcomes
         /\ \A i \in DOMAIN outcomes : outcomes'[i] = outcomes[i]
<1> DEFINE n == Len(outcomes)
<1>1. /\ outcomes' \in Seq(OutcomeRows) /\ n \in Nat
      /\ DOMAIN outcomes' = 1..(n + 1) /\ DOMAIN outcomes = 1..n
      /\ outcomes'[n + 1] = row
      /\ \A i \in 1..n : outcomes'[i] = outcomes[i]
  BY Grows DEF LearnerTypeOK
<1> HIDE DEF n
<1>2. 1..n \subseteq 1..(n + 1) /\ \A i \in 1..(n + 1) : i \in 1..n \/ i = n + 1
  BY <1>1
<1>. QED  BY <1>1, <1>2, Zenon

LEMMA NoneRejectsStays ==
  ASSUME \A i \in DOMAIN outcomes : outcomes'[i] = outcomes[i],
         NEW S, S \subseteq DOMAIN outcomes, NEW r, NoneRejects(S, r)
  PROVE  NoneRejects(S, r)'
<1>1. \A i \in S : outcomes'[i] = outcomes[i]
  BY Zenon
<1>. SUFFICES ASSUME NEW j \in LatestOf(S)' PROVE ~Rejected(outcomes'[j].r, r)
  BY Zenon DEF NoneRejects
<1>2. j \in S /\ \A i \in S : outcomes'[i].ts <= outcomes'[j].ts
  BY Zenon DEF LatestOf
<1>3. j \in S /\ \A i \in S : outcomes[i].ts <= outcomes[j].ts
  BY <1>1, <1>2, Zenon
<1>4. j \in LatestOf(S)
  BY <1>3, Zenon DEF LatestOf
<1>. QED  BY <1>1, <1>3, <1>4, Zenon DEF NoneRejects

LEMMA LearnerStoresOutcome ==
  ASSUME LearnerInv, NEW c \in Ingests, InsertOutcome(c)
  PROVE  LearnerInv'
<1>1. /\ LearnerTypeOK /\ CountsHold /\ ingest[c] \in Calls /\ ingest[c].pc = "insert"
      /\ IngestGoto(c, "failure") /\ UNCHANGED <<stats, episodes, clock, uncounted>>
  BY DEF LearnerInv, LearnerTypeOK, InsertOutcome
<1>2. PICK x \in Calls : x = ingest[c]
  BY <1>1
<1> DEFINE row == [r |-> x.r, ts |-> x.ts, seen |-> x.seen, own |-> x.own]
<1>3. outcomes' = Append(outcomes, row)
  BY <1>2, Zenon DEF InsertOutcome
<1>4. row.r = x.r /\ row.seen = x.seen
  BY Zenon
<1>5. row.own = x.own
  BY Zenon
<1>6. row \in OutcomeRows
  BY <1>2 DEF OutcomeRows, Calls
<1> HIDE DEF row
<1>7. /\ outcomes' \in Seq(OutcomeRows)
      /\ DOMAIN outcomes \subseteq DOMAIN outcomes'
      /\ \A i \in DOMAIN outcomes' : outcomes'[i] = row \/ i \in DOMAIN outcomes
      /\ \A i \in DOMAIN outcomes : outcomes'[i] = outcomes[i]
  BY <1>1, <1>3, <1>6, OutcomeAdded
<1>8. /\ ingest' \in [Ingests -> Calls] /\ ingest'[c].pc = "failure"
      /\ ingest'[c].r = ingest[c].r /\ ingest'[c].seen = ingest[c].seen
      /\ \A d \in Ingests : d # c => ingest'[d] = ingest[d]
  BY <1>1, GotoMoves DEF Places
<1>9. \A y : Sees(y) => Sees(y)'
  <2>. TAKE y
  <2>. SUFFICES ASSUME Sees(y) PROVE Sees(y)'
    OBVIOUS
  <2>1. y.seen \subseteq DOMAIN outcomes /\ y.seen \subseteq DOMAIN outcomes'
    BY <1>7, Zenon DEF Sees
  <2>2. NoneRejects(y.seen, y.r) => NoneRejects(y.seen, y.r)'
    BY <1>7, <2>1, NoneRejectsStays, Zenon
  <2>. QED  BY <2>1, <2>2, Zenon DEF Sees
<1>10. \A y : RowFits(y) => RowFits(y)'
  <2>. TAKE y
  <2>. SUFFICES ASSUME RowFits(y) PROVE RowFits(y)'
    OBVIOUS
  <2>1. y.seen \subseteq DOMAIN outcomes /\ y.seen \subseteq DOMAIN outcomes'
    BY <1>7, Zenon DEF RowFits
  <2>2. NoneRejects(y.seen, y.r) => NoneRejects(y.seen, y.r)'
    BY <1>7, <2>1, NoneRejectsStays, Zenon
  <2>. QED  BY <2>1, <2>2, Zenon DEF RowFits
<1>11. RowFits(row)
  <2>1. Sees(x)
    BY <1>2, Zenon DEF LearnerInv
  <2>2. x.pc = "insert"
    BY <1>1, <1>2
  <2>. QED  BY <1>4, <1>5, <2>1, <2>2, Zenon DEF Sees, RowFits
<1>12. OutcomesFit'
  <2>1. ASSUME NEW i \in DOMAIN outcomes' PROVE RowFits(outcomes[i])'
    <3>1. CASE outcomes'[i] = row
      BY <1>10, <1>11, <3>1, Zenon DEF RowFits
    <3>2. CASE i \in DOMAIN outcomes
      BY <1>7, <1>10, <3>2, Zenon DEF LearnerInv, OutcomesFit, RowFits
    <3>. QED  BY <1>7, <3>1, <3>2
  <2>. QED  BY <2>1, Zenon DEF OutcomesFit
<1>13. \A d \in Ingests : Sees(ingest[d])'
  <2>1. Sees(ingest[c])'
    <3>1. ingest'[c].seen \subseteq DOMAIN outcomes /\ ~ingest'[c].r.forbidden
      BY <1>1, <1>8 DEF LearnerInv, Sees
    <3>. QED  BY <1>7, <1>8, <3>1 DEF Sees
  <2>2. ASSUME NEW d \in Ingests, d # c PROVE Sees(ingest[d])'
    <3>1. PICK y : y = ingest[d]
      OBVIOUS
    <3>2. Sees(y)' /\ ingest'[d] = y
      BY <1>8, <1>9, <2>2, <3>1, Zenon DEF LearnerInv
    <3>. QED  BY <3>2, Zenon DEF Sees
  <2>. QED  BY <2>1, <2>2
<1>14. \A k \in Keys : Pending(k)' = Pending(k)
  BY <1>1, <1>8, WaitingStays
<1>15. CountsHold'
  BY <1>1, <1>14, Zenon DEF CountsHold, EpisodesOf, Trials
<1>16. LearnerTypeOK'
  BY <1>1, <1>7, <1>8 DEF LearnerTypeOK
<1>17. Asked'
  BY NobodyAsked, AskedNone DEF InsertOutcome
<1>. QED  BY <1>12, <1>13, <1>15, <1>16, <1>17, Zenon DEF LearnerInv

LEMMA LearnerLogsFailure ==
  ASSUME LearnerInv, NEW c \in Ingests, UpsertFailure(c)
  PROVE  LearnerInv'
<1>1. /\ LearnerTypeOK /\ ingest[c].pc = "failure" /\ clock' \in Nat /\ Sees(ingest[c])
      /\ IngestGoto(c, "done") /\ UNCHANGED <<stats, episodes, outcomes, uncounted>>
  BY DEF LearnerInv, LearnerTypeOK, UpsertFailure
<1>2. /\ ingest' \in [Ingests -> Calls] /\ ingest'[c].pc = "done"
      /\ ingest'[c].seen = ingest[c].seen
      /\ \A d \in Ingests : d # c => ingest'[d] = ingest[d]
  BY <1>1, GotoMoves DEF Places
<1>3. Sees(ingest'[c])
  BY <1>1, <1>2 DEF Sees
<1>4. Asked'
  <2>1. CASE UNCHANGED result
    BY <1>1, <1>2, <2>1, AskedStays DEF LearnerInv
  <2>2. CASE result' = Counted
    BY <2>2, NobodyAsked, AskedNone
  <2>3. UNCHANGED result \/ result' = Counted
    BY Zenon DEF UpsertFailure
  <2>. QED  BY <2>1, <2>2, <2>3
<1>. QED  BY <1>1, <1>2, <1>3, <1>4, QuietCall

LEMMA LearnerCrashes ==
  ASSUME LearnerInv, LearnerCrash
  PROVE  LearnerInv'
<1>1. LearnerTypeOK /\ CountsHold /\ UNCHANGED <<stats, episodes, outcomes, clock>>
  BY DEF LearnerInv, LearnerCrash
<1>2. /\ ingest' = [c \in Ingests |-> IF ingest[c].pc = "check" THEN ingest[c] ELSE [ingest[c] EXCEPT !.pc = "done"]]
      /\ uncounted' = [k \in DOMAIN uncounted |-> uncounted[k] + Pending(k)]
  BY DEF LearnerCrash, Pending
<1>3. ASSUME NEW c \in Ingests
      PROVE  /\ ingest'[c] \in Calls /\ ingest'[c].pc \in {"check", "done"}
             /\ ingest'[c].pc = "check" => ingest'[c] = ingest[c]
             /\ ingest'[c].seen = ingest[c].seen
  <2>1. ingest[c] \in Calls
    BY <1>1 DEF LearnerTypeOK
  <2>2. CASE ingest[c].pc = "check"
    BY <1>2, <2>1, <2>2
  <2>3. CASE ingest[c].pc # "check"
    <3> DEFINE x == [ingest[c] EXCEPT !.pc = "done"]
    <3>1. x \in Calls /\ x.pc = "done" /\ x.seen = ingest[c].seen
      BY <2>1 DEF Calls, Places
    <3>2. ingest'[c] = x
      BY <1>2, <2>3
    <3> HIDE DEF x
    <3>. QED  BY <3>1, <3>2
  <2>. QED  BY <2>2, <2>3
<1>4. ASSUME NEW k \in Keys PROVE Pending(k)' = 0
  <2>1. {c \in Ingests : ingest'[c].pc = "stats" /\ KeyOf(ingest'[c].r) = k} = {}
    BY <1>3
  <2>. QED  BY <2>1, FS_EmptySet DEF Pending
<1>5. ASSUME NEW k \in Keys PROVE uncounted'[k] = uncounted[k] + Pending(k) /\ uncounted'[k] \in Nat
  <2>1. DOMAIN uncounted = Keys /\ uncounted[k] \in Nat
    BY <1>1 DEF LearnerTypeOK
  <2>2. Pending(k) \in Nat
    BY WaitingFinite
  <2>. QED  BY <1>2, <2>1, <2>2
<1>6. uncounted' \in [Keys -> Nat]
  <2>1. DOMAIN uncounted' = Keys /\ uncounted' = [k \in DOMAIN uncounted' |-> uncounted'[k]]
    BY <1>1, <1>2 DEF LearnerTypeOK
  <2>. QED  BY <1>5, <2>1
<1>7. ingest' \in [Ingests -> Calls]
  <2>1. DOMAIN ingest' = Ingests /\ ingest' = [k \in Ingests |-> ingest'[k]]
    BY <1>2
  <2>. QED  BY <1>3, <2>1
<1>8. ASSUME NEW k \in Keys PROVE EpisodesOf(k)' = Trials(k)' + Pending(k)' + uncounted'[k]
  <2>1. EpisodesOf(k)' = Trials(k) + Pending(k) + uncounted[k] /\ Trials(k)' = Trials(k)
    BY <1>1, Zenon DEF CountsHold, EpisodesOf, Trials
  <2>2. Trials(k) \in Nat /\ Pending(k) \in Nat /\ uncounted[k] \in Nat
    BY <1>1, TrialsTyped, WaitingFinite DEF LearnerTypeOK
  <2>. QED  BY <1>4, <1>5, <2>1, <2>2
<1>9. ASSUME NEW c \in Ingests PROVE Sees(ingest'[c])
  <2>1. CASE ingest'[c].pc = "check"
    BY <1>3, <2>1, Zenon DEF LearnerInv
  <2>2. CASE ingest'[c].pc = "done"
    <3>1. ingest'[c].seen \subseteq DOMAIN outcomes
      BY <1>3 DEF LearnerInv, Sees
    <3>. QED  BY <2>2, <3>1 DEF Sees
  <2>. QED  BY <1>3, <2>1, <2>2
<1>10. LearnerTypeOK' /\ CountsHold'
  BY <1>1, <1>6, <1>7, <1>8 DEF LearnerTypeOK, CountsHold
<1>11. Asked'
  BY NobodyAsked, AskedNone DEF LearnerCrash
<1>. QED  BY <1>1, <1>9, <1>10, <1>11, SeesStays, Zenon DEF LearnerInv

LEMMA LearnerKeeps == LearnerInv /\ [LearnerNext]_learnerVars => LearnerInv'
<1>. SUFFICES ASSUME LearnerInv, [LearnerNext]_learnerVars PROVE LearnerInv'
  OBVIOUS
<1>1. ASSUME NEW x \in Contexts, Suggest(x) PROVE LearnerInv'
  BY <1>1, LearnerSuggests
<1>2. ASSUME NEW c \in Ingests,
             \/ Check(c) \/ Fetch(c) \/ InsertEpisode(c) \/ UpdateStats(c)
             \/ StampOutcome(c) \/ InsertOutcome(c) \/ UpsertFailure(c)
      PROVE  LearnerInv'
  BY <1>2, LearnerChecks, LearnerFetches, LearnerStoresEpisode, LearnerCounts,
     LearnerStamps, LearnerStoresOutcome, LearnerLogsFailure
<1>3. CASE LearnerCrash
  BY <1>3, LearnerCrashes
<1>4. CASE UNCHANGED learnerVars
  <2>1. /\ stats' = stats /\ episodes' = episodes /\ outcomes' = outcomes /\ ingest' = ingest
        /\ result' = result /\ clock' = clock /\ uncounted' = uncounted
    BY <1>4 DEF learnerVars
  <2>2. LearnerTypeOK'
    BY <2>1, Zenon DEF LearnerInv, LearnerTypeOK
  <2>3. CountsHold'
    <3>1. \A k : EpisodesOf(k)' = EpisodesOf(k)
      BY <2>1, Zenon DEF EpisodesOf
    <3>2. \A k : Trials(k)' = Trials(k)
      BY <2>1, Zenon DEF Trials
    <3>3. \A k : Pending(k)' = Pending(k)
      BY <2>1, Zenon DEF Pending
    <3>. QED  BY <2>1, <3>1, <3>2, <3>3, Zenon DEF LearnerInv, CountsHold
  <2>4. Asked'
    <3>1. ASSUME NEW c \in result.by
          PROVE  /\ c \in Ingests /\ ingest'[c].pc = "fetch" /\ result'.kind = "outcomes"
                 /\ (result.found = LatestOutcome(ingest[c].seen))'
      <4>1. /\ c \in Ingests /\ ingest[c].pc = "fetch" /\ result.kind = "outcomes"
            /\ result.found = LatestOutcome(ingest[c].seen)
        BY Zenon DEF LearnerInv, Asked
      <4>2. (result.found = LatestOutcome(ingest[c].seen))'
        BY <2>1, <4>1, Zenon DEF LatestOutcome, LatestOf
      <4>. QED  BY <2>1, <4>1, <4>2, Zenon
    <3>. QED  BY <2>1, <3>1, Zenon DEF Asked
  <2>. QED  BY <2>1, <2>2, <2>3, <2>4, SeesStays, Zenon DEF LearnerInv
<1>. QED  BY <1>1, <1>2, <1>3, <1>4 DEF LearnerNext

\* Any number of ingests, strategies, contexts and tasks: the statistics count every
\* episode once, but for those that are told to be uncounted; no outcome of forbidden
\* files is kept, and none that the one before it of its task rejects, when the check
\* fetched its own answer and saw every outcome older than it.
THEOREM LearnerTables == LearnerSpec => []LearnerConsistent
<1>1. LearnerInit => LearnerInv
  <2>. SUFFICES ASSUME LearnerInit PROVE LearnerInv
    OBVIOUS
  <2>1. ingest \in
          [Ingests -> [pc : {"check"}, r : Results, ts : {0}, seen : {{}}, own : {FALSE}]]
    BY DEF LearnerInit
  <2>2. \A c \in Ingests :
            ingest[c] \in Calls /\ ingest[c].pc = "check" /\ ingest[c].seen = {} /\ ~ingest[c].own
    <3>1. ASSUME NEW c \in Ingests PROVE ingest[c].own \in {FALSE}
      BY <2>1, Zenon
    <3>2. \A c \in Ingests : ingest[c] \in Calls /\ ingest[c].pc = "check" /\ ingest[c].seen = {}
      <4>1. {FALSE} \subseteq BOOLEAN /\ {{}} \subseteq SUBSET Nat /\ {0} \subseteq Nat
            /\ {"check"} \subseteq Places
        BY DEF Places
      <4>2. ASSUME NEW c \in Ingests
            PROVE  /\ ingest[c].pc \in {"check"} /\ ingest[c].seen \in {{}}
                   /\ ingest[c] \in [pc : {"check"}, r : Results, ts : {0}, seen : {{}}, own : {FALSE}]
        BY <2>1, Zenon
      <4>3. [pc : {"check"}, r : Results, ts : {0}, seen : {{}}, own : {FALSE}] \subseteq Calls
        BY <4>1, Zenon DEF Calls
      <4>. QED  BY <4>2, <4>3, Zenon
    <3>. QED  BY <3>1, <3>2, Zenon
  <2>3. LearnerTypeOK
    BY <2>1, <2>2 DEF LearnerInit, LearnerTypeOK, Keys
  <2>4. ASSUME NEW k \in Keys PROVE EpisodesOf(k) = 0 /\ Trials(k) = 0 /\ Pending(k) = 0 /\ uncounted[k] = 0
    <3>1. {i \in DOMAIN episodes : KeyOf(episodes[i]) = k} = {} /\ k \notin DOMAIN stats /\ uncounted[k] = 0
      BY DEF LearnerInit, Keys
    <3>2. {c \in Ingests : ingest[c].pc = "stats" /\ KeyOf(ingest[c].r) = k} = {}
      BY <2>2
    <3>. QED  BY <3>1, <3>2, FS_EmptySet, Zenon DEF EpisodesOf, Trials, Pending
  <2>5. CountsHold
    BY <2>4 DEF CountsHold
  <2>6. OutcomesFit
    BY DEF LearnerInit, OutcomesFit
  <2>7. \A c \in Ingests : Sees(ingest[c])
    BY <2>2 DEF Sees
  <2>8. Asked
    BY NobodyAsked DEF LearnerInit, Asked
  <2>. QED  BY <2>3, <2>5, <2>6, <2>7, <2>8 DEF LearnerInv
<1>2. LearnerInv => LearnerConsistent
  BY Zenon DEF LearnerInv, LearnerConsistent, CountsHold, OutcomesFit, RowFits, NoneRejects, Keys
<1>. QED  BY <1>1, <1>2, LearnerKeeps, PTL DEF LearnerSpec

-----------------------------------------------------------------------------
(* The memory of the kernel *)

Memories ==
    [store : SUBSET Entries, core : SUBSET Entries, quarantine : SUBSET Entries,
     status : [Entries -> Statuses], unsaved : Seq(Entries), needsFull : BOOLEAN]
FileLines == [entry : Entries, status : Statuses, readable : BOOLEAN]

CoreIn(ls, core) == \A i \in DOMAIN ls : ls[i].readable /\ ls[i].status = "core" => ls[i].entry \in core

\* While no full save is asked for, the file and what waits for it are the store.
Awaited ==
    /\ InStore(file) \subseteq memory.store
    /\ \A e \in memory.store \ unfiled :
           \/ e \in InStore(file)
           \/ \E i \in DOMAIN memory.unsaved :
                  memory.unsaved[i] = e /\ memory.status[e] # "quarantined"
    /\ \A i \in DOMAIN memory.unsaved : memory.unsaved[i] \in memory.store

\* The status by which an axiom is known is the status of an axiom, which is stored.
Marked ==
    \A e \in Entries : memory.status[e] = "core" => e \in memory.core /\ e \in memory.store

FileOK ==
    /\ file \in Seq(FileLines)
    /\ open => file # <<>> /\ ~file[Len(file)].readable

MemoryInv ==
    /\ memory \in Memories /\ FileOK
    /\ Marked
    /\ CoreIn(file, memory.core)
    /\ ~memory.needsFull => Awaited

\* What the readable lines with a stored status, or with that of an axiom, name.
LEMMA StoredLines ==
  ASSUME NEW ls \in Seq(FileLines)
  PROVE  /\ InStore(ls) \subseteq Entries /\ InCore(ls) \subseteq InStore(ls)
         /\ InQuarantine(ls) \subseteq Entries
         /\ \A i \in DOMAIN ls : /\ ls[i].readable /\ ls[i].status # "quarantined" => ls[i].entry \in InStore(ls)
                                 /\ ls[i].readable /\ ls[i].status = "core" => ls[i].entry \in InCore(ls)
         /\ \A e \in InStore(ls) : \E i \in DOMAIN ls :
                ls[i].readable /\ ls[i].entry = e /\ ls[i].status # "quarantined"
         /\ \A e \in InCore(ls) : \E i \in DOMAIN ls :
                ls[i].readable /\ ls[i].entry = e /\ ls[i].status = "core"
<1>1. ASSUME NEW i \in DOMAIN ls PROVE ls[i].entry \in Entries /\ ls[i].status \in Statuses
  <2>1. ls[i] \in FileLines
    OBVIOUS
  <2>. QED  BY <2>1 DEF FileLines
<1>2. \A s \in Statuses : s # "quarantined" <=> s \in {"active", "core"}
  BY DEF Statuses
<1>3. "core" \in {"active", "core"} /\ \A s \in {"core"} : s = "core"
  OBVIOUS
<1>. QED  BY <1>1, <1>2, <1>3, Zenon DEF InStore, InCore, InQuarantine, EntriesOf

LEMMA Loaded ==
  ASSUME NEW ls \in Seq(FileLines)
  PROVE  /\ Load(ls) \in Memories
         /\ Load(ls).store = InStore(ls) /\ Load(ls).core = InCore(ls) /\ Load(ls).unsaved = <<>>
         /\ \A e \in Entries : Load(ls).status[e] = "core" => e \in InCore(ls)
<1> DEFINE st == [e \in Entries |-> LoadedStatus(ls, e)]
           s == InStore(ls)
           c == InCore(ls)
           q == InQuarantine(ls)
<1>1. Load(ls) = [Fresh EXCEPT !.store = s, !.core = c, !.quarantine = q, !.status = st]
  BY Zenon DEF Load
<1>2. s \subseteq Entries /\ c \subseteq s /\ q \subseteq Entries
  BY StoredLines, Zenon
<1>3. ASSUME NEW e \in Entries, CoreAtLast(ls, e) PROVE e \in InCore(ls)
  BY <1>3, StoredLines, Zenon DEF CoreAtLast
<1>4. ASSUME NEW e \in Entries
      PROVE  LoadedStatus(ls, e) \in Statuses /\ (LoadedStatus(ls, e) = "core" => CoreAtLast(ls, e))
  BY DEF LoadedStatus, Statuses
<1>5. st \in [Entries -> Statuses]
  BY <1>4
<1>6. \A e \in Entries : st[e] = "core" => e \in InCore(ls)
  BY <1>3, <1>4
<1> HIDE DEF st, s, c, q
<1>7. /\ Load(ls).store = s /\ Load(ls).core = c /\ Load(ls).status = st
      /\ Load(ls) \in Memories /\ Load(ls).unsaved = <<>>
  <2>1. Fresh \in Memories /\ Fresh.unsaved = <<>>
    BY DEF Fresh, Memories, Statuses
  <2>2. s \in SUBSET Entries /\ c \in SUBSET Entries /\ q \in SUBSET Entries
    BY <1>2
  <2>. QED  BY <1>1, <1>5, <2>1, <2>2 DEF Memories
<1>. QED  BY <1>6, <1>7, Zenon DEF s, c

\* The state after a new process has loaded a file.
LEMMA Reloaded ==
  ASSUME NEW ls \in Seq(FileLines), Restart(ls),
         open' => ls # <<>> /\ ~ls[Len(ls)].readable
  PROVE  MemoryInv'
<1>1. memory' = Load(ls) /\ file' = ls
  BY DEF Restart
<1>2. /\ memory' \in Memories
      /\ memory'.store = InStore(ls) /\ memory'.core = InCore(ls) /\ memory'.unsaved = <<>>
      /\ \A e \in Entries : memory'.status[e] = "core" => e \in InCore(ls)
  BY <1>1, Loaded
<1>3. /\ InCore(ls) \subseteq InStore(ls)
      /\ \A i \in DOMAIN ls : ls[i].readable /\ ls[i].status = "core" => ls[i].entry \in InCore(ls)
  BY StoredLines
<1>4. FileOK'
  BY <1>1, Zenon DEF FileOK
<1>5. CoreIn(file, memory.core)'
  BY <1>1, <1>2, <1>3, Zenon DEF CoreIn
<1>6. Marked'
  BY <1>2, <1>3 DEF Marked
<1>7. Awaited'
  BY <1>1, <1>2 DEF Awaited
<1>. QED  BY <1>2, <1>4, <1>5, <1>6, <1>7, Zenon DEF MemoryInv

\* The sequence of a finite set names each of its elements.
LEMMA SetAsSequence ==
  ASSUME NEW S \in SUBSET Entries
  PROVE  /\ SetToSeq(S) \in Seq(Entries)
         /\ \A i \in DOMAIN SetToSeq(S) : SetToSeq(S)[i] \in S
         /\ \A e \in S : \E i \in DOMAIN SetToSeq(S) : SetToSeq(S)[i] = e
<1> DEFINE n == Cardinality(S)
           s == SetToSeq(S)
<1>1. IsFiniteSet(S) /\ n \in Nat
  BY MemoryAssumption, FS_Subset, FS_CardinalityType
<1>2. IsFiniteSet(1..n) /\ Cardinality(1..n) = n
  BY <1>1, InitialSize
<1>3. ExistsBijection(1..n, S)
  BY <1>1, <1>2, FS_SameCardinalityBij, Zenon
<1>4. \E f \in [1..n -> S] : IsInjective(f)
  BY <1>3, Zenon DEF ExistsBijection, Bijection, Injection
<1>5. s \in [1..n -> S] /\ IsInjective(s)
  BY <1>4, Zenon DEF SetToSeq
<1> HIDE DEF s
<1>6. s \in Surjection(1..n, S)
  BY <1>1, <1>2, <1>5, FS_Injection, Zenon DEF Injection
<1>7. s \in Seq(Entries) /\ DOMAIN s = 1..n
  BY <1>1, <1>5, s \in [1..n -> Entries], SeqDef, Zenon
<1>8. \A e \in S : \E i \in DOMAIN s : s[i] = e
  BY <1>6, <1>7, Zenon DEF Surjection
<1>9. \A i \in DOMAIN s : s[i] \in S
  BY <1>5, <1>7, Zenon
<1>. QED  BY <1>5, <1>7, <1>8, <1>9, Zenon DEF s, IsInjective

LEMMA LinesOf ==
  ASSUME memory \in Memories, NEW es \in Seq(Entries)
  PROVE  /\ MemLines(es) \in Seq(FileLines) /\ Len(MemLines(es)) = Len(es)
         /\ DOMAIN MemLines(es) = DOMAIN es
         /\ \A i \in DOMAIN es : /\ MemLines(es)[i].entry = es[i]
                                 /\ MemLines(es)[i].readable
                                 /\ MemLines(es)[i].status = memory.status[es[i]]
<1>1. ASSUME NEW e \in Entries
      PROVE  /\ MemLine(e) \in FileLines /\ MemLine(e).entry = e /\ MemLine(e).readable
             /\ MemLine(e).status = memory.status[e]
  BY <1>1 DEF MemLine, Memories, FileLines
<1>2. DOMAIN es = 1..Len(es) /\ Len(es) \in Nat /\ \A i \in 1..Len(es) : es[i] \in Entries
  OBVIOUS
<1> DEFINE ls == MemLines(es)
           n == Len(es)
<1>3. ls = [i \in 1..n |-> MemLine(es[i])]
  BY DEF MemLines
<1>4. \A i \in 1..n : MemLine(es[i]) \in FileLines
  BY <1>1, <1>2, Zenon
<1> HIDE DEF ls, n
<1>5. ls \in Seq(FileLines) /\ Len(ls) = n /\ DOMAIN ls = 1..n /\ \A i \in 1..n : ls[i] = MemLine(es[i])
  BY <1>2, <1>3, <1>4 DEF n
<1>6. ASSUME NEW i \in 1..n
      PROVE  ls[i].entry = es[i] /\ ls[i].readable /\ ls[i].status = memory.status[es[i]]
  <2>1. es[i] \in Entries /\ ls[i] = MemLine(es[i])
    BY <1>2, <1>5, Zenon DEF n
  <2>. QED  BY <1>1, <2>1
<1>. QED  BY <1>2, <1>5, <1>6, Zenon DEF ls, n

\* The lines of u, b in number, and then those of ls, m in number.
Concatenated(f, u, ls, b, m) ==
    /\ f \in Seq(FileLines) /\ Len(f) = b + m /\ DOMAIN f = 1..(b + m)
    /\ \A i \in 1..b : i \in 1..(b + m) /\ f[i] = u[i]
    /\ \A i \in 1..(b + m) : i > b => i - b \in 1..m /\ f[i] = ls[i - b]
    /\ \A k \in 1..m : b + k \in 1..(b + m) /\ f[b + k] = ls[k]

LEMMA OneAfterTheOther ==
  ASSUME NEW u \in Seq(FileLines), NEW ls \in Seq(FileLines), NEW f, f = u \o ls,
         NEW b \in Nat, b = Len(u), NEW m \in Nat, m = Len(ls)
  PROVE  Concatenated(f, u, ls, b, m)
<1>1. /\ f \in Seq(FileLines) /\ Len(f) = Len(u) + Len(ls)
      /\ \A i \in 1..(Len(u) + Len(ls)) : f[i] = IF i <= Len(u) THEN u[i] ELSE ls[i - Len(u)]
  BY ConcatProperties, Zenon
<1>2. Len(f) = b + m /\ \A i \in 1..(b + m) : f[i] = IF i <= b THEN u[i] ELSE ls[i - b]
  BY <1>1, Zenon
<1>3. DOMAIN f = 1..(b + m)
  BY <1>1, <1>2
<1>4. ASSUME NEW i \in 1..b PROVE i \in 1..(b + m) /\ f[i] = u[i]
  <2>1. i \in 1..(b + m) /\ i <= b
    OBVIOUS
  <2>. QED  BY <1>2, <2>1, Zenon
<1>5. ASSUME NEW i \in 1..(b + m), i > b PROVE i - b \in 1..m /\ f[i] = ls[i - b]
  <2>1. i - b \in 1..m /\ ~(i <= b)
    BY <1>5
  <2>. QED  BY <1>2, <2>1, Zenon
<1>6. ASSUME NEW k \in 1..m PROVE b + k \in 1..(b + m) /\ f[b + k] = ls[k]
  <2>1. PICK i : i = b + k
    OBVIOUS
  <2>2. i \in 1..(b + m) /\ i > b /\ i - b = k
    BY <2>1
  <2>3. f[i] = ls[k]
    BY <1>5, <2>2, Zenon
  <2>. QED  BY <2>1, <2>2, <2>3, Zenon
<1>. QED  BY <1>1, <1>2, <1>3, <1>4, <1>5, <1>6, Zenon DEF Concatenated

\* Appending lines to the file: the readable lines are those it had and those that
\* are added, the first of them excepted when it joins an open line.
FileWith(F, ls, base) ==
    /\ F \in Seq(FileLines)
    /\ \A i \in DOMAIN F : F[i].readable =>
           \/ i <= base /\ i \in DOMAIN file /\ F[i] = file[i]
           \/ i > base /\ i - base \in DOMAIN ls /\ F[i] = ls[i - base]
    /\ \A i \in DOMAIN file : file[i].readable => i \in DOMAIN F /\ F[i] = file[i]
    /\ \A k \in DOMAIN ls : \/ k = 1 /\ open
                            \/ base + k \in DOMAIN F /\ F[base + k] = ls[k]
    /\ ls # <<>> /\ ~ls[Len(ls)].readable => F # <<>> /\ ~F[Len(F)].readable
    /\ ls = <<>> => F = file

LEMMA JoinedLines ==
  ASSUME FileOK, NEW ls \in Seq(FileLines)
  PROVE  \E base \in Nat : FileWith(Joined(ls), ls, base)
<1> DEFINE n == Len(file)
           m == Len(ls)
<1>1. /\ file \in Seq(FileLines) /\ n \in Nat /\ m \in Nat
      /\ DOMAIN file = 1..n /\ DOMAIN ls = 1..m
  BY DEF FileOK
<1>0. n = Len(file) /\ m = Len(ls)
  OBVIOUS
<1>2. CASE ~(open /\ ls # <<>> /\ file # <<>>)
  <2> DEFINE f == file \o ls
  <2>1. Joined(ls) = f
    BY <1>2 DEF Joined
  <2>2. ls = <<>> => f = file
    BY <1>1
  <2>def. f = file \o ls
    OBVIOUS
  <2> HIDE DEF f, n, m
  <2>3. /\ f \in Seq(FileLines) /\ Len(f) = n + m /\ DOMAIN f = 1..(n + m)
        /\ \A i \in 1..n : i \in 1..(n + m) /\ f[i] = file[i]
        /\ \A i \in 1..(n + m) : i > n => i - n \in 1..m /\ f[i] = ls[i - n]
        /\ \A k \in 1..m : n + k \in 1..(n + m) /\ f[n + k] = ls[k]
    <3>1. Concatenated(f, file, ls, n, m)
      BY <1>0, <1>1, <2>def, OneAfterTheOther, Zenon
    <3>. QED  BY <3>1, Zenon DEF Concatenated
  <2>4. \A i \in DOMAIN f : \/ i <= n /\ i \in DOMAIN file /\ f[i] = file[i]
                            \/ i > n /\ i - n \in DOMAIN ls /\ f[i] = ls[i - n]
    <3>1. \A i \in 1..(n + m) : (i \in 1..n /\ i <= n) \/ i > n
      BY <1>1
    <3>. QED  BY <1>1, <2>3, <3>1, Zenon
  <2>5. \A i \in DOMAIN file : i \in DOMAIN f /\ f[i] = file[i]
    BY <1>1, <2>3, Zenon
  <2>6. \A k \in DOMAIN ls : n + k \in DOMAIN f /\ f[n + k] = ls[k]
    BY <1>1, <2>3, Zenon
  <2>7. ls # <<>> /\ ~ls[Len(ls)].readable => f # <<>> /\ ~f[Len(f)].readable
    <3>1. ls # <<>> => m \in DOMAIN ls
      BY <1>1 DEF m
    <3>2. ls # <<>> => f # <<>>
      BY <1>1, <2>3, <3>1
    <3>. QED  BY <2>3, <2>6, <3>1, <3>2, Zenon DEF m
  <2>8. FileWith(f, ls, n)
    BY <2>2, <2>3, <2>4, <2>5, <2>6, <2>7, Zenon DEF FileWith
  <2>. QED  BY <1>1, <2>1, <2>8, Zenon
<1>3. CASE open /\ ls # <<>> /\ file # <<>>
  <2> DEFINE u == Front(file)
             g == u \o ls
             q == [g[n] EXCEPT !.readable = FALSE]
             f == [g EXCEPT ![n] = q]
             b == n - 1
  <2>1. n >= 1 /\ m >= 1 /\ b \in Nat /\ b < n /\ n = b + 1
    BY <1>1, <1>3
  <2>2. Joined(ls) = f
    BY <1>3 DEF Joined
  <2>3. u \in Seq(FileLines) /\ Len(u) = b /\ \A i \in 1..b : u[i] = file[i]
    <3>1. /\ 1 \in Int /\ b \in Int /\ b - 1 + 1 = b /\ (1 <= b => b - 1 + 1 = b) /\ (~(1 <= b) => b = 0)
          /\ \A i \in 1..b : file[i] \in FileLines
      BY <1>1, <2>1
    <3>2. u = SubSeq(file, 1, b)
      BY DEF Front
    <3>3. \A i \in 1..b : 1 + i - 1 = i
      OBVIOUS
    <3> HIDE DEF u, b
    <3>4. /\ u \in Seq(FileLines) /\ Len(u) = IF 1 <= b THEN b - 1 + 1 ELSE 0
          /\ \A i \in 1..(b - 1 + 1) : u[i] = file[1 + i - 1]
      BY <3>1, <3>2, SubSeqProperties
    <3>. QED  BY <3>1, <3>3, <3>4
  <2>def. g = u \o ls
    OBVIOUS
  <2> HIDE DEF u, b, n, m, g
  <2>4. /\ g \in Seq(FileLines) /\ Len(g) = b + m /\ DOMAIN g = 1..(b + m)
        /\ \A i \in 1..b : i \in 1..(b + m) /\ g[i] = u[i]
        /\ \A i \in 1..(b + m) : i > b => i - b \in 1..m /\ g[i] = ls[i - b]
        /\ \A k \in 1..m : b + k \in 1..(b + m) /\ g[b + k] = ls[k]
    <3>1. Concatenated(g, u, ls, b, m)
      BY <1>0, <1>1, <2>1, <2>3, <2>def, OneAfterTheOther, Zenon
    <3>. QED  BY <3>1, Zenon DEF Concatenated
  <2>5. n \in 1..(b + m) /\ n \in DOMAIN g
    BY <1>1, <2>1, <2>4
  <2>6. q \in FileLines /\ ~q.readable
    <3>1. g[n] \in FileLines
      BY <2>4, <2>5
    <3>. QED  BY <3>1 DEF FileLines
  <2> HIDE DEF q
  <2>7. /\ f \in Seq(FileLines) /\ Len(f) = b + m /\ DOMAIN f = 1..(b + m) /\ f[n] = q
        /\ \A i \in 1..(b + m) : i # n => f[i] = g[i]
    BY <1>1, <2>1, <2>4, <2>5, <2>6
  <2> HIDE DEF f
  <2>8. \A i \in DOMAIN f : f[i].readable =>
            \/ i <= b /\ i \in DOMAIN file /\ f[i] = file[i]
            \/ i > b /\ i - b \in DOMAIN ls /\ f[i] = ls[i - b]
    <3>1. ASSUME NEW i \in DOMAIN f, f[i].readable
          PROVE  \/ i <= b /\ i \in DOMAIN file /\ f[i] = file[i]
                 \/ i > b /\ i - b \in DOMAIN ls /\ f[i] = ls[i - b]
      <4>1. i # n /\ i \in 1..(b + m)
        BY <2>6, <2>7, <3>1, Zenon
      <4>2. f[i] = g[i]
        BY <2>7, <4>1, Zenon
      <4>3. n \in Nat /\ m \in Nat
        BY <1>1
      <4>4. i > b \/ (i <= b /\ i \in 1..b /\ i \in 1..n)
        BY <2>1, <4>1, <4>3
      <4>5. CASE i > b
        BY <1>1, <2>4, <4>1, <4>2, <4>5, Zenon
      <4>6. CASE i <= b /\ i \in 1..b /\ i \in 1..n
        BY <1>1, <2>3, <2>4, <4>2, <4>6, Zenon
      <4>. QED  BY <4>4, <4>5, <4>6
    <3>. QED  BY <3>1, Zenon
  <2>9. \A i \in DOMAIN file : file[i].readable => i \in DOMAIN f /\ f[i] = file[i]
    <3>1. ASSUME NEW i \in DOMAIN file, file[i].readable PROVE i \in DOMAIN f /\ f[i] = file[i]
      <4>1. i # n
        BY <1>3, <3>1, Zenon DEF FileOK, n
      <4>2. i \in 1..b
        BY <1>1, <2>1, <4>1
      <4>. QED  BY <2>3, <2>4, <2>7, <4>1, <4>2, Zenon
    <3>. QED  BY <3>1, Zenon
  <2>10. ASSUME NEW k \in DOMAIN ls, k # 1 PROVE b + k \in DOMAIN f /\ f[b + k] = ls[k]
    <3>1. k \in 1..m /\ b + k # n
      BY <1>1, <2>1, <2>10
    <3>. QED  BY <2>4, <2>7, <3>1, Zenon
  <2>11. ASSUME ~ls[Len(ls)].readable PROVE f # <<>> /\ ~f[Len(f)].readable
    <3>1. f # <<>> /\ m \in DOMAIN ls
      BY <1>1, <2>1, <2>7
    <3>2. CASE m = 1
      <4>1. Len(f) = n
        BY <1>1, <2>1, <2>7, <3>2
      <4>. QED  BY <2>6, <2>7, <3>1, <4>1, Zenon
    <3>3. CASE m # 1
      BY <2>7, <2>10, <2>11, <3>1, <3>3, Zenon DEF m
    <3>. QED  BY <3>2, <3>3
  <2>13. FileWith(f, ls, b)
    BY <1>3, <2>7, <2>8, <2>9, <2>10, <2>11, Zenon DEF FileWith
  <2>. QED  BY <2>1, <2>2, <2>13, Zenon
<1>. QED  BY <1>2, <1>3

\* An admission: the entry is in the store and waits for the file.
LEMMA AwaitedGrows ==
  ASSUME memory \in Memories, Awaited, NEW e \in Entries,
         memory'.store = memory.store \cup {e}, memory'.unsaved = Append(memory.unsaved, e),
         memory'.status[e] = "active", \A x \in Entries \ {e} : memory'.status[x] = memory.status[x],
         unfiled' = unfiled \ {e}, file' = file
  PROVE  Awaited'
<1> DEFINE s == memory.unsaved
           t == Append(s, e)
<1>1. /\ t[Len(s) + 1] = e /\ DOMAIN t = DOMAIN s \cup {Len(s) + 1}
      /\ \A i \in DOMAIN s : t[i] = s[i]
  BY DEF Memories
<1>0. memory.store \subseteq Entries
  BY DEF Memories
<1> HIDE DEF t, s
<1>2. InStore(file') = InStore(file) /\ InStore(file) \subseteq memory.store
  BY DEF Awaited
<1>3. \A i \in DOMAIN s : s[i] \in memory.store
  BY Zenon DEF Awaited, s
<1>5. \A x \in memory.store \ unfiled :
          x \in InStore(file) \/ \E i \in DOMAIN s : s[i] = x /\ memory.status[x] # "quarantined"
  BY Zenon DEF Awaited, s
<1>6. memory'.unsaved = t
  BY Zenon DEF t, s
<1>7. ASSUME NEW x \in memory'.store \ unfiled'
      PROVE  x \in InStore(file') \/ \E i \in DOMAIN t : t[i] = x /\ memory'.status[x] # "quarantined"
  <2>1. CASE x = e
    <3>1. memory'.status[x] # "quarantined"
      BY <2>1
    <3>. QED  BY <1>1, <2>1, <3>1, Zenon
  <2>2. CASE x # e
    <3>1. x \in memory.store \ unfiled /\ memory'.status[x] = memory.status[x]
      BY <1>0, <2>2
    <3>. QED  BY <1>1, <1>2, <1>5, <3>1, Zenon
  <2>. QED  BY <2>1, <2>2
<1>8. \A i \in DOMAIN t : t[i] \in memory'.store
  BY <1>1, <1>3, Zenon
<1>10. InStore(file') \subseteq memory'.store
  BY <1>2
<1>. QED  BY <1>6, <1>7, <1>8, <1>10, Zenon DEF Awaited

\* A change of the memory that leaves the file alone.
LEMMA MemoryChanges ==
  ASSUME MemoryInv, file' = file, open' = open, memory' \in Memories,
         memory.core \subseteq memory'.core, Marked', ~memory'.needsFull => Awaited'
  PROVE  MemoryInv'
<1>1. FileOK /\ CoreIn(file, memory.core)
  BY Zenon DEF MemoryInv
<1>2. FileOK'
  BY <1>1, Zenon DEF FileOK
<1>3. CoreIn(file, memory.core)'
  BY <1>1, Zenon DEF CoreIn
<1>. QED  BY <1>2, <1>3, Zenon DEF MemoryInv

LEMMA OneStatus ==
  ASSUME NEW f \in [Entries -> Statuses], NEW e \in Entries, NEW s \in Statuses, NEW g,
         g = [f EXCEPT ![e] = s]
  PROVE  g \in [Entries -> Statuses] /\ g[e] = s /\ \A x \in Entries \ {e} : g[x] = f[x]
OBVIOUS

LEMMA MemoryQuarantines ==
  ASSUME MemoryInv, NEW e \in Entries, file' = file, open' = open,
         memory' = [memory EXCEPT !.quarantine = @ \cup {e}, !.status[e] = "quarantined"],
         unfiled' = unfiled \cup ({e} \cap memory.store)
  PROVE  MemoryInv'
<1> DEFINE q == memory.quarantine \cup {e}
           g == [memory.status EXCEPT ![e] = "quarantined"]
<1>1. memory \in Memories /\ Marked
  BY Zenon DEF MemoryInv
<1>2. /\ g \in [Entries -> Statuses] /\ g[e] = "quarantined"
      /\ \A x \in Entries \ {e} : g[x] = memory.status[x]
  <2>1. memory.status \in [Entries -> Statuses] /\ "quarantined" \in Statuses
    BY <1>1 DEF Memories, Statuses
  <2>. QED  BY <2>1, OneStatus
<1>3. q \in SUBSET Entries /\ memory.store \subseteq Entries
  BY <1>1 DEF Memories
<1>4. memory' = [memory EXCEPT !.quarantine = q, !.status = g]
  OBVIOUS
<1> HIDE DEF q, g
<1>5. /\ memory' \in Memories /\ memory'.store = memory.store /\ memory'.core = memory.core
      /\ memory'.unsaved = memory.unsaved /\ memory'.status = g
  BY <1>1, <1>2, <1>3, <1>4 DEF Memories
<1>6. memory'.needsFull = memory.needsFull
  BY <1>1, <1>4, Zenon DEF Memories
<1>7. Marked'
  BY <1>1, <1>2, <1>5 DEF Marked
<1>8. ASSUME Awaited PROVE Awaited'
  <2>1. \A x \in memory.store \ unfiled' : x \in memory.store \ unfiled /\ g[x] = memory.status[x]
    BY <1>2, <1>3
  <2>. QED  BY <1>5, <1>8, <2>1, Zenon DEF Awaited
<1>9. ~memory'.needsFull => Awaited'
  BY <1>6, <1>8, Zenon DEF MemoryInv
<1>. QED  BY <1>5, <1>7, <1>9, MemoryChanges, Zenon

\* Making room takes no entry with the status of an axiom, and asks for a full save.
LEMMA RoomIsMade ==
  ASSUME memory \in Memories, Marked, NEW m, m = memory \/ m \in Evicted(memory)
  PROVE  /\ m \in Memories /\ m.store \subseteq memory.store /\ m.core = memory.core
         /\ m.unsaved = memory.unsaved /\ m.status = memory.status
         /\ m = memory \/ m.needsFull
         /\ \A x \in Entries : m.status[x] = "core" => x \in m.core /\ x \in m.store
<1>1. CASE m = memory
  BY <1>1, Zenon DEF Marked
<1>2. ASSUME NEW w \in Weakest(memory), m = [memory EXCEPT !.store = @ \ {w}, !.needsFull = TRUE]
      PROVE  /\ m \in Memories /\ m.store \subseteq memory.store /\ m.core = memory.core
             /\ m.unsaved = memory.unsaved /\ m.status = memory.status
             /\ m = memory \/ m.needsFull
             /\ \A x \in Entries : m.status[x] = "core" => x \in m.core /\ x \in m.store
  <2> DEFINE s == memory.store \ {w}
  <2>1. s \in SUBSET Entries /\ s \subseteq memory.store
    BY DEF Memories
  <2>2. \A x \in memory.store : memory.status[x] = "core" => x \in s
    BY DEF Weakest
  <2>3. m = [memory EXCEPT !.store = s, !.needsFull = TRUE]
    BY <1>2
  <2> HIDE DEF s
  <2>4. /\ m \in Memories /\ m.store = s /\ m.core = memory.core /\ m.unsaved = memory.unsaved
        /\ m.status = memory.status /\ m.needsFull
    BY <2>1, <2>3 DEF Memories
  <2>. QED  BY <2>1, <2>2, <2>4, Zenon DEF Marked
<1>3. m = memory \/ \E w \in Weakest(memory) : m = [memory EXCEPT !.store = @ \ {w}, !.needsFull = TRUE]
  BY Zenon DEF Evicted
<1>. QED  BY <1>1, <1>2, <1>3, Zenon

LEMMA MemoryStores ==
  ASSUME MemoryInv, NEW e \in Entries, file' = file, open' = open,
         NEW m, m = memory \/ m \in Evicted(memory),
         memory' = [m EXCEPT !.store = @ \cup {e}, !.status[e] = "active", !.unsaved = Append(@, e)],
         unfiled' = unfiled \ {e}
  PROVE  MemoryInv'
<1> DEFINE t == m.store \cup {e}
           v == Append(m.unsaved, e)
           g == [m.status EXCEPT ![e] = "active"]
<1>1. memory \in Memories /\ Marked
  BY Zenon DEF MemoryInv
<1>2. /\ m \in Memories /\ m.store \subseteq memory.store /\ m.core = memory.core
      /\ m.unsaved = memory.unsaved /\ m.status = memory.status
      /\ m = memory \/ m.needsFull
      /\ \A x \in Entries : m.status[x] = "core" => x \in m.core /\ x \in m.store
  BY <1>1, RoomIsMade
<1>3. /\ g \in [Entries -> Statuses] /\ g[e] = "active"
      /\ \A x \in Entries \ {e} : g[x] = m.status[x]
  <2>1. m.status \in [Entries -> Statuses] /\ "active" \in Statuses
    BY <1>2 DEF Memories, Statuses
  <2>. QED  BY <2>1, OneStatus
<1>4. t \in SUBSET Entries /\ v \in Seq(Entries)
  BY <1>2 DEF Memories
<1>5. memory' = [m EXCEPT !.store = t, !.status = g, !.unsaved = v]
  OBVIOUS
<1>0. \A x \in m.store : x \in t
  OBVIOUS
<1> HIDE DEF t, v, g
<1>6. /\ memory' \in Memories /\ memory'.store = t /\ memory'.core = m.core
      /\ memory'.unsaved = v /\ memory'.status = g
  BY <1>2, <1>3, <1>4, <1>5 DEF Memories
<1>7. memory'.needsFull = m.needsFull
  BY <1>2, <1>5, Zenon DEF Memories
<1>8. Marked'
  <2>1. \A x \in Entries : g[x] = "core" => m.status[x] = "core"
    BY <1>3
  <2>. QED  BY <1>0, <1>2, <1>6, <2>1, Zenon DEF Marked
<1>9. CASE m = memory
  <2>1. Awaited => Awaited'
    BY <1>1, <1>2, <1>3, <1>6, <1>9, AwaitedGrows, Zenon DEF t, v
  <2>2. ~memory'.needsFull => Awaited'
    BY <1>7, <1>9, <2>1, Zenon DEF MemoryInv
  <2>3. memory.core \subseteq memory'.core
    BY <1>2, <1>6
  <2>. QED  BY <1>6, <1>8, <2>2, <2>3, MemoryChanges, Zenon
<1>10. CASE m # memory
  <2>1. memory'.needsFull /\ memory.core \subseteq memory'.core
    BY <1>2, <1>6, <1>7, <1>10, Zenon
  <2>. QED  BY <1>6, <1>8, <2>1, MemoryChanges, Zenon
<1>. QED  BY <1>9, <1>10

LEMMA MemoryAdmits ==
  ASSUME MemoryInv, NEW e \in Entries, Admit(e)
  PROVE  MemoryInv'
<1>1. file' = file /\ open' = open
  BY Zenon DEF Admit
<1>2. CASE Contradicts(e)
  <2>1. /\ memory' = [memory EXCEPT !.quarantine = @ \cup {e}, !.status[e] = "quarantined"]
        /\ unfiled' = unfiled \cup ({e} \cap memory.store)
    BY <1>2, Zenon DEF Admit
  <2>. QED  BY <1>1, <2>1, MemoryQuarantines
<1>3. CASE ~Contradicts(e)
  <2>1. PICK m : /\ m \in IF Cardinality(memory.store) >= MaxEntries THEN Evicted(memory) ELSE {memory}
                 /\ memory' = [m EXCEPT !.store = @ \cup {e}, !.status[e] = "active",
                                        !.unsaved = Append(@, e)]
    BY <1>3, Zenon DEF Admit
  <2>2. unfiled' = unfiled \ {e}
    BY <1>3, Zenon DEF Admit
  <2>3. m = memory \/ m \in Evicted(memory)
    BY <2>1
  <2>. QED  BY <1>1, <2>1, <2>2, <2>3, MemoryStores
<1>. QED  BY <1>2, <1>3

\* Into the store past the admission: nothing waits for the file on its behalf.
LEMMA MemoryTakesIn ==
  ASSUME MemoryInv, NEW e \in Entries, NEW s \in {"active", "core"}, Bypass(e),
         file' = file, open' = open, memory' \in Memories, memory'.store = memory.store \cup {e},
         memory.core \subseteq memory'.core, s = "core" => e \in memory'.core,
         memory'.status = [memory.status EXCEPT ![e] = s],
         memory'.unsaved = memory.unsaved, memory'.needsFull = memory.needsFull
  PROVE  MemoryInv'
<1> DEFINE g == [memory.status EXCEPT ![e] = s]
<1>1. memory \in Memories /\ Marked
  BY Zenon DEF MemoryInv
<1>2. g \in [Entries -> Statuses] /\ g[e] = s /\ \A x \in Entries \ {e} : g[x] = memory.status[x]
  <2>1. memory.status \in [Entries -> Statuses] /\ s \in Statuses
    BY <1>1 DEF Memories, Statuses
  <2>. QED  BY <2>1, OneStatus
<1>3. memory'.status = g
  OBVIOUS
<1> HIDE DEF g
<1>4. Marked'
  BY <1>1, <1>2, <1>3 DEF Marked
<1>5. ASSUME Awaited PROVE Awaited'
  <2>1. /\ memory'.store \ unfiled' \subseteq memory.store \ unfiled /\ memory.store \subseteq memory'.store
        /\ memory.store \subseteq Entries
    BY <1>1 DEF Bypass, Memories
  <2>2. \A x \in Entries : memory.status[x] # "quarantined" => g[x] # "quarantined"
    BY <1>2
  <2>3. \A x \in memory'.store \ unfiled' :
            \/ x \in InStore(file)
            \/ \E i \in DOMAIN memory.unsaved : memory.unsaved[i] = x /\ g[x] # "quarantined"
    BY <1>5, <2>1, <2>2, Zenon DEF Awaited
  <2>. QED  BY <1>3, <1>5, <2>1, <2>3, Zenon DEF Awaited
<1>. QED  BY <1>4, <1>5, MemoryChanges, Zenon DEF MemoryInv

LEMMA MemoryProtects ==
  ASSUME MemoryInv, NEW e \in Entries, ProtectAxiom(e)
  PROVE  MemoryInv'
<1> DEFINE g == [memory.status EXCEPT ![e] = "core"]
           c == memory.core \cup {e}
           t == memory.store \cup {e}
<1>1. memory' = [memory EXCEPT !.core = c, !.store = t, !.status = g]
  BY DEF ProtectAxiom
<1>2. Bypass(e) /\ file' = file /\ open' = open
  BY Zenon DEF ProtectAxiom
<1>3. memory \in Memories
  BY Zenon DEF MemoryInv
<1>4. g \in [Entries -> Statuses] /\ c \in SUBSET Entries /\ t \in SUBSET Entries
  BY <1>3, OneStatus DEF Memories, Statuses
<1>5. memory.core \subseteq c /\ e \in c /\ "core" \in {"active", "core"}
  OBVIOUS
<1> HIDE DEF g, c, t
<1>6. /\ memory' \in Memories /\ memory'.store = t /\ memory'.core = c
      /\ memory'.unsaved = memory.unsaved /\ memory'.status = g
  BY <1>1, <1>3, <1>4 DEF Memories
<1>7. memory'.needsFull = memory.needsFull
  BY <1>1, <1>3, Zenon DEF Memories
<1>. QED  BY <1>2, <1>5, <1>6, <1>7, MemoryTakesIn, Zenon DEF g, t

LEMMA MemoryPromotes ==
  ASSUME MemoryInv, NEW e \in Entries, PromoteQuarantined(e)
  PROVE  MemoryInv'
<1> DEFINE g == [memory.status EXCEPT ![e] = "active"]
           q == memory.quarantine \ {e}
           t == memory.store \cup {e}
<1>1. memory' = [memory EXCEPT !.quarantine = q, !.store = t, !.status = g]
  BY DEF PromoteQuarantined
<1>2. Bypass(e) /\ file' = file /\ open' = open
  BY Zenon DEF PromoteQuarantined
<1>3. memory \in Memories
  BY Zenon DEF MemoryInv
<1>4. g \in [Entries -> Statuses] /\ q \in SUBSET Entries /\ t \in SUBSET Entries
  BY <1>3, OneStatus DEF Memories, Statuses
<1>5. memory.core \subseteq memory.core /\ "active" \in {"active", "core"} /\ "active" # "core"
  OBVIOUS
<1> HIDE DEF g, q, t
<1>6. /\ memory' \in Memories /\ memory'.store = t /\ memory'.core = memory.core
      /\ memory'.unsaved = memory.unsaved /\ memory'.status = g
  BY <1>1, <1>3, <1>4 DEF Memories
<1>7. memory'.needsFull = memory.needsFull
  BY <1>1, <1>3, Zenon DEF Memories
<1>. QED  BY <1>2, <1>5, <1>6, <1>7, MemoryTakesIn, Zenon DEF g, t

LEMMA MemoryDecays ==
  ASSUME MemoryInv, Decay
  PROVE  MemoryInv'
<1>1. PICK stale \in SUBSET Decaying : memory' = [memory EXCEPT !.store = @ \ stale, !.needsFull = TRUE]
  BY Zenon DEF Decay
<1>2. file' = file /\ open' = open
  BY DEF Decay
<1>3. memory \in Memories /\ Marked
  BY Zenon DEF MemoryInv
<1>4. /\ memory' \in Memories /\ memory'.store = memory.store \ stale /\ memory'.core = memory.core
      /\ memory'.status = memory.status /\ memory'.needsFull
  BY <1>1, <1>3 DEF Memories
<1>5. Marked'
  BY <1>3, <1>4 DEF Marked, Decaying
<1>6. memory.core \subseteq memory'.core
  BY <1>4
<1>. QED  BY <1>2, <1>4, <1>5, <1>6, MemoryChanges, Zenon

\* Lines made of entries: what they name, and what they say of axioms.
LEMMA LinesSay ==
  ASSUME memory \in Memories, Marked, NEW es \in Seq(Entries), NEW ls, ls = MemLines(es)
  PROVE  /\ ls \in Seq(FileLines) /\ CoreIn(ls, memory.core) /\ DOMAIN ls = DOMAIN es
         /\ \A i \in DOMAIN es : /\ ls[i].entry = es[i] /\ ls[i].readable
                                 /\ memory.status[es[i]] # "quarantined" => es[i] \in InStore(ls)
         /\ \A e \in InStore(ls) : \E i \in DOMAIN es : es[i] = e
<1>1. /\ ls \in Seq(FileLines) /\ DOMAIN ls = DOMAIN es
      /\ \A i \in DOMAIN es : /\ ls[i].entry = es[i] /\ ls[i].readable
                              /\ ls[i].status = memory.status[es[i]]
  BY LinesOf, Zenon
<1>2. \A i \in DOMAIN es : es[i] \in Entries
  OBVIOUS
<1>3. CoreIn(ls, memory.core)
  BY <1>1, <1>2, Zenon DEF CoreIn, Marked
<1>4. ASSUME NEW i \in DOMAIN es, memory.status[es[i]] # "quarantined" PROVE es[i] \in InStore(ls)
  <2>1. i \in DOMAIN ls /\ ls[i].readable /\ ls[i].status # "quarantined" /\ ls[i].entry = es[i]
    BY <1>1, <1>4
  <2>. QED  BY <1>1, <2>1, StoredLines
<1>5. ASSUME NEW e \in InStore(ls) PROVE \E i \in DOMAIN es : es[i] = e
  <2>1. PICK i \in DOMAIN ls : ls[i].entry = e
    BY <1>1, StoredLines
  <2>. QED  BY <1>1, <2>1
<1>. QED  BY <1>1, <1>3, <1>4, <1>5

\* What a full save writes: a line for each entry of the store.
LEMMA StoreAsLines ==
  ASSUME memory \in Memories, Marked, NEW ls, ls = MemLines(SetToSeq(memory.store))
  PROVE  /\ ls \in Seq(FileLines) /\ CoreIn(ls, memory.core) /\ InStore(ls) \subseteq memory.store
         /\ \A e \in memory.store : memory.status[e] # "quarantined" => e \in InStore(ls)
<1> DEFINE es == SetToSeq(memory.store)
<1>1. memory.store \in SUBSET Entries
  BY DEF Memories
<1>2. /\ es \in Seq(Entries) /\ \A i \in DOMAIN es : es[i] \in memory.store
      /\ \A e \in memory.store : \E i \in DOMAIN es : es[i] = e
  BY <1>1, SetAsSequence, Zenon
<1> HIDE DEF es
<1>3. /\ ls \in Seq(FileLines) /\ CoreIn(ls, memory.core)
      /\ \A i \in DOMAIN es : memory.status[es[i]] # "quarantined" => es[i] \in InStore(ls)
      /\ \A e \in InStore(ls) : \E i \in DOMAIN es : es[i] = e
  <2>1. ls = MemLines(es)
    BY Zenon DEF es
  <2>. QED  BY <1>2, <2>1, LinesSay, Zenon
<1>. QED  BY <1>2, <1>3, Zenon

LEMMA SavedMemory ==
  ASSUME memory \in Memories, memory' = Saved
  PROVE  /\ memory' \in Memories /\ memory'.store = memory.store /\ memory'.core = memory.core
         /\ memory'.status = memory.status
         /\ memory'.unsaved = <<>> /\ ~memory'.needsFull
<1> DEFINE none == <<>>
<1>1. memory' = [memory EXCEPT !.unsaved = none, !.needsFull = FALSE]
  BY DEF Saved
<1>2. none \in Seq(Entries)
  OBVIOUS
<1> HIDE DEF none
<1>3. /\ memory' \in Memories /\ memory'.store = memory.store /\ memory'.core = memory.core
         /\ memory'.status = memory.status
      /\ memory'.unsaved = none /\ ~memory'.needsFull
  BY <1>1, <1>2 DEF Memories
<1>. QED  BY <1>3, Zenon DEF none

LEMMA MemorySaves ==
  ASSUME MemoryInv, Save
  PROVE  MemoryInv'
<1>1. /\ file' = MemLines(SetToSeq(memory.store)) /\ ~open' /\ memory' = Saved
      /\ unfiled' = {e \in memory.store : memory.status[e] = "quarantined"}
  BY Zenon DEF Save
<1>2. memory \in Memories /\ Marked
  BY Zenon DEF MemoryInv
<1>3. /\ file' \in Seq(FileLines) /\ CoreIn(file', memory.core) /\ InStore(file') \subseteq memory.store
      /\ \A e \in memory.store : memory.status[e] # "quarantined" => e \in InStore(file')
  BY <1>1, <1>2, StoreAsLines, Zenon
<1>4. /\ memory' \in Memories /\ memory'.store = memory.store /\ memory'.core = memory.core
      /\ memory'.status = memory.status
      /\ memory'.unsaved = <<>> /\ ~memory'.needsFull
  BY <1>1, <1>2, SavedMemory, Zenon
<1>5. FileOK' /\ Marked'
  BY <1>1, <1>2, <1>3, <1>4, Zenon DEF FileOK, Marked
<1>6. \A e \in memory.store \ unfiled' : e \in InStore(file')
  BY <1>1, <1>3
<1>7. Awaited'
  BY <1>3, <1>4, <1>6 DEF Awaited
<1>. QED  BY <1>3, <1>4, <1>5, <1>7, Zenon DEF MemoryInv

LEMMA MemoryAppends ==
  ASSUME MemoryInv, AppendSave, ~memory.needsFull
  PROVE  MemoryInv'
<1> DEFINE ls == MemLines(memory.unsaved)
<1>1. /\ file' = Joined(ls) /\ ~open' /\ memory' = Saved
      /\ unfiled' = IF open THEN unfiled \cup {Head(memory.unsaved)} ELSE unfiled
  BY Zenon DEF AppendSave, Full, WhatIsSaved
<1>2. memory \in Memories /\ FileOK /\ Marked /\ CoreIn(file, memory.core) /\ Awaited
  BY Zenon DEF MemoryInv
<1>3. /\ ls \in Seq(FileLines) /\ CoreIn(ls, memory.core) /\ DOMAIN ls = DOMAIN memory.unsaved
      /\ \A k \in DOMAIN ls : /\ ls[k].entry = memory.unsaved[k] /\ ls[k].readable
                              /\ ls[k].status = memory.status[memory.unsaved[k]]
      /\ \A k \in DOMAIN ls : ls[k].entry \in memory.store
  <2>1. memory.unsaved \in Seq(Entries)
    BY <1>2 DEF Memories
  <2>2. \A k \in DOMAIN memory.unsaved : memory.unsaved[k] \in memory.store
    BY <1>2, Zenon DEF Awaited
  <2>3. /\ ls \in Seq(FileLines) /\ CoreIn(ls, memory.core) /\ DOMAIN ls = DOMAIN memory.unsaved
    BY <1>2, <2>1, LinesSay
  <2>4. \A k \in DOMAIN memory.unsaved : /\ ls[k].entry = memory.unsaved[k] /\ ls[k].readable
                                         /\ ls[k].status = memory.status[memory.unsaved[k]]
    BY <1>2, <2>1, LinesOf
  <2> HIDE DEF ls
  <2>. QED  BY <2>2, <2>3, <2>4
<1> HIDE DEF ls
<1>base. PICK base \in Nat : FileWith(file', ls, base)
  BY <1>1, <1>2, <1>3, JoinedLines
<1>5. /\ file' \in Seq(FileLines)
      /\ \A i \in DOMAIN file' : file'[i].readable =>
             \/ i <= base /\ i \in DOMAIN file /\ file'[i] = file[i]
             \/ i > base /\ i - base \in DOMAIN ls /\ file'[i] = ls[i - base]
      /\ \A i \in DOMAIN file : file[i].readable => i \in DOMAIN file' /\ file'[i] = file[i]
      /\ \A k \in DOMAIN ls : \/ k = 1 /\ open
                              \/ base + k \in DOMAIN file' /\ file'[base + k] = ls[k]
  BY <1>base, Zenon DEF FileWith
<1>6. /\ memory' \in Memories /\ memory'.store = memory.store /\ memory'.core = memory.core
      /\ memory'.status = memory.status
      /\ memory'.unsaved = <<>> /\ ~memory'.needsFull
  BY <1>1, <1>2, SavedMemory, Zenon
<1>7. FileOK' /\ Marked'
  BY <1>1, <1>2, <1>5, <1>6, Zenon DEF FileOK, Marked
<1>8. CoreIn(file', memory.core)
  <2>1. ASSUME NEW i \in DOMAIN file', file'[i].readable, file'[i].status = "core"
        PROVE  file'[i].entry \in memory.core
    <3>1. CASE i \in DOMAIN file /\ file'[i] = file[i]
      BY <1>2, <2>1, <3>1 DEF CoreIn
    <3>2. CASE i - base \in DOMAIN ls /\ file'[i] = ls[i - base]
      BY <1>3, <2>1, <3>2 DEF CoreIn
    <3>3. \/ i \in DOMAIN file /\ file'[i] = file[i]
          \/ i - base \in DOMAIN ls /\ file'[i] = ls[i - base]
      <4>1. \A k \in DOMAIN file' : file'[k].readable =>
                \/ k <= base /\ k \in DOMAIN file /\ file'[k] = file[k]
                \/ k > base /\ k - base \in DOMAIN ls /\ file'[k] = ls[k - base]
        BY <1>5
      <4>. QED  BY <2>1, <4>1, Zenon
    <3>. QED  BY <3>1, <3>2, <3>3
  <2>. QED  BY <2>1, Zenon DEF CoreIn
<1>9. ASSUME NEW e \in InStore(file') PROVE e \in memory.store
  <2>1. PICK i \in DOMAIN file' :
            file'[i].readable /\ file'[i].entry = e /\ file'[i].status # "quarantined"
    BY <1>5, StoredLines, Zenon
  <2>2. CASE i \in DOMAIN file /\ file'[i] = file[i]
    <3>1. file[i].readable /\ file[i].entry = e /\ file[i].status # "quarantined"
      BY <2>1, <2>2
    <3>2. file \in Seq(FileLines)
      BY <1>2, Zenon DEF FileOK
    <3>3. e \in InStore(file)
      BY <2>2, <3>1, <3>2, StoredLines
    <3>. QED  BY <1>2, <3>3 DEF Awaited
  <2>3. CASE i - base \in DOMAIN ls /\ file'[i] = ls[i - base]
    BY <1>3, <2>1, <2>3, Zenon
  <2>. QED  BY <1>5, <2>1, <2>2, <2>3, Zenon
<1>10. ASSUME NEW e \in memory.store, e \notin unfiled' PROVE e \in InStore(file')
  <2>1. e \notin unfiled /\ (open => e # Head(memory.unsaved))
    BY <1>1, <1>10
  <2>2. CASE e \in InStore(file)
    <3>1. PICK i \in DOMAIN file :
              file[i].readable /\ file[i].entry = e /\ file[i].status # "quarantined"
      BY <1>2, <2>2, StoredLines, Zenon DEF FileOK
    <3>. QED  BY <1>5, <3>1, StoredLines, Zenon
  <2>3. CASE \E k \in DOMAIN memory.unsaved :
                 memory.unsaved[k] = e /\ memory.status[e] # "quarantined"
    <3>1. PICK k \in DOMAIN memory.unsaved :
              memory.unsaved[k] = e /\ memory.status[e] # "quarantined"
      BY <2>3, Zenon
    <3>2. ~(k = 1 /\ open)
      BY <2>1, <3>1
    <3>3. k \in DOMAIN ls /\ ls[k].readable /\ ls[k].entry = e /\ ls[k].status # "quarantined"
      BY <1>3, <3>1, Zenon
    <3>4. base + k \in DOMAIN file' /\ file'[base + k] = ls[k]
      BY <1>5, <3>2, <3>3, Zenon
    <3>5. PICK j \in DOMAIN file' : j = base + k
      BY <3>4, Zenon
    <3>6. file'[j].readable /\ file'[j].entry = e /\ file'[j].status # "quarantined"
      BY <3>3, <3>4, <3>5
    <3>. QED  BY <1>5, <3>6, StoredLines
  <2>. QED  BY <1>2, <2>1, <2>2, <2>3, Zenon DEF Awaited
<1>11. Awaited'
  BY <1>6, <1>9, <1>10 DEF Awaited
<1>. QED  BY <1>6, <1>7, <1>8, <1>11, Zenon DEF MemoryInv

LEMMA LineCut ==
  ASSUME NEW l \in FileLines, NEW r \in BOOLEAN, NEW c, c = [l EXCEPT !.readable = r]
  PROVE  c \in FileLines /\ c.entry = l.entry /\ (c.readable <=> r)
<1>1. c \in FileLines /\ c.entry = l.entry
  BY DEF FileLines
<1>2. c.readable = r
  BY Zenon DEF FileLines
<1>. QED  BY <1>1, <1>2, Zenon

\* The first lines of what is saved, the last of them perhaps cut.
CutLines(W, n, torn) == [i \in 1..n |-> [W[i] EXCEPT !.readable = i < n \/ ~torn]]

LEMMA PartOfLines ==
  ASSUME NEW W \in Seq(FileLines), NEW n \in 0..Len(W), NEW torn \in BOOLEAN, NEW part,
         part = CutLines(W, n, torn)
  PROVE  /\ part \in Seq(FileLines)
         /\ n = 0 => part = <<>>
         /\ n > 0 /\ torn => part # <<>> /\ ~part[Len(part)].readable
<1>1. n \in Nat /\ 1..n \subseteq DOMAIN W
  OBVIOUS
<1>2. ASSUME NEW i \in 1..n
      PROVE  /\ part[i] \in FileLines /\ part[i].entry = W[i].entry
             /\ part[i].readable <=> (i < n \/ ~torn)
  <2> DEFINE r == i < n \/ ~torn
  <2>1. W[i] \in FileLines /\ r \in BOOLEAN
    BY <1>1
  <2>2. part[i] = [W[i] EXCEPT !.readable = r]
    BY Zenon DEF CutLines
  <2> HIDE DEF r
  <2>3. part[i] \in FileLines /\ part[i].entry = W[i].entry /\ (part[i].readable <=> r)
    BY <2>1, <2>2, LineCut, Zenon
  <2>. QED  BY <2>3, Zenon DEF r
<1>3. DOMAIN part = 1..n /\ part = [i \in 1..n |-> part[i]]
  BY Zenon DEF CutLines
<1>4. part \in Seq(FileLines) /\ Len(part) = n
  BY <1>1, <1>2, <1>3
<1>5. (n = 0 => part = <<>>) /\ (n > 0 => part # <<>>)
  BY <1>1, <1>4
<1>6. ASSUME n > 0, torn PROVE part # <<>> /\ ~part[Len(part)].readable
  <2>1. n \in 1..n /\ ~(n < n)
    BY <1>1, <1>6
  <2>. QED  BY <1>2, <1>4, <1>5, <1>6, <2>1, Zenon
<1>. QED  BY <1>1, <1>2, <1>3, <1>4, <1>5, <1>6, Zenon

LEMMA MemoryCrashes ==
  ASSUME MemoryInv, CrashInSave
  PROVE  MemoryInv'
<1> DEFINE W == WhatIsSaved
<1>1. memory \in Memories /\ Marked /\ FileOK
  BY Zenon DEF MemoryInv
<1>2. W \in Seq(FileLines)
  <2>1. memory.unsaved \in Seq(Entries)
    BY <1>1 DEF Memories
  <2>. QED  BY <1>1, <2>1, StoreAsLines, LinesOf, Zenon DEF WhatIsSaved
<1>4. PICK n \in 0..Len(W), torn \in BOOLEAN :
          /\ Restart(IF Full THEN CutLines(W, n, torn) ELSE Joined(CutLines(W, n, torn)))
          /\ open' = IF n > 0 THEN torn ELSE open /\ ~Full
  <2>1. PICK n \in 0..Len(W) : \E torn \in {FALSE} \cup (IF n > 0 THEN {TRUE} ELSE {}) :
            LET part == [i \in 1..n |-> [W[i] EXCEPT !.readable = i < n \/ ~torn]] IN
            /\ Restart(IF Full THEN part ELSE Joined(part))
            /\ open' = IF n > 0 THEN torn ELSE open /\ ~Full
    BY Zenon DEF CrashInSave
  <2>2. \A torn \in {FALSE} \cup (IF n > 0 THEN {TRUE} ELSE {}) : torn \in BOOLEAN
    OBVIOUS
  <2>. QED  BY <2>1, <2>2, Zenon DEF CutLines
<1> HIDE DEF W
<1> DEFINE part == CutLines(W, n, torn)
<1>5. /\ part \in Seq(FileLines)
      /\ n = 0 => part = <<>>
      /\ n > 0 /\ torn => part # <<>> /\ ~part[Len(part)].readable
  <2>1. part = CutLines(W, n, torn)
    OBVIOUS
  <2> HIDE DEF part
  <2>. QED  BY <1>2, <2>1, PartOfLines
<1> HIDE DEF part
<1>6. n > 0 \/ n = 0
  BY <1>2
<1>7. open' => \/ n > 0 /\ torn
               \/ n = 0 /\ ~Full /\ file # <<>> /\ ~file[Len(file)].readable
  BY <1>1, <1>4, <1>6, Zenon DEF FileOK
<1>8. CASE Full
  <2>1. Restart(part)
    BY <1>4, <1>8, Zenon DEF part
  <2>. QED  BY <1>5, <1>7, <1>8, <2>1, Reloaded, Zenon
<1>9. CASE ~Full
  <2> DEFINE F == Joined(part)
  <2>1. Restart(F)
    BY <1>4, <1>9, Zenon DEF part
  <2>2. PICK base \in Nat : FileWith(F, part, base)
    BY <1>1, <1>5, JoinedLines
  <2> HIDE DEF F
  <2>3. /\ F \in Seq(FileLines)
        /\ part # <<>> /\ ~part[Len(part)].readable => F # <<>> /\ ~F[Len(F)].readable
        /\ part = <<>> => F = file
    BY <2>2, Zenon DEF FileWith
  <2>4. open' => F # <<>> /\ ~F[Len(F)].readable
    BY <1>5, <1>7, <2>3, Zenon
  <2>. QED  BY <2>1, <2>3, <2>4, Reloaded, Zenon
<1>. QED  BY <1>8, <1>9

LEMMA MemoryKeeps == MemoryInv /\ [MemoryNext]_memoryVars => MemoryInv'
<1>. SUFFICES ASSUME MemoryInv, [MemoryNext]_memoryVars PROVE MemoryInv'
  OBVIOUS
<1>1. ASSUME NEW e \in Entries, Admit(e) \/ ProtectAxiom(e) \/ PromoteQuarantined(e)
      PROVE  MemoryInv'
  BY <1>1, MemoryAdmits, MemoryProtects, MemoryPromotes
<1>2. CASE Decay \/ Save \/ CrashInSave
  BY <1>2, MemoryDecays, MemorySaves, MemoryCrashes
<1>3. CASE AppendSave
  BY <1>3, MemorySaves, MemoryAppends, Zenon DEF AppendSave, Full
<1>4. CASE Reload
  <2>1. Restart(file) /\ open' = open
    BY <1>4, Zenon DEF Reload
  <2>2. FileOK
    BY Zenon DEF MemoryInv
  <2>. QED  BY <2>1, <2>2, Reloaded, Zenon DEF FileOK
<1>5. CASE UNCHANGED memoryVars
  BY <1>5, Zenon DEF memoryVars, MemoryInv, FileOK, Awaited, Marked
<1>. QED  BY <1>1, <1>2, <1>3, <1>4, <1>5 DEF MemoryNext

\* Any entries, any limit and any crashes in a save: a file that nothing waits to be
\* written to gives back the store, but for the entries that are told to be unfiled,
\* with no axiom that was none; and every axiom that still has the status of one stays
\* in the store.  An axiom that an admission or a promotion gave another status may go.
THEOREM MemoryKept == MemorySpec => []MemoryPersists
<1>1. MemoryInit => MemoryInv
  <2>. SUFFICES ASSUME MemoryInit PROVE MemoryInv
    OBVIOUS
  <2>1. /\ memory \in Memories /\ memory.store = {} /\ memory.unsaved = <<>>
        /\ file = <<>> /\ ~open
    BY DEF MemoryInit, Fresh, Memories, Statuses
  <2>2. \A e \in Entries : memory.status[e] # "core"
    BY DEF MemoryInit, Fresh
  <2>3. file \in Seq(FileLines) /\ DOMAIN file = {}
    BY <2>1
  <2>4. FileOK /\ CoreIn(file, memory.core) /\ Marked
    BY <2>1, <2>2, <2>3, Zenon DEF FileOK, CoreIn, Marked
  <2>5. InStore(file) = {} /\ DOMAIN memory.unsaved = {}
    BY <2>1, <2>3 DEF InStore, EntriesOf
  <2>6. Awaited
    BY <2>1, <2>5 DEF Awaited
  <2>. QED  BY <2>1, <2>4, <2>6 DEF MemoryInv
<1>2. MemoryInv => MemoryPersists
  <2>. SUFFICES ASSUME MemoryInv PROVE MemoryPersists
    OBVIOUS
  <2>1. memory \in Memories /\ Marked /\ CoreIn(file, memory.core) /\ (~memory.needsFull => Awaited)
    BY Zenon DEF MemoryInv
  <2>2. file \in Seq(FileLines)
    BY Zenon DEF MemoryInv, FileOK
  <2>3. InCore(file) \subseteq memory.core
    <3>1. ASSUME NEW e \in InCore(file) PROVE e \in memory.core
      <4>1. PICK i \in DOMAIN file : /\ file[i].readable /\ file[i].entry = e
                                    /\ file[i].status = "core"
        BY <2>2, StoredLines, Zenon
      <4>. QED  BY <2>1, <4>1, Zenon DEF CoreIn
    <3>. QED  BY <3>1
  <2>4. ASSUME ~memory.needsFull, memory.unsaved = <<>>
        PROVE  memory.store \ unfiled \subseteq InStore(file) /\ InStore(file) \subseteq memory.store
    BY <2>1, <2>4 DEF Awaited
  <2>5. \A e \in memory.core : memory.status[e] = "core" => e \in memory.store
    BY <2>1 DEF Memories, Marked
  <2>. QED  BY <2>3, <2>4, <2>5 DEF MemoryPersists
<1>. QED  BY <1>1, <1>2, MemoryKeeps, PTL DEF MemorySpec

=============================================================================
