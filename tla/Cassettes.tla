------------------------------ MODULE Cassettes ------------------------------
(***************************************************************************)
(* The cassette of the LLM service (services/llm_service/app.py): POST     *)
(* /chat asks the model and, in mode "record", appends the answer to a     *)
(* JSONL file that is cut down when it is full; in mode "replay" it        *)
(* answers from the file.  Requests are threads and nothing is locked; the *)
(* service may crash, and restarts in either mode.                         *)
(*                                                                         *)
(* Recorded answers are told apart by the order in which they were written. *)
(* They hold none of the separators, newlines apart, at which splitlines    *)
(* cuts a line as well (app.py:151): a trim would cut their records in two. *)
(***************************************************************************)
EXTENDS Naturals, Sequences, FiniteSets, SequencesExt

CONSTANTS
    Chats,        \* threads that serve requests
    Prompts,      \* keys of requests
    MaxRecords,   \* max_records
    Strict,       \* a miss in replay is an error
    MaxAnswers    \* bound: answers of the model

ASSUME CassetteAssumption == MaxRecords \in Nat \ {0} /\ MaxAnswers \in Nat

VARIABLES
    mode,      \* "record" or "replay"
    tape,      \* lines: key, serial, whole or cut
    cut,       \* the last line lacks its newline
    chat,      \* thread -> what it is doing, key, the lines it read and those it keeps
    answers,   \* answers of the model so far
    recorded,  \* history: how many of them were recorded and returned
    joined,    \* history: answers whose line joined one that a crash had cut
    damaged    \* history: a trim was overtaken by another thread, or struck by a crash

cassetteVars == <<mode, tape, cut, chat, answers, recorded, joined, damaged>>

Silent == [pc |-> "idle", keys |-> {}, given |-> 0, keep |-> <<>>, from |-> <<>>]

CassetteInit ==
    /\ mode = "record"
    /\ tape = <<>> /\ cut = FALSE
    /\ chat = [t \in Chats |-> Silent]
    /\ answers = 0 /\ recorded = 0 /\ joined = {} /\ damaged = FALSE

-----------------------------------------------------------------------------

\* _load_cassette raises on a key that is there twice and on a line that is no JSON.
Readable ==
    /\ \A i \in DOMAIN tape : tape[i].whole
    /\ \A i, j \in DOMAIN tape : tape[i].key = tape[j].key => i = j
Hit(k) == \E i \in DOMAIN tape : tape[i].key = k

\* Bug: the newest lines are dropped.
KeptOldest(lines) == SubSeq(lines, 1, Len(lines) - Len(lines) \div 5)
Kept(lines) == SubSeq(lines, Len(lines) \div 5 + 1, Len(lines))

\* A live call: the model answers, or it fails and nothing is kept.
AskModel(t, k) ==
    /\ chat[t].pc = "idle"
    /\ mode = "record" \/ (~Strict /\ Readable /\ ~Hit(k))
    /\ answers < MaxAnswers
    /\ answers' = answers + 1
    /\ chat' = [chat EXCEPT ![t] =
           IF mode = "record" THEN [Silent EXCEPT !.pc = "append", !.keys = {k}] ELSE Silent]
    /\ UNCHANGED <<mode, tape, cut, recorded, joined, damaged>>

\* A replay: the content of the tape, an error for a miss or for a bad tape.
Replay(t, k) ==
    /\ chat[t].pc \in {"idle", "given"} /\ mode = "replay"
    /\ Readable /\ Hit(k)
    /\ LET i == CHOOSE i \in DOMAIN tape : tape[i].key = k IN
       chat' = [chat EXCEPT ![t] = [Silent EXCEPT !.pc = "given", !.given = tape[i].serial]]
    /\ UNCHANGED <<mode, tape, cut, answers, recorded, joined, damaged>>

\* _append_cassette reads the file, and rewrites it when it is full.
CheckSize(t) ==
    /\ chat[t].pc = "append"
    /\ chat' = IF Len(tape) < MaxRecords THEN [chat EXCEPT ![t].pc = "write"]
               ELSE [chat EXCEPT ![t].pc = "truncate", ![t].keep = Kept(tape), ![t].from = tape]
    /\ UNCHANGED <<mode, tape, cut, answers, recorded, joined, damaged>>

Truncate(t) ==
    /\ chat[t].pc = "truncate"
    /\ tape' = <<>> /\ cut' = FALSE
    /\ damaged' = (damaged \/ tape # chat[t].from)
    /\ chat' = [chat EXCEPT ![t].pc = "rewrite"]
    /\ UNCHANGED <<mode, answers, recorded, joined>>

\* What others appended meanwhile is written over, wholly or but for a rest.
Rewrite(t) ==
    /\ chat[t].pc = "rewrite"
    /\ \/ tape' = chat[t].keep
       \/ /\ tape # <<>>
          /\ tape' = Append(chat[t].keep, [Last(tape) EXCEPT !.whole = FALSE])
    /\ damaged' = (damaged \/ tape # <<>>)
    /\ chat' = [chat EXCEPT ![t].pc = "write", ![t].keep = <<>>, ![t].from = <<>>]
    /\ UNCHANGED <<mode, cut, answers, recorded, joined>>

TapeLine(t, whole) ==
    [key |-> CHOOSE k \in chat[t].keys : TRUE, serial |-> recorded + 1, whole |-> whole]
Appended(line) ==
    IF cut THEN [tape EXCEPT ![Len(tape)].whole = FALSE] ELSE Append(tape, line)

WriteRecord(t) ==
    /\ chat[t].pc = "write"
    /\ tape' = Appended(TapeLine(t, TRUE))
    /\ cut' = FALSE
    /\ recorded' = recorded + 1
    /\ joined' = IF cut THEN joined \cup {recorded'} ELSE joined
    /\ chat' = [chat EXCEPT ![t] = Silent]
    /\ UNCHANGED <<mode, answers, damaged>>

\* The service dies, perhaps with the line of one thread written in part or but for
\* its newline, and comes back in the mode its policy then names.
CrashAndRestart ==
    /\ \/ UNCHANGED <<tape, cut>>
       \/ \E t \in Chats, whole \in BOOLEAN :
              /\ chat[t].pc = "write"
              /\ tape' = Appended(TapeLine(t, whole))
              /\ cut' = TRUE
    /\ damaged' = (damaged \/ \E t \in Chats : chat[t].pc = "rewrite")
    /\ mode' \in {"record", "replay"}
    /\ chat' = [t \in Chats |-> Silent]
    /\ UNCHANGED <<answers, recorded, joined>>

CassetteNext ==
    \/ \E t \in Chats :
        \/ \E k \in Prompts : AskModel(t, k) \/ Replay(t, k)
        \/ CheckSize(t) \/ Truncate(t) \/ Rewrite(t) \/ WriteRecord(t)
    \/ CrashAndRestart

CassetteSpec == CassetteInit /\ [][CassetteNext]_cassetteVars

-----------------------------------------------------------------------------
(* Properties *)

OnTape(r) == \E i \in DOMAIN tape : tape[i].whole /\ tape[i].serial = r
Rewriting == \E t \in Chats : chat[t].pc = "rewrite"

\* As long as no trim was overtaken by another thread or struck by a crash, what
\* callers were given in mode "record" is on the tape, but for answers older than
\* the four fifths of max_records that a trim keeps (app.py:148-156), and for the one
\* answer after a crash in a write whose line joins the line that was cut (155-156).
TapeKeepsAnswers ==
    ~damaged /\ ~Rewriting =>
        \A r \in 1..recorded \ joined : OnTape(r) \/
            Cardinality({i \in DOMAIN tape : tape[i].serial > r}) >= MaxRecords - MaxRecords \div 5
=============================================================================
