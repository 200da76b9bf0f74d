------------------------------- MODULE AuditLog -------------------------------
(***************************************************************************)
(* What rfsn_kernel/hard_ledger.py promises its callers: an append-only    *)
(* log.  A call of append names an entry, the entry is stored once, at the *)
(* end, and only then does the call return; a call that fails or a process *)
(* that dies may lose a call that has not returned, never a stored entry.  *)
(* HardLedger is shown to implement this module.                           *)
(***************************************************************************)
EXTENDS Naturals, Sequences

CONSTANTS Threads, Entries, NoEntry

VARIABLES log,    \* the stored entries, oldest first
          call    \* per thread: no call, a pending entry, or a stored one

vars == <<log, call>>

NoCall == [phase |-> "none", entry |-> NoEntry]

Init ==
    /\ log = <<>>
    /\ call = [t \in Threads |-> NoCall]

Call(t, e) ==
    /\ call[t] = NoCall
    /\ call' = [call EXCEPT ![t] = [phase |-> "pending", entry |-> e]]
    /\ UNCHANGED log

Store(t) ==
    /\ call[t].phase = "pending"
    /\ log' = Append(log, call[t].entry)
    /\ call' = [call EXCEPT ![t].phase = "stored"]

Return(t) ==
    /\ call[t].phase = "stored"
    /\ call' = [call EXCEPT ![t] = NoCall]
    /\ UNCHANGED log

Fail(t) ==
    /\ call[t].phase = "pending"
    /\ call' = [call EXCEPT ![t] = NoCall]
    /\ UNCHANGED log

Crash ==
    /\ call' = [t \in Threads |-> NoCall]
    /\ UNCHANGED log

Next ==
    \/ Crash
    \/ \E t \in Threads : Store(t) \/ Return(t) \/ Fail(t)
    \/ \E t \in Threads, e \in Entries : Call(t, e)

Spec == Init /\ [][Next]_vars
===============================================================================
