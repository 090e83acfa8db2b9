----------------------------- MODULE PushLedger -----------------------------
(***************************************************************************)
(* What the push of the latest radar scan promises each chat, without the  *)
(* runs, sessions and commits that bring it about: which scans the chat    *)
(* was sent, for which of them a success is on record, and which P0        *)
(* signals have their standard report.  A message may be sent again as     *)
(* long as no success is on record; never after.                           *)
(***************************************************************************)
EXTENDS Integers, Sequences

CONSTANTS Chats, Scans, Signals, SignalsOf, Priority

VARIABLES
    received,  \* the scans each chat was sent, in order
    ledger,    \* <<chat, scan>> whose push is recorded as successful
    reported   \* <<chat, signal>> whose standard report exists

ledgerVars == <<received, ledger, reported>>

LedgerInit ==
    /\ received = [c \in Chats |-> <<>>]
    /\ ledger = {}
    /\ reported = {}

\* Only the newest scan sent so far, or a newer one, and not once recorded.
Deliver(c, k) ==
    /\ <<c, k>> \notin ledger
    /\ \A i \in DOMAIN received[c] : received[c][i] <= k
    /\ received' = [received EXCEPT ![c] = Append(@, k)]
    /\ UNCHANGED <<ledger, reported>>

P0Of(k) == {s \in SignalsOf[k] : Priority[s] = "P0"}

\* One commit may record pushes and reports together; a report is never on
\* record without a push of its scan to that chat.
Record ==
    /\ \E pushes \in SUBSET (Chats \X Scans) : ledger' = ledger \cup pushes
    /\ \E new \in SUBSET (Chats \X Signals) : reported' = reported \cup new
    /\ \A c \in Chats, s \in Signals : <<c, s>> \in reported' =>
            \E k \in Scans : s \in P0Of(k) /\ <<c, k>> \in ledger'
    /\ UNCHANGED received

LedgerNext == (\E c \in Chats, k \in Scans : Deliver(c, k)) \/ Record

LedgerSpec == LedgerInit /\ [][LedgerNext]_ledgerVars
=============================================================================
