----------------------------- MODULE ScanBoard -----------------------------
(***************************************************************************)
(* What the radar promises the readers of radar_scan_batches and           *)
(* radar_signals: a batch appears as running and without content, and ends *)
(* at most once; its content appears in the same step as its success and   *)
(* never changes again.  A batch may stay running for ever.                *)
(***************************************************************************)
CONSTANT Batches

VARIABLES
    status,   \* of each batch
    content   \* the signals of each batch

boardVars == <<status, content>>

BoardInit ==
    /\ status = [b \in Batches |-> "absent"]
    /\ content = [b \in Batches |-> {}]

Open(b) ==
    /\ status[b] = "absent"
    /\ status' = [status EXCEPT ![b] = "running"]
    /\ UNCHANGED content

\* Whatever the scan found, as long as it found something.
Succeed(b) ==
    /\ status[b] = "running"
    /\ status' = [status EXCEPT ![b] = "success"]
    /\ content'[b] # {}
    /\ content' = [content EXCEPT ![b] = content'[b]]

EndEmpty(b) ==
    /\ status[b] = "running"
    /\ \E end \in {"no_data", "failure"} : status' = [status EXCEPT ![b] = end]
    /\ UNCHANGED content

BoardNext == \E b \in Batches : Open(b) \/ Succeed(b) \/ EndEmpty(b)

BoardSpec == BoardInit /\ [][BoardNext]_boardVars
=============================================================================
