--------------------------- MODULE MCTelegramPush ---------------------------
(***************************************************************************)
(* Values of the constants of TelegramPush for TLC.                        *)
(***************************************************************************)
EXTENDS TelegramPush, TLC

\* Runs with the same settings are interchangeable.
RunSymmetry == Permutations(Runs)

\* Scan 1 holds a P0 signal to be checked by a human, a blocked P0 and a P2;
\* scan 2 holds an approved P0.
MCSignalsOf == [k \in Scans |-> IF k = 1 THEN Signals \cap (1..3)
                                ELSE Signals \cap {4}]
MCPriority == [s \in Signals |-> IF s = 3 THEN "P2" ELSE "P0"]
MCVerdict == [s \in Signals |-> CASE s = 1 -> "needs_human_review"
                                  [] s = 2 -> "blocked"
                                  [] OTHER -> "approved"]
=============================================================================
