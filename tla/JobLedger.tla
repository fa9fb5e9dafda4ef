------------------------------ MODULE JobLedger ------------------------------
(***************************************************************************)
(* What one download run promises about the files that the history offers: *)
(* every file that was found is settled once, as downloaded, skipped or    *)
(* failed; only a cancelled run loses files; and the statistics that the   *)
(* run reports are final.  DownloadPool implements this with goroutines    *)
(* and channels.                                                           *)
(***************************************************************************)
EXTENDS Naturals

CONSTANT None

VARIABLES
  cancelled,
  found,      \* how many files the history has offered
  open,       \* how many of them are neither settled nor lost
  stats,      \* how many were settled in each way
  report      \* the statistics reported at the end, or None before

vars == <<cancelled, found, open, stats, report>>

Outcome == {"downloaded", "skipped", "failed"}

Init ==
  /\ cancelled = FALSE
  /\ found = 0 /\ open = 0
  /\ stats = [o \in Outcome |-> 0]
  /\ report = None

Find ==
  /\ report = None \/ cancelled
  /\ found' = found + 1 /\ open' = open + 1
  /\ UNCHANGED <<cancelled, stats, report>>

Settle(o) ==
  /\ report = None /\ open > 0
  /\ open' = open - 1
  /\ stats' = [stats EXCEPT ![o] = @ + 1]
  /\ UNCHANGED <<cancelled, found, report>>

Cancel ==
  /\ ~cancelled /\ cancelled' = TRUE
  /\ UNCHANGED <<found, open, stats, report>>

Lose ==
  /\ cancelled /\ open > 0
  /\ open' = open - 1
  /\ UNCHANGED <<cancelled, found, stats, report>>

Report ==
  /\ report = None
  /\ cancelled \/ open = 0
  /\ report' = stats
  /\ UNCHANGED <<cancelled, found, open, stats>>

Next == Find \/ (\E o \in Outcome : Settle(o)) \/ Cancel \/ Lose \/ Report

Spec == Init /\ [][Next]_vars
=============================================================================
