-------------------------------- MODULE RunRecord --------------------------------
(* What whoever starts an investigation, and follows its stream, may rely on,  *)
(* whichever replica drives it.  A run that was taken up gets one result, which *)
(* nothing rewrites; until then it may be cancelled.  The stream only goes      *)
(* forward, ends with the result in the row or not at all, and its end is the   *)
(* last thing that happens to the run.                                          *)
EXTENDS Integers

CONSTANT None

VARIABLES status,   \* the row's status
          taken,    \* a worker has taken the run up
          last,     \* the last sequence number of the stream
          end       \* the status the stream ended with, or None

Results == {"completed", "completed_with_findings", "failed"}

Init == status = "queued" /\ taken = FALSE /\ last = -1 /\ end = None

Take ==
  /\ status = "queued" /\ status' = "planning" /\ taken' = TRUE
  /\ UNCHANGED <<last, end>>

Cancel ==
  /\ status \in {"queued", "planning"} /\ status' = "cancelled"
  /\ UNCHANGED <<taken, last, end>>

\* The result of a run that was cancelled while it was driven replaces that.
Conclude ==
  /\ taken /\ status \in {"planning", "cancelled"} /\ status' \in Results
  /\ UNCHANGED <<taken, last, end>>

Tell ==
  /\ taken /\ end = None /\ last' \in Int /\ last' > last
  /\ UNCHANGED <<status, taken, end>>

Close ==
  /\ taken /\ end = None /\ status \in Results
  /\ end' = status /\ last' \in Int /\ last' > last
  /\ UNCHANGED <<status, taken>>

Next == Take \/ Cancel \/ Conclude \/ Tell \/ Close

Spec == Init /\ [][Next]_<<status, taken, last, end>>
=============================================================================
