--------------------------- MODULE FileLifecycle ----------------------------
(* What the backend promises about one uploaded file: it is uploaded, taken  *)
(* up by the scan, ends processed or failed, and is then reported once, at   *)
(* the level its end calls for; a client may delete it at any point and it   *)
(* does not come back.                                                       *)

CONSTANTS Files

Stage == {"absent", "uploaded", "processing", "processed", "failed", "gone"}
Notice == {"none", "info", "warning", "critical"}

VARIABLES
  stage,    \* where each file stands
  flagged,  \* the scan found a threat in it
  notice    \* the alert about it

vars == <<stage, flagged, notice>>

TypeOK ==
  /\ stage \in [Files -> Stage]
  /\ flagged \in [Files -> BOOLEAN]
  /\ notice \in [Files -> Notice]

Init ==
  /\ stage = [f \in Files |-> "absent"]
  /\ flagged = [f \in Files |-> FALSE]
  /\ notice = [f \in Files |-> "none"]

Move(f, from, to) ==
  /\ stage[f] \in from
  /\ stage' = [stage EXCEPT ![f] = to]

Upload(f) ==
  /\ Move(f, {"absent"}, "uploaded")
  /\ UNCHANGED <<flagged, notice>>

\* Uploads fail and their ids are spent: one, or all in flight with a crash.
Abandon(F) ==
  /\ F # {}
  /\ \A f \in F : stage[f] = "absent"
  /\ stage' = [f \in Files |-> IF f \in F THEN "gone" ELSE stage[f]]
  /\ UNCHANGED <<flagged, notice>>

Scan(f) ==
  /\ Move(f, {"uploaded"}, "processing")
  /\ \E verdict \in BOOLEAN : flagged' = [flagged EXCEPT ![f] = verdict]
  /\ UNCHANGED notice

Complete(f) ==
  /\ Move(f, {"processing"}, "processed")
  /\ UNCHANGED <<flagged, notice>>

Fail(f) ==
  /\ Move(f, {"uploaded", "processing"}, "failed")
  /\ UNCHANGED <<flagged, notice>>

Notify(f) ==
  /\ stage[f] \in {"processed", "failed"}
  /\ notice[f] = "none"
  /\ notice' = [notice EXCEPT ![f] = IF stage[f] = "failed" THEN "critical"
                                     ELSE IF flagged[f] THEN "warning" ELSE "info"]
  /\ UNCHANGED <<stage, flagged>>

\* The row goes, and its alert with it.
Delete(f) ==
  /\ Move(f, {"uploaded", "processing", "processed", "failed"}, "gone")
  /\ flagged' = [flagged EXCEPT ![f] = FALSE]
  /\ notice' = [notice EXCEPT ![f] = "none"]

Next ==
  \/ \E f \in Files : \/ Upload(f)
                      \/ Scan(f)
                      \/ Complete(f)
                      \/ Fail(f)
                      \/ Notify(f)
                      \/ Delete(f)
  \/ \E F \in SUBSET Files : Abandon(F)

Spec == Init /\ [][Next]_vars
=============================================================================
