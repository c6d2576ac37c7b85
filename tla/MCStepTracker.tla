---- MODULE MCStepTracker ----
(* Two tasks, the second after the first, each with one retry. *)
EXTENDS StepTracker, TLC

MCAcima == "extract" :> {} @@ "load" :> {"extract"}
====
