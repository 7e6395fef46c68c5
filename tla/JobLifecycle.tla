------------------------------ MODULE JobLifecycle ------------------------------
(***************************************************************************)
(* What the dashboard may rely on about one job whose requests do not      *)
(* overlap: `shown` is the status State reports, `up` says that the job    *)
(* holds the handle of a process that a Stop can kill.                     *)
(***************************************************************************)
VARIABLES shown, up

Init == shown = "idle" /\ up = FALSE

(* Cloning, building and starting: no handle yet. *)
Work ==
  /\ ~up
  /\ shown' \in {"cloning", "building", "done", "error", "stopped"}
  /\ UNCHANGED up

Launch ==
  /\ ~up
  /\ shown \in {"building", "stopped"}
  /\ shown' = "running" /\ up' = TRUE

Stop == up /\ shown' = "stopped" /\ UNCHANGED up

(* A Stop sticks: the end of the process does not replace it by an error. *)
End ==
  /\ up
  /\ up' = FALSE
  /\ IF shown = "stopped" THEN shown' = "stopped"
                          ELSE shown' \in {"done", "error", "stopped"}

Next == Work \/ Launch \/ Stop \/ End

Safety == Init /\ [][Next]_<<shown, up>>

(* A stopped process does end; a running one need not. *)
Spec == Safety /\ WF_<<shown, up>>(End /\ shown = "stopped")
=============================================================================
