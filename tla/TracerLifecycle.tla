-------------------------- MODULE TracerLifecycle --------------------------
(***************************************************************************)
(* What a tracer runtime promises its owner (spec.md 4.1): the states      *)
(* Uninstalled -> Installed -> Running -> Closed, Closed reachable from    *)
(* every state and terminal, no way back from Running to Installed, and no *)
(* kernel attachment held once Closed.  While it is Uninstalled an install *)
(* may be under way and hold some attachments.                             *)
(***************************************************************************)

VARIABLES
  lstate,    \* "Uninstalled", "Installed", "Running" or "Closed"
  attached   \* some kernel-side attachment or loaded program is held

lvars == <<lstate, attached>>

LInit == lstate = "Uninstalled" /\ attached = FALSE

(* An install in progress takes an attachment. *)
Acquire ==
  /\ lstate = "Uninstalled"
  /\ attached' = TRUE
  /\ UNCHANGED lstate

(* Install succeeds: every attachment of the session is held. *)
Install ==
  /\ lstate = "Uninstalled"
  /\ lstate' = "Installed"
  /\ attached' = TRUE

(* Run starts the consumption task. *)
Start ==
  /\ lstate = "Installed"
  /\ lstate' = "Running"
  /\ UNCHANGED attached

(* Close, from any state but Closed, releases everything. *)
LClose ==
  /\ lstate # "Closed"
  /\ lstate' = "Closed"
  /\ attached' = FALSE

LNext == Acquire \/ Install \/ Start \/ LClose

LSpec == LInit /\ [][LNext]_lvars
=============================================================================
