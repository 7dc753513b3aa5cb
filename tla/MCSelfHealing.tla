--------------------------- MODULE MCSelfHealing ---------------------------
(* Two builds and one other content for the disk of SelfHealing.           *)
EXTENDS SelfHealing

TwoBuilds == {"old", "new"}
OneBuild  == {"old"}

\* What the operator and the machine do in each run.
Ordinary  == {"start", "stop", "crash", "install"}
Anything  == {"start", "stop", "crash", "manual", "change", "recover", "uninstall"}
StopOnly  == {"start", "stop"}
ByService == {"start", "change"}
Repairing == {"start", "change", "recover"}
=============================================================================
