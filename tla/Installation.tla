---------------------------- MODULE Installation ----------------------------
(***************************************************************************)
(* What the self-update promises about the releases on the device: the     *)
(* link systemd starts the daemon through always leads to a release whose  *)
(* verified binary is completely on disk, releases are only added, and the *)
(* link moves to another one in a single step.                             *)
(***************************************************************************)
CONSTANT Tags

VARIABLES installed, current

Init == \E first \in Tags : installed = {first} /\ current = first

Install == /\ \E t \in Tags \ installed : installed' = installed \cup {t}
           /\ UNCHANGED current

Switch == /\ current' \in installed
          /\ UNCHANGED installed

Next == Install \/ Switch

Spec == Init /\ [][Next]_<<installed, current>>
=============================================================================
