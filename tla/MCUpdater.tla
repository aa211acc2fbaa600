------------------------------ MODULE MCUpdater ------------------------------
(* Values for Updater: up to four releases, release 1 installed. *)
EXTENDS Updater

MCTags == {1, 2, 3}
MCVersion == [t \in MCTags |-> t]
MCFourTags == 1..4
MCFourVersion == [t \in MCFourTags |-> t]
MCTwoTags == {1, 2}
MCTwoVersion == [t \in MCTwoTags |-> t]
=============================================================================
