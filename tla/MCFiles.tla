------------------------------ MODULE MCFiles ------------------------------
(* Small instances of Files: fresh values are shorter than others, and a     *)
(* configuration that says "true" is shorter than one that says "false".     *)
EXTENDS Files

MCSize == [x \in Values \cup Settings |->
             IF x = Default THEN 3 ELSE IF x \in Values THEN 4
             ELSE IF x.auto THEN 5 ELSE 6]

\* Only a store that has been used has an old profile in it.
MCLegacy == [v \in Values |-> IF v = Default THEN None ELSE v]
=============================================================================
