---------------------------- MODULE MCControlPlane ----------------------------
(* Instances of ControlPlane for TLC. *)
EXTENDS ControlPlane, TLC

\* Two Branches of one Project.
OneTenant == [c \in Computes |-> "a"]
OwnID     == [c \in Computes |-> c]

\* Two Branches of one name, in two namespaces and Projects.
OtherTenant == [c \in Computes |-> IF c = CHOOSE d \in Computes : TRUE THEN "a" ELSE "b"]
SameID      == [c \in Computes |-> "main"]

\* A tenant moves, and is split in two.
Moves  == << <<"n1">>, <<"n2">> >>
Splits == << <<"n1">>, <<"n1", "n2">> >>

\* Computes of one tenant are interchangeable.
Symmetry == Permutations(Computes)

===============================================================================
