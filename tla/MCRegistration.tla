--------------------------- MODULE MCRegistration ---------------------------
(***************************************************************************)
(* Contacts of one owner at one remote target; the first two belong to the *)
(* same address of record.                                                 *)
(***************************************************************************)
EXTENDS Registration

MCOwner == [c \in Contacts |-> "profile"]
MCAor == [c \in Contacts |-> IF c > 2 THEN "b" ELSE "a"]
MCTarget == [c \in Contacts |-> "registrar"]

=============================================================================
