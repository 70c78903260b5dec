---------------------------- MODULE MCStartFlow ----------------------------
(***************************************************************************)
(* Values of StartFlow's constants for the runs, and what keeps the runs   *)
(* small.                                                                  *)
(***************************************************************************)
EXTENDS StartFlow, TLC

(* Anybody may use any phone; a phone may draw any code, or none at all. *)
AllAccounts == [p \in Phones |-> Accounts]
AllCodes == [p \in Phones |-> Codes]
NoCodes == [p \in Phones |-> {}]

(* Accounts are interchangeable, and so are codes, and so are calls. *)
Symmetry == Permutations(Accounts) \cup Permutations(Codes) \cup Permutations(Calls)

(* Nothing but the pictures themselves reads uploads and images: a run that
   says nothing about pictures need not tell states apart by them. *)
NoPictures == <<dbVars, phoneVars>>
=============================================================================
