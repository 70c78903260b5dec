------------------------- MODULE MCFirestoreWrites -------------------------
(***************************************************************************)
(* Values of FirestoreWrites' constants for the runs.                      *)
(***************************************************************************)
EXTENDS FirestoreWrites

(* One code is added and deleted: writes whose order and repetition show. *)
AddsAndDeletes == {DB!addData("connection", c, a) : c \in Codes, a \in Accounts}
                  \cup {DB!removeData("connection", c) : c \in Codes}

=============================================================================
