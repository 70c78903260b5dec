----------------------------- MODULE AppStorage ----------------------------
(***************************************************************************)
(* struct AppStorage (Utils/AppStorage.swift) over Firebase Storage.  The  *)
(* app has one picture per account, images/<token>/profile.jpg.  putData   *)
(* is a task of the process: nothing repeats it when it fails or when the  *)
(* process dies, and its completion only prints.                           *)
(***************************************************************************)
EXTENDS DateDiary

VARIABLES uploads,      \* per phone, the accounts whose picture is on its way
          images        \* the accounts whose picture the server holds

storageVars == <<uploads, images>>

StorageTypeOK ==
    /\ uploads \in [Phones -> SUBSET Accounts]
    /\ images \in SUBSET Accounts

(* The accounts of `registered' left their picture there from another phone. *)
StorageInit(registered) ==
    /\ uploads = [p \in Phones |-> {}]
    /\ images = registered

upload(p, a) ==
    /\ uploads' = [uploads EXCEPT ![p] = @ \cup {a}]
    /\ UNCHANGED images

UploadStored(p, a) ==
    /\ a \in uploads[p]
    /\ uploads' = [uploads EXCEPT ![p] = @ \ {a}]
    /\ images' = images \cup {a}

UploadFailed(p, a) ==
    /\ a \in uploads[p]
    /\ uploads' = [uploads EXCEPT ![p] = @ \ {a}]
    /\ UNCHANGED images

UploadsLost(p) ==
    /\ uploads' = [uploads EXCEPT ![p] = {}]
    /\ UNCHANGED images
=============================================================================
