----------------------------- MODULE DateDiary -----------------------------
(***************************************************************************)
(* The words the modules share: the phones that run the app, the accounts  *)
(* (Firebase uids) that sign in on them, the six-digit connection codes,   *)
(* and the two documents the app keeps in Firestore.                       *)
(*                                                                         *)
(* A users document has four text fields (name, birthday, phone, comment)  *)
(* and a connectionCode.  What matters of the text is whose it is, so the  *)
(* four fields are one value, profile: the account of the person they      *)
(* describe, Nil when the fields are missing.  A connection document has   *)
(* one field, sender, and is that account.  Nil also stands for a missing  *)
(* document and for Swift's nil.                                           *)
(***************************************************************************)
CONSTANTS Phones, Accounts, Codes, Nil

UserData == [profile : Accounts \cup {Nil}, connectionCode : Codes \cup {Nil}]

(* Swift's nil is no account, no code and no dictionary. *)
ASSUME NilAssumption == Nil \notin Accounts \cup Codes \cup UserData
=============================================================================
