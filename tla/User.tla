------------------------------- MODULE User --------------------------------
(***************************************************************************)
(* struct User (Models/User.swift): the signed-in user as the process      *)
(* remembers it.  The same three keys are what UserDefaults holds between  *)
(* two runs of the app, so one record type serves both.  The mutating      *)
(* functions of the struct are operators from the old record to the new.   *)
(***************************************************************************)
EXTENDS DateDiary

Session == [userIdToken : Accounts \cup {Nil},
            connectionToken : Codes \cup {Nil},
            userData : UserData \cup {Nil}]

(* private init(), and an empty UserDefaults *)
EmptySession == [userIdToken |-> Nil, connectionToken |-> Nil, userData |-> Nil]

setUserIdToken(user, token) == [user EXCEPT !.userIdToken = token]

setUserData(user, data) == [user EXCEPT !.userData = data]

setConnectionToken(user, token) == [user EXCEPT !.connectionToken = token]

(* The guard of setSingleUserData reads `userData == nil', so a dictionary
   that is there is REPLACED by the single pair; one that is not there is
   force-unwrapped, see SingleUserDataTraps. *)
setSingleUserData(user, code) ==
    [user EXCEPT !.userData = [profile |-> Nil, connectionCode |-> code]]

SingleUserDataTraps(user) == user.userData = Nil

(* a slip: userData is forgotten by clean *)
cleanTokens(user) == [user EXCEPT !.userIdToken = Nil, !.connectionToken = Nil]

(* a slip: the token is kept by clean *)
cleanData(user) == [user EXCEPT !.userData = Nil, !.connectionToken = Nil]

clean(user) == EmptySession

(* userData?["connectionCode"] and userData?["name"] *)
CodeOf(user) == IF user.userData = Nil THEN Nil ELSE user.userData.connectionCode
ProfileOf(user) == IF user.userData = Nil THEN Nil ELSE user.userData.profile
=============================================================================
