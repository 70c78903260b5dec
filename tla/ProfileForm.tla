----------------------------- MODULE ProfileForm -----------------------------
(***************************************************************************)
(* newProfileViewController: its text fields, the validity flag that is    *)
(* computed when editing ends and used when the form is sent, the picture  *)
(* and its picker, and what covers the form.  StartFlow has what sending   *)
(* and signing out do to the rest of the app; a token is always there      *)
(* (StartFlow's ScreenReady).                                              *)
(*                                                                         *)
(* A text is blank, right or wrong; of a name and a comment anything that  *)
(* is not blank is right.  The finish button lies outside the scroll view  *)
(* (Main.storyboard:381) and takes its own touches: a tap on it checks     *)
(* nothing.                                                                *)
(***************************************************************************)
EXTENDS Naturals

VARIABLES text,                 \* what the fields hold
          red,                  \* the fields whose text is red
          isAllTextFieldValid,
          profileImage,         \* whether a picture was picked
          over,                 \* what covers the form, or "nothing"
          userData,             \* the fields of User.shared.userData
          edited,               \* fields edited since the last check
          sent                  \* the document this form sent, with what the form was then

vars == <<text, red, isAllTextFieldValid, profileImage, over, userData, edited, sent>>

Checked == {"phone", "birthday"}
Fields == Checked \cup {"name", "comment"}
Texts == [Fields -> {"blank", "wrong", "right"}]
Blank == [f \in Fields |-> "blank"]
Covers == {"nothing", "error", "noPicture", "logout", "sheet", "picker", "code", "signIn"}
Sent == [text : Texts, edited : SUBSET Fields, red : SUBSET Checked]
-----------------------------------------------------------------------------
(* viewDidLoad *)
Opened(data) ==
    /\ text' = data
    /\ red' = {}
    /\ isAllTextFieldValid' = FALSE
    /\ profileImage' = FALSE
    /\ edited' = {}
    /\ over' = "nothing"
    /\ sent' = {}

isTextFieldValid(f) == text[f] = "right"

(* a slip: one right field is enough *)
checkVaildityOfAny ==
    /\ isAllTextFieldValid' = \E f \in Checked : isTextFieldValid(f)
    /\ red' = {f \in Checked : ~isTextFieldValid(f)}
    /\ edited' = {}

(* a slip: the blanks are coloured too *)
checkVaildityOfAll ==
    /\ isAllTextFieldValid' = \A f \in Fields : isTextFieldValid(f)
    /\ red' = {f \in Fields : ~isTextFieldValid(f)}
    /\ edited' = {}

(* The birthday is looked at, and its colour set, only if the phone is right. *)
checkVaildity ==
    /\ isAllTextFieldValid' = \A f \in Checked : isTextFieldValid(f)
    /\ red' = IF ~isTextFieldValid("phone") THEN red \cup {"phone"}
              ELSE IF ~isTextFieldValid("birthday") THEN {"birthday"} ELSE {}
    /\ edited' = {}

(* scrollViewTouch, touchesBegan and textFieldShouldReturn do the same; so does
   the tap that puts the cursor into a field. *)
EditingEnds ==
    /\ over = "nothing"
    /\ checkVaildity
    /\ UNCHANGED <<text, profileImage, over, userData, sent>>

Edit(f, t) ==
    /\ over = "nothing"
    /\ t # text[f]
    /\ f \in Checked \/ t # "wrong"
    /\ text' = [text EXCEPT ![f] = t]
    /\ edited' = edited \cup {f}
    /\ UNCHANGED <<red, isAllTextFieldValid, profileImage, over, userData, sent>>
-----------------------------------------------------------------------------
findNewPicture ==
    /\ over = "nothing"
    /\ over' = "sheet"
    /\ UNCHANGED <<text, red, isAllTextFieldValid, profileImage, userData, edited, sent>>

SourceChosen ==
    /\ over = "sheet"
    /\ over' = "picker"
    /\ UNCHANGED <<text, red, isAllTextFieldValid, profileImage, userData, edited, sent>>

(* The picker's answer, which may lack an edited image. *)
imagePickerController(edit) ==
    /\ over = "picker"
    /\ profileImage' = (profileImage \/ edit)
    /\ over' = "nothing"
    /\ UNCHANGED <<text, red, isAllTextFieldValid, userData, edited, sent>>

(* The last button of an alert or of the sheet, or the picker's. *)
Dismissed ==
    /\ over \in {"error", "noPicture", "logout", "sheet", "picker"}
    /\ over' = "nothing"
    /\ UNCHANGED <<text, red, isAllTextFieldValid, profileImage, userData, edited, sent>>
-----------------------------------------------------------------------------
(* A text field's text is never nil, so the two checks of the first line hold
   whatever the name and the comment are.  The picture may not convert. *)
finishWritingProfile(converts) ==
    /\ over = "nothing"
    /\ \/ /\ isAllTextFieldValid /\ profileImage /\ converts
          /\ sent' = {[text |-> text, edited |-> edited, red |-> red]}
          /\ userData' = text
          /\ over' = "code"
       \/ /\ isAllTextFieldValid /\ profileImage /\ ~converts
          /\ UNCHANGED <<sent, userData, over>>
       \/ /\ ~profileImage
          /\ over' = "noPicture"
          /\ UNCHANGED <<sent, userData>>
       \/ /\ ~isAllTextFieldValid /\ profileImage
          /\ over' = "error"
          /\ UNCHANGED <<sent, userData>>
    /\ UNCHANGED <<text, red, isAllTextFieldValid, profileImage, edited>>

(* backToProfile of the code screen opens a new form; a code that was drawn
   there has replaced userData (setSingleUserData). *)
backToProfile(drawn) ==
    /\ over = "code"
    /\ userData' = IF drawn THEN Blank ELSE userData
    /\ Opened(userData')

backToSignIn ==
    /\ over = "nothing"
    /\ over' = "logout"
    /\ UNCHANGED <<text, red, isAllTextFieldValid, profileImage, userData, edited, sent>>

(* The alert's other action signs out; a sign-in then opens a new form. *)
SignedOut ==
    /\ over = "logout"
    /\ over' = "signIn"
    /\ userData' = Blank
    /\ UNCHANGED <<text, red, isAllTextFieldValid, profileImage, edited, sent>>

SignedIn ==
    /\ over = "signIn"
    /\ Opened(userData)
    /\ UNCHANGED userData
-----------------------------------------------------------------------------
Init ==
    /\ text = Blank /\ userData = Blank
    /\ red = {} /\ isAllTextFieldValid = FALSE /\ profileImage = FALSE
    /\ over = "nothing" /\ edited = {} /\ sent = {}

Next ==
    \/ EditingEnds
    \/ \E f \in Fields, t \in {"blank", "wrong", "right"} : Edit(f, t)
    \/ findNewPicture \/ SourceChosen \/ Dismissed
    \/ \E edit \in BOOLEAN : imagePickerController(edit)
    \/ \E converts \in BOOLEAN : finishWritingProfile(converts)
    \/ \E drawn \in BOOLEAN : backToProfile(drawn)
    \/ backToSignIn \/ SignedOut \/ SignedIn

Spec == Init /\ [][Next]_vars
-----------------------------------------------------------------------------
TypeOK ==
    /\ text \in Texts /\ userData \in Texts
    /\ red \subseteq Checked /\ edited \subseteq Fields
    /\ isAllTextFieldValid \in BOOLEAN /\ profileImage \in BOOLEAN
    /\ over \in Covers /\ sent \subseteq Sent

(* A phone number or a birthday that is sent wrong was edited after the last
   check: a check is never forgotten, and none lasts from one form to the next. *)
WrongOnlyIfEdited ==
    \A s \in sent : \A f \in Checked : s.text[f] # "right" => f \in s.edited

(* The form is never sent while it shows a text in red, although a birthday that
   is wrong keeps its colour while the phone number is wrong too. *)
NothingRedIsSent == \A s \in sent : s.red = {}
=============================================================================
