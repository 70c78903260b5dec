-------------------------- MODULE ProfileFormProofs --------------------------
(***************************************************************************)
(* What ProfileForm never sends, whatever the order of editing, checking,  *)
(* picking and going back and forth.  The cached flag is tied to the       *)
(* fields by FlagIsKept: while it is set, no text is red and every checked *)
(* field that is not right was edited since.                               *)
(***************************************************************************)
EXTENDS ProfileForm, TLAPS

FlagIsKept ==
    isAllTextFieldValid =>
        /\ red = {}
        /\ \A f \in Checked : text[f] # "right" => f \in edited

FormInv == TypeOK /\ FlagIsKept /\ WrongOnlyIfEdited /\ NothingRedIsSent

(* A check leaves the flag set only on a form that is right and has no red. *)
LEMMA CheckKeepsFlag ==
    ASSUME red \subseteq Checked, checkVaildity, text' = text
    PROVE  FlagIsKept' /\ red' \subseteq Checked /\ edited' = {}
              /\ isAllTextFieldValid' \in BOOLEAN
BY DEF checkVaildity, isTextFieldValid, FlagIsKept, Checked

(* A form that is opened has been neither checked nor sent. *)
LEMMA OpenedIsFresh ==
    ASSUME NEW data \in Texts, Opened(data), userData' \in Texts
    PROVE  FormInv'
BY DEF Opened, FormInv, TypeOK, FlagIsKept, WrongOnlyIfEdited, NothingRedIsSent,
       Checked, Fields, Covers, Sent

(* A form that opens has nothing red, no verdict and no document. *)
LEMMA InitForm == Init => FormInv
BY DEF Init, FormInv, TypeOK, FlagIsKept, WrongOnlyIfEdited, NothingRedIsSent,
       Texts, Blank, Fields, Checked, Covers, Sent

(* Editing, checking and finishing keep the verdict tied to the fields. *)
LEMMA StepForm == FormInv /\ [Next]_vars => FormInv'
<1> SUFFICES ASSUME FormInv, [Next]_vars PROVE FormInv'
    OBVIOUS
<1> USE DEF FormInv
<1>t. TypeOK
    OBVIOUS
<1>1. CASE EditingEnds
    <2>1. FlagIsKept' /\ red' \subseteq Checked /\ edited' = {} /\ isAllTextFieldValid' \in BOOLEAN
        BY <1>1, <1>t, CheckKeepsFlag DEF EditingEnds, TypeOK
    <2>2. TypeOK'
        BY <1>1, <1>t, <2>1 DEF EditingEnds, TypeOK
    <2>3. WrongOnlyIfEdited' /\ NothingRedIsSent'
        BY <1>1 DEF EditingEnds, WrongOnlyIfEdited, NothingRedIsSent
    <2> QED BY <2>1, <2>2, <2>3
<1>2. ASSUME NEW f \in Fields, NEW t \in {"blank", "wrong", "right"}, Edit(f, t)
      PROVE  FormInv'
    <2>1. TypeOK'
        BY <1>2, <1>t DEF Edit, TypeOK, Texts
    <2>2. FlagIsKept'
        BY <1>2, <1>t DEF Edit, FlagIsKept, TypeOK, Texts, Checked, Fields
    <2>3. WrongOnlyIfEdited' /\ NothingRedIsSent'
        BY <1>2 DEF Edit, WrongOnlyIfEdited, NothingRedIsSent
    <2> QED BY <2>1, <2>2, <2>3
<1>3. CASE findNewPicture \/ SourceChosen \/ Dismissed \/ backToSignIn
    BY <1>3, <1>t DEF findNewPicture, SourceChosen, Dismissed, backToSignIn, TypeOK, Covers,
                      FlagIsKept, WrongOnlyIfEdited, NothingRedIsSent
<1>4. ASSUME NEW edit \in BOOLEAN, imagePickerController(edit)
      PROVE  FormInv'
    BY <1>4, <1>t DEF imagePickerController, TypeOK, Covers,
                      FlagIsKept, WrongOnlyIfEdited, NothingRedIsSent
<1>5. ASSUME NEW converts \in BOOLEAN, finishWritingProfile(converts)
      PROVE  FormInv'
    <2>1. CASE sent' = sent /\ userData' = userData
        BY <1>5, <1>t, <2>1 DEF finishWritingProfile, TypeOK, Covers,
                                FlagIsKept, WrongOnlyIfEdited, NothingRedIsSent
    <2>2. CASE /\ isAllTextFieldValid
               /\ sent' = {[text |-> text, edited |-> edited, red |-> red]}
               /\ userData' = text
               /\ over' = "code"
        <3>1. UNCHANGED <<text, red, isAllTextFieldValid, profileImage, edited>>
            BY <1>5 DEF finishWritingProfile
        <3>2. TypeOK'
            BY <1>t, <2>2, <3>1 DEF TypeOK, Sent, Covers
        <3>3. FlagIsKept'
            BY <3>1 DEF FlagIsKept
        <3>4. WrongOnlyIfEdited'
            BY <2>2 DEF FlagIsKept, WrongOnlyIfEdited
        <3>5. NothingRedIsSent'
            BY <2>2 DEF FlagIsKept, NothingRedIsSent
        <3> QED BY <3>2, <3>3, <3>4, <3>5
    <2> QED BY <1>5, <2>1, <2>2 DEF finishWritingProfile
<1>6. ASSUME NEW drawn \in BOOLEAN, backToProfile(drawn)
      PROVE  FormInv'
    <2>1. userData' \in Texts
        BY <1>6, <1>t DEF backToProfile, TypeOK, Texts, Blank
    <2> QED BY <1>6, <2>1, OpenedIsFresh DEF backToProfile
<1>7. CASE SignedOut
    BY <1>7, <1>t DEF SignedOut, TypeOK, Covers, Texts, Blank,
                      FlagIsKept, WrongOnlyIfEdited, NothingRedIsSent
<1>8. CASE SignedIn
    BY <1>8, <1>t, OpenedIsFresh DEF SignedIn, TypeOK
<1>9. CASE UNCHANGED vars
    BY <1>9, <1>t DEF vars, TypeOK, FlagIsKept, WrongOnlyIfEdited, NothingRedIsSent
<1> QED BY <1>1, <1>2, <1>3, <1>4, <1>5, <1>6, <1>7, <1>8, <1>9 DEF Next

(* The invariant of the form, from which its theorems follow. *)
LEMMA FormInvariant == Spec => []FormInv
BY InitForm, StepForm, PTL DEF Spec

(* Types, and with them that only the two fields that are checked are ever red. *)
THEOREM FormTypeCorrect == Spec => []TypeOK
<1>1. FormInv => TypeOK
    BY DEF FormInv
<1> QED BY <1>1, FormInvariant, PTL

(* A phone number or a birthday that is sent wrong was edited after the last
   check (newProfileViewController.swift:92 uses the verdict of line 56). *)
THEOREM SentWrongOnlyIfEdited == Spec => []WrongOnlyIfEdited
<1>1. FormInv => WrongOnlyIfEdited
    BY DEF FormInv
<1> QED BY <1>1, FormInvariant, PTL

(* No form is sent that shows a text in red. *)
THEOREM SentWithoutRed == Spec => []NothingRedIsSent
<1>1. FormInv => NothingRedIsSent
    BY DEF FormInv
<1> QED BY <1>1, FormInvariant, PTL
=============================================================================
