-------------------------------- MODULE Profile --------------------------------
(***************************************************************************)
(* The profile screen: the sheet with the learner's name, the picker of    *)
(* the tutor's voice, the settings with the account's deletion.            *)
(* mobile/src/screens/ProfileScreen.tsx,                                   *)
(* mobile/src/components/{VoicePicker,Achievements}Modal.tsx,              *)
(* mobile/src/store/auth.ts.                                               *)
(*                                                                         *)
(* The sheets are modal, one at a time, and keep their state while hidden. *)
(* A call answers with the whole user as the server had it then, and that  *)
(* becomes the user of the store.                                          *)
(***************************************************************************)
EXTENDS Naturals

CONSTANTS
  Names, TutorVoices,
  NoName,           (* What is left when all of it is deleted.                *)
  ProfileCalls,     (* Saves of a name or a voice under way at a time.        *)
  NoCall

VARIABLES
  profileOpen, sheet,       (* The screen is mounted; the sheet over it.      *)
  confirming,               (* The deletion is armed.                         *)
  deleting,                 (* Its call is under way.                         *)
  value, nameError, saving, (* Of the name's sheet.                           *)
  preview,                  (* Of a voice: "none", "playing" or "failed".     *)
  call,                     (* What each save under way has come to.          *)
  serverUser, user,         (* Name and voice: of the server, of the store.   *)
  gone,                     (* Signed out, or the account deleted.            *)
  crossed, unheard          (* History: saves overlapped; an answer was lost. *)

nameVars == << value, nameError, saving >>
deleteVars == << confirming, deleting >>
userVars == << call, serverUser, user, crossed, unheard >>
profileVars == << profileOpen, sheet, deleteVars, nameVars, preview, userVars, gone >>

Users == [name : Names, voice : TutorVoices]
Saves == [kind : {"name"},  new : Names,       answer : Users \cup {NoCall}]
    \cup [kind : {"voice"}, new : TutorVoices, answer : Users \cup {NoCall}]

ASSUME NoCallIsNothing == NoCall \notin Users \cup Saves

(***************************************************************************)
(* Sheets                                                                  *)
(***************************************************************************)

\* The name's sheet starts from the store's name, and only as it opens.
OpenSheet(s) ==
  /\ profileOpen /\ sheet = "none"
  /\ sheet' = s
  /\ IF s = "name" THEN value' = user.name /\ nameError' = FALSE
     ELSE UNCHANGED << value, nameError >>
  /\ UNCHANGED << profileOpen, confirming, deleting, saving, preview, userVars, gone >>

\* Closing the settings disarms the deletion.
Disarmed == IF sheet = "settings" THEN FALSE ELSE confirming

CloseSheet ==
  /\ profileOpen /\ sheet # "none"
  /\ sheet' = "none" /\ confirming' = Disarmed
  /\ UNCHANGED << profileOpen, deleting, nameVars, preview, userVars, gone >>

(***************************************************************************)
(* Settings                                                                *)
(***************************************************************************)

InSettings(now, busy, left) ==
  /\ profileOpen /\ sheet = "settings"
  /\ confirming' = now /\ deleting' = busy /\ gone' = left
  /\ UNCHANGED << profileOpen, sheet, nameVars, preview, userVars >>

ArmDeletion == ~confirming /\ InSettings(TRUE, deleting, gone)
KeepAccount == confirming /\ ~deleting /\ InSettings(FALSE, deleting, gone)
ConfirmDeletion == confirming /\ ~deleting /\ InSettings(confirming, TRUE, gone)
SignOutOfProfile == ~gone /\ InSettings(confirming, deleting, TRUE)

DeletionAnswered(deleted) ==
  /\ deleting /\ deleting' = FALSE
  /\ gone' = (gone \/ deleted)
  /\ UNCHANGED << profileOpen, sheet, confirming, nameVars, preview, userVars >>

(***************************************************************************)
(* Saves                                                                   *)
(***************************************************************************)

Ask(c, kind, new) ==
  /\ call[c] = NoCall
  /\ call' = [call EXCEPT ![c] = [kind |-> kind, new |-> new, answer |-> NoCall]]
  /\ crossed' = (crossed \/ \E d \in ProfileCalls : call[d] # NoCall)
  /\ UNCHANGED << serverUser, unheard >>

EditName(n) ==
  /\ profileOpen /\ sheet = "name" /\ n # value
  /\ value' = n /\ nameError' = FALSE
  /\ UNCHANGED << profileOpen, sheet, deleteVars, saving, preview, userVars, gone >>

\* The button is dead while a save is under way; the keyboard's "done" is not.  No name
\* is not sent.
SaveName(c, byKeyboard) ==
  /\ profileOpen /\ sheet = "name" /\ (byKeyboard \/ ~saving)
  /\ IF value = NoName THEN nameError' = TRUE /\ UNCHANGED << saving, userVars >>
     ELSE saving' = TRUE /\ Ask(c, "name", value) /\ UNCHANGED << nameError, user >>
  /\ UNCHANGED << profileOpen, sheet, deleteVars, value, preview, gone >>

\* Nothing changes until the answer is there.
ShownAtOnce(v) == user' = [user EXCEPT !.voice = v]
ShownWhenSaved(v) == UNCHANGED user

SelectVoice(c, v) ==
  /\ profileOpen /\ sheet = "voice"
  /\ Ask(c, "voice", v) /\ ShownWhenSaved(v)
  /\ UNCHANGED << profileOpen, sheet, deleteVars, nameVars, preview, gone >>

SaveServed(c) ==
  /\ call[c] # NoCall /\ call[c].answer = NoCall
  /\ serverUser' = IF call[c].kind = "name" THEN [serverUser EXCEPT !.name = call[c].new]
                   ELSE [serverUser EXCEPT !.voice = call[c].new]
  /\ call' = [call EXCEPT ![c].answer = serverUser']
  /\ UNCHANGED << profileOpen, sheet, deleteVars, nameVars, preview, user, gone, crossed,
                  unheard >>

\* A save of the name closes its sheet, whichever sheet it is by now.
SaveAnswered(c) ==
  /\ call[c] # NoCall /\ call[c].answer # NoCall
  /\ user' = call[c].answer
  /\ call' = [call EXCEPT ![c] = NoCall]
  /\ IF call[c].kind = "name"
     THEN /\ sheet' = IF sheet = "name" THEN "none" ELSE sheet
          /\ saving' = FALSE
     ELSE UNCHANGED << sheet, saving >>
  /\ UNCHANGED << profileOpen, deleteVars, value, nameError, preview, serverUser, gone, crossed,
                  unheard >>

SaveLost(c) ==
  /\ call[c] # NoCall
  /\ call' = [call EXCEPT ![c] = NoCall]
  /\ unheard' = (unheard \/ call[c].answer # NoCall)
  /\ IF call[c].kind = "name" THEN nameError' = TRUE /\ saving' = FALSE
     ELSE UNCHANGED << nameError, saving >>
  /\ UNCHANGED << profileOpen, sheet, deleteVars, value, preview, serverUser, user, gone,
                  crossed >>

(***************************************************************************)
(* Previews                                                                *)
(***************************************************************************)

\* One preview at a time; one that could not be heard says so.
PlayPreview ==
  /\ profileOpen /\ sheet = "voice" /\ preview # "playing"
  /\ preview' = "playing"
  /\ UNCHANGED << profileOpen, sheet, deleteVars, nameVars, userVars, gone >>

PreviewEnds(heard) ==
  /\ preview = "playing"
  /\ preview' = IF heard THEN "none" ELSE "failed"
  /\ UNCHANGED << profileOpen, sheet, deleteVars, nameVars, userVars, gone >>

(***************************************************************************)
(* Leaving                                                                 *)
(***************************************************************************)

\* What is under way goes on; the screen that comes back knows nothing of it.
LeaveProfile ==
  /\ profileOpen /\ (sheet = "none" \/ gone)
  /\ profileOpen' = FALSE /\ sheet' = "none"
  /\ confirming' = FALSE /\ nameError' = FALSE /\ saving' = FALSE
  /\ preview' = "none"
  /\ UNCHANGED << deleting, value, userVars, gone >>

EnterProfile ==
  /\ ~profileOpen /\ ~gone /\ ~deleting /\ \A c \in ProfileCalls : call[c] = NoCall
  /\ profileOpen' = TRUE
  /\ UNCHANGED << sheet, deleteVars, nameVars, preview, userVars, gone >>

ProfileInit ==
  /\ profileOpen = TRUE /\ sheet = "none"
  /\ confirming = FALSE /\ deleting = FALSE
  /\ nameError = FALSE /\ saving = FALSE
  /\ preview = "none"
  /\ call = [c \in ProfileCalls |-> NoCall]
  /\ serverUser \in Users /\ user = serverUser
  /\ value = user.name
  /\ gone = FALSE /\ crossed = FALSE /\ unheard = FALSE

ProfileNext ==
  \/ \E s \in {"settings", "name", "voice", "badges"} : OpenSheet(s)
  \/ CloseSheet
  \/ ArmDeletion \/ KeepAccount \/ ConfirmDeletion \/ SignOutOfProfile
  \/ \E deleted \in BOOLEAN : DeletionAnswered(deleted)
  \/ \E n \in Names \cup {NoName} : EditName(n)
  \/ \E c \in ProfileCalls :
       \/ \E byKeyboard \in BOOLEAN : SaveName(c, byKeyboard)
       \/ \E v \in TutorVoices : SelectVoice(c, v)
       \/ SaveServed(c) \/ SaveAnswered(c) \/ SaveLost(c)
  \/ PlayPreview
  \/ \E heard \in BOOLEAN : PreviewEnds(heard)
  \/ LeaveProfile \/ EnterProfile

ProfileSpec == ProfileInit /\ [][ProfileNext]_profileVars

ProfileTypeOK ==
  /\ {profileOpen, confirming, deleting, nameError, saving, gone, crossed, unheard} \subseteq BOOLEAN
  /\ sheet \in {"none", "settings", "name", "voice", "badges"}
  /\ value \in Names \cup {NoName} /\ {serverUser, user} \subseteq Users
  /\ preview \in {"none", "playing", "failed"}
  /\ call \in [ProfileCalls -> Saves \cup {NoCall}]

(***************************************************************************)
(* Properties                                                              *)
(***************************************************************************)

\* "The store updates only on success (so it stays truthful)": with nothing under way
\* the app shows the name and the voice the server keeps, unless saves overlapped or an
\* answer was lost.
ShownIsKept ==
  \/ crossed \/ unheard
  \/ \E c \in ProfileCalls : call[c] # NoCall
  \/ user = serverUser
=============================================================================
