------------------------------ MODULE Dialogs ------------------------------
(***************************************************************************)
(* The portals that answer a call with a dialog, a job or at once: access, *)
(* account, dynamic launcher, USB, wallpaper, screenshot, colour, e-mail   *)
(* and application chooser.  A dialog (quickdialog.cpp) is accepted or     *)
(* rejected by the user, or rejected by Close of its Request object        *)
(* (request.cpp); finished sends the delayed reply (dbushelpers.h), and    *)
(* the dialog lives on until the event loop deletes it.                    *)
(*                                                                         *)
(* Forms are abstracted to the answer they lead to; acted stands for the   *)
(* wallpaper or the preferred application being set.                       *)
(***************************************************************************)
EXTENDS Integers, Sequences

CONSTANTS
    Call,      \* calls of the portals; each has a handle of its own
    MaxPending \* bound: activation tokens, and screenshots, asked for at a time

ASSUME DialogsAssumption == MaxPending \in Nat

Response == {"Success", "Cancelled", "OtherError"}

\* Those with a Request object, and those shown by AppChooserDialog.
Closable == {"access", "launcher", "usb", "wallpaper", "screenshot", "choose"}
Chooser == {"choose", "choosePrivate"}
Kind == Closable \cup Chooser \cup {"account", "email", "pick"}

VARIABLES
    kind,      \* kind[c]: the method called, none before the call
    dialog,    \* dialog[c]: none, shown, ended (to be deleted) or gone
    requests,  \* calls whose Request object is registered on the bus
    waiting,   \* calls whose reply is connected to finished
    replies,   \* replies[c]: what was sent to the caller, in order
    choosers,  \* keys of m_appChooserDialogs
    tokens,    \* tokens[c]: activation tokens asked of the compositor
    shots,     \* shots[c]: screenshots that are being read
    image,     \* calls with a valid m_image
    agreed,    \* history: calls the user, or the frontend, agreed to
    acted      \* history: calls that changed the desktop

callVars == <<kind, waiting>>
pendingVars == <<tokens, shots, image>>
vars == <<callVars, dialog, requests, replies, choosers, pendingVars, agreed, acted>>

Init ==
    /\ kind = [c \in Call |-> "none"]
    /\ dialog = [c \in Call |-> "none"]
    /\ requests = {}
    /\ waiting = {}
    /\ replies = [c \in Call |-> <<>>]
    /\ choosers = {}
    /\ tokens = [c \in Call |-> 0]
    /\ shots = [c \in Call |-> 0]
    /\ image = {}
    /\ agreed = {}
    /\ acted = {}

-----------------------------------------------------------------------------
(* How a call begins.                                                      *)

Called(c, k) ==
    /\ kind[c] = "none"
    /\ kind' = [kind EXCEPT ![c] = k]
    /\ UNCHANGED pendingVars

\* makeClosableDialogRequest; the path may be taken.
Register(c) ==
    IF kind'[c] \in Closable THEN requests' \in {requests, requests \cup {c}}
    ELSE UNCHANGED requests

\* A dialog is shown and finished will send the reply.
ShowDialog(c) ==
    /\ dialog' = [dialog EXCEPT ![c] = "shown"]
    /\ waiting' = waiting \cup {c}
    /\ Register(c)
    /\ UNCHANGED <<replies, agreed, acted>>

\* The answer is the return value of the method.
AnswerAtOnce(c, response) ==
    /\ replies' = [replies EXCEPT ![c] = Append(@, response)]
    /\ UNCHANGED waiting

NoDialog == UNCHANGED <<dialog, requests>>

AccessDialog(c) == Called(c, "access") /\ ShowDialog(c) /\ UNCHANGED choosers

GetUserInformation(c) == Called(c, "account") /\ ShowDialog(c) /\ UNCHANGED choosers

PrepareInstall(c) == Called(c, "launcher") /\ ShowDialog(c) /\ UNCHANGED choosers

AcquireDevices(c) == Called(c, "usb") /\ ShowDialog(c) /\ UNCHANGED choosers

\* No known place to set it; without a preview it is set at once.
SetWallpaperURI(c) ==
    /\ Called(c, "wallpaper")
    /\ UNCHANGED choosers
    /\ \/ AnswerAtOnce(c, "OtherError") /\ NoDialog /\ UNCHANGED <<agreed, acted>>
       \/ /\ AnswerAtOnce(c, "Success") /\ NoDialog
          /\ agreed' = agreed \cup {c}
          /\ acted' = acted \cup {c}
       \/ ShowDialog(c)

\* Without interaction the dialog is only made to hold the image; nothing is
\* connected to it.  No image, or none that can be saved, is an error.
Screenshot(c) ==
    /\ Called(c, "screenshot")
    /\ UNCHANGED choosers
    /\ \/ /\ dialog' = [dialog EXCEPT ![c] = "ended"]
          /\ Register(c)
          /\ AnswerAtOnce(c, "Success") \/ AnswerAtOnce(c, "OtherError")
          /\ agreed' = agreed \cup {c}
          /\ UNCHANGED acted
       \/ ShowDialog(c)

\* KWin's picker; the call blocks until the user has clicked or escaped.
PickColor(c) ==
    /\ Called(c, "pick")
    /\ NoDialog
    /\ \/ AnswerAtOnce(c, "Success") /\ agreed' = agreed \cup {c}
       \/ AnswerAtOnce(c, "Cancelled") /\ UNCHANGED agreed
    /\ UNCHANGED <<choosers, acted>>

\* The job that starts the mail client takes the place of the dialog.
ComposeEmail(c) == Called(c, "email") /\ ShowDialog(c) /\ UNCHANGED choosers

ChooseApplication(c) ==
    /\ Called(c, "choose")
    /\ ShowDialog(c)
    /\ choosers' = choosers \cup {c}

\* Nothing to open: 1 is returned.  The watcher that is to reject the dialog
\* when the caller goes ends with the method, so it never does.
ChooseApplicationPrivate(c) ==
    /\ Called(c, "choosePrivate")
    /\ UNCHANGED choosers
    /\ \/ AnswerAtOnce(c, "Cancelled") /\ NoDialog /\ UNCHANGED <<agreed, acted>>
       \/ ShowDialog(c)

-----------------------------------------------------------------------------
(* How a dialog ends.                                                      *)

\* Variant: the chooser is forgotten when an application was chosen.
ForgetOnAccept(c, response) ==
    choosers' = IF response = "Success" THEN choosers \ {c} ELSE choosers

ForgetChooser(c, response) == choosers' = choosers \ {c}

\* accept and reject: finished sends the reply, the deletion is for later.
Finished(c, response) ==
    /\ dialog' = [dialog EXCEPT ![c] = "ended"]
    /\ replies' = IF c \in waiting THEN [replies EXCEPT ![c] = Append(@, response)] ELSE replies
    /\ IF kind[c] = "choose" THEN ForgetChooser(c, response) ELSE UNCHANGED choosers

\* What the portals do with a dialog that was accepted.
Accepted(c) ==
    /\ IF kind[c] = "screenshot"
       THEN \E response \in {"Success", "OtherError"} : Finished(c, response)
       ELSE Finished(c, "Success")
    /\ acted' = IF kind[c] = "wallpaper" THEN acted \cup {c} ELSE acted

\* Variant: the wallpaper is set whatever the result.
RejectedLikeAccepted(c) ==
    /\ Finished(c, "Cancelled")
    /\ acted' = IF kind[c] = "wallpaper" THEN acted \cup {c} ELSE acted

Rejected(c) == Finished(c, "Cancelled") /\ UNCHANGED acted

\* OK; a screenshot has to be there.  A chooser has no OK.
UserAccepts(c) ==
    /\ dialog[c] = "shown"
    /\ kind[c] \notin Chooser \cup {"email"}
    /\ kind[c] = "screenshot" => c \in image
    /\ agreed' = agreed \cup {c}
    /\ Accepted(c)
    /\ UNCHANGED <<callVars, requests, pendingVars>>

UserRejects(c) ==
    /\ dialog[c] = "shown"
    /\ kind[c] # "email"
    /\ Rejected(c)
    /\ UNCHANGED <<callVars, requests, pendingVars, agreed>>

\* Variant: the object stays registered.
CloseAgain(c) ==
    /\ c \in requests
    /\ Rejected(c)
    /\ UNCHANGED <<callVars, requests, pendingVars, agreed>>

\* Close of the Request object, which is unregistered.  A dialog that has ended
\* is rejected once more.
Close(c) ==
    /\ c \in requests
    /\ requests' = requests \ {c}
    /\ Rejected(c)
    /\ UNCHANGED <<callVars, pendingVars, agreed>>

\* The event loop deletes the dialog and all that belongs to it.
DeleteDialog(c) ==
    /\ dialog[c] = "ended"
    /\ dialog' = [dialog EXCEPT ![c] = "gone"]
    /\ requests' = requests \ {c}
    /\ tokens' = [tokens EXCEPT ![c] = 0]
    /\ shots' = [shots EXCEPT ![c] = 0]
    /\ image' = image \ {c}
    /\ UNCHANGED <<callVars, replies, choosers, agreed, acted>>

\* The mail client was started, or not.
JobFinished(c) ==
    /\ kind[c] = "email"
    /\ dialog[c] = "shown"
    /\ \/ Finished(c, "Success") /\ agreed' = agreed \cup {c}
       \/ Finished(c, "OtherError") /\ UNCHANGED agreed
    /\ UNCHANGED <<callVars, requests, pendingVars, acted>>

-----------------------------------------------------------------------------
(* The application chooser.                                                *)

\* onApplicationSelected.  The choice may be remembered by the portal, at once;
\* kbuildsycoca missing, the dialog stays open then.
ApplicationSelected(c) ==
    /\ dialog[c] = "shown"
    /\ kind[c] \in Chooser
    /\ tokens[c] < MaxPending
    /\ agreed' = agreed \cup {c}
    /\ \/ UNCHANGED acted /\ tokens' = [tokens EXCEPT ![c] = @ + 1]
       \/ /\ kind[c] = "choose"
          /\ acted' = acted \cup {c}
          /\ tokens' \in {tokens, [tokens EXCEPT ![c] = @ + 1]}
    /\ UNCHANGED <<callVars, dialog, requests, replies, choosers, shots, image>>

\* Variant: the token is kept, and nobody accepts.
TokenKept(c) ==
    /\ tokens[c] > 0
    /\ tokens' = [tokens EXCEPT ![c] = @ - 1]
    /\ UNCHANGED <<callVars, dialog, requests, replies, choosers, shots, image, agreed, acted>>

\* The compositor sends the activation token and the dialog is accepted, even
\* one that was closed while the token was under way.
TokenArrives(c) ==
    /\ tokens[c] > 0
    /\ tokens' = [tokens EXCEPT ![c] = @ - 1]
    /\ Accepted(c)
    /\ UNCHANGED <<callVars, requests, shots, image, agreed>>

-----------------------------------------------------------------------------
(* The screenshot dialog.                                                  *)

\* takeScreenshotInteractive, when KWin has agreed.
TakeScreenshot(c) ==
    /\ kind[c] = "screenshot"
    /\ dialog[c] = "shown"
    /\ shots[c] < MaxPending
    /\ shots' = [shots EXCEPT ![c] = @ + 1]
    /\ UNCHANGED <<callVars, dialog, requests, replies, choosers, tokens, image, agreed, acted>>

\* readImage returns; the image is null if the pipe failed or said nothing for
\* 30 seconds, and takes the place of a good one.
ScreenshotRead(c) ==
    /\ shots[c] > 0
    /\ shots' = [shots EXCEPT ![c] = @ - 1]
    /\ image' \in {image \cup {c}, image \ {c}}
    /\ UNCHANGED <<callVars, dialog, requests, replies, choosers, tokens, agreed, acted>>

-----------------------------------------------------------------------------
Next ==
    \E c \in Call :
        \/ AccessDialog(c) \/ GetUserInformation(c) \/ PrepareInstall(c) \/ AcquireDevices(c)
        \/ SetWallpaperURI(c) \/ Screenshot(c) \/ PickColor(c) \/ ComposeEmail(c)
        \/ ChooseApplication(c) \/ ChooseApplicationPrivate(c)
        \/ UserAccepts(c) \/ UserRejects(c) \/ Close(c) \/ DeleteDialog(c) \/ JobFinished(c)
        \/ ApplicationSelected(c) \/ TokenArrives(c)
        \/ TakeScreenshot(c) \/ ScreenshotRead(c)

\* The compositor answers, and the job ends.
Fairness == \A c \in Call : WF_vars(TokenArrives(c)) /\ WF_vars(JobFinished(c))

Spec == Init /\ [][Next]_vars /\ Fairness

-----------------------------------------------------------------------------
\* Every variable keeps its type; a call is replied to by its dialog, by each
\* token that is late and by one Close, and never more often.
TypeOK ==
    /\ kind \in [Call -> Kind \cup {"none"}]
    /\ dialog \in [Call -> {"none", "shown", "ended", "gone"}]
    /\ requests \subseteq Call
    /\ waiting \subseteq Call
    /\ replies \in [Call -> Seq(Response)]
    /\ choosers \subseteq Call
    /\ tokens \in [Call -> 0..MaxPending]
    /\ shots \in [Call -> 0..MaxPending]
    /\ image \subseteq Call
    /\ agreed \subseteq Call
    /\ acted \subseteq Call
    /\ \A c \in Call :
          Len(replies[c]) + tokens[c] + (IF c \in requests THEN 1 ELSE 0) <= MaxPending + 2

\* UpdateChoices never reaches a dialog that has been deleted: the map holds only
\* choosers that are on the screen, and a dialog that has ended has replied.
ChoosersAlive ==
    /\ choosers \subseteq {c \in Call : dialog[c] = "shown" /\ kind[c] = "choose"}
    /\ \A c \in Call : dialog[c] \in {"ended", "gone"} => replies[c] # <<>>

\* What the caller makes of the replies: D-Bus takes the first.
Answered == [c \in Call |-> IF replies[c] = <<>> THEN {} ELSE {Head(replies[c])}]

Promise == INSTANCE CallPromise WITH
    Answer <- Response, Success <- "Success", answer <- Answered

\* The dialogs keep the promise of CallPromise: one answer, no success and no
\* change of the desktop without the user's agreement, and none after the answer,
\* although a dialog may be finished several times before it is deleted.
PromiseKept == Promise!Spec

\* An application the user has selected is the end of the call, if the compositor
\* gives a token, and so is a job.
ChosenIsTold ==
    \A c \in Call :
        tokens[c] > 0 \/ (kind[c] = "email" /\ dialog[c] = "shown") ~> replies[c] # <<>>

=============================================================================
