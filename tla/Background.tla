----------------------------- MODULE Background -----------------------------
(***************************************************************************)
(* The background portal (src/src/background.cpp): which applications run  *)
(* and which is active, from the windows of KWin, and NotifyBackground,    *)
(* which asks the user about an application without windows.               *)
(***************************************************************************)
EXTENDS Integers, Sequences

CONSTANTS
    AppWindow,  \* windows
    LookedUp,   \* LookedUp[w]: the application id lookUpAppId finds for w
    Raw,        \* Raw[w]: the application id KWin has for w
    Notify,     \* calls of NotifyBackground
    NotifyAbout \* NotifyAbout[c]: the application of the call

App == {LookedUp[w] : w \in AppWindow} \cup {Raw[w] : w \in AppWindow}

VARIABLES
    windows,   \* windows of PlasmaWindowManagement
    active,    \* windows that are active
    appStates, \* m_appStates: application id |-> Active or Running
    told,      \* GetAppState as of the last RunningApplicationsChanged
    warned,    \* m_backgroundAppWarned
    notice,    \* notice[c]: none, open, activated or closed
    box,       \* calls with a message box
    answers,   \* answers[c]: replies sent, in order
    decided    \* history: decided[c]: what the user decided

backgroundVars == <<windows, active, appStates, told, warned, notice, box, answers, decided>>
windowVars == <<windows, active, appStates, told>>
noticeVars == <<warned, notice, box, answers, decided>>

BackgroundInit ==
    /\ windows = {}
    /\ active = {}
    /\ appStates = [a \in {} |-> "Running"]
    /\ told = appStates
    /\ warned = {}
    /\ notice = [c \in Notify |-> "none"]
    /\ box = {}
    /\ answers = [c \in Notify |-> <<>>]
    /\ decided = [c \in Notify |-> "nothing"]

-----------------------------------------------------------------------------
(* Windows.                                                                *)

State(isActive) == IF isActive THEN "Active" ELSE "Running"

\* m_appStates[app] = state, and RunningApplicationsChanged.
SetState(app, state) ==
    /\ appStates' = [a \in DOMAIN appStates \cup {app} |-> IF a = app THEN state ELSE appStates[a]]
    /\ told' = appStates'

AddWindow(w) ==
    /\ w \notin windows
    /\ windows' = windows \cup {w}
    /\ active' \in {active} \cup (IF active = {} THEN {{w}} ELSE {})
    /\ SetState(LookedUp[w], State(w \in active'))
    /\ UNCHANGED noticeVars

\* The window that was active is told first.
ActiveChanged(w) ==
    /\ w \in windows
    /\ \/ w \in active /\ active' = {}
       \/ active = {} /\ active' = {w}
    /\ SetState(Raw[w], State(w \in active'))
    /\ UNCHANGED windows /\ UNCHANGED noticeVars

\* Variant: the window itself was counted.
OthersAndItself(w) == {v \in windows : LookedUp[v] = LookedUp[w]}

\* Windows with the id and another uuid.
Others(w) == {v \in windows : LookedUp[v] = LookedUp[w] /\ v # w}

Unmapped(w) ==
    /\ w \in windows
    /\ windows' = windows \ {w}
    /\ active' = active \ {w}
    /\ IF Others(w) = {}
       THEN /\ appStates' = [a \in DOMAIN appStates \ {LookedUp[w]} |-> appStates[a]]
            /\ told' = appStates'
       ELSE UNCHANGED <<appStates, told>>
    /\ UNCHANGED noticeVars

-----------------------------------------------------------------------------
(* NotifyBackground.                                                       *)

Answer(c, result) == answers' = [answers EXCEPT ![c] = Append(@, result)]

NotifyBackground(c) ==
    /\ notice[c] = "none" /\ answers[c] = <<>>
    /\ \* No window management: what is returned allows it.
       \/ Answer(c, "AllowOnce") /\ UNCHANGED <<warned, notice>>
       \* The configuration, or a notice that is open: a reply is sent, and what is
       \* returned is sent after it.
       \/ /\ answers' = [answers EXCEPT ![c] = <<"AllowOnce", "empty">>]
          /\ UNCHANGED <<warned, notice>>
       \/ /\ NotifyAbout[c] \notin warned
          /\ warned' = warned \cup {NotifyAbout[c]}
          /\ notice' = [notice EXCEPT ![c] = "open"]
          /\ UNCHANGED answers
    /\ UNCHANGED <<windowVars, box, decided>>

Decide(c, what) == decided' = [decided EXCEPT ![c] = what]

\* The actions of the notice.
AllowAction(c) ==
    /\ notice[c] = "open"
    /\ Answer(c, "Allow") /\ Decide(c, "Allow")
    /\ notice' = [notice EXCEPT ![c] = "activated"]
    /\ UNCHANGED <<windowVars, warned, box>>

ForbidAction(c) ==
    /\ notice[c] = "open"
    /\ box' = box \cup {c}
    /\ notice' = [notice EXCEPT ![c] = "activated"]
    /\ UNCHANGED <<windowVars, warned, answers, decided>>

\* "Allow", "Deny Anyway"; closing the box is "Deny Anyway".
BoxFinished(c) ==
    /\ c \in box
    /\ box' = box \ {c}
    /\ \/ Answer(c, "Allow") /\ Decide(c, "Allow")
       \/ Answer(c, "Forbid") /\ Decide(c, "Forbid")
    /\ UNCHANGED <<windowVars, warned, notice>>

\* A notice that was activated closes too.
NoticeClosed(c) ==
    /\ notice[c] \in {"open", "activated"}
    /\ IF notice[c] = "open" THEN Answer(c, "AllowOnce") /\ Decide(c, "AllowOnce")
       ELSE UNCHANGED <<answers, decided>>
    /\ warned' = warned \ {NotifyAbout[c]}
    /\ notice' = [notice EXCEPT ![c] = "closed"]
    /\ UNCHANGED <<windowVars, box>>

BackgroundNext ==
    \/ \E w \in AppWindow : AddWindow(w) \/ ActiveChanged(w) \/ Unmapped(w)
    \/ \E c \in Notify :
         \/ NotifyBackground(c) \/ AllowAction(c) \/ ForbidAction(c)
         \/ BoxFinished(c) \/ NoticeClosed(c)

-----------------------------------------------------------------------------
\* What the frontend was last told lists an application exactly as long as it has a
\* window, if the id it is looked up under is the one KWin has for it.
StatesFollowWindows ==
    \A a \in App :
        (\A w \in AppWindow : a \in {LookedUp[w], Raw[w]} => LookedUp[w] = Raw[w]) =>
            (a \in DOMAIN told <=> \E w \in windows : LookedUp[w] = a)

\* A call for which the user was asked is answered once, with what the user decided,
\* and is not forgotten; and there is one notice at a time for an application.
UserDecides ==
    \A c \in Notify :
        /\ notice[c] # "none" =>
             /\ answers[c] = IF decided[c] = "nothing" THEN <<>> ELSE <<decided[c]>>
             /\ answers[c] = <<>> => notice[c] = "open" \/ c \in box
        /\ notice[c] \in {"open", "activated"} =>
             \A d \in Notify \ {c} :
                NotifyAbout[d] = NotifyAbout[c] => notice[d] \notin {"open", "activated"}

\* What the portal keeps follows the windows and the user.
BackgroundFollows == StatesFollowWindows /\ UserDecides

=============================================================================
