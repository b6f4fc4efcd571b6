---------------------------- MODULE InputCapture ----------------------------
(***************************************************************************)
(* The InputCapture portal: InputCapturePortal and InputCaptureSession of  *)
(* src/src/inputcapture.cpp, with the compositor they drive.               *)
(*                                                                         *)
(* The portal keeps, per session, the state it believes the session is in, *)
(* and calls KWin over D-Bus.  The calls block; the signals KWin sends     *)
(* (disabled, deactivated, activated) wait in the portal's event queue     *)
(* until the running handler returns, so the portal's state trails KWin's. *)
(* KWin is external: its four calls and what it does by itself are         *)
(* modelled from the way inputcapture.cpp uses them.  It announces a       *)
(* change of a capture exactly when the capture changes.                   *)
(***************************************************************************)
EXTENDS Naturals, Sequences, FiniteSets

CONSTANTS
    Session,   \* session handles; the frontend never uses one twice
    Screens,   \* number of QScreens that can be plugged in
    Geometry,  \* Geometry[scr]: the geometries screen scr can have
    Results,   \* how a D-Bus call to KWin can end, a subset of CallResult
    MaxZone,   \* bound: the screens stop changing once m_zoneId reaches it
    MaxQueue   \* bound: KWin starts nothing, and the application
               \* does not call Disable, while so many signals wait

Screen == 1..Screens
Geometries == UNION {Geometry[scr] : scr \in Screen}
Off == "off"

\* "ok": done and answered.  "error": not done.  "late": kwinDBusTimeout ran
\* out, so the portal sees an error although KWin did what it was asked.
CallResult == {"ok", "error", "late"}

ASSUME InputCaptureAssumption ==
    /\ Screens \in Nat
    /\ Geometry \in [Screen -> SUBSET Geometries]
    /\ Off \notin Geometries
    /\ Results \subseteq CallResult
    /\ MaxZone \in Nat
    /\ MaxQueue \in Nat

State == {"Disabled", "Deactivated", "Activated"}
NoCapture == "NoCapture"

VARIABLES
    life,      \* life[s]: "fresh", "open" (in Session::sessionList) or "closed"
    dialog,    \* dialog[s]: the InputCaptureDialog of Start is open
    bound,     \* bound[s]: setupInputCaptureSession connected s to a capture
    state,     \* state[s]: InputCaptureSession::state
    barriers,  \* barriers[s]: m_barriers, as the screen geometries they fit
    zonesAsked,\* zonesAsked[s]: GetZones connected s to screenAdded/-Removed
    watch,     \* watch[s]: the screens whose geometryChanged s listens to
    told,      \* told[s]: the zone_set the application got last, as a set
    appOn,     \* appOn[s]: replies and signals told the application "enabled"
    zoneId,    \* m_zoneId
    geom,      \* geom[scr]: geometry of screen scr in qGuiApp->screens(), or Off
    pending,   \* sessions whose handleZoneChange has still to run
    kwin,      \* kwin[s]: KWin's state of the capture of s, or NoCapture
    armed,     \* armed[s]: the barriers KWin watches for s
    queue,     \* queue[s]: KWin's signals not yet delivered, oldest first
    missed,    \* history, missed[s]: since the barriers of s were last set or
               \* cleared a screen moved whose geometryChanged s does not hear
    tainted    \* history: KWin did something for s that the portal cannot know

appVars == <<told, appOn>>
zoneVars == <<zonesAsked, watch, zoneId, geom, pending, missed>>
kwinVars == <<kwin, armed, queue>>
sessionVars == <<life, dialog, bound, state, barriers>>
vars == <<sessionVars, zoneVars, appVars, kwinVars, tainted>>

-----------------------------------------------------------------------------
Zones == {geom[scr] : scr \in Screen} \ {Off}

\* Fault: screens are counted from zero.
UniqueScreensFromZero ==
    {scr - 1 : scr \in {other \in Screen : geom[other] # Off}}

\* GetZones and SetPointerBarriers skip a screen with the geometry of an
\* earlier one ("replicated/mirrored displays").
UniqueScreens ==
    {scr \in Screen : /\ geom[scr] # Off
                      /\ \A other \in 1..(scr - 1) : geom[other] # geom[scr]}

\* The portal is in its event loop: no handleZoneChange is under way.
Idle == pending = {}

Init ==
    /\ life = [s \in Session |-> "fresh"]
    /\ dialog = [s \in Session |-> FALSE]
    /\ bound = [s \in Session |-> FALSE]
    /\ state = [s \in Session |-> "Disabled"]
    /\ barriers = [s \in Session |-> {}]
    /\ zonesAsked = [s \in Session |-> FALSE]
    /\ watch = [s \in Session |-> {}]
    /\ told = [s \in Session |-> {}]
    /\ appOn = [s \in Session |-> FALSE]
    /\ zoneId = 0
    /\ geom \in {g \in [Screen -> Geometries \cup {Off}] :
                    \A scr \in Screen : g[scr] \in Geometry[scr] \cup {Off}}
    /\ pending = {}
    /\ kwin = [s \in Session |-> NoCapture]
    /\ armed = [s \in Session |-> {}]
    /\ queue = [s \in Session |-> <<>>]
    /\ missed = [s \in Session |-> FALSE]
    /\ tainted = [s \in Session |-> FALSE]

-----------------------------------------------------------------------------
(* KWin.  A call is a step of the portal's handler: r says how it ends.    *)

Done(s, r) == bound[s] /\ r \in {"ok", "late"}  \* an unbound path names no capture

Answered(s, r) == bound[s] /\ r = "ok"

KWinEnable(s) ==
    /\ kwin' = [kwin EXCEPT ![s] = IF @ = "Disabled" THEN "Deactivated" ELSE @]
    /\ armed' = [armed EXCEPT ![s] = barriers[s]]
    /\ UNCHANGED queue

KWinStop(s) ==
    /\ kwin' = [kwin EXCEPT ![s] = IF @ \in State THEN "Disabled" ELSE @]
    /\ armed' = [armed EXCEPT ![s] = {}]
    /\ queue' = [queue EXCEPT ![s] =
                   CASE kwin[s] = "Activated" -> Append(Append(@, "Deactivated"), "Disabled")
                     [] kwin[s] = "Deactivated" -> Append(@, "Disabled")
                     [] OTHER -> @]

KWinRelease(s) ==
    /\ IF kwin[s] = "Activated"
       THEN /\ kwin' = [kwin EXCEPT ![s] = "Deactivated"]
            /\ queue' = [queue EXCEPT ![s] = Append(@, "Deactivated")]
       ELSE UNCHANGED <<kwin, queue>>
    /\ UNCHANGED armed

\* The signals of a capture no session is connected to are not followed.
KWinCanAct(s) == bound[s] /\ Len(queue[s]) < MaxQueue

\* The pointer crosses a barrier of an enabled capture.
KWinActivates(s) ==
    /\ KWinCanAct(s)
    /\ kwin[s] = "Deactivated"
    /\ armed[s] # {}
    /\ kwin' = [kwin EXCEPT ![s] = "Activated"]
    /\ queue' = [queue EXCEPT ![s] = Append(@, "Activated")]
    /\ UNCHANGED <<armed, sessionVars, zoneVars, appVars, tainted>>

\* The user presses the disableInputCapture shortcut.
KWinEscapes(s) ==
    /\ KWinCanAct(s)
    /\ kwin[s] \in {"Deactivated", "Activated"}
    /\ KWinStop(s)
    /\ UNCHANGED <<sessionVars, zoneVars, appVars, tainted>>

-----------------------------------------------------------------------------
(* Creating and starting a session.                                        *)

CreateSession2(s) ==
    /\ Idle
    /\ life[s] = "fresh"
    /\ life' = [life EXCEPT ![s] = "open"]
    /\ UNCHANGED <<dialog, bound, state, barriers, zoneVars, appVars, kwinVars,
                   tainted>>

\* setupInputCaptureSession: addInputCapture, then connect the session.
Setup(s, r) ==
    /\ bound' = [bound EXCEPT ![s] = @ \/ r = "ok"]
    /\ kwin' = [kwin EXCEPT ![s] = IF r = "error" THEN @ ELSE "Disabled"]
    /\ tainted' = [tainted EXCEPT ![s] = @ \/ r = "late"]
    /\ UNCHANGED <<armed, queue>>

\* The frontend starts a session once, and again only if that failed.
CanStart(s) == Idle /\ life[s] = "open" /\ ~bound[s] /\ ~dialog[s]

\* Valid restore data covers what is asked: no dialog.
StartRestored(s, r) ==
    /\ CanStart(s)
    /\ Setup(s, r)
    /\ UNCHANGED <<life, dialog, state, barriers, zoneVars, appVars>>

StartWithDialog(s) ==
    /\ CanStart(s)
    /\ dialog' = [dialog EXCEPT ![s] = TRUE]
    /\ UNCHANGED <<life, bound, state, barriers, zoneVars, appVars, kwinVars,
                   tainted>>

DialogAccepted(s, r) ==
    /\ Idle
    /\ dialog[s]
    /\ dialog' = [dialog EXCEPT ![s] = FALSE]
    /\ Setup(s, r)
    /\ UNCHANGED <<life, state, barriers, zoneVars, appVars>>

\* The user or the request's Close rejects the dialog.
DialogRejected(s) ==
    /\ Idle
    /\ dialog[s]
    /\ dialog' = [dialog EXCEPT ![s] = FALSE]
    /\ UNCHANGED <<life, bound, state, barriers, zoneVars, appVars, kwinVars,
                   tainted>>

-----------------------------------------------------------------------------
(* Closing.  Session::close emits closed(): the dialog is rejected and a   *)
(* bound session's capture removed.  Its object and its signal connections *)
(* go with it.                                                             *)

\* Fault: only the capture of an enabled session is removed.
CloseSessionIfEnabled(s, r) ==
    /\ life' = [life EXCEPT ![s] = "closed"]
    /\ dialog' = [dialog EXCEPT ![s] = FALSE]
    /\ bound' = [bound EXCEPT ![s] = FALSE]
    /\ watch' = [watch EXCEPT ![s] = {}]
    /\ zonesAsked' = [zonesAsked EXCEPT ![s] = FALSE]
    /\ queue' = [queue EXCEPT ![s] = <<>>]
    /\ IF Done(s, r) /\ state[s] # "Disabled"
       THEN /\ kwin' = [kwin EXCEPT ![s] = NoCapture]
            /\ armed' = [armed EXCEPT ![s] = {}]
       ELSE UNCHANGED <<kwin, armed>>
    /\ tainted' = [tainted EXCEPT ![s] = @ \/ (bound[s] /\ r = "error")]

CloseSession(s, r) ==
    /\ life' = [life EXCEPT ![s] = "closed"]
    /\ dialog' = [dialog EXCEPT ![s] = FALSE]
    /\ bound' = [bound EXCEPT ![s] = FALSE]
    /\ watch' = [watch EXCEPT ![s] = {}]
    /\ zonesAsked' = [zonesAsked EXCEPT ![s] = FALSE]
    /\ queue' = [queue EXCEPT ![s] = <<>>]
    /\ kwin' = [kwin EXCEPT ![s] = IF Done(s, r) THEN NoCapture ELSE @]
    /\ armed' = [armed EXCEPT ![s] = IF Done(s, r) THEN {} ELSE @]
    /\ tainted' = [tainted EXCEPT ![s] = @ \/ (bound[s] /\ r = "error")]

Close(s, r) ==
    /\ Idle
    /\ life[s] = "open"
    /\ CloseSession(s, r)
    /\ UNCHANGED <<state, barriers, appVars, zoneId, geom, pending, missed>>

-----------------------------------------------------------------------------
(* Zones and barriers.                                                     *)

GetZones(s) ==
    /\ Idle
    /\ life[s] = "open"
    /\ told' = [told EXCEPT ![s] = {zoneId}]
    /\ watch' = [watch EXCEPT ![s] = @ \cup UniqueScreens]
    /\ zonesAsked' = [zonesAsked EXCEPT ![s] = TRUE]
    /\ UNCHANGED <<sessionVars, zoneId, geom, pending, missed, appOn, kwinVars,
                   tainted>>

\* An enabled session is disabled first; state follows with the signal.
\* accepted: whether any barrier passed checkAndMakeBarrier on these screens.
SetPointerBarriers(s, r, accepted) ==
    /\ Idle
    /\ life[s] = "open"
    /\ zoneId \in told[s]
    /\ IF state[s] # "Disabled" /\ Done(s, r)
       THEN KWinStop(s)
       ELSE UNCHANGED kwinVars
    /\ barriers' = IF state[s] = "Disabled" \/ Answered(s, r)
                   THEN [barriers EXCEPT ![s] = IF accepted THEN Zones ELSE {}]
                   ELSE barriers
    /\ missed' = IF state[s] = "Disabled" \/ Answered(s, r)
                 THEN [missed EXCEPT ![s] = FALSE]
                 ELSE missed
    /\ UNCHANGED <<life, dialog, bound, state, zonesAsked, watch, zoneId, geom,
                   pending, appVars, tainted>>

\* geometryChanged, screenAdded and screenRemoved run the handleZoneChange of
\* every session connected to the signal before the event loop goes on.  A
\* screen that came, or stopped being a mirror, after the last GetZones has
\* its geometryChanged connected to nothing.
ScreenChanges(scr, g) ==
    /\ Idle
    /\ zoneId < MaxZone
    /\ g # geom[scr]
    /\ geom' = [geom EXCEPT ![scr] = g]
    /\ pending' = IF geom[scr] = Off \/ g = Off
                  THEN {s \in Session : zonesAsked[s]}
                  ELSE {s \in Session : scr \in watch[s]}
    /\ missed' = IF geom[scr] = Off \/ g = Off THEN missed
                 ELSE [s \in Session |-> missed[s] \/ scr \notin watch[s]]
    /\ watch' = IF g = Off THEN [s \in Session |-> watch[s] \ {scr}] ELSE watch
    /\ UNCHANGED <<sessionVars, zonesAsked, zoneId, appVars, kwinVars, tainted>>

\* Fault: the barriers of the screens as they were are kept.
ZoneChangedKeepsBarriers(s, r) ==
    /\ s \in pending
    /\ state[s] = "Disabled" \/ Answered(s, r)
    /\ IF state[s] # "Disabled" THEN KWinStop(s) ELSE UNCHANGED kwinVars
    /\ zoneId' = zoneId + 1
    /\ told' = [told EXCEPT ![s] = {zoneId + 1}]
    /\ missed' = [missed EXCEPT ![s] = FALSE]
    /\ pending' = pending \ {s}
    /\ UNCHANGED <<life, dialog, bound, state, barriers, zonesAsked, watch, geom,
                   appOn, tainted>>

\* The capture is disabled, or never was enabled as far as the portal knows.
\* ZonesChanged carries the new zone_set: the application may set barriers
\* without asking for the zones again.
ZoneChanged(s, r) ==
    /\ s \in pending
    /\ state[s] = "Disabled" \/ Answered(s, r)
    /\ IF state[s] # "Disabled" THEN KWinStop(s) ELSE UNCHANGED kwinVars
    /\ barriers' = [barriers EXCEPT ![s] = {}]
    /\ zoneId' = zoneId + 1
    /\ told' = [told EXCEPT ![s] = {zoneId + 1}]
    /\ missed' = [missed EXCEPT ![s] = FALSE]
    /\ pending' = pending \ {s}
    /\ UNCHANGED <<life, dialog, bound, state, zonesAsked, watch, geom, appOn,
                   tainted>>

\* "Error disabling capture on zone change": the session is closed.
ZoneChangeFails(s, r) ==
    /\ s \in pending
    /\ state[s] # "Disabled"
    /\ \E disabling \in Results : ~Answered(s, disabling)
    /\ CloseSession(s, r)
    /\ pending' = pending \ {s}
    /\ UNCHANGED <<state, barriers, appVars, zoneId, geom, missed>>

-----------------------------------------------------------------------------
(* Enabling, disabling and releasing.                                      *)

\* Fault: the reply is not looked at.
EnableUnchecked(s, r) ==
    /\ Idle
    /\ life[s] = "open"
    /\ state[s] = "Disabled"
    /\ IF Done(s, r) THEN KWinEnable(s) ELSE UNCHANGED kwinVars
    /\ state' = [state EXCEPT ![s] = "Deactivated"]
    /\ appOn' = [appOn EXCEPT ![s] = TRUE]
    /\ tainted' = [tainted EXCEPT ![s] = @ \/ (Done(s, r) /\ r = "late")]
    /\ UNCHANGED <<life, dialog, bound, barriers, zoneVars, told>>

Enable(s, r) ==
    /\ Idle
    /\ life[s] = "open"
    /\ state[s] = "Disabled"
    /\ IF Done(s, r) THEN KWinEnable(s) ELSE UNCHANGED kwinVars
    /\ state' = [state EXCEPT ![s] = IF Answered(s, r) THEN "Deactivated" ELSE @]
    /\ appOn' = [appOn EXCEPT ![s] = @ \/ Answered(s, r)]
    /\ tainted' = [tainted EXCEPT ![s] = @ \/ (Done(s, r) /\ r = "late")]
    /\ UNCHANGED <<life, dialog, bound, barriers, zoneVars, told>>

\* As written, Disable calls session->enable().  The reply says Success; the
\* state is left to a signal.  A capture KWin had just stopped is armed again.
Disable(s, r) ==
    /\ Idle
    /\ life[s] = "open"
    /\ state[s] # "Disabled"
    /\ Len(queue[s]) < MaxQueue
    /\ IF Done(s, r) THEN KWinEnable(s) ELSE UNCHANGED kwinVars
    /\ appOn' = [appOn EXCEPT ![s] = @ /\ ~Answered(s, r)]
    /\ tainted' = [tainted EXCEPT ![s] = @ \/ (Done(s, r) /\ kwin[s] = "Disabled")]
    /\ UNCHANGED <<sessionVars, zoneVars, told>>

Release(s, r) ==
    /\ Idle
    /\ life[s] = "open"
    /\ state[s] = "Activated"
    /\ IF Done(s, r) THEN KWinRelease(s) ELSE UNCHANGED kwinVars
    /\ UNCHANGED <<sessionVars, zoneVars, appVars, tainted>>

\* Fault: "disabled" is forwarded but not noted.
SignalArrivesUnnoted(s) ==
    /\ Idle
    /\ life[s] = "open"
    /\ queue[s] # <<>>
    /\ state' = IF Head(queue[s]) = "Disabled" THEN state
                ELSE [state EXCEPT ![s] = Head(queue[s])]
    /\ appOn' = [appOn EXCEPT ![s] = Head(queue[s]) # "Disabled"]
    /\ queue' = [queue EXCEPT ![s] = Tail(@)]
    /\ UNCHANGED <<life, dialog, bound, barriers, zoneVars, told, kwin, armed,
                   tainted>>

\* The handlers of disabled, deactivated and activated: each sets the state
\* and forwards the signal to the application.
SignalArrives(s) ==
    /\ Idle
    /\ life[s] = "open"
    /\ queue[s] # <<>>
    /\ state' = [state EXCEPT ![s] = Head(queue[s])]
    /\ appOn' = [appOn EXCEPT ![s] = Head(queue[s]) # "Disabled"]
    /\ queue' = [queue EXCEPT ![s] = Tail(@)]
    /\ UNCHANGED <<life, dialog, bound, barriers, zoneVars, told, kwin, armed,
                   tainted>>

-----------------------------------------------------------------------------
Next ==
    \/ \E s \in Session :
          \/ CreateSession2(s) \/ StartWithDialog(s) \/ DialogRejected(s)
          \/ GetZones(s) \/ SignalArrives(s)
          \/ KWinActivates(s) \/ KWinEscapes(s)
    \/ \E s \in Session, r \in Results :
          \/ StartRestored(s, r) \/ DialogAccepted(s, r) \/ Close(s, r)
          \/ Enable(s, r) \/ Disable(s, r) \/ Release(s, r)
          \/ ZoneChanged(s, r) \/ ZoneChangeFails(s, r)
    \/ \E s \in Session, r \in Results, accepted \in BOOLEAN :
          SetPointerBarriers(s, r, accepted)
    \/ \E scr \in Screen : \E g \in Geometry[scr] \cup {Off} : ScreenChanges(scr, g)

Spec == Init /\ [][Next]_vars

\* The portal's event loop delivers what is queued, whatever else it has to
\* do in between, and a handler that runs goes on to its end.  Nobody else
\* has to act.
Fairness ==
    \A s \in Session :
        /\ SF_vars(SignalArrives(s))
        /\ WF_vars(\E r \in Results : ZoneChanged(s, r) \/ ZoneChangeFails(s, r))

FairSpec == Spec /\ Fairness

-----------------------------------------------------------------------------
(* Properties.                                                             *)

\* Every variable holds a value of its kind.
TypeOK ==
    /\ life \in [Session -> {"fresh", "open", "closed"}]
    /\ dialog \in [Session -> BOOLEAN]
    /\ bound \in [Session -> BOOLEAN]
    /\ state \in [Session -> State]
    /\ barriers \in [Session -> SUBSET Geometries]
    /\ zonesAsked \in [Session -> BOOLEAN]
    /\ watch \in [Session -> SUBSET Screen]
    /\ told \in [Session -> SUBSET Nat]
    /\ appOn \in [Session -> BOOLEAN]
    /\ zoneId \in Nat
    /\ geom \in [Screen -> Geometries \cup {Off}]
    /\ pending \in SUBSET Session
    /\ kwin \in [Session -> State \cup {NoCapture}]
    /\ armed \in [Session -> SUBSET Geometries]
    /\ queue \in [Session -> Seq(State)]
    /\ missed \in [Session -> BOOLEAN]
    /\ tainted \in [Session -> BOOLEAN]

\* A session whose calls to KWin did what their replies say.
Tracked(s) == life[s] = "open" /\ ~tainted[s]

\* The state the session will have once its queued signals are delivered.
Announced(s) == IF queue[s] = <<>> THEN state[s] ELSE queue[s][Len(queue[s])]

KWinState(s) == IF kwin[s] = NoCapture THEN "Disabled" ELSE kwin[s]

\* A session that reads as Disabled has no signal under way: what Enable then
\* writes cannot be undone by a signal of the time before.
NoStaleSignal ==
    \A s \in Session : Tracked(s) /\ state[s] = "Disabled" => queue[s] = <<>>

\* The state the portal keeps trails KWin's by exactly the signals in the
\* queue: Enable sets the state itself when no signal is left, everything else
\* is left to signals, and no order of calls, escapes and deliveries makes the
\* two diverge.
SignalsCatchUp ==
    /\ \A s \in Session : Tracked(s) => Announced(s) = KWinState(s)
    /\ NoStaleSignal

\* Barriers are allowed on screen edges that touch no other screen
\* (inputcapturebarrier.cpp).  So the barriers KWin watches, and those a later
\* Enable would send, fit the screens as they are, except while the handlers
\* of a screen change are still to run, and after a change the session could
\* not hear of: GetZones is where screens are listened to, and ZonesChanged
\* lets an application do without it.
BarriersFitZones ==
    \A s \in Session :
        Tracked(s) /\ s \notin pending /\ ~missed[s]
            => /\ barriers[s] \in {{}, Zones}
               /\ armed[s] \in {{}, Zones}

\* What holds of queue and states whenever KWin's capture is in state now: the
\* queue ends with now, stops are announced last, and Disabled reads as quiet.
Trails(believed, waiting, now) ==
    /\ (IF waiting = <<>> THEN believed ELSE waiting[Len(waiting)]) = now
    /\ believed = "Disabled" => waiting = <<>>
    /\ \A i \in 1..(Len(waiting) - 1) : waiting[i] # "Disabled"

\* The inductive invariant behind SignalsCatchUp, NoStaleSignal, NoCaptureLeft.
SignalInv(s) ==
    /\ bound[s] \/ dialog[s] => life[s] = "open"
    /\ ~(bound[s] /\ dialog[s])
    /\ life[s] = "fresh"
          => kwin[s] = NoCapture /\ ~tainted[s] /\ state[s] = "Disabled"
    /\ life[s] = "closed" /\ ~tainted[s] => kwin[s] = NoCapture
    /\ life[s] # "closed" /\ ~tainted[s] =>
          /\ bound[s] <=> kwin[s] \in State
          /\ Trails(state[s], queue[s], KWinState(s))

AllSignalInv == \A s \in Session : SignalInv(s)

\* A closed session leaves no capture behind in KWin, whatever its dialog and
\* its signals were doing.
NoCaptureLeft ==
    \A s \in Session :
        life[s] = "closed" /\ ~tainted[s] => kwin[s] = NoCapture

\* When KWin stops a capture the session becomes Disabled, is closed, or is
\* armed again; it does not stay enabled in the portal only.
StopIsNoticed ==
    \A s \in Session :
        life[s] = "open" /\ kwin[s] = "Disabled" /\ state[s] # "Disabled"
            ~> life[s] # "open" \/ kwin[s] # "Disabled" \/ state[s] = "Disabled"

\* What Disable's log message ("Failed to disable session") and its name say:
\* once the application has been told that its session is not enabled, KWin
\* does not watch its barriers.
DisableStopsCapture ==
    \A s \in Session :
        Tracked(s) /\ ~appOn[s] => KWinState(s) = "Disabled"

=============================================================================
