# Verification of xdg-desktop-portal-kde

TLA+ models of the stateful parts of xdg-desktop-portal-kde, the TLC runs that
check them on small instances, and TLAPS proofs of the main results for every
value of the constants. `PROJECT.json` lists components, runs, mutants,
findings, hazards and theorems, and maps every definition to the lines it
models.

    tlc -workers 2 -config InputCapture.cfg MCInputCapture
    tlapm InputCaptureProofs.tla

## 1. The system

The portal is one process with one thread of control: the Qt event loop. The
frontend (xdg-desktop-portal) calls it over D-Bus on behalf of applications; it
calls KWin, the power management, the notification service and kglobalaccel, and
talks Wayland with the compositor. A handler runs to its end, or to the point
where it leaves the rest to a callback, a dialog, a timer or a continuation of a
future; everything hard about the program is what may happen in between.

| component | state | operations | talks to | module |
|---|---|---|---|---|
| Session (`session.cpp`) | `sessionList`, one D-Bus object per session, deleted later than closed | create, `Close`, `closeAll` when the frontend vanishes | everybody listens to `closed` | part of InputCapture, ScreenSharing, GlobalShortcuts, Clipboard |
| Input capture (`inputcapture.cpp`) | per session: state, barriers; one `m_zoneId` | CreateSession2, Start, GetZones, SetPointerBarriers, Enable, Disable, Release, signals of KWin, screen changes | KWin (blocking calls, queued signals), QScreen | InputCapture |
| Barrier geometry (`inputcapturebarrier.cpp`) | none | `checkAndMakeBarrier` | InputCapture | Barriers |
| Inhibit (`inhibit.cpp`) | monitors and who still has to respond, blockers, lock state, session state, the pending query, timers | CreateMonitor, Inhibit, QueryEndResponse, queryCanEndSession, endSession | the shutdown process, the screen locker | InhibitPortal |
| Inhibitions (`inhibit.cpp`, `notificationinhibition.cpp`) | a cookie per object | create, destroy, reply | power management, notification service | Inhibition |
| ScreenCast and RemoteDesktop (`screencast.cpp`, `remotedesktop.cpp`, `waylandintegration.cpp`) | sessions, streams, status notifier, the counter of the fake input device | CreateSession, SelectSources/-Devices, Start, dialog, stream created/failed/closed, End | KWin (streams), permission store, MediaMonitor, user | ScreenSharing |
| Screen chooser (`outputsmodel.cpp`, `screenchooserdialog.cpp`, `filteredwindowmodel.cpp`) | rows, selected rows, ticked windows | screens and windows come and go, tick, click, search, accept | QScreen, KWin windows | ScreenChooser |
| Restore data (`screencast.cpp`) | what the application keeps | save, match screens and windows | ScreenSharing | Restore |
| Clipboard (`clipboard.cpp`) | `m_source`, `m_currentOffer`, pending transfers | RequestClipboard, SetSelection, SelectionRead/Write/WriteDone | the compositor, Session | Clipboard |
| Global shortcuts (`globalshortcuts.cpp`) | actions per session, the dialog and its model | BindShortcuts, ListShortcuts, setActions, changes from outside | kglobalaccel, a dialog | GlobalShortcuts |
| Requests and dialogs (`request.cpp`, `quickdialog.cpp`, `dbushelpers.h`) | a dialog and a delayed reply per call | accept, reject, Close, delete | every portal with a dialog | Dialogs implements CallPromise |
| Access, account, e-mail, dynamic launcher, USB, wallpaper, screenshot, colour | a dialog, a job, or nothing | one call each | user | Dialogs |
| Application chooser (`appchooser.cpp`, `appchooserdialog.cpp`) | the map of choosers; the list of applications | ChooseApplication, UpdateChoices, select, search | the compositor (activation tokens), KSycoca | Dialogs, AppList |
| Print (`print.cpp`) | printers by token | PreparePrint, Print | the print dialog, CUPS | PrintPortal |
| File chooser (`filechooser.cpp`, `kirigami-filepicker`) | a dialog per call; one shared by all on a phone | OpenFile, SaveFile | KIOFuse, the document portal | FileChooser |
| Settings (`settings.cpp`) | a cached configuration | Read, ReadAll, SettingChanged | KConfig, KWin, the palette | Settings |
| Background (`background.cpp`) | application states, who was warned | NotifyBackground, window events | KWin windows, notifications | Background |
| EIS connections, trigger strings, user interface | – | – | – | not modelled (section 6) |

What is hard, and what has to be right:

* **Trailing state.** Input capture, the clipboard, global shortcuts and the
  settings keep a copy of a state that lives elsewhere and changes by itself.
  The copy, and what applications were told of it, has to agree once the messages
  under way have arrived, in every order of calls, time-outs and events.
* **Ends.** A session ends by Close, by the user, with its last stream, by an
  error inside a handler, or with the frontend; its object lives on until the
  event loop deletes it, and calls in the queue still reach it. Captures,
  streams, the fake input device, inhibitions, dialogs and the clipboard have to
  go with it, each exactly once.
* **Replies that come later.** A dialog may be finished several times before it is
  deleted; Start waits for a dialog and for streams that KWin creates one by one;
  a chooser waits for a token of the compositor. Whatever happens in between, the
  call is answered once and with what the user decided.
* **Time.** The end of the desktop session waits for applications, but not long.
* **Stale reads.** What was computed before a dialog (windows, screens,
  shortcuts) is used after it; what was saved by one run is restored in another.
* **Shared objects.** On a phone all file dialogs are one, and their calls nest.
  Printers are found by a token that is the time in seconds.

## 2. Modules

`<Name>.tla` is the model, `MC<Name>.tla` gives TLC its constants,
`<Name>*.cfg` are the runs, `<Name>Proofs.tla` the theorems.

### InputCapture

`state`, `barriers`, `bound`, `dialog` are fields of an InputCaptureSession,
`zoneId` is `m_zoneId`, `told` the zone_set an application had last, from GetZones
or with ZonesChanged, `watch` and `zonesAsked` the signals of QScreen and
QGuiApplication a session is connected to: GetZones connects to the screens of
that moment, one of those that mirror each other. `kwin` and `armed` are the
capture as KWin has it, `queue` the signals on their way. One action per D-Bus method; a
handler that calls KWin takes the ending of the call as a parameter `r`: "ok",
"error", or "late" (the time-out ran out although KWin did it). A screen change
puts every connected session in `pending`, and no other handler runs until each
`handleZoneChange` has run, as in a direct signal connection. Barriers are
abstracted to the set of screen geometries they were computed from; which line
is a barrier is the subject of Barriers. `tainted` marks sessions for which KWin
did something that no reply says, for which nothing can be promised.

* `SignalsCatchUp`: the portal's state, followed by the queued signals, is
  KWin's state, and what Enable writes is not undone by a signal of an earlier
  time. `BarriersFitZones`: KWin never watches barriers of screens that are no
  more, mirrored ones included, unless a screen moved of which the session does
  not hear (`missed`): one that came, or stopped being a mirror, after the last
  GetZones (`inputcapture.cpp:323`). `NoCaptureLeft`: closing removes the
  capture. `StopIsNoticed`: an application that was told "enabled" and whose
  capture stopped is told in the end.
* `input_capture_disable` shows a place where the code and its own words differ
  (section 5).

Not modelled: ConnectToEIS (hands out a descriptor), the notification, the
clipboard flag. GetZones connects `geometryChanged` again each time it is called;
the handlers then run more than once, which is abstracted to once. KWin is taken
to send a signal exactly when the state of a capture changes.

### InhibitPortal

`monitors`, `waiting`, `blockers`, `sessionState`, `lockState` and `pending` are
the members of InhibitPortal; `timers` are the `QTimer::singleShot`s under way,
as ticks left, which nothing cancels, `starting` the monitors whose first
StateChanged is still to be sent. It is sent from an event of its own, whatever
the monitor was told before, with the states of then. `owes`, `placing` are what the
applications still mean to send, `age` and the history variables are for the
properties. Timers fire before time goes on (the event loop is not late by a
tick).

* `AnsweredInTime`: logout is never held up for longer than the deadline, nor
  longer than 100 ms once all have responded. `MonitorsUpToDate`: a monitor that
  joins late misses no change. `BlockersHonoured`: an Inhibit that races its
  QueryEndResponse is waited for. `CleanGraceKept`: applications get their
  second, unless an earlier query's timers or responses interfere. `QueriesEnd`.
* `inhibit_portal_grace` drops the "unless": violated (section 5).

Not modelled: a request whose object cannot be registered, the query for the
lock state at start (it leads to LockScreenStateChanged).

### Inhibition implements InhibitionPromise

Objects that ask a service for an inhibition asynchronously. `InhibitionPromise`
is what the rest of the portal relies on: while the object lives nobody lifts
what it inhibits, and it inhibits at most once. `Inhibition` has the pieces of
the code: the object, its cookie, the call at the service, the watcher, the
releases under way. Services give cookies out again once they are released, so
releasing a cookie twice, or one that is not there, would lift somebody else's
inhibition: `PromiseKept` is `InhibitionPromise!Spec` under the refinement
mapping `Wish`, `Inhibited`, `Lifted`. `InhibitionsEnd`: what was destroyed
leaves nothing behind, except calls that timed out, which do leak.
The two classes differ in what counts as no cookie (an empty optional, or 0).
Services are not restarted.

### ScreenSharing

Two kinds of sessions share streams, the status notifier and the fake input
device. `life` distinguishes "closed" (deleteLater) from "deleted"; `closeCall`
is a Session.Close that is in the event queue when the session closes for
another reason. `batches` are the `QtFuture::whenAll` of a start; `stream` is the
life of each stream from the request to KWin to its end. A continuation
(`.then`) of the last answer runs in the same step as the answer, on the main
thread. The three permission store lookups of one Start are any triple of
answers. The dialog is open or not; what is selected in it is a set of streams,
some of which may have no window any more (`missing`). A failed stream in a
RemoteDesktop session leads to `takeResult()` on a cancelled future, which is
undefined; the model goes on with OtherError. Assertions are modelled as in a
release build, with `underflow` to tell.

* `InputMatchesSessions`: the fake input device exists exactly while an open
  session has acquired it (when no session was closed twice and none acquired
  twice). `StartRepliedOnce`. `GrantIsVisible`: what was granted has its "End".
  `EndsWithItsStreams`. `StreamsEnd`: however a session ends, KWin is left with
  none of its streams.
* `screen_sharing_underflow`: an assertion of the code that can fail (section 5).

Not modelled: what is chosen and restored (ScreenChooser, Restore), the EIS
cookie, the region editor. The Notify* calls change nothing in the portal.

### ScreenChooser

The dialog of ScreenSharing. `rows` is `m_outputs`, `selectedRows` are numbers,
not screens: a screen that goes away shifts the rows below it while the ticks
stay where they are (the constructor counts on `multiple` and the types).
`Requests` are the types an application may ask for. An output that is all there is to choose is ticked for
the user. A single window is not, although `ScreenChooserDialog.qml:202` says so:
line 206 hands the windows an index of the outputs, of which there are none, and
`setData` refuses it (`screenchooserdialog.cpp:64`).
`tickedWindows` holds windows by identity, also those that have closed; the
continuation of Start looks them up again.

* `TickedIsShared`: what Start reads is what the user ticked, of the windows
  those that are still there, and one thing if only one was asked for; for
  outputs only if no screen was removed or sorted in between (`moved`), because
  the code really shares another one then.

Not modelled: icons, previews, the shape of a region. A row that is out of range
is read past the end of a list, which is undefined; the model says "nothing".
Enter in the search field shares the window that is left.

### Restore

`StartAndSave` is a Start with a dialog that gives the application its data,
`RestoringStart` the one that comes back with it. Screens are known by the
position of their corner (`UniqueId`, `outputsmodel.cpp:157`): `plugged` screens
stand where `area` says, come, go and move, and `Finds` takes for each saved place
the screen that stands there now. `Within` asks whether a region lies in the
bounding rectangle of all screens, gaps included. `TryMatchWindows` finds for every
saved window the best among those of the application, by the Levenshtein distance
of their titles. The distance is computed as the code does, with the cell of its
vector it never writes (`screencast.cpp:66`) as any of the values in `Garbage`, one
per pair of a saved and a listed window; `EditDistance` is the definition of the
distance. `stood` remembers where the screens the user chose stood.

* `RestoredIsChosen`: what is shared without asking was chosen before: something
  is; each screen stands where a chosen one stood; if neither windows nor a region
  were chosen, all of the outputs are there, each at its place; windows only of
  applications that had one; and if no distance was misread and no window counted
  twice (`reliable`) every window is like a chosen one and every chosen one has one
  like it.

The property is as weak as the code. A screen nobody chose is shared silently if it
has taken the place of one that was, and a chosen one that moved is not found. A
region may come to lie where there is no screen. An empty title may count as
exact or similar to any other (the unwritten cell); an exact match found after an
inferior one pushes both windows (`screencast.cpp:101`); `valid` of the outputs is
overwritten by that of the region and of the windows, so that screens that are gone
are silently left out. Restoring does not look at `types` and `multiple`.

### Barriers

`CheckAndMakeBarrier` as it is, transposition included, against a definition in
terms of pixels that shares nothing with it.

* `BarriersAtTheOutside`: a line is made a barrier exactly if it lies along a
  whole side of a screen with nothing but the outside of the desktop beyond it,
  and KWin is given exactly the pixels of that side.

This holds for screens that do not overlap. With mirrored screens a line between
two copies may be accepted or refused by the order of the screens. A side that a
neighbour touches only in part cannot be a barrier: the code refuses it, and so
does the property.

### Clipboard

`requests` and `events` are the two directions of the Wayland connection,
`source` is `m_source`, `selection` what the compositor has. Selections are
numbered; `owner` says who made one. Other programs take and lose the selection
at any time. KWin cancels the old source before it announces the new selection;
an event for a source that the portal has destroyed is dropped.

* `SourceCatchesUp`: when nothing is under way, `m_source` is the selection or
  null; it never belongs to a session that is gone. `ToldRight`: then every
  session was told the truth. `NoGap`: destroying a source never empties the
  clipboard.

The data go through a pipe: `SelectionRead` asks the compositor, which asks the
source (`send`); `dataRequested` puts a transfer into `m_pendingTransfers` and tells
the owner, and any session may end it with SelectionWriteDone. SelectionWrite
hands out a copy of the descriptor and changes nothing. A transfer whose session
closes, or never says it is done, keeps its descriptor (`clipboard.cpp:323`).
Formats, and a portal without data control, which does nothing, are left out.

### GlobalShortcuts

`registry` is kglobalaccel, `actions` the QActions of a session, `dialog` the
dialog of BindShortcuts with the rows and conflicts of its model and the
shortcuts that were already there when it opened (`returning`, read before the
dialog and used after it). `SetActions` is setActions with what kglobalaccel
does to it: entries it has keep their keys, a key somebody else has is refused,
and what was not asked for is taken out although another session, or a dialog
that is open, counts on it. `undercut` and `apart` are such entries.

* `NoKeysUnasked`: no shortcut gets a key the user has not confirmed or set, but
  for an undercut one. `ToldCatchesUp`: what an application was told is what
  kglobalaccel has, once the signals have arrived, but for undercut and apart
  ones. `CallsAnswered`: no call of BindShortcuts stays without a reply.
* `global_shortcuts_denied` drops "but for an undercut one": violated (section 5).

Not modelled: Activated and Deactivated (forwarded as they come),
ConfigureShortcuts, the strings of triggers.

### Dialogs implements CallPromise

`CallPromise` says what a caller, and the user, can rely on: one answer, Success
and changes of the desktop only with the user's agreement, changes not after the
answer. `Dialogs` has the portals that answer with a dialog, a job or at once.
`requests` are Request objects on the bus, `waiting` the calls whose reply hangs
on `finished`, `replies` everything that is sent. A dialog that has ended lives
until it is deleted: Close of its request, and an activation token that comes
late, finish it again.

* `PromiseKept`: `CallPromise!Spec` with the first of the replies as the answer
  (D-Bus drops the rest). `ChoosersAlive`: the map of choosers never has one that
  is gone. `ChosenIsTold`: a chosen application, and a mail job, end the call.
  `TypeOK` counts the replies.

The chooser is modelled as on Wayland; on X11 the choice accepts at once.
The watcher ChooseApplicationPrivate makes for its caller is deleted with the
method (`appchooser.cpp:124`) and does nothing. An invalid wallpaper URL sets the
error and goes on (`wallpaper.cpp:87`).

### AppList

The list of the chooser, `entries`, which of them are `preferred`, and
`FilterAcceptsRow` and `LessThan` of its proxy. A hidden desktop entry stands for
another (`Alias`).

* `ChoicesAreOffered`: what the frontend named last is preferred, as far as it is
  installed, until the database of applications changes; the list is empty without
  a search only if nothing is installed; and `LessThan` is a strict weak order of
  what is listed, in which only entries of one name are equal.

When the database changes, the choices the constructor was given are applied
again and an update is lost (`appchooserdialog.cpp:101`); the property stops
there, and starts again with the next update. Choices are not applied while the
content type is empty. The old default application stays when there is none any
more.

### PrintPortal

`LoadPrinter` and `SettingsOf`/`PageSetupOf` convert in the two directions;
the paper goes through the whole table of PPD keys. `printers` is `m_printers`,
`now` the clock, which may be set back. `PrintWith` chooses the program and its
arguments.

* `PrintedAsPrepared`: Print with a token takes the printer of the dialog that
  gave it (the later of two accepted within a second), without one that of the
  last dialog; and its settings read back as the application was told.

Exceptions in the property: page numbers are returned one lower and not raised
again when they are read, and an output URI that ends with the base name is
dropped. A URI is used as a file name, which fails, and the call says Success.
An exit code of 0 is answered with OtherError.

### FileChooser

Desktop: a dialog per call. Phone: one dialog whose `exec` runs an event loop of
its own, so calls nest (`nested`) and share `results`. `FuseRedirect`,
`KioUrlFromSandboxPath`, `Normalised` and `EvaluateSelectedChoices` are the
conversions.

* `FilesForTheCaller`: a call is answered with the files selected in a dialog
  shown for it, in order, each at most redirected; a cancelled one with none; and
  each choice that was offered has a value. On a phone only for calls that do not
  overlap: overlapping ones do get each other's files (`mobilefiledialog.cpp:184`).

Seen in the model and not claimed by any comment: SaveFile with a current file
and no folder selects the file with its complete base name below itself and
drops the suffix; the title of the phone's dialog is never reset.

### Settings

`file` is kdeglobals on disk, `cached` is `m_kdeglobals`, `desktop` what KWin and
the palette have, `kwin` and `notices` the signals under way. `ReadAll` asks the
first module with a matching group. `Announces` says which notice stands for a key,
by its group and name; reduced-motion is read from the file and announced by a
KConfigWatcher, the other keys of the appearance follow the palette. `eye` is a
bound: the keys that are read and change in a behaviour, one of the sets `Eyes`.

* `KnownIsRead`: what an application knows of a key is what a read would give,
  and what the desktop has, once no signal for the key is under way; but for keys
  that changed with nothing to announce it: keys of kdeglobals that have no notice
  or were written without it, and willShowOnActive of the keyboard, for which
  `settings.cpp` connects no signal (lines 68-82).

### Background

`appStates` is `m_appStates`; windows are entered under the id that is looked up
and marked active under the raw one (`background.cpp:252`). `notice` and `box` are
the notification and the message box of a call.

* `BackgroundFollows`: an application is listed exactly as long as it has a
  window, if its two ids agree (otherwise entries stay); a call for which the user
  was asked is answered once, with the decision, and there is one notice for an
  application at a time.

With NotifyBackgroundApps at its default (true) every call is allowed at once and
the notice's answer is a second reply. Not modelled: EnableAutostart, which writes
or removes one file.

### MCDesktop

Eight modules that share no state are checked in one run, and proved about in
one module: `part` says whose behaviours a behaviour is. Each has variables, an initial predicate and a
next-state relation of its own (`PrintInit`, `PrintNext`, ...), and nothing else
is common to them, so the behaviours are exactly those of eight runs.

## 3. Runs and bounds

| run | instance | why it is enough |
|---|---|---|
| `input_capture` | 1 session, 2 screens that move and mirror each other at one of their places, all endings of a call, 3 zone changes, 3 queued signals | sessions share only `m_zoneId`; a queue of 3 holds "deactivated, disabled" behind an older signal; a second zone change meets barriers set after the first. The proofs cover any number |
| `inhibit_portal` | 2 applications, 2 queries that may overlap, settle 1, grace 2, deadline 3 | timers of one query outlive it and meet the next; one application can respond while the other is silent, blocks or goes |
| `inhibition` | 2 power requests, 1 of notifications, cookies 0–2 | two objects of one service can get the same cookie after one another, and 0 is a cookie for one service |
| `screen_sharing` | 2 sessions with 2 and 1 streams, closed up to twice | the counter is shared by two, a batch has a stream that fails and one that succeeds |
| `clipboard` | 2 sessions (symmetric), 3 selections, 3 waiting requests, data read once | a session's selection, a foreign one and another session's follow one another with all of their messages under way, and a reader meets any two of them |
| `global_shortcuts` | 2 sessions of an application, 2 ids, 1 key, 3 binds, 1 foreign change | a key two ids want, a shortcut one session forgets while the other's dialog is open, a signal that meets both |
| `portal_calls` | 2 calls of any method, 2 tokens or screenshots at a time | a dialog can be accepted, closed and meet two late tokens |
| `desktop` | print: 2 calls, 3 setups, 2 seconds; files: 3 calls (symmetric), 3 sets of options; settings: 7 keys of the four modules, watched in four sets of up to four, 2 notices; background: 3 windows, one with two ids, 2 calls; chooser: 2 screens, 2 windows, 5 sets of types; restore: 2 screens at 2 places, 2 windows of one application, 3 titles (two alike, one empty), 5 selections of at most 2, 1 or no windows, one with a region across both places, unwritten cells 0 or 9; barriers: a screen of 2×3 and one of 2×2 that touches it or not, all upright and level lines on 0..6 and a diagonal; apps: 4 entries, one a hidden alias and two of one name, 3 choices, 4 databases | two tokens in a second and a clock set back; three calls nest and end in every order; rows above and below a tick; two candidates for a window; neighbours at every side and corner |
| the four others | the smallest instance with the behaviour | expected to be violated |

`UintRange` stands for 2^32 in ScreenSharing; the theorems hold for every value
above the number of sessions. `FileCall` and the clipboard's sessions are symmetry
sets: they are only compared for equality, and no liveness is checked there.

Deadlock is not checked: sessions and calls are bounded, and when all have ended
the system rightly stops.

**Fairness.** Only what the event loop and services do by themselves is fair:
queued signals are delivered (strongly fair in InputCapture, since a zone change
that is being handled disables delivery again and again), a handler that began
goes on, timers fire and time passes, calls in the queue and `deleteLater` are
processed, KWin answers a request for a stream, a service answers a call or
refuses it, the compositor sends an activation token that was asked for, a job
ends. The frontend, applications, users and other programs may stop at any time.

**Mutants.** Each property of a passing run has a faulty variant of a definition
(commented `Fault:` or `Variant:`) under which the run fails.

## 4. What is proved

Every invariant and every action property of the passing runs is also a theorem,
checked by `tlapm` for every value of the constants that meets the named
assumptions of the modules. A theorem `Spec => []P` rests on an inductive
invariant that implies P; the lemmas before it show that the initial states and
each action keep that invariant, one action at a time.

| theorem | argument |
|---|---|
| `InputCaptureProofs!TypeCorrect` | types are inductive |
| `PortalTrailsKWin`, `ClosedLeavesNoCapture` | `SignalInv`: a bound session's queue *trails*: it ends with KWin's state, only its last signal can be "disabled", and a session that reads as disabled has none. The middle part is what makes taking a signal from the front safe; without it a "disabled" in the middle would leave signals behind it |
| `BarriersAlwaysFit` | `BarrierInv`: a session that was told the present zone set listens to the coming and going of screens, and one that missed no move has barriers of the screens as they are, and so has KWin while it watches any. What a session cannot hear of is excluded (`missed`), mirrored screens are not |
| `InhibitPortalProofs!TypeCorrect`, `QueryAnsweredInTime`, `NoMissedStateChange` | the timer of the pending query is never dropped; `WaitsForAsked`: whoever was asked and has not responded is still waited for; a monitor that was never open was never told, and what it was told last is the present state unless its first StateChanged is still to come |
| `BlockersAreHonoured`, `GraceIsKept` | `FreshInv`: as long as nothing of an earlier query has interfered, whoever still owes a response is waited for (`AskedAreWaitedFor`), while a response is missing the only timer is the one of the query (`DeadlineAlone`), and every Inhibit on its way arrives before any timer fires (`PlacedInTime`) |
| `InhibitionProofs!TypeCorrect`, `KeepsItsPromise` | every release names the inhibition of an object that is gone and whose watcher has finished (`ReleasedByOwner`), and cookies in use are unique per service; so each release is a `Lift` of one object, and every other step is a step of the promise or a stutter |
| `ScreenSharingProofs!TypeCorrect`, `InputHeldWhileNeeded` | as long as no session was closed twice and none acquired the input twice, which differing lookups of one Start can make it do (`remotedesktop.cpp:322`), the counter is the number of open sessions that acquired the input; `Histories` ties `closes` to `life` |
| `StartIsRepliedOnce`, `GrantsAreShown`, `CastsEndWithStreams` | `ReplyInv`: the reply of Start is sent, awaited from the dialog, or awaited from exactly one batch, never two of these (`OneReply`); a ScreenCast session makes streams only in the batch of its reply (`OneBatch`); and what an open session was granted is held and shown (`Granted`). Other sessions of the same step are carried over by one frame lemma |
| `ClipboardProofs!TypeCorrect`, `SourceFollowsSelection`, `SessionsAreToldRight`, `DestroysLeaveNoGap` | the two directions of the connection constrain each other. In `requests` another source than `m_source` is never set last, no source is set twice, and one is destroyed only behind a request that puts another in its place (`Orderly`); in `events` the last selection announced is the one there is, and an announcement follows each cancellation (`Announced`); what is cancelled is not set again (`NotSetAgain`). With no request to set one, the source is the selection or cancelled (`SourceFollows`); with no announcement under way, sessions have been told right or a request will change the selection (`ToldFollows`) |
| `DialogsProofs!TypeCorrect`, `ChoosersStayAlive`, `KeepsItsPromise` | a dialog on the screen has not replied and will (`Replied`); nothing reaches one that is gone (`Gone`); a token is on its way only for a call the user has agreed to (`Selected`). Every step shows a dialog, answers at once, finishes a dialog or is quiet (`Shows`, `Answers`, `Finishes`); each of these is a step of the promise or a stutter |
| `GlobalShortcutsProofs!TypeCorrect`, `KeysAreAskedFor`, `BindIsAnswered` | `Covered`: what a session or a dialog counts on is registered or undercut. A shortcut that setActions registers anew with a key is then either confirmed or undercut; `Lives` bounds dialogs by their sessions |
| `ToldIsRegistered` | `CatchInv`: an application was told what its session has (`ToldIsOwn`), the last signal under way for a shortcut says what kglobalaccel has (`SignalsEndRight`), and without a signal the session has it too (`ActionsCatchUp`). Taking a signal from the front keeps the last one of every other shortcut |
| `DesktopProofs!ChoicesStayOffered` | `AppListInv`: the list is what is visible of what is installed, and preferred is what the named entries resolve to in it, until the database changes (the code forgets an update then); `LessThan` is a strict weak order by cases, whatever names are equal |
| `StatesAndAnswersFollow` | `WindowsInv` ties the windows entered and active to those there are; `NoticeInv` accounts, for every call, for its notice, its message box and its replies (`OwesAnswer`, `Warned`) |
| `KnownStaysTrue` | `SettingsInv`: the last signal of KWin under way for a key says what KWin has, kdeglobals is cached as it is on disk unless a notice for the key is under way; of keys that changed with nothing to announce it (`sideways`) nothing is claimed |
| `FilesGoToTheirCaller` | `FileInv` for each call: the dialog shown for it offers its options, and if no other call overlaps it (`Alone`) the one on a phone does so too; the conversions are lemmas on paths (`Redirected`, `EveryChoiceHasControl`) |
| `TicksAreShared` | `ChooserInv`: no row comes twice and screens come before what is made up, in whatever order screens are removed, added and sorted (`SortedAnew`, `WithoutOne`); the rows selected are the rows ticked, as long as none moved |
| `PreparedIsPrinted` | an action property. `TokensInv`: each token names, of the calls it was given to, the last one accepted, and tokens do not fall unless the clock is set back; `ReadBack`: what LoadPrinter writes, SettingsOf and PageSetupOf read, for every paper of the table (`KeysLeadBack`) |
| `BarriersAreOutside` | in pixels: a screen of which the line is a whole side, with nothing beyond, is the only one that the line touches (`OnlyOneTouched`), because screens do not overlap; and where one screen only is touched and filled, nothing is beyond (`NothingBeyond`). Level lines follow from upright ones by transposing layout and line |
| `RestoredAsChosen` | `RestoreInv` types the saved data, and ties the saved places to where the chosen screens stood; it speaks of places, not of screens. `EachMatched`: as many matches as entries, at most one for each, leave none without (an injection between finite sets of one size is onto); `ApartUnlessSame`: titles with an edit distance of 0 are the same |

The maxima and minima that the code takes (the last token, the nearest title)
exist because natural numbers are well-founded (`LeastNumber`, `GreatestNumber`).

Assumptions on constants, beyond their types:

| assumption | what it says, and why |
|---|---|
| `InhibitPortalAssumption` | an Inhibit sent with its response arrives before the 100 ms for settling are over, and before the 1500 ms are when the response was made within the second; both times are in the code, how fast a call is is not |
| `ScreenSharingAssumption` | fewer sessions than the counter has values |
| `GlobalShortcutsAssumption`, `ClipboardAssumption`, `InhibitionAssumption`, `InputCaptureAssumption`, `DialogsAssumption` | marks such as "no key" are no keys; numbers are numbers |
| `AppListAssumption` | an alias is an entry; names have a place in the alphabet, which several entries may share; databases are of entries |
| `SettingsAssumption` | watched keys belong to one of the modules, as other keys are never answered: those of three modules have its very group and a name it lists, groups of kdeglobals have a name; `Eyes` are sets of watched keys |
| `FileChooserAssumption` | users do not pick files below the mount of KIOFuse itself, and no path is empty |
| `ChooserAssumption` | finitely many screens and windows, told apart from each other and from the rows that are made up; applications ask for some type |
| `PrintAssumption` | settings have the values that are documented for them; on others the code keeps the printer's |
| `BarriersAssumption` | screens do not overlap, and are not empty |
| `RestoreAssumption` | titles are sequences of letters; there is a place for a screen; a region is chosen as an output of its own |

Only model-checked: liveness (`StopIsNoticed`, `QueriesEnd`, `StreamsEnd`,
`InhibitionsEnd`, `ChosenIsTold`), which needs fairness and ENABLED, out of the
prover's reach. And when `Levenshtein` computes `EditDistance` in spite of the
cell it never writes: it is a recursive function, and what it computes for every input
needs induction over data, which the prover's library cannot express. Restore
compares the two in each start, over all titles of the instance (`reliable`), and
`RestoredAsChosen` says nothing of the starts in which they differ.

## 5. Where the code and its words differ

Runs that are expected to be violated:

* `Disable` of the input capture calls `enable()` (`inputcapture.cpp:501`).
* A timer of an answered query, be it that of the query (`inhibit.cpp:261`) or of
  its responses (`inhibit.cpp:230`), ends the next one within the second that
  applications are promised.
* Closing a session twice gives the fake input device back twice
  (`session.cpp:56`); asserted not to happen in `waylandintegration.cpp:196`.
* A shortcut the user has denied can get keys without the user being asked again
  (`globalshortcuts.cpp:297`), against the comment at lines 316–318.

Seen while modelling, without a run of their own: barriers survive the move of a
screen that mirrored another, or came after the last GetZones, when they are set
with the zone_set of ZonesChanged (`inputcapture.cpp:323`); a single window is not
pre-selected (`ScreenChooserDialog.qml:202` and 206); screens are restored by their
position, so that another one that stands there is shared without asking
(`outputsmodel.cpp:157`, `screencast.cpp:357`); Start can succeed without streams when
the chosen windows have gone (`screencast.cpp:281`), which is asserted not to
happen in `screencast.cpp:499`; SelectionRead makes an error for a format that is
not offered and never sends it (`clipboard.cpp:275`); `return false` in
`xdgshortcut.cpp:48` makes an engaged optional; and what section 2 says of single
modules.

## 6. Not modelled, and the plan

Not modelled, and why:

* EIS connections: descriptors handed out by KWin; the portal keeps a cookie and
  no state. A second ConnectToEIS takes the place of the first
  (`remotedesktop.cpp:515`).
* Trigger strings: a parser whose tables are Qt's and xkb's.
* Crashes and restarts of services: a service that comes back has forgotten the
  inhibition, which is not taken out again (`inhibit.cpp:126`); a frontend that
  vanishes leaves logout blockers behind (`desktopportal.cpp:70`). The code does
  nothing in either case, and there is nothing to check.
* QML, view models, the region editor, forms, the icon portal, translations and
  build files: layout, input and output.

What could be added:

1. EnableAutostart.
2. Two sessions in `input_capture` with more than one zone change each; the
   theorems cover any number, the run shows one.
3. For which values of the unwritten cell, and for which titles, `Levenshtein`
   still is the distance, as a property of its own.
