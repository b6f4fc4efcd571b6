---------------------------- MODULE ScreenSharing ----------------------------
(***************************************************************************)
(* The sessions of the ScreenCast and RemoteDesktop portals:               *)
(* src/src/screencast.cpp, remotedesktop.cpp, session.cpp, and the streams *)
(* and the fake input device of waylandintegration.cpp they drive.         *)
(*                                                                         *)
(* Session::close only marks the object for deletion (deleteLater): a call *)
(* of Session.Close, a press of "End" or a "closed" of KWin that is in the *)
(* event queue by then still reaches the session.  What the frontend, the  *)
(* user and KWin do is external.                                           *)
(***************************************************************************)
EXTENDS Naturals, FiniteSets

CONSTANTS
    Session,    \* session handles; the frontend never uses one twice
    Stream,     \* names for the streams of a session
    Streams,    \* Streams[s]: those session s can have
    Lookups,    \* answers of the permission store to the three calls of
                \* isAppMegaAuthorized in one RemoteDesktop Start
    UintRange,  \* the number of values of the uint m_streamInput
    MaxCloses   \* bound: how often a session is closed

ASSUME ScreenSharingAssumption ==
    /\ IsFiniteSet(Session)
    /\ Streams \in [Session -> SUBSET Stream]
    /\ Lookups \subseteq BOOLEAN \X BOOLEAN \X BOOLEAN
    /\ UintRange \in Nat
    /\ UintRange > Cardinality(Session)
    /\ MaxCloses \in Nat

Kind == {"none", "ScreenCast", "RemoteDesktop"}
Life == {"fresh", "open", "closed", "deleted"}
Response == {"none", "Success", "Cancelled", "OtherError"}

\* A stream is asked for, has failed or is ready (lost: and KWin has closed it
\* since) while others of its start are awaited; then it is in m_streams, live
\* or deaf (KWin closed it before anyone listened).
StreamState == {"none", "asked", "failed", "ready", "lost", "live", "deaf"}

\* A QtFuture::whenAll: what it waits for, and whether Start's reply awaits it.
Batch == [streams : SUBSET Stream, replies : BOOLEAN]

VARIABLES
    life,        \* life[s]: "open" while in sessionList, "closed" until deleted
    kind,        \* kind[s]: Session::type
    sharing,     \* sharing[s]: m_screenSharingEnabled; TRUE for ScreenCast
    started,     \* started[s]: the frontend has called Start
    dialog,      \* dialog[s]: "none", or Start's dialog is open and its
                 \* result is "awaited" or "ignored" by Start's reply
    batches,     \* batches[s]: the batches of streams being created
    stream,      \* stream[s][i]: state of a stream
    quiet,       \* quiet[s]: the streams MediaMonitor knows are not running
    item,        \* item[s]: m_item, the status notifier with its "End" action
    closeCall,   \* closeCall[s]: a Session.Close call is in the event queue
    streamInput, \* m_streamInput
    fakeInput,   \* m_fakeInput exists
    acquires,    \* acquires[s]: calls of acquireStreamingInput; m_acquired if any
    closes,      \* history: closes[s], how often close() ran
    reply,       \* history: reply[s], the last reply to Start
    replies,     \* history: replies[s], the number of replies to Start
    underflow,   \* history: m_streamInput was decremented at 0
    emptied      \* history: setStreams was called without a stream

sessionVars == <<life, kind, sharing, started, closeCall>>
inputVars == <<streamInput, fakeInput, acquires>>
streamVars == <<batches, stream, quiet, item>>
replyVars == <<reply, replies>>
vars == <<sessionVars, dialog, streamVars, inputVars, closes, replyVars, underflow, emptied>>

-----------------------------------------------------------------------------
Init ==
    /\ life = [s \in Session |-> "fresh"]
    /\ kind = [s \in Session |-> "none"]
    /\ sharing = [s \in Session |-> FALSE]
    /\ started = [s \in Session |-> FALSE]
    /\ dialog = [s \in Session |-> "none"]
    /\ batches = [s \in Session |-> {}]
    /\ stream = [s \in Session |-> [i \in Stream |-> "none"]]
    /\ quiet = [s \in Session |-> {}]
    /\ item = [s \in Session |-> FALSE]
    /\ closeCall = [s \in Session |-> FALSE]
    /\ streamInput = 0
    /\ fakeInput = FALSE
    /\ acquires = [s \in Session |-> 0]
    /\ closes = [s \in Session |-> 0]
    /\ reply = [s \in Session |-> "none"]
    /\ replies = [s \in Session |-> 0]
    /\ underflow = FALSE
    /\ emptied = FALSE

Alive(s) == life[s] \in {"open", "closed"}  \* the object exists

\* m_streams, when the streams of s are in the states of st
Held(st) == {i \in Stream : st[i] \in {"live", "deaf"}}

SendReply(s, response) ==
    /\ reply' = [reply EXCEPT ![s] = response]
    /\ replies' = [replies EXCEPT ![s] = @ + 1]

\* updateSniVisiblity: shown unless MediaMonitor knows that nothing runs.
SniVisible(held, notRunning) == held \ notRunning # {}

-----------------------------------------------------------------------------
(* The fake input device, counted by m_streamInput.                        *)

AcquireStreamingInput(s) ==
    /\ streamInput' = IF streamInput + 1 = UintRange THEN 0 ELSE streamInput + 1
    /\ fakeInput' = TRUE
    /\ acquires' = [acquires EXCEPT ![s] = @ + 1]

\* Fault: the counter is signed.
ReleaseStreamingInputSigned(some) ==
    LET n == Cardinality(some)
    IN  /\ streamInput' = streamInput - n
        /\ fakeInput' = (fakeInput /\ ~(0 < streamInput /\ streamInput <= n))
        /\ underflow' = (underflow \/ streamInput < n)

\* acquireStreamingInput(false), once for each of some sessions: the device
\* goes when the counter becomes 0, which is once more than Q_ASSERT at 0.
ReleaseStreamingInput(some) ==
    LET n == Cardinality(some)
    IN  /\ streamInput' = IF n <= streamInput THEN streamInput - n
                          ELSE streamInput + UintRange - n
        /\ fakeInput' = (fakeInput /\ ~(0 < streamInput /\ streamInput <= n))
        /\ underflow' = (underflow \/ streamInput < n)

-----------------------------------------------------------------------------
(* Session::close, for each of some sessions.                              *)

\* Fault: a session closed by the user does not give the device back.
CloseAllKeepingInput(some) ==
    /\ life' = [s \in Session |-> IF s \in some THEN "closed" ELSE life[s]]
    /\ closes' = [s \in Session |-> IF s \in some THEN closes[s] + 1 ELSE closes[s]]
    /\ UNCHANGED <<streamInput, fakeInput, underflow>>
    /\ reply' = [s \in Session |->
                    IF s \in some /\ dialog[s] = "awaited" THEN "Cancelled" ELSE reply[s]]
    /\ replies' = [s \in Session |->
                      IF s \in some /\ dialog[s] = "awaited" THEN replies[s] + 1 ELSE replies[s]]
    /\ dialog' = [s \in Session |-> IF s \in some THEN "none" ELSE dialog[s]]

\* closed() gives the device back if m_acquired, which stays set, and rejects
\* the dialog; the session leaves sessionList.
CloseAll(some) ==
    /\ life' = [s \in Session |-> IF s \in some THEN "closed" ELSE life[s]]
    /\ closes' = [s \in Session |-> IF s \in some THEN closes[s] + 1 ELSE closes[s]]
    /\ ReleaseStreamingInput({s \in some : acquires[s] > 0})
    /\ reply' = [s \in Session |->
                    IF s \in some /\ dialog[s] = "awaited" THEN "Cancelled" ELSE reply[s]]
    /\ replies' = [s \in Session |->
                      IF s \in some /\ dialog[s] = "awaited" THEN replies[s] + 1 ELSE replies[s]]
    /\ dialog' = [s \in Session |-> IF s \in some THEN "none" ELSE dialog[s]]

\* bound: what closes the session, the call under way counted
MayClose(s) == closes[s] + (IF closeCall[s] THEN 1 ELSE 0) < MaxCloses

\* The frontend closes a session.  Its call is queued; it is delivered even if
\* the session has been closed since, as long as the object exists.
CallClose(s) ==
    /\ life[s] = "open"
    /\ ~closeCall[s]
    /\ MayClose(s)
    /\ closeCall' = [closeCall EXCEPT ![s] = TRUE]
    /\ UNCHANGED <<life, kind, sharing, started, dialog, streamVars, inputVars, closes,
                   replyVars, underflow, emptied>>

Close(s) ==
    /\ Alive(s)
    /\ closeCall[s]
    /\ CloseAll({s})
    /\ closeCall' = [closeCall EXCEPT ![s] = FALSE]
    /\ UNCHANGED <<kind, sharing, started, streamVars, acquires, emptied>>

\* The user presses "End" in the menu of the status notifier.
End(s) ==
    /\ Alive(s)
    /\ item[s]
    /\ MayClose(s)
    /\ CloseAll({s})
    /\ UNCHANGED <<kind, sharing, started, closeCall, streamVars, acquires, emptied>>

\* Session::closeAll, when the portal frontend disappears.
FrontendVanishes ==
    LET open == {s \in Session : life[s] = "open"}
    IN  /\ open # {}
        /\ \A s \in open : MayClose(s)
        /\ CloseAll(open)
        /\ UNCHANGED <<kind, sharing, started, closeCall, streamVars, acquires, emptied>>

\* Fault: the streams outlive the session.
DeleteKeepingStreams(s) ==
    /\ life[s] = "closed"
    /\ ~closeCall[s]
    /\ life' = [life EXCEPT ![s] = "deleted"]
    /\ item' = [item EXCEPT ![s] = FALSE]
    /\ UNCHANGED <<kind, sharing, started, closeCall, dialog, batches, stream, quiet,
                   inputVars, closes, replyVars, underflow, emptied>>

\* The deferred deletion, behind the calls that were in the queue before it.
\* It takes m_streams and m_item along; the continuations are cancelled.
Delete(s) ==
    /\ life[s] = "closed"
    /\ ~closeCall[s]
    /\ life' = [life EXCEPT ![s] = "deleted"]
    /\ stream' = [stream EXCEPT ![s] =
                    [i \in Stream |-> IF i \in Held(stream[s]) THEN "none" ELSE stream[s][i]]]
    /\ item' = [item EXCEPT ![s] = FALSE]
    /\ UNCHANGED <<kind, sharing, started, closeCall, dialog, batches, quiet, inputVars,
                   closes, replyVars, underflow, emptied>>

-----------------------------------------------------------------------------
(* Creating the streams of a session.                                      *)

Usable(b, st) == \A i \in b.streams : st[i] # "failed"

\* m_streams and the streams still awaited, once batch b is complete: setStreams
\* replaces m_streams; a stream nobody takes is closed.
AfterBatch(s, b, st) ==
    LET taken == Alive(s) /\ Usable(b, st)
        replaced == IF taken /\ (kind[s] = "ScreenCast" \/ b.streams # {}) THEN Held(st) ELSE {}
    IN  [i \in Stream |->
            CASE i \in b.streams /\ taken -> IF st[i] = "lost" THEN "deaf" ELSE "live"
              [] i \in (b.streams \cup replaced) /\ ~(i \in b.streams /\ taken) -> "none"
              [] OTHER -> st[i]]

\* Fault: there is no reply when a stream failed.
ConcludeSilently(s, b, st) ==
    /\ stream' = [stream EXCEPT ![s] = AfterBatch(s, b, st)]
    /\ batches' = [batches EXCEPT ![s] = @ \ {b}]
    /\ item' = [item EXCEPT ![s] =
                  /\ Alive(s)
                  /\ \/ kind[s] = "RemoteDesktop"
                     \/ IF Usable(b, st) THEN SniVisible(b.streams, quiet[s]) ELSE @]
    /\ IF Alive(s) /\ b.replies /\ Usable(b, st)
       THEN SendReply(s, "Success")
       ELSE UNCHANGED replyVars
    /\ emptied' = (emptied \/ (Alive(s) /\ kind[s] = "ScreenCast" /\ b.streams = {}))

\* The continuation of whenAll, with the streams of s in the states of st.  The
\* continuations of a deleted session are cancelled.  In RemoteDesktop a failed
\* stream means reading the result of a cancelled future; when that does not
\* end the process, the reply is OtherError, and the input stays acquired.
Conclude(s, b, st) ==
    /\ stream' = [stream EXCEPT ![s] = AfterBatch(s, b, st)]
    /\ batches' = [batches EXCEPT ![s] = @ \ {b}]
    /\ item' = [item EXCEPT ![s] =
                  /\ Alive(s)
                  /\ \/ kind[s] = "RemoteDesktop"
                     \/ IF Usable(b, st) THEN SniVisible(b.streams, quiet[s]) ELSE @]
    /\ IF Alive(s) /\ b.replies
       THEN SendReply(s, IF Usable(b, st) THEN "Success" ELSE "OtherError")
       ELSE UNCHANGED replyVars
    /\ emptied' = (emptied \/ (Alive(s) /\ kind[s] = "ScreenCast" /\ b.streams = {}))

\* startStreaming of each stream of want; missing are the screens without a
\* Wayland output, whose future is cancelled from the start.
StartStreaming(s, want, missing, replying) ==
    LET st == [i \in Stream |-> CASE i \in missing -> "failed"
                                  [] i \in want \ missing -> "asked"
                                  [] OTHER -> stream[s][i]]
        b == [streams |-> want, replies |-> replying]
    IN  /\ quiet' = [quiet EXCEPT ![s] = @ \ want]
        /\ IF want = missing
           THEN Conclude(s, b, st)
           ELSE /\ stream' = [stream EXCEPT ![s] = st]
                /\ batches' = [batches EXCEPT ![s] = @ \cup {b}]
                /\ UNCHANGED <<item, replyVars, emptied>>

Unused(s) == {i \in Streams[s] : stream[s][i] = "none"}

\* continueStart and continueStartAfterDialog
ContinueStart(s, want, missing, replying) ==
    /\ IF kind[s] = "RemoteDesktop" THEN AcquireStreamingInput(s) ELSE UNCHANGED inputVars
    /\ StartStreaming(s, want, missing, replying)

-----------------------------------------------------------------------------
(* The calls of the frontend.                                              *)

CreateSession(s, k) ==
    /\ life[s] = "fresh"
    /\ life' = [life EXCEPT ![s] = "open"]
    /\ kind' = [kind EXCEPT ![s] = k]
    /\ sharing' = [sharing EXCEPT ![s] = k = "ScreenCast"]
    /\ UNCHANGED <<started, dialog, streamVars, closeCall, inputVars, closes, replyVars,
                   underflow, emptied>>

\* ScreenCast.SelectSources on a RemoteDesktop session
SelectSources(s) ==
    /\ life[s] = "open"
    /\ kind[s] = "RemoteDesktop"
    /\ ~started[s]
    /\ sharing' = [sharing EXCEPT ![s] = TRUE]
    /\ UNCHANGED <<life, kind, started, dialog, streamVars, closeCall, inputVars, closes,
                   replyVars, underflow, emptied>>

MayStart(s) == life[s] = "open" /\ ~started[s]

StartFails(s) ==
    /\ MayStart(s)
    /\ started' = [started EXCEPT ![s] = TRUE]
    /\ SendReply(s, "OtherError")  \* no screens
    /\ UNCHANGED <<life, kind, sharing, closeCall, dialog, streamVars, inputVars, closes,
                   underflow, emptied>>

OpenDialog(s, awaits) == dialog' = [dialog EXCEPT ![s] = awaits]

\* ScreenCastPortal::Start: restore data that still matches the screens and
\* windows there are, or the dialog.
StartScreenCast(s, restored, want, missing) ==
    /\ MayStart(s)
    /\ kind[s] = "ScreenCast"
    /\ started' = [started EXCEPT ![s] = TRUE]
    /\ IF restored
       THEN /\ want # {}
            /\ ContinueStart(s, want, missing, TRUE)
            /\ UNCHANGED dialog
       ELSE /\ want = {}
            /\ OpenDialog(s, "awaited")
            /\ UNCHANGED <<streamVars, inputVars, replyVars, emptied>>
    /\ UNCHANGED <<life, kind, sharing, closeCall, closes, underflow>>

\* RemoteDesktopPortal::Start asks the permission store whether the application
\* is mega-authorized, up to three times: whether to notify, whether to open the
\* dialog, whether to go on without it.
StartRemoteDesktop(s, restored, authorized, want, missing) ==
    LET notify == restored \/ authorized[1]
        ask == ~notify /\ ~authorized[2]
        goOn == restored \/ authorized[3]
    IN  /\ MayStart(s)
        /\ kind[s] = "RemoteDesktop"
        /\ started' = [started EXCEPT ![s] = TRUE]
        /\ (want # {}) = (goOn /\ sharing[s])
        /\ dialog' = [dialog EXCEPT ![s] = CASE ask /\ goOn -> "ignored"
                                             [] ask /\ ~goOn -> "awaited"
                                             [] OTHER -> @]
        /\ CASE goOn -> ContinueStart(s, want, missing, TRUE)
             [] ~goOn /\ ask -> UNCHANGED <<streamVars, inputVars, replyVars, emptied>>
             [] OTHER -> /\ SendReply(s, "OtherError")  \* a cancelled future
                         /\ UNCHANGED <<streamVars, inputVars, emptied>>
        /\ UNCHANGED <<life, kind, sharing, closeCall, closes, underflow>>

\* The windows chosen in the ScreenCast dialog can be gone by now.
DialogAccepted(s, want, missing) ==
    /\ dialog[s] # "none"
    /\ kind[s] = "RemoteDesktop" => (want # {}) = sharing[s]
    /\ dialog' = [dialog EXCEPT ![s] = "none"]
    /\ ContinueStart(s, want, missing, dialog[s] = "awaited")
    /\ UNCHANGED <<sessionVars, closes, underflow>>

\* The user, or the Close of the request, rejects the dialog.
DialogRejected(s) ==
    /\ dialog[s] # "none"
    /\ dialog' = [dialog EXCEPT ![s] = "none"]
    /\ IF dialog[s] = "awaited" THEN SendReply(s, "Cancelled") ELSE UNCHANGED replyVars
    /\ UNCHANGED <<sessionVars, streamVars, inputVars, closes, underflow, emptied>>

-----------------------------------------------------------------------------
(* What KWin and MediaMonitor tell.                                        *)

\* KWin says "created" or "failed" of a stream it was asked for.
StreamAnswered(s, i, answer) ==
    LET st == [stream[s] EXCEPT ![i] = answer]
    IN  \E b \in batches[s] :
            /\ i \in b.streams
            /\ stream[s][i] = "asked"
            /\ IF \E j \in b.streams : st[j] = "asked"
               THEN /\ stream' = [stream EXCEPT ![s] = st]
                    /\ UNCHANGED <<batches, item, replyVars, emptied>>
               ELSE Conclude(s, b, st)
            /\ UNCHANGED <<sessionVars, dialog, quiet, inputVars, closes, underflow>>

\* KWin closes a stream before the others of its batch are there: nobody is
\* connected to "closed" yet.
StreamLost(s, i) ==
    /\ stream[s][i] = "ready"
    /\ stream' = [stream EXCEPT ![s][i] = "lost"]
    /\ UNCHANGED <<sessionVars, dialog, batches, quiet, item, inputVars, closes, replyVars,
                   underflow, emptied>>

\* Fault: the session goes on without streams.
StreamClosedAndStay(s, i) ==
    LET st == [stream[s] EXCEPT ![i] = "none"]
    IN  /\ Alive(s)
        /\ stream[s][i] = "live"
        /\ Held(st) = {} => MayClose(s)
        /\ stream' = [stream EXCEPT ![s] = st]
        /\ item' = [item EXCEPT ![s] =
                      IF kind[s] = "ScreenCast" THEN SniVisible(Held(st), quiet[s]) ELSE @]
        /\ UNCHANGED <<sessionVars, dialog, batches, quiet, inputVars, closes, replyVars,
                       underflow, emptied>>

\* streamClosed: the last stream takes the session along.
StreamClosed(s, i) ==
    LET st == [stream[s] EXCEPT ![i] = "none"]
    IN  /\ Alive(s)
        /\ stream[s][i] = "live"
        /\ Held(st) = {} => MayClose(s)
        /\ stream' = [stream EXCEPT ![s] = st]
        /\ item' = [item EXCEPT ![s] =
                      IF kind[s] = "ScreenCast" THEN SniVisible(Held(st), quiet[s]) ELSE @]
        /\ IF Held(st) = {}
           THEN CloseAll({s})
           ELSE UNCHANGED <<life, dialog, streamInput, fakeInput, closes, replyVars, underflow>>
        /\ UNCHANGED <<kind, sharing, started, closeCall, batches, quiet, acquires, emptied>>

\* Fault: the change is noted but the tray item left as it is.
MediaChangesQuietly(s, i) ==
    /\ stream[s][i] \in {"ready", "live", "deaf"}
    /\ \E running \in BOOLEAN :
          LET now == IF running THEN quiet[s] \ {i} ELSE quiet[s] \cup {i}
          IN  /\ now # quiet[s]
              /\ quiet' = [quiet EXCEPT ![s] = now]
    /\ UNCHANGED <<sessionVars, dialog, batches, stream, item, inputVars, closes, replyVars,
                   underflow, emptied>>

\* A node starts or stops running; ScreenCast sessions with streams listen.
MediaChanges(s, i) ==
    /\ stream[s][i] \in {"ready", "live", "deaf"}
    /\ \E running \in BOOLEAN :
          LET now == IF running THEN quiet[s] \ {i} ELSE quiet[s] \cup {i}
          IN  /\ now # quiet[s]
              /\ quiet' = [quiet EXCEPT ![s] = now]
              /\ item' = [item EXCEPT ![s] =
                            IF kind[s] = "ScreenCast" /\ Alive(s) /\ Held(stream[s]) # {}
                            THEN SniVisible(Held(stream[s]), now)
                            ELSE @]
    /\ UNCHANGED <<sessionVars, dialog, batches, stream, inputVars, closes, replyVars,
                   underflow, emptied>>

-----------------------------------------------------------------------------
StreamAnswers(s) ==
    \E i \in Stream, answer \in {"ready", "failed"} : StreamAnswered(s, i, answer)

Next ==
    \/ FrontendVanishes
    \/ \E s \in Session :
          \/ \E k \in {"ScreenCast", "RemoteDesktop"} : CreateSession(s, k)
          \/ SelectSources(s) \/ StartFails(s) \/ DialogRejected(s)
          \/ CallClose(s) \/ Close(s) \/ End(s) \/ Delete(s)
          \/ StreamAnswers(s)
          \/ \E i \in Stream : StreamLost(s, i) \/ StreamClosed(s, i) \/ MediaChanges(s, i)
          \/ \E want \in SUBSET Unused(s) : \E missing \in SUBSET want :
                \/ DialogAccepted(s, want, missing)
                \/ \E restored \in BOOLEAN :
                      \/ StartScreenCast(s, restored, want, missing)
                      \/ \E authorized \in Lookups :
                            StartRemoteDesktop(s, restored, authorized, want, missing)

Spec == Init /\ [][Next]_vars

\* The event loop gets to the calls and deletions in its queue, and KWin answers
\* every stream it is asked for.  The frontend and the user may do nothing.
Fairness ==
    \A s \in Session :
        /\ WF_vars(Close(s))
        /\ WF_vars(Delete(s))
        /\ WF_vars(StreamAnswers(s))

FairSpec == Spec /\ Fairness

-----------------------------------------------------------------------------
(* Properties.                                                             *)

\* Every variable holds a value of its kind.
TypeOK ==
    /\ life \in [Session -> Life]
    /\ kind \in [Session -> Kind]
    /\ sharing \in [Session -> BOOLEAN]
    /\ started \in [Session -> BOOLEAN]
    /\ dialog \in [Session -> {"none", "awaited", "ignored"}]
    /\ batches \in [Session -> SUBSET Batch]
    /\ stream \in [Session -> [Stream -> StreamState]]
    /\ quiet \in [Session -> SUBSET Stream]
    /\ item \in [Session -> BOOLEAN]
    /\ closeCall \in [Session -> BOOLEAN]
    /\ streamInput \in 0..(UintRange - 1)
    /\ fakeInput \in BOOLEAN
    /\ acquires \in [Session -> Nat]
    /\ closes \in [Session -> Nat]
    /\ reply \in [Session -> Response]
    /\ replies \in [Session -> Nat]
    /\ underflow \in BOOLEAN
    /\ emptied \in BOOLEAN

\* No session was closed twice, and none acquired the input twice.
Orderly == \A s \in Session : closes[s] <= 1 /\ acquires[s] <= 1

Controlling == {s \in Session : life[s] = "open" /\ acquires[s] > 0}

\* The fake input device exists exactly while an open session controls the
\* computer with it: it goes with the last such session and not before.
InputMatchesSessions ==
    Orderly => /\ streamInput = Cardinality(Controlling)
               /\ fakeInput = (Controlling # {})

\* A Start is replied to once, and while the session is open its reply is never
\* forgotten: it is sent, or a dialog or a batch of streams is awaited for it.
StartRepliedOnce ==
    \A s \in Session :
        LET awaited == {b \in batches[s] : b.replies}
            pending == replies[s] + (IF dialog[s] = "awaited" THEN 1 ELSE 0)
                                  + Cardinality(awaited)
        IN  /\ replies[s] <= 1
            /\ life[s] = "open" => pending = (IF started[s] THEN 1 ELSE 0)

\* A user can see and end what an application was granted: a status notifier is
\* shown for a RemoteDesktop session, and for a ScreenCast session with a stream
\* that may be running.
GrantIsVisible ==
    \A s \in Session :
        life[s] = "open" /\ reply[s] = "Success" =>
            \/ kind[s] = "RemoteDesktop" /\ item[s]
            \/ kind[s] = "ScreenCast" /\ item[s] = SniVisible(Held(stream[s]), quiet[s])

\* A ScreenCast session does not outlive its streams, unless it had none or one
\* of them was closed before the session listened.
EndsWithItsStreams ==
    \A s \in Session :
        life[s] = "open" /\ kind[s] = "ScreenCast" /\ reply[s] = "Success" /\ ~emptied
            => Held(stream[s]) # {}

\* However a session ends, KWin is left with none of its streams, those it was
\* still being asked for included.
StreamsEnd ==
    \A s \in Session :
        life[s] = "closed" ~> \A i \in Stream : stream[s][i] = "none"

\* "Q_ASSERT(m_streamInput > 0)" (waylandintegration.cpp:196).
NoUnderflow == ~underflow

=============================================================================
