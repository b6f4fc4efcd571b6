------------------------- MODULE InputCaptureProofs -------------------------
(* Proofs about InputCapture, for any sessions, screens and bounds.        *)
EXTENDS InputCapture, SequenceTheorems, TLAPS

-----------------------------------------------------------------------------
(* Type correctness.                                                       *)

\* KWin's steps keep the types of what KWin holds.
LEMMA KWinTypes ==
    ASSUME TypeOK, NEW s \in Session,
           KWinEnable(s) \/ KWinStop(s) \/ KWinRelease(s) \/ UNCHANGED kwinVars
    PROVE  /\ kwin' \in [Session -> State \cup {NoCapture}]
           /\ armed' \in [Session -> SUBSET Geometries]
           /\ queue' \in [Session -> Seq(State)]
  <1> USE DEF TypeOK, State, NoCapture
  <1>1. CASE KWinEnable(s)
    BY <1>1 DEF KWinEnable
  <1>2. CASE KWinStop(s)
    BY <1>2 DEF KWinStop
  <1>3. CASE KWinRelease(s)
    <2>1. CASE kwin[s] = "Activated"
      <3>1. /\ kwin' = [kwin EXCEPT ![s] = "Deactivated"]
            /\ queue' = [queue EXCEPT ![s] = Append(queue[s], "Deactivated")]
            /\ armed' = armed
        BY <1>3, <2>1 DEF KWinRelease
      <3> QED
        BY <3>1
    <2>2. CASE kwin[s] # "Activated"
      BY <1>3, <2>2 DEF KWinRelease
    <2> QED
      BY <2>1, <2>2
  <1>4. CASE UNCHANGED kwinVars
    BY <1>4 DEF kwinVars
  <1> QED
    BY <1>1, <1>2, <1>3, <1>4

\* CloseSession keeps the types of what it writes.
LEMMA CloseTypes ==
    ASSUME TypeOK, NEW s \in Session, NEW r \in CallResult, CloseSession(s, r)
    PROVE  /\ life' \in [Session -> {"fresh", "open", "closed"}]
           /\ dialog' \in [Session -> BOOLEAN]
           /\ bound' \in [Session -> BOOLEAN]
           /\ watch' \in [Session -> SUBSET Screen]
           /\ zonesAsked' \in [Session -> BOOLEAN]
           /\ queue' \in [Session -> Seq(State)]
           /\ kwin' \in [Session -> State \cup {NoCapture}]
           /\ armed' \in [Session -> SUBSET Geometries]
           /\ tainted' \in [Session -> BOOLEAN]
  BY DEF TypeOK, CloseSession

\* Every step keeps TypeOK, one case for each action.
LEMMA TypeStep == TypeOK /\ [Next]_vars => TypeOK'
  <1> SUFFICES ASSUME TypeOK, [Next]_vars PROVE TypeOK'
    OBVIOUS
  <1> USE InputCaptureAssumption
  <1>1. ASSUME NEW s \in Session, CreateSession2(s) PROVE TypeOK'
    BY <1>1 DEF TypeOK, CreateSession2, zoneVars, appVars, kwinVars
  <1>2. ASSUME NEW s \in Session, StartWithDialog(s) PROVE TypeOK'
    BY <1>2 DEF TypeOK, StartWithDialog, zoneVars, appVars, kwinVars
  <1>3. ASSUME NEW s \in Session, DialogRejected(s) PROVE TypeOK'
    BY <1>3 DEF TypeOK, DialogRejected, zoneVars, appVars, kwinVars
  <1>4. ASSUME NEW s \in Session, GetZones(s) PROVE TypeOK'
    BY <1>4 DEF TypeOK, GetZones, sessionVars, kwinVars, UniqueScreens
  <1>5. ASSUME NEW s \in Session, SignalArrives(s) PROVE TypeOK'
    <2>1. Head(queue[s]) \in State /\ Tail(queue[s]) \in Seq(State)
      BY <1>5 DEF TypeOK, SignalArrives
    <2> QED
      BY <1>5, <2>1 DEF TypeOK, SignalArrives, zoneVars
  <1>6. ASSUME NEW s \in Session, KWinActivates(s) PROVE TypeOK'
    BY <1>6 DEF TypeOK, KWinActivates, sessionVars, zoneVars, appVars, State
  <1>7. ASSUME NEW s \in Session, KWinEscapes(s) PROVE TypeOK'
    BY <1>7, KWinTypes
    DEF TypeOK, KWinEscapes, sessionVars, zoneVars, appVars
  <1>8. ASSUME NEW s \in Session, NEW r \in CallResult, StartRestored(s, r)
        PROVE  TypeOK'
    BY <1>8 DEF TypeOK, StartRestored, Setup, zoneVars, appVars, State
  <1>9. ASSUME NEW s \in Session, NEW r \in CallResult, DialogAccepted(s, r)
        PROVE  TypeOK'
    BY <1>9 DEF TypeOK, DialogAccepted, Setup, zoneVars, appVars, State
  <1>10. ASSUME NEW s \in Session, NEW r \in CallResult, Close(s, r)
         PROVE  TypeOK'
    BY <1>10, CloseTypes DEF TypeOK, Close, appVars
  <1>11. ASSUME NEW s \in Session, NEW r \in CallResult, Enable(s, r)
         PROVE  TypeOK'
    BY <1>11, KWinTypes DEF TypeOK, Enable, zoneVars, State
  <1>12. ASSUME NEW s \in Session, NEW r \in CallResult, Disable(s, r)
         PROVE  TypeOK'
    BY <1>12, KWinTypes DEF TypeOK, Disable, sessionVars, zoneVars
  <1>13. ASSUME NEW s \in Session, NEW r \in CallResult, Release(s, r)
         PROVE  TypeOK'
    BY <1>13, KWinTypes DEF TypeOK, Release, sessionVars, zoneVars, appVars
  <1>14. ASSUME NEW s \in Session, NEW r \in CallResult, ZoneChanged(s, r)
         PROVE  TypeOK'
    BY <1>14, KWinTypes DEF TypeOK, ZoneChanged, appVars
  <1>15. ASSUME NEW s \in Session, NEW r \in CallResult, ZoneChangeFails(s, r)
         PROVE  TypeOK'
    BY <1>15, CloseTypes DEF TypeOK, ZoneChangeFails, appVars
  <1>16. ASSUME NEW s \in Session, NEW r \in CallResult, NEW accepted \in BOOLEAN,
                SetPointerBarriers(s, r, accepted)
         PROVE  TypeOK'
    <2>1. Zones \in SUBSET Geometries
      BY DEF TypeOK, Zones
    <2> QED
      BY <1>16, <2>1, KWinTypes DEF TypeOK, SetPointerBarriers, zoneVars, appVars
  <1>17. ASSUME NEW scr \in Screen, NEW g \in Geometry[scr] \cup {Off},
                ScreenChanges(scr, g)
         PROVE  TypeOK'
    <2>1. g \in Geometries \cup {Off}
      BY DEF Geometries
    <2> QED
      BY <1>17, <2>1 DEF TypeOK, ScreenChanges, sessionVars, appVars, kwinVars
  <1>18. CASE UNCHANGED vars
    BY <1>18 DEF TypeOK, vars, sessionVars, zoneVars, appVars, kwinVars
  <1> QED
    BY <1>1, <1>2, <1>3, <1>4, <1>5, <1>6, <1>7, <1>8, <1>9, <1>10, <1>11, <1>12,
       <1>13, <1>14, <1>15, <1>16, <1>17, <1>18
    DEF Next, InputCaptureAssumption

\* The variables keep their types, however many sessions and screens there are.
THEOREM TypeCorrect == Spec => []TypeOK
  <1>1. Init => TypeOK
    BY InputCaptureAssumption DEF Init, TypeOK, State, NoCapture
  <1> QED
    BY <1>1, TypeStep, PTL DEF Spec

-----------------------------------------------------------------------------
(* The portal's state trails KWin's.                                       *)

\* A further signal: the queue ends with it, if KWin was not stopped before.
LEMMA AppendTrails ==
    ASSUME NEW believed \in State, NEW waiting \in Seq(State), NEW now \in State,
           NEW signal \in State,
           Trails(believed, waiting, now), now # "Disabled"
    PROVE  Trails(believed, Append(waiting, signal), signal)
  <1>1. believed # "Disabled" /\ \A i \in 1..(Len(waiting) - 1) : waiting[i] # "Disabled"
    BY DEF Trails
  <1>2. waiting # <<>> => waiting[Len(waiting)] = now
    BY DEF Trails
  <1>3. \A i \in 1..Len(waiting) : waiting[i] # "Disabled"
    <2> SUFFICES ASSUME NEW i \in 1..Len(waiting) PROVE waiting[i] # "Disabled"
      OBVIOUS
    <2>1. CASE i = Len(waiting)
      BY <2>1, <1>2
    <2>2. CASE i # Len(waiting)
      BY <2>2, <1>1
    <2> QED
      BY <2>1, <2>2
  <1> DEFINE longer == Append(waiting, signal)
  <1>4. /\ longer # <<>> /\ Len(longer) = Len(waiting) + 1
        /\ \A i \in 1..Len(waiting) : longer[i] = waiting[i]
        /\ longer[Len(waiting) + 1] = signal
    BY AppendProperties
  <1>5. Len(waiting) \in Nat
    BY LenProperties
  <1> HIDE DEF longer
  <1>6. Trails(believed, longer, signal)
    BY <1>1, <1>3, <1>4, <1>5 DEF Trails
  <1> QED
    BY <1>6 DEF longer

\* The delivery of the first signal: the state becomes what it announces.
LEMMA TailTrails ==
    ASSUME NEW believed \in State, NEW waiting \in Seq(State), NEW now \in State,
           Trails(believed, waiting, now), waiting # <<>>
    PROVE  Trails(Head(waiting), Tail(waiting), now)
  <1> DEFINE rest == Tail(waiting)
             first == Head(waiting)
  <1>1. /\ Len(rest) = Len(waiting) - 1
        /\ \A i \in 1..Len(rest) : rest[i] = waiting[i + 1]
        /\ rest \in Seq(State)
    BY HeadTailProperties
  <1>6. first = waiting[1]
    OBVIOUS
  <1>2. /\ Len(waiting) \in Nat /\ Len(waiting) # 0
        /\ rest = <<>> <=> Len(waiting) = 1
    <2>1. Len(waiting) \in Nat /\ Len(waiting) # 0
      BY EmptySeq
    <2> HIDE DEF rest
    <2>2. rest = <<>> <=> Len(rest) = 0
      BY <1>1, EmptySeq
    <2> QED
      BY <1>1, <2>1, <2>2
  <1>3. /\ waiting[Len(waiting)] = now
        /\ \A i \in 1..(Len(waiting) - 1) : waiting[i] # "Disabled"
    BY DEF Trails
  <1> HIDE DEF rest, first
  <1>4. CASE Len(waiting) = 1
    <2>1. rest = <<>> /\ first = now
      BY <1>2, <1>3, <1>4, <1>6
    <2>2. \A i \in 1..(Len(rest) - 1) : FALSE
      BY <1>1, <1>4
    <2>3. Trails(first, rest, now)
      BY <2>1, <2>2 DEF Trails
    <2> QED
      BY <2>3 DEF first, rest
  <1>5. CASE Len(waiting) # 1
    <2>1. rest[Len(rest)] = now /\ first # "Disabled"
      BY <1>1, <1>2, <1>3, <1>5, <1>6
    <2>2. \A i \in 1..(Len(rest) - 1) : rest[i] # "Disabled"
      BY <1>1, <1>2, <1>3
    <2>3. Trails(first, rest, now)
      BY <1>2, <1>5, <2>1, <2>2 DEF Trails
    <2> QED
      BY <2>3 DEF first, rest
  <1> QED
    BY <1>4, <1>5 DEF first, rest

\* With nothing waiting, believing what KWin is in is enough.
LEMMA QuietTrails ==
    ASSUME NEW now \in State
    PROVE  Trails(now, <<>>, now)
  BY DEF Trails

\* Stopping a capture appends the signals that lead to Disabled.
LEMMA StopTrails ==
    ASSUME TypeOK, NEW s \in Session, KWinStop(s), kwin[s] \in State,
           Trails(state[s], queue[s], kwin[s])
    PROVE  kwin'[s] = "Disabled" /\ Trails(state[s], queue'[s], "Disabled")
  <1>0. /\ state[s] \in State /\ queue[s] \in Seq(State)
        /\ kwin'[s] = "Disabled"
    BY DEF TypeOK, KWinStop
  <1> USE DEF State
  <1>1. CASE kwin[s] = "Activated"
    <2> DEFINE once == Append(queue[s], "Deactivated")
    <2>1. Trails(state[s], once, "Deactivated") /\ once \in Seq(State)
      BY <1>0, <1>1, AppendTrails
    <2>2. queue'[s] = Append(once, "Disabled")
      BY <1>1 DEF KWinStop, TypeOK
    <2> HIDE DEF once
    <2>3. Trails(state[s], Append(once, "Disabled"), "Disabled")
      BY <1>0, <2>1, AppendTrails
    <2> QED
      BY <1>0, <2>2, <2>3
  <1>2. CASE kwin[s] = "Deactivated"
    <2>1. queue'[s] = Append(queue[s], "Disabled")
      BY <1>2 DEF KWinStop, TypeOK
    <2> QED
      BY <1>0, <1>2, <2>1, AppendTrails
  <1>3. CASE kwin[s] = "Disabled"
    <2>1. queue'[s] = queue[s]
      BY <1>3 DEF KWinStop, TypeOK
    <2> QED
      BY <1>0, <1>3, <2>1
  <1> QED
    BY <1>0, <1>1, <1>2, <1>3

\* A step of s leaves the other sessions alone.
LEMMA OthersKeepSignalInv ==
    ASSUME NEW t \in Session, SignalInv(t),
           life'[t] = life[t], dialog'[t] = dialog[t], bound'[t] = bound[t],
           state'[t] = state[t], kwin'[t] = kwin[t], queue'[t] = queue[t],
           tainted'[t] = tainted[t]
    PROVE  SignalInv(t)'
  BY DEF SignalInv, KWinState

\* A capture that is stopped or released announces it, in a step that changes
\* nothing else the invariant is about.
LEMMA StopKeepsSignalInv ==
    ASSUME TypeOK, NEW s \in Session, NEW t \in Session, SignalInv(t),
           UNCHANGED <<life, dialog, bound, state, tainted>>,
           KWinStop(s) \/ KWinRelease(s) \/ UNCHANGED kwinVars
    PROVE  SignalInv(t)'
  <1>types. /\ state[t] \in State /\ queue[t] \in Seq(State)
            /\ kwin[t] \in State \cup {NoCapture} /\ NoCapture \notin State
    BY DEF TypeOK, State, NoCapture
  <1>1. CASE kwin'[t] = kwin[t] /\ queue'[t] = queue[t]
    BY <1>1, OthersKeepSignalInv
  <1>2. CASE s = t /\ KWinStop(s) /\ kwin[t] \in State
    <2>1. kwin'[t] = "Disabled"
      BY <1>2 DEF KWinStop, TypeOK
    <2>2. ASSUME ~tainted[t], life[t] # "closed"
          PROVE  Trails(state[t], queue'[t], "Disabled")
      BY <1>2, <1>types, <2>2, StopTrails DEF SignalInv, KWinState
    <2> QED
      BY <1>2, <1>types, <2>1, <2>2 DEF SignalInv, KWinState, State, NoCapture
  <1>3. CASE s = t /\ KWinRelease(s) /\ kwin[t] = "Activated"
    <2>1. kwin'[t] = "Deactivated" /\ queue'[t] = Append(queue[t], "Deactivated")
      BY <1>3 DEF KWinRelease, TypeOK
    <2>2. ASSUME ~tainted[t], life[t] # "closed"
          PROVE  Trails(state[t], queue'[t], "Deactivated")
      BY <1>3, <1>types, <2>1, <2>2, AppendTrails
      DEF SignalInv, KWinState, State, NoCapture
    <2> QED
      BY <1>3, <1>types, <2>1, <2>2 DEF SignalInv, KWinState, State, NoCapture
  <1>4. CASE ~(s = t /\ KWinStop(s) /\ kwin[t] \in State)
             /\ ~(s = t /\ KWinRelease(s) /\ kwin[t] = "Activated")
    <2>1. CASE KWinStop(s)
      BY <1>1, <1>4, <1>types, <2>1 DEF KWinStop, TypeOK, State, NoCapture
    <2>2. CASE KWinRelease(s)
      <3>1. CASE kwin[s] = "Activated"
        BY <1>1, <1>4, <2>2, <3>1 DEF KWinRelease, TypeOK
      <3>2. CASE kwin[s] # "Activated"
        BY <1>1, <2>2, <3>2 DEF KWinRelease
      <3> QED
        BY <3>1, <3>2
    <2>3. CASE UNCHANGED kwinVars
      BY <1>1, <2>3 DEF kwinVars
    <2> QED
      BY <2>1, <2>2, <2>3
  <1> QED
    BY <1>2, <1>3, <1>4

\* A session that is closed takes its capture along, or is marked.
LEMMA CloseKeepsSignalInv ==
    ASSUME TypeOK, NEW s \in Session, NEW t \in Session, NEW r \in CallResult,
           SignalInv(t), CloseSession(s, r), UNCHANGED state, life[s] # "fresh",
           ~bound[s] /\ ~tainted[s] => kwin[s] = NoCapture
    PROVE  SignalInv(t)'
  <1>1. CASE s = t
    <2>1. /\ life'[t] = "closed" /\ ~bound'[t] /\ ~dialog'[t]
          /\ kwin'[t] = IF Done(t, r) THEN NoCapture ELSE kwin[t]
          /\ tainted'[t] = (tainted[t] \/ (bound[t] /\ r = "error"))
      BY <1>1 DEF CloseSession, TypeOK
    <2>2. ~tainted'[t] => kwin'[t] = NoCapture
      BY <1>1, <2>1 DEF Done, CallResult
    <2> QED
      BY <2>1, <2>2 DEF SignalInv
  <1>2. CASE s # t
    BY <1>2, OthersKeepSignalInv DEF CloseSession, TypeOK
  <1> QED
    BY <1>1, <1>2

\* Every step of the portal and of KWin keeps SignalInv of every session.
LEMMA SignalStep == TypeOK /\ AllSignalInv /\ [Next]_vars => AllSignalInv'
  <1> SUFFICES ASSUME TypeOK, AllSignalInv, [Next]_vars, NEW t \in Session
               PROVE  SignalInv(t)'
    BY DEF AllSignalInv
  <1> DEFINE Same == /\ life'[t] = life[t] /\ dialog'[t] = dialog[t]
                     /\ bound'[t] = bound[t] /\ state'[t] = state[t]
                     /\ kwin'[t] = kwin[t] /\ queue'[t] = queue[t]
                     /\ tainted'[t] = tainted[t]
  <1>0. SignalInv(t) /\ (Same => SignalInv(t)')
    BY OthersKeepSignalInv DEF AllSignalInv
  <1>types. /\ state[t] \in State /\ queue[t] \in Seq(State)
            /\ kwin[t] \in State \cup {NoCapture} /\ NoCapture \notin State
    BY DEF TypeOK, State, NoCapture
  <1>1. ASSUME NEW s \in Session, CreateSession2(s) PROVE SignalInv(t)'
    <2>1. CASE s = t
      BY <1>0, <1>1, <1>types, <2>1
      DEF CreateSession2, kwinVars, SignalInv, KWinState, TypeOK
    <2>2. CASE s # t
      BY <1>0, <1>1, <2>2 DEF CreateSession2, kwinVars, TypeOK
    <2> QED
      BY <2>1, <2>2
  <1>2. ASSUME NEW s \in Session, StartWithDialog(s) PROVE SignalInv(t)'
    <2>1. CASE s = t
      BY <1>0, <1>2, <2>1
      DEF StartWithDialog, CanStart, kwinVars, SignalInv, KWinState, TypeOK
    <2>2. CASE s # t
      BY <1>0, <1>2, <2>2 DEF StartWithDialog, kwinVars, TypeOK
    <2> QED
      BY <2>1, <2>2
  <1>3. ASSUME NEW s \in Session, DialogRejected(s) PROVE SignalInv(t)'
    <2>1. CASE s = t
      BY <1>0, <1>3, <2>1
      DEF DialogRejected, kwinVars, SignalInv, KWinState, TypeOK
    <2>2. CASE s # t
      BY <1>0, <1>3, <2>2 DEF DialogRejected, kwinVars, TypeOK
    <2> QED
      BY <2>1, <2>2
  <1>4. ASSUME NEW s \in Session, GetZones(s) PROVE SignalInv(t)'
    BY <1>0, <1>4 DEF GetZones, sessionVars, kwinVars
  <1>5. ASSUME NEW s \in Session, SignalArrives(s) PROVE SignalInv(t)'
    <2>1. CASE s = t
      <3>1. /\ state'[t] = Head(queue[t]) /\ queue'[t] = Tail(queue[t])
            /\ queue[t] # <<>> /\ life'[t] = "open" /\ life[t] = "open"
            /\ kwin' = kwin /\ bound' = bound /\ dialog' = dialog
            /\ tainted' = tainted
        BY <1>5, <2>1 DEF SignalArrives, TypeOK
      <3>2. ASSUME ~tainted[t]
            PROVE  Trails(state'[t], queue'[t], KWinState(t))
        BY <1>0, <1>types, <3>1, <3>2, TailTrails
        DEF SignalInv, KWinState, State
      <3> QED
        BY <1>0, <3>1, <3>2 DEF SignalInv, KWinState
    <2>2. CASE s # t
      BY <1>0, <1>5, <2>2 DEF SignalArrives, TypeOK
    <2> QED
      BY <2>1, <2>2
  <1>6. ASSUME NEW s \in Session, KWinActivates(s) PROVE SignalInv(t)'
    <2>1. CASE s = t
      <3>1. /\ kwin[t] = "Deactivated" /\ kwin'[t] = "Activated"
            /\ queue'[t] = Append(queue[t], "Activated")
            /\ life' = life /\ bound' = bound /\ dialog' = dialog
            /\ tainted' = tainted /\ state' = state /\ bound[t]
        BY <1>6, <2>1 DEF KWinActivates, KWinCanAct, sessionVars, TypeOK
      <3>2. ASSUME ~tainted[t]
            PROVE  Trails(state[t], queue'[t], "Activated")
        BY <1>0, <1>types, <3>1, <3>2, AppendTrails
        DEF SignalInv, KWinState, State, NoCapture
      <3> QED
        BY <1>0, <3>1, <3>2 DEF SignalInv, KWinState, State, NoCapture
    <2>2. CASE s # t
      BY <1>0, <1>6, <2>2 DEF KWinActivates, sessionVars, TypeOK
    <2> QED
      BY <2>1, <2>2
  <1>7. ASSUME NEW s \in Session, KWinEscapes(s) PROVE SignalInv(t)'
    BY <1>0, <1>7, StopKeepsSignalInv DEF KWinEscapes, sessionVars
  <1>a. ASSUME NEW s \in Session, dialog[s] PROVE ~bound[s]
    BY <1>a DEF AllSignalInv, SignalInv
  <1>b. ASSUME NEW s \in Session, state[s] # "Disabled" PROVE life[s] # "fresh"
    BY <1>b DEF AllSignalInv, SignalInv
  <1>c. ASSUME NEW s \in Session, life[s] # "fresh"
        PROVE  ~bound[s] /\ ~tainted[s] => kwin[s] = NoCapture
    BY <1>c DEF AllSignalInv, SignalInv, TypeOK
  <1>8. ASSUME NEW s \in Session, NEW r \in CallResult, ~bound[s], Setup(s, r),
               \/ CanStart(s) /\ dialog' = dialog
               \/ dialog[s] /\ dialog' = [dialog EXCEPT ![s] = FALSE],
               life' = life, state' = state
        PROVE  SignalInv(t)'
    <2>1. CASE s = t
      <3>1. /\ life'[t] = "open" /\ queue'[t] = queue[t] /\ state'[t] = state[t]
            /\ bound'[t] = (r = "ok") /\ ~dialog'[t]
            /\ kwin'[t] = (IF r = "error" THEN kwin[t] ELSE "Disabled")
            /\ tainted'[t] = (tainted[t] \/ r = "late")
        BY <1>0, <1>8, <2>1 DEF Setup, CanStart, SignalInv, TypeOK
      <3>2. ASSUME ~tainted[t]
            PROVE  kwin[t] = NoCapture /\ Trails(state[t], queue[t], "Disabled")
        BY <1>0, <1>8, <1>types, <2>1, <3>1, <3>2 DEF SignalInv, KWinState
      <3> QED
        BY <3>1, <3>2, <1>types DEF SignalInv, KWinState, State, CallResult, NoCapture
    <2>2. CASE s # t
      BY <1>0, <1>8, <2>2 DEF Setup, TypeOK
    <2> QED
      BY <2>1, <2>2
  <1>9. ASSUME NEW s \in Session, NEW r \in CallResult, StartRestored(s, r)
        PROVE  SignalInv(t)'
    BY <1>8, <1>9 DEF StartRestored, CanStart
  <1>10. ASSUME NEW s \in Session, NEW r \in CallResult, DialogAccepted(s, r)
         PROVE  SignalInv(t)'
    BY <1>8, <1>10, <1>a DEF DialogAccepted
  <1>11. ASSUME NEW s \in Session, NEW r \in CallResult, Close(s, r)
         PROVE  SignalInv(t)'
    <2>1. CloseSession(s, r) /\ state' = state /\ life[s] = "open"
      BY <1>11 DEF Close
    <2>2. ~bound[s] /\ ~tainted[s] => kwin[s] = NoCapture
      BY <1>c, <2>1
    <2> QED
      BY <1>0, <2>1, <2>2, CloseKeepsSignalInv
  <1>12. ASSUME NEW s \in Session, NEW r \in CallResult, Enable(s, r)
         PROVE  SignalInv(t)'
    <2>1. CASE s = t /\ ~Done(s, r)
      BY <1>0, <1>12, <2>1 DEF Enable, kwinVars, Done, Answered, TypeOK
    <2>2. CASE s = t /\ Done(s, r)
      <3>1. /\ life'[t] = "open" /\ life[t] = "open" /\ bound[t] /\ bound'[t]
            /\ state[t] = "Disabled"
            /\ queue'[t] = queue[t] /\ dialog' = dialog
            /\ kwin'[t] = (IF kwin[t] = "Disabled" THEN "Deactivated" ELSE kwin[t])
            /\ r = "ok" => state'[t] = "Deactivated"
            /\ tainted'[t] = (tainted[t] \/ r = "late") /\ r \in {"ok", "late"}
        BY <1>12, <2>2 DEF Enable, Done, Answered, KWinEnable, TypeOK
      <3>2. ASSUME ~tainted'[t]
            PROVE  /\ kwin'[t] = "Deactivated" /\ queue'[t] = <<>>
                   /\ state'[t] = "Deactivated"
        BY <1>0, <1>types, <3>1, <3>2 DEF SignalInv, Trails, KWinState, State
      <3> QED
        BY <1>0, <3>1, <3>2, QuietTrails DEF SignalInv, KWinState, State, NoCapture
    <2>3. CASE s # t
      <3>1. kwin'[t] = kwin[t] /\ queue'[t] = queue[t]
        BY <1>12, <2>3 DEF Enable, KWinEnable, kwinVars, TypeOK
      <3> QED
        BY <1>0, <1>12, <2>3, <3>1 DEF Enable, TypeOK
    <2> QED
      BY <2>1, <2>2, <2>3
  <1>13. ASSUME NEW s \in Session, NEW r \in CallResult, Disable(s, r)
         PROVE  SignalInv(t)'
    <2>1. CASE s = t /\ ~Done(s, r)
      BY <1>0, <1>13, <2>1 DEF Disable, kwinVars, sessionVars, TypeOK
    <2>2. CASE s = t /\ Done(s, r)
      <3>1. /\ life' = life /\ bound' = bound /\ dialog' = dialog /\ state' = state
            /\ queue'[t] = queue[t] /\ bound[t]
            /\ kwin[t] # "Disabled" => kwin'[t] = kwin[t] /\ tainted'[t] = tainted[t]
            /\ kwin[t] = "Disabled" => tainted'[t]
        BY <1>13, <2>2 DEF Disable, Done, KWinEnable, sessionVars, TypeOK
      <3>2. life[t] = "open"
        BY <1>0, <3>1 DEF SignalInv
      <3> QED
        BY <1>0, <3>1, <3>2 DEF SignalInv
    <2>3. CASE s # t
      <3>1. kwin'[t] = kwin[t] /\ queue'[t] = queue[t]
        BY <1>13, <2>3 DEF Disable, KWinEnable, kwinVars, TypeOK
      <3> QED
        BY <1>0, <1>13, <2>3, <3>1 DEF Disable, sessionVars, TypeOK
    <2> QED
      BY <2>1, <2>2, <2>3
  <1>14. ASSUME NEW s \in Session, NEW r \in CallResult, Release(s, r)
         PROVE  SignalInv(t)'
    BY <1>0, <1>14, StopKeepsSignalInv DEF Release, sessionVars
  <1>15. ASSUME NEW s \in Session, NEW r \in CallResult, ZoneChanged(s, r)
         PROVE  SignalInv(t)'
    BY <1>0, <1>15, StopKeepsSignalInv DEF ZoneChanged
  <1>16. ASSUME NEW s \in Session, NEW r \in CallResult, ZoneChangeFails(s, r)
         PROVE  SignalInv(t)'
    <2>1. CloseSession(s, r) /\ state' = state /\ life[s] # "fresh"
      BY <1>16, <1>b DEF ZoneChangeFails
    <2>2. ~bound[s] /\ ~tainted[s] => kwin[s] = NoCapture
      BY <1>c, <2>1
    <2> QED
      BY <1>0, <2>1, <2>2, CloseKeepsSignalInv
  <1>17. ASSUME NEW s \in Session, NEW r \in CallResult, NEW accepted \in BOOLEAN,
                SetPointerBarriers(s, r, accepted)
         PROVE  SignalInv(t)'
    BY <1>0, <1>17, StopKeepsSignalInv DEF SetPointerBarriers
  <1>18. ASSUME NEW scr \in Screen, NEW g \in Geometry[scr] \cup {Off},
                ScreenChanges(scr, g)
         PROVE  SignalInv(t)'
    BY <1>0, <1>18 DEF ScreenChanges, sessionVars, kwinVars
  <1>19. CASE UNCHANGED vars
    BY <1>0, <1>19 DEF vars, sessionVars, kwinVars
  <1> QED
    BY <1>1, <1>2, <1>3, <1>4, <1>5, <1>6, <1>7, <1>9, <1>10, <1>11, <1>12, <1>13,
       <1>14, <1>15, <1>16, <1>17, <1>18, <1>19, InputCaptureAssumption
    DEF Next
LEMMA SignalInvInductive == Spec => []AllSignalInv
  <1>1. Init => AllSignalInv
    BY DEF Init, AllSignalInv, SignalInv, Trails, KWinState, State, NoCapture
  <1> QED
    BY <1>1, TypeCorrect, SignalStep, PTL DEF Spec

\* The state the portal keeps for a session trails KWin's by the signals that
\* wait in the event queue, and Enable meets no signal of an earlier time.
THEOREM PortalTrailsKWin == Spec => []SignalsCatchUp
  <1>1. AllSignalInv => \A s \in Session : Tracked(s) => Announced(s) = KWinState(s)
    BY DEF AllSignalInv, SignalInv, Trails, Tracked, Announced
  <1>2. AllSignalInv => NoStaleSignal
    BY DEF AllSignalInv, SignalInv, Trails, NoStaleSignal, Tracked
  <1>3. AllSignalInv => SignalsCatchUp
    BY <1>1, <1>2 DEF SignalsCatchUp
  <1> QED
    BY <1>3, SignalInvInductive, PTL

\* Closing a session removes its capture from KWin.
THEOREM ClosedLeavesNoCapture == Spec => []NoCaptureLeft
  <1>1. AllSignalInv => NoCaptureLeft
    BY DEF AllSignalInv, SignalInv, NoCaptureLeft
  <1> QED
    BY <1>1, SignalInvInductive, PTL

-----------------------------------------------------------------------------
(* Barriers: BarriersFitZones.                                             *)

\* A session that asked for no zones knows none and has no barriers; KWin
\* watches nothing for a disabled capture; and barriers fit the screens until
\* a change is under way or was missed.
BarrierInv(s) ==
    /\ life[s] = "fresh" =>
          ~zonesAsked[s] /\ told[s] = {} /\ barriers[s] = {} /\ armed[s] = {}
    /\ watch[s] # {} \/ s \in pending => zonesAsked[s]
    /\ Tracked(s) /\ kwin[s] \in {NoCapture, "Disabled"} => armed[s] = {}
    /\ Tracked(s) /\ ~zonesAsked[s]
          => told[s] = {} /\ barriers[s] = {} /\ armed[s] = {}
    /\ Tracked(s) /\ s \notin pending /\ ~missed[s]
          => barriers[s] \in {{}, Zones} /\ armed[s] \in {{}, Zones}

AllBarrierInv == \A s \in Session : BarrierInv(s)

-----------------------------------------------------------------------------
\* A step that gives a session no new zones and no new barriers keeps its
\* BarrierInv: KWin may watch less, or what the session already has.
LEMMA KeepsBarriers ==
    ASSUME TypeOK, NEW t \in Session, BarrierInv(t),
           geom' = geom, told'[t] = told[t], missed[t] => missed'[t],
           zonesAsked'[t] = zonesAsked[t], watch'[t] = watch[t],
           life'[t] = life[t], tainted[t] => tainted'[t],
           t \in pending' <=> t \in pending,
           barriers'[t] \in {barriers[t], {}},
           armed'[t] \in {armed[t], {}, barriers[t]},
           Tracked(t)' /\ kwin'[t] \in {NoCapture, "Disabled"} => armed'[t] = {}
    PROVE  BarrierInv(t)'
  <1>1. Tracked(t)' => Tracked(t)
    BY DEF Tracked
  <1>2. Zones' = Zones
    BY DEF Zones
  <1> QED
    BY <1>1, <1>2 DEF BarrierInv

\* A closed session has nothing to keep.
LEMMA ClosedBarriers ==
    ASSUME NEW t \in Session, life'[t] = "closed", watch'[t] = {}, t \notin pending'
    PROVE  BarrierInv(t)'
  BY DEF BarrierInv, Tracked

\* What SignalInv says of the capture of a tracked session.
LEMMA TrackedCapture ==
    ASSUME TypeOK, NEW t \in Session, SignalInv(t), Tracked(t)
    PROVE  /\ bound[t] <=> kwin[t] # NoCapture
           /\ state[t] = "Disabled" => kwin[t] \in {NoCapture, "Disabled"}
  BY DEF SignalInv, Tracked, Trails, KWinState, TypeOK, State, NoCapture

\* Every step keeps BarrierInv of every session.
LEMMA BarrierStep ==
    ASSUME TypeOK, AllSignalInv, AllBarrierInv, [Next]_vars
    PROVE  AllBarrierInv'
  <1> SUFFICES ASSUME NEW t \in Session PROVE BarrierInv(t)'
    BY DEF AllBarrierInv
  <1>0. BarrierInv(t) /\ SignalInv(t)
    BY DEF AllBarrierInv, AllSignalInv
  <1>2. ASSUME UNCHANGED <<geom, zonesAsked, watch, life, pending, barriers, told,
                           kwin, armed, missed, tainted>>
        PROVE  BarrierInv(t)'
    BY <1>0, <1>2 DEF BarrierInv, Tracked, Zones
  <1>3. ASSUME NEW s \in Session, CreateSession2(s) PROVE BarrierInv(t)'
    <2>1. CASE s = t
      BY <1>0, <1>3, <2>1
      DEF CreateSession2, zoneVars, appVars, kwinVars, BarrierInv, TypeOK
    <2>2. CASE s # t
      BY <1>0, <1>3, <2>2, KeepsBarriers
      DEF CreateSession2, zoneVars, appVars, kwinVars, BarrierInv, Tracked, TypeOK
    <2> QED
      BY <2>1, <2>2
  <1>4. ASSUME NEW s \in Session, NEW r \in CallResult, Setup(s, r),
               UNCHANGED <<geom, zonesAsked, watch, life, pending, barriers, told,
                           missed>>,
               bound[s] => tainted[s]
        PROVE  BarrierInv(t)'
    <2>1. /\ armed'[t] = armed[t] /\ (tainted[t] => tainted'[t])
          /\ s # t => kwin'[t] = kwin[t] /\ tainted'[t] = tainted[t]
      BY <1>4 DEF Setup, TypeOK
    <2>2. ASSUME Tracked(t)', kwin'[t] \in {NoCapture, "Disabled"} PROVE armed'[t] = {}
      <3>1. Tracked(t)
        BY <1>4, <2>1, <2>2 DEF Tracked
      <3>2. CASE s = t
        BY <1>0, <1>4, <2>1, <3>1, <3>2, TrackedCapture DEF BarrierInv, Tracked
      <3>3. CASE s # t
        BY <1>0, <2>1, <2>2, <3>1, <3>3 DEF BarrierInv
      <3> QED
        BY <3>2, <3>3
    <2> QED
      BY <1>0, <1>4, <2>1, <2>2, KeepsBarriers
  <1>5. ASSUME NEW s \in Session, NEW r \in CallResult, StartRestored(s, r)
        PROVE  BarrierInv(t)'
    BY <1>4, <1>5 DEF StartRestored, CanStart, zoneVars, appVars
  <1>6. ASSUME NEW s \in Session, NEW r \in CallResult, DialogAccepted(s, r)
        PROVE  BarrierInv(t)'
    <2>1. ~bound[s]
      BY <1>6 DEF DialogAccepted, AllSignalInv, SignalInv
    <2> QED
      BY <1>4, <1>6, <2>1 DEF DialogAccepted, zoneVars, appVars
  <1>7. ASSUME NEW s \in Session, NEW r \in CallResult, CloseSession(s, r),
               UNCHANGED <<barriers, told, geom, missed>>, pending' = pending \ {s}
        PROVE  BarrierInv(t)'
    <2>1. CASE s = t
      <3>1. life'[t] = "closed" /\ watch'[t] = {} /\ t \notin pending'
        BY <1>7, <2>1 DEF CloseSession, TypeOK
      <3> QED
        BY <3>1, ClosedBarriers
    <2>2. CASE s # t
      <3>1. /\ life'[t] = life[t] /\ tainted'[t] = tainted[t]
            /\ zonesAsked'[t] = zonesAsked[t] /\ watch'[t] = watch[t]
            /\ kwin'[t] = kwin[t] /\ armed'[t] = armed[t]
        BY <1>7, <2>2 DEF CloseSession, TypeOK
      <3>2. Tracked(t)' /\ kwin'[t] \in {NoCapture, "Disabled"} => armed'[t] = {}
        BY <1>0, <3>1 DEF BarrierInv, Tracked
      <3> QED
        BY <1>0, <1>7, <2>2, <3>1, <3>2, KeepsBarriers
    <2> QED
      BY <2>1, <2>2
  <1>8. ASSUME NEW s \in Session, NEW r \in CallResult,
               Close(s, r) \/ ZoneChangeFails(s, r)
        PROVE  BarrierInv(t)'
    BY <1>7, <1>8 DEF Close, Idle, ZoneChangeFails, appVars
  <1>9. ASSUME NEW s \in Session,
               KWinStop(s) \/ KWinRelease(s) \/ UNCHANGED kwinVars
        PROVE  /\ armed'[t] \in {armed[t], {}}
               /\ Tracked(t) /\ kwin'[t] \in {NoCapture, "Disabled"} => armed'[t] = {}
    <2>1. CASE KWinStop(s)
      BY <1>0, <2>1 DEF KWinStop, BarrierInv, TypeOK
    <2>2. CASE KWinRelease(s)
      <3>1. armed' = armed /\ kwin'[t] \in {kwin[t], "Deactivated"}
        BY <2>2 DEF KWinRelease, TypeOK
      <3> QED
        BY <1>0, <3>1 DEF BarrierInv, NoCapture
    <2>3. CASE UNCHANGED kwinVars
      BY <1>0, <2>3 DEF kwinVars, BarrierInv
    <2> QED
      BY <1>9, <2>1, <2>2, <2>3
  <1>10. ASSUME NEW s \in Session, KWinActivates(s) PROVE BarrierInv(t)'
    <2>1. armed' = armed /\ kwin'[t] \in {kwin[t], "Activated"}
      BY <1>10 DEF KWinActivates, TypeOK
    <2>2. Tracked(t)' /\ kwin'[t] \in {NoCapture, "Disabled"} => armed'[t] = {}
      BY <1>0, <1>10, <2>1
      DEF BarrierInv, Tracked, NoCapture, KWinActivates, sessionVars
    <2> QED
      BY <1>0, <1>10, <2>1, <2>2, KeepsBarriers
      DEF KWinActivates, sessionVars, zoneVars, appVars
  <1>11. ASSUME NEW s \in Session, NEW r \in CallResult, KWinEscapes(s) \/ Release(s, r)
         PROVE  BarrierInv(t)'
    <2>1. KWinStop(s) \/ KWinRelease(s) \/ UNCHANGED kwinVars
      BY <1>11 DEF KWinEscapes, Release
    <2>2. UNCHANGED <<sessionVars, zoneVars, appVars, tainted>>
      BY <1>11 DEF KWinEscapes, Release
    <2>3. Tracked(t)' = Tracked(t)
      BY <2>2 DEF Tracked, sessionVars
    <2> QED
      BY <1>0, <1>9, <2>1, <2>2, <2>3, KeepsBarriers DEF sessionVars, zoneVars, appVars
  <1>12. ASSUME NEW s \in Session, NEW r \in CallResult, Enable(s, r) \/ Disable(s, r)
         PROVE  BarrierInv(t)'
    <2>1. /\ UNCHANGED <<life, barriers, zoneVars, told>>
          /\ tainted[t] => tainted'[t]
          /\ s # t => tainted'[t] = tainted[t]
      BY <1>12 DEF Enable, Disable, sessionVars, TypeOK
    <2>2. CASE UNCHANGED kwinVars
      <3>1. Tracked(t)' => Tracked(t)
        BY <2>1 DEF Tracked
      <3> QED
        BY <1>0, <2>1, <2>2, <3>1, KeepsBarriers DEF kwinVars, zoneVars, BarrierInv
    <2>3. CASE KWinEnable(s) /\ Done(s, r)
      <3>1. armed'[t] \in {armed[t], barriers[t]}
        BY <2>3 DEF KWinEnable, TypeOK
      <3>2. ASSUME Tracked(t)', kwin'[t] \in {NoCapture, "Disabled"}
            PROVE  armed'[t] = {}
        <4>1. Tracked(t)
          BY <2>1, <3>2 DEF Tracked
        <4>2. CASE s = t
          <5>1. kwin[t] # NoCapture /\ kwin'[t] # "Disabled"
            BY <1>0, <2>3, <4>1, <4>2, TrackedCapture
            DEF KWinEnable, Done, TypeOK
          <5> QED
            BY <2>3, <3>2, <4>2, <5>1 DEF KWinEnable, TypeOK, NoCapture
        <4>3. CASE s # t
          BY <1>0, <2>3, <3>2, <4>1, <4>3 DEF KWinEnable, TypeOK, BarrierInv
        <4> QED
          BY <4>2, <4>3
      <3> QED
        BY <1>0, <2>1, <3>1, <3>2, KeepsBarriers DEF zoneVars
    <2> QED
      BY <1>12, <2>2, <2>3 DEF Enable, Disable
  <1>13. ASSUME NEW s \in Session, GetZones(s) PROVE BarrierInv(t)'
    <2>1. /\ UNCHANGED <<life, barriers, geom, pending, missed, kwin, armed, tainted>>
          /\ pending = {} /\ life[s] = "open"
      BY <1>13 DEF GetZones, Idle, sessionVars, kwinVars
    <2>2. CASE s = t
      <3>1. zonesAsked'[t]
        BY <1>13, <2>2 DEF GetZones, TypeOK
      <3> QED
        BY <1>0, <2>1, <2>2, <3>1 DEF BarrierInv, Tracked, Zones
    <2>3. CASE s # t
      <3>1. told'[t] = told[t] /\ watch'[t] = watch[t] /\ zonesAsked'[t] = zonesAsked[t]
        BY <1>13, <2>3 DEF GetZones, TypeOK
      <3> QED
        BY <1>0, <2>1, <3>1, KeepsBarriers DEF BarrierInv, Tracked
    <2> QED
      BY <2>2, <2>3
  <1>14. ASSUME NEW s \in Session, NEW r \in CallResult, NEW accepted \in BOOLEAN,
                SetPointerBarriers(s, r, accepted)
         PROVE  BarrierInv(t)'
    <2>1. /\ UNCHANGED <<life, zonesAsked, watch, geom, pending, told, tainted>>
          /\ life[s] = "open" /\ told[s] # {}
          /\ KWinStop(s) \/ UNCHANGED kwinVars
      BY <1>14 DEF SetPointerBarriers, appVars
    <2>2. Tracked(t)' = Tracked(t)
      BY <2>1 DEF Tracked
    <2>3. /\ armed'[t] \in {armed[t], {}}
          /\ Tracked(t) /\ kwin'[t] \in {NoCapture, "Disabled"} => armed'[t] = {}
      BY <1>9, <2>1
    <2>4. CASE s = t /\ (state[s] = "Disabled" \/ Answered(s, r))
      <3>1. barriers'[t] \in {{}, Zones}
        BY <1>14, <2>4 DEF SetPointerBarriers, TypeOK
      <3>2. Tracked(t) => armed'[t] = {}
        <4>1. CASE state[t] = "Disabled"
          BY <1>0, <1>14, <2>4, <4>1, TrackedCapture
          DEF SetPointerBarriers, BarrierInv, kwinVars
        <4>2. CASE state[t] # "Disabled"
          BY <1>14, <2>4, <4>2 DEF SetPointerBarriers, Answered, Done, KWinStop, TypeOK
        <4> QED
          BY <4>1, <4>2
      <3>3. Tracked(t) => zonesAsked'[t]
        BY <1>0, <2>1, <2>4 DEF BarrierInv
      <3>4. Zones' = Zones
        BY <2>1 DEF Zones
      <3> QED
        BY <1>0, <2>1, <2>2, <2>4, <3>1, <3>2, <3>3, <3>4 DEF BarrierInv
    <2>5. CASE ~(s = t /\ (state[s] = "Disabled" \/ Answered(s, r)))
      <3>1. barriers'[t] = barriers[t] /\ missed'[t] = missed[t]
        BY <1>14, <2>5 DEF SetPointerBarriers, TypeOK
      <3> QED
        BY <1>0, <2>1, <2>2, <2>3, <3>1, KeepsBarriers
    <2> QED
      BY <2>4, <2>5
  <1>15. ASSUME NEW s \in Session, NEW r \in CallResult, ZoneChanged(s, r)
         PROVE  BarrierInv(t)'
    <2>1. /\ UNCHANGED <<life, zonesAsked, watch, geom, tainted>>
          /\ s \in pending /\ pending' = pending \ {s}
          /\ KWinStop(s) \/ UNCHANGED kwinVars
      BY <1>15 DEF ZoneChanged
    <2>2. Tracked(t)' = Tracked(t)
      BY <2>1 DEF Tracked
    <2>3. /\ armed'[t] \in {armed[t], {}}
          /\ Tracked(t) /\ kwin'[t] \in {NoCapture, "Disabled"} => armed'[t] = {}
      BY <1>9, <2>1
    <2>4. CASE s = t
      <3>1. barriers'[t] = {}
        BY <1>15, <2>4 DEF ZoneChanged, TypeOK
      <3>2. Tracked(t) => armed'[t] = {}
        <4>1. CASE state[t] = "Disabled"
          BY <1>0, <1>15, <2>4, <4>1, TrackedCapture
          DEF ZoneChanged, BarrierInv, kwinVars
        <4>2. CASE state[t] # "Disabled"
          BY <1>15, <2>4, <4>2 DEF ZoneChanged, KWinStop, TypeOK
        <4> QED
          BY <4>1, <4>2
      <3>3. zonesAsked[t]
        BY <1>0, <2>1, <2>4 DEF BarrierInv
      <3>4. life[t] # "fresh"
        BY <1>0, <3>3 DEF BarrierInv
      <3> QED
        BY <1>0, <2>1, <2>2, <2>3, <3>1, <3>2, <3>3, <3>4 DEF BarrierInv
    <2>5. CASE s # t
      <3>1. barriers'[t] = barriers[t] /\ told'[t] = told[t] /\ missed'[t] = missed[t]
        BY <1>15, <2>5 DEF ZoneChanged, TypeOK
      <3> QED
        BY <1>0, <2>1, <2>2, <2>3, <2>5, <3>1, KeepsBarriers
    <2> QED
      BY <2>4, <2>5
  <1>16. ASSUME NEW scr \in Screen, NEW g \in Geometry[scr] \cup {Off},
                ScreenChanges(scr, g)
         PROVE  BarrierInv(t)'
    <2>1. /\ UNCHANGED <<life, barriers, zonesAsked, told, kwin, armed, tainted>>
          /\ watch'[t] \subseteq watch[t]
          /\ Tracked(t)' = Tracked(t)
      BY <1>16 DEF ScreenChanges, sessionVars, appVars, kwinVars, Tracked, TypeOK
    <2>2. t \in pending' => zonesAsked[t]
      BY <1>0, <1>16 DEF ScreenChanges, BarrierInv
    <2>3. t \notin pending' /\ ~missed'[t] => ~zonesAsked[t]
      BY <1>16 DEF ScreenChanges, TypeOK
    <2> QED
      BY <1>0, <2>1, <2>2, <2>3 DEF BarrierInv
  <1>17. ASSUME NEW s \in Session,
                StartWithDialog(s) \/ DialogRejected(s) \/ SignalArrives(s)
         PROVE  BarrierInv(t)'
    <2>1. CASE StartWithDialog(s)
      BY <1>2, <2>1 DEF StartWithDialog, zoneVars, appVars, kwinVars
    <2>2. CASE DialogRejected(s)
      BY <1>2, <2>2 DEF DialogRejected, zoneVars, appVars, kwinVars
    <2>3. CASE SignalArrives(s)
      BY <1>2, <2>3 DEF SignalArrives, zoneVars
    <2> QED
      BY <1>17, <2>1, <2>2, <2>3
  <1>18. CASE UNCHANGED vars
    BY <1>2, <1>18 DEF vars, sessionVars, zoneVars, appVars, kwinVars
  <1>19. ASSUME NEW s \in Session, KWinEscapes(s) PROVE BarrierInv(t)'
    <2>1. "ok" \in CallResult
      BY DEF CallResult
    <2> QED
      BY <1>11, <1>19, <2>1
  <1> QED
    BY <1>3, <1>5, <1>6, <1>8, <1>10, <1>11, <1>12, <1>13, <1>14, <1>15, <1>16,
       <1>17, <1>18, <1>19, InputCaptureAssumption
    DEF Next

\* Whatever the screens, the applications, KWin and its replies do, the
\* barriers of a session fit the screens as they are, unless a screen changed
\* that the session could not hear of: mirrored screens are not excluded.
THEOREM BarriersAlwaysFit == Spec => []BarriersFitZones
  <1>1. Init => AllBarrierInv
    BY DEF Init, AllBarrierInv, BarrierInv, Tracked
  <1>2. AllBarrierInv => BarriersFitZones
    BY DEF AllBarrierInv, BarrierInv, BarriersFitZones
  <1>3. TypeOK /\ AllSignalInv /\ AllBarrierInv /\ [Next]_vars => AllBarrierInv'
    BY BarrierStep
  <1> QED
    BY <1>1, <1>2, <1>3, TypeCorrect, SignalInvInductive, PTL DEF Spec

=============================================================================
