------------------------ MODULE InhibitPortalProofs ------------------------
(***************************************************************************)
(* Theorems about InhibitPortal: for any set of monitors, any numbers of   *)
(* queries and any durations that keep InhibitPortalAssumption.            *)
(***************************************************************************)
EXTENDS InhibitPortal, TLAPS

LEMMA Durations ==
    /\ Settle \in 0..Deadline /\ Deadline \in Nat /\ Grace \in Nat /\ Race \in Nat
    /\ MaxQueries \in Nat
BY InhibitPortalAssumption

\* Every step keeps the types.
LEMMA TypeStep == TypeOK /\ [Next]_vars => TypeOK'
<1> SUFFICES ASSUME TypeOK, [Next]_vars PROVE TypeOK'
  OBVIOUS
<1> USE Durations DEF TypeOK, SessionState, Query, None, Mixed
<1>1. ASSUME NEW m \in Monitor, CreateMonitor(m) PROVE TypeOK'
  BY <1>1 DEF CreateMonitor, monitorVars, portalVars, historyVars
<1>2. ASSUME NEW m \in Monitor, InitialState(m) PROVE TypeOK'
  <2>1. owes' \in [Monitor -> SUBSET Query]
    BY <1>2 DEF InitialState, LearnsOfQuery
  <2>2. told' \in [Monitor -> {<<>>} \cup (BOOLEAN \X SessionState)]
    BY <1>2 DEF InitialState, UpdateState
  <2> QED
    BY <1>2, <2>1, <2>2 DEF InitialState, portalVars, historyVars
<1>3. ASSUME NEW some \in SUBSET Monitor, CloseAll(some) PROVE TypeOK'
  BY <1>3 DEF CloseAll, historyVars
<1>4. ASSUME NEW locked \in BOOLEAN, LockScreenStateChanged(locked) PROVE TypeOK'
  BY <1>4 DEF LockScreenStateChanged, UpdateState, monitorVars, portalVars, historyVars
<1>5. ASSUME NEW m \in Monitor, Inhibit(m) \/ InhibitArrives(m) \/ CloseRequest(m)
      PROVE  TypeOK'
  BY <1>5 DEF Inhibit, InhibitArrives, CloseRequest, monitorVars, historyVars
<1>6. CASE QueryCanEndSession
  BY <1>6 DEF QueryCanEndSession, UpdateState, AnswerLater, monitorVars
<1>7. ASSUME NEW m \in Monitor, NEW query \in Query, NEW blocks \in BOOLEAN,
             QueryEndResponse(m, query, blocks)
      PROVE  TypeOK'
  <2>1. timers' \subseteq 0..Deadline
    BY <1>7, AnswerSoon(waiting') \in {timers, timers \cup {Settle}}
       DEF QueryEndResponse, AnswerSoon
  <2>2. placing' \in [Monitor -> SUBSET (0..Race)]
    <3>1. (IF blocks THEN {Race} ELSE placing[m]) \in SUBSET (0..Race)
      OBVIOUS
    <3> QED
      BY <1>7, <3>1 DEF QueryEndResponse
  <2>3. owes' \in [Monitor -> SUBSET Query]
    BY <1>7 DEF QueryEndResponse
  <2>4. waiting' \subseteq Monitor /\ responded' \subseteq Monitor
    BY <1>7 DEF QueryEndResponse
  <2> QED
    BY <1>7, <2>1, <2>2, <2>3, <2>4 DEF QueryEndResponse, monitorVars
<1>8. CASE QueryCanShutDownComplete
  BY <1>8 DEF QueryCanShutDownComplete, monitorVars
<1>9. CASE EndSession
  BY <1>9 DEF EndSession, UpdateState, monitorVars, historyVars
<1>10. CASE Tick
  <2>1. timers' \subseteq 0..Deadline
    BY <1>10 DEF Tick
  <2>2. placing' \in [Monitor -> SUBSET (0..Race)]
    BY <1>10 DEF Tick
  <2>3. age' \in Nat
    BY <1>10 DEF Tick
  <2> QED
    BY <1>10, <2>1, <2>2, <2>3 DEF Tick, monitorVars, historyVars
<1>11. CASE UNCHANGED vars
  BY <1>11 DEF vars, monitorVars, portalVars, historyVars
<1> QED
  BY <1>1, <1>2, <1>3, <1>4, <1>5, <1>6, <1>7, <1>8, <1>9, <1>10, <1>11
     DEF Next, CloseMonitor, FrontendVanishes

\* TypeOK is an invariant: every variable holds a value of its kind, and no
\* timer of the portal outlasts Deadline.
THEOREM TypeCorrect == Spec => []TypeOK
<1>1. Init => TypeOK
  <2> SUFFICES ASSUME Init PROVE TypeOK
    OBVIOUS
  <2>1. told \in [Monitor -> {<<>>} \cup (BOOLEAN \X SessionState)]
    BY DEF Init
  <2>2. queries \in 0..MaxQueries /\ age \in Nat
    BY Durations DEF Init
  <2>3. owes \in [Monitor -> SUBSET Query] /\ placing \in [Monitor -> SUBSET (0..Race)]
    BY DEF Init
  <2> QED
    BY <2>1, <2>2, <2>3 DEF Init, TypeOK, SessionState, Query, None, Mixed
<1> QED
  BY <1>1, TypeStep, PTL DEF Spec

-----------------------------------------------------------------------------
\* WithinDeadline is inductive: only queryCanEndSession makes a query pending,
\* with a timer of its own; other handlers add timers or close the query.
LEMMA InTimeStep == TypeOK /\ WithinDeadline /\ [Next]_vars => WithinDeadline'
<1> SUFFICES ASSUME TypeOK, WithinDeadline, [Next]_vars PROVE WithinDeadline'
  OBVIOUS
<1> USE Durations DEF TypeOK, WithinDeadline, Query, None
<1>1. CASE UNCHANGED <<pending, timers, age>>
  BY <1>1
<1>2. CASE QueryCanEndSession
  BY <1>2 DEF QueryCanEndSession, AnswerLater
<1>3. ASSUME NEW m \in Monitor, NEW query \in Query, NEW blocks \in BOOLEAN,
             QueryEndResponse(m, query, blocks)
      PROVE  WithinDeadline'
  BY <1>3 DEF QueryEndResponse, AnswerSoon
<1>4. CASE QueryCanShutDownComplete
  BY <1>4 DEF QueryCanShutDownComplete
<1>5. CASE Tick
  <2>1. SUFFICES ASSUME pending # None
                 PROVE  \E t \in timers' : age' + t <= Deadline
    BY <1>5 DEF Tick
  <2>2. PICK t \in timers : age + t <= Deadline
    BY <2>1
  <2>3. t - 1 \in timers' /\ age' = age + 1
    BY <1>5, <2>1 DEF Tick
  <2> QED
    BY <2>2, <2>3
<1> QED
  BY <1>1, <1>2, <1>3, <1>4, <1>5
     DEF Next, vars, monitorVars, portalVars, historyVars, CreateMonitor, InitialState, CloseMonitor,
         FrontendVanishes, CloseAll, LockScreenStateChanged, Inhibit, InhibitArrives,
         CloseRequest, EndSession

\* A pending query is always answered within Deadline: for any applications,
\* however they respond, vanish or overlap with other queries.
LEMMA NoLogoutHeldUp == Spec => []WithinDeadline
<1>1. Init => WithinDeadline
  BY DEF Init, WithinDeadline
<1> QED
  BY <1>1, InTimeStep, TypeCorrect, PTL DEF Spec

-----------------------------------------------------------------------------
\* The portal waits for no monitor but those that were asked and have not
\* responded: the part that makes ResponsesShortenWait inductive.
WaitsForAsked == pending # None => waiting \subseteq asked \ responded

ShortenInv == WaitsForAsked /\ ResponsesShortenWait

LEMMA ShortenStep == TypeOK /\ ShortenInv /\ [Next]_vars => ShortenInv'
<1> SUFFICES ASSUME TypeOK, ShortenInv, [Next]_vars PROVE ShortenInv'
  OBVIOUS
<1> USE Durations
    DEF TypeOK, ShortenInv, WaitsForAsked, ResponsesShortenWait, Query, None
<1>1. CASE UNCHANGED <<pending, timers, waiting, asked, responded>>
  BY <1>1
<1>2. ASSUME NEW some \in SUBSET Monitor, CloseAll(some) PROVE ShortenInv'
  BY <1>2 DEF CloseAll, historyVars
<1>3. CASE QueryCanEndSession
  BY <1>3 DEF QueryCanEndSession, AnswerLater
<1>4. ASSUME NEW m \in Monitor, NEW query \in Query, NEW blocks \in BOOLEAN,
             QueryEndResponse(m, query, blocks)
      PROVE  ShortenInv'
  <2>1. WaitsForAsked'
    BY <1>4 DEF QueryEndResponse
  <2>2. CASE asked \subseteq responded
    BY <1>4, <2>1, <2>2 DEF QueryEndResponse, AnswerSoon
  <2>3. CASE ~(asked \subseteq responded)
    <3>1. SUFFICES ASSUME pending' # None, asked' \subseteq responded'
                   PROVE  Settle \in timers'
      BY <2>1
    <3>2. waiting' = {}
      BY <2>1, <3>1
    <3> QED
      BY <1>4, <3>2 DEF QueryEndResponse, AnswerSoon
  <2> QED
    BY <2>2, <2>3, Zenon
<1>5. CASE QueryCanShutDownComplete
  BY <1>5 DEF QueryCanShutDownComplete
<1>6. CASE Tick
  <2>1. SUFFICES ASSUME pending # None, asked # {}, asked \subseteq responded
                 PROVE  \E t \in timers' : t <= Settle
    BY <1>6 DEF Tick, monitorVars, historyVars
  <2>2. PICK t \in timers : t <= Settle
    BY <2>1
  <2>3. t - 1 \in timers'
    BY <1>6 DEF Tick
  <2> QED
    BY <2>2, <2>3
<1> QED
  BY <1>1, <1>2, <1>3, <1>4, <1>5, <1>6
     DEF Next, vars, monitorVars, portalVars, historyVars, CreateMonitor, InitialState, CloseMonitor,
         FrontendVanishes, LockScreenStateChanged, Inhibit, InhibitArrives, CloseRequest,
         EndSession

\* Once all applications that were asked have responded, the answer is at most
\* Settle away, however many of them there are.
LEMMA ResponsesEndTheQuery == Spec => []ResponsesShortenWait
<1>1. Init => ShortenInv
  BY DEF Init, ShortenInv, WaitsForAsked, ResponsesShortenWait
<1>2. ShortenInv => ResponsesShortenWait
  BY DEF ShortenInv
<1> QED
  BY <1>1, <1>2, ShortenStep, TypeCorrect, PTL DEF Spec

\* Both: a pending query is answered within Deadline, and sooner if all respond.
THEOREM QueryAnsweredInTime == Spec => []AnsweredInTime
<1>1. WithinDeadline /\ ResponsesShortenWait => AnsweredInTime
  BY DEF AnsweredInTime
<1> QED
  BY <1>1, NoLogoutHeldUp, ResponsesEndTheQuery, PTL

-----------------------------------------------------------------------------
\* What makes MonitorsUpToDate inductive: a session handle that was never
\* used was told nothing.
ToldInv ==
    /\ \A m \in Monitor : m \notin monitors \cup ended => told[m] = <<>>
    /\ MonitorsUpToDate

LEMMA ToldStep == TypeOK /\ ToldInv /\ [Next]_vars => ToldInv'
<1> SUFFICES ASSUME TypeOK, ToldInv, [Next]_vars PROVE ToldInv'
  OBVIOUS
<1>1. CASE UNCHANGED <<monitorVars, told, lockState, sessionState>>
  BY <1>1 DEF ToldInv, MonitorsUpToDate, monitorVars
<1>2. ASSUME NEW m \in Monitor, CreateMonitor(m) PROVE ToldInv'
  BY <1>2 DEF ToldInv, MonitorsUpToDate, CreateMonitor, portalVars
<1>3. ASSUME NEW m \in Monitor, InitialState(m) PROVE ToldInv'
  BY <1>3 DEF ToldInv, MonitorsUpToDate, TypeOK, InitialState, UpdateState, portalVars
<1>4. ASSUME NEW some \in SUBSET monitors, CloseAll(some) PROVE ToldInv'
  BY <1>4 DEF ToldInv, MonitorsUpToDate, TypeOK, CloseAll
<1>5. ASSUME NEW locked \in BOOLEAN, LockScreenStateChanged(locked) PROVE ToldInv'
  BY <1>5 DEF ToldInv, MonitorsUpToDate, TypeOK, LockScreenStateChanged, UpdateState,
              monitorVars, portalVars
<1>6. CASE QueryCanEndSession \/ EndSession
  BY <1>6 DEF ToldInv, MonitorsUpToDate, TypeOK, QueryCanEndSession, EndSession,
              UpdateState, monitorVars
<1>7. ASSUME NEW m \in Monitor, CloseMonitor(m) PROVE ToldInv'
  BY <1>4, <1>7 DEF CloseMonitor
<1>8. CASE FrontendVanishes
  BY <1>4, <1>8 DEF FrontendVanishes
<1> QED
  BY <1>1, <1>2, <1>3, <1>5, <1>6, <1>7, <1>8
     DEF Next, vars, monitorVars, portalVars, historyVars, Inhibit, InhibitArrives, CloseRequest,
         QueryEndResponse, QueryCanShutDownComplete, Tick

\* No open monitor has missed a change of the session's or the lock's state,
\* whenever it was created and whatever was told to others.
THEOREM NoMissedStateChange == Spec => []MonitorsUpToDate
<1>1. Init => ToldInv
  BY DEF Init, ToldInv, MonitorsUpToDate
<1>2. ToldInv => MonitorsUpToDate
  BY DEF ToldInv
<1> QED
  BY <1>1, <1>2, ToldStep, TypeCorrect, PTL DEF Spec


-----------------------------------------------------------------------------
(* A query that nothing of earlier queries mixes with.                     *)

\* Nobody who was asked counts as having responded before it has.
AskedAreWaitedFor ==
    \A m \in asked : pending \in owes[m] => m \in waiting

\* As long as a response is missing there is no timer but the one of the query.
DeadlineAlone == waiting # {} => \A t \in timers : t + age = Deadline

\* Every Inhibit call under way arrives before the answer.
PlacedInTime == \A m \in asked : \A p \in placing[m], t \in timers : p < t

\* The inductive invariant behind BlockersHonoured and CleanGraceKept.
FreshInv ==
    /\ pending \in {None, queries}
    /\ \A m \in Monitor \ monitors : owes[m] = {}
    /\ pending # None /\ mixed = "nothing" =>
          /\ \A m \in monitors : owes[m] \subseteq {pending}
          /\ AskedAreWaitedFor
          /\ DeadlineAlone
          /\ PlacedInTime

LEMMA FreshQuery == TypeOK /\ FreshInv /\ QueryCanEndSession => FreshInv'
<1> SUFFICES ASSUME TypeOK, FreshInv, QueryCanEndSession PROVE FreshInv'
  OBVIOUS
<1> USE Durations DEF TypeOK, Query, None
<1>1. \A m \in Monitor \ monitors' : owes'[m] = {}
  BY DEF QueryCanEndSession, FreshInv, monitorVars
<1>2. ASSUME pending' # None, mixed' = "nothing"
      PROVE  /\ \A m \in monitors' : owes'[m] \subseteq {pending'}
             /\ AskedAreWaitedFor'
             /\ DeadlineAlone'
             /\ PlacedInTime'
  <2>1. /\ UNCHANGED <<monitors, placing>> /\ asked' = monitors /\ waiting' = monitors
        /\ pending' = queries' /\ age' = 0 /\ timers' = timers \cup {Deadline}
        /\ \A m \in monitors : owes'[m] = owes[m] \cup {queries'}
    BY <1>2 DEF QueryCanEndSession, AnswerLater, UpdateState, monitorVars
  <2>2. timers = {} /\ \A m \in monitors : owes[m] = {}
    BY <1>2 DEF QueryCanEndSession
  <2>3. \A m \in monitors' : owes'[m] \subseteq {pending'}
    BY <2>1, <2>2
  <2>4. AskedAreWaitedFor'
    BY <2>1 DEF AskedAreWaitedFor
  <2>5. DeadlineAlone'
    BY <2>1, <2>2 DEF DeadlineAlone
  <2>6. PlacedInTime'
    <3>1. Race < Deadline
      BY InhibitPortalAssumption
    <3> QED
      BY <2>1, <2>2, <3>1 DEF PlacedInTime
  <2> QED
    BY <2>3, <2>4, <2>5, <2>6
<1>3. pending' \in {None, queries'}
  BY DEF QueryCanEndSession
<1> QED
  BY <1>1, <1>2, <1>3 DEF FreshInv

LEMMA FreshResponse ==
    ASSUME TypeOK, FreshInv, NEW m \in Monitor, NEW query \in Query, NEW blocks \in BOOLEAN,
           QueryEndResponse(m, query, blocks)
    PROVE  FreshInv'
<1> USE Durations DEF TypeOK, Query, None
<1>1. \A x \in Monitor \ monitors' : owes'[x] = {}
  BY DEF QueryEndResponse, FreshInv, monitorVars
<1>2. ASSUME pending # None, mixed = "nothing"
      PROVE  /\ \A x \in monitors' : owes'[x] \subseteq {pending'}
             /\ AskedAreWaitedFor'
             /\ DeadlineAlone'
             /\ PlacedInTime'
  <2>1. /\ \A x \in monitors : owes[x] \subseteq {pending}
        /\ AskedAreWaitedFor /\ DeadlineAlone /\ PlacedInTime
    BY <1>2 DEF FreshInv
  <2>2. /\ m \in monitors /\ query \in owes[m]
        /\ UNCHANGED <<monitors, pending, asked, age>>
        /\ waiting' = waiting \ {m}
        /\ owes'[m] = owes[m] \ {query} /\ \A x \in Monitor \ {m} : owes'[x] = owes[x]
        /\ placing'[m] = (IF blocks THEN {Race} ELSE placing[m])
        /\ \A x \in Monitor \ {m} : placing'[x] = placing[x]
    BY DEF QueryEndResponse, monitorVars
  <2>3. query = pending
    BY <2>1, <2>2
  <2>4. \A x \in monitors' : owes'[x] \subseteq {pending'}
    BY <2>1, <2>2
  <2>5. AskedAreWaitedFor'
    BY <2>1, <2>2, <2>3 DEF AskedAreWaitedFor
  <2>6. DeadlineAlone'
    BY <2>1, <2>2 DEF DeadlineAlone, QueryEndResponse, AnswerSoon
  <2>7. ASSUME NEW x \in asked, NEW p \in placing'[x], NEW t \in timers'
        PROVE  p < t
    <3>1. t \in timers \/ t = Settle
      BY DEF QueryEndResponse, AnswerSoon
    <3>2. p \in 0..Race
      BY <2>2
    <3>3. Race < Settle
      BY InhibitPortalAssumption
    <3>4. CASE x = m /\ blocks
      <4>1. p = Race /\ age <= Grace
        BY <2>2, <3>4 DEF QueryEndResponse
      <4>2. waiting # {}
        BY <2>1, <2>2, <2>3, <3>4 DEF AskedAreWaitedFor
      <4>3. ASSUME t \in timers
            PROVE  Race < t
        <5>1. t + age = Deadline /\ t \in 0..Deadline
          BY <2>1, <4>2, <4>3 DEF DeadlineAlone
        <5>2. Grace + Race < Deadline
          BY InhibitPortalAssumption
        <5> QED
          BY <4>1, <5>1, <5>2
      <4> QED
        BY <3>1, <3>3, <4>1, <4>3
    <3>5. CASE ~(x = m /\ blocks)
      <4>1. p \in placing[x]
        BY <2>2, <3>5
      <4>2. t \in timers => p < t
        BY <2>1, <4>1 DEF PlacedInTime
      <4> QED
        BY <3>1, <3>2, <3>3, <4>2
    <3> QED
      BY <3>4, <3>5
  <2>8. PlacedInTime'
    BY <2>2, <2>7 DEF PlacedInTime
  <2> QED
    BY <2>4, <2>5, <2>6, <2>8
<1>3. UNCHANGED <<pending, queries, mixed>>
  BY DEF QueryEndResponse
<1> QED
  BY <1>1, <1>2, <1>3 DEF FreshInv

LEMMA FreshStep == TypeOK /\ FreshInv /\ [Next]_vars => FreshInv'
<1> SUFFICES ASSUME TypeOK, FreshInv, [Next]_vars PROVE FreshInv'
  OBVIOUS
<1> USE Durations DEF TypeOK, Query, None
<1>1. CASE UNCHANGED <<monitors, waiting, pending, queries, timers, age, owes, placing, asked,
                       mixed>>
  BY <1>1 DEF FreshInv, AskedAreWaitedFor, DeadlineAlone, PlacedInTime
<1>2. ASSUME NEW m \in Monitor, CreateMonitor(m) PROVE FreshInv'
  <2>1. UNCHANGED <<waiting, pending, queries, timers, age, owes, placing, asked, mixed>>
    BY <1>2 DEF CreateMonitor, monitorVars, portalVars, historyVars
  <2>2. monitors' = monitors \cup {m} /\ m \notin monitors
    BY <1>2 DEF CreateMonitor
  <2> QED
    BY <2>1, <2>2 DEF FreshInv, AskedAreWaitedFor, DeadlineAlone, PlacedInTime
<1>3. ASSUME NEW m \in Monitor, InitialState(m) PROVE FreshInv'
  <2>1. /\ UNCHANGED <<monitors, waiting, pending, queries, timers, age, placing, asked,
                        mixed>>
        /\ owes'[m] \subseteq owes[m] \cup {queries}
        /\ m \in asked => owes'[m] = owes[m]
        /\ \A x \in Monitor \ {m} : owes'[x] = owes[x]
    BY <1>3 DEF InitialState, LearnsOfQuery, portalVars, historyVars
  <2>2. m \in monitors
    BY <1>3 DEF InitialState
  <2>3. AskedAreWaitedFor => AskedAreWaitedFor'
    BY <2>1 DEF AskedAreWaitedFor
  <2>4. pending # None => owes'[m] \subseteq owes[m] \cup {pending}
    BY <2>1 DEF FreshInv
  <2> QED
    BY <2>1, <2>2, <2>3, <2>4 DEF FreshInv, DeadlineAlone, PlacedInTime
<1>4. ASSUME NEW some \in SUBSET Monitor, CloseAll(some) PROVE FreshInv'
  <2>1. /\ monitors' = monitors \ some /\ waiting' = waiting \ some
        /\ \A m \in Monitor : owes'[m] = IF m \in some THEN {} ELSE owes[m]
        /\ UNCHANGED <<pending, queries, timers, age, placing, asked, mixed>>
    BY <1>4 DEF CloseAll, historyVars
  <2>2. \A m \in Monitor \ monitors' : owes'[m] = {}
    BY <2>1 DEF FreshInv
  <2>3. AskedAreWaitedFor => AskedAreWaitedFor'
    BY <2>1 DEF AskedAreWaitedFor
  <2>4. DeadlineAlone => DeadlineAlone'
    BY <2>1 DEF DeadlineAlone
  <2> QED
    BY <2>1, <2>2, <2>3, <2>4 DEF FreshInv, PlacedInTime
<1>5. ASSUME NEW locked \in BOOLEAN, LockScreenStateChanged(locked) PROVE FreshInv'
  BY <1>1, <1>5 DEF LockScreenStateChanged, UpdateState, monitorVars, portalVars, historyVars
<1>6. ASSUME NEW m \in Monitor, Inhibit(m) \/ CloseRequest(m)
      PROVE  FreshInv'
  BY <1>1, <1>6 DEF Inhibit, CloseRequest, monitorVars, historyVars
<1>7. ASSUME NEW m \in Monitor, InhibitArrives(m) PROVE FreshInv'
  <2>1. /\ UNCHANGED <<monitors, waiting, pending, queries, timers, age, owes, asked, mixed>>
        /\ \A x \in Monitor : placing'[x] \subseteq placing[x]
    BY <1>7 DEF InhibitArrives, monitorVars, historyVars
  <2>2. PlacedInTime => PlacedInTime'
    BY <2>1 DEF PlacedInTime
  <2> QED
    BY <2>1, <2>2 DEF FreshInv, AskedAreWaitedFor, DeadlineAlone
<1>8. CASE QueryCanShutDownComplete
  BY <1>8 DEF QueryCanShutDownComplete, FreshInv, monitorVars
<1>9. CASE EndSession
  BY <1>1, <1>9 DEF EndSession, UpdateState, monitorVars, historyVars
<1>10. CASE Tick
  <2>1. /\ UNCHANGED <<monitors, waiting, pending, queries, owes, asked, mixed>>
        /\ timers' = {t - 1 : t \in timers}
        /\ \A m \in Monitor : placing'[m] = {t - 1 : t \in placing[m]}
        /\ age' = IF pending = None \/ age > Deadline THEN age ELSE age + 1
    BY <1>10 DEF Tick, monitorVars, historyVars
  <2>2. AskedAreWaitedFor => AskedAreWaitedFor'
    BY <2>1 DEF AskedAreWaitedFor
  <2>3. pending # None /\ DeadlineAlone => DeadlineAlone'
    BY <2>1 DEF DeadlineAlone
  <2>4. PlacedInTime => PlacedInTime'
    BY <2>1 DEF PlacedInTime
  <2> QED
    BY <2>1, <2>2, <2>3, <2>4 DEF FreshInv
<1>11. CASE UNCHANGED vars
  BY <1>1, <1>11 DEF vars, monitorVars, portalVars, historyVars
<1> QED
  BY <1>2, <1>3, <1>4, <1>5, <1>6, <1>7, <1>8, <1>9, <1>10, <1>11, FreshQuery, FreshResponse
     DEF Next, CloseMonitor, FrontendVanishes

LEMMA FreshInvariant == Spec => [](TypeOK /\ FreshInv)
<1>1. Init => FreshInv
  BY DEF Init, FreshInv, None
<1> QED
  BY <1>1, TypeCorrect, FreshStep, PTL DEF Spec

\* Only a timer that has run out answers the pending query.
LEMMA AnsweredByTimer == TypeOK /\ [Next]_vars /\ Answered => 0 \in timers
<1> SUFFICES ASSUME TypeOK, [Next]_vars, Answered PROVE 0 \in timers
  OBVIOUS
<1>1. ~QueryCanEndSession
  BY Durations DEF QueryCanEndSession, Answered, TypeOK
<1>2. pending' # pending
  BY DEF Answered
<1> QED
  BY <1>1, <1>2
     DEF Next, vars, monitorVars, portalVars, historyVars, CreateMonitor, InitialState, CloseMonitor,
         FrontendVanishes, CloseAll, LockScreenStateChanged, Inhibit, InhibitArrives,
         CloseRequest, QueryEndResponse, QueryCanShutDownComplete, EndSession, Tick

\* No query that earlier ones do not mix with is answered "can end" while a
\* blocker is being placed by an application it was put to: for any durations
\* with Race < Settle and Grace + Race < Deadline.
THEOREM BlockersAreHonoured == Spec => BlockersHonoured
<1>1. TypeOK /\ FreshInv /\ [Next]_vars =>
         [Answered /\ mixed = "nothing" /\ CanEnd => \A m \in asked : placing[m] = {}]_vars
  <2> SUFFICES ASSUME TypeOK, FreshInv, [Next]_vars, Answered, mixed = "nothing", NEW m \in asked
               PROVE  placing[m] = {}
    OBVIOUS
  <2>1. 0 \in timers
    BY AnsweredByTimer
  <2>2. PlacedInTime
    BY DEF FreshInv, Answered
  <2>3. placing[m] \subseteq 0..Race
    BY DEF TypeOK
  <2>4. \A p \in placing[m] : p < 0
    BY <2>1, <2>2 DEF PlacedInTime
  <2> QED
    BY <2>3, <2>4, Durations
<1> QED
  BY <1>1, FreshInvariant, PTL DEF Spec, BlockersHonoured

\* No query that earlier ones do not mix with is answered within the second of
\* an application it was put to and that has still to respond.
THEOREM GraceIsKept == Spec => CleanGraceKept
<1>1. TypeOK /\ FreshInv /\ [Next]_vars =>
         [Answered /\ mixed = "nothing" /\ SomeoneResponds => age >= Grace]_vars
  <2> SUFFICES ASSUME TypeOK, FreshInv, [Next]_vars, Answered, mixed = "nothing", SomeoneResponds
               PROVE  age >= Grace
    OBVIOUS
  <2>1. 0 \in timers
    BY AnsweredByTimer
  <2>2. AskedAreWaitedFor /\ DeadlineAlone
    BY DEF FreshInv, Answered
  <2>3. waiting # {}
    BY <2>2 DEF SomeoneResponds, AskedAreWaitedFor
  <2>4. 0 + age = Deadline
    BY <2>1, <2>2, <2>3 DEF DeadlineAlone
  <2>5. Grace <= Deadline
    BY InhibitPortalAssumption
  <2> QED
    BY <2>4, <2>5, Durations DEF TypeOK
<1> QED
  BY <1>1, FreshInvariant, PTL DEF Spec, CleanGraceKept

=============================================================================
