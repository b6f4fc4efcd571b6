--------------------------- MODULE InhibitPortal ---------------------------
(***************************************************************************)
(* The session-end side of the Inhibit portal (src/src/inhibit.cpp): the   *)
(* shutdown process asks whether the desktop session can end, the portal   *)
(* tells the applications that monitor the session, and answers when they  *)
(* have responded or a timer runs out.  The QTimer::singleShot timers are  *)
(* never cancelled.                                                        *)
(*                                                                         *)
(* Time passes in ticks; a timer is the number of ticks left, and fires    *)
(* before time goes on.  The applications and the frontend that forwards   *)
(* their calls are external.                                               *)
(***************************************************************************)
EXTENDS Integers, FiniteSets

CONSTANTS
    Monitor,    \* session handles of CreateMonitor, never used twice; also
                \* names the application's request that blocks logout
    Settle,     \* the 100 ms given to blockers that are still being placed
    Grace,      \* the second within which applications respond
    Deadline,   \* the 1500 ms after which a query is answered anyway
    Race,       \* the longest time an Inhibit call takes longer than the
                \* QueryEndResponse sent with it
    MaxQueries  \* bound: number of calls of queryCanEndSession

ASSUME InhibitPortalAssumption ==
    /\ {Settle, Grace, Deadline, Race, MaxQueries} \subseteq Nat
    /\ Race < Settle
    /\ Settle <= Deadline
    /\ Grace + Race < Deadline

\* m_sessionState
SessionState == {"Running", "QueryEnd", "Ending"}

\* What mixes with a query: an earlier query it overwrote, or the timers and
\* late responses an earlier query left behind.
Mixed == {"nothing", "leftovers", "query"}

Query == 1..MaxQueries
None == 0

VARIABLES
    monitors,     \* the keys of m_monitors
    ended,        \* sessions that were closed
    starting,     \* the monitors whose first StateChanged is left to a timer
    waiting,      \* the monitors with m_waitingForResponse
    told,         \* told[m]: the last StateChanged m got, <<>> if none
    lockState,    \* m_lockState is LockScreenActive
    sessionState, \* m_sessionState
    blockers,     \* the keys of m_appsBlockingLogout
    pending,      \* the query in m_pendingCanShutDownReply, or None
    timers,       \* ticks left of the timers of queryCanShutDownComplete
    queries,      \* number of queries so far
    age,          \* ticks since the pending query was asked
    owes,         \* owes[m]: the queries m was told of and has not responded to
    placing,      \* placing[m]: {ticks left} of an Inhibit call under way
    asked,        \* history: the monitors there were when pending was asked
    responded,    \* history: those of asked that responded to pending
    mixed         \* history: what of earlier queries mixes with pending

portalVars == <<waiting, sessionState, blockers, pending, timers, queries>>
historyVars == <<asked, responded, mixed>>
monitorVars == <<monitors, ended, starting>>
vars == <<monitorVars, told, lockState, portalVars, age, owes, placing, historyVars>>

-----------------------------------------------------------------------------
Init ==
    /\ monitors = {}
    /\ ended = {}
    /\ starting = {}
    /\ waiting = {}
    /\ told = [m \in Monitor |-> <<>>]
    /\ lockState = FALSE
    /\ sessionState = "Running"
    /\ blockers = {}
    /\ pending = None
    /\ timers = {}
    /\ queries = 0
    /\ age = 0
    /\ owes = [m \in Monitor |-> {}]
    /\ placing = [m \in Monitor |-> {}]
    /\ asked = {}
    /\ responded = {}
    /\ mixed = "nothing"

\* The reply to a query.
CanEnd == blockers = {}

\* updateState: StateChanged to every monitor of some.
UpdateState(some, lock, session) ==
    told' = [m \in Monitor |-> IF m \in some THEN <<lock, session>> ELSE told[m]]

-----------------------------------------------------------------------------
(* Monitors and their sessions.                                            *)

\* The first StateChanged is left to a timer of 0 ms.
CreateMonitor(m) ==
    /\ m \notin monitors \cup ended
    /\ monitors' = monitors \cup {m}
    /\ starting' = starting \cup {m}
    /\ UNCHANGED <<ended, told, lockState, portalVars, age, owes, placing, historyVars>>

\* A monitor that learns of a query that way responds to it, but the portal does
\* not wait for it; one that was asked responds once, however often it is told.
LearnsOfQuery(m) ==
    owes' = [owes EXCEPT ![m] = @ \cup
               {q \in Query : q = queries /\ sessionState = "QueryEnd" /\ m \notin asked}]

\* Fault: the timer was given the state there was before.
InitialStateOfThen(m) ==
    /\ m \in starting
    /\ starting' = starting \ {m}
    /\ UpdateState({m}, FALSE, "Running")
    /\ UNCHANGED <<monitors, ended, lockState, portalVars, age, owes, placing,
                   historyVars>>

\* The timer fires whatever m has been told since, and reads the state then.
InitialState(m) ==
    /\ m \in starting
    /\ starting' = starting \ {m}
    /\ UpdateState({m}, lockState, sessionState)
    /\ LearnsOfQuery(m)
    /\ UNCHANGED <<monitors, ended, lockState, portalVars, age, placing, historyVars>>

\* Session::closed takes a session out of m_monitors; it decides nothing.  The
\* session is the context of its timer, which dies with it.
CloseAll(some) ==
    /\ monitors' = monitors \ some
    /\ ended' = ended \cup some
    /\ starting' = starting \ some
    /\ waiting' = waiting \ some
    /\ owes' = [m \in Monitor |-> IF m \in some THEN {} ELSE owes[m]]
    /\ UNCHANGED <<told, lockState, sessionState, blockers, pending, timers, queries,
                   age, placing, historyVars>>

CloseMonitor(m) ==
    /\ m \in monitors
    /\ CloseAll({m})

\* Session::closeAll, when the portal frontend disappears.
FrontendVanishes ==
    /\ monitors # {}
    /\ CloseAll(monitors)

LockScreenStateChanged(locked) ==
    /\ locked # lockState
    /\ lockState' = locked
    /\ UpdateState(monitors, locked, sessionState)
    /\ UNCHANGED <<monitorVars, portalVars, age, owes, placing, historyVars>>

-----------------------------------------------------------------------------
(* Applications that block logout.                                         *)

\* Inhibit with flag 1, called for reasons of the application's own.
Inhibit(m) ==
    /\ m \notin blockers
    /\ placing[m] = {}
    /\ blockers' = blockers \cup {m}
    /\ UNCHANGED <<monitorVars, waiting, told, lockState, sessionState, pending,
                   timers, queries, age, owes, placing, historyVars>>

\* The Inhibit call an application sent together with its response.
InhibitArrives(m) ==
    /\ placing[m] # {}
    /\ blockers' = blockers \cup {m}
    /\ placing' = [placing EXCEPT ![m] = {}]
    /\ UNCHANGED <<monitorVars, waiting, told, lockState, sessionState, pending,
                   timers, queries, age, owes, historyVars>>

\* closeRequested of the request removes it.
CloseRequest(m) ==
    /\ m \in blockers
    /\ blockers' = blockers \ {m}
    /\ UNCHANGED <<monitorVars, waiting, told, lockState, sessionState, pending,
                   timers, queries, age, owes, placing, historyVars>>

-----------------------------------------------------------------------------
(* The query.                                                              *)

\* Faults: the test is made before m's own flag is cleared; the last response is
\* answered at once; any response is taken for the last; the timer for silent
\* applications is forgotten, or counts from the end of their second.
AnswerSoonBefore(left) == IF waiting = {} THEN timers \cup {Settle} ELSE timers
AnswerSoonAtOnce(left) == IF left = {} THEN timers \cup {0} ELSE timers
AnswerSoonAny(left) == IF left # monitors THEN timers \cup {Settle} ELSE timers
AnswerLaterNever == timers
AnswerLaterThanGrace == timers \cup {Grace + Deadline}

\* The last response leaves some time to applications that are still placing
\* blockers; left: the monitors that still have to respond.
AnswerSoon(left) == IF left = {} THEN timers \cup {Settle} ELSE timers

\* Applications that never respond are waited for no longer than Deadline.
AnswerLater == timers \cup {Deadline}

\* A pending query is overwritten: it never gets a reply.
QueryCanEndSession ==
    /\ queries < MaxQueries
    /\ queries' = queries + 1
    /\ sessionState' = "QueryEnd"
    /\ UpdateState(monitors, lockState, "QueryEnd")
    /\ owes' = [m \in Monitor |-> IF m \in monitors THEN owes[m] \cup {queries'} ELSE owes[m]]
    /\ waiting' = monitors
    /\ age' = 0
    /\ IF monitors = {}
       THEN /\ pending' = None
            /\ UNCHANGED timers
       ELSE /\ pending' = queries'
            /\ timers' = AnswerLater
    /\ asked' = monitors
    /\ responded' = {}
    /\ mixed' = CASE pending # None -> "query"
                  [] pending = None /\ (timers # {} \/ \E m \in monitors : owes[m] # {})
                       -> "leftovers"
                  [] OTHER -> "nothing"
    /\ UNCHANGED <<monitorVars, lockState, blockers, placing>>

\* The call names no query: whichever StateChanged the application responds to,
\* it counts for the pending one.  blocks: the application sends Inhibit too;
\* one that means to block the pending query responds within Grace.
QueryEndResponse(m, query, blocks) ==
    /\ m \in monitors
    /\ query \in owes[m]
    /\ blocks => /\ query = pending /\ age <= Grace
                 /\ m \notin blockers /\ placing[m] = {}
    /\ owes' = [owes EXCEPT ![m] = @ \ {query}]
    /\ waiting' = waiting \ {m}
    /\ timers' = AnswerSoon(waiting')
    /\ placing' = [placing EXCEPT ![m] = IF blocks THEN {Race} ELSE @]
    /\ responded' = IF query = pending THEN responded \cup (asked \cap {m}) ELSE responded
    /\ UNCHANGED <<monitorVars, told, lockState, sessionState, blockers, pending,
                   queries, age, asked, mixed>>

\* A timer fires: it answers whatever query is pending by then.
QueryCanShutDownComplete ==
    /\ 0 \in timers
    /\ timers' = timers \ {0}
    /\ pending' = None
    /\ age' = 0
    /\ asked' = {}
    /\ responded' = {}
    /\ mixed' = "nothing"
    /\ UNCHANGED <<monitorVars, waiting, told, lockState, sessionState, blockers,
                   queries, owes, placing>>

EndSession ==
    /\ sessionState # "Ending"  \* the call is idempotent
    /\ sessionState' = "Ending"
    /\ UpdateState(monitors, lockState, "Ending")
    /\ UNCHANGED <<monitorVars, waiting, lockState, blockers, pending, timers,
                   queries, age, owes, placing, historyVars>>

-----------------------------------------------------------------------------
\* Time goes on once nothing is due: timers of 0 ms, timers that ran out,
\* Inhibit calls that have taken Race ticks.
Tick ==
    /\ 0 \notin timers
    /\ starting = {}
    /\ \A m \in Monitor : 0 \notin placing[m]
    /\ timers # {} \/ pending # None  \* bound: otherwise nothing counts
    /\ timers' = {t - 1 : t \in timers}
    /\ placing' = [m \in Monitor |-> {t - 1 : t \in placing[m]}]
    /\ age' = IF pending = None \/ age > Deadline THEN age ELSE age + 1
    /\ UNCHANGED <<monitorVars, told, lockState, waiting, sessionState, blockers,
                   pending, queries, owes, historyVars>>

Next ==
    \/ \E m \in Monitor :
          \/ CreateMonitor(m) \/ InitialState(m) \/ CloseMonitor(m)
          \/ Inhibit(m) \/ InhibitArrives(m) \/ CloseRequest(m)
          \/ \E query \in Query, blocks \in BOOLEAN :
                QueryEndResponse(m, query, blocks)
    \/ \E locked \in BOOLEAN : LockScreenStateChanged(locked)
    \/ FrontendVanishes
    \/ QueryCanEndSession \/ QueryCanShutDownComplete \/ EndSession
    \/ Tick

Spec == Init /\ [][Next]_vars

\* Time passes, timers fire, and calls under way arrive.  No application has
\* to respond.
Fairness ==
    /\ WF_vars(Tick)
    /\ WF_vars(QueryCanShutDownComplete)
    /\ \A m \in Monitor : WF_vars(InitialState(m)) /\ WF_vars(InhibitArrives(m))

FairSpec == Spec /\ Fairness

-----------------------------------------------------------------------------
(* Properties.                                                             *)

\* Every variable holds a value of its kind.
TypeOK ==
    /\ monitors \subseteq Monitor
    /\ ended \subseteq Monitor
    /\ starting \subseteq monitors
    /\ waiting \subseteq Monitor
    /\ told \in [Monitor -> {<<>>} \cup (BOOLEAN \X SessionState)]
    /\ lockState \in BOOLEAN
    /\ sessionState \in SessionState
    /\ blockers \subseteq Monitor
    /\ pending \in Query \cup {None}
    /\ timers \subseteq 0..Deadline
    /\ queries \in 0..MaxQueries
    /\ age \in Nat
    /\ owes \in [Monitor -> SUBSET Query]
    /\ placing \in [Monitor -> SUBSET (0..Race)]
    /\ asked \subseteq Monitor
    /\ responded \subseteq Monitor
    /\ mixed \in Mixed

WithinDeadline == pending # None => \E t \in timers : age + t <= Deadline

ResponsesShortenWait ==
    pending # None /\ asked # {} /\ asked \subseteq responded
        => \E t \in timers : t <= Settle

\* A pending query has a timer that answers it Deadline ticks after it was
\* asked at the latest, whatever applications respond, stay silent or go away
\* and however queries overlap; and once every application that was asked has
\* responded, and none of them has gone away, the answer is at most Settle ticks
\* away.
AnsweredInTime == WithinDeadline /\ ResponsesShortenWait

\* What an open monitor was told last is the present state of the session and
\* of the screen lock, and one that was told nothing yet has its timer still to
\* come: whichever of the timer, queries, lock screens and the end of the
\* session speaks first, none is missed and none is undone by the timer.
MonitorsUpToDate ==
    \A m \in monitors :
        \/ told[m] = <<lockState, sessionState>>
        \/ told[m] = <<>> /\ m \in starting

\* The pending query gets its reply; it is not overwritten.
Answered == pending # None /\ pending' = None /\ queries' = queries

\* A query that nothing of earlier queries mixes with is not answered with
\* "can end" while an Inhibit call is under way that an application sent with
\* its response (the race named in QueryEndResponse), for every application
\* the query was put to.
BlockersHonoured ==
    [][Answered /\ mixed = "nothing" /\ CanEnd => \A m \in asked : placing[m] = {}]_vars

\* An application the query was put to has still to respond.
SomeoneResponds == \E m \in monitors \cap asked : pending \in owes[m]

\* The same query does not end while an application that was asked is within
\* its second to respond.
CleanGraceKept == 
    [][Answered /\ mixed = "nothing" /\ SomeoneResponds => age >= Grace]_vars

\* A query is answered or overwritten by a later one; none is left pending.
QueriesEnd == \A q \in Query : pending = q ~> pending # q

\* "apps are meant to reply in 1 second, if an app gets stuck and fails to
\* respond, reply to our query anyway" (inhibit.cpp:260): no query ends while
\* an application that was asked is within its second.  Queries that overlap
\* are left out: queryCanEndSession warns that they "may skip clients".
GraceKept ==
    [][Answered /\ mixed # "query" /\ SomeoneResponds => age >= Grace]_vars

=============================================================================
