------------------------------ MODULE Inhibition ------------------------------
(***************************************************************************)
(* The inhibitions the portal takes out for others: InhibitionRequest      *)
(* (src/src/inhibit.cpp) with the power management, as long as a request   *)
(* of the Inhibit portal lives, and NotificationInhibition                 *)
(* (src/src/notificationinhibition.cpp) with the notification service, as  *)
(* long as a session that shares the screen lives.                         *)
(*                                                                         *)
(* Both ask by an asynchronous D-Bus call whose reply holds a cookie, and  *)
(* give the cookie back when they are destroyed.  The object may be        *)
(* destroyed before the reply, and the call may time out before the        *)
(* service gets to it.  The services are external; they are not restarted. *)
(***************************************************************************)
EXTENDS Integers

CONSTANTS
    Inhibitor,  \* the objects that are created
    Power,      \* those that are an InhibitionRequest
    Cookie      \* the cookies services give out

ASSUME InhibitionAssumption ==
    /\ Power \subseteq Inhibitor
    /\ Cookie \subseteq Nat

NoCookie == -1

VARIABLES
    object,    \* object[i]: "none", "alive" or "deleted"
    cookie,    \* cookie[i]: m_inhibitionId or m_cookie
    waits,     \* waits[i]: the QDBusPendingCallWatcher has not finished
    call,      \* call[i]: "none", "queued" at the service, "granted" or "refused"
    answer,    \* answer[i]: the cookie in the reply
    held,      \* held[i]: the cookie under which the service inhibits for i
    releases,  \* <<service, cookie>>: ReleaseInhibition and UnInhibit calls
               \* under way
    expired    \* history: the call of i timed out and was still carried out

vars == <<object, cookie, waits, call, answer, held, releases, expired>>

-----------------------------------------------------------------------------
\* The service i asks.  A NotificationInhibition takes 0 for no cookie, and the
\* notification service never gives it out.
Service(i) == IF i \in Power THEN "power" ELSE "notifications"
Cookies(i) == IF i \in Power THEN Cookie ELSE Cookie \ {0}

\* What m_inhibitionId (std::optional) and m_cookie (uint) hold without one.
Empty(i) == IF i \in Power THEN NoCookie ELSE 0

Init ==
    /\ object = [i \in Inhibitor |-> "none"]
    /\ cookie = [i \in Inhibitor |-> Empty(i)]
    /\ waits = [i \in Inhibitor |-> FALSE]
    /\ call = [i \in Inhibitor |-> "none"]
    /\ answer = [i \in Inhibitor |-> NoCookie]
    /\ held = [i \in Inhibitor |-> NoCookie]
    /\ releases = {}
    /\ expired = {}

-----------------------------------------------------------------------------
\* The constructors.
Create(i) ==
    /\ object[i] = "none"
    /\ object' = [object EXCEPT ![i] = "alive"]
    /\ waits' = [waits EXCEPT ![i] = TRUE]
    /\ call' = [call EXCEPT ![i] = "queued"]
    /\ UNCHANGED <<cookie, answer, held, releases, expired>>

ReleaseInhibition(i, c) == releases' = releases \cup {<<Service(i), c>>}

\* Fault: m_inhibitionId is a uint that is always released.
DestroyAlwaysReleasing(i) ==
    /\ object[i] = "alive"
    /\ object' = [object EXCEPT ![i] = "deleted"]
    /\ ReleaseInhibition(i, IF cookie[i] = NoCookie THEN 0 ELSE cookie[i])
    /\ UNCHANGED <<cookie, waits, call, answer, held, expired>>

\* The destructors.
Destroy(i) ==
    /\ object[i] = "alive"
    /\ object' = [object EXCEPT ![i] = "deleted"]
    /\ IF cookie[i] = Empty(i)
         THEN UNCHANGED releases
         ELSE ReleaseInhibition(i, cookie[i])
    /\ UNCHANGED <<cookie, waits, call, answer, held, expired>>

\* Faults: the cookie of an object that has gone is dropped; the value of an
\* error, which is no cookie, is kept.
AnsweredIgnoringGone(i) ==
    /\ waits[i]
    /\ call[i] \in {"granted", "refused"}
    /\ waits' = [waits EXCEPT ![i] = FALSE]
    /\ cookie' = IF call[i] = "granted" /\ object[i] = "alive"
                   THEN [cookie EXCEPT ![i] = answer[i]] ELSE cookie
    /\ UNCHANGED <<object, call, answer, held, releases, expired>>

AnsweredUnchecked(i) ==
    /\ waits[i]
    /\ call[i] \in {"granted", "refused"}
    /\ waits' = [waits EXCEPT ![i] = FALSE]
    /\ cookie' = [cookie EXCEPT ![i] = answer[i]]
    /\ UNCHANGED <<object, call, answer, held, releases, expired>>

\* The watcher's finished.
Answered(i) ==
    /\ waits[i]
    /\ call[i] \in {"granted", "refused"}
    /\ waits' = [waits EXCEPT ![i] = FALSE]
    /\ \/ call[i] = "refused" /\ UNCHANGED <<cookie, releases>>
       \/ /\ call[i] = "granted"
          /\ object[i] = "alive"
          /\ cookie' = [cookie EXCEPT ![i] = answer[i]]
          /\ UNCHANGED releases
       \/ /\ call[i] = "granted"
          /\ object[i] = "deleted"
          /\ ReleaseInhibition(i, answer[i])
          /\ UNCHANGED cookie
    /\ UNCHANGED <<object, call, answer, held, expired>>

\* finished with an error, although the service will carry out the call or has:
\* a late reply reaches nobody.
TimesOut(i) ==
    /\ waits[i]
    /\ waits' = [waits EXCEPT ![i] = FALSE]
    /\ expired' = expired \cup {i}
    /\ UNCHANGED <<object, cookie, call, answer, held, releases>>

-----------------------------------------------------------------------------
(* The services.                                                           *)

Grant(i) ==
    /\ call[i] = "queued"
    /\ \E c \in Cookies(i) :
         /\ \A j \in Inhibitor : Service(j) = Service(i) => held[j] # c
         /\ held' = [held EXCEPT ![i] = c]
         /\ answer' = [answer EXCEPT ![i] = c]
    /\ call' = [call EXCEPT ![i] = "granted"]
    /\ UNCHANGED <<object, cookie, waits, releases, expired>>

Refuse(i) ==
    /\ call[i] = "queued"
    /\ call' = [call EXCEPT ![i] = "refused"]
    /\ UNCHANGED <<object, cookie, waits, answer, held, releases, expired>>

Release ==
    \E m \in releases :
        /\ releases' = releases \ {m}
        /\ held' = [i \in Inhibitor |->
                      IF m = <<Service(i), held[i]>> THEN NoCookie ELSE held[i]]
        /\ UNCHANGED <<object, cookie, waits, call, answer, expired>>

Next ==
    \/ \E i \in Inhibitor :
          \/ Create(i) \/ Destroy(i)
          \/ Answered(i) \/ TimesOut(i)
          \/ Grant(i) \/ Refuse(i)
    \/ Release

Spec == Init /\ [][Next]_vars

\* The services answer, the portal's event loop runs.
Fairness ==
    /\ \A i \in Inhibitor : WF_vars(Grant(i) \/ Refuse(i)) /\ WF_vars(Answered(i))
    /\ WF_vars(Release)

FairSpec == Spec /\ Fairness

-----------------------------------------------------------------------------
\* The variables have their types.
TypeOK ==
    /\ object \in [Inhibitor -> {"none", "alive", "deleted"}]
    /\ cookie \in [Inhibitor -> Cookie \cup {NoCookie, 0}]
    /\ \A i \in Inhibitor : cookie[i] \in Cookies(i) \cup {Empty(i)}
    /\ waits \in [Inhibitor -> BOOLEAN]
    /\ call \in [Inhibitor -> {"none", "queued", "granted", "refused"}]
    /\ answer \in [Inhibitor -> Cookie \cup {NoCookie}]
    /\ held \in [Inhibitor -> Cookie \cup {NoCookie}]
    /\ releases \subseteq {"power", "notifications"} \X Cookie
    /\ expired \subseteq Inhibitor

\* In terms of InhibitionPromise.
Wish == [i \in Inhibitor |->
           CASE object[i] = "none" -> "none"
             [] object[i] = "alive" -> "wanted"
             [] OTHER -> "dropped"]

Inhibited == {i \in Inhibitor : held[i] # NoCookie}

Lifted == {i \in Inhibitor : answer[i] # NoCookie /\ held[i] = NoCookie}

Promise == INSTANCE InhibitionPromise
             WITH wish <- Wish, inhibited <- Inhibited, lifted <- Lifted

\* What an object inhibits is lifted by nobody while it lives, although every
\* release only names a cookie and services may give a cookie out again, and
\* although destructors, replies and releases come in any order.
PromiseKept == Promise!Spec

\* An object that is destroyed, before the reply or after, leaves nothing
\* inhibited, unless its call timed out.
InhibitionsEnd ==
    \A i \in Inhibitor :
        <>[](object[i] = "deleted" => held[i] = NoCookie \/ i \in expired)

=============================================================================
