--------------------------- MODULE InhibitionProofs ---------------------------
(* Theorems about Inhibition: its type invariant, and that it implements   *)
(* InhibitionPromise.                                                      *)
EXTENDS Inhibition, TLAPS

\* A service gives out cookies that are Cookies, none of them NoCookie.
LEMMA CookiesAreCookies ==
    ASSUME NEW i \in Inhibitor
    PROVE  /\ Cookies(i) \subseteq Cookie
           /\ NoCookie \notin Cookie
           /\ Empty(i) \notin Cookies(i)
           /\ Empty(i) \in {NoCookie, 0}
           /\ Service(i) \in {"power", "notifications"}
BY InhibitionAssumption DEF Cookies, Empty, NoCookie, Service

-----------------------------------------------------------------------------
\* Answers under way, cookies and releases name what the service holds.
Named ==
    /\ \A i \in Inhibitor :
         held[i] # NoCookie => held[i] = answer[i] /\ object[i] # "none"
    /\ \A i \in Inhibitor :
         /\ answer[i] = NoCookie <=> call[i] # "granted"
         /\ answer[i] # NoCookie => answer[i] \in Cookies(i)
         /\ object[i] = "none" <=> call[i] = "none"
         /\ object[i] = "none" => ~waits[i]

\* Within a service no two hold the same cookie.
Unique ==
    \A i, j \in Inhibitor :
        Service(i) = Service(j) /\ held[i] = held[j] /\ held[i] # NoCookie => i = j

\* As long as an object lives, or the watcher waits, what was granted is held.
Kept ==
    \A i \in Inhibitor :
        call[i] = "granted" /\ (object[i] = "alive" \/ waits[i]) => held[i] = answer[i]

\* A cookie that an object has is the one that was granted.
Owned ==
    \A i \in Inhibitor :
        cookie[i] # Empty(i) => call[i] = "granted" /\ cookie[i] = answer[i] /\ ~waits[i]

\* A release names the inhibition of an object that is gone.
ReleasedByOwner ==
    \A m \in releases :
        \E i \in Inhibitor :
            /\ m = <<Service(i), held[i]>>
            /\ held[i] # NoCookie
            /\ object[i] = "deleted"
            /\ ~waits[i]

IInv == TypeOK /\ Named /\ Unique /\ Kept /\ Owned /\ ReleasedByOwner

-----------------------------------------------------------------------------
LEMMA InitIInv == Init => IInv
BY CookiesAreCookies
   DEF Init, IInv, TypeOK, Named, Unique, Kept, Owned, ReleasedByOwner

LEMMA TypeStep ==
    ASSUME IInv, [Next]_vars
    PROVE  TypeOK'
<1> USE DEF IInv, TypeOK, ReleaseInhibition
<1>1. ASSUME NEW i \in Inhibitor, Create(i) PROVE TypeOK'
  BY <1>1, CookiesAreCookies DEF Create
<1>2. ASSUME NEW i \in Inhibitor, Destroy(i) PROVE TypeOK'
  BY <1>2, CookiesAreCookies DEF Destroy, Named
<1>3. ASSUME NEW i \in Inhibitor, Answered(i) PROVE TypeOK'
  BY <1>3, CookiesAreCookies DEF Answered, Named
<1>4. ASSUME NEW i \in Inhibitor, TimesOut(i) PROVE TypeOK'
  BY <1>4, CookiesAreCookies DEF TimesOut
<1>5. ASSUME NEW i \in Inhibitor, Grant(i) PROVE TypeOK'
  BY <1>5, CookiesAreCookies DEF Grant
<1>6. ASSUME NEW i \in Inhibitor, Refuse(i) PROVE TypeOK'
  BY <1>6, CookiesAreCookies DEF Refuse
<1>7. CASE Release
  BY <1>7 DEF Release
<1>8. CASE UNCHANGED vars
  BY <1>8 DEF vars
<1>9. QED
  BY <1>1, <1>2, <1>3, <1>4, <1>5, <1>6, <1>7, <1>8 DEF Next

LEMMA NamedStep ==
    ASSUME IInv, [Next]_vars
    PROVE  Named'
<1> USE DEF IInv, TypeOK, Named, ReleaseInhibition
<1>1. ASSUME NEW i \in Inhibitor, Create(i) PROVE Named'
  BY <1>1, CookiesAreCookies DEF Create
<1>2. ASSUME NEW i \in Inhibitor, Destroy(i) PROVE Named'
  BY <1>2, CookiesAreCookies DEF Destroy
<1>3. ASSUME NEW i \in Inhibitor, Answered(i) PROVE Named'
  BY <1>3, CookiesAreCookies DEF Answered
<1>4. ASSUME NEW i \in Inhibitor, TimesOut(i) PROVE Named'
  BY <1>4, CookiesAreCookies DEF TimesOut
<1>5. ASSUME NEW i \in Inhibitor, Grant(i) PROVE Named'
  BY <1>5, CookiesAreCookies DEF Grant
<1>6. ASSUME NEW i \in Inhibitor, Refuse(i) PROVE Named'
  BY <1>6, CookiesAreCookies DEF Refuse
<1>7. CASE Release
  BY <1>7, CookiesAreCookies DEF Release
<1>8. CASE UNCHANGED vars
  BY <1>8 DEF vars
<1>9. QED
  BY <1>1, <1>2, <1>3, <1>4, <1>5, <1>6, <1>7, <1>8 DEF Next

LEMMA UniqueStep ==
    ASSUME IInv, [Next]_vars
    PROVE  Unique'
<1> USE DEF IInv, TypeOK, Unique
<1>1. ASSUME NEW i \in Inhibitor, Create(i) PROVE Unique'
  BY <1>1, CookiesAreCookies DEF Create
<1>2. ASSUME NEW i \in Inhibitor, Destroy(i) PROVE Unique'
  BY <1>2, CookiesAreCookies DEF Destroy
<1>3. ASSUME NEW i \in Inhibitor, Answered(i) PROVE Unique'
  BY <1>3, CookiesAreCookies DEF Answered
<1>4. ASSUME NEW i \in Inhibitor, TimesOut(i) PROVE Unique'
  BY <1>4, CookiesAreCookies DEF TimesOut
<1>5. ASSUME NEW i \in Inhibitor, Grant(i) PROVE Unique'
  BY <1>5, CookiesAreCookies DEF Grant
<1>6. ASSUME NEW i \in Inhibitor, Refuse(i) PROVE Unique'
  BY <1>6, CookiesAreCookies DEF Refuse
<1>7. CASE Release
  BY <1>7, CookiesAreCookies DEF Release
<1>8. CASE UNCHANGED vars
  BY <1>8 DEF vars
<1>9. QED
  BY <1>1, <1>2, <1>3, <1>4, <1>5, <1>6, <1>7, <1>8 DEF Next

LEMMA KeptStep ==
    ASSUME IInv, [Next]_vars
    PROVE  Kept'
<1> USE DEF IInv, TypeOK, Named, Kept
<1>1. ASSUME NEW i \in Inhibitor, Create(i) PROVE Kept'
  BY <1>1, CookiesAreCookies DEF Create
<1>2. ASSUME NEW i \in Inhibitor, Destroy(i) PROVE Kept'
  BY <1>2, CookiesAreCookies DEF Destroy
<1>3. ASSUME NEW i \in Inhibitor, Answered(i) PROVE Kept'
  BY <1>3, CookiesAreCookies DEF Answered
<1>4. ASSUME NEW i \in Inhibitor, TimesOut(i) PROVE Kept'
  BY <1>4, CookiesAreCookies DEF TimesOut
<1>5. ASSUME NEW i \in Inhibitor, Grant(i) PROVE Kept'
  BY <1>5, CookiesAreCookies DEF Grant
<1>6. ASSUME NEW i \in Inhibitor, Refuse(i) PROVE Kept'
  BY <1>6, CookiesAreCookies DEF Refuse
<1>7. CASE Release
  BY <1>7, CookiesAreCookies DEF Release, ReleasedByOwner, Unique
<1>8. CASE UNCHANGED vars
  BY <1>8 DEF vars
<1>9. QED
  BY <1>1, <1>2, <1>3, <1>4, <1>5, <1>6, <1>7, <1>8 DEF Next

LEMMA OwnedStep ==
    ASSUME IInv, [Next]_vars
    PROVE  Owned'
<1> USE DEF IInv, TypeOK, Named, Owned
<1>1. ASSUME NEW i \in Inhibitor, Create(i) PROVE Owned'
  BY <1>1, CookiesAreCookies DEF Create
<1>2. ASSUME NEW i \in Inhibitor, Destroy(i) PROVE Owned'
  BY <1>2, CookiesAreCookies DEF Destroy
<1>3. ASSUME NEW i \in Inhibitor, Answered(i) PROVE Owned'
  BY <1>3, CookiesAreCookies DEF Answered
<1>4. ASSUME NEW i \in Inhibitor, TimesOut(i) PROVE Owned'
  BY <1>4, CookiesAreCookies DEF TimesOut
<1>5. ASSUME NEW i \in Inhibitor, Grant(i) PROVE Owned'
  BY <1>5, CookiesAreCookies DEF Grant
<1>6. ASSUME NEW i \in Inhibitor, Refuse(i) PROVE Owned'
  BY <1>6, CookiesAreCookies DEF Refuse
<1>7. CASE Release
  BY <1>7, CookiesAreCookies DEF Release
<1>8. CASE UNCHANGED vars
  BY <1>8 DEF vars
<1>9. QED
  BY <1>1, <1>2, <1>3, <1>4, <1>5, <1>6, <1>7, <1>8 DEF Next

LEMMA ReleasedStep ==
    ASSUME IInv, [Next]_vars
    PROVE  ReleasedByOwner'
<1> USE DEF IInv, TypeOK, Named, Kept, Owned, ReleasedByOwner, ReleaseInhibition
<1>1. ASSUME NEW i \in Inhibitor, Create(i) PROVE ReleasedByOwner'
  BY <1>1, CookiesAreCookies DEF Create
<1>2. ASSUME NEW i \in Inhibitor, Destroy(i) PROVE ReleasedByOwner'
  BY <1>2, CookiesAreCookies DEF Destroy
<1>3. ASSUME NEW i \in Inhibitor, Answered(i) PROVE ReleasedByOwner'
  BY <1>3, CookiesAreCookies DEF Answered
<1>4. ASSUME NEW i \in Inhibitor, TimesOut(i) PROVE ReleasedByOwner'
  BY <1>4, CookiesAreCookies DEF TimesOut
<1>5. ASSUME NEW i \in Inhibitor, Grant(i) PROVE ReleasedByOwner'
  BY <1>5, CookiesAreCookies DEF Grant
<1>6. ASSUME NEW i \in Inhibitor, Refuse(i) PROVE ReleasedByOwner'
  BY <1>6, CookiesAreCookies DEF Refuse
<1>7. CASE Release
  BY <1>7, CookiesAreCookies DEF Release, Unique
<1>8. CASE UNCHANGED vars
  BY <1>8 DEF vars
<1>9. QED
  BY <1>1, <1>2, <1>3, <1>4, <1>5, <1>6, <1>7, <1>8 DEF Next

LEMMA StepIInv == IInv /\ [Next]_vars => IInv'
BY TypeStep, NamedStep, UniqueStep, KeptStep, OwnedStep, ReleasedStep DEF IInv

LEMMA InvariantIInv == Spec => []IInv
BY InitIInv, StepIInv, PTL DEF Spec

\* The variables have their types, in every behaviour of inhibit.cpp's and
\* notificationinhibition.cpp's objects.
THEOREM TypeCorrect == Spec => []TypeOK
<1>1. IInv => TypeOK
  BY DEF IInv
<1> QED
  BY <1>1, InvariantIInv, PTL

-----------------------------------------------------------------------------
LEMMA PromiseInit == Init => Promise!Init
<1> SUFFICES ASSUME Init PROVE Promise!Init
  OBVIOUS
<1>1. Wish = [i \in Inhibitor |-> "none"]
  BY DEF Init, Wish
<1>2. Inhibited = {} /\ Lifted = {}
  BY DEF Init, Inhibited, Lifted
<1> QED
  BY <1>1, <1>2 DEF Promise!Init

\* Every step is one of the promise or changes nothing it speaks of.
LEMMA PromiseStep == IInv /\ [Next]_vars => [Promise!Next]_(Promise!vars)
<1> SUFFICES ASSUME IInv, [Next]_vars
             PROVE  Promise!Next \/ UNCHANGED <<Wish, Inhibited, Lifted>>
  BY DEF Promise!vars
<1> USE DEF IInv, TypeOK
<1>1. ASSUME NEW i \in Inhibitor, Create(i) PROVE Promise!Want(i)
  <2>1. Wish[i] = "none" /\ Wish' = [Wish EXCEPT ![i] = "wanted"]
    BY <1>1 DEF Create, Wish
  <2>2. UNCHANGED <<Inhibited, Lifted>>
    BY <1>1 DEF Create, Inhibited, Lifted
  <2> QED
    BY <2>1, <2>2 DEF Promise!Want
<1>2. ASSUME NEW i \in Inhibitor, Destroy(i) PROVE Promise!Drop(i)
  <2>1. Wish[i] = "wanted" /\ Wish' = [Wish EXCEPT ![i] = "dropped"]
    BY <1>2 DEF Destroy, Wish
  <2>2. UNCHANGED <<Inhibited, Lifted>>
    BY <1>2 DEF Destroy, Inhibited, Lifted
  <2> QED
    BY <2>1, <2>2 DEF Promise!Drop
<1>3. ASSUME NEW i \in Inhibitor, Grant(i) PROVE Promise!TakeEffect(i)
  <2>1. PICK c \in Cookies(i) :
          held' = [held EXCEPT ![i] = c] /\ answer' = [answer EXCEPT ![i] = c]
    BY <1>3 DEF Grant
  <2>2. c # NoCookie
    BY CookiesAreCookies
  <2>3. answer[i] = NoCookie /\ held[i] = NoCookie /\ object[i] # "none"
    BY <1>3 DEF Grant, Named
  <2>4. Wish[i] # "none" /\ UNCHANGED Wish
    BY <1>3, <2>3 DEF Grant, Wish
  <2>5. i \notin Inhibited \cup Lifted
    BY <2>3 DEF Inhibited, Lifted
  <2>6. Inhibited' = Inhibited \cup {i} /\ UNCHANGED Lifted
    BY <2>1, <2>2, <2>3 DEF Inhibited, Lifted
  <2> QED
    BY <2>4, <2>5, <2>6 DEF Promise!TakeEffect
<1>4. ASSUME NEW i \in Inhibitor, Answered(i) \/ TimesOut(i) \/ Refuse(i)
      PROVE  UNCHANGED <<Wish, Inhibited, Lifted>>
  BY <1>4 DEF Answered, TimesOut, Refuse, Wish, Inhibited, Lifted
<1>5. CASE Release
  <2>1. PICK m \in releases :
          /\ held' = [i \in Inhibitor |->
                        IF m = <<Service(i), held[i]>> THEN NoCookie ELSE held[i]]
          /\ UNCHANGED <<object, answer>>
    BY <1>5 DEF Release
  <2>2. PICK i \in Inhibitor :
          m = <<Service(i), held[i]>> /\ held[i] # NoCookie /\ object[i] = "deleted"
    BY DEF ReleasedByOwner
  <2>3. held' = [held EXCEPT ![i] = NoCookie]
    BY <2>1, <2>2 DEF Unique
  <2>4. Wish[i] = "dropped" /\ UNCHANGED Wish
    BY <2>1, <2>2 DEF Wish
  <2>5. answer[i] # NoCookie
    BY <2>2 DEF Named
  <2>6. /\ i \in Inhibited
        /\ Inhibited' = Inhibited \ {i}
        /\ Lifted' = Lifted \cup {i}
    BY <2>1, <2>2, <2>3, <2>5 DEF Inhibited, Lifted
  <2> QED
    BY <2>4, <2>6 DEF Promise!Lift, Promise!Next
<1>6. CASE UNCHANGED vars
  BY <1>6 DEF vars, Wish, Inhibited, Lifted
<1> QED
  BY <1>1, <1>2, <1>3, <1>4, <1>5, <1>6 DEF Next, Promise!Next

\* What an object inhibits is not lifted while it lives, and inhibits once: for
\* every number of objects and cookies, whatever dies or times out before the
\* reply.
THEOREM KeepsItsPromise == Spec => PromiseKept
<1>1. Spec => Promise!Init /\ [][Promise!Next]_(Promise!vars)
  BY PromiseInit, PromiseStep, InvariantIInv, PTL DEF Spec
<1> QED
  BY <1>1 DEF PromiseKept, Promise!Spec

=============================================================================
