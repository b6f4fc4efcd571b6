-------------------------- MODULE ClipboardProofs --------------------------
(* Theorems about Clipboard: its type invariant, that m_source catches up  *)
(* with the selection, that sessions are told right of it, and that        *)
(* destroying a source never takes the selection away.                     *)
EXTENDS Clipboard, SequenceTheorems, TLAPS

-----------------------------------------------------------------------------
(* The invariant.                                                          *)

IsSet(q, n) == q[n].type = "set_selection"
IsDestroy(q, n) == q[n].type = "destroy"
SetsNothing(q) == \A n \in 1..Len(q) : ~IsSet(q, n)
SetsOther(q, sel) == \E n \in 1..Len(q) : IsSet(q, n) /\ q[n].id # sel

\* Requests queued as q, when sel is the selection and src is m_source:
\* another than the source is not set last,
LastSetIsSource(q, src) ==
    \A n \in 1..Len(q) :
        IsSet(q, n) /\ q[n].id # src => \E m \in n + 1..Len(q) : IsSet(q, m) /\ q[m].id = src

\* none is set twice,
SetOnce(q, sel) ==
    \A n \in 1..Len(q) :
        IsSet(q, n) /\ q[n].id # None =>
            /\ q[n].id # sel
            /\ \A m \in 1..Len(q) : IsSet(q, m) /\ q[m].id = q[n].id => m = n

\* and one is destroyed only behind a request that sets another in its place.
DestroyedBehind(q, sel) ==
    \A n \in 1..Len(q) :
        IsDestroy(q, n) =>
            /\ q[n].id = sel => \E m \in 1..n - 1 : IsSet(q, m)
            /\ \A m \in 1..Len(q) :
                 IsSet(q, m) /\ q[m].id = q[n].id => \E k \in m + 1..n - 1 : IsSet(q, k)

Orderly(q, sel, src) ==
    LastSetIsSource(q, src) /\ SetOnce(q, sel) /\ DestroyedBehind(q, sel)

\* Events: the last that announces a selection announces the one there is, and one
\* follows each that cancels a source; what is cancelled does not come back.
Announces(e, n) == e[n].type = "selection"
AnnouncesNothing(e) == \A n \in 1..Len(e) : ~Announces(e, n)

Announced(e, sel) ==
    \A n \in 1..Len(e) :
        /\ Announces(e, n) /\ (\A m \in n + 1..Len(e) : ~Announces(e, m)) => e[n].id = sel
        /\ e[n].type = "cancelled" =>
             e[n].id # sel /\ \E m \in n + 1..Len(e) : Announces(e, m)

IsCancelled(e, id) == \E n \in 1..Len(e) : e[n].type = "cancelled" /\ e[n].id = id

NotSetAgain(e, q) ==
    \A n \in 1..Len(q) : IsSet(q, n) /\ q[n].id # None => ~IsCancelled(e, q[n].id)

\* Without a request to set one, the source is the selection, or cancelled.
SourceFollows ==
    SetsNothing(requests) =>
        \/ source # None /\ source = selection
        \/ ~IsOurs(selection) /\ (source = None \/ IsCancelled(events, source))

\* A session that has been told of the selection and will be again.
Listens(s) == IsClipboardEnabledSession(s) /\ told[s] # Nothing

\* Without an event that announces a selection, sessions have been told right, or a
\* request will change the selection.
ToldFollows ==
    AnnouncesNothing(events) =>
        /\ offer = selection
        /\ \/ SetsOther(requests, selection)
           \/ \A s \in Session : Listens(s) => told[s].isOwner = IsOf(selection, s)

\* Who listens has been told of the offer there is; who was told is not new.
ToldOffer ==
    \A s \in Session :
        /\ Listens(s) => told[s].offer = offer
        /\ told[s] # Nothing => life[s] # "fresh" /\ enabled[s]

\* Selections are made one by one, m of them by those o names; sources are of sessions.
Ours(id, m, o) == id \in 1..m /\ o[id] \in Session

RequestsMade(q, m, o) ==
    \A n \in 1..Len(q) :
        /\ q[n].id \in 0..m
        /\ q[n].type # "receive" /\ q[n].id # None => Ours(q[n].id, m, o)

EventsMade(e, m, o) ==
    \A n \in 1..Len(e) :
        /\ e[n].id \in 0..m
        /\ e[n].type = "cancelled" => Ours(e[n].id, m, o)

Ownership ==
    /\ \A id \in 1..made : owner[id] \in Session \cup {"foreign"}
    /\ selection \in 0..made /\ offer \in 0..made
    /\ source # None =>
         Ours(source, made, owner) /\ IsClipboardEnabledSession(owner[source])
    /\ RequestsMade(requests, made, owner)
    /\ EventsMade(events, made, owner)

IInv ==
    /\ TypeOK
    /\ Ownership
    /\ Orderly(requests, selection, source)
    /\ Announced(events, selection)
    /\ NotSetAgain(events, requests)
    /\ SourceFollows
    /\ ToldFollows
    /\ ToldOffer

-----------------------------------------------------------------------------
(* Queues.                                                                 *)

LEMMA RequestFacts ==
    /\ \A r \in Request : r.type \in {"set_selection", "destroy", "receive"}
                          /\ r.id \in Selection \cup {None}
                          /\ (r.type # "set_selection" => r.id \in Selection)
    /\ \A id \in Selection \cup {None} : [type |-> "set_selection", id |-> id] \in Request
    /\ \A id \in Selection : [type |-> "destroy", id |-> id] \in Request
    /\ \A id \in Selection : [type |-> "receive", id |-> id] \in Request
    /\ None \notin Selection
BY ClipboardAssumption DEF Request, Selection, None

\* What is left of q when its head is taken.
LEMMA TailFacts ==
    ASSUME NEW S, NEW q \in Seq(S), q # <<>>
    PROVE  /\ Tail(q) \in Seq(S) /\ Head(q) \in S /\ Head(q) = q[1]
           /\ Len(q) \in Nat /\ Len(Tail(q)) = Len(q) - 1 /\ 1 \in 1..Len(q)
           /\ \A n \in 1..Len(Tail(q)) : n + 1 \in 1..Len(q) /\ Tail(q)[n] = q[n + 1]
           /\ \A n \in 2..Len(q) : n - 1 \in 1..Len(Tail(q)) /\ Tail(q)[n - 1] = q[n]
<1>1. Tail(q) \in Seq(S) /\ Head(q) \in S /\ Head(q) = q[1] /\ Len(q) \in Nat
      /\ Len(Tail(q)) = Len(q) - 1 /\ 1 \in 1..Len(q)
  BY HeadTailProperties, LenProperties
<1>2. \A n \in 1..Len(Tail(q)) : n + 1 \in 1..Len(q) /\ Tail(q)[n] = q[n + 1]
  BY <1>1, HeadTailProperties
<1>3. ASSUME NEW n \in 2..Len(q)
      PROVE  n - 1 \in 1..Len(Tail(q)) /\ Tail(q)[n - 1] = q[n]
  <2>1. n - 1 \in 1..Len(Tail(q)) /\ (n - 1) + 1 = n
    BY <1>1
  <2> QED
    BY <1>2, <2>1
<1> QED
  BY <1>1, <1>2, <1>3

\* The request at the head is taken, and what it sets becomes the selection.
LEMMA Take ==
    ASSUME NEW q \in Seq(Request), NEW sel, NEW src, Orderly(q, sel, src), q # <<>>,
           NEW new, new = IF Head(q).type = "set_selection" THEN Head(q).id ELSE sel
    PROVE  Orderly(Tail(q), new, src)
<1> DEFINE t == Tail(q)
<1>1. /\ t \in Seq(Request) /\ Len(t) = Len(q) - 1 /\ Len(q) \in Nat /\ 1 \in 1..Len(q)
      /\ Head(q) = q[1]
  BY TailFacts
<1>2. \A n \in 1..Len(t) : n + 1 \in 1..Len(q) /\ t[n] = q[n + 1] /\ (IsSet(t, n) <=> IsSet(q, n + 1))
  BY TailFacts DEF IsSet
<1>3. \A n \in 2..Len(q) : n - 1 \in 1..Len(t) /\ t[n - 1] = q[n] /\ (IsSet(t, n - 1) <=> IsSet(q, n))
  BY TailFacts DEF IsSet
<1> HIDE DEF t
<1>4. LastSetIsSource(t, src)
  <2> SUFFICES ASSUME NEW n \in 1..Len(t), IsSet(t, n), t[n].id # src
               PROVE  \E m \in n + 1..Len(t) : IsSet(t, m) /\ t[m].id = src
    BY DEF LastSetIsSource
  <2>1. PICK m \in n + 1 + 1..Len(q) : IsSet(q, m) /\ q[m].id = src
    BY <1>2 DEF Orderly, LastSetIsSource
  <2>2. m \in 2..Len(q) /\ m - 1 \in n + 1..Len(t)
    BY <1>1
  <2> QED
    BY <1>3, <2>1, <2>2
<1>5. SetOnce(t, new)
  <2> SUFFICES ASSUME NEW n \in 1..Len(t), IsSet(t, n), t[n].id # None
               PROVE  /\ t[n].id # new
                      /\ \A m \in 1..Len(t) : IsSet(t, m) /\ t[m].id = t[n].id => m = n
    BY DEF SetOnce
  <2>1. n + 1 \in 1..Len(q) /\ t[n] = q[n + 1] /\ IsSet(q, n + 1) /\ q[n + 1].id # None
    BY <1>2
  <2>2. t[n].id # new
    <3>1. CASE Head(q).type = "set_selection"
      <4>1. n + 1 # 1 /\ IsSet(q, 1) /\ new = q[1].id
        BY <1>1, <3>1 DEF IsSet
      <4> QED
        BY <1>1, <2>1, <4>1 DEF Orderly, SetOnce
    <3>2. CASE Head(q).type # "set_selection"
      BY <2>1, <3>2 DEF Orderly, SetOnce
    <3> QED
      BY <3>1, <3>2
  <2>3. ASSUME NEW m \in 1..Len(t), IsSet(t, m), t[m].id = t[n].id PROVE m = n
    <3>1. m + 1 \in 1..Len(q) /\ IsSet(q, m + 1) /\ q[m + 1].id = q[n + 1].id
      BY <1>2, <2>1, <2>3
    <3>2. m + 1 = n + 1
      BY <2>1, <3>1 DEF Orderly, SetOnce
    <3> QED
      BY <3>2
  <2> QED
    BY <2>2, <2>3
<1>6. DestroyedBehind(t, new)
  <2> SUFFICES ASSUME NEW n \in 1..Len(t), IsDestroy(t, n)
               PROVE  /\ t[n].id = new => \E m \in 1..n - 1 : IsSet(t, m)
                      /\ \A m \in 1..Len(t) : IsSet(t, m) /\ t[m].id = t[n].id
                           => \E k \in m + 1..n - 1 : IsSet(t, k)
    BY DEF DestroyedBehind
  <2> DEFINE i == n + 1
  <2>1. i \in 1..Len(q) /\ IsDestroy(q, i) /\ t[n].id = q[i].id
    BY <1>2 DEF IsDestroy
  <2>2. /\ q[i].id = sel => \E m \in 1..i - 1 : IsSet(q, m)
        /\ \A m \in 1..Len(q) : IsSet(q, m) /\ q[m].id = q[i].id
             => \E k \in m + 1..i - 1 : IsSet(q, k)
    BY <2>1 DEF Orderly, DestroyedBehind
  <2>3. ASSUME NEW m \in 1..Len(q), NEW k \in m + 1..i - 1, IsSet(q, k)
        PROVE  k - 1 \in 1..n - 1 /\ k - 1 \in m..n - 1 /\ IsSet(t, k - 1)
    <3>1. k \in 2..Len(q) /\ k - 1 \in 1..n - 1 /\ k - 1 \in m..n - 1
      BY <1>1, <2>1
    <3> QED
      BY <1>3, <2>3, <3>1
  <2>4. ASSUME t[n].id = new PROVE \E m \in 1..n - 1 : IsSet(t, m)
    <3>1. CASE Head(q).type = "set_selection"
      <4>1. IsSet(q, 1) /\ q[1].id = q[i].id
        BY <1>1, <2>1, <2>4, <3>1 DEF IsSet
      <4>2. PICK k \in 1 + 1..i - 1 : IsSet(q, k)
        BY <1>1, <2>2, <4>1
      <4> QED
        BY <1>1, <2>3, <4>2
    <3>2. CASE Head(q).type # "set_selection"
      <4>1. PICK m \in 1..i - 1 : IsSet(q, m)
        BY <2>1, <2>2, <2>4, <3>2
      <4>2. m \in 1 + 1..i - 1
        BY <1>1, <3>2, <4>1 DEF IsSet
      <4> QED
        BY <1>1, <2>3, <4>1, <4>2
    <3> QED
      BY <3>1, <3>2
  <2>5. ASSUME NEW m \in 1..Len(t), IsSet(t, m), t[m].id = t[n].id
        PROVE  \E k \in m + 1..n - 1 : IsSet(t, k)
    <3>1. m + 1 \in 1..Len(q) /\ IsSet(q, m + 1) /\ q[m + 1].id = q[i].id
      BY <1>2, <2>1, <2>5
    <3>2. PICK k \in m + 1 + 1..i - 1 : IsSet(q, k)
      BY <2>2, <3>1
    <3>3. k - 1 \in m + 1..n - 1 /\ IsSet(t, k - 1)
      BY <2>3, <3>1, <3>2
    <3> QED
      BY <3>3
  <2> QED
    BY <2>4, <2>5
<1> QED
  BY <1>4, <1>5, <1>6 DEF Orderly, t

\* What q is when r is appended.
LEMMA AppendFacts ==
    ASSUME NEW S, NEW q \in Seq(S), NEW r \in S
    PROVE  /\ Append(q, r) \in Seq(S) /\ Len(q) \in Nat
           /\ Len(Append(q, r)) = Len(q) + 1 /\ Append(q, r)[Len(q) + 1] = r
           /\ \A n \in 1..Len(q) : Append(q, r)[n] = q[n] /\ n \in 1..Len(Append(q, r))
           /\ \A n \in 1..Len(Append(q, r)) : n \in 1..Len(q) \/ n = Len(q) + 1
BY AppendProperties, LenProperties

\* A request that sets nothing is sent; what a destroyed source was set by is out of
\* date or will be.
LEMMA PushOther ==
    ASSUME NEW q \in Seq(Request), NEW sel, NEW src, Orderly(q, sel, src),
           NEW r \in Request, r.type # "set_selection",
           r.type = "destroy" =>
             /\ r.id = sel => ~SetsNothing(q)
             /\ \A m \in 1..Len(q) : IsSet(q, m) /\ q[m].id = r.id
                  => \E k \in m + 1..Len(q) : IsSet(q, k)
    PROVE  Orderly(Append(q, r), sel, src)
<1> DEFINE t == Append(q, r)
           l == Len(q) + 1
<1>1. Len(t) = l /\ Len(q) \in Nat /\ ~IsSet(t, l) /\ t[l] = r
  BY AppendFacts DEF IsSet
<1>2. \A n \in 1..Len(q) : t[n] = q[n] /\ n \in 1..Len(t) /\ (IsSet(t, n) <=> IsSet(q, n))
                           /\ (IsDestroy(t, n) <=> IsDestroy(q, n))
  BY AppendFacts DEF IsSet, IsDestroy
<1>3. \A n \in 1..Len(t) : n \in 1..Len(q) \/ n = l
  BY AppendFacts
<1> HIDE DEF t
<1>4. LastSetIsSource(t, src)
  <2> SUFFICES ASSUME NEW n \in 1..Len(t), IsSet(t, n), t[n].id # src
               PROVE  \E m \in n + 1..Len(t) : IsSet(t, m) /\ t[m].id = src
    BY DEF LastSetIsSource
  <2>1. n \in 1..Len(q) /\ IsSet(q, n) /\ q[n].id # src
    BY <1>1, <1>2, <1>3
  <2>2. PICK m \in n + 1..Len(q) : IsSet(q, m) /\ q[m].id = src
    BY <2>1 DEF Orderly, LastSetIsSource
  <2>3. m \in 1..Len(q) /\ m \in n + 1..Len(t)
    BY <1>1, <2>1, <2>2
  <2> QED
    BY <1>2, <2>2, <2>3
<1>5. SetOnce(t, sel)
  <2> SUFFICES ASSUME NEW n \in 1..Len(t), IsSet(t, n), t[n].id # None
               PROVE  /\ t[n].id # sel
                      /\ \A m \in 1..Len(t) : IsSet(t, m) /\ t[m].id = t[n].id => m = n
    BY DEF SetOnce
  <2> QED
    BY <1>1, <1>2, <1>3 DEF Orderly, SetOnce
<1>6. DestroyedBehind(t, sel)
  <2> SUFFICES ASSUME NEW n \in 1..Len(t), IsDestroy(t, n)
               PROVE  /\ t[n].id = sel => \E m \in 1..n - 1 : IsSet(t, m)
                      /\ \A m \in 1..Len(t) : IsSet(t, m) /\ t[m].id = t[n].id
                           => \E k \in m + 1..n - 1 : IsSet(t, k)
    BY DEF DestroyedBehind
  <2>1. CASE n \in 1..Len(q)
    <3>1. \A m \in 1..n - 1 : m \in 1..Len(q)
      BY <1>1, <2>1
    <3>2. IsDestroy(q, n) /\ t[n] = q[n]
      BY <1>2, <2>1
    <3>3. t[n].id = sel => \E m \in 1..n - 1 : IsSet(t, m)
      BY <1>2, <2>1, <3>1, <3>2 DEF Orderly, DestroyedBehind
    <3>4. ASSUME NEW m \in 1..Len(t), IsSet(t, m), t[m].id = t[n].id
          PROVE  \E k \in m + 1..n - 1 : IsSet(t, k)
      <4>1. m \in 1..Len(q) /\ IsSet(q, m) /\ q[m].id = q[n].id
        BY <1>1, <1>2, <1>3, <3>2, <3>4
      <4>2. PICK k \in m + 1..n - 1 : IsSet(q, k)
        BY <2>1, <3>2, <4>1 DEF Orderly, DestroyedBehind
      <4>3. k \in 1..n - 1
        BY <4>1, <4>2
      <4> QED
        BY <1>2, <3>1, <4>2, <4>3
    <3> QED
      BY <3>3, <3>4
  <2>2. CASE n = l
    <3>1. r.type = "destroy" /\ t[n] = r /\ n - 1 = Len(q)
      BY <1>1, <2>2 DEF IsDestroy
    <3>2. t[n].id = sel => \E m \in 1..n - 1 : IsSet(t, m)
      BY <1>2, <3>1 DEF SetsNothing
    <3>3. ASSUME NEW m \in 1..Len(t), IsSet(t, m), t[m].id = t[n].id
          PROVE  \E k \in m + 1..n - 1 : IsSet(t, k)
      <4>1. m \in 1..Len(q) /\ IsSet(q, m) /\ q[m].id = r.id
        BY <1>1, <1>2, <1>3, <3>1, <3>3
      <4>2. PICK k \in m + 1..Len(q) : IsSet(q, k)
        BY <3>1, <4>1
      <4>3. k \in 1..Len(q)
        BY <4>1, <4>2
      <4> QED
        BY <1>2, <3>1, <4>2, <4>3
    <3> QED
      BY <3>2, <3>3
  <2> QED
    BY <1>3, <2>1, <2>2
<1> QED
  BY <1>4, <1>5, <1>6 DEF Orderly, t

\* A new source is set, or none.
LEMMA PushSet ==
    ASSUME NEW q \in Seq(Request), NEW sel, NEW src, Orderly(q, sel, src),
           NEW id \in Selection \cup {None},
           id # None => id # sel /\ \A n \in 1..Len(q) : q[n].id # id
    PROVE  Orderly(Append(q, SetSelectionRequest(id)), sel, id)
<1> DEFINE r == SetSelectionRequest(id)
           t == Append(q, r)
           l == Len(q) + 1
<1>1. r \in Request /\ r.type = "set_selection" /\ r.id = id
  BY RequestFacts DEF SetSelectionRequest
<1> HIDE DEF r
<1>2. Len(t) = l /\ Len(q) \in Nat /\ IsSet(t, l) /\ ~IsDestroy(t, l) /\ t[l] = r /\ l \in 1..Len(t)
  BY <1>1, AppendFacts DEF IsSet, IsDestroy
<1>3. \A n \in 1..Len(q) : t[n] = q[n] /\ n \in 1..Len(t) /\ (IsSet(t, n) <=> IsSet(q, n))
                           /\ (IsDestroy(t, n) <=> IsDestroy(q, n)) /\ l \in n + 1..Len(t)
  BY <1>1, AppendFacts DEF IsSet, IsDestroy
<1>4. \A n \in 1..Len(t) : n \in 1..Len(q) \/ n = l
  BY <1>1, AppendFacts
<1> HIDE DEF t
<1>5. LastSetIsSource(t, id)
  BY <1>1, <1>2, <1>3, <1>4 DEF LastSetIsSource
<1>6. SetOnce(t, sel)
  <2> SUFFICES ASSUME NEW n \in 1..Len(t), IsSet(t, n), t[n].id # None
               PROVE  /\ t[n].id # sel
                      /\ \A m \in 1..Len(t) : IsSet(t, m) /\ t[m].id = t[n].id => m = n
    BY DEF SetOnce
  <2> QED
    BY <1>1, <1>2, <1>3, <1>4 DEF Orderly, SetOnce
<1>7. DestroyedBehind(t, sel)
  <2> SUFFICES ASSUME NEW n \in 1..Len(t), IsDestroy(t, n)
               PROVE  /\ t[n].id = sel => \E m \in 1..n - 1 : IsSet(t, m)
                      /\ \A m \in 1..Len(t) : IsSet(t, m) /\ t[m].id = t[n].id
                           => \E k \in m + 1..n - 1 : IsSet(t, k)
    BY DEF DestroyedBehind
  <2>1. n \in 1..Len(q) /\ IsDestroy(q, n) /\ t[n] = q[n]
    BY <1>2, <1>3, <1>4
  <2>2. \A m \in 1..n - 1 : m \in 1..Len(q)
    BY <1>2, <2>1
  <2>3. t[n].id = sel => \E m \in 1..n - 1 : IsSet(t, m)
    BY <1>3, <2>1, <2>2 DEF Orderly, DestroyedBehind
  <2>4. ASSUME NEW m \in 1..Len(t), IsSet(t, m), t[m].id = t[n].id
        PROVE  \E k \in m + 1..n - 1 : IsSet(t, k)
    <3>1. q[n].id \in Selection /\ q[n].id # None
      <4>1. q[n] \in Request /\ q[n].type = "destroy"
        BY <2>1, ElementOfSeq DEF IsDestroy
      <4> QED
        BY <4>1, RequestFacts
    <3>2. m # l
      BY <1>1, <1>2, <2>1, <2>4, <3>1
    <3>3. m \in 1..Len(q) /\ IsSet(q, m) /\ q[m].id = q[n].id
      BY <1>3, <1>4, <2>1, <2>4, <3>2
    <3>4. PICK k \in m + 1..n - 1 : IsSet(q, k)
      BY <2>1, <3>3 DEF Orderly, DestroyedBehind
    <3>5. k \in 1..n - 1
      BY <3>3, <3>4
    <3> QED
      BY <1>3, <2>2, <3>4, <3>5
  <2> QED
    BY <2>3, <2>4
<1> QED
  BY <1>5, <1>6, <1>7 DEF Orderly, t, r

\* Somebody else takes the selection.
LEMMA Retake ==
    ASSUME NEW q \in Seq(Request), NEW sel, NEW src, Orderly(q, sel, src),
           NEW new, new # None => \A n \in 1..Len(q) : q[n].id # new
    PROVE  Orderly(q, new, src)
<1>1. SetOnce(q, new)
  BY DEF Orderly, SetOnce
<1>2. \A n \in 1..Len(q) : IsDestroy(q, n) => q[n].id # None
  BY ElementOfSeq, RequestFacts DEF IsDestroy
<1>3. DestroyedBehind(q, new)
  BY <1>2 DEF Orderly, DestroyedBehind
<1> QED
  BY <1>1, <1>3 DEF Orderly


-----------------------------------------------------------------------------
(* Events.                                                                 *)

LEMMA EventFacts ==
    /\ \A e \in Event : e.type \in {"cancelled", "send", "selection"} /\ e.id \in Selection \cup {None}
                        /\ (e.type = "cancelled" => e.id \in Selection)
                        /\ (e.type = "send" => e.id \in Selection)
    /\ \A id \in Selection \cup {None} : [type |-> "selection", id |-> id] \in Event
    /\ \A id \in Selection : [type |-> "cancelled", id |-> id] \in Event
    /\ \A id \in Selection : [type |-> "send", id |-> id] \in Event
BY ClipboardAssumption DEF Event, Selection, None

LEMMA TailEvents ==
    ASSUME NEW e \in Seq(Event), e # <<>>
    PROVE  /\ \A sel : Announced(e, sel) => Announced(Tail(e), sel)
           /\ \A id : IsCancelled(Tail(e), id) => IsCancelled(e, id)
           /\ \A id : IsCancelled(e, id) =>
                IsCancelled(Tail(e), id) \/ (Head(e).type = "cancelled" /\ Head(e).id = id)
           /\ AnnouncesNothing(Tail(e)) /\ Head(e).type # "selection" => AnnouncesNothing(e)
<1> DEFINE t == Tail(e)
<1>1. Len(t) = Len(e) - 1 /\ Len(e) \in Nat /\ 1 \in 1..Len(e) /\ Head(e) = e[1]
  BY TailFacts
<1>2. \A n \in 1..Len(t) : n + 1 \in 1..Len(e) /\ t[n] = e[n + 1] /\ (Announces(t, n) <=> Announces(e, n + 1))
  BY TailFacts DEF Announces
<1>3. \A n \in 2..Len(e) : n - 1 \in 1..Len(t) /\ t[n - 1] = e[n] /\ (Announces(t, n - 1) <=> Announces(e, n))
  BY TailFacts DEF Announces
<1> HIDE DEF t
<1>4. ASSUME NEW sel, Announced(e, sel) PROVE Announced(t, sel)
  <2> SUFFICES ASSUME NEW n \in 1..Len(t)
               PROVE  /\ Announces(t, n) /\ (\A m \in n + 1..Len(t) : ~Announces(t, m)) => t[n].id = sel
                      /\ t[n].type = "cancelled" =>
                           t[n].id # sel /\ \E m \in n + 1..Len(t) : Announces(t, m)
    BY DEF Announced
  <2>1. ASSUME NEW m \in n + 1 + 1..Len(e)
        PROVE  m - 1 \in n + 1..Len(t) /\ (Announces(t, m - 1) <=> Announces(e, m))
    <3>1. m \in 2..Len(e) /\ m - 1 \in n + 1..Len(t)
      BY <1>1
    <3> QED
      BY <1>3, <3>1
  <2>2. ASSUME Announces(t, n), \A m \in n + 1..Len(t) : ~Announces(t, m) PROVE t[n].id = sel
    <3>1. \A m \in n + 1 + 1..Len(e) : ~Announces(e, m)
      BY <2>1, <2>2
    <3> QED
      BY <1>2, <2>2, <3>1, <1>4 DEF Announced
  <2>3. ASSUME t[n].type = "cancelled"
        PROVE  t[n].id # sel /\ \E m \in n + 1..Len(t) : Announces(t, m)
    <3>1. e[n + 1].id # sel /\ \E m \in n + 1 + 1..Len(e) : Announces(e, m)
      BY <1>2, <2>3, <1>4 DEF Announced
    <3> QED
      BY <1>2, <2>1, <3>1
  <2> QED
    BY <2>2, <2>3
<1>5. \A id : IsCancelled(t, id) => IsCancelled(e, id)
  BY <1>2 DEF IsCancelled
<1>6. ASSUME NEW id, IsCancelled(e, id)
      PROVE  IsCancelled(t, id) \/ (Head(e).type = "cancelled" /\ Head(e).id = id)
  <2>1. PICK n \in 1..Len(e) : e[n].type = "cancelled" /\ e[n].id = id
    BY <1>6 DEF IsCancelled
  <2>2. n = 1 \/ n \in 2..Len(e)
    BY <1>1
  <2> QED
    BY <1>1, <1>3, <2>1, <2>2 DEF IsCancelled
<1>7. ASSUME AnnouncesNothing(t), Head(e).type # "selection" PROVE AnnouncesNothing(e)
  <2>1. \A n \in 1..Len(e) : n = 1 \/ n \in 2..Len(e)
    BY <1>1
  <2> QED
    BY <1>1, <1>3, <1>7, <2>1 DEF AnnouncesNothing, Announces
<1> QED
  BY <1>4, <1>5, <1>6, <1>7 DEF t

LEMMA AppendEvents ==
    ASSUME NEW e \in Seq(Event), NEW r \in Event
    PROVE  /\ \A id : IsCancelled(Append(e, r), id) <=>
                IsCancelled(e, id) \/ (r.type = "cancelled" /\ r.id = id)
           /\ AnnouncesNothing(Append(e, r)) => AnnouncesNothing(e) /\ r.type # "selection"
           /\ r.type = "selection" /\ ~IsCancelled(e, r.id) => Announced(Append(e, r), r.id)
           /\ \A sel : r.type = "send" /\ Announced(e, sel) => Announced(Append(e, r), sel)
<1> DEFINE t == Append(e, r)
           l == Len(e) + 1
<1>1. Len(t) = l /\ Len(e) \in Nat /\ t[l] = r /\ l \in 1..Len(t) /\ (Announces(t, l) <=> r.type = "selection")
  BY AppendFacts DEF Announces
<1>2. \A n \in 1..Len(e) : t[n] = e[n] /\ n \in 1..Len(t) /\ (Announces(t, n) <=> Announces(e, n))
                           /\ l \in n + 1..Len(t)
  BY AppendFacts DEF Announces
<1>3. \A n \in 1..Len(t) : n \in 1..Len(e) \/ n = l
  BY AppendFacts
<1> HIDE DEF t
<1>4. \A id : IsCancelled(t, id) <=> IsCancelled(e, id) \/ (r.type = "cancelled" /\ r.id = id)
  BY <1>1, <1>2, <1>3 DEF IsCancelled
<1>5. AnnouncesNothing(t) => AnnouncesNothing(e) /\ r.type # "selection"
  BY <1>1, <1>2 DEF AnnouncesNothing
<1>6. r.type = "selection" /\ ~IsCancelled(e, r.id) => Announced(t, r.id)
  BY <1>1, <1>2, <1>3 DEF Announced, IsCancelled
<1>7. ASSUME NEW sel, r.type = "send", Announced(e, sel) PROVE Announced(t, sel)
  <2> SUFFICES ASSUME NEW n \in 1..Len(t)
               PROVE  /\ Announces(t, n) /\ (\A m \in n + 1..Len(t) : ~Announces(t, m)) => t[n].id = sel
                      /\ t[n].type = "cancelled" =>
                           t[n].id # sel /\ \E m \in n + 1..Len(t) : Announces(t, m)
    BY DEF Announced
  <2>1. CASE n \in 1..Len(e)
    <3>1. \A m \in n + 1..Len(e) : m \in 1..Len(e) /\ m \in n + 1..Len(t)
      BY <1>1, <2>1
    <3> QED
      BY <1>2, <1>7, <2>1, <3>1 DEF Announced
  <2>2. CASE n = l
    BY <1>1, <1>7, <2>2
  <2> QED
    BY <1>3, <2>1, <2>2
<1> QED
  BY <1>4, <1>5, <1>6, <1>7 DEF t

-----------------------------------------------------------------------------
(* Types and ownership.                                                    *)

\* What SetSource sends.
LEMMA SetSourceSends ==
    ASSUME TypeOK, NEW id \in Selection \cup {None}, SetSource(id)
    PROVE  LET q == Append(requests, SetSelectionRequest(id))
           IN  /\ q \in Seq(Request) /\ SetSelectionRequest(id) \in Request
               /\ source = None => requests' = q
               /\ source # None =>
                    /\ [type |-> "destroy", id |-> source] \in Request
                    /\ requests' = Append(q, [type |-> "destroy", id |-> source])
<1> DEFINE r == SetSelectionRequest(id)
           d == [type |-> "destroy", id |-> source]
           q == Append(requests, r)
<1>1. r \in Request /\ requests \in Seq(Request)
  BY RequestFacts DEF SetSelectionRequest, TypeOK
<1>2. source # None => d \in Request
  BY RequestFacts DEF TypeOK
<1> HIDE DEF r, d
<1>3. q \in Seq(Request) /\ q = requests \o <<r>>
  BY <1>1, AppendProperties, AppendIsConcat
<1>4. source = None => requests' = q
  BY <1>3, ConcatEmptySeq DEF SetSource, DestroyRequests, r
<1>5. source # None => requests' = Append(q, d)
  <2>1. source # None => requests' = q \o <<d>>
    BY <1>3 DEF SetSource, DestroyRequests, r, d
  <2> QED
    BY <1>2, <1>3, <2>1, AppendIsConcat
<1> QED
  BY <1>1, <1>2, <1>3, <1>4, <1>5 DEF r, d

\* What Select sends.
LEMMA SelectSends ==
    ASSUME TypeOK, NEW id \in Selection \cup {None}, Select(id)
    PROVE  LET a == [type |-> "selection", id |-> id]
               c == [type |-> "cancelled", id |-> selection]
           IN  /\ selection' = id /\ a \in Event
               /\ ~IsOurs(selection) => events' = Append(events, a)
               /\ IsOurs(selection) =>
                    /\ c \in Event /\ Append(events, c) \in Seq(Event)
                    /\ events' = Append(Append(events, c), a)
<1> DEFINE a == [type |-> "selection", id |-> id]
           c == [type |-> "cancelled", id |-> selection]
<1>1. a \in Event /\ events \in Seq(Event) /\ selection' = id
  BY EventFacts DEF TypeOK, Select
<1>2. IsOurs(selection) => c \in Event
  BY EventFacts DEF TypeOK, IsOurs
<1>3. events' = events \o (IF IsOurs(selection) THEN <<c>> ELSE <<>>) \o <<a>>
  BY DEF Select
<1> HIDE DEF a, c
<1>4. ~IsOurs(selection) => events' = Append(events, a)
  BY <1>1, <1>3, ConcatEmptySeq, AppendIsConcat
<1>5. IsOurs(selection) => Append(events, c) \in Seq(Event) /\ events' = Append(Append(events, c), a)
  <2> SUFFICES ASSUME IsOurs(selection)
               PROVE  Append(events, c) \in Seq(Event) /\ events' = Append(Append(events, c), a)
    OBVIOUS
  <2>1. Append(events, c) \in Seq(Event) /\ Append(events, c) = events \o <<c>>
    BY <1>1, <1>2, AppendProperties, AppendIsConcat
  <2>2. events' = Append(events, c) \o <<a>>
    BY <1>3, <2>1
  <2> QED
    BY <1>1, <2>1, <2>2, AppendIsConcat
<1> QED
  BY <1>1, <1>2, <1>4, <1>5 DEF a, c


LEMMA InitIInv == Init => IInv
<1> SUFFICES ASSUME Init PROVE IInv
  OBVIOUS
<1>1. TypeOK
  BY ClipboardAssumption DEF Init, TypeOK, Selection, None
<1>2. requests = <<>> /\ events = <<>> /\ Len(requests) = 0 /\ Len(events) = 0 /\ 1..0 = {}
  BY DEF Init
<1>3. Ownership
  BY <1>2, ClipboardAssumption DEF Init, Ownership, RequestsMade, EventsMade, Selection, None
<1>4. Orderly(requests, selection, source) /\ Announced(events, selection) /\ NotSetAgain(events, requests)
  BY <1>2 DEF Orderly, LastSetIsSource, SetOnce, DestroyedBehind, Announced, NotSetAgain
<1>5. SourceFollows /\ ToldFollows /\ ToldOffer
  BY DEF Init, SourceFollows, ToldFollows, ToldOffer, IsOurs, Listens, IsClipboardEnabledSession
<1> QED
  BY <1>1, <1>3, <1>4, <1>5 DEF IInv

\* Whoever makes a selection, nothing has named it before.
LEMMA Makes ==
    ASSUME TypeOK, Ownership, NEW somebody \in Session \cup {"foreign"}, Make(somebody)
    PROVE  /\ made + 1 \in Selection /\ made + 1 # None
           /\ made \in Nat /\ made' = made + 1 /\ made' \in 0..MaxSelections
           /\ owner' \in [Selection -> Session \cup {"none", "foreign"}]
           /\ owner'[made + 1] = somebody
           /\ \A id \in 1..made : owner'[id] = owner[id]
           /\ \A id \in 1..made' : owner'[id] \in Session \cup {"foreign"}
           /\ selection # made + 1 /\ source # made + 1
           /\ \A n \in 1..Len(requests) : requests[n].id # made + 1
           /\ ~IsCancelled(events, made + 1)
<1> USE ClipboardAssumption DEF TypeOK, Selection, None
<1>1. made + 1 \in Selection /\ made + 1 # None /\ made \in Nat /\ made' = made + 1
      /\ made' \in 0..MaxSelections /\ owner' = [owner EXCEPT ![made + 1] = somebody]
  BY DEF Make
<1>2. owner' \in [Selection -> Session \cup {"none", "foreign"}] /\ owner'[made + 1] = somebody
  BY <1>1
<1>3. \A id \in 1..made : owner'[id] = owner[id]
  BY <1>1
<1>4. ASSUME NEW id \in 1..made' PROVE owner'[id] \in Session \cup {"foreign"}
  <2>1. id \in 1..made \/ id = made + 1
    BY <1>1
  <2> QED
    BY <1>2, <1>3, <2>1 DEF Ownership
<1>5. \A n \in 1..Len(requests) : requests[n].id # made + 1
  BY <1>1 DEF Ownership, RequestsMade
<1>6. ~IsCancelled(events, made + 1)
  BY <1>1 DEF Ownership, EventsMade, IsCancelled
<1>7. selection # made + 1 /\ source # made + 1
  BY <1>1 DEF Ownership, Ours
<1> QED
  BY <1>1, <1>2, <1>3, <1>4, <1>5, <1>6, <1>7

LEMMA MadeRequests ==
    ASSUME NEW q \in Seq(Request), NEW m, NEW o, RequestsMade(q, m, o)
    PROVE  /\ q # <<>> =>
                /\ RequestsMade(Tail(q), m, o) /\ Head(q).id \in 0..m
                /\ Head(q).type # "receive" /\ Head(q).id # None => Ours(Head(q).id, m, o)
           /\ \A r \in Request :
                /\ r.id \in 0..m
                /\ r.type # "receive" /\ r.id # None => Ours(r.id, m, o)
                => RequestsMade(Append(q, r), m, o)
<1>1. ASSUME q # <<>>
      PROVE  /\ RequestsMade(Tail(q), m, o) /\ Head(q).id \in 0..m
             /\ Head(q).type # "receive" /\ Head(q).id # None => Ours(Head(q).id, m, o)
  BY <1>1, TailFacts DEF RequestsMade
<1>2. ASSUME NEW r \in Request, r.id \in 0..m,
             r.type # "receive" /\ r.id # None => Ours(r.id, m, o)
      PROVE  RequestsMade(Append(q, r), m, o)
  BY <1>2, AppendFacts DEF RequestsMade
<1> QED
  BY <1>1, <1>2

LEMMA MadeEvents ==
    ASSUME NEW e \in Seq(Event), NEW m, NEW o, EventsMade(e, m, o)
    PROVE  /\ e # <<>> => EventsMade(Tail(e), m, o) /\ Head(e).id \in 0..m
           /\ \A r \in Event :
                /\ r.id \in 0..m
                /\ r.type = "cancelled" => Ours(r.id, m, o)
                => EventsMade(Append(e, r), m, o)
<1>1. ASSUME e # <<>> PROVE EventsMade(Tail(e), m, o) /\ Head(e).id \in 0..m
  BY <1>1, TailFacts DEF EventsMade
<1>2. ASSUME NEW r \in Event, r.id \in 0..m, r.type = "cancelled" => Ours(r.id, m, o)
      PROVE  EventsMade(Append(e, r), m, o)
  BY <1>2, AppendFacts DEF EventsMade
<1> QED
  BY <1>1, <1>2

\* One selection more does not unmake those before.
LEMMA MadeMore ==
    ASSUME NEW m \in Nat, NEW o, NEW p, \A id \in 1..m : p[id] = o[id]
    PROVE  /\ \A id : Ours(id, m, o) => Ours(id, m + 1, p)
           /\ \A q \in Seq(Request) : RequestsMade(q, m, o) => RequestsMade(q, m + 1, p)
           /\ \A e \in Seq(Event) : EventsMade(e, m, o) => EventsMade(e, m + 1, p)
<1>1. \A id : Ours(id, m, o) => Ours(id, m + 1, p)
  BY DEF Ours
<1>2. \A id \in 0..m : id \in 0..m + 1
  OBVIOUS
<1> QED
  BY <1>1, <1>2 DEF RequestsMade, EventsMade


-----------------------------------------------------------------------------
(* What the requests say of the source and of events.                      *)

LEMMA TakeSets ==
    ASSUME NEW q \in Seq(Request), q # <<>>
    PROVE  /\ \A e : NotSetAgain(e, q) => NotSetAgain(e, Tail(q))
           /\ \A sel : SetsOther(q, sel) /\ (Head(q).type = "set_selection" => Head(q).id = sel)
                => SetsOther(Tail(q), sel)
           /\ SetsNothing(Tail(q)) /\ Head(q).type # "set_selection" => SetsNothing(q)
<1>1. \A e : NotSetAgain(e, q) => NotSetAgain(e, Tail(q))
  BY TailFacts DEF NotSetAgain, IsSet
<1>2. \A n \in 1..Len(q) : n = 1 \/ n \in 2..Len(q)
  BY TailFacts
<1>3. ASSUME NEW sel, SetsOther(q, sel), Head(q).type = "set_selection" => Head(q).id = sel
      PROVE  SetsOther(Tail(q), sel)
  <2>1. PICK n \in 1..Len(q) : IsSet(q, n) /\ q[n].id # sel
    BY <1>3 DEF SetsOther
  <2>2. n \in 2..Len(q)
    BY <1>2, <1>3, <2>1, TailFacts DEF IsSet
  <2> QED
    BY <2>1, <2>2, TailFacts DEF SetsOther, IsSet
<1>4. ASSUME SetsNothing(Tail(q)), Head(q).type # "set_selection" PROVE SetsNothing(q)
  <2> SUFFICES ASSUME NEW n \in 1..Len(q) PROVE ~IsSet(q, n)
    BY DEF SetsNothing
  <2>1. CASE n = 1
    BY <1>4, <2>1, TailFacts DEF IsSet
  <2>2. CASE n \in 2..Len(q)
    <3>1. n - 1 \in 1..Len(Tail(q)) /\ Tail(q)[n - 1] = q[n]
      BY <2>2, TailFacts
    <3> QED
      BY <1>4, <3>1 DEF SetsNothing, IsSet
  <2> QED
    BY <1>2, <2>1, <2>2
<1> QED
  BY <1>1, <1>3, <1>4

LEMMA PushSets ==
    ASSUME NEW q \in Seq(Request), NEW r \in Request
    PROVE  /\ \A e : /\ NotSetAgain(e, q)
                     /\ r.type = "set_selection" /\ r.id # None => ~IsCancelled(e, r.id)
                     => NotSetAgain(e, Append(q, r))
           /\ \A sel : SetsOther(q, sel) => SetsOther(Append(q, r), sel)
           /\ SetsNothing(Append(q, r)) => SetsNothing(q) /\ r.type # "set_selection"
<1>1. ASSUME NEW e, NotSetAgain(e, q),
             r.type = "set_selection" /\ r.id # None => ~IsCancelled(e, r.id)
      PROVE  NotSetAgain(e, Append(q, r))
  BY <1>1, AppendFacts DEF NotSetAgain, IsSet
<1>2. \A sel : SetsOther(q, sel) => SetsOther(Append(q, r), sel)
  BY AppendFacts DEF SetsOther, IsSet
<1>3. SetsNothing(Append(q, r)) => SetsNothing(q) /\ r.type # "set_selection"
  <2>1. Len(q) + 1 \in 1..Len(Append(q, r))
    BY AppendFacts
  <2> QED
    BY <2>1, AppendFacts DEF SetsNothing, IsSet
<1> QED
  BY <1>1, <1>2, <1>3

\* An id is new: neither requests nor events nor the compositor know of it.
NewId(id) ==
    /\ id # selection /\ id # source
    /\ \A n \in 1..Len(requests) : requests[n].id # id
    /\ ~IsCancelled(events, id)

\* m_source changes.
LEMMA SetSourceKeeps ==
    ASSUME IInv, NEW id \in Selection \cup {None}, id # None => NewId(id), SetSource(id)
    PROVE  /\ requests' \in Seq(Request)
           /\ Orderly(requests', selection, id)
           /\ NotSetAgain(events, requests')
           /\ ~SetsNothing(requests')
           /\ \A sel : SetsOther(requests, sel) => SetsOther(requests', sel)
           /\ \A m, o : /\ RequestsMade(requests, m, o) /\ id \in 0..m
                        /\ id # None => Ours(id, m, o)
                        /\ source # None => source \in 0..m /\ Ours(source, m, o)
                        => RequestsMade(requests', m, o)
<1> DEFINE r == SetSelectionRequest(id)
           q == Append(requests, r)
           d == [type |-> "destroy", id |-> source]
<1>1. /\ requests \in Seq(Request) /\ r \in Request /\ q \in Seq(Request)
      /\ r.type = "set_selection" /\ r.id = id
      /\ source = None => requests' = q
      /\ source # None => d \in Request /\ requests' = Append(q, d)
  BY SetSourceSends DEF IInv, TypeOK, SetSelectionRequest
<1>2. d.type = "destroy" /\ d.id = source
  OBVIOUS
<1>3. Orderly(q, selection, id)
  BY <1>1, PushSet DEF IInv, NewId
<1>4. NotSetAgain(events, q) /\ ~SetsNothing(q)
      /\ \A sel : SetsOther(requests, sel) => SetsOther(q, sel)
  BY <1>1, PushSets DEF IInv, NewId
<1>5. ASSUME NEW m, NEW o, RequestsMade(requests, m, o), id \in 0..m, id # None => Ours(id, m, o)
      PROVE  RequestsMade(q, m, o)
  BY <1>1, <1>5, MadeRequests
<1>6. CASE source = None
  BY <1>1, <1>3, <1>4, <1>5, <1>6
<1>7. CASE source # None
  <2>1. ASSUME NEW m \in 1..Len(q), IsSet(q, m), q[m].id = source
        PROVE  \E k \in m + 1..Len(q) : IsSet(q, k)
    <3>1. Len(q) = Len(requests) + 1 /\ q[Len(requests) + 1] = r /\ IsSet(q, Len(q)) /\ Len(q) \in Nat
      BY <1>1, AppendFacts DEF IsSet
    <3>2. m # Len(q)
      BY <1>1, <1>7, <2>1, <3>1 DEF NewId
    <3>3. Len(q) \in m + 1..Len(q)
      BY <3>1, <3>2
    <3> QED
      BY <3>1, <3>3
  <2> HIDE DEF r, q, d
  <2>2. Orderly(Append(q, d), selection, id)
    BY <1>1, <1>2, <1>3, <1>4, <1>7, <2>1, PushOther
  <2>3. NotSetAgain(events, Append(q, d)) /\ ~SetsNothing(Append(q, d))
        /\ \A sel : SetsOther(requests, sel) => SetsOther(Append(q, d), sel)
    BY <1>1, <1>2, <1>4, <1>7, PushSets
  <2>4. ASSUME NEW m, NEW o, RequestsMade(q, m, o), source \in 0..m /\ Ours(source, m, o)
        PROVE  RequestsMade(Append(q, d), m, o)
    BY <1>1, <1>2, <1>7, <2>4, MadeRequests
  <2>5. Append(q, d) \in Seq(Request)
    BY <1>1, <1>7, AppendFacts
  <2> QED
    BY <1>1, <1>5, <1>7, <2>2, <2>3, <2>4, <2>5
<1> QED
  BY <1>6, <1>7


-----------------------------------------------------------------------------
(* The steps.                                                              *)

\* Sessions that change neither m_source nor the queues.
LEMMA QuietStep ==
    ASSUME IInv,
           \/ \E s \in Session :
                 \/ CreateSession(s) \/ RequestClipboard(s)
                 \/ \E t \in transfers : SelectionWriteDone(s, t)
           \/ UNCHANGED vars
    PROVE  IInv'
<1> USE DEF portalVars, transferVars, compositorVars
<1>1. UNCHANGED <<source, offer, told, serial, compositorVars, requests, events>>
  BY DEF CreateSession, RequestClipboard, SelectionWriteDone, vars
<1>2. \A s \in Session : /\ IsClipboardEnabledSession(s) => IsClipboardEnabledSession(s)'
                         /\ Listens(s)' => Listens(s)
                         /\ told[s] # Nothing => life'[s] # "fresh" /\ enabled'[s]
  BY DEF IInv, TypeOK, ToldOffer, Listens, IsClipboardEnabledSession, CreateSession,
         RequestClipboard, SelectionWriteDone, vars
<1>3. TypeOK'
  BY <1>1 DEF IInv, TypeOK, CreateSession, RequestClipboard, SelectionWriteDone, vars
<1>4. Ownership'
  <2>1. source # None => owner[source] \in Session
    BY DEF IInv, Ownership, Ours
  <2> QED
    BY <1>1, <1>2, <2>1 DEF IInv, Ownership, IsClipboardEnabledSession
<1>5. Orderly(requests, selection, source)' /\ Announced(events, selection)' /\ NotSetAgain(events, requests)'
      /\ SourceFollows'
  BY <1>1 DEF IInv, SourceFollows, IsOurs
<1>6. ToldFollows' /\ ToldOffer'
  BY <1>1, <1>2 DEF IInv, ToldFollows, ToldOffer, IsOf, IsClipboardEnabledSession
<1> QED
  BY <1>3, <1>4, <1>5, <1>6 DEF IInv

LEMMA SetSelectionStep ==
    ASSUME IInv, NEW s \in Session, SetSelection(s)
    PROVE  IInv'
<1> USE DEF portalVars, transferVars, compositorVars
<1> DEFINE id == made + 1
<1>1. /\ UNCHANGED <<life, enabled, offer, told, transferVars, selection, reads, events>>
      /\ Make(s) /\ SetSource(id) /\ source' = id
  BY DEF SetSelection, SetSource
<1>2. /\ id \in Selection /\ id # None /\ made \in Nat /\ made' = made + 1 /\ made' \in 0..MaxSelections
      /\ owner' \in [Selection -> Session \cup {"none", "foreign"}] /\ owner'[id] = s
      /\ \A i \in 1..made : owner'[i] = owner[i]
      /\ \A i \in 1..made' : owner'[i] \in Session \cup {"foreign"}
      /\ NewId(id)
  BY <1>1, Makes DEF IInv, NewId
<1> HIDE DEF id
<1>3. /\ requests' \in Seq(Request) /\ Orderly(requests', selection, id)
      /\ NotSetAgain(events, requests') /\ ~SetsNothing(requests')
      /\ \A sel : SetsOther(requests, sel) => SetsOther(requests', sel)
      /\ \A m, o : /\ RequestsMade(requests, m, o) /\ id \in 0..m
                   /\ id # None => Ours(id, m, o)
                   /\ source # None => source \in 0..m /\ Ours(source, m, o)
                   => RequestsMade(requests', m, o)
  BY <1>1, <1>2, SetSourceKeeps
<1>4. TypeOK'
  BY <1>1, <1>2, <1>3 DEF IInv, TypeOK
<1>5. Ownership'
  <2>1. Ours(id, made', owner') /\ id \in 0..made'
    BY <1>2 DEF Ours, id
  <2>2. RequestsMade(requests, made', owner') /\ EventsMade(events, made', owner')
        /\ (source # None => source \in 0..made' /\ Ours(source, made', owner'))
    <3>1. /\ \A i : Ours(i, made, owner) => Ours(i, made + 1, owner')
          /\ \A q \in Seq(Request) : RequestsMade(q, made, owner) => RequestsMade(q, made + 1, owner')
          /\ \A e \in Seq(Event) : EventsMade(e, made, owner) => EventsMade(e, made + 1, owner')
      BY <1>2, MadeMore
    <3>2. source # None => Ours(source, made, owner) /\ source \in 0..made'
      BY <1>2 DEF IInv, Ownership, Ours
    <3> QED
      BY <1>2, <3>1, <3>2 DEF IInv, TypeOK, Ownership
  <2>3. selection \in 0..made' /\ offer \in 0..made'
    BY <1>2 DEF IInv, Ownership
  <2>4. IsClipboardEnabledSession(s)'
    BY <1>1 DEF SetSelection, IsClipboardEnabledSession
  <2> QED
    BY <1>1, <1>2, <1>3, <2>1, <2>2, <2>3, <2>4 DEF Ownership
<1>6. Orderly(requests, selection, source)' /\ Announced(events, selection)' /\ NotSetAgain(events, requests)'
      /\ SourceFollows'
  BY <1>1, <1>3 DEF IInv, SourceFollows
<1>7. ToldFollows'
  <2>1. \A r \in Session : IsOf(selection, r)' = IsOf(selection, r)
    BY <1>1, <1>2 DEF IsOf, IInv, Ownership, None
  <2>2. \A r \in Session : (Listens(r)' <=> Listens(r)) /\ told'[r] = told[r]
    BY <1>1 DEF Listens, IsClipboardEnabledSession
  <2> QED
    BY <1>1, <1>3, <2>1, <2>2 DEF IInv, ToldFollows
<1>8. ToldOffer'
  BY <1>1 DEF IInv, ToldOffer, Listens, IsClipboardEnabledSession
<1> QED
  BY <1>4, <1>5, <1>6, <1>7, <1>8 DEF IInv

\* SetNoSelection, and Close.
LEMMA SetNothingStep ==
    ASSUME IInv, NEW s \in Session, SetNoSelection(s) \/ Close(s)
    PROVE  IInv'
<1> USE DEF portalVars, transferVars, compositorVars
<1>1. UNCHANGED <<enabled, offer, told, transferVars, compositorVars, events>>
  BY DEF SetNoSelection, Close
<1>2. /\ life' \in [Session -> {"fresh", "open", "closed"}]
      /\ \A r \in Session : /\ IsClipboardEnabledSession(r)' => IsClipboardEnabledSession(r)
                            /\ life[r] # "fresh" => life'[r] # "fresh"
                            /\ Listens(r)' => Listens(r)
  BY <1>1 DEF SetNoSelection, Close, IInv, TypeOK, Listens, IsClipboardEnabledSession
<1>3. ToldOffer'
  BY <1>1, <1>2 DEF IInv, ToldOffer
<1>4. CASE UNCHANGED <<source, requests>>
  <2>1. TypeOK'
    BY <1>1, <1>2, <1>4 DEF IInv, TypeOK
  <2>2. Ownership'
    <3>1. source # None => IsClipboardEnabledSession(owner[source])'
      <4>1. source # None => owner[source] \in Session /\ IsClipboardEnabledSession(owner[source])
        BY DEF IInv, Ownership, Ours
      <4>2. CASE SetNoSelection(s)
        BY <1>1, <1>4, <4>1, <4>2 DEF SetNoSelection, IsClipboardEnabledSession
      <4>3. CASE Close(s) /\ ~(enabled[s] /\ IsOf(source, s))
        BY <1>1, <1>4, <4>1, <4>3 DEF Close, IsClipboardEnabledSession, IsOf, IInv, TypeOK
      <4>4. CASE Close(s) /\ enabled[s] /\ IsOf(source, s)
        BY <1>4, <4>4 DEF Close, SetSource, IsOf
      <4> QED
        BY <4>2, <4>3, <4>4
    <3> QED
      BY <1>1, <1>4, <3>1 DEF IInv, Ownership, IsClipboardEnabledSession
  <2> QED
    BY <1>1, <1>2, <1>3, <1>4, <2>1, <2>2
    DEF IInv, SourceFollows, IsOurs, ToldFollows, IsOf
<1>5. CASE SetSource(None)
  <2>1. source' = None
    BY <1>5 DEF SetSource
  <2>2. /\ requests' \in Seq(Request) /\ Orderly(requests', selection, None)
        /\ NotSetAgain(events, requests') /\ ~SetsNothing(requests')
        /\ \A sel : SetsOther(requests, sel) => SetsOther(requests', sel)
        /\ \A m, o : /\ RequestsMade(requests, m, o) /\ None \in 0..m
                     /\ source # None => source \in 0..m /\ Ours(source, m, o)
                     => RequestsMade(requests', m, o)
    BY <1>5, SetSourceKeeps
  <2>3. TypeOK'
    BY <1>1, <1>2, <2>1, <2>2 DEF IInv, TypeOK
  <2>4. Ownership'
    <3>1. None \in 0..made /\ (source # None => source \in 0..made /\ Ours(source, made, owner))
      BY DEF IInv, Ownership, TypeOK, Ours, None
    <3> QED
      BY <1>1, <2>1, <2>2, <3>1 DEF IInv, Ownership
  <2>5. ToldFollows'
    BY <1>1, <1>2, <2>2 DEF IInv, ToldFollows, IsOf
  <2>6. SourceFollows' /\ Orderly(requests, selection, source)' /\ NotSetAgain(events, requests)'
        /\ Announced(events, selection)'
    BY <1>1, <2>1, <2>2 DEF IInv, SourceFollows
  <2> QED
    BY <1>3, <2>3, <2>4, <2>5, <2>6 DEF IInv
<1> QED
  BY <1>4, <1>5 DEF SetNoSelection, Close


LEMMA SelectionReadStep ==
    ASSUME IInv, NEW s \in Session, SelectionRead(s)
    PROVE  IInv'
<1> USE DEF portalVars, transferVars, compositorVars
<1> DEFINE r == [type |-> "receive", id |-> offer]
<1>1. /\ UNCHANGED <<portalVars, made, owner, selection, events>>
      /\ requests' = Append(requests, r) /\ offer # None /\ reads' \in 0..MaxReads
  BY ClipboardAssumption DEF SelectionRead, IInv, TypeOK
<1>2. r \in Request /\ r.type = "receive" /\ r.id = offer /\ requests \in Seq(Request)
  BY <1>1, RequestFacts DEF IInv, TypeOK
<1> HIDE DEF r
<1>3. requests' \in Seq(Request) /\ Orderly(requests', selection, source)
  BY <1>1, <1>2, AppendFacts, PushOther DEF IInv
<1>4. /\ NotSetAgain(events, requests')
      /\ \A sel : SetsOther(requests, sel) => SetsOther(requests', sel)
      /\ SetsNothing(requests') => SetsNothing(requests)
  BY <1>1, <1>2, PushSets DEF IInv
<1>5. RequestsMade(requests', made, owner)
  BY <1>1, <1>2, MadeRequests DEF IInv, Ownership
<1>6. TypeOK' /\ Ownership'
  BY <1>1, <1>3, <1>5 DEF IInv, TypeOK, Ownership, IsClipboardEnabledSession
<1>7. SourceFollows' /\ ToldFollows' /\ ToldOffer'
  BY <1>1, <1>4 DEF IInv, SourceFollows, IsOurs, IsOf, ToldFollows, ToldOffer, Listens,
                    IsClipboardEnabledSession
<1> QED
  BY <1>1, <1>3, <1>4, <1>6, <1>7 DEF IInv

\* An event is taken.
LEMMA EventTaken ==
    ASSUME IInv, events # <<>>, events' = Tail(events)
    PROVE  /\ events \in Seq(Event) /\ events' \in Seq(Event)
           /\ Head(events) \in Event /\ Head(events).id \in 0..made
           /\ EventsMade(events', made, owner)
           /\ Announced(events', selection) /\ NotSetAgain(events', requests)
           /\ \A id : IsCancelled(events, id) =>
                IsCancelled(events', id) \/ (Head(events).type = "cancelled" /\ Head(events).id = id)
           /\ AnnouncesNothing(events') /\ Head(events).type # "selection" => AnnouncesNothing(events)
<1>1. events \in Seq(Event) /\ events' \in Seq(Event) /\ Head(events) \in Event
  BY TailFacts DEF IInv, TypeOK
<1>2. EventsMade(events', made, owner) /\ Head(events).id \in 0..made
  BY <1>1, MadeEvents DEF IInv, Ownership
<1>3. /\ Announced(events', selection)
      /\ \A id : IsCancelled(events', id) => IsCancelled(events, id)
      /\ \A id : IsCancelled(events, id) =>
           IsCancelled(events', id) \/ (Head(events).type = "cancelled" /\ Head(events).id = id)
      /\ AnnouncesNothing(events') /\ Head(events).type # "selection" => AnnouncesNothing(events)
  BY <1>1, TailEvents DEF IInv
<1>4. NotSetAgain(events', requests)
  BY <1>3 DEF IInv, NotSetAgain
<1> QED
  BY <1>1, <1>2, <1>3, <1>4

LEMMA CancelledStep ==
    ASSUME IInv, Cancelled
    PROVE  IInv'
<1> USE DEF portalVars, transferVars, compositorVars
<1> DEFINE id == Head(events).id
           d == [type |-> "destroy", id |-> id]
<1>1. /\ UNCHANGED <<life, enabled, offer, told, transferVars, compositorVars>>
      /\ events # <<>> /\ events' = Tail(events) /\ Head(events).type = "cancelled"
  BY DEF Cancelled, NextEvent
<1>2. /\ events' \in Seq(Event) /\ EventsMade(events', made, owner)
      /\ id \in 0..made /\ id \in Selection /\ id # None /\ IsCancelled(events, id)
      /\ Announced(events', selection) /\ NotSetAgain(events', requests)
      /\ \A i : IsCancelled(events, i) => IsCancelled(events', i) \/ i = id
      /\ AnnouncesNothing(events') => AnnouncesNothing(events)
  <2>1. IsCancelled(events, id)
    BY <1>1, TailFacts DEF IInv, TypeOK, IsCancelled
  <2> QED
    BY <1>1, <2>1, EventTaken, EventFacts, ClipboardAssumption DEF Selection, None
<1>3. ToldOffer'
  BY <1>1 DEF IInv, ToldOffer, Listens, IsClipboardEnabledSession
<1>4. CASE source # id
  <2>1. UNCHANGED <<source, requests>>
    BY <1>4 DEF Cancelled
  <2>2. TypeOK' /\ Ownership'
    BY <1>1, <1>2, <2>1 DEF IInv, TypeOK, Ownership, IsClipboardEnabledSession
  <2>3. SourceFollows' /\ ToldFollows'
    BY <1>1, <1>2, <1>4, <2>1
    DEF IInv, SourceFollows, IsOurs, IsOf, ToldFollows, Listens, IsClipboardEnabledSession
  <2> QED
    BY <1>1, <1>2, <1>3, <2>1, <2>2, <2>3 DEF IInv
<1>5. CASE source = id
  <2>1. source' = None /\ requests' = Append(requests, d) /\ d \in Request /\ requests \in Seq(Request)
    <3>1. requests' = requests \o <<d>> /\ source' = None
      BY <1>2, <1>5 DEF Cancelled, DestroyRequests
    <3>2. d \in Request /\ requests \in Seq(Request)
      BY <1>2, RequestFacts DEF IInv, TypeOK
    <3> QED
      BY <3>1, <3>2, AppendIsConcat
  <2>2. d.type = "destroy" /\ d.id = id
    OBVIOUS
  <2> HIDE DEF d
  <2>3. \A n \in 1..Len(requests) : IsSet(requests, n) => requests[n].id # id
    BY <1>2 DEF IInv, NotSetAgain
  <2>4. id # selection /\ IsCancelled(events, id)
    BY <1>2 DEF IInv, Announced, IsCancelled
  <2>5. SetsNothing(requests)
    BY <1>5, <2>3 DEF IInv, Orderly, LastSetIsSource, SetsNothing
  <2>6. Orderly(requests, selection, None)
    BY <2>5 DEF IInv, Orderly, LastSetIsSource, SetsNothing
  <2>7. requests' \in Seq(Request) /\ Orderly(requests', selection, None)
    BY <2>1, <2>2, <2>3, <2>4, <2>6, AppendFacts, PushOther
  <2>8. RequestsMade(requests', made, owner) /\ NotSetAgain(events', requests')
        /\ \A sel : SetsOther(requests, sel) => SetsOther(requests', sel)
    <3>1. Ours(id, made, owner)
      BY <1>2, <1>5 DEF IInv, Ownership
    <3> QED
      BY <1>2, <2>1, <2>2, <3>1, MadeRequests, PushSets DEF IInv, Ownership
  <2>9. TypeOK' /\ Ownership'
    BY <1>1, <1>2, <2>1, <2>7, <2>8 DEF IInv, TypeOK, Ownership
  <2>10. SourceFollows'
    <3>1. ~IsOurs(selection)
      BY <1>5, <2>4, <2>5 DEF IInv, SourceFollows
    <3> QED
      BY <1>1, <2>1, <3>1 DEF SourceFollows, IsOurs
  <2>11. ToldFollows'
    BY <1>1, <1>2, <2>8 DEF IInv, ToldFollows, IsOf, Listens, IsClipboardEnabledSession
  <2> QED
    BY <1>1, <1>2, <1>3, <2>1, <2>7, <2>8, <2>9, <2>10, <2>11 DEF IInv
<1> QED
  BY <1>4, <1>5


LEMMA SelectionArrivesStep ==
    ASSUME IInv, SelectionArrives
    PROVE  IInv'
<1> USE DEF portalVars, transferVars, compositorVars
<1> DEFINE id == Head(events).id
<1>1. /\ UNCHANGED <<life, enabled, source, transferVars, compositorVars, requests>>
      /\ events # <<>> /\ events' = Tail(events) /\ Head(events).type = "selection"
      /\ offer' = id
      /\ told' = [s \in Session |-> IF IsClipboardEnabledSession(s) THEN OfferChanged(id, s) ELSE told[s]]
  BY DEF SelectionArrives, NextEvent
<1>2. /\ events' \in Seq(Event) /\ EventsMade(events', made, owner) /\ id \in 0..made
      /\ id \in Selection \cup {None}
      /\ Announced(events', selection) /\ NotSetAgain(events', requests)
      /\ \A i : IsCancelled(events, i) => IsCancelled(events', i)
  BY <1>1, EventTaken, EventFacts
<1>3. \A s \in Session : OfferChanged(id, s) \in Change /\ OfferChanged(id, s) # Nothing
  BY <1>2 DEF OfferChanged, Change, IsOf, Nothing
<1>4. TypeOK'
  BY <1>1, <1>2, <1>3 DEF IInv, TypeOK
<1>5. Ownership'
  BY <1>1, <1>2 DEF IInv, Ownership, IsClipboardEnabledSession
<1>6. SourceFollows'
  BY <1>1, <1>2 DEF IInv, SourceFollows, IsOurs
<1>7. ToldOffer'
  BY <1>1 DEF IInv, TypeOK, ToldOffer, Listens, IsClipboardEnabledSession, OfferChanged
<1>8. ToldFollows'
  <2> SUFFICES ASSUME AnnouncesNothing(events')
               PROVE  /\ id = selection
                      /\ \/ SetsOther(requests, selection)
                         \/ \A s \in Session : Listens(s)' => told'[s].isOwner = IsOf(selection, s)
    BY <1>1 DEF ToldFollows, IsOf
  <2>1. events \in Seq(Event) /\ \A n \in 1..Len(events) : n = 1 \/ n \in 2..Len(events)
    BY <1>1, TailFacts DEF IInv, TypeOK
  <2>2. \A m \in 1 + 1..Len(events) : ~Announces(events, m)
    <3> SUFFICES ASSUME NEW m \in 2..Len(events) PROVE ~Announces(events, m)
      OBVIOUS
    <3>1. m - 1 \in 1..Len(events') /\ events'[m - 1] = events[m]
      BY <1>1, <2>1, TailFacts
    <3> QED
      BY <3>1 DEF AnnouncesNothing, Announces
  <2>3. id = selection
    BY <1>1, <2>1, <2>2, TailFacts DEF IInv, Announced, Announces
  <2>4. \A i : ~IsCancelled(events', i)
    <3>1. events' \in Seq(Event) /\ Len(events') \in Nat
      BY <1>2, LenProperties
    <3>2. \A n \in 1..Len(events') : \A m \in n + 1..Len(events') : m \in 1..Len(events')
      BY <3>1
    <3> QED
      BY <1>2, <3>2 DEF Announced, AnnouncesNothing, IsCancelled
  <2>5. \A s \in Session : Listens(s)' => told'[s].isOwner = IsOf(source, s)
    BY <1>1 DEF Listens, IsClipboardEnabledSession, OfferChanged
  <2>6. CASE SetsNothing(requests)
    <3>1. (source # None /\ source = selection) \/ (~IsOurs(selection) /\ source = None)
      BY <1>1, <1>6, <2>4, <2>6 DEF SourceFollows, IsOurs
    <3>2. \A s \in Session : IsOf(source, s) = IsOf(selection, s)
      BY <3>1 DEF IsOf, IsOurs
    <3> QED
      BY <2>3, <2>5, <3>2
  <2>7. CASE ~SetsNothing(requests) /\ ~SetsOther(requests, selection)
    <3>1. PICK n \in 1..Len(requests) : IsSet(requests, n) /\ requests[n].id = selection
      BY <2>7 DEF SetsNothing, SetsOther
    <3>2. selection = None
      BY <3>1 DEF IInv, Orderly, SetOnce
    <3>3. source = None
      <4>1. requests \in Seq(Request) /\ Len(requests) \in Nat
        BY LenProperties DEF IInv, TypeOK
      <4>2. \A m \in n + 1..Len(requests) : m \in 1..Len(requests)
        BY <4>1
      <4> QED
        BY <2>7, <3>1, <3>2, <4>2 DEF IInv, Orderly, LastSetIsSource, SetsOther
    <3>4. \A s \in Session : IsOf(source, s) = IsOf(selection, s)
      BY <3>2, <3>3 DEF IsOf
    <3> QED
      BY <2>3, <2>5, <3>4
  <2> QED
    BY <2>3, <2>6, <2>7
<1> QED
  BY <1>1, <1>2, <1>4, <1>5, <1>6, <1>7, <1>8 DEF IInv

LEMMA DataRequestedStep ==
    ASSUME IInv, DataRequested
    PROVE  IInv'
<1> USE DEF portalVars, transferVars, compositorVars
<1>1. /\ UNCHANGED <<life, enabled, source, offer, told, compositorVars, requests>>
      /\ events # <<>> /\ events' = Tail(events) /\ Head(events).type = "send"
      /\ \/ UNCHANGED transferVars
         \/ /\ source = Head(events).id
            /\ transfers' = transfers \cup {[serial |-> serial, id |-> source, to |-> owner[source]]}
            /\ serial' = serial + 1
  BY DEF DataRequested, NextEvent
<1>2. /\ events' \in Seq(Event) /\ EventsMade(events', made, owner) /\ Head(events).id \in Selection
      /\ Announced(events', selection) /\ NotSetAgain(events', requests)
      /\ \A i : IsCancelled(events, i) => IsCancelled(events', i)
      /\ AnnouncesNothing(events') => AnnouncesNothing(events)
  BY <1>1, EventTaken, EventFacts
<1>3. transfers' \subseteq {t \in Transfer : t.serial < serial'} /\ serial' \in Nat
  <2>1. CASE UNCHANGED transferVars
    BY <2>1 DEF IInv, TypeOK
  <2>2. CASE /\ source = Head(events).id
             /\ transfers' = transfers \cup {[serial |-> serial, id |-> source, to |-> owner[source]]}
             /\ serial' = serial + 1
    <3>1. source \in Selection /\ source # None /\ owner[source] \in Session
      BY <1>2, <2>2, ClipboardAssumption DEF IInv, Ownership, Ours, Selection, None
    <3>2. [serial |-> serial, id |-> source, to |-> owner[source]] \in {t \in Transfer : t.serial < serial'}
      BY <2>2, <3>1 DEF IInv, TypeOK, Transfer
    <3>3. \A t \in transfers : t \in {u \in Transfer : u.serial < serial'}
      BY <2>2 DEF IInv, TypeOK, Transfer
    <3> QED
      BY <2>2, <3>2, <3>3 DEF IInv, TypeOK
  <2> QED
    BY <1>1, <2>1, <2>2
<1>4. TypeOK'
  BY <1>1, <1>2, <1>3 DEF IInv, TypeOK
<1>5. Ownership'
  BY <1>1, <1>2 DEF IInv, Ownership, IsClipboardEnabledSession
<1>6. SourceFollows' /\ ToldFollows' /\ ToldOffer'
  BY <1>1, <1>2 DEF IInv, SourceFollows, IsOurs, IsOf, ToldFollows, ToldOffer, Listens,
                    IsClipboardEnabledSession
<1> QED
  BY <1>1, <1>2, <1>4, <1>5, <1>6 DEF IInv

-----------------------------------------------------------------------------
(* The compositor's steps.                                                 *)

\* The selection changes; nothing that was cancelled becomes it.
LEMMA SelectKeeps ==
    ASSUME TypeOK, NEW id \in Selection \cup {None}, ~IsCancelled(events, id), id # selection, Select(id)
    PROVE  /\ events' \in Seq(Event) /\ selection' = id
           /\ Announced(events', id) /\ ~AnnouncesNothing(events')
           /\ \A i : IsCancelled(events', i) <=>
                IsCancelled(events, i) \/ (IsOurs(selection) /\ i = selection)
           /\ \A m, o : /\ EventsMade(events, m, o) /\ id \in 0..m
                        /\ IsOurs(selection) => selection \in 0..m /\ Ours(selection, m, o)
                        => EventsMade(events', m, o)
<1> DEFINE a == [type |-> "selection", id |-> id]
           c == [type |-> "cancelled", id |-> selection]
           e == Append(events, c)
<1>1. /\ selection' = id /\ a \in Event /\ events \in Seq(Event)
      /\ ~IsOurs(selection) => events' = Append(events, a)
      /\ IsOurs(selection) => c \in Event /\ e \in Seq(Event) /\ events' = Append(e, a)
  BY SelectSends DEF TypeOK
<1>2. a.type = "selection" /\ a.id = id /\ c.type = "cancelled" /\ c.id = selection
  OBVIOUS
<1> HIDE DEF a, c, e
<1>3. CASE ~IsOurs(selection)
  <2>1. Announced(events', id) /\ ~AnnouncesNothing(events')
        /\ \A i : IsCancelled(events', i) <=> IsCancelled(events, i)
    <3>1. /\ \A i : IsCancelled(Append(events, a), i) <=>
                IsCancelled(events, i) \/ (a.type = "cancelled" /\ a.id = i)
          /\ AnnouncesNothing(Append(events, a)) => a.type # "selection"
          /\ a.type = "selection" /\ ~IsCancelled(events, a.id) => Announced(Append(events, a), a.id)
      BY <1>1, AppendEvents
    <3> QED
      BY <1>1, <1>2, <1>3, <3>1
  <2>2. \A m, o : EventsMade(events, m, o) /\ id \in 0..m => EventsMade(events', m, o)
    BY <1>1, <1>2, <1>3, MadeEvents
  <2> QED
    BY <1>1, <1>3, <2>1, <2>2, AppendFacts
<1>4. CASE IsOurs(selection)
  <2>1. \A i : IsCancelled(e, i) <=> IsCancelled(events, i) \/ i = selection
    BY <1>1, <1>2, <1>4, AppendEvents DEF e
  <2>2. Announced(events', id) /\ ~AnnouncesNothing(events')
        /\ \A i : IsCancelled(events', i) <=> IsCancelled(e, i)
    <3>1. /\ \A i : IsCancelled(Append(e, a), i) <=>
                IsCancelled(e, i) \/ (a.type = "cancelled" /\ a.id = i)
          /\ AnnouncesNothing(Append(e, a)) => a.type # "selection"
          /\ a.type = "selection" /\ ~IsCancelled(e, a.id) => Announced(Append(e, a), a.id)
      BY <1>1, <1>4, AppendEvents
    <3> QED
      BY <1>1, <1>2, <1>4, <2>1, <3>1
  <2>3. ASSUME NEW m, NEW o, EventsMade(events, m, o), id \in 0..m, selection \in 0..m,
               Ours(selection, m, o)
        PROVE  EventsMade(events', m, o)
    <3>1. EventsMade(e, m, o)
      BY <1>1, <1>2, <1>4, <2>3, MadeEvents DEF e
    <3> QED
      BY <1>1, <1>2, <1>4, <2>3, <3>1, MadeEvents
  <2> QED
    BY <1>1, <1>4, <2>1, <2>2, <2>3, AppendFacts
<1> QED
  BY <1>3, <1>4

\* A request is taken.
LEMMA RequestTaken ==
    ASSUME IInv, requests # <<>>, requests' = Tail(requests)
    PROVE  /\ requests' \in Seq(Request) /\ Head(requests) \in Request
           /\ RequestsMade(requests', made, owner) /\ Head(requests).id \in 0..made
           /\ Head(requests).type # "receive" /\ Head(requests).id # None => Ours(Head(requests).id, made, owner)
           /\ NotSetAgain(events, requests')
           /\ Orderly(requests', IF Head(requests).type = "set_selection" THEN Head(requests).id
                                                                     ELSE selection, source)
           /\ SetsNothing(requests') /\ Head(requests).type # "set_selection" => SetsNothing(requests)
           /\ \A sel : SetsOther(requests, sel) /\ (Head(requests).type = "set_selection" => Head(requests).id = sel)
                => SetsOther(requests', sel)
<1>1. requests \in Seq(Request) /\ requests' \in Seq(Request) /\ Head(requests) \in Request
  BY TailFacts DEF IInv, TypeOK
<1> QED
  BY <1>1, MadeRequests, TakeSets, Take DEF IInv, Ownership


LEMMA HandleSetSelectionStep ==
    ASSUME IInv, HandleSetSelection
    PROVE  IInv'
<1> USE DEF portalVars, transferVars, compositorVars
<1> DEFINE h == Head(requests).id
<1>1. /\ UNCHANGED <<portalVars, made, owner, reads>>
      /\ requests # <<>> /\ requests' = Tail(requests) /\ Head(requests).type = "set_selection"
      /\ h = selection => UNCHANGED <<selection, events>>
      /\ h # selection => Select(h)
  BY DEF HandleSetSelection
<1>2. /\ requests' \in Seq(Request) /\ RequestsMade(requests', made, owner) /\ h \in 0..made
      /\ h \in Selection \cup {None} /\ (h # None => Ours(h, made, owner))
      /\ NotSetAgain(events, requests') /\ Orderly(requests', h, source)
      /\ h = selection /\ SetsOther(requests, selection) => SetsOther(requests', selection)
  BY <1>1, RequestTaken, RequestFacts
<1>3. /\ requests \in Seq(Request) /\ 1 \in 1..Len(requests) /\ IsSet(requests, 1)
      /\ h = requests[1].id
      /\ SetsNothing(requests') => \A m \in 1 + 1..Len(requests) : ~IsSet(requests, m)
  <2>1. \A n \in 2..Len(requests) : n - 1 \in 1..Len(requests') /\ requests'[n - 1] = requests[n]
    BY <1>1, TailFacts DEF IInv, TypeOK
  <2>2. SetsNothing(requests') => \A m \in 2..Len(requests) : ~IsSet(requests, m)
    BY <2>1 DEF SetsNothing, IsSet
  <2> QED
    BY <1>1, <2>2, TailFacts DEF IInv, TypeOK, IsSet
<1>4. SetsNothing(requests') => h = source
  BY <1>3 DEF IInv, Orderly, LastSetIsSource
<1>5. ToldOffer'
  BY <1>1 DEF IInv, ToldOffer, Listens, IsClipboardEnabledSession
<1>6. CASE h = selection
  <2>1. TypeOK' /\ Ownership'
    BY <1>1, <1>2, <1>6 DEF IInv, TypeOK, Ownership, IsClipboardEnabledSession
  <2>2. SourceFollows'
    BY <1>1, <1>4, <1>6 DEF SourceFollows, IsOurs
  <2>3. ToldFollows'
    BY <1>1, <1>2, <1>6 DEF IInv, ToldFollows, IsOf, Listens, IsClipboardEnabledSession
  <2> QED
    BY <1>1, <1>2, <1>5, <1>6, <2>1, <2>2, <2>3 DEF IInv
<1>7. CASE h # selection
  <2>1. ~IsCancelled(events, h)
    <3>1. CASE h = None
      BY <3>1, ClipboardAssumption DEF IInv, Ownership, EventsMade, Ours, IsCancelled, None
    <3>2. CASE h # None
      BY <1>3, <3>2 DEF IInv, NotSetAgain
    <3> QED
      BY <3>1, <3>2
  <2>2. /\ events' \in Seq(Event) /\ selection' = h /\ Announced(events', h) /\ ~AnnouncesNothing(events')
        /\ \A i : IsCancelled(events', i) => IsCancelled(events, i) \/ (IsOurs(selection) /\ i = selection)
        /\ EventsMade(events', made, owner)
    <3>1. IsOurs(selection) => selection \in 0..made /\ Ours(selection, made, owner)
      BY DEF IInv, TypeOK, Ownership, IsOurs, Ours, None
    <3>2. Select(h) /\ TypeOK /\ EventsMade(events, made, owner)
      BY <1>1, <1>7 DEF IInv, Ownership
    <3> QED
      BY <1>2, <1>7, <2>1, <3>1, <3>2, SelectKeeps
  <2>3. NotSetAgain(events', requests')
    <3>1. \A n \in 1..Len(requests') : n + 1 \in 1..Len(requests) /\ requests'[n] = requests[n + 1]
      BY <1>1, <1>3, TailFacts
    <3>2. \A n \in 1..Len(requests') : IsSet(requests', n) /\ requests'[n].id # None => requests'[n].id # selection
      BY <3>1 DEF IInv, Orderly, SetOnce, IsSet
    <3> QED
      BY <1>2, <2>2, <3>2 DEF NotSetAgain
  <2>4. TypeOK' /\ Ownership'
    BY <1>1, <1>2, <2>2 DEF IInv, TypeOK, Ownership, IsClipboardEnabledSession
  <2>5. SourceFollows' /\ ToldFollows'
    BY <1>1, <1>4, <2>2 DEF SourceFollows, ToldFollows, IsOurs
  <2> QED
    BY <1>1, <1>2, <1>5, <2>2, <2>3, <2>4, <2>5 DEF IInv
<1> QED
  BY <1>6, <1>7

\* What is destroyed is not the selection.
LEMMA DestroyHarmless ==
    ASSUME IInv, requests # <<>>, Head(requests).type = "destroy"
    PROVE  Head(requests).id # selection
<1>1. 1 \in 1..Len(requests) /\ Head(requests) = requests[1] /\ IsDestroy(requests, 1)
  BY TailFacts DEF IInv, TypeOK, IsDestroy
<1>2. 1..1 - 1 = {}
  OBVIOUS
<1> QED
  BY <1>1, <1>2 DEF IInv, Orderly, DestroyedBehind

\* A request that sets nothing is handled, or data are asked for.
LEMMA PassStep ==
    ASSUME IInv, HandleDestroy \/ HandleReceive \/ ForeignReads
    PROVE  IInv'
<1> USE DEF portalVars, transferVars, compositorVars
<1>1. /\ UNCHANGED <<portalVars, made, owner, selection>> /\ reads' \in 0..MaxReads
      /\ \/ UNCHANGED requests
         \/ requests # <<>> /\ requests' = Tail(requests) /\ Head(requests).type # "set_selection"
      /\ \/ UNCHANGED events
         \/ \E id \in Selection : id \in 0..made /\ events' = Append(events, [type |-> "send", id |-> id])
  <2>1. CASE HandleDestroy
    BY <2>1, DestroyHarmless DEF HandleDestroy, IInv, TypeOK
  <2>2. CASE HandleReceive
    <3>1. requests # <<>> /\ requests' = Tail(requests) /\ Head(requests).type = "receive"
          /\ UNCHANGED <<portalVars, compositorVars>>
      BY <2>2 DEF HandleReceive
    <3>2. Head(requests).id \in 0..made /\ Head(requests).id \in Selection
      BY <3>1, RequestTaken, RequestFacts
    <3>3. UNCHANGED events \/ events' = Append(events, [type |-> "send", id |-> Head(requests).id])
      BY <2>2 DEF HandleReceive
    <3> QED
      BY <3>1, <3>2, <3>3 DEF IInv, TypeOK
  <2>3. CASE ForeignReads
    BY <2>3, ClipboardAssumption DEF ForeignReads, IsOurs, IInv, TypeOK, Ownership
  <2> QED
    BY <2>1, <2>2, <2>3
<1>2. /\ requests' \in Seq(Request) /\ RequestsMade(requests', made, owner)
      /\ NotSetAgain(events, requests') /\ Orderly(requests', selection, source)
      /\ SetsNothing(requests') => SetsNothing(requests)
      /\ \A sel : SetsOther(requests, sel) => SetsOther(requests', sel)
  <2>1. CASE UNCHANGED requests
    BY <2>1 DEF IInv, TypeOK, Ownership
  <2>2. CASE requests # <<>> /\ requests' = Tail(requests) /\ Head(requests).type # "set_selection"
    BY <2>2, RequestTaken
  <2> QED
    BY <1>1, <2>1, <2>2
<1>3. /\ events' \in Seq(Event) /\ EventsMade(events', made, owner)
      /\ Announced(events', selection) /\ \A i : IsCancelled(events', i) <=> IsCancelled(events, i)
      /\ AnnouncesNothing(events') => AnnouncesNothing(events)
  <2>1. CASE UNCHANGED events
    BY <2>1 DEF IInv, TypeOK, Ownership
  <2>2. CASE \E id \in Selection : id \in 0..made /\ events' = Append(events, [type |-> "send", id |-> id])
    <3>0. PICK id \in Selection : id \in 0..made /\ events' = Append(events, [type |-> "send", id |-> id])
      BY <2>2
    <3> DEFINE r == [type |-> "send", id |-> id]
    <3>1. r \in Event /\ r.type = "send" /\ r.id = id /\ events \in Seq(Event)
      BY EventFacts DEF IInv, TypeOK
    <3> HIDE DEF r
    <3>2. events' = Append(events, r)
      BY <3>0 DEF r
    <3>3. EventsMade(events', made, owner)
      BY <3>0, <3>1, <3>2, MadeEvents DEF IInv, Ownership
    <3> QED
      BY <3>1, <3>2, <3>3, AppendEvents, AppendFacts DEF IInv
  <2> QED
    BY <1>1, <2>1, <2>2
<1>4. NotSetAgain(events', requests')
  BY <1>2, <1>3 DEF NotSetAgain
<1>5. TypeOK' /\ Ownership'
  BY <1>1, <1>2, <1>3 DEF IInv, TypeOK, Ownership, IsClipboardEnabledSession
<1>6. SourceFollows' /\ ToldFollows' /\ ToldOffer'
  BY <1>1, <1>2, <1>3 DEF IInv, SourceFollows, IsOurs, IsOf, ToldFollows, ToldOffer, Listens,
                         IsClipboardEnabledSession
<1> QED
  BY <1>1, <1>2, <1>3, <1>4, <1>5, <1>6 DEF IInv

LEMMA ForeignStep ==
    ASSUME IInv, ForeignSelects \/ ForeignEnds
    PROVE  IInv'
<1> USE DEF portalVars, transferVars, compositorVars
<1>1. PICK id \in Selection \cup {None} :
         /\ Select(id) /\ id # selection /\ ~IsCancelled(events, id)
         /\ id # None => \A n \in 1..Len(requests) : requests[n].id # id
         /\ UNCHANGED <<portalVars, reads, requests>>
         /\ made' \in 0..MaxSelections /\ id \in 0..made'
         /\ owner' \in [Selection -> Session \cup {"none", "foreign"}]
         /\ \A i \in 1..made' : owner'[i] \in Session \cup {"foreign"}
         /\ id # None => owner'[id] \notin Session
         /\ \A i \in 1..made : owner'[i] = owner[i] /\ i \in 1..made'
         /\ \A i : Ours(i, made, owner) => Ours(i, made', owner')
         /\ RequestsMade(requests, made', owner') /\ EventsMade(events, made', owner')
         /\ selection \in 0..made' /\ offer \in 0..made'
  <2>1. CASE ForeignSelects
    <3>1. Make("foreign") /\ Select(made + 1) /\ UNCHANGED <<portalVars, reads, requests>>
      BY <2>1 DEF ForeignSelects
    <3>2. /\ made + 1 \in Selection /\ made + 1 # None
          /\ made \in Nat /\ made' = made + 1 /\ made' \in 0..MaxSelections
          /\ owner' \in [Selection -> Session \cup {"none", "foreign"}]
          /\ owner'[made + 1] = "foreign"
          /\ \A i \in 1..made : owner'[i] = owner[i]
          /\ \A i \in 1..made' : owner'[i] \in Session \cup {"foreign"}
          /\ selection # made + 1 /\ source # made + 1
          /\ \A n \in 1..Len(requests) : requests[n].id # made + 1
          /\ ~IsCancelled(events, made + 1)
      BY <3>1, Makes DEF IInv
    <3>3. /\ \A i : Ours(i, made, owner) => Ours(i, made + 1, owner')
          /\ RequestsMade(requests, made + 1, owner') /\ EventsMade(events, made + 1, owner')
      BY <3>2, MadeMore DEF IInv, TypeOK, Ownership
    <3>4. selection \in 0..made' /\ offer \in 0..made' /\ made + 1 \in 0..made'
          /\ \A i \in 1..made : i \in 1..made'
      BY <3>2 DEF IInv, Ownership
    <3>5. "foreign" \notin Session
      BY ClipboardAssumption
    <3> QED
      BY <3>1, <3>2, <3>3, <3>4, <3>5
  <2>2. CASE ForeignEnds
    <3>1. Select(None) /\ selection # None /\ UNCHANGED <<portalVars, made, owner, reads, requests>>
      BY <2>2 DEF ForeignEnds, IsOf
    <3>2. ~IsCancelled(events, None)
      BY DEF IInv, Ownership, EventsMade, Ours, IsCancelled, None
    <3>3. None \in 0..made
      BY DEF IInv, TypeOK, None
    <3> QED
      BY <3>1, <3>2, <3>3 DEF IInv, TypeOK, Ownership
  <2> QED
    BY <2>1, <2>2
<1>2. IsOurs(selection) => selection \in 0..made' /\ Ours(selection, made', owner')
  <2>1. IsOurs(selection) => Ours(selection, made, owner)
    BY DEF IInv, TypeOK, Ownership, IsOurs, Ours, None
  <2> QED
    BY <1>1, <2>1
<1>3. /\ events' \in Seq(Event) /\ selection' = id /\ Announced(events', id) /\ ~AnnouncesNothing(events')
      /\ \A i : IsCancelled(events', i) <=> IsCancelled(events, i) \/ (IsOurs(selection) /\ i = selection)
      /\ EventsMade(events', made', owner')
  BY <1>1, <1>2, SelectKeeps DEF IInv
<1>4. Orderly(requests', selection', source')
  BY <1>1, <1>3, Retake DEF IInv, TypeOK
<1>5. NotSetAgain(events', requests')
  BY <1>1, <1>3 DEF IInv, NotSetAgain, Orderly, SetOnce
<1>6. TypeOK'
  BY <1>1, <1>3 DEF IInv, TypeOK
<1>7. Ownership'
  <2>1. source # None => /\ Ours(source, made', owner') /\ owner'[source] = owner[source]
                         /\ IsClipboardEnabledSession(owner[source])
    BY <1>1 DEF IInv, Ownership, Ours
  <2> QED
    BY <1>1, <1>3, <2>1 DEF Ownership, IsClipboardEnabledSession
<1>8. SourceFollows'
  <2>1. ~IsOurs(selection)'
    BY <1>1, <1>3 DEF IsOurs
  <2>2. SetsNothing(requests) => source = None \/ IsCancelled(events, source) \/ (IsOurs(selection) /\ source = selection)
    <3>1. source # None /\ source = selection => IsOurs(selection)
      BY DEF IInv, Ownership, Ours, IsOurs
    <3> QED
      BY <3>1 DEF IInv, SourceFollows
  <2> QED
    BY <1>1, <1>3, <2>1, <2>2 DEF SourceFollows
<1>9. ToldFollows' /\ ToldOffer'
  BY <1>1, <1>3 DEF IInv, ToldFollows, ToldOffer, Listens, IsClipboardEnabledSession
<1> QED
  BY <1>3, <1>4, <1>5, <1>6, <1>7, <1>8, <1>9 DEF IInv

LEMMA IInvStep == IInv /\ [Next]_vars => IInv'
<1> SUFFICES ASSUME IInv, [Next]_vars PROVE IInv'
  OBVIOUS
<1> QED
  BY QuietStep, SetSelectionStep, SetNothingStep, SelectionReadStep, CancelledStep, SelectionArrivesStep,
     DataRequestedStep, HandleSetSelectionStep, PassStep, ForeignStep DEF Next

-----------------------------------------------------------------------------
(* The theorems.                                                           *)

LEMMA Invariant == Spec => []IInv
BY InitIInv, IInvStep, PTL DEF Spec

\* Every variable keeps its type, and no serial is handed out twice.
THEOREM TypeCorrect == Spec => []TypeOK
<1>1. IInv => TypeOK
  BY DEF IInv
<1> QED
  BY <1>1, Invariant, PTL

\* For any number of sessions and selections, and however requests and events are
\* under way at once: m_source is of a session that is open, and without any under
\* way it is the selection, if that is of a session.
THEOREM SourceFollowsSelection == Spec => []SourceCatchesUp
<1>1. IInv => SourceCatchesUp
  <2> SUFFICES ASSUME IInv PROVE SourceCatchesUp
    OBVIOUS
  <2>1. OwnerIsOpen
    BY DEF IInv, Ownership, Ours, OwnerIsOpen, IsOf, IsClipboardEnabledSession
  <2>2. ASSUME Quiet PROVE source = IF IsOurs(selection) THEN selection ELSE None
    <3>1. 1..Len(requests) = {} /\ 1..Len(events) = {}
      BY <2>2 DEF Quiet
    <3>2. source # None => IsOurs(source)
      BY DEF IInv, Ownership, Ours, IsOurs
    <3> QED
      BY <3>1, <3>2 DEF IInv, SourceFollows, SetsNothing, IsCancelled
  <2> QED
    BY <2>1, <2>2 DEF SourceCatchesUp
<1> QED
  BY <1>1, Invariant, PTL

\* For any number of sessions and selections: once nothing is under way, every session
\* that was told of the selection has been told right.
THEOREM SessionsAreToldRight == Spec => []ToldRight
<1>1. IInv => ToldRight
  <2> SUFFICES ASSUME IInv, Quiet, NEW s \in Session, IsClipboardEnabledSession(s), told[s] # Nothing
               PROVE  told[s] = [offer |-> selection, isOwner |-> IsOf(selection, s)]
    BY DEF ToldRight
  <2>1. 1..Len(requests) = {} /\ 1..Len(events) = {}
    BY DEF Quiet
  <2>2. told[s].offer = selection /\ told[s].isOwner = IsOf(selection, s)
    BY <2>1 DEF IInv, ToldFollows, ToldOffer, Listens, AnnouncesNothing, SetsOther
  <2>3. told[s] \in Change
    BY DEF IInv, TypeOK
  <2> QED
    BY <2>2, <2>3 DEF Change
<1> QED
  BY <1>1, Invariant, PTL

\* The compositor never destroys the source that is the selection.
THEOREM DestroysLeaveNoGap == Spec => NoGap
<1>1. ASSUME IInv, Next, requests # <<>>, Head(requests).type = "destroy", requests' = Tail(requests)
      PROVE  selection' = selection
  <2>1. UNCHANGED selection \/ HandleSetSelection \/ HandleDestroy \/ UNCHANGED requests
    BY <1>1 DEF Next, CreateSession, RequestClipboard, Close, SetSelection, SetNoSelection, SelectionRead,
       SelectionWriteDone, Cancelled, SelectionArrives, DataRequested, HandleReceive, ForeignSelects,
       ForeignEnds, ForeignReads, compositorVars
  <2>2. ~HandleSetSelection
    BY <1>1 DEF HandleSetSelection
  <2>3. HandleDestroy => UNCHANGED selection
    BY <1>1, DestroyHarmless DEF HandleDestroy
  <2>4. ~UNCHANGED requests
    BY <1>1, TailFacts DEF IInv, TypeOK
  <2> QED
    BY <2>1, <2>2, <2>3, <2>4
<1>2. IInv /\ [Next]_vars =>
        [requests # <<>> /\ Head(requests).type = "destroy" /\ requests' = Tail(requests)
           => selection' = selection]_vars
  BY <1>1
<1> QED
  BY <1>2, Invariant, PTL DEF Spec, NoGap

=============================================================================
