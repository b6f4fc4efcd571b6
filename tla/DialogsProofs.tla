---------------------------- MODULE DialogsProofs ----------------------------
(* Theorems about Dialogs: its type invariant, that the map of choosers    *)
(* never names a dialog that is gone, and that Dialogs implements          *)
(* CallPromise.                                                            *)
EXTENDS Dialogs, SequenceTheorems, TLAPS

-----------------------------------------------------------------------------
\* A call that has not been made has left nothing anywhere.
Fresh ==
    \A c \in Call :
        /\ kind[c] = "none" => dialog[c] = "none" /\ replies[c] = <<>>
        /\ dialog[c] = "none" => c \notin requests /\ tokens[c] = 0

\* A dialog on the screen has not replied and will; one that has ended has.
Replied ==
    \A c \in Call :
        /\ dialog[c] = "shown" => replies[c] = <<>> /\ c \in waiting
        /\ dialog[c] \in {"ended", "gone"} => replies[c] # <<>>

\* Nothing reaches a dialog that has been deleted.
Gone == \A c \in Call : dialog[c] = "gone" => c \notin requests /\ tokens[c] = 0

\* A token is on its way for an application the user has selected.
Selected == \A c \in Call : tokens[c] > 0 => c \in agreed /\ kind[c] \in Chooser

Listed == choosers \subseteq {c \in Call : dialog[c] = "shown" /\ kind[c] = "choose"}

Types ==
    /\ kind \in [Call -> Kind \cup {"none"}]
    /\ dialog \in [Call -> {"none", "shown", "ended", "gone"}]
    /\ requests \subseteq Call
    /\ waiting \subseteq Call
    /\ replies \in [Call -> Seq(Response)]
    /\ choosers \subseteq Call
    /\ tokens \in [Call -> 0..MaxPending]
    /\ shots \in [Call -> 0..MaxPending]
    /\ image \subseteq Call
    /\ agreed \subseteq Call
    /\ acted \subseteq Call

\* What may still be replied to a call, and what was.
ToCome(c) == tokens[c] + (IF c \in requests THEN 1 ELSE 0)
Counted == \A c \in Call : Len(replies[c]) + ToCome(c) <= MaxPending + 2

IInv == Types /\ Counted /\ Fresh /\ Replied /\ Gone /\ Selected /\ Listed

LEMMA IInvTypeOK == IInv => TypeOK
BY DEF IInv, Types, Counted, ToCome, TypeOK

LEMMA InitIInv == Init => IInv
BY DialogsAssumption
   DEF Init, IInv, Types, Counted, ToCome, Fresh, Replied, Gone, Selected, Listed, Kind, Response

-----------------------------------------------------------------------------
(* Every step but the shape of the invariant, by what it does to a call.   *)

\* A method is called.
Begins(c) ==
    /\ kind[c] = "none"
    /\ \E k \in Kind : kind' = [kind EXCEPT ![c] = k]
    /\ requests' \in {requests, requests \cup {c}}
    /\ UNCHANGED <<tokens, shots, image>>
    /\ choosers' \in {choosers, choosers \cup {c}}
    /\ c \in choosers' => c \in choosers \/ kind'[c] = "choose"

\* It shows a dialog.
Shows(c) ==
    /\ Begins(c)
    /\ dialog' = [dialog EXCEPT ![c] = "shown"]
    /\ waiting' = waiting \cup {c}
    /\ UNCHANGED <<replies, agreed, acted>>

\* It is answered at once; a dialog that was made is left to be deleted.
Answers(c, r) ==
    /\ Begins(c)
    /\ replies' = [replies EXCEPT ![c] = Append(@, r)]
    /\ UNCHANGED <<choosers, waiting>>
    /\ agreed' \in {agreed, agreed \cup {c}}
    /\ acted' \in {acted, acted \cup {c}}
    /\ r = "Success" \/ acted' # acted => c \in agreed'
    /\ \/ UNCHANGED <<dialog, requests>>
       \/ dialog' = [dialog EXCEPT ![c] = "ended"]

\* A dialog is finished, perhaps not for the first time.
Finishes(c, r) ==
    /\ dialog[c] \in {"shown", "ended"}
    /\ dialog' = [dialog EXCEPT ![c] = "ended"]
    /\ replies' = IF c \in waiting THEN [replies EXCEPT ![c] = Append(@, r)] ELSE replies
    /\ choosers' = IF kind[c] = "choose" THEN choosers \ {c} ELSE choosers
    /\ UNCHANGED <<kind, waiting>>
    /\ shots' = shots /\ image' = image
    /\ \/ dialog[c] = "shown" /\ UNCHANGED <<requests, tokens>>
       \/ c \in requests /\ requests' = requests \ {c} /\ UNCHANGED tokens
       \/ /\ tokens[c] > 0
          /\ tokens' = [tokens EXCEPT ![c] = @ - 1]
          /\ UNCHANGED requests
    /\ agreed' \in {agreed, agreed \cup {c}}
    /\ acted' \in {acted, acted \cup {c}}
    /\ r = "Success" => c \in agreed'
    /\ agreed' # agreed \/ acted' # acted => c \in agreed' /\ dialog[c] = "shown"

LEMMA CallsBegin ==
    ASSUME NEW c \in Call, Types,
           \/ AccessDialog(c) \/ GetUserInformation(c) \/ PrepareInstall(c) \/ AcquireDevices(c)
           \/ SetWallpaperURI(c) \/ Screenshot(c) \/ PickColor(c) \/ ComposeEmail(c)
           \/ ChooseApplication(c) \/ ChooseApplicationPrivate(c)
    PROVE  Shows(c) \/ \E r \in Response : Answers(c, r)
<1> USE DEF Types, Called, Begins, Shows, Answers, Kind, Closable, Chooser, callVars, pendingVars
<1>1. CASE AccessDialog(c)
  BY <1>1 DEF AccessDialog, ShowDialog, Register
<1>2. CASE GetUserInformation(c)
  BY <1>2 DEF GetUserInformation, ShowDialog, Register
<1>3. CASE PrepareInstall(c)
  BY <1>3 DEF PrepareInstall, ShowDialog, Register
<1>4. CASE AcquireDevices(c)
  BY <1>4 DEF AcquireDevices, ShowDialog, Register
<1>5. CASE SetWallpaperURI(c)
  BY <1>5 DEF SetWallpaperURI, ShowDialog, Register, AnswerAtOnce, NoDialog, Response
<1>6. CASE Screenshot(c)
  BY <1>6 DEF Screenshot, ShowDialog, Register, AnswerAtOnce, NoDialog, Response
<1>7. CASE PickColor(c)
  BY <1>7 DEF PickColor, AnswerAtOnce, NoDialog, Response
<1>8. CASE ComposeEmail(c)
  BY <1>8 DEF ComposeEmail, ShowDialog, Register
<1>9. CASE ChooseApplication(c)
  BY <1>9 DEF ChooseApplication, ShowDialog, Register
<1>10. CASE ChooseApplicationPrivate(c)
  BY <1>10 DEF ChooseApplicationPrivate, ShowDialog, Register, AnswerAtOnce, NoDialog, Response
<1> QED
  BY <1>1, <1>2, <1>3, <1>4, <1>5, <1>6, <1>7, <1>8, <1>9, <1>10

\* A reply more makes the list of replies longer by one, and keeps the first.
LEMMA OneReply ==
    ASSUME NEW s \in Seq(Response), NEW r \in Response
    PROVE  /\ Append(s, r) \in Seq(Response)
           /\ Append(s, r) # <<>>
           /\ Len(Append(s, r)) = Len(s) + 1
           /\ Len(s) \in Nat
           /\ s = <<>> <=> Len(s) = 0
           /\ Head(Append(s, r)) = IF s = <<>> THEN r ELSE Head(s)
<1>1. /\ Append(s, r) \in Seq(Response)
      /\ Append(s, r) # <<>>
      /\ Len(Append(s, r)) = Len(s) + 1
      /\ \A i \in 1..Len(s) : Append(s, r)[i] = s[i]
      /\ Append(s, r)[Len(s) + 1] = r
  BY AppendProperties
<1>2. Len(s) \in Nat
  OBVIOUS
<1>3. s = <<>> <=> Len(s) = 0
  BY EmptySeq
<1>4. Head(Append(s, r)) = Append(s, r)[1] /\ Head(s) = s[1]
  BY <1>1
<1>5. Head(Append(s, r)) = IF s = <<>> THEN r ELSE Head(s)
  BY <1>1, <1>2, <1>3, <1>4
<1> QED
  BY <1>1, <1>2, <1>3, <1>5

LEMMA NoneIsNoKind == "none" \notin Kind
BY DEF Kind, Closable, Chooser

LEMMA BeginsFresh ==
    ASSUME NEW c \in Call, IInv, Begins(c)
    PROVE  /\ dialog[c] = "none" /\ replies[c] = <<>> /\ tokens[c] = 0
           /\ c \notin requests /\ c \notin choosers
BY DEF Begins, IInv, Types, Fresh, Listed

LEMMA ShowsKeepsIInv ==
    ASSUME NEW c \in Call, IInv, Shows(c)
    PROVE  IInv'
<1> USE DialogsAssumption DEF IInv, Shows, Begins, Types
<1>1. /\ dialog[c] = "none" /\ replies[c] = <<>> /\ tokens[c] = 0
      /\ c \notin requests /\ c \notin choosers
  BY BeginsFresh
<1>2. Types'
  BY DEF Kind
<1>3. ASSUME NEW d \in Call
      PROVE  Len(replies'[d]) + ToCome(d)' <= MaxPending + 2
  <2>1. CASE d # c
    BY <2>1 DEF Counted, ToCome
  <2>2. CASE d = c
    BY <1>1, <2>2, EmptySeq DEF ToCome
  <2> QED
    BY <2>1, <2>2
<1>4. Fresh'
  BY <1>1, NoneIsNoKind DEF Fresh
<1>5. Gone' /\ Replied' /\ Selected'
  BY <1>1 DEF Gone, Replied, Selected
<1>6. Listed'
  BY <1>1 DEF Listed
<1> QED
  BY <1>2, <1>3, <1>4, <1>5, <1>6 DEF Counted

LEMMA AnswersKeepsIInv ==
    ASSUME NEW c \in Call, NEW r \in Response, IInv, Answers(c, r)
    PROVE  IInv'
<1> USE DialogsAssumption DEF IInv, Answers, Begins, Types
<1>1. /\ dialog[c] = "none" /\ replies[c] = <<>> /\ tokens[c] = 0
      /\ c \notin requests /\ c \notin choosers
  BY BeginsFresh
<1>2. /\ Append(replies[c], r) \in Seq(Response)
      /\ Append(replies[c], r) # <<>>
      /\ Len(Append(replies[c], r)) = 1
  BY <1>1, OneReply
<1>3. Types'
  <2>1. replies' \in [Call -> Seq(Response)]
    BY <1>2
  <2>2. dialog' \in [Call -> {"none", "shown", "ended", "gone"}]
    OBVIOUS
  <2> QED
    BY <2>1, <2>2
<1>4. ASSUME NEW d \in Call
      PROVE  Len(replies'[d]) + ToCome(d)' <= MaxPending + 2
  <2>1. CASE d # c
    BY <2>1 DEF Counted, ToCome
  <2>2. CASE d = c
    BY <1>1, <1>2, <2>2 DEF ToCome
  <2> QED
    BY <2>1, <2>2
<1>5. Fresh'
  BY <1>1, NoneIsNoKind DEF Fresh
<1>6. Gone' /\ Selected'
  BY <1>1 DEF Gone, Selected
<1>7. Replied'
  BY <1>1, <1>2 DEF Replied
<1>8. Listed'
  BY <1>1 DEF Listed
<1> QED
  BY <1>3, <1>4, <1>5, <1>6, <1>7, <1>8 DEF Counted

\* What is to come gets one less, and the replies at most one more.
LEMMA FinishesKeepsIInv ==
    ASSUME NEW c \in Call, NEW r \in Response, IInv, Finishes(c, r)
    PROVE  IInv'
<1> USE DialogsAssumption DEF IInv, Finishes, Types
<1>1. /\ Append(replies[c], r) \in Seq(Response)
      /\ Append(replies[c], r) # <<>>
      /\ Len(Append(replies[c], r)) = Len(replies[c]) + 1
      /\ Len(replies[c]) \in Nat
      /\ replies[c] = <<>> => Len(replies[c]) = 0
  BY OneReply
<1>2. Types'
  <2>1. replies' \in [Call -> Seq(Response)]
    BY <1>1
  <2>2. tokens' \in [Call -> 0..MaxPending]
    OBVIOUS
  <2>3. requests' \subseteq Call /\ agreed' \subseteq Call /\ acted' \subseteq Call
    OBVIOUS
  <2> QED
    BY <2>1, <2>2, <2>3
<1>3. Counted'
  <2> SUFFICES ASSUME NEW d \in Call
               PROVE  Len(replies'[d]) + ToCome(d)' <= MaxPending + 2
    BY DEF Counted
  <2>1. CASE d # c
    BY <2>1 DEF Counted, ToCome
  <2>2. CASE d = c /\ dialog[c] = "shown"
    BY <1>1, <2>2 DEF ToCome, Replied
  <2>3. CASE d = c /\ dialog[c] = "ended"
    BY <1>1, <2>3 DEF ToCome, Counted
  <2> QED
    BY <2>1, <2>2, <2>3
<1>4. Fresh' /\ Gone'
  BY DEF Fresh, Gone
<1>5. Selected'
  BY DEF Selected
<1>6. Replied'
  BY <1>1 DEF Replied
<1>7. Listed'
  BY DEF Listed
<1> QED
  BY <1>2, <1>3, <1>4, <1>5, <1>6, <1>7

LEMMA DialogsFinish ==
    ASSUME NEW c \in Call, IInv,
           \/ UserAccepts(c) \/ UserRejects(c) \/ Close(c) \/ JobFinished(c) \/ TokenArrives(c)
    PROVE  \E r \in Response : Finishes(c, r)
<1> USE DEF IInv, Types, Finishes, Finished, ForgetChooser, callVars, pendingVars, Response
<1>1. CASE UserAccepts(c)
  BY <1>1 DEF UserAccepts, Accepted
<1>2. CASE UserRejects(c)
  BY <1>2 DEF UserRejects, Rejected
<1>3. CASE Close(c)
  <2>1. dialog[c] \in {"shown", "ended"}
    BY <1>3 DEF Close, Fresh, Gone
  <2> QED
    BY <1>3, <2>1 DEF Close, Rejected
<1>4. CASE JobFinished(c)
  BY <1>4 DEF JobFinished
<1>5. CASE TokenArrives(c)
  <2>1. /\ tokens[c] > 0
        /\ tokens' = [tokens EXCEPT ![c] = @ - 1]
        /\ UNCHANGED <<callVars, requests, shots, image, agreed>>
    BY <1>5 DEF TokenArrives
  <2>2. c \in agreed /\ kind[c] \in Chooser
    BY <2>1 DEF Selected
  <2>3. dialog[c] \in {"shown", "ended"}
    <3>1. tokens[c] # 0 /\ dialog[c] \in {"none", "shown", "ended", "gone"}
      BY <2>1
    <3> QED
      BY <3>1 DEF Fresh, Gone
  <2>4. kind[c] # "screenshot" /\ kind[c] # "wallpaper"
    BY <2>2 DEF Chooser
  <2>5. Finished(c, "Success") /\ UNCHANGED acted
    BY <1>5, <2>4 DEF TokenArrives, Accepted
  <2> QED
    BY <2>1, <2>2, <2>3, <2>5
<1> QED
  BY <1>1, <1>2, <1>3, <1>4, <1>5

\* The steps that reply to nobody.
LEMMA QuietKeepsIInv ==
    ASSUME NEW c \in Call, IInv,
           \/ DeleteDialog(c) \/ ApplicationSelected(c) \/ TakeScreenshot(c) \/ ScreenshotRead(c)
    PROVE  IInv'
<1> USE DialogsAssumption DEF IInv, Types, callVars
<1>1. CASE DeleteDialog(c)
  <2> USE <1>1 DEF DeleteDialog
  <2>1. Types'
    OBVIOUS
  <2>2. ASSUME NEW d \in Call
        PROVE  Len(replies'[d]) + ToCome(d)' <= MaxPending + 2
    <3>1. CASE d # c
      BY <3>1 DEF Counted, ToCome
    <3>2. CASE d = c
      <4>1. /\ ToCome(c)' = 0 /\ ToCome(c) \in Nat
        BY DEF ToCome
      <4>2. Len(replies[c]) \in Nat /\ Len(replies[c]) + ToCome(c) <= MaxPending + 2
        BY DEF Counted
      <4> QED
        BY <3>2, <4>1, <4>2
    <3> QED
      BY <3>1, <3>2
  <2>3. Counted'
    BY <2>2 DEF Counted
  <2>4. Fresh' /\ Replied' /\ Gone' /\ Selected' /\ Listed'
    BY DEF Fresh, Replied, Gone, Selected, Listed
  <2> QED
    BY <2>1, <2>3, <2>4
<1>2. CASE ApplicationSelected(c)
  <2> USE <1>2 DEF ApplicationSelected
  <2>1. /\ dialog[c] = "shown" /\ kind[c] \in Chooser /\ replies[c] = <<>>
    BY DEF Replied
  <2>2. tokens' \in {tokens, [tokens EXCEPT ![c] = @ + 1]} /\ tokens[c] < MaxPending
    OBVIOUS
  <2>3. Types'
    <3>1. acted' \subseteq Call
      OBVIOUS
    <3>2. tokens' \in [Call -> 0..MaxPending]
      <4>1. tokens[c] + 1 \in 0..MaxPending
        BY <2>2
      <4> QED
        BY <2>2, <4>1
    <3> QED
      BY <3>1, <3>2
  <2>4. ASSUME NEW d \in Call
        PROVE  Len(replies'[d]) + ToCome(d)' <= MaxPending + 2
    <3>1. CASE d # c
      BY <2>2, <3>1 DEF Counted, ToCome
    <3>2. CASE d = c
      BY <2>1, <2>2, <3>2, EmptySeq DEF ToCome
    <3> QED
      BY <3>1, <3>2
  <2>5. Fresh' /\ Gone'
    BY <2>1, <2>2 DEF Fresh, Gone
  <2>6. Selected'
    BY <2>1, <2>2 DEF Selected
  <2>7. Replied' /\ Listed'
    BY DEF Replied, Listed
  <2> QED
    BY <2>3, <2>4, <2>5, <2>6, <2>7 DEF Counted
<1>3. CASE TakeScreenshot(c)
  BY <1>3 DEF TakeScreenshot, Counted, ToCome, Fresh, Replied, Gone, Selected, Listed
<1>4. CASE ScreenshotRead(c)
  BY <1>4 DEF ScreenshotRead, Counted, ToCome, Fresh, Replied, Gone, Selected, Listed
<1> QED
  BY <1>1, <1>2, <1>3, <1>4

LEMMA StepIInv ==
    ASSUME IInv, [Next]_vars
    PROVE  IInv'
<1>1. ASSUME NEW c \in Call,
             \/ AccessDialog(c) \/ GetUserInformation(c) \/ PrepareInstall(c) \/ AcquireDevices(c)
             \/ SetWallpaperURI(c) \/ Screenshot(c) \/ PickColor(c) \/ ComposeEmail(c)
             \/ ChooseApplication(c) \/ ChooseApplicationPrivate(c)
      PROVE  IInv'
  <2>1. Shows(c) \/ \E r \in Response : Answers(c, r)
    BY <1>1, CallsBegin DEF IInv
  <2> QED
    BY <2>1, ShowsKeepsIInv, AnswersKeepsIInv
<1>2. ASSUME NEW c \in Call,
             \/ UserAccepts(c) \/ UserRejects(c) \/ Close(c) \/ JobFinished(c) \/ TokenArrives(c)
      PROVE  IInv'
  BY <1>2, DialogsFinish, FinishesKeepsIInv
<1>3. ASSUME NEW c \in Call,
             \/ DeleteDialog(c) \/ ApplicationSelected(c) \/ TakeScreenshot(c)
             \/ ScreenshotRead(c)
      PROVE  IInv'
  BY <1>3, QuietKeepsIInv
<1>4. CASE UNCHANGED vars
  BY <1>4 DEF vars, callVars, pendingVars, IInv, Types, Counted, ToCome, Fresh, Replied, Gone,
              Selected, Listed
<1> QED
  BY <1>1, <1>2, <1>3, <1>4 DEF Next

LEMMA InvariantIInv == Spec => []IInv
BY InitIInv, StepIInv, PTL DEF Spec

\* Every variable of Dialogs keeps its type, and a call is replied to at most once by
\* its dialog, once by Close and once by each token.
THEOREM TypeCorrect == Spec => []TypeOK
BY InvariantIInv, IInvTypeOK, PTL

\* The map of choosers never names a dialog that has ended or is gone, and a dialog
\* that has ended has replied: for any number of calls, closed, rejected and chosen in
\* any order.
THEOREM ChoosersStayAlive == Spec => []ChoosersAlive
<1>1. IInv => ChoosersAlive
  BY DEF IInv, Listed, Replied, ChoosersAlive
<1> QED
  BY <1>1, InvariantIInv, PTL

-----------------------------------------------------------------------------
(* Dialogs implements CallPromise.                                         *)

LEMMA PromiseInit == Init => Promise!Init
BY DEF Init, Promise!Init, Answered

\* A reply is the answer if it is the first.
LEMMA FirstReply ==
    ASSUME NEW c \in Call, NEW r \in Response, Types,
           replies' = [replies EXCEPT ![c] = Append(@, r)]
    PROVE  /\ replies[c] = <<>> => Answered[c] = {} /\ Answered' = [Answered EXCEPT ![c] = {r}]
           /\ replies[c] # <<>> => UNCHANGED Answered
<1>1. /\ Append(replies[c], r) # <<>>
      /\ Head(Append(replies[c], r)) = IF replies[c] = <<>> THEN r ELSE Head(replies[c])
  BY OneReply DEF Types
<1>2. \A d \in Call : replies'[d] = IF d = c THEN Append(replies[c], r) ELSE replies[d]
  BY DEF Types
<1> QED
  BY <1>1, <1>2 DEF Answered

LEMMA PromiseStep ==
    ASSUME IInv, [Next]_vars
    PROVE  [Promise!Next]_(Promise!vars)
<1> USE DEF Promise!vars
<1>1. ASSUME NEW c \in Call,
             \/ AccessDialog(c) \/ GetUserInformation(c) \/ PrepareInstall(c) \/ AcquireDevices(c)
             \/ SetWallpaperURI(c) \/ Screenshot(c) \/ PickColor(c) \/ ComposeEmail(c)
             \/ ChooseApplication(c) \/ ChooseApplicationPrivate(c)
      PROVE  Promise!Next \/ UNCHANGED Promise!vars
  <2>1. CASE Shows(c)
    BY <2>1 DEF Shows, Answered
  <2>2. ASSUME NEW r \in Response, Answers(c, r)
        PROVE  Promise!Refuse(c, r) \/ Promise!Conclude(c, r)
    <3>1. replies[c] = <<>>
      BY <2>2, BeginsFresh DEF Answers
    <3>2. Answered[c] = {} /\ Answered' = [Answered EXCEPT ![c] = {r}]
      BY <2>2, <3>1, FirstReply DEF Answers, IInv
    <3> QED
      BY <2>2, <3>2 DEF Answers, Promise!Refuse, Promise!Conclude
  <2> QED
    BY <1>1, <2>1, <2>2, CallsBegin DEF IInv, Promise!Next
<1>2. ASSUME NEW c \in Call,
             \/ UserAccepts(c) \/ UserRejects(c) \/ Close(c) \/ JobFinished(c) \/ TokenArrives(c)
      PROVE  Promise!Next \/ UNCHANGED Promise!vars
  <2>1. PICK r \in Response : Finishes(c, r)
    BY <1>2, DialogsFinish
  <2>2. CASE dialog[c] = "shown"
    <3>1. replies[c] = <<>> /\ replies' = [replies EXCEPT ![c] = Append(@, r)]
      BY <2>1, <2>2 DEF Finishes, IInv, Replied
    <3>2. Answered[c] = {} /\ Answered' = [Answered EXCEPT ![c] = {r}]
      BY <3>1, FirstReply DEF IInv
    <3>3. Promise!Refuse(c, r) \/ Promise!Conclude(c, r)
      BY <2>1, <3>2 DEF Finishes, Promise!Refuse, Promise!Conclude
    <3> QED
      BY <3>3 DEF Promise!Next
  <2>3. CASE dialog[c] = "ended"
    <3>1. UNCHANGED <<agreed, acted>>
      BY <2>1, <2>3 DEF Finishes
    <3>2. replies[c] # <<>>
      BY <2>3 DEF IInv, Replied
    <3>3. UNCHANGED Answered
      <4>1. CASE c \in waiting
        BY <2>1, <3>2, <4>1, FirstReply DEF Finishes, IInv
      <4>2. CASE c \notin waiting
        BY <2>1, <4>2 DEF Finishes, Answered
      <4> QED
        BY <4>1, <4>2
    <3> QED
      BY <3>1, <3>3
  <2> QED
    BY <2>1, <2>2, <2>3 DEF Finishes
<1>3. ASSUME NEW c \in Call, ApplicationSelected(c)
      PROVE  Promise!Agree(c) \/ Promise!Act(c)
  <2>1. Answered[c] = {} /\ UNCHANGED Answered
    BY <1>3 DEF ApplicationSelected, IInv, Replied, Answered
  <2> QED
    BY <1>3, <2>1 DEF ApplicationSelected, Promise!Agree, Promise!Act
<1>4. ASSUME NEW c \in Call, DeleteDialog(c) \/ TakeScreenshot(c) \/ ScreenshotRead(c)
      PROVE  UNCHANGED Promise!vars
  BY <1>4 DEF DeleteDialog, TakeScreenshot, ScreenshotRead, Answered
<1>5. CASE UNCHANGED vars
  BY <1>5 DEF vars, Answered
<1> QED
  BY <1>1, <1>2, <1>3, <1>4, <1>5 DEF Next, Promise!Next

\* One answer to a call, Success and changes of the desktop only with the user's
\* agreement, and none after the answer: for any number of calls, and however often a
\* dialog is finished before it is deleted.
THEOREM KeepsItsPromise == Spec => PromiseKept
<1>1. Spec => Promise!Init /\ [][Promise!Next]_(Promise!vars)
  BY PromiseInit, PromiseStep, InvariantIInv, PTL DEF Spec
<1> QED
  BY <1>1 DEF PromiseKept, Promise!Spec

=============================================================================
