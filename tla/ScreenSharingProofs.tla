------------------------- MODULE ScreenSharingProofs -------------------------
(***************************************************************************)
(* Theorems about ScreenSharing: for any finite set of sessions, any       *)
(* streams, any answers of the permission store and any number of closes.  *)
(***************************************************************************)
EXTENDS ScreenSharing, FiniteSetTheorems, TLAPS

\* The counter is wide enough for the sessions there are.
LEMMA Sizes ==
    /\ UintRange \in Nat /\ Cardinality(Session) \in Nat
    /\ Cardinality(Session) < UintRange
BY ScreenSharingAssumption, FS_CardinalityType

LEMMA SubsetSize ==
    ASSUME NEW some \in SUBSET Session
    PROVE  /\ IsFiniteSet(some)
           /\ Cardinality(some) \in Nat
           /\ Cardinality(some) <= Cardinality(Session)
BY ScreenSharingAssumption, FS_Subset, FS_CardinalityType

LEMMA Removed ==
    ASSUME NEW all, IsFiniteSet(all), NEW some \in SUBSET all
    PROVE  /\ IsFiniteSet(all \ some)
           /\ Cardinality(all \ some) = Cardinality(all) - Cardinality(some)
<1>1. all \cap some = some
  OBVIOUS
<1> QED
  BY <1>1, FS_Difference

-----------------------------------------------------------------------------
(* Types.                                                                  *)

StreamTypes ==
    /\ batches \in [Session -> SUBSET Batch]
    /\ stream \in [Session -> [Stream -> StreamState]]
    /\ item \in [Session -> BOOLEAN]
    /\ reply \in [Session -> Response]
    /\ replies \in [Session -> Nat]
    /\ emptied \in BOOLEAN

InputTypes ==
    /\ streamInput \in 0..(UintRange - 1)
    /\ fakeInput \in BOOLEAN
    /\ acquires \in [Session -> Nat]
    /\ underflow \in BOOLEAN

ClosingTypes ==
    /\ life \in [Session -> Life]
    /\ closes \in [Session -> Nat]
    /\ dialog \in [Session -> {"none", "awaited", "ignored"}]

LEMMA SendReplyType ==
    ASSUME TypeOK, NEW s \in Session, NEW response \in Response, SendReply(s, response)
    PROVE  reply' \in [Session -> Response] /\ replies' \in [Session -> Nat]
BY DEF SendReply, TypeOK

LEMMA AfterBatchType ==
    ASSUME NEW s \in Session, NEW b \in Batch, NEW st \in [Stream -> StreamState]
    PROVE  AfterBatch(s, b, st) \in [Stream -> StreamState]
BY DEF AfterBatch, StreamState

LEMMA ConcludeType ==
    ASSUME TypeOK, NEW s \in Session, NEW b \in Batch, NEW st \in [Stream -> StreamState],
           Conclude(s, b, st)
    PROVE  StreamTypes'
<1>1. stream' \in [Session -> [Stream -> StreamState]]
  BY AfterBatchType DEF Conclude, TypeOK
<1>2. batches' \in [Session -> SUBSET Batch]
  BY DEF Conclude, TypeOK
<1>3. item' \in [Session -> BOOLEAN]
  <2>1. SniVisible(b.streams, quiet[s]) \in BOOLEAN
    BY DEF SniVisible
  <2> QED
    BY <2>1 DEF Conclude, TypeOK
<1>4. reply' \in [Session -> Response] /\ replies' \in [Session -> Nat]
  <2>1. CASE Alive(s) /\ b.replies
    BY <2>1, SendReplyType DEF Conclude, Response
  <2>2. CASE ~(Alive(s) /\ b.replies)
    BY <2>2 DEF Conclude, TypeOK, replyVars
  <2> QED
    BY <2>1, <2>2
<1>5. emptied' \in BOOLEAN
  BY DEF Conclude
<1> QED
  BY <1>1, <1>2, <1>3, <1>4, <1>5 DEF StreamTypes

LEMMA StartStreamingType ==
    ASSUME TypeOK, NEW s \in Session, NEW want \in SUBSET Stream,
           NEW missing \in SUBSET want, NEW replying \in BOOLEAN,
           StartStreaming(s, want, missing, replying)
    PROVE  StreamTypes' /\ quiet' \in [Session -> SUBSET Stream]
<1> DEFINE st == [i \in Stream |-> CASE i \in missing -> "failed"
                                    [] i \in want \ missing -> "asked"
                                    [] OTHER -> stream[s][i]]
           b == [streams |-> want, replies |-> replying]
<1>1. st \in [Stream -> StreamState]
  BY DEF StreamState, TypeOK
<1>2. b \in Batch
  BY DEF Batch
<1>3. quiet' \in [Session -> SUBSET Stream]
  BY DEF StartStreaming, TypeOK
<1>4. CASE want = missing
  <2>1. Conclude(s, b, st)
    BY <1>4 DEF StartStreaming
  <2> QED
    BY <1>1, <1>2, <1>3, <2>1, ConcludeType
<1>5. CASE want # missing
  <2>1. stream' \in [Session -> [Stream -> StreamState]]
    BY <1>1, <1>5 DEF StartStreaming, TypeOK
  <2>2. batches' \in [Session -> SUBSET Batch]
    <3>1. batches' = [batches EXCEPT ![s] = @ \cup {b}]
      BY <1>5 DEF StartStreaming
    <3> HIDE DEF b
    <3> QED
      BY <1>2, <3>1 DEF TypeOK
  <2> QED
    BY <1>3, <1>5, <2>1, <2>2 DEF StartStreaming, TypeOK, StreamTypes, replyVars
<1> QED
  BY <1>4, <1>5

LEMMA AcquireType ==
    ASSUME TypeOK, NEW s \in Session, AcquireStreamingInput(s)
    PROVE  /\ streamInput' \in 0..(UintRange - 1)
           /\ fakeInput' \in BOOLEAN
           /\ acquires' \in [Session -> Nat]
BY Sizes DEF AcquireStreamingInput, TypeOK

LEMMA ContinueStartType ==
    ASSUME TypeOK, NEW s \in Session, NEW want \in SUBSET Stream,
           NEW missing \in SUBSET want, NEW replying \in BOOLEAN,
           ContinueStart(s, want, missing, replying), UNCHANGED underflow
    PROVE  StreamTypes' /\ InputTypes' /\ quiet' \in [Session -> SUBSET Stream]
<1>1. InputTypes'
  <2>1. CASE kind[s] = "RemoteDesktop"
    BY <2>1, AcquireType DEF ContinueStart, InputTypes, TypeOK
  <2>2. CASE kind[s] # "RemoteDesktop"
    BY <2>2 DEF ContinueStart, InputTypes, TypeOK, inputVars
  <2> QED
    BY <2>1, <2>2
<1> QED
  BY <1>1, StartStreamingType DEF ContinueStart

LEMMA ReleaseType ==
    ASSUME TypeOK, NEW some \in SUBSET Session, ReleaseStreamingInput(some)
    PROVE  /\ streamInput' \in 0..(UintRange - 1)
           /\ fakeInput' \in BOOLEAN
           /\ underflow' \in BOOLEAN
BY Sizes, SubsetSize DEF ReleaseStreamingInput, TypeOK

LEMMA CloseAllType ==
    ASSUME TypeOK, NEW some \in SUBSET Session, CloseAll(some)
    PROVE  /\ ClosingTypes'
           /\ streamInput' \in 0..(UintRange - 1)
           /\ fakeInput' \in BOOLEAN
           /\ underflow' \in BOOLEAN
           /\ reply' \in [Session -> Response]
           /\ replies' \in [Session -> Nat]
<1>1. /\ streamInput' \in 0..(UintRange - 1)
      /\ fakeInput' \in BOOLEAN
      /\ underflow' \in BOOLEAN
  BY ReleaseType DEF CloseAll
<1>2. ClosingTypes'
  BY DEF CloseAll, TypeOK, ClosingTypes, Life
<1>3. reply' \in [Session -> Response]
  BY DEF CloseAll, TypeOK, Response
<1>4. replies' \in [Session -> Nat]
  BY DEF CloseAll, TypeOK
<1> QED
  BY <1>1, <1>2, <1>3, <1>4

\* Every step keeps the types.
LEMMA TypeStep == TypeOK /\ [Next]_vars => TypeOK'
<1> SUFFICES ASSUME TypeOK, [Next]_vars PROVE TypeOK'
  OBVIOUS
<1> USE DEF sessionVars, inputVars, streamVars, replyVars
<1>1. ASSUME NEW some \in SUBSET Session, CloseAll(some), closeCall' \in [Session -> BOOLEAN],
             UNCHANGED <<kind, sharing, started, streamVars, acquires, emptied>>
      PROVE  TypeOK'
  BY <1>1, CloseAllType DEF TypeOK, ClosingTypes
<1>2. CASE FrontendVanishes
  <2>1. {s \in Session : life[s] = "open"} \in SUBSET Session
    OBVIOUS
  <2> QED
    BY <1>1, <1>2, <2>1 DEF FrontendVanishes, TypeOK
<1>3. ASSUME NEW s \in Session, Close(s) \/ End(s)
      PROVE  TypeOK'
  BY <1>1, <1>3 DEF Close, End, TypeOK
<1>4. ASSUME NEW s \in Session, NEW k \in {"ScreenCast", "RemoteDesktop"}, CreateSession(s, k)
      PROVE  TypeOK'
  BY <1>4 DEF CreateSession, TypeOK, Life, Kind
<1>5. ASSUME NEW s \in Session, SelectSources(s)
      PROVE  TypeOK'
  BY <1>5 DEF SelectSources, TypeOK
<1>6. ASSUME NEW s \in Session, CallClose(s)
      PROVE  TypeOK'
  BY <1>6 DEF CallClose, TypeOK
<1>7. ASSUME NEW s \in Session, StartFails(s)
      PROVE  TypeOK'
  BY <1>7, SendReplyType DEF StartFails, TypeOK, Response
<1>8. ASSUME NEW s \in Session, DialogRejected(s)
      PROVE  TypeOK'
  BY <1>8, SendReplyType DEF DialogRejected, TypeOK, Response
<1>9. ASSUME NEW s \in Session, Delete(s)
      PROVE  TypeOK'
  <2>1. stream' \in [Session -> [Stream -> StreamState]]
    BY <1>9 DEF Delete, TypeOK, StreamState
  <2> QED
    BY <1>9, <2>1 DEF Delete, TypeOK, Life
<1>10. ASSUME NEW s \in Session, NEW i \in Stream, NEW answer \in {"ready", "failed"},
              StreamAnswered(s, i, answer)
       PROVE  TypeOK'
  <2> DEFINE st == [stream[s] EXCEPT ![i] = answer]
  <2>1. st \in [Stream -> StreamState]
    BY DEF TypeOK, StreamState
  <2>2. PICK b \in batches[s] :
          /\ \/ stream' = [stream EXCEPT ![s] = st] /\ UNCHANGED <<batches, item, replyVars, emptied>>
             \/ Conclude(s, b, st)
          /\ UNCHANGED <<sessionVars, dialog, quiet, inputVars, closes, underflow>>
    BY <1>10, Zenon DEF StreamAnswered
  <2> HIDE DEF st
  <2>3. StreamTypes'
    <3>1. CASE Conclude(s, b, st)
      <4>1. b \in Batch
        BY DEF TypeOK
      <4> QED
        BY <2>1, <3>1, <4>1, ConcludeType
    <3>2. CASE /\ stream' = [stream EXCEPT ![s] = st]
               /\ UNCHANGED <<batches, item, replyVars, emptied>>
      BY <2>1, <3>2 DEF TypeOK, StreamTypes
    <3> QED
      BY <2>2, <3>1, <3>2
  <2> QED
    BY <2>2, <2>3 DEF TypeOK, StreamTypes
<1>11. ASSUME NEW s \in Session, NEW i \in Stream, StreamLost(s, i)
       PROVE  TypeOK'
  <2>1. stream' \in [Session -> [Stream -> StreamState]]
    BY <1>11 DEF StreamLost, TypeOK, StreamState
  <2> QED
    BY <1>11, <2>1 DEF StreamLost, TypeOK
<1>12. ASSUME NEW s \in Session, NEW i \in Stream, StreamClosed(s, i)
       PROVE  TypeOK'
  <2>1. stream' \in [Session -> [Stream -> StreamState]]
    BY <1>12 DEF StreamClosed, TypeOK, StreamState
  <2>2. item' \in [Session -> BOOLEAN]
    BY <1>12 DEF StreamClosed, TypeOK, SniVisible
  <2>3. \/ CloseAll({s})
        \/ UNCHANGED <<life, dialog, streamInput, fakeInput, closes, replyVars, underflow>>
    BY <1>12 DEF StreamClosed
  <2>4. CASE CloseAll({s})
    BY <1>12, <2>1, <2>2, <2>4, CloseAllType DEF StreamClosed, TypeOK, ClosingTypes
  <2>5. CASE UNCHANGED <<life, dialog, streamInput, fakeInput, closes, replyVars, underflow>>
    BY <1>12, <2>1, <2>2, <2>5 DEF StreamClosed, TypeOK
  <2> QED
    BY <2>3, <2>4, <2>5
<1>13. ASSUME NEW s \in Session, NEW i \in Stream, MediaChanges(s, i)
       PROVE  TypeOK'
  <2>1. quiet' \in [Session -> SUBSET Stream]
    BY <1>13 DEF MediaChanges, TypeOK
  <2>2. item' \in [Session -> BOOLEAN]
    BY <1>13 DEF MediaChanges, TypeOK, SniVisible
  <2> QED
    BY <1>13, <2>1, <2>2 DEF MediaChanges, TypeOK
<1>14. ASSUME NEW s \in Session, NEW want \in SUBSET Unused(s), NEW missing \in SUBSET want,
              DialogAccepted(s, want, missing)
       PROVE  TypeOK'
  <2>1. want \in SUBSET Stream
    BY ScreenSharingAssumption DEF Unused
  <2> QED
    BY <1>14, <2>1, ContinueStartType
       DEF DialogAccepted, TypeOK, StreamTypes, InputTypes
<1>15. ASSUME NEW s \in Session, NEW want \in SUBSET Unused(s), NEW missing \in SUBSET want,
              NEW restored \in BOOLEAN, StartScreenCast(s, restored, want, missing)
       PROVE  TypeOK'
  <2>1. want \in SUBSET Stream
    BY ScreenSharingAssumption DEF Unused
  <2>2. CASE restored
    BY <1>15, <2>1, <2>2, ContinueStartType
       DEF StartScreenCast, TypeOK, StreamTypes, InputTypes
  <2>3. CASE ~restored
    BY <1>15, <2>3 DEF StartScreenCast, OpenDialog, TypeOK
  <2> QED
    BY <2>2, <2>3
<1>16. ASSUME NEW s \in Session, NEW want \in SUBSET Unused(s), NEW missing \in SUBSET want,
              NEW restored \in BOOLEAN, NEW authorized \in Lookups,
              StartRemoteDesktop(s, restored, authorized, want, missing)
       PROVE  TypeOK'
  <2>1. want \in SUBSET Stream
    BY ScreenSharingAssumption DEF Unused
  <2>2. started' \in [Session -> BOOLEAN]
    BY <1>16 DEF StartRemoteDesktop, TypeOK
  <2>3. dialog' \in [Session -> {"none", "awaited", "ignored"}]
    BY <1>16 DEF StartRemoteDesktop, TypeOK
  <2>4. \/ ContinueStart(s, want, missing, TRUE)
        \/ UNCHANGED <<streamVars, inputVars, replyVars, emptied>>
        \/ SendReply(s, "OtherError") /\ UNCHANGED <<streamVars, inputVars, emptied>>
    BY <1>16 DEF StartRemoteDesktop
  <2>5. UNCHANGED <<life, kind, sharing, closeCall, closes, underflow>>
    BY <1>16 DEF StartRemoteDesktop
  <2>6. CASE ContinueStart(s, want, missing, TRUE)
    BY <2>1, <2>2, <2>3, <2>5, <2>6, ContinueStartType
       DEF TypeOK, StreamTypes, InputTypes
  <2>7. CASE UNCHANGED <<streamVars, inputVars, replyVars, emptied>>
    BY <2>2, <2>3, <2>5, <2>7 DEF TypeOK
  <2>8. CASE SendReply(s, "OtherError") /\ UNCHANGED <<streamVars, inputVars, emptied>>
    BY <2>2, <2>3, <2>5, <2>8, SendReplyType DEF TypeOK, Response
  <2> QED
    BY <2>4, <2>6, <2>7, <2>8
<1>17. CASE UNCHANGED vars
  BY <1>17 DEF vars, TypeOK
<1> QED
  BY <1>2, <1>3, <1>4, <1>5, <1>6, <1>7, <1>8, <1>9, <1>10, <1>11, <1>12, <1>13, <1>14,
     <1>15, <1>16, <1>17
     DEF Next, StreamAnswers

\* TypeOK is an invariant; the counter stays within the range of a uint.
THEOREM TypeCorrect == Spec => []TypeOK
<1>1. Init => TypeOK
  <2> SUFFICES ASSUME Init PROVE TypeOK
    OBVIOUS
  <2>1. stream \in [Session -> [Stream -> StreamState]]
    BY DEF Init, StreamState
  <2>2. streamInput \in 0..(UintRange - 1)
    BY Sizes DEF Init
  <2>3. acquires \in [Session -> Nat] /\ closes \in [Session -> Nat] /\ replies \in [Session -> Nat]
    BY DEF Init
  <2>4. batches \in [Session -> SUBSET Batch] /\ quiet \in [Session -> SUBSET Stream]
    BY DEF Init
  <2> QED
    BY <2>1, <2>2, <2>3, <2>4 DEF Init, TypeOK, Life, Kind, Response
<1> QED
  BY <1>1, TypeStep, PTL DEF Spec

-----------------------------------------------------------------------------
(* The fake input device.                                                  *)

\* What life and the history say of each other, and of dialogs: a session that
\* is closed was closed once at least, one that is not never was.
Histories ==
    \A s \in Session :
        /\ life[s] = "fresh" => acquires[s] = 0
        /\ life[s] \in {"fresh", "open"} => closes[s] = 0
        /\ life[s] \in {"closed", "deleted"} => closes[s] >= 1
        /\ dialog[s] # "none" => life[s] = "open"

\* The inductive invariant behind InputMatchesSessions.
InputInv == Histories /\ InputMatchesSessions

\* A step that changes neither the device nor who is open and has acquired it.
LEMMA InputUnchanged ==
    ASSUME TypeOK, InputInv, UNCHANGED <<streamInput, fakeInput, acquires, closes>>,
           \A s \in Session : acquires[s] > 0 => (life'[s] = "open" <=> life[s] = "open")
    PROVE  InputMatchesSessions'
<1>1. Controlling' = Controlling
  BY DEF Controlling
<1>2. Orderly' => Orderly
  BY DEF Orderly
<1> QED
  BY <1>1, <1>2 DEF InputInv, InputMatchesSessions

\* Closing open sessions takes those that had acquired the device away.
LEMMA ClosingKeepsInput ==
    ASSUME TypeOK, InputInv, NEW some \in SUBSET Session,
           \A s \in some : life[s] \in {"open", "closed"},
           CloseAll(some), UNCHANGED acquires
    PROVE  InputInv'
<1>1. Histories'
  BY DEF CloseAll, TypeOK, InputInv, Histories
<1>2. ASSUME Orderly'
      PROVE  /\ streamInput' = Cardinality(Controlling')
             /\ fakeInput' = (Controlling' # {})
  <2> DEFINE released == {s \in some : acquires[s] > 0}
  <2>1. Orderly
    BY <1>2 DEF CloseAll, TypeOK, Orderly
  <2>2. \A s \in some : life[s] = "open"
    BY <1>2 DEF CloseAll, TypeOK, Orderly, InputInv, Histories
  <2>3. released \subseteq Controlling /\ Controlling' = Controlling \ released
    BY <2>2 DEF CloseAll, Controlling, TypeOK
  <2>4. /\ IsFiniteSet(Controlling) /\ Cardinality(Controlling) \in Nat
        /\ Cardinality(released) \in Nat /\ Cardinality(released) <= Cardinality(Controlling)
    BY <2>3, SubsetSize, FS_Subset DEF Controlling
  <2>5. Cardinality(Controlling') = Cardinality(Controlling) - Cardinality(released)
    BY <2>3, <2>4, Removed
  <2>6. Controlling' = {} <=> Cardinality(Controlling') = 0
    BY <2>3, <2>4, Removed, FS_EmptySet
  <2>7. Controlling = {} <=> Cardinality(Controlling) = 0
    BY <2>4, FS_EmptySet
  <2>8. streamInput = Cardinality(Controlling) /\ fakeInput = (Controlling # {})
    BY <2>1 DEF InputInv, InputMatchesSessions
  <2>9. ReleaseStreamingInput(released)
    BY DEF CloseAll
  <2> HIDE DEF released
  <2>10. streamInput' = Cardinality(Controlling) - Cardinality(released)
    BY <2>4, <2>8, <2>9 DEF ReleaseStreamingInput
  <2>11. fakeInput' = (Controlling' # {})
    <3>1. fakeInput' = (fakeInput /\ ~(0 < streamInput /\ streamInput <= Cardinality(released)))
      BY <2>9 DEF ReleaseStreamingInput
    <3>2. CASE Cardinality(Controlling') = 0
      <4>1. Controlling' = {} /\ streamInput <= Cardinality(released)
        BY <2>4, <2>5, <2>6, <2>8, <3>2
      <4>2. 0 < streamInput \/ Controlling = {}
        BY <2>4, <2>7, <2>8
      <4> QED
        BY <2>8, <3>1, <4>1, <4>2, Zenon
    <3>3. CASE Cardinality(Controlling') # 0
      <4>1. Controlling # {} /\ ~(streamInput <= Cardinality(released))
        BY <2>4, <2>5, <2>7, <2>8, <3>3
      <4> QED
        BY <2>6, <2>8, <3>1, <3>3, <4>1, Zenon
    <3> QED
      BY <3>2, <3>3
  <2> QED
    BY <2>5, <2>10, <2>11
<1> QED
  BY <1>1, <1>2 DEF InputInv, InputMatchesSessions

\* An open session that acquires the device for the first time joins.
LEMMA StartingKeepsInput ==
    ASSUME TypeOK, InputInv, NEW s \in Session, life[s] = "open",
           NEW want, NEW missing, NEW replying, ContinueStart(s, want, missing, replying),
           dialog' \in [Session -> {"none", "awaited", "ignored"}],
           \A t \in Session \ {s} : dialog'[t] = dialog[t],
           UNCHANGED <<life, closes>>
    PROVE  InputInv'
<1>1. CASE kind[s] # "RemoteDesktop"
  <2>1. UNCHANGED inputVars
    BY <1>1 DEF ContinueStart
  <2>2. Histories'
    BY <2>1 DEF InputInv, Histories, inputVars
  <2> QED
    BY <2>1, <2>2, InputUnchanged DEF InputInv, inputVars
<1>2. CASE kind[s] = "RemoteDesktop"
  <2>1. AcquireStreamingInput(s)
    BY <1>2 DEF ContinueStart
  <2>2. Histories'
    BY <2>1 DEF AcquireStreamingInput, InputInv, Histories, TypeOK
  <2>3. ASSUME Orderly'
        PROVE  /\ streamInput' = Cardinality(Controlling')
               /\ fakeInput' = (Controlling' # {})
    <3>1. Orderly /\ acquires[s] = 0
      BY <2>1, <2>3 DEF AcquireStreamingInput, Orderly, TypeOK
    <3>2. s \notin Controlling /\ Controlling' = Controlling \cup {s}
      BY <2>1, <3>1 DEF AcquireStreamingInput, Controlling, TypeOK
    <3>3. /\ IsFiniteSet(Controlling) /\ Cardinality(Controlling) \in Nat
          /\ Cardinality(Controlling') <= Cardinality(Session)
      BY <3>2, SubsetSize DEF Controlling
    <3>4. Cardinality(Controlling') = Cardinality(Controlling) + 1
      BY <3>2, <3>3, FS_AddElement
    <3>5. streamInput = Cardinality(Controlling)
      BY <3>1 DEF InputInv, InputMatchesSessions
    <3>6. streamInput' = Cardinality(Controlling')
      BY <2>1, <3>3, <3>4, <3>5, Sizes DEF AcquireStreamingInput
    <3>7. Controlling' # {} /\ fakeInput' = TRUE
      BY <2>1, <3>2 DEF AcquireStreamingInput
    <3> QED
      BY <3>6, <3>7
  <2> QED
    BY <2>2, <2>3 DEF InputInv, InputMatchesSessions
<1> QED
  BY <1>1, <1>2

LEMMA InputStep == TypeOK /\ InputInv /\ [Next]_vars => InputInv'
<1> SUFFICES ASSUME TypeOK, InputInv, [Next]_vars PROVE InputInv'
  OBVIOUS
<1> USE DEF sessionVars, inputVars
<1>1. ASSUME UNCHANGED <<streamInput, fakeInput, acquires, closes>>, Histories',
             \A s \in Session : acquires[s] > 0 => (life'[s] = "open" <=> life[s] = "open")
      PROVE  InputInv'
  BY <1>1, InputUnchanged DEF InputInv
<1>2. CASE FrontendVanishes
  <2>1. {s \in Session : life[s] = "open"} \in SUBSET Session
    OBVIOUS
  <2> QED
    BY <1>2, <2>1, ClosingKeepsInput DEF FrontendVanishes
<1>3. ASSUME NEW s \in Session, Close(s) \/ End(s)
      PROVE  InputInv'
  BY <1>3, ClosingKeepsInput DEF Close, End, Alive
<1>4. ASSUME NEW s \in Session, NEW k \in {"ScreenCast", "RemoteDesktop"}, CreateSession(s, k)
      PROVE  InputInv'
  <2>1. Histories'
    BY <1>4 DEF CreateSession, InputInv, Histories, TypeOK
  <2> QED
    BY <1>1, <1>4, <2>1 DEF CreateSession, InputInv, Histories, TypeOK
<1>5. ASSUME UNCHANGED <<life, dialog, inputVars, closes>>
      PROVE  InputInv'
  BY <1>1, <1>5 DEF InputInv, Histories
<1>6. ASSUME NEW s \in Session, SelectSources(s) \/ CallClose(s) \/ StartFails(s)
      PROVE  InputInv'
  BY <1>5, <1>6 DEF SelectSources, CallClose, StartFails
<1>7. ASSUME NEW s \in Session, DialogRejected(s)
      PROVE  InputInv'
  BY <1>1, <1>7 DEF DialogRejected, InputInv, Histories, TypeOK
<1>8. ASSUME NEW s \in Session, Delete(s)
      PROVE  InputInv'
  <2>1. Histories'
    BY <1>8 DEF Delete, InputInv, Histories, TypeOK
  <2> QED
    BY <1>1, <1>8, <2>1 DEF Delete, TypeOK
<1>9. ASSUME NEW s \in Session, NEW i \in Stream,
             \/ StreamLost(s, i) \/ MediaChanges(s, i)
             \/ \E answer \in {"ready", "failed"} : StreamAnswered(s, i, answer)
      PROVE  InputInv'
  BY <1>5, <1>9 DEF StreamLost, MediaChanges, StreamAnswered
<1>10. ASSUME NEW s \in Session, NEW i \in Stream, StreamClosed(s, i)
       PROVE  InputInv'
  <2>1. \/ CloseAll({s})
        \/ UNCHANGED <<life, dialog, streamInput, fakeInput, closes>>
    BY <1>10 DEF StreamClosed
  <2>2. UNCHANGED acquires /\ Alive(s)
    BY <1>10 DEF StreamClosed
  <2> QED
    BY <1>5, <2>1, <2>2, ClosingKeepsInput DEF Alive
<1>11. ASSUME NEW s \in Session, NEW want, NEW missing, DialogAccepted(s, want, missing)
       PROVE  InputInv'
  <2>1. life[s] = "open" /\ UNCHANGED <<life, closes>>
    BY <1>11 DEF DialogAccepted, InputInv, Histories
  <2>2. /\ dialog' \in [Session -> {"none", "awaited", "ignored"}]
        /\ \A t \in Session \ {s} : dialog'[t] = dialog[t]
    BY <1>11 DEF DialogAccepted, TypeOK
  <2>3. ContinueStart(s, want, missing, dialog[s] = "awaited")
    BY <1>11 DEF DialogAccepted
  <2> QED
    BY <2>1, <2>2, <2>3, StartingKeepsInput
<1>12. ASSUME NEW s \in Session, life[s] = "open", UNCHANGED <<life, inputVars, closes>>,
              dialog' \in [Session -> {"none", "awaited", "ignored"}],
              \A t \in Session \ {s} : dialog'[t] = dialog[t]
       PROVE  InputInv'
  <2>1. Histories'
    BY <1>12 DEF InputInv, Histories
  <2> QED
    BY <1>1, <1>12, <2>1
<1>13. ASSUME NEW s \in Session, NEW restored, NEW want, NEW missing,
              StartScreenCast(s, restored, want, missing)
       PROVE  InputInv'
  <2>1. life[s] = "open" /\ UNCHANGED <<life, closes>>
    BY <1>13 DEF StartScreenCast, MayStart
  <2>2. /\ dialog' \in [Session -> {"none", "awaited", "ignored"}]
        /\ \A t \in Session \ {s} : dialog'[t] = dialog[t]
    BY <1>13 DEF StartScreenCast, OpenDialog, TypeOK
  <2>3. ContinueStart(s, want, missing, TRUE) \/ UNCHANGED inputVars
    BY <1>13 DEF StartScreenCast
  <2> QED
    BY <1>12, <2>1, <2>2, <2>3, StartingKeepsInput
<1>14. ASSUME NEW s \in Session, NEW restored, NEW authorized, NEW want, NEW missing,
              StartRemoteDesktop(s, restored, authorized, want, missing)
       PROVE  InputInv'
  <2>1. life[s] = "open" /\ UNCHANGED <<life, closes>>
    BY <1>14 DEF StartRemoteDesktop, MayStart
  <2>2. /\ dialog' \in [Session -> {"none", "awaited", "ignored"}]
        /\ \A t \in Session \ {s} : dialog'[t] = dialog[t]
    BY <1>14 DEF StartRemoteDesktop, TypeOK
  <2>3. ContinueStart(s, want, missing, TRUE) \/ UNCHANGED inputVars
    BY <1>14 DEF StartRemoteDesktop
  <2> QED
    BY <1>12, <2>1, <2>2, <2>3, StartingKeepsInput
<1>15. CASE UNCHANGED vars
  BY <1>5, <1>15 DEF vars
<1> QED
  BY <1>2, <1>3, <1>4, <1>6, <1>7, <1>8, <1>9, <1>10, <1>11, <1>13, <1>14, <1>15
     DEF Next, StreamAnswers

\* As long as no session was closed twice and none acquired the input twice, as the
\* lookups of one Start may make it do when they differ (remotedesktop.cpp:322), the
\* fake input device exists exactly while an open session has acquired it.
THEOREM InputHeldWhileNeeded == Spec => []InputMatchesSessions
<1>1. Init => InputInv
  BY FS_EmptySet DEF Init, InputInv, Histories, InputMatchesSessions, Controlling
<1>2. InputInv => InputMatchesSessions
  BY DEF InputInv
<1> QED
  BY <1>1, <1>2, TypeCorrect, InputStep, PTL DEF Spec


-----------------------------------------------------------------------------
(* The replies to Start, and what they grant.                              *)

\* Start's reply is sent, awaited from the dialog or awaited from one batch of
\* streams, and never two of these.
OneReply(s) ==
    /\ replies[s] <= 1
    /\ replies[s] = 1 => dialog[s] # "awaited"
    /\ \A b \in batches[s] : b.replies => replies[s] = 0 /\ dialog[s] # "awaited"
    /\ \A b, c \in batches[s] : b.replies /\ c.replies => b = c
    /\ life[s] = "open" /\ started[s] =>
          \/ replies[s] = 1
          \/ dialog[s] = "awaited"
          \/ \E b \in batches[s] : b.replies
    /\ ~started[s] => replies[s] = 0 /\ dialog[s] = "none" /\ batches[s] = {}
    /\ life[s] = "fresh" => ~started[s]

\* A ScreenCast session creates streams only for the reply, so that none are
\* created after it.
OneBatch(s) ==
    /\ reply[s] = "Success" => replies[s] = 1
    /\ life[s] = "open" => kind[s] \in {"ScreenCast", "RemoteDesktop"}
    /\ life[s] = "fresh" => kind[s] = "none"
    /\ kind[s] = "ScreenCast" => /\ dialog[s] # "ignored"
                                 /\ \A b \in batches[s] : b.replies

\* What is held and shown in an open session that was granted something.
Granted(s) ==
    life[s] = "open" /\ reply[s] = "Success" =>
        /\ kind[s] = "RemoteDesktop" => item[s]
        /\ kind[s] = "ScreenCast" => /\ item[s] = SniVisible(Held(stream[s]), quiet[s])
                                     /\ ~emptied => Held(stream[s]) # {}

\* The inductive invariant behind StartRepliedOnce, GrantIsVisible and
\* EndsWithItsStreams.
ReplyInv == \A s \in Session : OneReply(s) /\ OneBatch(s) /\ Granted(s)

LEMMA RepliedOnce == TypeOK /\ ReplyInv => StartRepliedOnce
<1> SUFFICES ASSUME TypeOK, ReplyInv, NEW s \in Session
             PROVE  LET awaited == {b \in batches[s] : b.replies}
                        pending == replies[s] + (IF dialog[s] = "awaited" THEN 1 ELSE 0)
                                              + Cardinality(awaited)
                    IN  /\ replies[s] <= 1
                        /\ life[s] = "open" => pending = (IF started[s] THEN 1 ELSE 0)
  BY Zenon DEF StartRepliedOnce
<1> DEFINE awaited == {b \in batches[s] : b.replies}
<1> SUFFICES /\ replies[s] <= 1
             /\ life[s] = "open" =>
                   replies[s] + (IF dialog[s] = "awaited" THEN 1 ELSE 0) + Cardinality(awaited)
                      = (IF started[s] THEN 1 ELSE 0)
  OBVIOUS
<1>1. OneReply(s)
  BY DEF ReplyInv
<1>2. replies[s] \in Nat
  BY DEF TypeOK
<1>3. CASE awaited = {}
  <2>1. Cardinality(awaited) = 0
    BY <1>3, FS_EmptySet
  <2>2. \A b \in batches[s] : ~b.replies
    BY <1>3
  <2> HIDE DEF awaited
  <2> QED
    BY <1>1, <1>2, <2>1, <2>2 DEF OneReply
<1>4. CASE awaited # {}
  <2>1. PICK b \in batches[s] : b.replies
    BY <1>4
  <2>2. awaited = {b}
    BY <1>1, <2>1 DEF OneReply
  <2>3. Cardinality(awaited) = 1
    BY <2>2, FS_Singleton
  <2> HIDE DEF awaited
  <2> QED
    BY <1>1, <1>2, <2>1, <2>3 DEF OneReply
<1> QED
  BY <1>3, <1>4

LEMMA GrantVisible == ReplyInv => GrantIsVisible /\ EndsWithItsStreams
BY DEF ReplyInv, OneBatch, Granted, GrantIsVisible, EndsWithItsStreams

\* A step that leaves session s alone.
LEMMA OthersKept ==
    ASSUME NEW s \in Session, OneReply(s), OneBatch(s), Granted(s),
           life'[s] = life[s], kind'[s] = kind[s], started'[s] = started[s],
           dialog'[s] = dialog[s], batches'[s] = batches[s], Held(stream'[s]) = Held(stream[s]),
           quiet'[s] = quiet[s], item'[s] = item[s], reply'[s] = reply[s],
           replies'[s] = replies[s], emptied => emptied'
    PROVE  OneReply(s)' /\ OneBatch(s)' /\ Granted(s)'
BY DEF OneReply, OneBatch, Granted

\* The end of a batch: its streams are those the session holds, the reply it
\* was to give is given, and other sessions are not concerned.
LEMMA ConcludeEffect ==
    ASSUME TypeOK, NEW s \in Session, NEW b \in Batch, NEW st \in [Stream -> StreamState],
           Conclude(s, b, st)
    PROVE  /\ batches'[s] = batches[s] \ {b}
           /\ Alive(s) /\ b.replies =>
                 /\ replies'[s] = replies[s] + 1
                 /\ reply'[s] = IF Usable(b, st) THEN "Success" ELSE "OtherError"
           /\ ~(Alive(s) /\ b.replies) => replies'[s] = replies[s] /\ reply'[s] = reply[s]
           /\ Alive(s) /\ kind[s] = "RemoteDesktop" => item'[s]
           /\ Alive(s) /\ kind[s] = "ScreenCast" /\ Usable(b, st) =>
                 /\ Held(stream'[s]) = b.streams
                 /\ item'[s] = SniVisible(b.streams, quiet[s])
                 /\ b.streams = {} => emptied'
           /\ emptied => emptied'
           /\ \A t \in Session \ {s} :
                 /\ batches'[t] = batches[t] /\ stream'[t] = stream[t] /\ item'[t] = item[t]
                 /\ reply'[t] = reply[t] /\ replies'[t] = replies[t]
<1>1. batches'[s] = batches[s] \ {b} /\ \A t \in Session \ {s} : batches'[t] = batches[t]
  BY DEF Conclude, TypeOK
<1>2. stream'[s] = AfterBatch(s, b, st) /\ \A t \in Session \ {s} : stream'[t] = stream[t]
  BY DEF Conclude, TypeOK
<1>3. /\ Alive(s) /\ b.replies =>
            /\ replies'[s] = replies[s] + 1
            /\ reply'[s] = IF Usable(b, st) THEN "Success" ELSE "OtherError"
      /\ ~(Alive(s) /\ b.replies) => replies'[s] = replies[s] /\ reply'[s] = reply[s]
      /\ \A t \in Session \ {s} : reply'[t] = reply[t] /\ replies'[t] = replies[t]
  BY DEF Conclude, SendReply, replyVars, TypeOK
<1>4. item'[s] = (/\ Alive(s)
                  /\ \/ kind[s] = "RemoteDesktop"
                     \/ IF Usable(b, st) THEN SniVisible(b.streams, quiet[s]) ELSE item[s])
  BY DEF Conclude, TypeOK
<1>5. /\ Alive(s) /\ kind[s] = "RemoteDesktop" => item'[s]
      /\ Alive(s) /\ kind[s] = "ScreenCast" /\ Usable(b, st) =>
            item'[s] = SniVisible(b.streams, quiet[s])
  <2>1. "ScreenCast" # "RemoteDesktop"
    OBVIOUS
  <2>2. ASSUME Alive(s), kind[s] = "RemoteDesktop"
        PROVE  item'[s]
    BY <1>4, <2>2, Zenon
  <2>3. ASSUME Alive(s), kind[s] = "ScreenCast", Usable(b, st)
        PROVE  item'[s] = SniVisible(b.streams, quiet[s])
    <3>1. kind[s] # "RemoteDesktop"
      BY <2>1, <2>3
    <3>2. SniVisible(b.streams, quiet[s]) \in BOOLEAN
      BY DEF SniVisible
    <3> QED
      BY <1>4, <2>3, <3>1, <3>2
  <2> QED
    BY <2>2, <2>3
<1>6. \A t \in Session \ {s} : item'[t] = item[t]
  BY DEF Conclude, TypeOK
<1>7. ASSUME Alive(s), kind[s] = "ScreenCast", Usable(b, st)
      PROVE  Held(AfterBatch(s, b, st)) = b.streams
  <2>1. b.streams \subseteq Stream
    BY DEF Batch
  <2>2. \A i \in Stream : AfterBatch(s, b, st)[i] =
           CASE i \in b.streams -> IF st[i] = "lost" THEN "deaf" ELSE "live"
             [] i \in Held(st) \ b.streams -> "none"
             [] OTHER -> st[i]
    BY <1>7, <2>1 DEF AfterBatch
  <2>3. \A i \in Stream : AfterBatch(s, b, st)[i] \in {"live", "deaf"} <=> i \in b.streams
    BY <2>2 DEF Held
  <2> QED
    BY <2>1, <2>3 DEF Held
<1>8. /\ emptied => emptied'
      /\ Alive(s) /\ kind[s] = "ScreenCast" /\ b.streams = {} => emptied'
  BY DEF Conclude
<1> QED
  BY <1>1, <1>2, <1>3, <1>5, <1>6, <1>7, <1>8


\* The streams and replies of other sessions stay what they are.
OthersStay(s) ==
    /\ emptied => emptied'
    /\ \A t \in Session \ {s} :
          /\ life'[t] = life[t] /\ kind'[t] = kind[t] /\ started'[t] = started[t]
          /\ dialog'[t] = dialog[t] /\ batches'[t] = batches[t] /\ stream'[t] = stream[t]
          /\ quiet'[t] = quiet[t] /\ item'[t] = item[t] /\ reply'[t] = reply[t]
          /\ replies'[t] = replies[t]

LEMMA OnlyOne ==
    ASSUME ReplyInv, NEW s \in Session, OthersStay(s),
           OneReply(s)', OneBatch(s)', Granted(s)'
    PROVE  ReplyInv'
<1>1. ASSUME NEW t \in Session \ {s}
      PROVE  OneReply(t)' /\ OneBatch(t)' /\ Granted(t)'
  <2>1. OneReply(t) /\ OneBatch(t) /\ Granted(t)
    BY DEF ReplyInv
  <2>2. Held(stream'[t]) = Held(stream[t])
    BY DEF OthersStay
  <2> QED
    BY <2>1, <2>2, OthersKept DEF OthersStay
<1> QED
  BY <1>1 DEF ReplyInv

\* A batch that ends while its session is there for the reply, which nobody
\* else gives.
LEMMA ConcludeKeepsReplies ==
    ASSUME TypeOK, ReplyInv, NEW s \in Session, NEW b \in Batch,
           NEW st \in [Stream -> StreamState], Conclude(s, b, st),
           life'[s] = life[s], life[s] # "fresh", kind'[s] = kind[s], started'[s],
           Usable(b, st) => quiet'[s] = quiet[s],
           b.replies => /\ replies[s] = 0 /\ dialog'[s] # "awaited"
                        /\ \A c \in batches[s] : c.replies => c = b,
           ~b.replies => /\ started[s] /\ kind[s] # "ScreenCast"
                         /\ dialog'[s] = "awaited" <=> dialog[s] = "awaited",
           kind[s] = "ScreenCast" => dialog'[s] # "ignored"
    PROVE  OneReply(s)' /\ OneBatch(s)' /\ Granted(s)'
<1>1. /\ batches'[s] = batches[s] \ {b}
      /\ Alive(s) /\ b.replies =>
            /\ replies'[s] = replies[s] + 1
            /\ reply'[s] = IF Usable(b, st) THEN "Success" ELSE "OtherError"
      /\ ~(Alive(s) /\ b.replies) => replies'[s] = replies[s] /\ reply'[s] = reply[s]
      /\ Alive(s) /\ kind[s] = "RemoteDesktop" => item'[s]
      /\ Alive(s) /\ kind[s] = "ScreenCast" /\ Usable(b, st) =>
            /\ Held(stream'[s]) = b.streams
            /\ item'[s] = SniVisible(b.streams, quiet[s])
            /\ b.streams = {} => emptied'
  BY ConcludeEffect
<1>2. OneReply(s) /\ OneBatch(s) /\ Granted(s)
  BY DEF ReplyInv
<1>3. b.replies \in BOOLEAN /\ replies[s] \in Nat
  BY DEF Batch, TypeOK
<1>4. OneReply(s)'
  BY <1>1, <1>2, <1>3 DEF OneReply, Alive
<1>5. OneBatch(s)'
  BY <1>1, <1>2, <1>3 DEF OneReply, OneBatch, Alive
<1>6. Granted(s)'
  <2> SUFFICES ASSUME life'[s] = "open", reply'[s] = "Success"
               PROVE  /\ kind'[s] = "RemoteDesktop" => item'[s]
                      /\ kind'[s] = "ScreenCast" =>
                            /\ item'[s] = SniVisible(Held(stream'[s]), quiet'[s])
                            /\ ~emptied' => Held(stream'[s]) # {}
    BY DEF Granted
  <2>1. Alive(s)
    BY DEF Alive
  <2>2. CASE kind[s] = "RemoteDesktop"
    BY <1>1, <2>1, <2>2
  <2>3. CASE kind[s] = "ScreenCast"
    <3>1. b.replies /\ reply'[s] = IF Usable(b, st) THEN "Success" ELSE "OtherError"
      BY <1>1, <2>1, <2>3
    <3>2. Usable(b, st)
      BY <3>1
    <3>3. /\ Held(stream'[s]) = b.streams /\ quiet'[s] = quiet[s]
          /\ item'[s] = SniVisible(b.streams, quiet[s])
          /\ b.streams = {} => emptied'
      BY <1>1, <2>1, <2>3, <3>2
    <3> QED
      BY <2>3, <3>3
  <2> QED
    BY <1>2, <2>2, <2>3 DEF OneBatch
<1> QED
  BY <1>4, <1>5, <1>6

\* Streams are created for a reply that is not given yet, or for a dialog that
\* nobody waits for.
LEMMA StartKeepsReplies ==
    ASSUME TypeOK, ReplyInv, NEW s \in Session, NEW want \in SUBSET Stream,
           NEW missing \in SUBSET want, NEW replying \in BOOLEAN,
           StartStreaming(s, want, missing, replying),
           life[s] = "open", life'[s] = life[s], kind'[s] = kind[s], started'[s],
           replying => /\ replies[s] = 0 /\ dialog'[s] # "awaited"
                       /\ \A c \in batches[s] : ~c.replies,
           ~replying => /\ started[s] /\ kind[s] # "ScreenCast"
                        /\ dialog'[s] # "awaited" /\ dialog[s] # "awaited",
           kind[s] = "ScreenCast" => dialog'[s] # "ignored"
    PROVE  OneReply(s)' /\ OneBatch(s)' /\ Granted(s)'
<1> DEFINE st == [i \in Stream |-> CASE i \in missing -> "failed"
                                    [] i \in want \ missing -> "asked"
                                    [] OTHER -> stream[s][i]]
           b == [streams |-> want, replies |-> replying]
<1>1. st \in [Stream -> StreamState] /\ b \in Batch
  BY DEF StreamState, TypeOK, Batch
<1>2. quiet'[s] = quiet[s] \ want
  BY DEF StartStreaming, TypeOK
<1>3. CASE want = missing
  <2>1. Conclude(s, b, st)
    BY <1>3 DEF StartStreaming
  <2>2. Usable(b, st) => quiet'[s] = quiet[s]
    <3>1. Usable(b, st) => want = {}
      BY <1>3 DEF Usable
    <3> QED
      BY <1>2, <3>1 DEF TypeOK
  <2>3. b.replies = replying
    OBVIOUS
  <2> HIDE DEF b, st
  <2> QED
    BY <1>1, <2>1, <2>2, <2>3, ConcludeKeepsReplies
<1>4. CASE want # missing
  <2>1. /\ batches'[s] = batches[s] \cup {b}
        /\ item'[s] = item[s] /\ reply'[s] = reply[s] /\ replies'[s] = replies[s]
    BY <1>4 DEF StartStreaming, replyVars, TypeOK
  <2>2. OneReply(s) /\ OneBatch(s) /\ Granted(s)
    BY DEF ReplyInv
  <2>3. b.replies = replying
    OBVIOUS
  <2> HIDE DEF b
  <2>4. OneReply(s)'
    BY <2>1, <2>2, <2>3 DEF OneReply
  <2>5. OneBatch(s)'
    BY <2>1, <2>2, <2>3 DEF OneBatch
  <2>6. Granted(s)'
    BY <2>1, <2>2, <2>3 DEF OneReply, OneBatch, Granted
  <2> QED
    BY <2>4, <2>5, <2>6
<1> QED
  BY <1>3, <1>4

\* Creating the streams of a session is not felt by another one.
LEMMA StartForOthers ==
    ASSUME TypeOK, NEW s \in Session, NEW want \in SUBSET Stream,
           NEW missing \in SUBSET want, NEW replying \in BOOLEAN,
           StartStreaming(s, want, missing, replying)
    PROVE  /\ emptied => emptied'
           /\ \A t \in Session \ {s} :
                 /\ batches'[t] = batches[t] /\ stream'[t] = stream[t] /\ quiet'[t] = quiet[t]
                 /\ item'[t] = item[t] /\ reply'[t] = reply[t] /\ replies'[t] = replies[t]
<1> DEFINE st == [i \in Stream |-> CASE i \in missing -> "failed"
                                    [] i \in want \ missing -> "asked"
                                    [] OTHER -> stream[s][i]]
           b == [streams |-> want, replies |-> replying]
<1>1. st \in [Stream -> StreamState] /\ b \in Batch
  BY DEF StreamState, TypeOK, Batch
<1>2. \A t \in Session \ {s} : quiet'[t] = quiet[t]
  BY DEF StartStreaming, TypeOK
<1>3. CASE want = missing
  <2>1. Conclude(s, b, st)
    BY <1>3 DEF StartStreaming
  <2> HIDE DEF b, st
  <2> QED
    BY <1>1, <1>2, <2>1, ConcludeEffect
<1>4. CASE want # missing
  BY <1>2, <1>4 DEF StartStreaming, replyVars, TypeOK
<1> QED
  BY <1>3, <1>4

\* Closing sessions answers their dialogs.
LEMMA CloseKeepsReplies ==
    ASSUME TypeOK, ReplyInv, NEW some \in SUBSET Session, CloseAll(some),
           \A s \in some : Alive(s),
           UNCHANGED <<kind, started, batches, quiet, emptied>>,
           \A s \in Session \ some : Held(stream'[s]) = Held(stream[s]) /\ item'[s] = item[s]
    PROVE  ReplyInv'
<1>1. ASSUME NEW s \in some
      PROVE  OneReply(s)' /\ OneBatch(s)' /\ Granted(s)'
  <2>1. OneReply(s) /\ OneBatch(s)
    BY DEF ReplyInv
  <2>2. life'[s] = "closed" /\ dialog'[s] = "none"
    BY DEF CloseAll, TypeOK
  <2>3. /\ replies'[s] = IF dialog[s] = "awaited" THEN replies[s] + 1 ELSE replies[s]
        /\ reply'[s] = IF dialog[s] = "awaited" THEN "Cancelled" ELSE reply[s]
    BY DEF CloseAll, TypeOK
  <2>4. replies[s] \in Nat
    BY DEF TypeOK
  <2>5. OneReply(s)'
    <3>1. dialog[s] = "awaited" =>
             /\ started[s] /\ replies[s] = 0
             /\ \A b \in batches[s] : ~b.replies
      BY <2>1, <2>4 DEF OneReply
    <3> QED
      BY <2>1, <2>2, <2>3, <2>4, <3>1 DEF OneReply
  <2>6. OneBatch(s)'
    BY <2>1, <2>2, <2>3 DEF OneBatch, Alive
  <2> QED
    BY <2>2, <2>5, <2>6 DEF Granted
<1>2. ASSUME NEW s \in Session \ some
      PROVE  OneReply(s)' /\ OneBatch(s)' /\ Granted(s)'
  <2>1. OneReply(s) /\ OneBatch(s) /\ Granted(s)
    BY DEF ReplyInv
  <2>2. /\ life'[s] = life[s] /\ dialog'[s] = dialog[s]
        /\ reply'[s] = reply[s] /\ replies'[s] = replies[s]
    BY DEF CloseAll, TypeOK
  <2> QED
    BY <2>1, <2>2, OthersKept
<1> QED
  BY <1>1, <1>2 DEF ReplyInv


\* Every step keeps the replies in order.
LEMMA ReplyStep == TypeOK /\ InputInv /\ ReplyInv /\ [Next]_vars => ReplyInv'
<1> SUFFICES ASSUME TypeOK, InputInv, ReplyInv, [Next]_vars PROVE ReplyInv'
  OBVIOUS
<1> USE DEF sessionVars, streamVars, replyVars
<1>1. CASE FrontendVanishes
  <2> DEFINE open == {s \in Session : life[s] = "open"}
  <2>1. CloseAll(open) /\ UNCHANGED <<kind, started, streamVars, emptied>>
    BY <1>1 DEF FrontendVanishes
  <2>2. open \in SUBSET Session /\ \A s \in open : Alive(s)
    BY DEF Alive
  <2> HIDE DEF open
  <2> QED
    BY <2>1, <2>2, CloseKeepsReplies
<1>2. ASSUME NEW s \in Session, Close(s) \/ End(s)
      PROVE  ReplyInv'
  <2>1. CloseAll({s}) /\ Alive(s) /\ UNCHANGED <<kind, started, streamVars, emptied>>
    BY <1>2 DEF Close, End
  <2> QED
    BY <2>1, CloseKeepsReplies
<1>3. ASSUME NEW s \in Session, OneReply(s)', OneBatch(s)', Granted(s)', OthersStay(s)
      PROVE  ReplyInv'
  BY <1>3, OnlyOne
<1>4. ASSUME NEW s \in Session, NEW k \in {"ScreenCast", "RemoteDesktop"}, CreateSession(s, k)
      PROVE  ReplyInv'
  <2>1. OneReply(s) /\ OneBatch(s)
    BY DEF ReplyInv
  <2>2. OneReply(s)' /\ OneBatch(s)' /\ Granted(s)'
    BY <1>4, <2>1 DEF CreateSession, TypeOK, OneReply, OneBatch, Granted
  <2>3. OthersStay(s)
    BY <1>4 DEF CreateSession, TypeOK, OthersStay
  <2> QED
    BY <1>3, <2>2, <2>3
<1>5. ASSUME UNCHANGED <<life, kind, started, dialog, batches, quiet, item, replyVars, emptied>>,
             \A s \in Session : Held(stream'[s]) = Held(stream[s])
      PROVE  ReplyInv'
  <2>1. ASSUME NEW s \in Session
        PROVE  OneReply(s)' /\ OneBatch(s)' /\ Granted(s)'
    <3>1. OneReply(s) /\ OneBatch(s) /\ Granted(s)
      BY DEF ReplyInv
    <3> QED
      BY <1>5, <3>1, OthersKept
  <2> QED
    BY <2>1 DEF ReplyInv
<1>6. ASSUME NEW s \in Session, SelectSources(s) \/ CallClose(s)
      PROVE  ReplyInv'
  BY <1>5, <1>6 DEF SelectSources, CallClose
<1>7. ASSUME NEW s \in Session, StartFails(s)
      PROVE  ReplyInv'
  <2>1. OneReply(s) /\ OneBatch(s)
    BY DEF ReplyInv
  <2>2. /\ life[s] = "open" /\ ~started[s] /\ started'[s]
        /\ reply'[s] = "OtherError" /\ replies'[s] = replies[s] + 1
        /\ UNCHANGED <<life, kind, dialog, batches>>
    BY <1>7 DEF StartFails, MayStart, SendReply, TypeOK
  <2>3. OneReply(s)' /\ OneBatch(s)' /\ Granted(s)'
    BY <2>1, <2>2 DEF OneReply, OneBatch, Granted
  <2>4. OthersStay(s)
    BY <1>7 DEF StartFails, SendReply, TypeOK, OthersStay
  <2> QED
    BY <1>3, <2>3, <2>4
<1>8. ASSUME NEW s \in Session, DialogRejected(s)
      PROVE  ReplyInv'
  <2>1. OneReply(s) /\ OneBatch(s) /\ Granted(s)
    BY DEF ReplyInv
  <2>2. /\ dialog[s] # "none" /\ dialog'[s] = "none"
        /\ UNCHANGED <<life, kind, started, batches, stream, quiet, item, emptied>>
    BY <1>8 DEF DialogRejected, TypeOK
  <2>3. CASE dialog[s] = "awaited"
    <3>1. reply'[s] = "Cancelled" /\ replies'[s] = replies[s] + 1
      BY <1>8, <2>3 DEF DialogRejected, SendReply, TypeOK
    <3>2. replies[s] \in Nat
      BY DEF TypeOK
    <3>3. OneReply(s)'
      BY <2>1, <2>2, <2>3, <3>1, <3>2 DEF OneReply
    <3>4. OneBatch(s)' /\ Granted(s)'
      BY <2>1, <2>2, <2>3, <3>1 DEF OneBatch, Granted
    <3>5. OthersStay(s)
      BY <1>8, <2>3 DEF DialogRejected, SendReply, TypeOK, OthersStay
    <3> QED
      BY <1>3, <3>3, <3>4, <3>5
  <2>4. CASE dialog[s] # "awaited"
    <3>1. UNCHANGED replyVars
      BY <1>8, <2>4 DEF DialogRejected
    <3>2. OneReply(s)' /\ OneBatch(s)' /\ Granted(s)'
      BY <2>1, <2>2, <2>4, <3>1 DEF OneReply, OneBatch, Granted
    <3>3. OthersStay(s)
      BY <1>8, <3>1 DEF DialogRejected, TypeOK, OthersStay
    <3> QED
      BY <1>3, <3>2, <3>3
  <2> QED
    BY <2>3, <2>4
<1>9. ASSUME NEW s \in Session, Delete(s)
      PROVE  ReplyInv'
  <2>1. OneReply(s) /\ OneBatch(s)
    BY DEF ReplyInv
  <2>2. /\ life[s] = "closed" /\ life'[s] = "deleted"
        /\ UNCHANGED <<kind, started, dialog, batches, replyVars>>
    BY <1>9 DEF Delete, TypeOK
  <2>3. OneReply(s)' /\ OneBatch(s)' /\ Granted(s)'
    BY <2>1, <2>2 DEF OneReply, OneBatch, Granted
  <2>4. OthersStay(s)
    BY <1>9 DEF Delete, TypeOK, OthersStay
  <2> QED
    BY <1>3, <2>3, <2>4
<1>10. ASSUME NEW s \in Session, NEW i \in Stream, NEW answer \in {"ready", "failed"},
              StreamAnswered(s, i, answer)
       PROVE  ReplyInv'
  <2> DEFINE st == [stream[s] EXCEPT ![i] = answer]
  <2>1. st \in [Stream -> StreamState]
    BY DEF TypeOK, StreamState
  <2>2. PICK b \in batches[s] :
          /\ stream[s][i] = "asked"
          /\ \/ stream' = [stream EXCEPT ![s] = st] /\ UNCHANGED <<batches, item, replyVars, emptied>>
             \/ Conclude(s, b, st)
          /\ UNCHANGED <<sessionVars, dialog, quiet, inputVars, closes, underflow>>
    BY <1>10, Zenon DEF StreamAnswered
  <2>3. b \in Batch
    BY DEF TypeOK
  <2>4. OneReply(s) /\ OneBatch(s) /\ Granted(s)
    BY DEF ReplyInv
  <2>5. CASE Conclude(s, b, st)
    <3>1. started[s] /\ life[s] # "fresh"
      BY <2>4 DEF OneReply
    <3>2. /\ b.replies => /\ replies[s] = 0 /\ dialog[s] # "awaited"
                          /\ \A c \in batches[s] : c.replies => c = b
          /\ kind[s] = "ScreenCast" => b.replies /\ dialog[s] # "ignored"
      BY <2>4 DEF OneReply, OneBatch
    <3>3. /\ UNCHANGED <<life, kind, started, dialog, quiet>>
          /\ \A t \in Session \ {s} :
                /\ batches'[t] = batches[t] /\ stream'[t] = stream[t] /\ item'[t] = item[t]
                /\ reply'[t] = reply[t] /\ replies'[t] = replies[t]
          /\ emptied => emptied'
      BY <2>1, <2>2, <2>3, <2>5, ConcludeEffect
    <3>4. OthersStay(s)
      BY <3>3 DEF OthersStay
    <3> HIDE DEF st
    <3>5. OneReply(s)' /\ OneBatch(s)' /\ Granted(s)'
      BY <2>1, <2>3, <2>5, <3>1, <3>2, <3>3, ConcludeKeepsReplies
    <3> QED
      BY <1>3, <3>4, <3>5
  <2>6. CASE /\ stream' = [stream EXCEPT ![s] = st]
             /\ UNCHANGED <<batches, item, replyVars, emptied>>
    <3>1. \A t \in Session : Held(stream'[t]) = Held(stream[t])
      BY <2>2, <2>6 DEF Held, TypeOK
    <3> HIDE DEF st
    <3> QED
      BY <1>5, <2>2, <2>6, <3>1
  <2> QED
    BY <2>2, <2>5, <2>6
<1>11. ASSUME NEW s \in Session, NEW i \in Stream, StreamLost(s, i)
       PROVE  ReplyInv'
  <2>1. \A t \in Session : Held(stream'[t]) = Held(stream[t])
    BY <1>11 DEF StreamLost, Held, TypeOK
  <2> QED
    BY <1>5, <1>11, <2>1 DEF StreamLost
<1>12. ASSUME NEW s \in Session, NEW i \in Stream, StreamClosed(s, i)
       PROVE  ReplyInv'
  <2> DEFINE st == [stream[s] EXCEPT ![i] = "none"]
  <2>1. /\ Alive(s) /\ stream' = [stream EXCEPT ![s] = st]
        /\ item' = [item EXCEPT ![s] =
                      IF kind[s] = "ScreenCast" THEN SniVisible(Held(st), quiet[s]) ELSE @]
        /\ IF Held(st) = {}
           THEN CloseAll({s})
           ELSE UNCHANGED <<life, dialog, streamInput, fakeInput, closes, replyVars, underflow>>
        /\ UNCHANGED <<kind, started, batches, quiet, emptied>>
    BY <1>12 DEF StreamClosed
  <2> HIDE DEF st
  <2>2. /\ stream'[s] = st
        /\ \A t \in Session \ {s} : stream'[t] = stream[t] /\ item'[t] = item[t]
    BY <2>1 DEF TypeOK
  <2>3. CASE Held(st) = {}
    BY <2>1, <2>2, <2>3, CloseKeepsReplies
  <2>4. CASE Held(st) # {}
    <3>1. OneReply(s) /\ OneBatch(s) /\ Granted(s)
      BY DEF ReplyInv
    <3>2. UNCHANGED <<life, kind, started, dialog, batches, quiet, replyVars, emptied>>
      BY <2>1, <2>4
    <3>3. OneReply(s)' /\ OneBatch(s)'
      BY <3>1, <3>2 DEF OneReply, OneBatch
    <3>4. kind[s] # "ScreenCast" => item'[s] = item[s]
      BY <2>1 DEF TypeOK
    <3>5. kind[s] = "ScreenCast" => item'[s] = SniVisible(Held(st), quiet[s])
      <4>1. SniVisible(Held(st), quiet[s]) \in BOOLEAN
        BY DEF SniVisible
      <4> QED
        BY <2>1, <4>1 DEF TypeOK
    <3>6. Granted(s)'
      BY <2>2, <2>4, <3>1, <3>2, <3>4, <3>5 DEF Granted
    <3>7. OthersStay(s)
      BY <2>2, <3>2 DEF OthersStay
    <3> QED
      BY <1>3, <3>3, <3>6, <3>7
  <2> QED
    BY <2>3, <2>4
<1>13. ASSUME NEW s \in Session, NEW i \in Stream, MediaChanges(s, i)
       PROVE  ReplyInv'
  <2> DEFINE after(running) == IF running THEN quiet[s] \ {i} ELSE quiet[s] \cup {i}
  <2>0. PICK running \in BOOLEAN :
          /\ quiet' = [quiet EXCEPT ![s] = after(running)]
          /\ item' = [item EXCEPT ![s] =
                        IF kind[s] = "ScreenCast" /\ Alive(s) /\ Held(stream[s]) # {}
                        THEN SniVisible(Held(stream[s]), after(running))
                        ELSE @]
    BY <1>13, Zenon DEF MediaChanges
  <2> DEFINE now == after(running)
  <2>1. /\ quiet' = [quiet EXCEPT ![s] = now]
        /\ item' = [item EXCEPT ![s] =
                      IF kind[s] = "ScreenCast" /\ Alive(s) /\ Held(stream[s]) # {}
                      THEN SniVisible(Held(stream[s]), now)
                      ELSE @]
    BY <2>0
  <2> HIDE DEF now
  <2>2. UNCHANGED <<life, kind, started, dialog, batches, stream, replyVars, emptied>>
    BY <1>13 DEF MediaChanges
  <2>3. OneReply(s) /\ OneBatch(s) /\ Granted(s)
    BY DEF ReplyInv
  <2>4. OneReply(s)' /\ OneBatch(s)'
    BY <2>2, <2>3 DEF OneReply, OneBatch
  <2>5. quiet'[s] = now
    BY <2>1 DEF TypeOK
  <2>6. kind[s] = "RemoteDesktop" => item'[s] = item[s]
    BY <2>1 DEF TypeOK
  <2>7. ASSUME kind[s] = "ScreenCast", life[s] = "open", reply[s] = "Success"
        PROVE  item'[s] = SniVisible(Held(stream[s]), now)
    <3>1. CASE Held(stream[s]) # {}
      <4>1. SniVisible(Held(stream[s]), now) \in BOOLEAN
        BY DEF SniVisible
      <4> QED
        BY <2>1, <2>7, <3>1, <4>1 DEF TypeOK, Alive
    <3>2. CASE Held(stream[s]) = {}
      <4>1. item'[s] = item[s]
        BY <2>1, <3>2 DEF TypeOK
      <4>2. item[s] = SniVisible(Held(stream[s]), quiet[s])
        BY <2>3, <2>7 DEF Granted
      <4> QED
        BY <3>2, <4>1, <4>2 DEF SniVisible
    <3> QED
      BY <3>1, <3>2
  <2>8. Granted(s)'
    BY <2>2, <2>3, <2>5, <2>6, <2>7 DEF Granted
  <2>9. OthersStay(s)
    BY <2>1, <2>2 DEF OthersStay, TypeOK
  <2> QED
    BY <1>3, <2>4, <2>8, <2>9
<1>14. ASSUME NEW s \in Session, NEW want \in SUBSET Unused(s), NEW missing \in SUBSET want,
              DialogAccepted(s, want, missing)
       PROVE  ReplyInv'
  <2>1. want \in SUBSET Stream
    BY ScreenSharingAssumption DEF Unused
  <2> DEFINE replying == dialog[s] = "awaited"
  <2>2. /\ StartStreaming(s, want, missing, replying) /\ dialog[s] # "none"
        /\ dialog'[s] = "none" /\ \A t \in Session \ {s} : dialog'[t] = dialog[t]
        /\ UNCHANGED <<life, kind, started>>
    BY <1>14 DEF DialogAccepted, ContinueStart, TypeOK
  <2>3. OneReply(s) /\ OneBatch(s) /\ life[s] = "open"
    BY <2>2 DEF ReplyInv, InputInv, Histories
  <2>4. dialog[s] \in {"none", "awaited", "ignored"} /\ replies[s] \in Nat /\ replying \in BOOLEAN
    BY DEF TypeOK
  <2>5. /\ started[s]
        /\ replying => replies[s] = 0 /\ \A c \in batches[s] : ~c.replies
        /\ ~replying => kind[s] # "ScreenCast" /\ dialog[s] # "awaited"
    BY <2>2, <2>3, <2>4 DEF OneReply, OneBatch
  <2> HIDE DEF replying
  <2>6. OneReply(s)' /\ OneBatch(s)' /\ Granted(s)'
    BY <2>1, <2>2, <2>3, <2>4, <2>5, StartKeepsReplies
  <2>7. OthersStay(s)
    BY <2>1, <2>2, <2>4, StartForOthers DEF OthersStay
  <2> QED
    BY <1>3, <2>6, <2>7
<1>15. ASSUME NEW s \in Session, NEW want \in SUBSET Unused(s), NEW missing \in SUBSET want,
              MayStart(s), UNCHANGED <<life, kind>>, started' = [started EXCEPT ![s] = TRUE],
              dialog' \in [Session -> {"none", "awaited", "ignored"}],
              \A t \in Session \ {s} : dialog'[t] = dialog[t],
              \/ /\ ContinueStart(s, want, missing, TRUE)
                 /\ dialog'[s] # "awaited"
                 /\ kind[s] = "ScreenCast" => dialog'[s] # "ignored"
              \/ dialog'[s] = "awaited" /\ UNCHANGED <<streamVars, replyVars, emptied>>
              \/ /\ SendReply(s, "OtherError") /\ dialog' = dialog
                 /\ UNCHANGED <<streamVars, emptied>>
       PROVE  ReplyInv'
  <2>1. want \in SUBSET Stream
    BY ScreenSharingAssumption DEF Unused
  <2>2. life[s] = "open" /\ ~started[s] /\ started'[s]
    BY <1>15 DEF MayStart, TypeOK
  <2>3. OneReply(s) /\ OneBatch(s) /\ Granted(s)
    BY DEF ReplyInv
  <2>4. replies[s] = 0 /\ dialog[s] = "none" /\ batches[s] = {}
    BY <2>2, <2>3 DEF OneReply
  <2>5. \A t \in Session \ {s} : started'[t] = started[t]
    BY <1>15 DEF TypeOK
  <2>6. CASE /\ ContinueStart(s, want, missing, TRUE)
             /\ dialog'[s] # "awaited"
             /\ kind[s] = "ScreenCast" => dialog'[s] # "ignored"
    <3>1. StartStreaming(s, want, missing, TRUE)
      BY <2>6 DEF ContinueStart
    <3>2. OneReply(s)' /\ OneBatch(s)' /\ Granted(s)'
      BY <1>15, <2>1, <2>2, <2>4, <2>6, <3>1, StartKeepsReplies
    <3>3. OthersStay(s)
      BY <1>15, <2>1, <2>5, <3>1, StartForOthers DEF OthersStay
    <3> QED
      BY <1>3, <3>2, <3>3
  <2>7. CASE dialog'[s] = "awaited" /\ UNCHANGED <<streamVars, replyVars, emptied>>
    <3>1. OneReply(s)' /\ OneBatch(s)' /\ Granted(s)'
      BY <1>15, <2>2, <2>3, <2>4, <2>7 DEF OneReply, OneBatch, Granted
    <3>2. OthersStay(s)
      BY <1>15, <2>5, <2>7 DEF OthersStay
    <3> QED
      BY <1>3, <3>1, <3>2
  <2>8. CASE /\ SendReply(s, "OtherError") /\ dialog' = dialog
             /\ UNCHANGED <<streamVars, emptied>>
    <3>1. /\ reply'[s] = "OtherError" /\ replies'[s] = 1
          /\ \A t \in Session \ {s} : reply'[t] = reply[t] /\ replies'[t] = replies[t]
      BY <2>4, <2>8 DEF SendReply, TypeOK
    <3>2. OneReply(s)' /\ OneBatch(s)' /\ Granted(s)'
      BY <1>15, <2>2, <2>3, <2>4, <2>8, <3>1 DEF OneReply, OneBatch, Granted
    <3>3. OthersStay(s)
      BY <1>15, <2>5, <2>8, <3>1 DEF OthersStay
    <3> QED
      BY <1>3, <3>2, <3>3
  <2> QED
    BY <1>15, <2>6, <2>7, <2>8
<1>16. ASSUME NEW s \in Session, NEW want \in SUBSET Unused(s), NEW missing \in SUBSET want,
              NEW restored \in BOOLEAN, StartScreenCast(s, restored, want, missing)
       PROVE  ReplyInv'
  <2>1. /\ MayStart(s) /\ UNCHANGED <<life, kind>> /\ started' = [started EXCEPT ![s] = TRUE]
        /\ dialog' \in [Session -> {"none", "awaited", "ignored"}]
        /\ \A t \in Session \ {s} : dialog'[t] = dialog[t]
    BY <1>16 DEF StartScreenCast, OpenDialog, TypeOK
  <2>2. OneReply(s)
    BY DEF ReplyInv
  <2>3. dialog[s] = "none"
    BY <2>1, <2>2 DEF OneReply, MayStart
  <2>4. \/ ContinueStart(s, want, missing, TRUE) /\ dialog' = dialog
        \/ dialog'[s] = "awaited" /\ UNCHANGED <<streamVars, replyVars, emptied>>
    BY <1>16 DEF StartScreenCast, OpenDialog, TypeOK
  <2> QED
    BY <1>15, <2>1, <2>3, <2>4
<1>17. ASSUME NEW s \in Session, NEW want \in SUBSET Unused(s), NEW missing \in SUBSET want,
              NEW restored \in BOOLEAN, NEW authorized \in Lookups,
              StartRemoteDesktop(s, restored, authorized, want, missing)
       PROVE  ReplyInv'
  <2>1. OneReply(s)
    BY DEF ReplyInv
  <2>2. /\ MayStart(s) /\ UNCHANGED <<life, kind>> /\ started' = [started EXCEPT ![s] = TRUE]
        /\ kind[s] = "RemoteDesktop"
        /\ dialog' \in [Session -> {"none", "awaited", "ignored"}]
        /\ \A t \in Session \ {s} : dialog'[t] = dialog[t]
    BY <1>17 DEF StartRemoteDesktop, TypeOK
  <2>3. dialog[s] = "none"
    BY <2>1, <2>2 DEF OneReply, MayStart
  <2>4. \/ ContinueStart(s, want, missing, TRUE) /\ dialog'[s] # "awaited"
        \/ dialog'[s] = "awaited" /\ UNCHANGED <<streamVars, replyVars, emptied>>
        \/ /\ SendReply(s, "OtherError") /\ dialog'[s] = dialog[s]
           /\ UNCHANGED <<streamVars, emptied>>
    BY <1>17, <2>3 DEF StartRemoteDesktop, TypeOK
  <2>5. dialog'[s] = dialog[s] => dialog' = dialog
    BY <2>2 DEF TypeOK
  <2> QED
    BY <1>15, <2>2, <2>4, <2>5
<1>18. CASE UNCHANGED vars
  BY <1>5, <1>18 DEF vars
<1> QED
  BY <1>1, <1>2, <1>4, <1>6, <1>7, <1>8, <1>9, <1>10, <1>11, <1>12, <1>13, <1>14, <1>16,
     <1>17, <1>18
     DEF Next, StreamAnswers

LEMMA ReplyInit == Init => InputInv /\ ReplyInv
<1>1. Init => InputInv
  BY FS_EmptySet DEF Init, InputInv, Histories, InputMatchesSessions, Controlling
<1>2. Init => ReplyInv
  BY DEF Init, ReplyInv, OneReply, OneBatch, Granted
<1> QED
  BY <1>1, <1>2

\* A Start is replied to once, and while its session is open the reply is sent
\* or still awaited, from the dialog or from a batch of streams.
THEOREM StartIsRepliedOnce == Spec => []StartRepliedOnce
BY ReplyInit, TypeCorrect, InputStep, ReplyStep, RepliedOnce, PTL DEF Spec

\* What an application was granted is shown to the user: a status notifier for
\* every RemoteDesktop session, and for a ScreenCast session with a stream that
\* may be running.
THEOREM GrantsAreShown == Spec => []GrantIsVisible
<1>1. ReplyInv => GrantIsVisible
  BY GrantVisible
<1> QED
  BY <1>1, ReplyInit, TypeCorrect, InputStep, ReplyStep, PTL DEF Spec

\* A ScreenCast session that got streams is open only as long as it has one.
THEOREM CastsEndWithStreams == Spec => []EndsWithItsStreams
<1>1. ReplyInv => EndsWithItsStreams
  BY GrantVisible
<1> QED
  BY <1>1, ReplyInit, TypeCorrect, InputStep, ReplyStep, PTL DEF Spec

=============================================================================
