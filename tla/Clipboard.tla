------------------------------ MODULE Clipboard ------------------------------
(***************************************************************************)
(* The Clipboard portal (src/src/clipboard.cpp): sessions of RemoteDesktop *)
(* and InputCapture set the selection of the Wayland clipboard and are     *)
(* told when it changes.                                                   *)
(*                                                                         *)
(* The portal and the compositor talk by two streams of messages.  The     *)
(* portal knows the selection from its own m_source and from the events,   *)
(* which both may be out of date: other programs take the selection, too.  *)
(* The compositor is external.  Like KWin it cancels the old source before *)
(* it announces a new selection, and an event for a source that the portal *)
(* has destroyed is dropped (libwayland).  Data go through a pipe from the *)
(* owner to the reader; the portal keeps the end the owner is to write to. *)
(***************************************************************************)
EXTENDS Naturals, Sequences

CONSTANTS
    Session,        \* session handles; the frontend never uses one twice
    MaxSelections,  \* bound: selections made, by sessions and others
    MaxRequests,    \* bound: sessions set, clear and read nothing while so
                    \* many requests wait
    MaxReads        \* bound: times the data of the selection are asked for

ASSUME ClipboardAssumption ==
    /\ MaxSelections \in Nat
    /\ MaxRequests \in Nat
    /\ MaxReads \in Nat
    /\ {"none", "foreign"} \cap Session = {}

Selection == 1..MaxSelections
None == 0
Nothing == <<>>

Request == [type : {"set_selection"}, id : Selection \cup {None}]
             \cup [type : {"destroy", "receive"}, id : Selection]
Event == [type : {"cancelled", "send"}, id : Selection]
           \cup [type : {"selection"}, id : Selection \cup {None}]
Change == [offer : Selection \cup {None}, isOwner : BOOLEAN]
Transfer == [serial : Nat, id : Selection, to : Session]

VARIABLES
    life,       \* life[s]: "fresh", "open", or "closed"
    enabled,    \* enabled[s]: m_clipboardEnabled of the session
    source,     \* m_source, or None
    offer,      \* the selection m_currentOffer offers, or None
    told,       \* told[s]: the last SelectionOwnerChanged, or Nothing
    transfers,  \* m_pendingTransfers: the serial, the selection it is of and the
                \* session SelectionTransfer told of it
    serial,     \* transferSerialCounter
    made,       \* number of selections made so far
    owner,      \* owner[id]: the session that made it, or "foreign"
    selection,  \* the compositor's selection, or None
    reads,      \* number of times data were asked for so far
    requests,   \* portal to compositor
    events      \* compositor to portal

transferVars == <<transfers, serial>>
portalVars == <<life, enabled, source, offer, told, transferVars>>
compositorVars == <<made, owner, selection, reads>>
vars == <<portalVars, compositorVars, requests, events>>

-----------------------------------------------------------------------------
Init ==
    /\ life = [s \in Session |-> "fresh"]
    /\ enabled = [s \in Session |-> FALSE]
    /\ source = None
    /\ offer = None
    /\ told = [s \in Session |-> Nothing]
    /\ transfers = {}
    /\ serial = 0
    /\ reads = 0
    /\ made = 0
    /\ owner = [id \in Selection |-> "none"]
    /\ selection = None
    /\ requests = <<>>
    /\ events = <<>>

\* A new selection of somebody.
Make(somebody) ==
    /\ made < MaxSelections
    /\ made' = made + 1
    /\ owner' = [owner EXCEPT ![made + 1] = somebody]

IsOf(id, s) == id # None /\ owner[id] = s
IsOurs(id) == id # None /\ owner[id] \in Session

SetSelectionRequest(id) == [type |-> "set_selection", id |-> id]

\* Fault: there is no check for a source.
DestroyRequestsAlways == <<[type |-> "destroy", id |-> source]>>

\* Destruction of m_source.
DestroyRequests == IF source = None THEN <<>> ELSE <<[type |-> "destroy", id |-> source]>>

\* Fault: the old source is destroyed before the new one is set.
SetSourceDestroyFirst(id) ==
    /\ requests' = requests \o DestroyRequests \o <<SetSelectionRequest(id)>>
    /\ source' = id

SetSource(id) ==
    /\ requests' = requests \o <<SetSelectionRequest(id)>> \o DestroyRequests
    /\ source' = id

-----------------------------------------------------------------------------
(* The sessions.                                                           *)

CreateSession(s) ==
    /\ life[s] = "fresh"
    /\ life' = [life EXCEPT ![s] = "open"]
    /\ UNCHANGED <<enabled, source, offer, told, transferVars, compositorVars, requests, events>>

RequestClipboard(s) ==
    /\ life[s] = "open"
    /\ ~enabled[s]
    /\ enabled' = [enabled EXCEPT ![s] = TRUE]
    /\ UNCHANGED <<life, source, offer, told, transferVars, compositorVars, requests, events>>

\* isClipboardEnabledSession
IsClipboardEnabledSession(s) == life[s] = "open" /\ enabled[s]

\* With mime types.
SetSelection(s) ==
    /\ IsClipboardEnabledSession(s)
    /\ Len(requests) < MaxRequests
    /\ Make(s)
    /\ SetSource(made + 1)
    /\ UNCHANGED <<life, enabled, offer, told, transferVars, selection, reads, events>>

\* Without.
SetNoSelection(s) ==
    /\ IsClipboardEnabledSession(s)
    /\ Len(requests) < MaxRequests
    /\ SetSource(None)
    /\ UNCHANGED <<life, enabled, offer, told, transferVars, compositorVars, events>>

\* Session::close, whose closed() RequestClipboard has connected.
Close(s) ==
    /\ life[s] = "open"
    /\ life' = [life EXCEPT ![s] = "closed"]
    /\ IF enabled[s] /\ IsOf(source, s)
         THEN SetSource(None)
         ELSE UNCHANGED <<source, requests>>
    /\ UNCHANGED <<enabled, offer, told, transferVars, compositorVars, events>>

\* SelectionRead: a pipe is made and its end sent; an empty offer, or a format
\* that is not in it, gets nothing.
SelectionRead(s) ==
    /\ IsClipboardEnabledSession(s)
    /\ offer # None
    /\ Len(requests) < MaxRequests
    /\ reads < MaxReads
    /\ reads' = reads + 1
    /\ requests' = Append(requests, [type |-> "receive", id |-> offer])
    /\ UNCHANGED <<portalVars, made, owner, selection, events>>

\* SelectionWriteDone: the descriptor is closed.  Any session may say so; before,
\* SelectionWrite hands out a copy and changes nothing.
SelectionWriteDone(s, t) ==
    /\ IsClipboardEnabledSession(s)
    /\ t \in transfers
    /\ transfers' = {u \in transfers : u.serial # t.serial}
    /\ UNCHANGED <<life, enabled, source, offer, told, serial, compositorVars, requests, events>>

-----------------------------------------------------------------------------
(* The compositor's events.                                                *)

NextEvent(type) == events # <<>> /\ Head(events).type = type

\* Fault: the source is kept.
CancelledUnnoted ==
    /\ NextEvent("cancelled")
    /\ events' = Tail(events)
    /\ UNCHANGED <<portalVars, compositorVars, requests>>

Cancelled ==
    /\ NextEvent("cancelled")
    /\ events' = Tail(events)
    /\ IF source = Head(events).id
         THEN source' = None /\ requests' = requests \o DestroyRequests
         ELSE UNCHANGED <<source, requests>>
    /\ UNCHANGED <<life, enabled, offer, told, transferVars, compositorVars>>

\* Fault: every session is told it is the owner if one is.
OfferChangedForAll(now, s) == [offer |-> now, isOwner |-> source # None]

\* What SelectionOwnerChanged tells s.
OfferChanged(now, s) == [offer |-> now, isOwner |-> IsOf(source, s)]

SelectionArrives ==
    /\ NextEvent("selection")
    /\ events' = Tail(events)
    /\ offer' = Head(events).id
    /\ told' = [s \in Session |->
                  IF IsClipboardEnabledSession(s)
                    THEN OfferChanged(Head(events).id, s) ELSE told[s]]
    /\ UNCHANGED <<life, enabled, source, transferVars, compositorVars, requests>>

\* dataRequested of the source, which tells its owner.
DataRequested ==
    /\ NextEvent("send")
    /\ events' = Tail(events)
    /\ IF source = Head(events).id
         THEN /\ transfers' = transfers \cup
                    {[serial |-> serial, id |-> source, to |-> owner[source]]}
              /\ serial' = serial + 1
         ELSE UNCHANGED transferVars
    /\ UNCHANGED <<life, enabled, source, offer, told, compositorVars, requests>>

-----------------------------------------------------------------------------
(* The compositor.                                                         *)

\* The selection becomes id; its source before is cancelled when it is ours.
Select(id) ==
    /\ selection' = id
    /\ events' = events
         \o (IF IsOurs(selection) THEN <<[type |-> "cancelled", id |-> selection]>>
                                  ELSE <<>>)
         \o <<[type |-> "selection", id |-> id]>>

HandleSetSelection ==
    /\ requests # <<>>
    /\ Head(requests).type = "set_selection"
    /\ requests' = Tail(requests)
    /\ IF Head(requests).id = selection
         THEN UNCHANGED <<selection, events>>
         ELSE Select(Head(requests).id)
    /\ UNCHANGED <<portalVars, made, owner, reads>>

\* The selection goes with its source.
HandleDestroy ==
    /\ requests # <<>>
    /\ Head(requests).type = "destroy"
    /\ requests' = Tail(requests)
    /\ IF Head(requests).id = selection
         THEN /\ selection' = None
              /\ events' = Append(events, [type |-> "selection", id |-> None])
         ELSE UNCHANGED <<selection, events>>
    /\ UNCHANGED <<portalVars, made, owner, reads>>

\* Another program takes the selection.
ForeignSelects ==
    /\ Make("foreign")
    /\ Select(made + 1)
    /\ UNCHANGED <<portalVars, reads, requests>>

\* Another program that has the selection ends.
ForeignEnds ==
    /\ IsOf(selection, "foreign")
    /\ Select(None)
    /\ UNCHANGED <<portalVars, made, owner, reads, requests>>

\* The data are asked of the source, if it is still there; those of other programs
\* do not concern the portal.
HandleReceive ==
    /\ requests # <<>>
    /\ Head(requests).type = "receive"
    /\ requests' = Tail(requests)
    /\ \/ UNCHANGED events
       \/ /\ IsOurs(Head(requests).id)
          /\ events' = Append(events, [type |-> "send", id |-> Head(requests).id])
    /\ UNCHANGED <<portalVars, compositorVars>>

\* Another program wants the data of a session's selection.
ForeignReads ==
    /\ IsOurs(selection)
    /\ reads < MaxReads
    /\ reads' = reads + 1
    /\ events' = Append(events, [type |-> "send", id |-> selection])
    /\ UNCHANGED <<portalVars, made, owner, selection, requests>>

Next ==
    \/ \E s \in Session :
          \/ CreateSession(s) \/ RequestClipboard(s) \/ Close(s)
          \/ SetSelection(s) \/ SetNoSelection(s) \/ SelectionRead(s)
          \/ \E t \in transfers : SelectionWriteDone(s, t)
    \/ Cancelled \/ SelectionArrives \/ DataRequested
    \/ HandleSetSelection \/ HandleDestroy \/ HandleReceive
    \/ ForeignSelects \/ ForeignEnds \/ ForeignReads

Spec == Init /\ [][Next]_vars

-----------------------------------------------------------------------------
\* The variables have their types, and the next serial is larger than those in use.
TypeOK ==
    /\ life \in [Session -> {"fresh", "open", "closed"}]
    /\ enabled \in [Session -> BOOLEAN]
    /\ source \in Selection \cup {None}
    /\ offer \in Selection \cup {None}
    /\ told \in [Session -> Change \cup {Nothing}]
    /\ transfers \subseteq {t \in Transfer : t.serial < serial}
    /\ serial \in Nat
    /\ reads \in 0..MaxReads
    /\ made \in 0..MaxSelections
    /\ owner \in [Selection -> Session \cup {"none", "foreign"}]
    /\ selection \in Selection \cup {None}
    /\ requests \in Seq(Request)
    /\ events \in Seq(Event)

\* dataRequested and SelectionOwnerChanged go through m_source's owner, a plain
\* pointer: it is a session that is open.
OwnerIsOpen == source # None => \E s \in Session : IsOf(source, s) /\ life[s] = "open"

Quiet == requests = <<>> /\ events = <<>>

\* However the sessions, other programs and the messages under way mix, m_source
\* is never of a session that is gone, and in the end it is the selection, if a
\* session has it, and nothing otherwise.
SourceCatchesUp ==
    /\ OwnerIsOpen
    /\ Quiet => source = IF IsOurs(selection) THEN selection ELSE None

\* In the end every session that was told of the selection was told right: of
\* the one there is, and whether it is its own.
ToldRight ==
    Quiet => \A s \in Session :
        IsClipboardEnabledSession(s) /\ told[s] # Nothing =>
            told[s] = [offer |-> selection, isOwner |-> IsOf(selection, s)]

\* Destroying a source never takes the selection away: setSource's comment says
\* that the previous one is destroyed after the set_selection request.
NoGap ==
    [][requests # <<>> /\ Head(requests).type = "destroy" /\ requests' = Tail(requests)
         => selection' = selection]_vars

=============================================================================
