--------------------------- MODULE GlobalShortcuts ---------------------------
(***************************************************************************)
(* The global shortcuts portal (src/src/globalshortcuts.cpp): the sessions *)
(* of one application bind shortcuts, the user is asked about those the    *)
(* session has not got yet, and kglobalaccel keeps them.  kglobalaccel is  *)
(* external: it keeps one key for an id, gives a key to one id only, and   *)
(* tells of changes made elsewhere by a signal.                            *)
(*                                                                         *)
(* A session opens one dialog at a time.  Sorting the ids of a call        *)
(* leaves one entry of those with the same id, whichever it is.            *)
(***************************************************************************)
EXTENDS Integers, Sequences

CONSTANTS
    Session,    \* session handles of one application, never used twice
    Id,         \* ids of shortcuts; their order is that of the sorted lists
    Key,        \* key sequences
    NoKey,      \* the empty key sequence
    Absent,     \* no such shortcut
    Nameless,   \* the ids the application gives no description for
    MaxBinds,   \* bound: number of calls of BindShortcuts
    MaxForeign  \* bound: number of changes made by other programs

ASSUME GlobalShortcutsAssumption ==
    /\ Id \subseteq Nat
    /\ Nameless \subseteq Id
    /\ NoKey \notin Key
    /\ Absent \notin Key \cup {NoKey}
    /\ {MaxBinds, MaxForeign} \subseteq Nat

\* A list of shortcuts: what is kept for an id.
Shortcuts == [Id -> Key \cup {NoKey, Absent}]
None == [i \in Id |-> Absent]
Known(f) == {i \in Id : f[i] # Absent}
KeysOf(f) == {f[i] : i \in Id} \cap Key

NoDialog == [state |-> "none", rows |-> None, conflicts |-> {}, returning |-> None,
             replied |-> FALSE]

VARIABLES
    registry,  \* the shortcuts of the component in kglobalaccel
    signals,   \* yourShortcutsChanged under way: a sequence of <<id, key>>
    status,    \* status[s]: none, open, closed (to be deleted) or deleted
    actions,   \* actions[s]: m_shortcuts, with the keys of the QActions
    dialog,    \* dialog[s]: the dialog of BindShortcuts and its ShortcutsModel
    binds,     \* number of calls of BindShortcuts so far
    foreign,   \* number of foreign changes so far
    told,      \* history: told[s]: the shortcuts the application of an open session
               \* was told of last
    consented, \* history: <<id, key>> the user has confirmed or set
    undercut,  \* history: ids taken out of kglobalaccel while a session or a
               \* dialog still counted on them
    apart      \* history: ids that were registered when their key had been given
               \* away, or with a signal of an earlier life of theirs under way

sessionVars == <<status, actions, dialog, told>>
historyVars == <<consented, undercut, apart>>
vars == <<registry, signals, sessionVars, binds, foreign, historyVars>>

-----------------------------------------------------------------------------
Init ==
    /\ registry = None
    /\ signals = <<>>
    /\ status = [s \in Session |-> "none"]
    /\ actions = [s \in Session |-> None]
    /\ dialog = [s \in Session |-> NoDialog]
    /\ binds = 0
    /\ foreign = 0
    /\ told = [s \in Session |-> None]
    /\ consented = {}
    /\ undercut = {}
    /\ apart = {}

Alive(s) == status[s] \in {"open", "closed"}

\* The ids somebody other than the session s still takes for registered.
CountedOn(s) ==
    UNION {IF r = s THEN {} ELSE Known(actions[r]) \cup Known(dialog[r].returning)
           : r \in {q \in Session : Alive(q)}}

-----------------------------------------------------------------------------
(* GlobalShortcutsSession::setActions.                                     *)

Described(wanted) == Known(wanted) \ Nameless

\* Registered for the first time; the others keep the keys they have.
Fresh(wanted) == Described(wanted) \ Known(registry)

\* kglobalaccel lists it, the session has an action for it, it was not asked for.
Forgotten(s, wanted) == (Known(registry) \cap Known(actions[s])) \ Described(wanted)

\* A key another id has is not given.
Refused(wanted) ==
    {i \in Fresh(wanted) :
        \/ wanted[i] \in KeysOf(registry)
        \/ \E j \in Fresh(wanted) : j < i /\ wanted[j] = wanted[i] /\ wanted[i] \in Key}

Signalled == {signals[n][1] : n \in DOMAIN signals}

\* Variant: the keys the application prefers, whatever kglobalaccel has.
ActionsAsWanted(s, wanted) ==
    [i \in Id |->
        IF i \in Described(wanted) THEN wanted[i]
        ELSE IF i \in Forgotten(s, wanted) THEN Absent
        ELSE actions[s][i]]

Actions(s, wanted) ==
    [i \in Id |->
        IF i \in Fresh(wanted) THEN wanted[i]
        ELSE IF i \in Described(wanted) THEN registry[i]
        ELSE IF i \in Forgotten(s, wanted) THEN Absent
        ELSE actions[s][i]]

\* Variant: kglobalaccel gives every key it is asked for.
RegisteredAsWanted(s, wanted) ==
    [i \in Id |->
        IF i \in Fresh(wanted) THEN wanted[i]
        ELSE IF i \in Forgotten(s, wanted) THEN Absent
        ELSE registry[i]]

Registered(s, wanted) ==
    [i \in Id |->
        IF i \in Refused(wanted) THEN NoKey
        ELSE IF i \in Fresh(wanted) THEN wanted[i]
        ELSE IF i \in Forgotten(s, wanted) THEN Absent
        ELSE registry[i]]

SetActions(s, wanted) ==
    /\ registry' = Registered(s, wanted)
    /\ actions' = [actions EXCEPT ![s] = Actions(s, wanted)]
    /\ undercut' = undercut \cup (Forgotten(s, wanted) \cap CountedOn(s))
                            \cup (Forgotten(s, wanted) \cap Known(dialog[s].returning))
    /\ apart' = apart \cup Refused(wanted) \cup (Fresh(wanted) \cap Signalled)

-----------------------------------------------------------------------------
(* Sessions and their shortcuts.                                           *)

\* The constructor and loadActions.
CreateSession(s) ==
    /\ status[s] = "none"
    /\ status' = [status EXCEPT ![s] = "open"]
    /\ actions' = [actions EXCEPT ![s] = registry]
    /\ UNCHANGED <<registry, signals, dialog, told, binds, foreign, historyVars>>

ListShortcuts(s) ==
    /\ status[s] = "open"
    /\ told' = [told EXCEPT ![s] = actions[s]]
    /\ UNCHANGED <<registry, signals, status, actions, dialog, binds, foreign, historyVars>>

\* Nothing new: the shortcuts are set and the call is answered at once.
BindReturning(s, wanted) ==
    /\ Known(wanted) \subseteq Known(actions[s])
    /\ SetActions(s, wanted)
    /\ told' = [told EXCEPT ![s] = actions'[s]]
    /\ UNCHANGED <<signals, status, dialog, foreign, consented>>

\* ShortcutsModel looks for conflicts when it is made.
BindNew(s, wanted) ==
    LET new == Known(wanted) \ Known(actions[s])
        Only(ids) == [i \in Id |-> IF i \in ids THEN wanted[i] ELSE Absent]
    IN  /\ new # {}
        /\ dialog' = [dialog EXCEPT ![s] =
              [state |-> "shown", rows |-> Only(new), returning |-> Only(Id \ new),
               conflicts |-> {i \in new : wanted[i] \in KeysOf(registry)},
               replied |-> FALSE]]
        /\ UNCHANGED <<registry, signals, status, actions, told, foreign, historyVars>>

BindShortcuts(s, wanted) ==
    /\ binds < MaxBinds
    /\ status[s] = "open"
    /\ dialog[s] = NoDialog
    /\ binds' = binds + 1
    /\ BindReturning(s, wanted) \/ BindNew(s, wanted)

-----------------------------------------------------------------------------
(* The dialog.                                                             *)

\* ShortcutsModel::setData: only the row that is edited is looked at again.
Edit(s, i, key) ==
    /\ dialog[s].state = "shown"
    /\ dialog[s].rows[i] \notin {Absent, key}
    /\ dialog' = [dialog EXCEPT
          ![s].rows[i] = key,
          ![s].conflicts = IF key \in KeysOf(registry) THEN @ \cup {i} ELSE @ \ {i}]
    /\ UNCHANGED <<registry, signals, status, actions, told, binds, foreign, historyVars>>

HasInternalConflict(rows) ==
    \E i, j \in Id : i # j /\ rows[i] = rows[j] /\ rows[i] \in Key

\* The reply to BindShortcuts, and the end of the dialog.  A dialog that waits
\* for its deletion can still be rejected, and replies once more.  Cancelled
\* says that no shortcut is active.
Finish(s, rows, rejected) ==
    LET returning == dialog[s].returning
        wanted == [i \in Id |-> IF rows[i] # Absent THEN rows[i] ELSE returning[i]]
    IN  /\ SetActions(s, wanted)
        /\ dialog' = [dialog EXCEPT ![s].state = "ended", ![s].conflicts = {},
                                   ![s].replied = TRUE]
        /\ told' = [told EXCEPT ![s] =
              IF \/ status'[s] = "closed"
                 \/ rejected /\ Known(returning) = {}
              THEN None ELSE actions'[s]]

\* Variant: the result of the dialog is not looked at.
DeniedLikeAccepted(rows) == rows

Denied(rows) == [i \in Id |-> IF rows[i] = Absent THEN Absent ELSE NoKey]

\* OK is enabled only without conflicts.
Accept(s) ==
    LET rows == dialog[s].rows
    IN  /\ dialog[s].state = "shown"
        /\ dialog[s].conflicts = {}
        /\ ~HasInternalConflict(rows)
        /\ UNCHANGED <<signals, status, binds, foreign>>
        /\ Finish(s, rows, FALSE)
        /\ consented' = consented \cup {<<i, rows[i]>> : i \in Known(rows)}

\* By the user, or by Close of the request.
Reject(s) ==
    /\ dialog[s].state # "none"
    /\ UNCHANGED <<signals, status, binds, foreign, consented>>
    /\ Finish(s, Denied(dialog[s].rows), TRUE)

DeleteDialog(s) ==
    /\ dialog[s].state = "ended"
    /\ dialog' = [dialog EXCEPT ![s] = NoDialog]
    /\ UNCHANGED <<registry, signals, status, actions, told, binds, foreign, historyVars>>

\* Variant: the dialog is bound to its request only.
CloseSessionOnly(s) ==
    /\ status[s] = "open"
    /\ status' = [status EXCEPT ![s] = "closed"]
    /\ told' = [told EXCEPT ![s] = None]
    /\ UNCHANGED <<registry, signals, actions, dialog, binds, foreign, historyVars>>

\* closed() rejects the dialog while the session is still there to be set.
CloseSession(s) ==
    /\ status[s] = "open"
    /\ status' = [status EXCEPT ![s] = "closed"]
    /\ IF dialog[s].state = "none"
       THEN /\ told' = [told EXCEPT ![s] = None]
            /\ UNCHANGED <<registry, actions, dialog, historyVars>>
       ELSE Finish(s, Denied(dialog[s].rows), TRUE) /\ UNCHANGED consented
    /\ UNCHANGED <<signals, binds, foreign>>

\* The QActions go; kglobalaccel keeps what they registered.
DeleteSession(s) ==
    /\ status[s] = "closed"
    /\ dialog[s].state # "ended"
    /\ status' = [status EXCEPT ![s] = "deleted"]
    /\ actions' = [actions EXCEPT ![s] = None]
    /\ UNCHANGED <<registry, signals, dialog, told, binds, foreign, historyVars>>

-----------------------------------------------------------------------------
(* Other programs and the signal.                                          *)

\* System settings give a shortcut another key, or none.
ForeignChange(i, key) ==
    /\ foreign < MaxForeign
    /\ registry[i] \notin {Absent, key}
    /\ key \notin KeysOf(registry)
    /\ foreign' = foreign + 1
    /\ registry' = [registry EXCEPT ![i] = key]
    /\ signals' = Append(signals, <<i, key>>)
    /\ consented' = consented \cup {<<i, key>>}
    /\ UNCHANGED <<sessionVars, binds, undercut, apart>>

\* A shortcut is unregistered; no signal tells of it.
ForeignRemove(i) ==
    /\ foreign < MaxForeign
    /\ registry[i] # Absent
    /\ foreign' = foreign + 1
    /\ registry' = [registry EXCEPT ![i] = Absent]
    /\ undercut' = undercut \cup {i}
    /\ UNCHANGED <<signals, sessionVars, binds, consented, apart>>

\* The session sets the QAction and emits ShortcutsChanged.
YourShortcutsChanged ==
    /\ signals # <<>>
    /\ LET i == Head(signals)[1]
           key == Head(signals)[2]
           some == {s \in Session : actions[s][i] # Absent}
       IN  /\ actions' = [s \in Session |->
                 IF s \in some THEN [actions[s] EXCEPT ![i] = key] ELSE actions[s]]
           /\ told' = [s \in Session |->
                 IF s \in some /\ status[s] = "open" THEN actions'[s] ELSE told[s]]
    /\ signals' = Tail(signals)
    /\ UNCHANGED <<registry, status, dialog, binds, foreign, historyVars>>

-----------------------------------------------------------------------------
Next ==
    \/ \E s \in Session :
         \/ CreateSession(s) \/ ListShortcuts(s)
         \/ \E wanted \in Shortcuts : BindShortcuts(s, wanted)
         \/ \E i \in Id, key \in Key \cup {NoKey} : Edit(s, i, key)
         \/ Accept(s) \/ Reject(s) \/ DeleteDialog(s)
         \/ CloseSession(s) \/ DeleteSession(s)
    \/ \E i \in Id :
         \/ \E key \in Key \cup {NoKey} : ForeignChange(i, key)
         \/ ForeignRemove(i)
    \/ YourShortcutsChanged

Spec == Init /\ [][Next]_vars

-----------------------------------------------------------------------------
Dialog == [state : {"none", "shown", "ended"}, rows : Shortcuts, conflicts : SUBSET Id,
           returning : Shortcuts, replied : BOOLEAN]

\* Every variable keeps its type, and kglobalaccel never has one key twice.
TypeOK ==
    /\ registry \in Shortcuts
    /\ ~HasInternalConflict(registry)
    /\ signals \in Seq(Id \X (Key \cup {NoKey}))
    /\ status \in [Session -> {"none", "open", "closed", "deleted"}]
    /\ actions \in [Session -> Shortcuts]
    /\ dialog \in [Session -> Dialog]
    /\ binds \in 0..MaxBinds
    /\ foreign \in 0..MaxForeign
    /\ told \in [Session -> Shortcuts]
    /\ consented \subseteq Id \X (Key \cup {NoKey})
    /\ undercut \subseteq Id
    /\ apart \subseteq Id

\* A shortcut the user has denied stays without keys until the user gives it
\* some: the comment in BindShortcuts, lines 316 to 318.
DeniedHasNoKeys ==
    \A i \in Id : registry[i] \in Key => <<i, registry[i]>> \in consented

\* No shortcut gets a key without the user having seen it, unless its entry was
\* taken out behind the back of a session that still counted on it: setActions
\* then registers it anew with the keys the application prefers.
NoKeysUnasked ==
    \A i \in Id : registry[i] \in Key => <<i, registry[i]>> \in consented \/ i \in undercut

\* What is left of a key when the signals under way have arrived.
AfterSignals(i, key) ==
    LET of == {n \in DOMAIN signals : signals[n][1] = i}
    IN  IF of = {} THEN key ELSE signals[CHOOSE n \in of : \A k \in of : k <= n][2]

\* What an application was told of its shortcuts is what kglobalaccel has, as
\* soon as the signals under way have arrived; but for entries that were taken
\* out behind the back of a session, keys that were given away after the dialog
\* had looked for conflicts, and signals that a new registration has overtaken.
ToldCatchesUp ==
    \A s \in Session, i \in Id :
        status[s] = "open" /\ told[s][i] # Absent /\ i \notin undercut \cup apart
            => AfterSignals(i, told[s][i]) = registry[i]

\* No call of BindShortcuts is left without a reply: a dialog is on the screen
\* only as long as its session is there to be told, and has replied when it ends.
CallsAnswered ==
    \A s \in Session :
        /\ dialog[s].state = "shown" => status[s] = "open"
        /\ dialog[s].state = "ended" => dialog[s].replied /\ status[s] # "deleted"

=============================================================================
