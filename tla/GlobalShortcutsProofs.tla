------------------------ MODULE GlobalShortcutsProofs ------------------------
(* Theorems about GlobalShortcuts: its type invariant, that no shortcut    *)
(* gets keys the user has not seen, and that BindShortcuts is always       *)
(* answered.                                                               *)
EXTENDS GlobalShortcuts, SequenceTheorems, TLAPS

-----------------------------------------------------------------------------
Types ==
    /\ registry \in Shortcuts
    /\ signals \in Seq(Id \X (Key \cup {NoKey}))
    /\ status \in [Session -> {"none", "open", "closed", "deleted"}]
    /\ actions \in [Session -> Shortcuts]
    /\ dialog \in [Session -> Dialog]
    /\ binds \in 0..MaxBinds
    /\ foreign \in 0..MaxForeign
    /\ told \in [Session -> Shortcuts]
    /\ consented \subseteq Id \X (Key \cup {NoKey})
    /\ undercut \subseteq Id
    /\ apart \subseteq Id

\* A dialog lives no longer than its session, nor is it shown after its close.
Lives ==
    \A s \in Session :
        /\ ~Alive(s) => actions[s] = None /\ dialog[s] = NoDialog
        /\ dialog[s].state = "none" => dialog[s] = NoDialog
        /\ dialog[s].state = "shown" => status[s] = "open"
        /\ dialog[s].state = "ended" => dialog[s].replied

\* What a session or a dialog counts on is registered, or was taken out.
Covered ==
    \A s \in Session :
        Known(actions[s]) \cup Known(dialog[s].returning) \subseteq Known(registry) \cup undercut

IInv == Types /\ ~HasInternalConflict(registry) /\ Lives /\ Covered /\ NoKeysUnasked

LEMMA IInvTypeOK == IInv => TypeOK
BY DEF IInv, Types, TypeOK

LEMMA NoneKnown == None \in Shortcuts /\ Known(None) = {} /\ NoDialog \in Dialog
BY DEF None, Shortcuts, Known, NoDialog, Dialog

LEMMA InitIInv == Init => IInv
<1> SUFFICES ASSUME Init PROVE IInv
  OBVIOUS
<1>1. Types
  BY NoneKnown, EmptySeq, GlobalShortcutsAssumption DEF Init, Types
<1>2. \A i \in Id : registry[i] = Absent /\ Absent \notin Key
  BY GlobalShortcutsAssumption DEF Init, None
<1>3. ~HasInternalConflict(registry) /\ NoKeysUnasked
  BY <1>2 DEF HasInternalConflict, NoKeysUnasked
<1>4. Lives
  BY DEF Init, Lives, NoDialog
<1>5. Covered
  BY NoneKnown DEF Init, Covered, NoDialog
<1> QED
  BY <1>1, <1>3, <1>4, <1>5 DEF IInv

-----------------------------------------------------------------------------
(* setActions.                                                             *)

\* The keys that are asked for: the user knows of them, or they are of a shortcut that
\* is registered or was taken out.
Justified(wanted) ==
    \A i \in Id : wanted[i] \in Key =>
        <<i, wanted[i]>> \in consented' \/ i \in Known(registry) \cup undercut

LEMMA SetActionsTypes ==
    ASSUME Types, NEW s \in Session, NEW wanted \in Shortcuts, SetActions(s, wanted)
    PROVE  registry' \in Shortcuts /\ actions' \in [Session -> Shortcuts]
           /\ undercut' \subseteq Id /\ apart' \subseteq Id
<1> USE DEF Types, Shortcuts, SetActions
<1>1. registry' \in Shortcuts
  BY DEF Registered
<1>2. Actions(s, wanted) \in Shortcuts
  BY DEF Actions
<1>3. actions' \in [Session -> Shortcuts]
  BY <1>2
<1>4. undercut' \subseteq Id /\ apart' \subseteq Id
  BY DEF Forgotten, Refused, Fresh, Described, Known
<1> QED
  BY <1>1, <1>3, <1>4

\* kglobalaccel still has no key twice: of those that ask for one the first gets it, if
\* nobody has it.
LEMMA SetActionsNoConflict ==
    ASSUME IInv, NEW s \in Session, NEW wanted \in Shortcuts, SetActions(s, wanted)
    PROVE  ~HasInternalConflict(registry')
<1> SUFFICES ASSUME NEW i \in Id, NEW j \in Id, j < i, registry'[i] = registry'[j],
                    registry'[i] \in Key
             PROVE  FALSE
  BY GlobalShortcutsAssumption DEF HasInternalConflict
<1>1. registry' = Registered(s, wanted) /\ NoKey \notin Key /\ Absent \notin Key
  BY GlobalShortcutsAssumption DEF SetActions
<1>2. \A k \in {i, j} : k \notin Refused(wanted) /\ (k \in Fresh(wanted) => registry'[k] = wanted[k])
  BY <1>1 DEF Registered
<1>3. \A k \in {i, j} : k \notin Fresh(wanted) => registry'[k] = registry[k]
  BY <1>1 DEF Registered
<1>4. CASE i \in Fresh(wanted) /\ j \in Fresh(wanted)
  BY <1>2, <1>4 DEF Refused
<1>5. CASE i \in Fresh(wanted) /\ j \notin Fresh(wanted)
  BY <1>2, <1>3, <1>5 DEF Refused, KeysOf
<1>6. CASE i \notin Fresh(wanted) /\ j \in Fresh(wanted)
  BY <1>2, <1>3, <1>6 DEF Refused, KeysOf
<1>7. CASE i \notin Fresh(wanted) /\ j \notin Fresh(wanted)
  BY <1>3, <1>7, GlobalShortcutsAssumption DEF IInv, HasInternalConflict
<1> QED
  BY <1>4, <1>5, <1>6, <1>7

LEMMA SetActionsUnasked ==
    ASSUME IInv, NEW s \in Session, NEW wanted \in Shortcuts, SetActions(s, wanted),
           Justified(wanted), consented \subseteq consented'
    PROVE  NoKeysUnasked'
<1> SUFFICES ASSUME NEW i \in Id, registry'[i] \in Key
             PROVE  <<i, registry'[i]>> \in consented' \/ i \in undercut'
  BY DEF NoKeysUnasked
<1>1. /\ registry' = Registered(s, wanted) /\ undercut \subseteq undercut'
      /\ NoKey \notin Key /\ Absent \notin Key
  BY GlobalShortcutsAssumption DEF SetActions
<1>2. CASE i \in Fresh(wanted)
  BY <1>1, <1>2 DEF Registered, Fresh, Justified
<1>3. CASE i \notin Fresh(wanted)
  BY <1>1, <1>3 DEF Registered, Refused, IInv, NoKeysUnasked
<1> QED
  BY <1>2, <1>3

\* What is taken out of kglobalaccel is no longer counted on by the session, and known
\* to be undercut if by anybody else.
LEMMA SetActionsCovered ==
    ASSUME IInv, NEW s \in Session, NEW wanted \in Shortcuts, SetActions(s, wanted),
           NEW r \in Session
    PROVE  Known(actions'[r]) \cup Known(dialog[r].returning) \subseteq Known(registry') \cup undercut'
<1> USE GlobalShortcutsAssumption
<1>1. /\ registry' = Registered(s, wanted)
      /\ actions' = [actions EXCEPT ![s] = Actions(s, wanted)]
      /\ undercut \subseteq undercut'
      /\ Forgotten(s, wanted) \cap CountedOn(s) \subseteq undercut'
      /\ Forgotten(s, wanted) \cap Known(dialog[s].returning) \subseteq undercut'
  BY DEF SetActions
<1>2. ASSUME NEW i \in Known(registry), i \notin Forgotten(s, wanted)
      PROVE  i \in Known(registry')
  BY <1>1, <1>2 DEF Registered, Known, Fresh, Refused
<1>3. ASSUME NEW i \in Known(dialog[r].returning)
      PROVE  i \in Known(registry') \cup undercut'
  <2>1. i \in Known(registry) \cup undercut
    BY DEF IInv, Covered
  <2>2. CASE i \in Forgotten(s, wanted) /\ r # s
    <3>1. Alive(r)
      BY NoneKnown DEF IInv, Lives, NoDialog
    <3>2. i \in CountedOn(s)
      BY <2>2, <3>1 DEF CountedOn
    <3> QED
      BY <1>1, <2>2, <3>2
  <2> QED
    BY <1>1, <1>2, <2>1, <2>2
<1>4. ASSUME NEW i \in Known(actions[r]), r # s
      PROVE  i \in Known(registry') \cup undercut'
  <2>1. i \in Known(registry) \cup undercut
    BY DEF IInv, Covered
  <2>2. CASE i \in Forgotten(s, wanted)
    <3>1. Alive(r)
      BY NoneKnown DEF IInv, Lives
    <3>2. i \in CountedOn(s)
      BY <1>4, <3>1 DEF CountedOn
    <3> QED
      BY <1>1, <2>2, <3>2
  <2> QED
    BY <1>1, <1>2, <2>1, <2>2
<1>5. ASSUME NEW i \in Known(Actions(s, wanted))
      PROVE  i \in Known(registry') \cup undercut'
  <2>1. CASE i \in Fresh(wanted)
    BY <1>1, <2>1 DEF Registered, Known, Fresh, Described
  <2>2. CASE i \in Described(wanted) /\ i \notin Fresh(wanted)
    BY <1>2, <2>2 DEF Fresh, Forgotten
  <2>3. CASE i \notin Described(wanted)
    <3>1. i \notin Forgotten(s, wanted) /\ i \in Known(actions[s])
      BY <1>5, <2>3 DEF Actions, Known, Fresh
    <3>2. i \in Known(registry) \cup undercut
      BY <3>1 DEF IInv, Covered
    <3> QED
      BY <1>1, <1>2, <3>1, <3>2
  <2> QED
    BY <2>1, <2>2, <2>3
<1>6. actions'[r] = IF r = s THEN Actions(s, wanted) ELSE actions[r]
  BY <1>1 DEF IInv, Types
<1> QED
  BY <1>3, <1>4, <1>5, <1>6

-----------------------------------------------------------------------------
(* The actions.                                                            *)

LEMMA BindKeepsIInv ==
    ASSUME IInv, NEW s \in Session, NEW wanted \in Shortcuts, BindShortcuts(s, wanted)
    PROVE  IInv'
<1> USE GlobalShortcutsAssumption
<1>1. /\ binds' = binds + 1 /\ binds < MaxBinds /\ binds' \in 0..MaxBinds
      /\ status[s] = "open" /\ dialog[s] = NoDialog
  BY DEF BindShortcuts, IInv, Types
<1>2. CASE BindReturning(s, wanted)
  <2>1. /\ SetActions(s, wanted)
        /\ told' = [told EXCEPT ![s] = actions'[s]]
        /\ UNCHANGED <<signals, status, dialog, foreign, consented>>
        /\ Known(wanted) \subseteq Known(actions[s])
    BY <1>2 DEF BindReturning
  <2>2. registry' \in Shortcuts /\ actions' \in [Session -> Shortcuts]
        /\ undercut' \subseteq Id /\ apart' \subseteq Id
    BY <2>1, SetActionsTypes DEF IInv
  <2>3. Types'
    BY <1>1, <2>1, <2>2 DEF IInv, Types
  <2>4. Justified(wanted)
    BY <2>1 DEF Justified, Known, IInv, Covered
  <2>5. NoKeysUnasked'
    BY <2>1, <2>4, SetActionsUnasked
  <2>6. ~HasInternalConflict(registry')
    BY <2>1, SetActionsNoConflict
  <2>7. Covered'
    BY <2>1, SetActionsCovered DEF Covered
  <2>8. Lives'
    BY <1>1, <2>1 DEF Lives, Alive, SetActions, IInv, Types
  <2> QED
    BY <2>3, <2>5, <2>6, <2>7, <2>8 DEF IInv
<1>3. CASE BindNew(s, wanted)
  <2> DEFINE new == Known(wanted) \ Known(actions[s])
             Only(ids) == [i \in Id |-> IF i \in ids THEN wanted[i] ELSE Absent]
             shown == [state |-> "shown", rows |-> Only(new), returning |-> Only(Id \ new),
                       conflicts |-> {i \in new : wanted[i] \in KeysOf(registry)},
                       replied |-> FALSE]
  <2>1. /\ dialog' = [dialog EXCEPT ![s] = shown]
        /\ UNCHANGED <<registry, signals, status, actions, told, foreign, historyVars>>
    BY <1>3 DEF BindNew
  <2>2. Only(new) \in Shortcuts /\ Only(Id \ new) \in Shortcuts
    BY DEF Shortcuts
  <2>3. shown \in Dialog
    BY <2>2 DEF Dialog, Known
  <2>4. Types'
    BY <1>1, <2>1, <2>3 DEF IInv, Types, historyVars
  <2>5. Known(Only(Id \ new)) \subseteq Known(actions[s])
    BY DEF Known
  <2>6. \A r \in Session : dialog'[r] = IF r = s THEN shown ELSE dialog[r]
    BY <2>1 DEF IInv, Types
  <2>7. shown.returning = Only(Id \ new) /\ shown.state = "shown"
    OBVIOUS
  <2> HIDE DEF shown, Only, new
  <2>8. Covered'
    BY <2>1, <2>5, <2>6, <2>7 DEF IInv, Covered, historyVars
  <2>9. Lives'
    BY <1>1, <2>1, <2>6, <2>7 DEF IInv, Lives, Alive
  <2> QED
    BY <2>1, <2>4, <2>8, <2>9 DEF IInv, NoKeysUnasked, historyVars
<1> QED
  BY <1>2, <1>3 DEF BindShortcuts

\* Accept, Reject and CloseSession have this in common.
LEMMA FinishKeepsIInv ==
    ASSUME IInv, NEW s \in Session, NEW rows \in Shortcuts, NEW rejected \in BOOLEAN,
           dialog[s].state # "none", Finish(s, rows, rejected),
           UNCHANGED <<signals, binds, foreign>>,
           \/ UNCHANGED status
           \/ status[s] = "open" /\ status' = [status EXCEPT ![s] = "closed"],
           consented \subseteq consented', consented' \subseteq Id \X (Key \cup {NoKey}),
           \A i \in Id : rows[i] \in Key => <<i, rows[i]>> \in consented'
    PROVE  IInv'
<1> USE GlobalShortcutsAssumption
<1> DEFINE wanted == [i \in Id |-> IF rows[i] # Absent THEN rows[i] ELSE dialog[s].returning[i]]
           ended == [[dialog[s] EXCEPT !.state = "ended"] EXCEPT !.conflicts = {}, !.replied = TRUE]
<1>1. dialog[s] \in Dialog /\ Alive(s)
  BY DEF IInv, Types, Lives, NoDialog
<1>2. wanted \in Shortcuts
  BY <1>1 DEF Dialog, Shortcuts
<1>3. SetActions(s, wanted)
  BY DEF Finish
<1>4. /\ \A r \in Session \ {s} : dialog'[r] = dialog[r]
      /\ dialog'[s].state = "ended" /\ dialog'[s].replied
      /\ dialog'[s].returning = dialog[s].returning
      /\ dialog' \in [Session -> Dialog]
  BY <1>1 DEF Finish, IInv, Types, Dialog
<1>5. registry' \in Shortcuts /\ actions' \in [Session -> Shortcuts]
      /\ undercut' \subseteq Id /\ apart' \subseteq Id
  BY <1>2, <1>3, SetActionsTypes DEF IInv
<1>6. told' \in [Session -> Shortcuts]
  BY <1>5, NoneKnown DEF Finish, IInv, Types
<1>7. Types'
  BY <1>4, <1>5, <1>6 DEF IInv, Types
<1>8. Justified(wanted)
  <2> SUFFICES ASSUME NEW i \in Id, wanted[i] \in Key
               PROVE  <<i, wanted[i]>> \in consented' \/ i \in Known(registry) \cup undercut
    BY DEF Justified
  <2>1. CASE rows[i] # Absent
    BY <2>1
  <2>2. CASE rows[i] = Absent
    BY <2>2 DEF Known, IInv, Covered
  <2> QED
    BY <2>1, <2>2
<1> HIDE DEF wanted
<1>9. NoKeysUnasked'
  BY <1>2, <1>3, <1>8, SetActionsUnasked
<1>10. ~HasInternalConflict(registry')
  BY <1>2, <1>3, SetActionsNoConflict
<1>11. Covered'
  <2>1. \A r \in Session : dialog'[r].returning = dialog[r].returning
    BY <1>4
  <2> QED
    BY <1>2, <1>3, <2>1, SetActionsCovered DEF Covered
<1>12. Lives'
  <2> SUFFICES ASSUME NEW r \in Session
               PROVE  /\ ~Alive(r)' => actions'[r] = None /\ dialog'[r] = NoDialog
                      /\ dialog'[r].state = "none" => dialog'[r] = NoDialog
                      /\ dialog'[r].state = "shown" => status'[r] = "open"
                      /\ dialog'[r].state = "ended" => dialog'[r].replied
    BY DEF Lives
  <2>1. CASE r = s
    BY <1>1, <1>4, <2>1 DEF Alive, IInv, Types
  <2>2. CASE r # s
    <3>1. actions'[r] = actions[r] /\ dialog'[r] = dialog[r] /\ status'[r] = status[r]
      BY <1>3, <1>4, <2>2 DEF SetActions, IInv, Types
    <3> QED
      BY <3>1 DEF Alive, IInv, Lives
  <2> QED
    BY <2>1, <2>2
<1> QED
  BY <1>7, <1>9, <1>10, <1>11, <1>12 DEF IInv

LEMMA DeniedHasNoKey ==
    ASSUME NEW rows \in Shortcuts
    PROVE  Denied(rows) \in Shortcuts /\ \A i \in Id : Denied(rows)[i] \notin Key
BY GlobalShortcutsAssumption DEF Denied, Shortcuts

LEMMA DialogKeepsIInv ==
    ASSUME IInv, NEW s \in Session, Accept(s) \/ Reject(s) \/ CloseSession(s) \/ DeleteDialog(s)
    PROVE  IInv'
<1>1. dialog[s] \in Dialog /\ dialog[s].rows \in Shortcuts
  BY DEF IInv, Types, Dialog
<1>2. CASE Accept(s)
  <2> DEFINE rows == dialog[s].rows
  <2>1. /\ dialog[s].state = "shown"
        /\ UNCHANGED <<signals, status, binds, foreign>>
        /\ Finish(s, rows, FALSE)
        /\ consented' = consented \cup {<<i, rows[i]>> : i \in Known(rows)}
    BY <1>2 DEF Accept
  <2>2. \A i \in Known(rows) : rows[i] \in Key \cup {NoKey}
    BY <1>1 DEF Known, Shortcuts
  <2>3. consented \subseteq consented' /\ consented' \subseteq Id \X (Key \cup {NoKey})
    BY <2>1, <2>2 DEF IInv, Types, Known
  <2>4. \A i \in Id : rows[i] \in Key => <<i, rows[i]>> \in consented'
    BY <2>1, GlobalShortcutsAssumption DEF Known
  <2> QED
    BY <1>1, <2>1, <2>3, <2>4, FinishKeepsIInv
<1>3. CASE Reject(s)
  <2>1. /\ dialog[s].state # "none"
        /\ UNCHANGED <<signals, status, binds, foreign, consented>>
        /\ Finish(s, Denied(dialog[s].rows), TRUE)
    BY <1>3 DEF Reject
  <2> QED
    BY <1>1, <2>1, DeniedHasNoKey, FinishKeepsIInv DEF IInv, Types
<1>4. CASE CloseSession(s) /\ dialog[s].state # "none"
  <2>1. /\ status[s] = "open"
        /\ status' = [status EXCEPT ![s] = "closed"]
        /\ UNCHANGED <<signals, binds, foreign, consented>>
        /\ Finish(s, Denied(dialog[s].rows), TRUE)
    BY <1>4 DEF CloseSession
  <2> QED
    BY <1>1, <1>4, <2>1, DeniedHasNoKey, FinishKeepsIInv DEF IInv, Types
<1>5. CASE CloseSession(s) /\ dialog[s].state = "none"
  <2>1. /\ status' = [status EXCEPT ![s] = "closed"] /\ status[s] = "open"
        /\ told' = [told EXCEPT ![s] = None]
        /\ UNCHANGED <<registry, actions, dialog, signals, binds, foreign, historyVars>>
    BY <1>5 DEF CloseSession
  <2>2. Types'
    BY <2>1, NoneKnown DEF IInv, Types, historyVars
  <2>3. Lives'
    BY <1>5, <2>1 DEF IInv, Types, Lives, Alive
  <2> QED
    BY <2>1, <2>2, <2>3 DEF IInv, Covered, NoKeysUnasked, historyVars
<1>6. CASE DeleteDialog(s)
  <2>1. /\ dialog[s].state = "ended"
        /\ dialog' = [dialog EXCEPT ![s] = NoDialog]
        /\ UNCHANGED <<registry, signals, status, actions, told, binds, foreign, historyVars>>
    BY <1>6 DEF DeleteDialog
  <2>2. Types'
    BY <2>1, NoneKnown DEF IInv, Types, historyVars
  <2>3. \A r \in Session : dialog'[r] = IF r = s THEN NoDialog ELSE dialog[r]
    BY <2>1 DEF IInv, Types
  <2>4. NoDialog.state = "none" /\ Known(NoDialog.returning) = {}
    BY NoneKnown DEF NoDialog
  <2>5. Lives'
    BY <2>1, <2>3, <2>4 DEF IInv, Lives, Alive
  <2>6. Covered'
    BY <2>1, <2>3, <2>4 DEF IInv, Covered, historyVars
  <2> QED
    BY <2>1, <2>2, <2>5, <2>6 DEF IInv, NoKeysUnasked, historyVars
<1> QED
  BY <1>2, <1>3, <1>4, <1>5, <1>6

LEMMA SessionKeepsIInv ==
    ASSUME IInv, NEW s \in Session, CreateSession(s) \/ ListShortcuts(s) \/ DeleteSession(s)
    PROVE  IInv'
<1>1. UNCHANGED <<registry, signals, dialog, binds, foreign, historyVars>>
  BY DEF CreateSession, ListShortcuts, DeleteSession
<1>2. CASE CreateSession(s)
  <2>1. /\ status[s] = "none" /\ status' = [status EXCEPT ![s] = "open"]
        /\ actions' = [actions EXCEPT ![s] = registry] /\ UNCHANGED told
    BY <1>2 DEF CreateSession
  <2>2. Types'
    BY <1>1, <2>1 DEF IInv, Types, historyVars
  <2>3. Lives'
    BY <1>1, <2>1, NoneKnown DEF IInv, Types, Lives, Alive
  <2>4. Covered'
    BY <1>1, <2>1 DEF IInv, Types, Covered, historyVars
  <2> QED
    BY <1>1, <2>2, <2>3, <2>4 DEF IInv, NoKeysUnasked, historyVars
<1>3. CASE ListShortcuts(s)
  BY <1>1, <1>3 DEF ListShortcuts, IInv, Types, Lives, Alive, Covered, NoKeysUnasked, historyVars
<1>4. CASE DeleteSession(s)
  <2>1. /\ status[s] = "closed" /\ status' = [status EXCEPT ![s] = "deleted"]
        /\ actions' = [actions EXCEPT ![s] = None] /\ UNCHANGED told
        /\ dialog[s].state # "ended"
    BY <1>4 DEF DeleteSession
  <2>2. Types'
    BY <1>1, <2>1, NoneKnown DEF IInv, Types, historyVars
  <2>3. dialog[s].state \in {"none", "shown", "ended"}
    BY DEF IInv, Types, Dialog
  <2>4. dialog[s] = NoDialog
    BY <2>1, <2>3 DEF IInv, Lives
  <2>5. Lives'
    BY <1>1, <2>1, <2>4 DEF IInv, Types, Lives, Alive
  <2>6. Covered'
    BY <1>1, <2>1, NoneKnown DEF IInv, Types, Covered, historyVars
  <2> QED
    BY <1>1, <2>2, <2>5, <2>6 DEF IInv, NoKeysUnasked, historyVars
<1> QED
  BY <1>2, <1>3, <1>4

LEMMA EditKeepsIInv ==
    ASSUME IInv, NEW s \in Session, NEW i \in Id, NEW key \in Key \cup {NoKey}, Edit(s, i, key)
    PROVE  IInv'
<1>1. /\ dialog[s] \in Dialog /\ dialog[s].state = "shown"
      /\ UNCHANGED <<registry, signals, status, actions, told, binds, foreign, historyVars>>
  BY DEF Edit, IInv, Types
<1>2. PICK ids \in SUBSET Id :
        dialog' = [dialog EXCEPT ![s].rows[i] = key, ![s].conflicts = ids]
  BY <1>1 DEF Edit, Dialog
<1>3. [dialog[s].rows EXCEPT ![i] = key] \in Shortcuts
  BY <1>1 DEF Dialog, Shortcuts
<1>4. dialog'[s] \in Dialog /\ dialog'[s].returning = dialog[s].returning
      /\ dialog'[s].state = "shown"
  BY <1>1, <1>2, <1>3 DEF Dialog, IInv, Types
<1>5. \A r \in Session \ {s} : dialog'[r] = dialog[r]
  BY <1>2 DEF IInv, Types
<1>6. dialog' \in [Session -> Dialog]
  BY <1>2, <1>4, <1>5 DEF IInv, Types
<1>7. Types'
  BY <1>1, <1>6 DEF IInv, Types, historyVars
<1>8. Lives'
  BY <1>1, <1>4, <1>5 DEF IInv, Lives, Alive, NoDialog
<1>9. Covered'
  BY <1>1, <1>4, <1>5 DEF IInv, Covered, historyVars
<1> QED
  BY <1>1, <1>7, <1>8, <1>9 DEF IInv, NoKeysUnasked, historyVars

LEMMA ForeignKeepsIInv ==
    ASSUME IInv, NEW i \in Id,
           ForeignRemove(i) \/ \E key \in Key \cup {NoKey} : ForeignChange(i, key)
    PROVE  IInv'
<1> USE GlobalShortcutsAssumption
<1>1. UNCHANGED <<sessionVars, binds, apart>> /\ foreign' = foreign + 1 /\ foreign < MaxForeign
      /\ foreign' \in 0..MaxForeign
  BY DEF ForeignRemove, ForeignChange, IInv, Types
<1>2. Lives'
  BY <1>1 DEF IInv, Lives, Alive, sessionVars
<1>3. CASE ForeignRemove(i)
  <2>1. /\ registry' = [registry EXCEPT ![i] = Absent]
        /\ undercut' = undercut \cup {i}
        /\ UNCHANGED <<signals, consented>>
    BY <1>3 DEF ForeignRemove
  <2>2. Types'
    BY <1>1, <2>1 DEF IInv, Types, Shortcuts, sessionVars
  <2>3. ~HasInternalConflict(registry') /\ NoKeysUnasked'
    BY <2>1 DEF IInv, Types, Shortcuts, HasInternalConflict, NoKeysUnasked
  <2>4. Known(registry) \subseteq Known(registry') \cup undercut'
    BY <2>1 DEF IInv, Types, Shortcuts, Known
  <2>5. Covered'
    BY <1>1, <2>1, <2>4 DEF IInv, Covered, sessionVars
  <2> QED
    BY <1>2, <2>2, <2>3, <2>5 DEF IInv
<1>4. ASSUME NEW key \in Key \cup {NoKey}, ForeignChange(i, key)
      PROVE  IInv'
  <2>1. /\ registry' = [registry EXCEPT ![i] = key] /\ key \notin KeysOf(registry)
        /\ consented' = consented \cup {<<i, key>>}
        /\ signals' = Append(signals, <<i, key>>)
        /\ UNCHANGED undercut
    BY <1>4 DEF ForeignChange
  <2>2. signals' \in Seq(Id \X (Key \cup {NoKey}))
    BY <2>1 DEF IInv, Types
  <2>3. Types'
    BY <1>1, <2>1, <2>2 DEF IInv, Types, Shortcuts, sessionVars
  <2>4. ~HasInternalConflict(registry') /\ NoKeysUnasked'
    BY <2>1 DEF IInv, Types, Shortcuts, HasInternalConflict, NoKeysUnasked, KeysOf
  <2>5. Known(registry) \subseteq Known(registry')
    BY <2>1 DEF IInv, Types, Shortcuts, Known
  <2>6. Covered'
    BY <1>1, <2>1, <2>5 DEF IInv, Covered, sessionVars
  <2> QED
    BY <1>2, <2>3, <2>4, <2>6 DEF IInv
<1> QED
  BY <1>3, <1>4

LEMMA SignalKeepsIInv ==
    ASSUME IInv, YourShortcutsChanged
    PROVE  IInv'
<1> USE GlobalShortcutsAssumption
<1> DEFINE i == Head(signals)[1]
           key == Head(signals)[2]
           some == {s \in Session : actions[s][i] # Absent}
<1>1. /\ signals # <<>>
      /\ actions' = [s \in Session |->
            IF s \in some THEN [actions[s] EXCEPT ![i] = key] ELSE actions[s]]
      /\ told' = [s \in Session |->
            IF s \in some /\ status[s] = "open" THEN actions'[s] ELSE told[s]]
      /\ signals' = Tail(signals)
      /\ UNCHANGED <<registry, status, dialog, binds, foreign, historyVars>>
  BY DEF YourShortcutsChanged
<1>2. Head(signals) \in Id \X (Key \cup {NoKey})
      /\ Tail(signals) \in Seq(Id \X (Key \cup {NoKey}))
  BY <1>1 DEF IInv, Types
<1>3. i \in Id /\ key \in Key \cup {NoKey}
  BY <1>2
<1> HIDE DEF i, key
<1>4. \A s \in Session : [actions[s] EXCEPT ![i] = key] \in Shortcuts
  BY <1>3 DEF IInv, Types, Shortcuts
<1>5. actions' \in [Session -> Shortcuts]
  BY <1>1, <1>4 DEF IInv, Types
<1>6. told' \in [Session -> Shortcuts]
  BY <1>1, <1>5 DEF IInv, Types
<1>7. Types'
  BY <1>1, <1>2, <1>5, <1>6 DEF IInv, Types, historyVars
<1>8. \A s \in Session : Known(actions'[s]) = Known(actions[s])
  BY <1>1, <1>3 DEF IInv, Types, Shortcuts, Known
<1>9. Covered'
  BY <1>1, <1>8 DEF IInv, Covered, historyVars
<1>10. \A s \in Session : ~Alive(s) => actions'[s] = actions[s]
  BY <1>1, <1>3 DEF IInv, Lives, None
<1>11. Lives'
  BY <1>1, <1>10 DEF IInv, Lives, Alive
<1> QED
  BY <1>1, <1>7, <1>9, <1>11 DEF IInv, NoKeysUnasked, historyVars

LEMMA StepIInv ==
    ASSUME IInv, [Next]_vars
    PROVE  IInv'
<1>1. CASE UNCHANGED vars
  BY <1>1 DEF vars, sessionVars, historyVars, IInv, Types, Lives, Alive, Covered, NoKeysUnasked
<1> QED
  BY <1>1, BindKeepsIInv, DialogKeepsIInv, SessionKeepsIInv, EditKeepsIInv, ForeignKeepsIInv,
     SignalKeepsIInv DEF Next

LEMMA InvariantIInv == Spec => []IInv
BY InitIInv, StepIInv, PTL DEF Spec

\* Every variable of GlobalShortcuts keeps its type, and kglobalaccel never has one key
\* twice, whatever sessions, users and other programs do.
THEOREM TypeCorrect == Spec => []TypeOK
BY InvariantIInv, IInvTypeOK, PTL

\* For any number of sessions, shortcuts and keys: a shortcut has only keys that the user
\* has confirmed or set, unless it was taken out of kglobalaccel while a session or a
\* dialog still counted on it.
THEOREM KeysAreAskedFor == Spec => []NoKeysUnasked
<1>1. IInv => NoKeysUnasked
  BY DEF IInv
<1> QED
  BY <1>1, InvariantIInv, PTL

\* BindShortcuts is always answered: a dialog is on the screen only while its session is
\* open, and one that has ended has replied and is gone before its session is.
THEOREM BindIsAnswered == Spec => []CallsAnswered
<1>1. ASSUME IInv, NEW s \in Session
      PROVE  /\ dialog[s].state = "shown" => status[s] = "open"
             /\ dialog[s].state = "ended" => dialog[s].replied /\ status[s] # "deleted"
  <2>1. status[s] = "deleted" => dialog[s] = NoDialog
    BY <1>1 DEF IInv, Lives, Alive
  <2>2. NoDialog.state = "none"
    BY DEF NoDialog
  <2> QED
    BY <1>1, <2>1, <2>2 DEF IInv, Lives
<1>2. IInv => CallsAnswered
  BY <1>1 DEF CallsAnswered
<1> QED
  BY <1>2, InvariantIInv, PTL


-----------------------------------------------------------------------------
(* What the applications were told.                                        *)

\* The ids that signals q name, and the last key q has for one.
Named(q) == {q[n][1] : n \in DOMAIN q}
LastOf(q, i, key) ==
    \E n \in DOMAIN q : q[n] = <<i, key>> /\ \A k \in DOMAIN q : q[k][1] = i => k <= n

Signal == Id \X (Key \cup {NoKey})

LEMMA AppendLast ==
    ASSUME NEW q \in Seq(Signal), NEW i \in Id, NEW key \in Key \cup {NoKey}
    PROVE  /\ Named(Append(q, <<i, key>>)) = Named(q) \cup {i}
           /\ LastOf(Append(q, <<i, key>>), i, key)
           /\ \A j \in Id \ {i} : \A k :
                 LastOf(q, j, k) => LastOf(Append(q, <<i, key>>), j, k)
<1> DEFINE p == Append(q, <<i, key>>)
<1>1. /\ p \in Seq(Signal) /\ DOMAIN p = 1..(Len(q) + 1) /\ DOMAIN q = 1..Len(q)
      /\ p[Len(q) + 1] = <<i, key>> /\ \A n \in 1..Len(q) : p[n] = q[n]
      /\ Len(q) \in Nat
  BY DEF Signal
<1> HIDE DEF p
<1>2. Named(p) = Named(q) \cup {i}
  <2>1. ASSUME NEW j \in Named(p)
        PROVE  j \in Named(q) \cup {i}
    <3>1. PICK n \in DOMAIN p : j = p[n][1]
      BY DEF Named
    <3>2. CASE n = Len(q) + 1
      BY <1>1, <3>1, <3>2
    <3>3. CASE n # Len(q) + 1
      <4>1. n \in DOMAIN q /\ j = q[n][1]
        BY <1>1, <3>1, <3>3
      <4> QED
        BY <4>1 DEF Named
    <3> QED
      BY <3>2, <3>3
  <2>2. ASSUME NEW j \in Named(q)
        PROVE  j \in Named(p)
    <3>1. PICK n \in DOMAIN q : j = q[n][1]
      BY DEF Named
    <3>2. n \in DOMAIN p /\ j = p[n][1]
      BY <1>1, <3>1
    <3> QED
      BY <3>2 DEF Named
  <2>3. i \in Named(p)
    <3>1. Len(q) + 1 \in DOMAIN p /\ p[Len(q) + 1][1] = i
      BY <1>1
    <3> QED
      BY <3>1 DEF Named
  <2> QED
    BY <2>1, <2>2, <2>3
<1>3. LastOf(p, i, key)
  <2>1. Len(q) + 1 \in DOMAIN p /\ \A k \in DOMAIN p : k <= Len(q) + 1
    BY <1>1
  <2> QED
    BY <1>1, <2>1 DEF LastOf
<1>4. ASSUME NEW j \in Id \ {i}, NEW k, LastOf(q, j, k)
      PROVE  LastOf(p, j, k)
  <2>1. PICK n \in DOMAIN q : q[n] = <<j, k>> /\ \A m \in DOMAIN q : q[m][1] = j => m <= n
    BY <1>4 DEF LastOf
  <2>2. n \in DOMAIN p /\ p[n] = <<j, k>>
    BY <1>1, <2>1
  <2>3. ASSUME NEW m \in DOMAIN p, p[m][1] = j
        PROVE  m <= n
    <3>1. m # Len(q) + 1
      BY <1>1, <2>3
    <3>2. m \in DOMAIN q /\ q[m][1] = j
      BY <1>1, <2>3, <3>1
    <3> QED
      BY <2>1, <3>2
  <2> QED
    BY <2>2, <2>3 DEF LastOf
<1> QED
  BY <1>2, <1>3, <1>4 DEF p

LEMMA TailLast ==
    ASSUME NEW q \in Seq(Signal), q # <<>>
    PROVE  /\ Named(Tail(q)) \subseteq Named(q)
           /\ Head(q)[1] \in Named(q)
           /\ \A j \in Named(Tail(q)) : \A k : LastOf(q, j, k) => LastOf(Tail(q), j, k)
           /\ \A j \in Named(q) \ Named(Tail(q)) :
                 j = Head(q)[1] /\ \A k : LastOf(q, j, k) => k = Head(q)[2]
<1> DEFINE p == Tail(q)
<1>1. /\ DOMAIN p = 1..(Len(q) - 1) /\ DOMAIN q = 1..Len(q)
      /\ \A n \in 1..(Len(q) - 1) : p[n] = q[n + 1]
      /\ Len(q) \in Nat \ {0} /\ Head(q) = q[1]
      /\ q \in [1..Len(q) -> Signal]
  BY DEF Signal
<1> HIDE DEF p
<1>2. \A n \in DOMAIN p : n + 1 \in DOMAIN q
  BY <1>1
<1>3. \A n \in DOMAIN q : n # 1 => n - 1 \in DOMAIN p /\ p[n - 1] = q[n]
  BY <1>1
<1>4. Named(p) \subseteq Named(q)
  BY <1>1, <1>2 DEF Named
<1>5. 1 \in DOMAIN q
  BY <1>1
<1>6. Head(q)[1] \in Named(q)
  BY <1>1, <1>5 DEF Named
<1>7. ASSUME NEW j \in Named(p), NEW k, LastOf(q, j, k)
      PROVE  LastOf(p, j, k)
  <2>1. PICK n \in DOMAIN q : q[n] = <<j, k>> /\ \A m \in DOMAIN q : q[m][1] = j => m <= n
    BY <1>7 DEF LastOf
  <2>2. PICK m \in DOMAIN p : j = p[m][1]
    BY DEF Named
  <2>3. m + 1 <= n
    BY <1>1, <1>2, <2>1, <2>2
  <2>4. n # 1
    BY <1>1, <2>2, <2>3
  <2>5. n - 1 \in DOMAIN p /\ p[n - 1] = <<j, k>>
    BY <1>3, <2>1, <2>4
  <2>6. ASSUME NEW l \in DOMAIN p, p[l][1] = j
        PROVE  l <= n - 1
    <3>1. l + 1 <= n
      BY <1>1, <1>2, <2>1, <2>6
    <3> QED
      BY <1>1, <3>1
  <2> QED
    BY <2>5, <2>6 DEF LastOf
<1>8. ASSUME NEW j \in Named(q) \ Named(p)
      PROVE  j = Head(q)[1] /\ \A k : LastOf(q, j, k) => k = Head(q)[2]
  <2>1. \A n \in DOMAIN q : q[n][1] = j => n = 1
    BY <1>3 DEF Named
  <2>2. PICK n \in DOMAIN q : j = q[n][1]
    BY DEF Named
  <2>3. j = Head(q)[1]
    BY <1>1, <2>1, <2>2
  <2>4. ASSUME NEW k, LastOf(q, j, k)
        PROVE  k = Head(q)[2]
    <3>1. PICK m \in DOMAIN q : q[m] = <<j, k>>
      BY <2>4 DEF LastOf
    <3>2. q[m][1] = j /\ q[m][2] = k
      BY <3>1
    <3> QED
      BY <1>1, <2>1, <3>2
  <2> QED
    BY <2>3, <2>4
<1> QED
  BY <1>4, <1>6, <1>7, <1>8 DEF p

\* The application of a session was told what the session has, if anything.
ToldIsOwn ==
    \A s \in Session : told[s] = None \/ (status[s] = "open" /\ told[s] = actions[s])

\* The last signal of a shortcut says what kglobalaccel has.
SignalsEndRight ==
    \A i \in Id \ (undercut \cup apart) :
        registry[i] # Absent /\ i \in Named(signals) => LastOf(signals, i, registry[i])

\* A session has what kglobalaccel has, if no signal is under way.
ActionsCatchUp ==
    \A s \in Session : \A i \in Id \ (undercut \cup apart) :
        actions[s][i] # Absent /\ i \notin Named(signals) => actions[s][i] = registry[i]

\* The inductive invariant behind ToldCatchesUp, together with IInv.
CatchInv == ToldIsOwn /\ SignalsEndRight /\ ActionsCatchUp

LEMMA CatchesUp == IInv /\ CatchInv => ToldCatchesUp
<1> SUFFICES ASSUME IInv, CatchInv, NEW s \in Session, NEW i \in Id, status[s] = "open",
                    told[s][i] # Absent, i \notin undercut \cup apart
             PROVE  AfterSignals(i, told[s][i]) = registry[i]
  BY DEF ToldCatchesUp
<1> DEFINE of == {n \in DOMAIN signals : signals[n][1] = i}
<1>1. told[s] = actions[s] /\ i \in Known(actions[s])
  BY DEF CatchInv, ToldIsOwn, None, Known
<1>2. registry[i] # Absent
  BY <1>1 DEF IInv, Covered, Known
<1>3. of = {} <=> i \notin Named(signals)
  BY DEF Named
<1>4. CASE i \notin Named(signals)
  <2>1. AfterSignals(i, told[s][i]) = told[s][i]
    BY <1>3, <1>4 DEF AfterSignals
  <2>2. actions[s][i] = registry[i]
    BY <1>1, <1>4 DEF CatchInv, ActionsCatchUp
  <2> QED
    BY <1>1, <2>1, <2>2
<1>5. CASE i \in Named(signals)
  <2>1. PICK n \in DOMAIN signals :
          /\ signals[n] = <<i, registry[i]>>
          /\ \A k \in DOMAIN signals : signals[k][1] = i => k <= n
    BY <1>2, <1>5 DEF CatchInv, SignalsEndRight, LastOf
  <2>2. n \in of /\ \A k \in of : k <= n
    BY <2>1
  <2>3. of \subseteq Nat
    BY DEF IInv, Types
  <2> DEFINE last == CHOOSE m \in of : \A k \in of : k <= m
  <2>4. AfterSignals(i, told[s][i]) = signals[last][2]
    BY <1>3, <1>5 DEF AfterSignals
  <2>5. last \in of /\ \A k \in of : k <= last
    BY <2>2
  <2> HIDE DEF last, of
  <2>6. last = n
    BY <2>2, <2>3, <2>5
  <2> QED
    BY <2>1, <2>4, <2>6
<1> QED
  BY <1>4, <1>5

\* setActions leaves its session with what kglobalaccel has, and takes nothing
\* out that others have, unless it says so.
LEMMA SetActionsCatchUp ==
    ASSUME IInv, CatchInv, NEW s \in Session, NEW wanted \in Shortcuts, SetActions(s, wanted),
           UNCHANGED signals
    PROVE  SignalsEndRight' /\ ActionsCatchUp'
<1> USE GlobalShortcutsAssumption
<1>1. /\ registry' = Registered(s, wanted)
      /\ undercut \subseteq undercut' /\ apart \subseteq apart'
      /\ Forgotten(s, wanted) \cap CountedOn(s) \subseteq undercut'
      /\ Refused(wanted) \cup (Fresh(wanted) \cap Signalled) \subseteq apart'
      /\ Signalled = Named(signals)
  BY DEF SetActions, Signalled, Named
<1>2. \A r \in Session : actions'[r] = IF r = s THEN Actions(s, wanted) ELSE actions[r]
  BY DEF SetActions, IInv, Types
<1>3. ASSUME NEW i \in Id, i \notin undercut' \cup apart', registry'[i] # Absent,
             i \in Named(signals)
      PROVE  LastOf(signals, i, registry'[i])
  <2>1. i \notin Fresh(wanted) /\ i \notin Refused(wanted)
    BY <1>1, <1>3
  <2>2. registry'[i] = registry[i]
    BY <1>1, <1>3, <2>1 DEF Registered
  <2>3. i \notin undercut \cup apart
    BY <1>1, <1>3
  <2> QED
    BY <1>3, <2>2, <2>3 DEF CatchInv, SignalsEndRight
<1>4. SignalsEndRight'
  BY <1>3 DEF SignalsEndRight
<1>5. ASSUME NEW r \in Session, NEW i \in Id, i \notin undercut' \cup apart',
             actions'[r][i] # Absent, i \notin Named(signals)
      PROVE  actions'[r][i] = registry'[i]
  <2>1. i \notin undercut \cup apart /\ i \notin Refused(wanted)
    BY <1>1, <1>5
  <2>2. \A q \in Session : actions[q][i] # Absent => actions[q][i] = registry[i]
                                                    /\ registry[i] # Absent
    BY <1>5, <2>1 DEF CatchInv, ActionsCatchUp, IInv, Covered, Known
  <2>3. CASE r = s
    <3>1. actions'[r][i] = Actions(s, wanted)[i]
      BY <1>2, <2>3
    <3>2. CASE i \in Fresh(wanted)
      BY <1>1, <2>1, <3>1, <3>2 DEF Actions, Registered
    <3>3. CASE i \in Described(wanted) /\ i \notin Fresh(wanted)
      BY <1>1, <2>1, <3>1, <3>3 DEF Actions, Registered, Forgotten
    <3>4. CASE i \notin Described(wanted)
      <4>1. i \notin Fresh(wanted) /\ i \notin Forgotten(s, wanted)
        BY <1>5, <3>1, <3>4 DEF Actions, Fresh
      <4>2. actions'[r][i] = actions[s][i] /\ registry'[i] = registry[i]
        BY <1>1, <2>1, <3>1, <3>4, <4>1 DEF Actions, Registered
      <4> QED
        BY <1>5, <2>2, <4>2
    <3> QED
      BY <3>2, <3>3, <3>4
  <2>4. CASE r # s
    <3>1. actions'[r][i] = actions[r][i]
      BY <1>2, <2>4
    <3>2. actions[r][i] = registry[i] /\ registry[i] # Absent
      BY <1>5, <2>2, <3>1
    <3>3. Alive(r)
      BY <1>5, <3>1 DEF IInv, Lives, None
    <3>4. i \in CountedOn(s)
      BY <1>5, <2>4, <3>1, <3>3 DEF CountedOn, Known
    <3>5. i \notin Forgotten(s, wanted) /\ i \notin Fresh(wanted)
      BY <1>1, <1>5, <3>2, <3>4 DEF Fresh, Known
    <3>6. registry'[i] = registry[i]
      BY <1>1, <2>1, <3>5 DEF Registered
    <3> QED
      BY <3>1, <3>2, <3>6
  <2> QED
    BY <2>3, <2>4
<1>6. ActionsCatchUp'
  BY <1>5 DEF ActionsCatchUp
<1> QED
  BY <1>4, <1>6


\* A step that concerns neither signals nor what is registered.
LEMMA SameCatchInv ==
    ASSUME IInv, CatchInv, UNCHANGED <<registry, signals, actions, undercut, apart>>, ToldIsOwn'
    PROVE  CatchInv'
BY DEF CatchInv, SignalsEndRight, ActionsCatchUp

LEMMA FinishCatchesUp ==
    ASSUME IInv, CatchInv, NEW s \in Session, NEW rows \in Shortcuts, NEW rejected \in BOOLEAN,
           dialog[s].state # "none", Finish(s, rows, rejected), UNCHANGED signals,
           \/ UNCHANGED status
           \/ status[s] = "open" /\ status' = [status EXCEPT ![s] = "closed"]
    PROVE  CatchInv'
<1> DEFINE wanted == [i \in Id |-> IF rows[i] # Absent THEN rows[i] ELSE dialog[s].returning[i]]
<1>1. dialog[s] \in Dialog /\ Alive(s)
  BY DEF IInv, Types, Lives, NoDialog
<1>2. wanted \in Shortcuts
  BY <1>1 DEF Dialog, Shortcuts
<1>3. /\ SetActions(s, wanted)
      /\ \E answer \in {None, actions'[s]} :
            /\ told' = [told EXCEPT ![s] = answer]
            /\ status'[s] = "closed" => answer = None
  BY DEF Finish
<1> HIDE DEF wanted
<1>4. SignalsEndRight' /\ ActionsCatchUp'
  BY <1>2, <1>3, SetActionsCatchUp
<1>5. ASSUME NEW r \in Session
      PROVE  told'[r] = None \/ (status'[r] = "open" /\ told'[r] = actions'[r])
  <2>1. CASE r = s
    <3>1. status'[s] \in {"open", "closed"}
      BY <1>1 DEF Alive, IInv, Types
    <3> QED
      BY <1>3, <2>1, <3>1 DEF IInv, Types
  <2>2. CASE r # s
    <3>1. told'[r] = told[r] /\ actions'[r] = actions[r] /\ status'[r] = status[r]
      BY <1>3, <2>2 DEF SetActions, IInv, Types
    <3> QED
      BY <3>1 DEF CatchInv, ToldIsOwn
  <2> QED
    BY <2>1, <2>2
<1> QED
  BY <1>4, <1>5 DEF CatchInv, ToldIsOwn

LEMMA BindCatchesUp ==
    ASSUME IInv, CatchInv, NEW s \in Session, NEW wanted \in Shortcuts, BindShortcuts(s, wanted)
    PROVE  CatchInv'
<1>1. CASE BindReturning(s, wanted)
  <2>1. /\ SetActions(s, wanted) /\ status[s] = "open"
        /\ told' = [told EXCEPT ![s] = actions'[s]]
        /\ UNCHANGED <<signals, status>>
    BY <1>1 DEF BindReturning, BindShortcuts
  <2>2. SignalsEndRight' /\ ActionsCatchUp'
    BY <2>1, SetActionsCatchUp
  <2>3. \A r \in Session \ {s} : told'[r] = told[r] /\ actions'[r] = actions[r]
    BY <2>1 DEF SetActions, IInv, Types
  <2>4. told'[s] = actions'[s]
    BY <2>1 DEF IInv, Types
  <2>5. ToldIsOwn'
    BY <2>1, <2>3, <2>4 DEF CatchInv, ToldIsOwn
  <2> QED
    BY <2>2, <2>5 DEF CatchInv
<1>2. CASE BindNew(s, wanted)
  <2>1. UNCHANGED <<registry, signals, status, actions, told, undercut, apart>>
    BY <1>2 DEF BindNew, historyVars
  <2>2. ToldIsOwn'
    BY <2>1 DEF CatchInv, ToldIsOwn
  <2> QED
    BY <2>1, <2>2, SameCatchInv
<1> QED
  BY <1>1, <1>2 DEF BindShortcuts

LEMMA DialogCatchesUp ==
    ASSUME IInv, CatchInv, NEW s \in Session,
           Accept(s) \/ Reject(s) \/ CloseSession(s) \/ DeleteDialog(s)
    PROVE  CatchInv'
<1>1. dialog[s] \in Dialog /\ dialog[s].rows \in Shortcuts
  BY DEF IInv, Types, Dialog
<1>2. CASE Accept(s)
  <2>1. /\ dialog[s].state # "none" /\ UNCHANGED <<signals, status>>
        /\ Finish(s, dialog[s].rows, FALSE)
    BY <1>2 DEF Accept
  <2> QED
    BY <1>1, <2>1, FinishCatchesUp
<1>3. CASE Reject(s)
  <2>1. /\ dialog[s].state # "none" /\ UNCHANGED <<signals, status>>
        /\ Finish(s, Denied(dialog[s].rows), TRUE)
    BY <1>3 DEF Reject
  <2> QED
    BY <1>1, <2>1, DeniedHasNoKey, FinishCatchesUp
<1>4. CASE CloseSession(s) /\ dialog[s].state # "none"
  <2>1. /\ status[s] = "open" /\ status' = [status EXCEPT ![s] = "closed"]
        /\ UNCHANGED signals
        /\ Finish(s, Denied(dialog[s].rows), TRUE)
    BY <1>4 DEF CloseSession
  <2> QED
    BY <1>1, <1>4, <2>1, DeniedHasNoKey, FinishCatchesUp
<1>5. CASE CloseSession(s) /\ dialog[s].state = "none"
  <2>1. /\ status' = [status EXCEPT ![s] = "closed"]
        /\ told' = [told EXCEPT ![s] = None]
        /\ UNCHANGED <<registry, signals, actions, undercut, apart>>
    BY <1>5 DEF CloseSession, historyVars
  <2>2. ToldIsOwn'
    BY <2>1 DEF CatchInv, ToldIsOwn, IInv, Types
  <2> QED
    BY <2>1, <2>2, SameCatchInv
<1>6. CASE DeleteDialog(s)
  <2>1. UNCHANGED <<registry, signals, status, actions, told, undercut, apart>>
    BY <1>6 DEF DeleteDialog, historyVars
  <2>2. ToldIsOwn'
    BY <2>1 DEF CatchInv, ToldIsOwn
  <2> QED
    BY <2>1, <2>2, SameCatchInv
<1> QED
  BY <1>2, <1>3, <1>4, <1>5, <1>6

LEMMA SessionCatchesUp ==
    ASSUME IInv, CatchInv, NEW s \in Session,
           CreateSession(s) \/ ListShortcuts(s) \/ DeleteSession(s)
    PROVE  CatchInv'
<1>1. UNCHANGED <<registry, signals, undercut, apart>>
  BY DEF CreateSession, ListShortcuts, DeleteSession, historyVars
<1>2. SignalsEndRight'
  BY <1>1 DEF CatchInv, SignalsEndRight
<1>3. CASE CreateSession(s)
  <2>1. /\ status[s] = "none" /\ status' = [status EXCEPT ![s] = "open"]
        /\ actions' = [actions EXCEPT ![s] = registry] /\ UNCHANGED told
    BY <1>3 DEF CreateSession
  <2>2. ToldIsOwn'
    BY <2>1 DEF CatchInv, ToldIsOwn, IInv, Types
  <2>3. ActionsCatchUp'
    BY <1>1, <2>1 DEF CatchInv, ActionsCatchUp, IInv, Types
  <2> QED
    BY <1>2, <2>2, <2>3 DEF CatchInv
<1>4. CASE ListShortcuts(s)
  <2>1. /\ status[s] = "open" /\ told' = [told EXCEPT ![s] = actions[s]]
        /\ UNCHANGED <<status, actions>>
    BY <1>4 DEF ListShortcuts
  <2>2. ToldIsOwn'
    BY <2>1 DEF CatchInv, ToldIsOwn, IInv, Types
  <2> QED
    BY <1>1, <2>1, <2>2, SameCatchInv
<1>5. CASE DeleteSession(s)
  <2>1. /\ status[s] = "closed" /\ status' = [status EXCEPT ![s] = "deleted"]
        /\ actions' = [actions EXCEPT ![s] = None] /\ UNCHANGED told
    BY <1>5 DEF DeleteSession
  <2>2. ToldIsOwn'
    BY <2>1 DEF CatchInv, ToldIsOwn, IInv, Types
  <2>3. \A r \in Session, i \in Id : actions'[r][i] # Absent => actions'[r][i] = actions[r][i]
    BY <2>1 DEF None, IInv, Types
  <2>4. ActionsCatchUp'
    BY <1>1, <2>3 DEF CatchInv, ActionsCatchUp
  <2> QED
    BY <1>2, <2>2, <2>4 DEF CatchInv
<1> QED
  BY <1>3, <1>4, <1>5

LEMMA ForeignCatchesUp ==
    ASSUME IInv, CatchInv, NEW i \in Id,
           ForeignRemove(i) \/ \E key \in Key \cup {NoKey} : ForeignChange(i, key)
    PROVE  CatchInv'
<1>1. UNCHANGED <<status, actions, told, apart>>
  BY DEF ForeignRemove, ForeignChange, sessionVars
<1>2. ToldIsOwn'
  BY <1>1 DEF CatchInv, ToldIsOwn
<1>3. CASE ForeignRemove(i)
  <2>1. /\ registry' = [registry EXCEPT ![i] = Absent]
        /\ undercut' = undercut \cup {i} /\ UNCHANGED signals
    BY <1>3 DEF ForeignRemove
  <2>2. \A j \in Id \ {i} : registry'[j] = registry[j]
    BY <2>1 DEF IInv, Types, Shortcuts
  <2>3. SignalsEndRight'
    BY <1>1, <2>1, <2>2 DEF CatchInv, SignalsEndRight
  <2>4. ActionsCatchUp'
    BY <1>1, <2>1, <2>2 DEF CatchInv, ActionsCatchUp
  <2> QED
    BY <1>2, <2>3, <2>4 DEF CatchInv
<1>4. ASSUME NEW key \in Key \cup {NoKey}, ForeignChange(i, key)
      PROVE  CatchInv'
  <2>1. /\ registry' = [registry EXCEPT ![i] = key]
        /\ signals' = Append(signals, <<i, key>>) /\ UNCHANGED undercut
    BY <1>4 DEF ForeignChange
  <2>2. registry'[i] = key /\ \A j \in Id \ {i} : registry'[j] = registry[j]
    BY <2>1 DEF IInv, Types, Shortcuts
  <2>3. signals \in Seq(Signal)
    BY DEF IInv, Types, Signal
  <2>4. /\ Named(signals') = Named(signals) \cup {i}
        /\ LastOf(signals', i, key)
        /\ \A j \in Id \ {i} : \A k : LastOf(signals, j, k) => LastOf(signals', j, k)
    BY <2>1, <2>3, AppendLast
  <2>5. SignalsEndRight'
    BY <1>1, <2>1, <2>2, <2>4 DEF CatchInv, SignalsEndRight
  <2>6. ActionsCatchUp'
    BY <1>1, <2>1, <2>2, <2>4 DEF CatchInv, ActionsCatchUp
  <2> QED
    BY <1>2, <2>5, <2>6 DEF CatchInv
<1> QED
  BY <1>3, <1>4

LEMMA SignalCatchesUp ==
    ASSUME IInv, CatchInv, YourShortcutsChanged
    PROVE  CatchInv'
<1> DEFINE i == Head(signals)[1]
           key == Head(signals)[2]
           some == {s \in Session : actions[s][i] # Absent}
<1>1. /\ signals # <<>>
      /\ actions' = [s \in Session |->
            IF s \in some THEN [actions[s] EXCEPT ![i] = key] ELSE actions[s]]
      /\ told' = [s \in Session |->
            IF s \in some /\ status[s] = "open" THEN actions'[s] ELSE told[s]]
      /\ signals' = Tail(signals)
      /\ UNCHANGED <<registry, status, undercut, apart>>
  BY DEF YourShortcutsChanged, historyVars
<1>2. signals \in Seq(Signal)
  BY DEF IInv, Types, Signal
<1>3. /\ Named(signals') \subseteq Named(signals)
      /\ i \in Named(signals)
      /\ \A j \in Named(signals') : \A k : LastOf(signals, j, k) => LastOf(signals', j, k)
      /\ \A j \in Named(signals) \ Named(signals') :
            j = i /\ \A k : LastOf(signals, j, k) => k = key
  BY <1>1, <1>2, TailLast
<1>4. Head(signals) \in Id \X (Key \cup {NoKey})
  BY <1>1 DEF IInv, Types
<1>5. i \in Id
  BY <1>4
<1> HIDE DEF i, key
<1>6. \A s \in Session, j \in Id :
         /\ j # i => actions'[s][j] = actions[s][j]
         /\ actions'[s][i] # Absent => actions'[s][i] = key /\ actions[s][i] # Absent
  BY <1>1, <1>5 DEF IInv, Types, Shortcuts
<1>7. SignalsEndRight'
  BY <1>1, <1>3 DEF CatchInv, SignalsEndRight
<1>8. ASSUME NEW s \in Session, NEW j \in Id, j \notin undercut \cup apart,
             actions'[s][j] # Absent, j \notin Named(signals')
      PROVE  actions'[s][j] = registry[j]
  <2>1. CASE j # i
    <3>1. actions'[s][j] = actions[s][j]
      BY <1>6, <2>1
    <3>2. j \notin Named(signals)
      BY <1>3, <1>8, <2>1
    <3> QED
      BY <1>8, <3>1, <3>2 DEF CatchInv, ActionsCatchUp
  <2>2. CASE j = i
    <3>1. actions'[s][j] = key /\ actions[s][j] # Absent
      BY <1>6, <1>8, <2>2
    <3>2. registry[j] # Absent
      BY <1>8, <3>1 DEF IInv, Covered, Known
    <3>3. LastOf(signals, j, registry[j])
      BY <1>3, <1>8, <2>2, <3>2 DEF CatchInv, SignalsEndRight
    <3>4. registry[j] = key
      BY <1>3, <1>8, <2>2, <3>3
    <3> QED
      BY <3>1, <3>4
  <2> QED
    BY <2>1, <2>2
<1>9. ActionsCatchUp'
  BY <1>1, <1>8 DEF ActionsCatchUp
<1>10. ASSUME NEW s \in Session
       PROVE  told'[s] = None \/ (status'[s] = "open" /\ told'[s] = actions'[s])
  BY <1>1 DEF CatchInv, ToldIsOwn
<1> QED
  BY <1>7, <1>9, <1>10 DEF CatchInv, ToldIsOwn

LEMMA CatchStep ==
    ASSUME IInv, CatchInv, [Next]_vars
    PROVE  CatchInv'
<1>1. ASSUME UNCHANGED <<registry, signals, status, actions, told, undercut, apart>>
      PROVE  CatchInv'
  <2>1. ToldIsOwn'
    BY <1>1 DEF CatchInv, ToldIsOwn
  <2> QED
    BY <1>1, <2>1, SameCatchInv
<1>2. CASE UNCHANGED vars
  BY <1>1, <1>2 DEF vars, sessionVars, historyVars
<1>3. ASSUME NEW s \in Session, NEW i \in Id, NEW key \in Key \cup {NoKey}, Edit(s, i, key)
      PROVE  CatchInv'
  BY <1>1, <1>3 DEF Edit, historyVars
<1> QED
  BY <1>2, <1>3, BindCatchesUp, DialogCatchesUp, SessionCatchesUp, ForeignCatchesUp,
     SignalCatchesUp DEF Next

\* For any number of sessions, shortcuts and signals under way: what an
\* application was told of a shortcut is what kglobalaccel has for it, once the
\* signals have arrived, but for those that were taken out behind a session's
\* back or registered when their key or their signals were not theirs alone.
THEOREM ToldIsRegistered == Spec => []ToldCatchesUp
<1>1. Init => CatchInv
  <2> SUFFICES ASSUME Init PROVE CatchInv
    OBVIOUS
  <2>1. Named(signals) = {}
    BY DEF Init, Named
  <2>2. ToldIsOwn
    BY DEF Init, ToldIsOwn
  <2>3. SignalsEndRight /\ ActionsCatchUp
    BY <2>1 DEF Init, SignalsEndRight, ActionsCatchUp, None
  <2> QED
    BY <2>2, <2>3 DEF CatchInv
<1>2. IInv /\ CatchInv /\ [Next]_vars => CatchInv'
  BY CatchStep
<1>3. IInv /\ CatchInv => ToldCatchesUp
  BY CatchesUp
<1> QED
  BY <1>1, <1>2, <1>3, InvariantIInv, PTL DEF Spec

=============================================================================
