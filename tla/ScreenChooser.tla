--------------------------- MODULE ScreenChooser ---------------------------
(***************************************************************************)
(* The dialog that chooses what is shared (src/src/screenchooserdialog.cpp *)
(* with its QML) and its models of outputs (src/src/outputsmodel.cpp) and  *)
(* of windows.  The models follow screens and windows while the dialog is  *)
(* open, and Start reads the selection one turn after the dialog is        *)
(* accepted.                                                               *)
(***************************************************************************)
EXTENDS Integers, Sequences, FiniteSets

CONSTANTS
    Screen,     \* screens of the desktop
    ShareWindow, \* windows, but for the portal's and those hidden from the taskbar
    Requests    \* sets of types an application asks for

\* The three rows that are made up are no screens, and windows are neither.
ASSUME ChooserAssumption ==
    /\ Requests \subseteq (SUBSET {"Monitor", "Window", "Virtual"}) \ {{}}
    /\ IsFiniteSet(Screen) /\ IsFiniteSet(ShareWindow)
    /\ Screen \cap ShareWindow = {}
    /\ {"Workspace", "Region", "Virtual"} \cap (Screen \cup ShareWindow) = {}

VARIABLES
    types,         \* types the application asked for: Monitor, Window, Virtual
    multiple,      \* whether several may be ticked
    screens,       \* QGuiApplication::screens
    shown,         \* windows there are
    rows,          \* m_outputs
    selectedRows,  \* m_selectedRows, counted from 1
    tickedWindows, \* FilteredWindowModel::m_selected, with those that closed
    choosing,      \* none, open, editing (a region), accepted, rejected or read
    shared,        \* selectedOutputs and selectedWindows, when Start reads them
    ticked,        \* history: the outputs and windows the user ticked
    moved          \* history: rows have moved since the first was ticked

chooserVars == <<types, multiple, screens, shown, rows, selectedRows, tickedWindows,
                 choosing, shared, ticked, moved>>
selectionVars == <<selectedRows, tickedWindows, ticked, moved>>
modelVars == <<types, multiple, screens, shown, rows>>

Elements(s) == {s[n] : n \in DOMAIN s}
Orders(set) == {f \in [1..Cardinality(set) -> set] : Elements(f) = set}

ChooserInit ==
    /\ types = {}
    /\ multiple = FALSE
    /\ screens \in (SUBSET Screen) \ {{}}
    /\ shown \in SUBSET ShareWindow
    /\ rows = <<>>
    /\ selectedRows = {}
    /\ tickedWindows = {}
    /\ choosing = "none"
    /\ shared = [outputs |-> {}, windows |-> {}]
    /\ ticked = {}
    /\ moved = FALSE

-----------------------------------------------------------------------------
(* The models.                                                             *)

\* OutputsModel: the screens, then what is made up.  A screen is left out if there is
\* no file for its picture.
OutputRows(asked) ==
    IF "Monitor" \in asked
    THEN {order \o (IF Cardinality(screens) > 1 THEN <<"Workspace">> ELSE <<>>) \o <<"Region", "Virtual">> :
             order \in UNION {Orders(some) : some \in SUBSET screens}}
    ELSE IF "Virtual" \in asked THEN {<<"Virtual">>} ELSE {<<>>}

\* Rows of the model of windows.
WindowRows(asked) == IF "Window" \in asked THEN shown ELSE {}

\* An output is ticked if it is all there is.  A single window is not, for all that
\* ScreenChooserDialog.qml:202 says: its model is handed an index of the outputs, of
\* which there are none, and setData refuses it.
OpenChooser ==
    /\ choosing = "none"
    /\ types' \in Requests
    /\ multiple' \in BOOLEAN
    /\ rows' \in OutputRows(types')
    /\ selectedRows' = IF Len(rows') = 1 /\ WindowRows(types') = {} THEN {1} ELSE {}
    /\ tickedWindows' = {}
    /\ ticked' = {rows'[n] : n \in selectedRows'}
    /\ choosing' = "open"
    /\ UNCHANGED <<screens, shown, shared, moved>>

Living == choosing \in {"open", "editing", "accepted"}

\* The rows but for that of s.
Without(s) ==
    LET at == CHOOSE n \in DOMAIN rows : rows[n] = s
    IN  IF s \in Elements(rows)
        THEN [n \in 1..Len(rows)-1 |-> IF n < at THEN rows[n] ELSE rows[n+1]] ELSE rows

\* Rows are taken out, or sorted anew; the numbers that are ticked stay.
RowsBecome(new) ==
    /\ rows' = new
    /\ moved' = (moved \/ (new # rows /\ selectedRows # {}))
    /\ UNCHANGED <<types, multiple, shown, selectedRows, tickedWindows, choosing, shared, ticked>>

ScreenRemoved(s) ==
    /\ Living
    /\ s \in screens /\ screens # {s}
    /\ screens' = screens \ {s}
    /\ RowsBecome(Without(s))

\* The compositor sends an order of its screens; what is made up stays behind them.
OnOutputsChanged ==
    /\ Living /\ "Monitor" \in types
    /\ \E order \in Orders(Elements(rows) \cap Screen) :
          RowsBecome([n \in DOMAIN rows |-> IF rows[n] \in Screen THEN order[n] ELSE rows[n]])
    /\ UNCHANGED screens

WindowOpens(w) ==
    /\ Living /\ w \notin shown /\ w \notin tickedWindows
    /\ shown' = shown \cup {w}
    /\ UNCHANGED <<types, multiple, screens, rows, selectionVars, choosing, shared>>

\* A ticked window stays in m_selected, with an index that is not valid.
WindowCloses(w) ==
    /\ Living /\ w \in shown
    /\ shown' = shown \ {w}
    /\ UNCHANGED <<types, multiple, screens, rows, selectionVars, choosing, shared>>

-----------------------------------------------------------------------------
(* The user.                                                               *)

\* setData with CheckStateRole.
ToggleRow(n) ==
    /\ choosing = "open" /\ multiple /\ n \in DOMAIN rows
    /\ IF n \in selectedRows
       THEN selectedRows' = selectedRows \ {n} /\ ticked' = ticked \ {rows[n]}
       ELSE selectedRows' = selectedRows \cup {n} /\ ticked' = ticked \cup {rows[n]}
    /\ UNCHANGED <<modelVars, tickedWindows, choosing, shared, moved>>

ToggleWindow(w) ==
    /\ choosing = "open" /\ multiple /\ w \in WindowRows(types)
    /\ IF w \in tickedWindows
       THEN tickedWindows' = tickedWindows \ {w} /\ ticked' = ticked \ {w}
       ELSE tickedWindows' = tickedWindows \cup {w} /\ ticked' = ticked \cup {w}
    /\ UNCHANGED <<modelVars, selectedRows, choosing, shared, moved>>

\* A row that is not there any more reads whatever is behind the last.
OutputAt(n) == IF n \in DOMAIN rows THEN rows[n] ELSE "nothing"
SelectedOutputs == {OutputAt(n) : n \in selectedRows}

\* accept(): a region has to be drawn first.
Accepted == IF "Region" \in SelectedOutputs THEN "editing" ELSE "accepted"

\* Share, which is there if several may be ticked, and something is.
Accept ==
    /\ choosing = "open" /\ multiple
    /\ selectedRows # {} \/ tickedWindows # {}
    /\ choosing' = Accepted
    /\ UNCHANGED <<modelVars, selectionVars, shared>>

\* Variant: clearSelection reached the model of outputs only.
ClearRowsOnly(chosenRows, chosenWindows) ==
    /\ selectedRows' = chosenRows
    /\ tickedWindows' = tickedWindows \cup chosenWindows

\* clearSelection reaches both models; then the one is ticked.
SelectOnly(chosenRows, chosenWindows) ==
    /\ selectedRows' = chosenRows
    /\ tickedWindows' = chosenWindows

\* A card is clicked, or clicked twice if several may be ticked.
SelectAndAccept ==
    /\ choosing = "open"
    /\ moved' = FALSE
    /\ \/ \E n \in DOMAIN rows : SelectOnly({n}, {}) /\ ticked' = {rows[n]}
       \/ \E w \in WindowRows(types) : SelectOnly({}, {w}) /\ ticked' = {w}
    /\ UNCHANGED <<modelVars, shared>>
    /\ choosing' = Accepted'

\* Enter in the search field selects and accepts the first output that is found and
\* then the first window: it is the window that Start will read.
AcceptSearch ==
    /\ choosing = "open"
    /\ rows # <<>>
    /\ moved' = FALSE
    /\ \E w \in WindowRows(types) : SelectOnly({}, {w}) /\ ticked' = {w}
    /\ choosing' = "accepted"
    /\ UNCHANGED <<modelVars, shared>>

\* The region is drawn, or not: then the dialog is presented again.
RegionFinished ==
    /\ choosing = "editing"
    /\ choosing' \in {"accepted", "open"}
    /\ UNCHANGED <<modelVars, selectionVars, shared>>

\* By the user, or by Close of the request or the session.
Reject ==
    /\ choosing \in {"open", "editing"}
    /\ choosing' = "rejected"
    /\ UNCHANGED <<modelVars, selectionVars, shared>>

\* The continuation of Start; a window has to be found again by its uuid.
ReadSelection ==
    /\ choosing = "accepted"
    /\ choosing' = "read"
    /\ shared' = [outputs |-> SelectedOutputs, windows |-> tickedWindows \cap shown]
    /\ UNCHANGED <<modelVars, selectionVars>>

ChooserNext ==
    \/ OpenChooser \/ OnOutputsChanged \/ Accept \/ SelectAndAccept \/ AcceptSearch
    \/ RegionFinished \/ Reject \/ ReadSelection
    \/ \E s \in Screen : ScreenRemoved(s)
    \/ \E w \in ShareWindow : WindowOpens(w) \/ WindowCloses(w) \/ ToggleWindow(w)
    \/ \E n \in 1..Cardinality(Screen)+3 : ToggleRow(n)

-----------------------------------------------------------------------------
\* What Start reads is what the user ticked, of the windows those that are still
\* there, and one thing if only one was asked for; for outputs only if no screen was
\* removed and none sorted between a tick and the reading.
TickedIsShared ==
    choosing = "read" =>
        /\ shared.windows = ticked \cap shown
        /\ ~moved => shared.outputs = ticked \ ShareWindow
        /\ ~multiple => Cardinality(shared.outputs \cup shared.windows) <= 1

=============================================================================
