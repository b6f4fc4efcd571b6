------------------------------ MODULE AppList ------------------------------
(***************************************************************************)
(* The list of the application chooser (src/src/appchooserdialog.cpp and   *)
(* its QML): which applications are preferred, which are shown and in      *)
(* which order, while the frontend updates its choices, the user searches  *)
(* and applications are installed and removed.                             *)
(***************************************************************************)
EXTENDS Integers, FiniteSets

CONSTANTS
    Entry,    \* desktop entries
    Alias,    \* Alias[e]: the entry that e, hidden, stands for, or e itself
    Rank,     \* Rank[e]: the place of its name in the alphabet
    Supports, \* entries for the type of the file
    Texts,    \* texts to search for: what they match by name and otherwise
    Choices,  \* sets of entries the frontend may name
    Databases \* sets of entries KSycoca may have

\* Entries may have the same name.
ASSUME AppListAssumption ==
    /\ Alias \in [Entry -> Entry]
    /\ Rank \in [Entry -> Int]
    /\ Databases \subseteq SUBSET Entry

VARIABLES
    installed,  \* what KSycoca has
    entries,    \* m_list
    preferred,  \* those of category PreferredApplication
    onlyThem,   \* m_showOnlyPreferredApps
    text,       \* m_filter
    defaultApp, \* m_defaultApp, or NoEntry
    lastUsed,   \* m_lastUsedApp, or NoEntry
    mimeKnown,  \* whether m_mimeName is set
    choices,    \* the choices the constructor was given
    named,      \* history: what was last to be preferred, or Unnamed
    opened      \* the dialog has been made

appListVars == <<installed, entries, preferred, onlyThem, text, defaultApp, lastUsed,
                 mimeKnown, choices, named, opened>>

NoEntry == "NoEntry"
NoText == [byName |-> {}, otherwise |-> {}]
Unnamed == {"NoEntry"}
Visible(some) == {e \in some : Alias[e] = e}

AppListInit ==
    /\ installed \in Databases
    /\ entries = {} /\ preferred = {} /\ onlyThem = TRUE
    /\ text = NoText
    /\ defaultApp = NoEntry /\ lastUsed = NoEntry
    /\ mimeKnown = FALSE
    /\ choices = {}
    /\ named = Unnamed
    /\ opened = FALSE

-----------------------------------------------------------------------------
(* The model.                                                              *)

\* A hidden entry that is installed stands for its alias.
Resolve(wanted, there) == {IF e \in there THEN Alias[e] ELSE e : e \in wanted}

\* Variant: categories are not reset first.
SetPreferredAppsMore(wanted, there) ==
    /\ preferred' = preferred \cup (Resolve(wanted, there) \cap Visible(there))
    /\ onlyThem' = (preferred' # {})

\* hasPreferredAppsChanged is emitted with FALSE first: the button that shows all goes
\* and comes, and onVisibleChanged follows it.
SetPreferredApps(wanted, there) ==
    /\ preferred' = Resolve(wanted, there) \cap Visible(there)
    /\ onlyThem' = (preferred' # {})

\* Those for the type of the file; none while it is not known.
Supporters(mime, there) == IF mime THEN Supports \cap there ELSE {}

\* The constructor's choices are preferred, or else those for the type of the file.
FindPreferredApps(given, mime, there) ==
    SetPreferredApps(IF given # {} THEN given ELSE Supporters(mime, there), there)

\* Any of them may be the default one; if there is none the last one stays.
FindDefaultApp(mime, there) ==
    IF Supporters(mime, there) = {}
    THEN UNCHANGED defaultApp
    ELSE defaultApp' \in Supporters(mime, there)

\* ChooseApplication, with a type of the file or without, and ChooseApplicationPrivate.
\* Without preferred applications the button is not visible.
OpenDialogOf(given, mime, last) ==
    /\ ~opened
    /\ opened' = TRUE
    /\ choices' = given
    /\ lastUsed' = last
    /\ mimeKnown' = mime
    /\ entries' = Visible(installed)
    /\ IF mime
       THEN /\ FindDefaultApp(mime, installed)
            /\ FindPreferredApps(given, mime, installed)
            /\ named' = IF given # {} THEN given ELSE Supports \cap installed
       ELSE /\ onlyThem' = FALSE
            /\ UNCHANGED <<defaultApp, preferred, named>>
    /\ UNCHANGED <<installed, text>>

\* The type of the file is found, for ChooseApplicationPrivate.
MimeNameChanged ==
    /\ opened /\ ~mimeKnown /\ choices = {}
    /\ mimeKnown' = TRUE
    /\ FindDefaultApp(TRUE, installed)
    /\ FindPreferredApps(choices, TRUE, installed)
    /\ named' = Supports \cap installed
    /\ UNCHANGED <<installed, entries, text, lastUsed, choices, opened>>

UpdateChoices(wanted) ==
    /\ opened
    /\ SetPreferredApps(wanted, installed)
    /\ named' = wanted
    /\ UNCHANGED <<installed, entries, text, defaultApp, lastUsed, mimeKnown, choices, opened>>

\* An application is installed or removed, or remembered as the default one.  The
\* constructor's choices are preferred again, whatever UpdateChoices said.
DatabaseChanged(there) ==
    /\ opened
    /\ installed' = there
    /\ entries' = Visible(there)
    /\ FindDefaultApp(mimeKnown, there)
    /\ FindPreferredApps(choices, mimeKnown, there)
    /\ named' = Unnamed
    /\ UNCHANGED <<text, lastUsed, mimeKnown, choices, opened>>

-----------------------------------------------------------------------------
(* The user.                                                               *)

SetFilter(t) ==
    /\ opened
    /\ text' = t
    /\ onlyThem' = (onlyThem /\ t = NoText)
    /\ UNCHANGED <<installed, entries, preferred, defaultApp, lastUsed, mimeKnown, choices,
                   named, opened>>

\* The button is visible if there are preferred applications.
ToggleShowAll ==
    /\ opened /\ preferred # {}
    /\ onlyThem' = ~onlyThem
    /\ UNCHANGED <<installed, entries, preferred, text, defaultApp, lastUsed, mimeKnown,
                   choices, named, opened>>

FilterAcceptsRow(e) ==
    /\ onlyThem => e \in preferred
    /\ text = NoText \/ e \in text.byName \cup text.otherwise

\* The list is sorted in descending order.
LessThan(left, right) ==
    LET byName(e) == e \in text.byName
    IN  IF defaultApp \in {left, right} THEN left # defaultApp
        ELSE IF byName(left) # byName(right) THEN byName(right)
        ELSE IF lastUsed \in {left, right} THEN left # lastUsed
        ELSE IF (left \in preferred) # (right \in preferred) THEN right \in preferred
        ELSE Rank[left] > Rank[right]

AppListNext ==
    \/ \E given \in Choices, mime \in BOOLEAN, last \in Entry \cup {NoEntry} :
          OpenDialogOf(given, mime, last)
    \/ \E wanted \in Choices : UpdateChoices(wanted)
    \/ \E there \in Databases : DatabaseChanged(there)
    \/ \E t \in Texts \cup {NoText} : SetFilter(t)
    \/ MimeNameChanged
    \/ ToggleShowAll

-----------------------------------------------------------------------------
Listed == {e \in entries : FilterAcceptsRow(e)}

\* However the frontend's choices, the search and the database of applications change:
\* those the frontend named last are preferred, as far as they are installed and till
\* the database changes; the list is empty without a search only if nothing is
\* installed; and lessThan is a strict weak order of what is listed, as sorting needs
\* it, that leaves none but entries of the same name without an order.
ChoicesAreOffered ==
    opened =>
        /\ named # Unnamed =>
              preferred = {e \in entries :
                              e \in named \/ \E n \in named \cap installed : e = Alias[n]}
        /\ text = NoText /\ entries # {} => Listed # {}
        /\ \A a, b, c \in Listed :
              /\ ~(LessThan(a, b) /\ LessThan(b, a))
              /\ a # b /\ Rank[a] # Rank[b] => LessThan(a, b) \/ LessThan(b, a)
              /\ LessThan(a, b) /\ LessThan(b, c) => LessThan(a, c)
              /\ LessThan(a, c) => LessThan(a, b) \/ LessThan(b, c)

=============================================================================
