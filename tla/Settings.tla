------------------------------ MODULE Settings ------------------------------
(***************************************************************************)
(* The settings portal (src/src/settings.cpp): appearance, virtual         *)
(* keyboard, tablet mode and kdeglobals, read by Read and ReadAll and told *)
(* by SettingChanged.  A namespace is the sequence of its parts; a value   *)
(* is one of two, a colour of the palette the grey of its window.          *)
(***************************************************************************)
EXTENDS Integers, Sequences

CONSTANTS
    Watched,    \* the keys an application has an eye on: pairs of group and key
    Eyes,       \* bound: the keys that are read and change in a behaviour, each a set
    Patterns,   \* groups an application passes to ReadAll
    MaxNotices  \* bound: notices under way from KWin, and from the desktop

Appearance == <<"org", "freedesktop", "appearance">>
Keyboard == <<"org", "kde", "VirtualKeyboard">>
Tablet == <<"org", "kde", "TabletMode">>
KDEGlobals == <<"org", "kde", "kdeglobals">>

\* m_settings, in the order the constructor pushes them.
SettingModules == <<Appearance, Keyboard, Tablet, KDEGlobals>>

IsPrefix(s, t) == Len(s) <= Len(t) /\ SubSeq(t, 1, Len(s)) = s

\* The module of a key.
Module ==
    [key \in Watched |->
        SettingModules[CHOOSE n \in DOMAIN SettingModules : IsPrefix(SettingModules[n], key[1])]]
Of == [module \in {Appearance, Keyboard, Tablet, KDEGlobals} |-> {key \in Watched : Module[key] = module}]

\* The keys of the modules that list theirs.
Keys(module) ==
    CASE module = Appearance -> {"color-scheme", "accent-color", "reduced-motion"}
      [] module = Keyboard -> {"active", "activeClientSupportsTextInput", "available", "enabled",
                               "visible", "willShowOnActive"}
      [] module = Tablet -> {"available", "enabled"}

ASSUME SettingsAssumption ==
    /\ Eyes \subseteq SUBSET Watched
    /\ \A key \in Watched :
        /\ \E n \in DOMAIN SettingModules : IsPrefix(SettingModules[n], key[1])
        /\ Module[key] = KDEGlobals => Len(key[1]) > Len(KDEGlobals)
        /\ Module[key] # KDEGlobals => key[1] = Module[key] /\ key[2] \in Keys(Module[key])

\* What is read from the file kdeglobals: a key of the appearance, anew at every read, and
\* the groups of kdeglobals, from the cached configuration.
Motion == <<Appearance, "reduced-motion">>
InFile == Of[KDEGlobals] \cup ({Motion} \cap Watched)
OfPalette == Of[Appearance] \ {Motion}

\* A property of KWin that has no signal.
Unsignalled == <<Keyboard, "willShowOnActive">>

\* The notice that announces a key that is read from the file; most keys have none.
InGroup(group, name) == <<Append(KDEGlobals, group), name>>
Announces(key) ==
    CASE key = InGroup("General", "ColorScheme") -> "PaletteChanged"
      [] key = InGroup("General", "font") -> "FontChanged"
      [] key = InGroup("KDE", "widgetStyle") -> "StyleChanged"
      [] key = InGroup("Icons", "Theme") -> "IconChanged"
      [] key = InGroup("Toolbar style", "ToolButtonStyle") -> "ToolbarStyleChanged"
      [] key = Motion -> "configChanged"
      [] OTHER -> "none"

\* Signals of their own, with no reparseConfiguration.
Side(notice) ==
    CASE notice = "FontChanged" -> {"refreshFonts"}
      [] notice = "ToolbarStyleChanged" -> {"styleChanged"}
      [] OTHER -> {}

VARIABLES
    file,      \* kdeglobals on disk: key |-> value, of reduced-motion what follows from it
    cached,    \* m_kdeglobals
    desktop,   \* what KWin has, and the palette of the process: key |-> value
    kwin,      \* signals of KWin under way: key and value
    notices,   \* signals of the desktop under way, a set
    eye,       \* one of Eyes
    known,     \* what the application was last told of a key, by a read or a signal
    sideways   \* history: keys that changed with nothing to follow that announces them

settingsVars == <<file, cached, desktop, kwin, notices, eye, known, sideways>>

Unknown == -1

SettingsInit ==
    /\ file = [key \in InFile |-> 200]
    /\ cached = file
    /\ desktop = [key \in Watched \ InFile |-> 200]
    /\ kwin = <<>>
    /\ notices = {}
    /\ eye \in Eyes
    /\ known = [key \in Watched |-> Unknown]
    /\ sideways = {}

-----------------------------------------------------------------------------
(* Reading.                                                                *)

\* readFdoColorScheme: 1 prefers dark, 2 light.
ColorScheme(grey) == IF grey < 192 THEN 1 ELSE 2

\* What the modules read for a key now.  KDEGlobals reads what it has cached; the
\* others ask KWin or the palette, or open the file.
ValueOf(key) ==
    IF Module[key] = KDEGlobals THEN cached[key]
    ELSE IF key = Motion THEN file[key]
    ELSE IF key[2] = "color-scheme" THEN ColorScheme(desktop[key])
    ELSE desktop[key]

GroupMatches(group, patterns) ==
    \/ patterns = {}
    \/ \E p \in patterns :
         \/ p = <<>> \/ p = group \/ IsPrefix(group, p)
         \/ p[Len(p)] = "*" /\ IsPrefix(SubSeq(p, 1, Len(p) - 1), group)

\* The keys ReadAll returns: all of a module whose group matches, but of kdeglobals
\* those of the groups in it that match.
ReadAllKeys(patterns) ==
    {key \in eye :
        /\ GroupMatches(Module[key], patterns)
        /\ Module[key] = KDEGlobals => GroupMatches(key[1], patterns)}

ReadAll(patterns) ==
    /\ known' = [key \in Watched |-> IF key \in ReadAllKeys(patterns) THEN ValueOf(key) ELSE known[key]]
    /\ UNCHANGED <<file, cached, desktop, kwin, notices, eye, sideways>>

Read(key) ==
    /\ known' = [known EXCEPT ![key] = ValueOf(key)]
    /\ UNCHANGED <<file, cached, desktop, kwin, notices, eye, sideways>>

-----------------------------------------------------------------------------
(* Changes: of KWin's state, of the palette, of the file.                  *)

\* Values, as greys.
Grey == {100, 200}

KWinChanges(key) ==
    /\ key \in Of[Keyboard] \cup Of[Tablet]
    /\ Len(kwin) < MaxNotices
    /\ \E value \in Grey \ {desktop[key]} :
         /\ desktop' = [desktop EXCEPT ![key] = value]
         /\ IF key = Unsignalled
            THEN sideways' = sideways \cup {key} /\ UNCHANGED kwin
            ELSE kwin' = Append(kwin, <<key, value>>) /\ UNCHANGED sideways
    /\ UNCHANGED <<file, cached, notices, eye, known>>

\* onPaletteChanged tells both keys in the turn of the change.
PaletteChanges ==
    /\ eye \cap OfPalette # {}
    /\ \E value \in Grey :
         desktop' = [key \in DOMAIN desktop |-> IF key \in OfPalette THEN value ELSE desktop[key]]
    /\ known' = [key \in Watched |->
         IF key \in OfPalette
         THEN IF key[2] = "color-scheme" THEN ColorScheme(desktop'[key]) ELSE desktop'[key]
         ELSE known[key]]
    /\ UNCHANGED <<file, cached, kwin, notices, eye, sideways>>

\* A program writes the file, then sends what announces it, or does not.
FileChanges(key) ==
    /\ key \in InFile
    /\ \E value \in Grey \ {file[key]} : file' = [file EXCEPT ![key] = value]
    /\ \/ /\ Announces(key) # "none"
          /\ notices' = notices \cup {Announces(key)}
          /\ sideways' = sideways \ {key}
       \/ /\ \/ Announces(key) = "none" /\ UNCHANGED notices
             \/ \E signal \in Side(Announces(key)) : notices' = notices \cup {signal}
          /\ sideways' = sideways \cup {key}
    /\ UNCHANGED <<cached, desktop, kwin, eye, known>>

\* notifyChange for something else that the portal has no case for.
OtherNotice ==
    /\ notices' = notices \cup {"other"}
    /\ UNCHANGED <<file, cached, desktop, kwin, eye, known, sideways>>

-----------------------------------------------------------------------------
(* Signals.                                                                *)

\* The keyboard's property is asked for again; the tablet's is in the signal.
KWinSignal ==
    /\ kwin # <<>>
    /\ LET key == kwin[1][1]
       IN  known' = [known EXCEPT ![key] = IF Module[key] = Tablet THEN kwin[1][2] ELSE ValueOf(key)]
    /\ kwin' = Tail(kwin)
    /\ UNCHANGED <<file, cached, desktop, notices, eye, sideways>>

\* Variant: the configuration was not read again.
ReparseNothing == UNCHANGED cached

\* m_kdeglobals->reparseConfiguration()
Reparse == cached' = file

\* globalSettingChanged, and with a signal of its own fontChanged, toolbarStyleChanged
\* or kdeglobalsChanged.
Notice(notice) ==
    /\ notice \in notices
    /\ notices' = notices \ {notice}
    /\ IF notice \in {"refreshFonts", "styleChanged", "configChanged"} THEN UNCHANGED cached ELSE Reparse
    /\ UNCHANGED <<file, desktop, kwin, eye, sideways>>
    /\ known' = [key \in Watched |->
         IF key \in InFile /\ (Announces(key) = notice \/ notice \in Side(Announces(key)))
         THEN ValueOf(key)' ELSE known[key]]

SettingsNext ==
    \/ \E patterns \in Patterns : ReadAll(patterns)
    \/ \E key \in eye : Read(key) \/ KWinChanges(key) \/ FileChanges(key)
    \/ PaletteChanges \/ OtherNotice \/ KWinSignal
    \/ \E notice \in notices : Notice(notice)

-----------------------------------------------------------------------------
\* What an application knows of a key, from a read or a SettingChanged, is what a read
\* would give it now and what the desktop has, once no signal for the key is under
\* way; but for keys that changed with nothing to announce it: those of the file that
\* were written without the notice of their kind, and willShowOnActive.
KnownIsRead ==
    \A key \in Watched :
        LET awaited == \/ \E n \in DOMAIN kwin : kwin[n][1] = key
                       \/ key \in InFile /\ Announces(key) \in notices
        IN  known[key] # Unknown /\ ~awaited /\ key \notin sideways =>
              /\ known[key] = ValueOf(key)
              /\ key \in InFile => known[key] = file[key]

=============================================================================
