----------------------------- MODULE MCDesktop -----------------------------
(***************************************************************************)
(* Parts that share no state, checked in one run: print, file chooser,     *)
(* settings, background, the chooser of screens and the restoring of what  *)
(* it chose, barriers and the list of applications.  part says whose       *)
(* behaviours a behaviour is; the others stay as they are.                 *)
(***************************************************************************)
EXTENDS PrintPortal, FileChooser, Settings, Background, ScreenChooser, Restore, Barriers, AppList,
        TLC

CONSTANTS
    Parts, p1, p2, f1, f2, f3, w1, w2, w3, n1, n2, s1, s2, v1, v2, c1, c2, e1, e2, e3, e4

VARIABLE part

-----------------------------------------------------------------------------
(* Print.                                                                  *)

\* Settings and page setup of an application: none, all kinds of values.
NoKeys == [k \in {} |-> {}]
MCSetup == {
    [settings |-> NoKeys, page |-> [PPDName |-> "unknown"]],
    [settings |-> ("orientation" :> "reverse_landscape") @@ ("duplex" :> "horizontal")
                    @@ ("number-up" :> "4") @@ ("number-up-layout" :> "rlbt"),
     page |-> [PPDName |-> "Executive"]],
    [settings |-> ("print-pages" :> "ranges") @@ ("page-ranges" :> <<<<1, 5>>, <<7, 7>>, <<9, 11>>>>)
                    @@ ("output-uri" :> <<1, "dir/">>) @@ ("output-basename" :> "base"),
     page |-> [Name |-> "label", Orientation |-> "landscape"]]}

-----------------------------------------------------------------------------
(* File chooser.                                                           *)

Url(scheme, path) == [scheme |-> scheme, path |-> path]
MCPicks == {
    <<>>,
    <<Url("smb", <<<<"top", "md">>>>), Url("smb", <<<<"share">>, <<"b", "odt">>>>)>>}
Plain == [method |-> "open", directory |-> FALSE, multiple |-> FALSE, choices |-> <<>>,
        filters |-> {}, currentFolder |-> <<>>, currentFile |-> <<>>]
MCOptions == {
    [Plain EXCEPT !.directory = TRUE, !.currentFolder = <<<<"doc">>, <<"id">>>>],
    [Plain EXCEPT !.multiple = TRUE,
                !.filters = {<<<<"p", "p">>, <<"n", "n">>>>},
                !.choices = <<[id |-> "encoding", of |-> {"utf8", "latin1"}], [id |-> "read", of |-> {}]>>],
    [Plain EXCEPT !.method = "save", !.currentFile = <<<<"home">>, <<"a", "txt">>>>,
                !.filters = {<<<<"p", "p">>, <<"n">>>>}]}

-----------------------------------------------------------------------------
(* Settings.                                                               *)

ColorSchemeKey == <<<<"org", "freedesktop", "appearance">>, "color-scheme">>
MotionKey == <<<<"org", "freedesktop", "appearance">>, "reduced-motion">>
ActiveKey == <<<<"org", "kde", "VirtualKeyboard">>, "active">>
WillShowKey == <<<<"org", "kde", "VirtualKeyboard">>, "willShowOnActive">>
TabletKey == <<<<"org", "kde", "TabletMode">>, "enabled">>
FontKey == <<<<"org", "kde", "kdeglobals", "General">>, "font">>
IconsKey == <<<<"org", "kde", "kdeglobals", "Icons">>, "Theme">>
MCWatched == {ColorSchemeKey, MotionKey, ActiveKey, WillShowKey, TabletKey, FontKey, IconsKey}
MCEyes == {{ColorSchemeKey, ActiveKey, TabletKey, FontKey}, {MotionKey, FontKey},
           {WillShowKey, ActiveKey}, {FontKey, IconsKey}}
MCPatterns == {{}, {<<"org", "kde", "kdeglobals", "*">>},
             {<<"org", "kde", "kdeglobals">>, <<"org", "kde", "TabletMode">>}}

-----------------------------------------------------------------------------
(* Background: w3 is a window whose two ids differ.                        *)

MCLookedUp == (w1 :> "a") @@ (w2 :> "a") @@ (w3 :> "sandboxed")
MCRaw == (w1 :> "a") @@ (w2 :> "a") @@ (w3 :> "raw")
MCNotifyAbout == (n1 :> "a") @@ (n2 :> "a")

-----------------------------------------------------------------------------
(* Restore: two titles that are alike and one that is empty; two places,   *)
(* and a region that lies on a screen at each.                             *)

MCAppId == (c1 :> "a") @@ (c2 :> "a")
MCTitles == {<<1, 2, 3, 4>>, <<1, 2, 3, 5>>, <<>>}
MCAreas == {[from |-> <<0, 0>>, to |-> <<1, 1>>], [from |-> <<2, 0>>, to |-> <<4, 2>>]}
Chosen(some, madeUp, region, count) ==
    [screens |-> some, madeUp |-> madeUp, region |-> region, windows |-> count]
MCSelections == {
    Chosen({}, {}, {}, 2), Chosen({s1}, {}, {}, 1), Chosen({s1, s2}, {}, {}, 0),
    Chosen({}, {"Workspace"}, {}, 0),
    Chosen({s1}, {"Region"}, {[from |-> <<1, 0>>, to |-> <<3, 1>>]}, 1)}

-----------------------------------------------------------------------------
(* Barriers: a screen, and another that touches it or not.                 *)

Rect(x, y, w, h) == [x |-> x, y |-> y, w |-> w, h |-> h]
Fixed == Rect(1, 1, 2, 3)
Apart == {r \in {Rect(x, y, 2, 2) : x \in 1..4, y \in 0..4} : r.x >= 3 \/ r.y >= 4}
MCLayouts == UNION {{<<Fixed>>, <<Fixed, r>>, <<r, Fixed>>} : r \in Apart}
MCLines == {l \in [x1 : 0..6, y1 : 0..6, x2 : 0..6, y2 : 0..6] :
               \/ l.x1 = l.x2 \/ l.y1 = l.y2
               \/ l.x1 = 0 /\ l.y1 = 0 /\ l.x2 = 2 /\ l.y2 = 2}

-----------------------------------------------------------------------------
(* The list of applications: e4 is hidden and stands for e1; e2 and e3 have  *)
(* the same name.                                                          *)

MCAlias == (e1 :> e1) @@ (e2 :> e2) @@ (e3 :> e3) @@ (e4 :> e1)
MCRank == (e1 :> 1) @@ (e2 :> 2) @@ (e3 :> 2) @@ (e4 :> 3)
MCTexts == {[byName |-> {e3}, otherwise |-> {e1}]}
MCChoices == {{}, {e3}, {e2, e4}}
MCDatabases == {Entry, {e1, e2, e3}, {e2, e3, e4}, {e1}}

-----------------------------------------------------------------------------
vars == <<part, printVars, filesVars, settingsVars, backgroundVars, chooserVars,
          restoreVars, barrierVars, appListVars>>

\* What a portal may start with is fixed in the behaviours of another.
Init ==
    /\ part \in Parts
    /\ PrintInit /\ FilesInit /\ SettingsInit /\ BackgroundInit /\ ChooserInit
    /\ RestoreInit /\ BarriersInit /\ AppListInit
    /\ part # "files" => mobile /\ fuse
    /\ part # "settings" => eye = {FontKey, IconsKey}
    /\ part # "chooser" => screens = Screen /\ shown = {}
    /\ part # "restore" => area = [s \in Plug |-> CHOOSE a \in Areas : TRUE]
    /\ part # "barriers" => layout = <<Fixed>>
    /\ part # "apps" => installed = Entry

Next ==
    \/ /\ part = "print" /\ PrintNext
       /\ UNCHANGED <<part, filesVars, settingsVars, backgroundVars, chooserVars,
                      restoreVars, barrierVars, appListVars>>
    \/ /\ part = "files" /\ FilesNext
       /\ UNCHANGED <<part, printVars, settingsVars, backgroundVars, chooserVars,
                      restoreVars, barrierVars, appListVars>>
    \/ /\ part = "settings" /\ SettingsNext
       /\ UNCHANGED <<part, printVars, filesVars, backgroundVars, chooserVars,
                      restoreVars, barrierVars, appListVars>>
    \/ /\ part = "background" /\ BackgroundNext
       /\ UNCHANGED <<part, printVars, filesVars, settingsVars, chooserVars,
                      restoreVars, barrierVars, appListVars>>
    \/ /\ part = "chooser" /\ ChooserNext
       /\ UNCHANGED <<part, printVars, filesVars, settingsVars, backgroundVars,
                      restoreVars, barrierVars, appListVars>>
    \/ /\ part = "restore" /\ RestoreNext
       /\ UNCHANGED <<part, printVars, filesVars, settingsVars, backgroundVars,
                      chooserVars, barrierVars, appListVars>>
    \/ /\ part = "barriers" /\ BarriersNext
       /\ UNCHANGED <<part, printVars, filesVars, settingsVars, backgroundVars,
                      chooserVars, restoreVars, appListVars>>
    \/ /\ part = "apps" /\ AppListNext
       /\ UNCHANGED <<part, printVars, filesVars, settingsVars, backgroundVars,
                      chooserVars, restoreVars, barrierVars>>

Spec == Init /\ [][Next]_vars

Symmetry == Permutations(FileCall)

=============================================================================
