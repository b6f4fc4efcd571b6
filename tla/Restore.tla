------------------------------ MODULE Restore ------------------------------
(***************************************************************************)
(* A screen cast that is started again without a dialog, from the restore  *)
(* data an earlier one gave the application (src/src/screencast.cpp).      *)
(* A screen is looked for by the place of its corner, which is its id; a   *)
(* window by its application and a title that is like the one it had.      *)
(***************************************************************************)
EXTENDS Integers, Sequences, FiniteSets

CONSTANTS
    Plug,       \* screens
    Areas,      \* geometries a screen can have: corners from and to, both on the screen
    CastWindow, \* windows
    AppId,      \* AppId[w]: the application of a window
    Titles,     \* titles a window can have, sequences of letters
    Garbage,    \* what memory that was never written may hold
    Selections  \* screens and made-up outputs the user may choose, with a region or none;
                \* bound: with how many windows

MadeUp == {"Workspace", "Region", "Virtual"}

\* A region is selected as an output of its own.
ASSUME RestoreAssumption ==
    /\ Titles \subseteq Seq(Nat) /\ Titles # {}
    /\ Areas # {}
    /\ \A selection \in Selections :
         /\ selection.screens \subseteq Plug
         /\ selection.madeUp \subseteq MadeUp
         /\ selection.region # {} => "Region" \in selection.madeUp

VARIABLES
    plugged,  \* QGuiApplication::screens
    area,     \* area[s]: the geometry of a screen
    listed,   \* plasmaWindowManagement()->windows(), in order
    title,    \* title[w]
    saved,    \* restore data the application has
    restored, \* what the last Start shared, or that it asked
    reliable, \* history: no distance was misjudged, no window matched twice over
    stood     \* history: stood[s]: where a chosen screen stood when it was chosen

screenVars == <<plugged, area>>
restoreVars == <<screenVars, listed, title, saved, restored, reliable, stood>>

NoData == [ours |-> FALSE, places |-> {}, madeUp |-> {}, region |-> {}, windows |-> <<>>]
Asked == [silent |-> FALSE, screens |-> {}, madeUp |-> {}, windows |-> {}]

InSeq(s) == {s[n] : n \in DOMAIN s}

RestoreInit ==
    /\ plugged = Plug
    /\ area \in [Plug -> Areas]
    /\ listed = <<>>
    /\ title = [w \in CastWindow |-> CHOOSE t \in Titles : TRUE]
    /\ saved = NoData
    /\ restored = Asked
    /\ reliable = TRUE
    /\ stood = [s \in {} |-> <<>>]

-----------------------------------------------------------------------------
(* Titles that are alike.                                                  *)

Least(set) == CHOOSE n \in set : \A k \in set : n <= k

\* The letter at the k-th of some positions.
Nth(s, positions, k) ==
    s[CHOOSE n \in positions : Cardinality({j \in positions : j <= n}) = k]

\* The rows v0 and v1, row 0 being the first v0: its last element is never set.
Levenshtein(a, b, garbage) ==
    LET v[i \in 0..Len(a), j \in 0..Len(b)] ==
            IF i = 0 THEN (IF j = Len(b) THEN garbage ELSE j)
            ELSE IF j = 0 THEN i
            ELSE Least({v[i-1, j] + 1, v[i, j-1] + 1,
                        v[i-1, j-1] + (IF a[i] = b[j] THEN 0 ELSE 1)})
    IN  IF a = b THEN 0 ELSE v[Len(a), Len(b)]

Distance == [a \in Titles, b \in Titles, garbage \in Garbage |-> Levenshtein(a, b, garbage)]

\* The letters of a at pair[1] that differ from those of b at pair[2].
Misfits(a, b, pair) ==
    {k \in 1..Cardinality(pair[1]) : Nth(a, pair[1], k) # Nth(b, pair[2], k)}

\* What Levenshtein is to compute, by definition: letters of a are kept in their order
\* as letters of b, at the cost of those that differ and of all that are left.
Kept(a, b) ==
    {pair \in (SUBSET DOMAIN a) \X (SUBSET DOMAIN b) : Cardinality(pair[1]) = Cardinality(pair[2])}

Cost(a, b, pair) == Len(a) + Len(b) - 2 * Cardinality(pair[1]) + Cardinality(Misfits(a, b, pair))

EditDistance ==
    [a \in Titles |-> [b \in Titles |-> Least({Cost(a, b, pair) : pair \in Kept(a, b)})]]

\* Variant: whatever is best is good enough.
SimilarIfAny(distance, wanted) == TRUE

Similar(distance, wanted) == distance < Len(wanted) \div 2

\* What one entry of the restore data adds to the windows, distance[n] being that of
\* window n: the first whose title is the same, and the best before it, if it is similar.
First(positions) == {n \in positions : \A k \in positions : n <= k}

MatchesOf(entry, distance) ==
    LET ofApp == {n \in DOMAIN listed : AppId[listed[n]] = entry.app}
        same == {n \in ofApp : distance[n] = 0}
        seen == {n \in ofApp : \A k \in same : n < k}
        best == {n \in seen : \A k \in seen : distance[n] <= distance[k]}
    IN  First(same) \cup {n \in First(best) : Similar(distance[n], entry.title)}

\* Each window with the entry it is for; distances[n]: those of entry n.
TryMatchWindows(entries, distances) ==
    UNION {{n} \X MatchesOf(entries[n], distances[n]) : n \in DOMAIN entries}

-----------------------------------------------------------------------------
(* Until Start restores, screens and windows come, go and change.          *)

\* The id of a screen is the place of its corner.
UniqueId(s) == area[s].from
Ids(some) == {UniqueId(s) : s \in some}

\* The rectangle around all screens holds the region; it need not lie on a screen.
Within(region) ==
    \A axis \in {1, 2} : \E s, t \in plugged :
        area[s].from[axis] <= region.from[axis] /\ region.to[axis] <= area[t].to[axis]

\* Start with a dialog, in which the user allows to restore: something was chosen that
\* is there.
StartAndSave(selection, chosen) ==
    /\ saved = NoData
    /\ selection.screens \subseteq plugged /\ Len(chosen) <= selection.windows
    /\ "Workspace" \in selection.madeUp => Cardinality(plugged) > 1
    /\ \A region \in selection.region : Within(region)
    /\ selection.screens # {} \/ selection.madeUp # {} \/ chosen # <<>>
    /\ saved' = [ours |-> TRUE, places |-> Ids(selection.screens),
                 madeUp |-> selection.madeUp, region |-> selection.region,
                 windows |-> [n \in DOMAIN chosen |->
                                 [app |-> AppId[chosen[n]], title |-> title[chosen[n]]]]]
    /\ stood' = [s \in selection.screens |-> UniqueId(s)]
    /\ UNCHANGED <<screenVars, listed, title, restored, reliable>>

\* The data is from another desktop or an earlier version.
ForeignData(selection) ==
    /\ saved = NoData /\ selection.screens \cup selection.madeUp # {}
    /\ saved' = [NoData EXCEPT !.places = Ids(selection.screens), !.madeUp = selection.madeUp,
                               !.region = selection.region]
    /\ UNCHANGED <<screenVars, listed, title, restored, reliable, stood>>

\* The screens that are found: the first, in some order, at each place.  A screen is not
\* in the model, and not found, if there is no file for its picture.
Finds(some) ==
    /\ Ids(some) \subseteq saved.places
    /\ \A s, t \in some : UniqueId(s) = UniqueId(t) => s = t

\* Each list that is not empty decides anew.  What is made up is always found, Workspace
\* even if it was not offered.
Valid(some, matches) ==
    IF saved.windows # <<>> THEN Cardinality(matches) = Len(saved.windows)
    ELSE IF saved.region # {} THEN \A region \in saved.region : Within(region)
    ELSE saved.places \subseteq Ids(some) /\ (saved.places # {} \/ saved.madeUp # {})

RestoringStart(some, found) ==
    /\ saved # NoData /\ ~restored.silent
    /\ Finds(some)
    /\ LET distances == [n \in DOMAIN saved.windows |-> [k \in DOMAIN listed |->
                            Distance[title[listed[k]], saved.windows[n].title, found[n][k]]]]
           matches == TryMatchWindows(saved.windows, distances)
       IN  /\ restored' = IF saved.ours /\ Valid(some, matches)
                          THEN [silent |-> TRUE, screens |-> some, madeUp |-> saved.madeUp,
                                windows |-> {listed[m[2]] : m \in matches}]
                          ELSE Asked
           /\ reliable' = \A n \in DOMAIN saved.windows :
                  /\ \A k \in DOMAIN listed :
                        distances[n][k] = EditDistance[title[listed[k]]][saved.windows[n].title]
                  /\ Cardinality(MatchesOf(saved.windows[n], distances[n])) <= 1
    /\ UNCHANGED <<screenVars, listed, title, saved, stood>>

\* A screen goes, or comes or moves to wherever it is put.
OutputChanges(s) ==
    /\ ~restored.silent
    /\ \/ /\ s \in plugged /\ plugged # {s} /\ plugged' = plugged \ {s}
          /\ area' = [area EXCEPT ![s] = CHOOSE a \in Areas : TRUE]
       \/ /\ plugged' = plugged \cup {s}
          /\ \E a \in Areas : area' = [area EXCEPT ![s] = a]
    /\ UNCHANGED <<listed, title, saved, restored, reliable, stood>>

WindowShows(w, t) ==
    /\ ~restored.silent /\ w \notin InSeq(listed)
    /\ listed' = Append(listed, w)
    /\ title' = [title EXCEPT ![w] = t]
    /\ UNCHANGED <<screenVars, saved, restored, reliable, stood>>

WindowGoes(w) ==
    /\ ~restored.silent /\ w \in InSeq(listed)
    /\ \E n \in DOMAIN listed :
         listed[n] = w /\ listed' = SubSeq(listed, 1, n - 1) \o SubSeq(listed, n + 1, Len(listed))
    /\ title' = [title EXCEPT ![w] = CHOOSE t \in Titles : TRUE]
    /\ UNCHANGED <<screenVars, saved, restored, reliable, stood>>

TitleChanges(w, t) ==
    /\ ~restored.silent /\ w \in InSeq(listed)
    /\ title' = [title EXCEPT ![w] = t]
    /\ UNCHANGED <<screenVars, listed, saved, restored, reliable, stood>>

\* Windows in the order they were ticked.
Ticked == {s \in UNION {[1..n -> InSeq(listed)] : n \in 0..Len(listed)} :
              \A j, k \in DOMAIN s : s[j] = s[k] => j = k}

RestoreNext ==
    \/ \E selection \in Selections :
          \/ ForeignData(selection)
          \/ \E chosen \in Ticked : StartAndSave(selection, chosen)
    \/ \E some \in SUBSET plugged :
       \E found \in [DOMAIN saved.windows -> [DOMAIN listed -> Garbage]] : RestoringStart(some, found)
    \/ \E s \in Plug : OutputChanges(s)
    \/ \E w \in CastWindow : WindowGoes(w)
    \/ \E w \in CastWindow, t \in Titles : WindowShows(w, t) \/ TitleChanges(w, t)

-----------------------------------------------------------------------------
\* "Arbitrary metric to make sure the best match is at least similar"
\* (screencast.cpp:100).
Alike(w, entry) ==
    /\ AppId[w] = entry.app
    /\ title[w] = entry.title \/ EditDistance[title[w]][entry.title] < Len(entry.title) \div 2

\* What is shared without asking was chosen before: something is; a screen that is and
\* was not chosen has taken the place of one that was, or mirrored it; of the outputs all
\* are there, each at its place, if neither windows nor a region were chosen; every
\* window is of an application and like a window that was, and every window that was
\* chosen has one like it, but for distances read from memory that was never written,
\* and windows that count twice.
RestoredIsChosen ==
    restored.silent =>
        LET windows == restored.windows
        IN  /\ restored.screens # {} \/ restored.madeUp # {} \/ windows # {}
            /\ \A s \in restored.screens : \E o \in DOMAIN stood : UniqueId(s) = stood[o]
            /\ saved.windows = <<>> /\ saved.region = {} =>
                  /\ restored.madeUp = saved.madeUp
                  /\ \A o \in DOMAIN stood : \E s \in restored.screens : UniqueId(s) = stood[o]
            /\ \A w \in windows : \E n \in DOMAIN saved.windows : AppId[w] = saved.windows[n].app
            /\ reliable =>
                   /\ \A w \in windows : \E n \in DOMAIN saved.windows : Alike(w, saved.windows[n])
                   /\ \A n \in DOMAIN saved.windows : \E w \in windows : Alike(w, saved.windows[n])

=============================================================================
