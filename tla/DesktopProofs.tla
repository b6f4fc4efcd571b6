--------------------------- MODULE DesktopProofs ---------------------------
(***************************************************************************)
(* Proofs about the parts of the portal that share no state: each theorem  *)
(* is about the behaviours of one of them, for any values of its           *)
(* constants.                                                              *)
(***************************************************************************)
EXTENDS AppList, Background, Settings, FileChooser, ScreenChooser, PrintPortal, Barriers, Restore,
        FiniteSetTheorems, FunctionTheorems, SequenceTheorems, WellFoundedInduction, TLAPS

-----------------------------------------------------------------------------
(* Least and greatest numbers.                                             *)

Before == {r \in Nat \X Nat : r[1] < r[2]}

\* Natural numbers are well-founded, so any of them have a least.
LEMMA LeastNumber ==
    ASSUME NEW T, T \subseteq Nat, T # {}
    PROVE  \E x \in T : \A y \in T : x <= y
  <1>1. IsWellFoundedOn(Before, Nat)
    BY NatLessThanWellFounded DEF OpToRel, Before
  <1>2. PICK x \in T : \A y \in T : ~(<<y, x>> \in Before)
    BY <1>1, WFMin
  <1>3. \A y \in T : ~(y < x)
    BY <1>2 DEF Before
  <1> QED
    BY <1>3

LEMMA GreatestNumber ==
    ASSUME NEW b \in Nat, NEW T, T \subseteq 0..b, T # {}
    PROVE  \E x \in T : \A y \in T : y <= x
  <1> DEFINE D == {d \in 0..b : b - d \in T}
  <1>1. PICK x \in T : TRUE
    OBVIOUS
  <1>2. x \in 0..b /\ b - x \in 0..b /\ b - (b - x) = x
    OBVIOUS
  <1>3. D \subseteq Nat /\ b - x \in D
    BY <1>2
  <1>4. PICK d \in D : \A e \in D : d <= e
    <2> HIDE DEF D
    <2> QED
      BY <1>3, LeastNumber
  <1>5. ASSUME NEW y \in T PROVE y <= b - d
    <2>1. y \in 0..b /\ b - y \in D
      OBVIOUS
    <2> QED
      BY <1>4, <2>1
  <1> QED
    BY <1>5

-----------------------------------------------------------------------------
(* The list of applications.                                               *)

AppListSpec == AppListInit /\ [][AppListNext]_appListVars

\* Whom the frontend named are preferred; and without any the list shows all.
AppListInv ==
    /\ installed \subseteq Entry
    /\ preferred \subseteq Entry
    /\ ~opened => named = Unnamed /\ preferred = {}
    /\ opened => entries = Visible(installed)
    /\ preferred \subseteq entries
    /\ opened /\ onlyThem => preferred # {}
    /\ named # Unnamed => preferred = Resolve(named, installed) \cap Visible(installed)
    /\ onlyThem \in BOOLEAN

\* The entries a list of wanted ones resolves to are those that are in it and those
\* that one of it, hidden, stands for.
LEMMA Resolved ==
    ASSUME NEW asks, NEW there, there \subseteq Entry
    PROVE  Resolve(asks, there) \cap Visible(there)
             = {e \in Visible(there) : e \in asks \/ \E n \in asks \cap there : e = Alias[n]}
  BY AppListAssumption DEF Resolve, Visible

\* lessThan never holds both ways, and compares any two of different names.
LEMMA Compared ==
    ASSUME NEW a \in Entry, NEW b \in Entry
    PROVE  /\ ~(LessThan(a, b) /\ LessThan(b, a))
           /\ a # b /\ Rank[a] # Rank[b] => LessThan(a, b) \/ LessThan(b, a)
  <1>1. Rank[a] \in Int /\ Rank[b] \in Int
    BY AppListAssumption
  <1> QED
    BY <1>1 DEF LessThan

\* lessThan is transitive, and so is to be neither less nor greater.
LEMMA Ordered ==
    ASSUME NEW a \in Entry, NEW b \in Entry, NEW c \in Entry
    PROVE  /\ LessThan(a, b) /\ LessThan(b, c) => LessThan(a, c)
           /\ LessThan(a, c) => LessThan(a, b) \/ LessThan(b, c)
  <1>1. Rank[a] \in Int /\ Rank[b] \in Int /\ Rank[c] \in Int
    BY AppListAssumption
  <1> QED
    BY <1>1 DEF LessThan

LEMMA AppListStep == AppListInv /\ [AppListNext]_appListVars => AppListInv'
  <1> SUFFICES ASSUME AppListInv, [AppListNext]_appListVars PROVE AppListInv'
    OBVIOUS
  <1>1. CASE \E given \in Choices, mime \in BOOLEAN, last \in Entry \cup {NoEntry} :
                OpenDialogOf(given, mime, last)
    <2>1. PICK given \in Choices, mime \in BOOLEAN, last \in Entry \cup {NoEntry} :
             OpenDialogOf(given, mime, last)
      BY <1>1
    <2>2. CASE mime
      BY <2>1, <2>2 DEF AppListInv, OpenDialogOf, FindPreferredApps, SetPreferredApps, Supporters, Visible
    <2>3. CASE ~mime
      BY <2>1, <2>3 DEF AppListInv, OpenDialogOf
    <2> QED
      BY <2>2, <2>3
  <1>2. ASSUME NEW asks \in Choices, UpdateChoices(asks) PROVE AppListInv'
    BY <1>2 DEF AppListInv, UpdateChoices, SetPreferredApps, Visible
  <1>3. ASSUME NEW there \in Databases, DatabaseChanged(there) PROVE AppListInv'
    BY <1>3, AppListAssumption DEF AppListInv, DatabaseChanged, FindPreferredApps, SetPreferredApps, Visible
  <1>4. ASSUME NEW t \in Texts \cup {NoText}, SetFilter(t) PROVE AppListInv'
    BY <1>4 DEF AppListInv, SetFilter
  <1>5. CASE MimeNameChanged
    BY <1>5 DEF AppListInv, MimeNameChanged, FindPreferredApps, SetPreferredApps, Supporters, Visible
  <1>6. CASE ToggleShowAll
    BY <1>6 DEF AppListInv, ToggleShowAll
  <1>7. CASE UNCHANGED appListVars
    BY <1>7 DEF AppListInv, appListVars, Visible, Resolve
  <1> QED
    BY <1>1, <1>2, <1>3, <1>4, <1>5, <1>6, <1>7 DEF AppListNext

\* Whatever the choices, the search and the applications there are, and whatever their
\* names: those the frontend named last are preferred until the database of applications
\* changes, which forgets them (appchooserdialog.cpp 101-105), and again once it names
\* some anew; the list is empty without a search only if nothing is installed; and
\* lessThan is a strict weak order of what is listed.
THEOREM ChoicesStayOffered == AppListSpec => []ChoicesAreOffered
  <1>1. AppListInit => AppListInv
    BY AppListAssumption DEF AppListInit, AppListInv
  <1>2. AppListInv => ChoicesAreOffered
    <2> SUFFICES ASSUME AppListInv, opened PROVE ChoicesAreOffered
      BY DEF ChoicesAreOffered
    <2>1. Listed \subseteq Entry
      BY DEF AppListInv, Listed, Visible
    <2>2. \A a, b, c \in Listed :
             /\ ~(LessThan(a, b) /\ LessThan(b, a))
             /\ a # b /\ Rank[a] # Rank[b] => LessThan(a, b) \/ LessThan(b, a)
             /\ LessThan(a, b) /\ LessThan(b, c) => LessThan(a, c)
             /\ LessThan(a, c) => LessThan(a, b) \/ LessThan(b, c)
      BY <2>1, Compared, Ordered
    <2>3. text = NoText /\ entries # {} => Listed # {}
      BY DEF AppListInv, Listed, FilterAcceptsRow
    <2>4. named # Unnamed =>
             preferred = {e \in entries :
                             e \in named \/ \E n \in named \cap installed : e = Alias[n]}
      BY Resolved DEF AppListInv
    <2> QED
      BY <2>2, <2>3, <2>4 DEF ChoicesAreOffered
  <1> QED
    BY <1>1, <1>2, AppListStep, PTL DEF AppListSpec

-----------------------------------------------------------------------------
(* The background portal.                                                  *)

BackgroundSpec == BackgroundInit /\ [][BackgroundNext]_backgroundVars

\* Both ids of every window of the application are the same.
OneId(a) == \A w \in AppWindow : a \in {LookedUp[w], Raw[w]} => LookedUp[w] = Raw[w]

WindowsInv ==
    /\ windows \subseteq AppWindow
    /\ told = appStates
    /\ \A a : OneId(a) => (a \in DOMAIN appStates <=> \E w \in windows : LookedUp[w] = a)

OnScreen(c) == notice[c] \in {"open", "activated"}

\* A call is owed an answer as long as its notice or its box can be decided.
OwesAnswer(c) ==
    /\ notice[c] \in {"none", "open"} => decided[c] = "nothing" /\ c \notin box
    /\ notice[c] \in {"activated", "closed"} => (decided[c] = "nothing" <=> c \in box)
    /\ notice[c] # "none" =>
          answers[c] = IF decided[c] = "nothing" THEN <<>> ELSE <<decided[c]>>

\* A notice on the screen has its application in m_backgroundAppWarned, alone.
Warned(c) ==
    OnScreen(c) =>
        /\ NotifyAbout[c] \in warned
        /\ \A d \in Notify \ {c} : NotifyAbout[d] = NotifyAbout[c] => ~OnScreen(d)

Reply == {"Allow", "AllowOnce", "Forbid", "empty"}

NoticeTypes ==
    /\ notice \in [Notify -> {"none", "open", "activated", "closed"}]
    /\ answers \in [Notify -> Seq(Reply)]
    /\ decided \in [Notify -> {"nothing", "Allow", "AllowOnce", "Forbid"}]

NoticeInv == NoticeTypes /\ \A c \in Notify : OwesAnswer(c) /\ Warned(c)

BackgroundInv == WindowsInv /\ NoticeInv

LEMMA WindowsStep == WindowsInv /\ [BackgroundNext]_backgroundVars => WindowsInv'
  <1> SUFFICES ASSUME WindowsInv, [BackgroundNext]_backgroundVars PROVE WindowsInv'
    OBVIOUS
  <1> USE DEF WindowsInv, OneId
  <1>1. ASSUME NEW w \in AppWindow, AddWindow(w) PROVE WindowsInv'
    BY <1>1 DEF AddWindow, SetState
  <1>2. ASSUME NEW w \in AppWindow, ActiveChanged(w) PROVE WindowsInv'
    BY <1>2 DEF ActiveChanged, SetState
  <1>3. ASSUME NEW w \in AppWindow, Unmapped(w) PROVE WindowsInv'
    BY <1>3 DEF Unmapped, Others
  <1>4. CASE UNCHANGED windowVars
    BY <1>4 DEF windowVars
  <1>5. ASSUME NEW c \in Notify,
               \/ NotifyBackground(c) \/ AllowAction(c) \/ ForbidAction(c)
               \/ BoxFinished(c) \/ NoticeClosed(c)
        PROVE  UNCHANGED windowVars
    BY <1>5 DEF NotifyBackground, AllowAction, ForbidAction, BoxFinished, NoticeClosed
  <1>6. UNCHANGED backgroundVars => UNCHANGED windowVars
    BY DEF backgroundVars, windowVars
  <1> QED
    BY <1>1, <1>2, <1>3, <1>4, <1>5, <1>6 DEF BackgroundNext

\* A step of call c leaves the other calls alone.
LEMMA NoticeFrame ==
    ASSUME NoticeInv, NEW c \in Notify, NEW next \in {"none", "open", "activated", "closed"},
           NoticeTypes',
           notice' = [notice EXCEPT ![c] = next],
           \A d \in Notify \ {c} : /\ answers'[d] = answers[d] /\ decided'[d] = decided[d]
                                   /\ d \in box' <=> d \in box,
           OwesAnswer(c)',
           \/ warned' = warned /\ (next \in {"open", "activated"} => OnScreen(c))
           \/ next = "open" /\ NotifyAbout[c] \notin warned /\ warned' = warned \cup {NotifyAbout[c]}
           \/ next = "closed" /\ OnScreen(c) /\ warned' = warned \ {NotifyAbout[c]}
    PROVE  NoticeInv'
  <1>1. notice'[c] = next /\ \A d \in Notify \ {c} : notice'[d] = notice[d]
    BY DEF NoticeInv, NoticeTypes
  <1>2. \A d \in Notify \ {c} : OwesAnswer(d)'
    BY <1>1 DEF NoticeInv, OwesAnswer
  <1>3. ASSUME NEW d \in Notify PROVE Warned(d)'
    BY <1>1 DEF NoticeInv, Warned, OnScreen
  <1> QED
    BY <1>2, <1>3 DEF NoticeInv

\* A first answer to a call with nothing decided is what the user decided.
LEMMA Decides ==
    ASSUME NoticeInv, NEW c \in Notify, NEW what \in {"Allow", "AllowOnce", "Forbid"},
           Answer(c, what), Decide(c, what), notice[c] # "none", decided[c] = "nothing",
           notice' \in [Notify -> {"none", "open", "activated", "closed"}],
           notice'[c] \in {"activated", "closed"}, c \notin box'
    PROVE  /\ NoticeTypes' /\ OwesAnswer(c)'
           /\ \A d \in Notify \ {c} : answers'[d] = answers[d] /\ decided'[d] = decided[d]
  <1>1. answers[c] = <<>>
    BY DEF NoticeInv, OwesAnswer
  <1>2. answers' = [answers EXCEPT ![c] = <<what>>]
    BY <1>1 DEF Answer
  <1>3. decided' = [decided EXCEPT ![c] = what]
    BY DEF Decide
  <1>4. <<what>> \in Seq(Reply)
    BY DEF Reply
  <1>5. NoticeTypes'
    BY <1>2, <1>3, <1>4 DEF NoticeInv, NoticeTypes
  <1>6. answers'[c] = <<what>> /\ decided'[c] = what
    BY <1>2, <1>3 DEF NoticeInv, NoticeTypes
  <1>7. OwesAnswer(c)'
    BY <1>6 DEF OwesAnswer
  <1> QED
    BY <1>2, <1>3, <1>5, <1>7 DEF NoticeInv, NoticeTypes

LEMMA NoticeStep == NoticeInv /\ [BackgroundNext]_backgroundVars => NoticeInv'
  <1> SUFFICES ASSUME NoticeInv, [BackgroundNext]_backgroundVars PROVE NoticeInv'
    OBVIOUS
  <1> USE DEF NoticeTypes
  <1>1. ASSUME NEW c \in Notify, NotifyBackground(c) PROVE NoticeInv'
    <2>0. /\ notice[c] = "none" /\ answers[c] = <<>> /\ box' = box /\ decided' = decided
          /\ decided[c] = "nothing" /\ c \notin box
      BY <1>1 DEF NotifyBackground, NoticeInv, OwesAnswer
    <2>1. CASE /\ notice' = notice /\ warned' = warned
               /\ answers' \in {[answers EXCEPT ![c] = <<"AllowOnce">>],
                                [answers EXCEPT ![c] = <<"AllowOnce", "empty">>]}
      <3>1. notice' = [notice EXCEPT ![c] = "none"]
        BY <2>0, <2>1 DEF NoticeInv
      <3>2. <<"AllowOnce">> \in Seq(Reply) /\ <<"AllowOnce", "empty">> \in Seq(Reply)
        BY DEF Reply
      <3>3. NoticeTypes' /\ \A d \in Notify \ {c} : answers'[d] = answers[d]
        BY <2>0, <2>1, <3>2 DEF NoticeInv
      <3>4. OwesAnswer(c)'
        BY <2>0, <2>1 DEF OwesAnswer
      <3> QED
        BY <2>0, <2>1, <3>1, <3>3, <3>4, NoticeFrame
    <2>2. CASE /\ NotifyAbout[c] \notin warned /\ warned' = warned \cup {NotifyAbout[c]}
               /\ notice' = [notice EXCEPT ![c] = "open"] /\ answers' = answers
      <3>1. NoticeTypes'
        BY <2>0, <2>2 DEF NoticeInv
      <3>2. notice'[c] = "open"
        BY <2>2 DEF NoticeInv
      <3>3. OwesAnswer(c)'
        BY <2>0, <2>2, <3>2 DEF OwesAnswer
      <3> QED
        BY <2>0, <2>2, <3>1, <3>3, NoticeFrame
    <2>3. Append(<<>>, "AllowOnce") = <<"AllowOnce">>
      OBVIOUS
    <2> QED
      BY <1>1, <2>0, <2>1, <2>2, <2>3 DEF NotifyBackground, Answer
  <1>2. ASSUME NEW c \in Notify, AllowAction(c) PROVE NoticeInv'
    <2>1. /\ notice[c] = "open" /\ decided[c] = "nothing" /\ c \notin box'
          /\ notice' = [notice EXCEPT ![c] = "activated"] /\ notice'[c] = "activated"
          /\ box' = box /\ warned' = warned /\ OnScreen(c)
      BY <1>2 DEF AllowAction, NoticeInv, OwesAnswer, OnScreen
    <2>2. Answer(c, "Allow") /\ Decide(c, "Allow")
      BY <1>2 DEF AllowAction
    <2>3. /\ NoticeTypes' /\ OwesAnswer(c)'
          /\ \A d \in Notify \ {c} : answers'[d] = answers[d] /\ decided'[d] = decided[d]
      BY <2>1, <2>2, Decides DEF NoticeInv
    <2> QED
      BY <2>1, <2>3, NoticeFrame
  <1>3. ASSUME NEW c \in Notify, ForbidAction(c) PROVE NoticeInv'
    <2>1. OwesAnswer(c)' /\ NoticeTypes'
      BY <1>3 DEF ForbidAction, NoticeInv, OwesAnswer
    <2> QED
      BY <1>3, <2>1, NoticeFrame DEF ForbidAction, NoticeInv, OnScreen
  <1>4. ASSUME NEW c \in Notify, BoxFinished(c) PROVE NoticeInv'
    <2>1. /\ c \in box /\ box' = box \ {c} /\ warned' = warned /\ notice' = notice
          /\ notice' = [notice EXCEPT ![c] = notice[c]]
          /\ notice[c] \in {"activated", "closed"} /\ decided[c] = "nothing"
          /\ (notice[c] \in {"open", "activated"} => OnScreen(c))
      BY <1>4 DEF BoxFinished, NoticeInv, OwesAnswer, OnScreen
    <2>2. PICK what \in {"Allow", "Forbid"} : Answer(c, what) /\ Decide(c, what)
      BY <1>4 DEF BoxFinished
    <2>3. /\ NoticeTypes' /\ OwesAnswer(c)'
          /\ \A d \in Notify \ {c} : answers'[d] = answers[d] /\ decided'[d] = decided[d]
      BY <2>1, <2>2, Decides DEF NoticeInv
    <2> QED
      BY <2>1, <2>3, NoticeFrame
  <1>5. ASSUME NEW c \in Notify, NoticeClosed(c) PROVE NoticeInv'
    <2>1. /\ OnScreen(c) /\ box' = box /\ warned' = warned \ {NotifyAbout[c]}
          /\ notice' = [notice EXCEPT ![c] = "closed"] /\ notice'[c] = "closed"
      BY <1>5 DEF NoticeClosed, NoticeInv, OnScreen
    <2>2. /\ NoticeTypes' /\ OwesAnswer(c)'
          /\ \A d \in Notify \ {c} : answers'[d] = answers[d] /\ decided'[d] = decided[d]
      <3>1. CASE notice[c] = "open"
        <4>1. Answer(c, "AllowOnce") /\ Decide(c, "AllowOnce")
          BY <1>5, <3>1 DEF NoticeClosed
        <4>2. decided[c] = "nothing" /\ c \notin box'
          BY <2>1, <3>1 DEF NoticeInv, OwesAnswer
        <4> QED
          BY <2>1, <3>1, <4>1, <4>2, Decides DEF NoticeInv
      <3>2. CASE notice[c] = "activated"
        BY <1>5, <2>1, <3>2 DEF NoticeClosed, NoticeInv, OwesAnswer
      <3> QED
        BY <2>1, <3>1, <3>2 DEF OnScreen
    <2> QED
      BY <2>1, <2>2, NoticeFrame
  <1>6. CASE UNCHANGED noticeVars
    BY <1>6 DEF noticeVars, NoticeInv, OwesAnswer, Warned, OnScreen
  <1>7. ASSUME NEW w \in AppWindow, AddWindow(w) \/ ActiveChanged(w) \/ Unmapped(w)
        PROVE  UNCHANGED noticeVars
    BY <1>7 DEF AddWindow, ActiveChanged, Unmapped
  <1>8. UNCHANGED backgroundVars => UNCHANGED noticeVars
    BY DEF backgroundVars, noticeVars
  <1> QED
    BY <1>1, <1>2, <1>3, <1>4, <1>5, <1>6, <1>7, <1>8 DEF BackgroundNext

\* GetAppState lists the applications that have windows; a call the user was asked
\* about is answered once, with what the user decided, and one notice at a time is
\* shown for an application.
THEOREM StatesAndAnswersFollow == BackgroundSpec => []BackgroundFollows
  <1>1. BackgroundInit => BackgroundInv
    BY DEF BackgroundInit, BackgroundInv, WindowsInv, OneId, NoticeInv, NoticeTypes, OwesAnswer,
           Warned, OnScreen
  <1>2. BackgroundInv /\ [BackgroundNext]_backgroundVars => BackgroundInv'
    BY WindowsStep, NoticeStep DEF BackgroundInv
  <1>3. BackgroundInv => BackgroundFollows
    <2> SUFFICES ASSUME BackgroundInv PROVE StatesFollowWindows /\ UserDecides
      BY DEF BackgroundFollows
    <2>1. StatesFollowWindows
      BY DEF BackgroundInv, WindowsInv, OneId, StatesFollowWindows
    <2>2. \A what : <<what>> # <<>>
      OBVIOUS
    <2>3. ASSUME NEW c \in Notify, notice[c] # "none", answers[c] = <<>>
          PROVE  notice[c] = "open" \/ c \in box
      BY <2>2, <2>3 DEF BackgroundInv, NoticeInv, NoticeTypes, OwesAnswer
    <2>4. UserDecides
      BY <2>3 DEF BackgroundInv, NoticeInv, OwesAnswer, Warned, OnScreen, UserDecides
    <2> QED
      BY <2>1, <2>4
  <1> QED
    BY <1>1, <1>2, <1>3, PTL DEF BackgroundSpec


-----------------------------------------------------------------------------
(* The settings portal.                                                    *)

SettingsSpec == SettingsInit /\ [][SettingsNext]_settingsVars

Reported == Of[Keyboard] \cup Of[Tablet]
Signal == Reported \X Grey

SettingsTypes ==
    /\ file \in [InFile -> Grey] /\ cached \in [InFile -> Grey]
    /\ desktop \in [Watched \ InFile -> Grey]
    /\ kwin \in Seq(Signal)
    /\ eye \subseteq Watched
    /\ known \in [Watched -> Int]

\* A key of the file with no notice under way is read and known as it is on disk.
CachedInv(key) ==
    Announces(key) \notin notices /\ key \notin sideways =>
        ValueOf(key) = file[key] /\ known[key] \in {Unknown, file[key]}

Queued(key) == {n \in DOMAIN kwin : kwin[n][1] = key}

\* What KWin says of a key last is what it has.
LastIsTrue(key) ==
    key # Unsignalled =>
        \A n \in Queued(key) : (\A k \in Queued(key) : k <= n) => kwin[n][2] = desktop[key]

ReportedInv(key) ==
    /\ Queued(key) = {} /\ key \notin sideways => known[key] \in {Unknown, ValueOf(key)}
    /\ LastIsTrue(key)

SettingsInv ==
    /\ SettingsTypes
    /\ \A key \in InFile : CachedInv(key)
    /\ \A key \in Watched \ InFile : ReportedInv(key)

\* Every key is of one of the modules.
LEMMA KeysOfModules ==
    /\ \A key \in Watched : Module[key] \in {Appearance, Keyboard, Tablet, KDEGlobals}
    /\ \A module \in {Appearance, Keyboard, Tablet, KDEGlobals}, key \in Watched :
          key \in Of[module] <=> Module[key] = module
    /\ \A module \in {Appearance, Keyboard, Tablet, KDEGlobals} : Of[module] \subseteq Watched
  <1>1. ASSUME NEW key \in Watched PROVE Module[key] \in {Appearance, Keyboard, Tablet, KDEGlobals}
    <2> DEFINE P(n) == IsPrefix(SettingModules[n], key[1])
    <2>1. \E n \in DOMAIN SettingModules : P(n)
      BY SettingsAssumption
    <2>2. (CHOOSE n \in DOMAIN SettingModules : P(n)) \in DOMAIN SettingModules
      BY <2>1
    <2>3. DOMAIN SettingModules = 1..4
      BY DEF SettingModules
    <2>4. Module[key] = SettingModules[CHOOSE n \in DOMAIN SettingModules : P(n)]
      BY DEF Module
    <2>5. \A n \in 1..4 : SettingModules[n] \in {Appearance, Keyboard, Tablet, KDEGlobals}
      BY DEF SettingModules
    <2> QED
      BY <2>2, <2>3, <2>4, <2>5
  <1> QED
    BY <1>1 DEF Of

LEMMA ModulesDiffer ==
    /\ Appearance # KDEGlobals /\ Keyboard # KDEGlobals /\ Tablet # KDEGlobals
    /\ Appearance # Keyboard /\ Appearance # Tablet /\ Keyboard # Tablet
  BY DEF Appearance, Keyboard, Tablet, KDEGlobals

\* Signals of their own announce no key; only reduced-motion is announced by that of the
\* watcher.
LEMMA SideSignals ==
    /\ \A key : Announces(key) \notin {"refreshFonts", "styleChanged"}
    /\ \A key : Announces(key) = "configChanged" => key = Motion
    /\ \A signal : Side(signal) \subseteq {"refreshFonts", "styleChanged"}
  BY DEF Announces, Side

\* What is read from the file is of kdeglobals or the appearance.
LEMMA KeysOfFile ==
    /\ InFile \subseteq Watched
    /\ \A key \in InFile : Module[key] \in {KDEGlobals, Appearance}
    /\ \A key \in InFile : Module[key] # KDEGlobals => key = Motion
    /\ \A key \in Watched : Module[key] = KDEGlobals => key \in InFile
    /\ Motion \in Watched => Motion \in InFile /\ Module[Motion] = Appearance
    /\ OfPalette \subseteq Watched \ InFile
  <1>1. Len(Appearance) = 3 /\ Len(KDEGlobals) = 3
    BY DEF Appearance, KDEGlobals
  <1>2. ASSUME Motion \in Watched PROVE Module[Motion] = Appearance
    <2>1. Motion[1] = Appearance
      BY DEF Motion
    <2>2. Module[Motion] # KDEGlobals
      <3>1. Module[Motion] = KDEGlobals => Len(Motion[1]) > Len(KDEGlobals)
        BY <1>2, SettingsAssumption
      <3>2. ~(Len(Motion[1]) > Len(KDEGlobals))
        BY <1>1, <2>1
      <3> QED
        BY <3>1, <3>2
    <2> QED
      BY <1>2, <2>1, <2>2, SettingsAssumption
  <1> QED
    BY <1>2, KeysOfModules, ModulesDiffer DEF InFile, OfPalette

LEMMA ValueType ==
    ASSUME SettingsTypes, NEW key \in Watched
    PROVE  ValueOf(key) \in Int
  <1>1. CASE key \in InFile
    <2>1. cached[key] \in Int /\ file[key] \in Int
      BY <1>1 DEF SettingsTypes, Grey
    <2> QED
      BY <1>1, <2>1, KeysOfFile DEF ValueOf
  <1>2. CASE key \notin InFile
    <2>1. Module[key] # KDEGlobals /\ key # Motion
      BY <1>2, KeysOfFile
    <2>2. desktop[key] \in Int /\ ColorScheme(desktop[key]) \in Int
      BY <1>2 DEF SettingsTypes, ColorScheme, Grey
    <2> QED
      BY <2>1, <2>2 DEF ValueOf
  <1> QED
    BY <1>1, <1>2

\* A step that only tells what is read keeps the invariant.
LEMMA TellingKeeps ==
    ASSUME SettingsInv, UNCHANGED <<file, cached, desktop, kwin, notices, eye, sideways>>,
           known' \in [Watched -> Int],
           \A key \in Watched : known'[key] \in {known[key], ValueOf(key)}
    PROVE  SettingsInv'
  <1>1. ASSUME NEW key \in InFile PROVE CachedInv(key)'
    <2>1. key \in Watched /\ ValueOf(key)' = ValueOf(key)
      BY KeysOfFile DEF ValueOf
    <2> QED
      BY <2>1 DEF SettingsInv, CachedInv
  <1>2. ASSUME NEW key \in Watched \ InFile PROVE ReportedInv(key)'
    BY DEF SettingsInv, ReportedInv, Queued, LastIsTrue, ValueOf
  <1> QED
    BY <1>1, <1>2 DEF SettingsInv, SettingsTypes

LEMMA KWinStep == ASSUME SettingsInv, NEW key \in Watched, KWinChanges(key) PROVE SettingsInv'
  <1>1. key \in Reported /\ key \in Watched \ InFile
    BY KeysOfModules, KeysOfFile, ModulesDiffer DEF KWinChanges, Reported
  <1>2. PICK value \in Grey : /\ desktop' = [desktop EXCEPT ![key] = value]
                              /\ IF key = Unsignalled
                                 THEN sideways' = sideways \cup {key} /\ UNCHANGED kwin
                                 ELSE kwin' = Append(kwin, <<key, value>>) /\ UNCHANGED sideways
    BY DEF KWinChanges
  <1>3. UNCHANGED <<file, cached, notices, eye, known>>
    BY DEF KWinChanges
  <1>4. <<key, value>> \in Signal
    BY <1>1 DEF Signal
  <1>5. SettingsTypes'
    <2>1. kwin' = kwin \/ kwin' = Append(kwin, <<key, value>>)
      BY <1>2, Zenon
    <2>2. kwin' \in Seq(Signal)
      <3>1. kwin \in Seq(Signal)
        BY DEF SettingsInv, SettingsTypes
      <3> QED
        BY <1>4, <2>1, <3>1
    <2>3. desktop' \in [Watched \ InFile -> Grey]
      BY <1>1, <1>2 DEF SettingsInv, SettingsTypes
    <2> QED
      BY <1>3, <2>2, <2>3 DEF SettingsInv, SettingsTypes
  <1>6. key # Unsignalled =>
        /\ Len(kwin') = Len(kwin) + 1 /\ kwin'[Len(kwin) + 1] = <<key, value>>
        /\ \A n \in 1..Len(kwin) : kwin'[n] = kwin[n]
        /\ DOMAIN kwin = 1..Len(kwin) /\ DOMAIN kwin' = 1..Len(kwin) + 1 /\ Len(kwin) \in Nat
    <2> SUFFICES ASSUME key # Unsignalled
                 PROVE  /\ Len(kwin') = Len(kwin) + 1 /\ kwin'[Len(kwin) + 1] = <<key, value>>
                        /\ \A n \in 1..Len(kwin) : kwin'[n] = kwin[n]
                        /\ DOMAIN kwin = 1..Len(kwin) /\ DOMAIN kwin' = 1..Len(kwin) + 1
                        /\ Len(kwin) \in Nat
      OBVIOUS
    <2>1. kwin' = Append(kwin, <<key, value>>)
      BY <1>2, Zenon
    <2>2. kwin \in Seq(Signal)
      BY DEF SettingsInv, SettingsTypes
    <2> QED
      BY <1>4, <2>1, <2>2
  <1>8. \A other \in InFile : CachedInv(other)'
    <2> SUFFICES ASSUME NEW other \in InFile PROVE CachedInv(other)'
      OBVIOUS
    <2>1. ValueOf(other)' = ValueOf(other) /\ other # key
      BY <1>1, <1>3, KeysOfFile DEF ValueOf
    <2> QED
      BY <1>2, <1>3, <2>1 DEF SettingsInv, CachedInv
  <1>7. ASSUME NEW other \in Watched \ InFile PROVE ReportedInv(other)'
    <2>0. CASE key = Unsignalled /\ other = key
      BY <1>2, <2>0 DEF ReportedInv, LastIsTrue
    <2>3. CASE key = Unsignalled /\ other # key
      <3>1. desktop'[other] = desktop[other] /\ ValueOf(other)' = ValueOf(other)
        BY <1>2, <1>3, <2>3 DEF SettingsInv, SettingsTypes, ValueOf
      <3> QED
        BY <1>2, <1>3, <2>3, <3>1 DEF SettingsInv, ReportedInv, LastIsTrue, Queued
    <2>1. CASE key # Unsignalled /\ other = key
      <3>1. Len(kwin) + 1 \in Queued(key)'
        BY <1>6, <2>1 DEF Queued
      <3>2. \A n \in Queued(key)' : (\A k \in Queued(key)' : k <= n) => n = Len(kwin) + 1
        BY <1>6, <2>1, <3>1 DEF Queued
      <3>3. kwin'[Len(kwin) + 1][2] = desktop'[key]
        BY <1>1, <1>2, <1>6, <2>1 DEF SettingsInv, SettingsTypes
      <3> QED
        BY <2>1, <3>1, <3>2, <3>3 DEF ReportedInv, LastIsTrue
    <2>2. CASE key # Unsignalled /\ other # key
      <3>1. Queued(other)' = Queued(other)
        BY <1>6, <2>2 DEF Queued
      <3>2. \A n \in Queued(other) : kwin'[n] = kwin[n]
        BY <1>6, <2>2 DEF Queued
      <3>3. desktop'[other] = desktop[other] /\ ValueOf(other)' = ValueOf(other)
        BY <1>2, <1>3, <2>2 DEF SettingsInv, SettingsTypes, ValueOf
      <3> QED
        BY <1>2, <1>3, <2>2, <3>1, <3>2, <3>3 DEF SettingsInv, ReportedInv, LastIsTrue
    <2> QED
      BY <2>0, <2>1, <2>2, <2>3
  <1> QED
    BY <1>5, <1>7, <1>8 DEF SettingsInv

LEMMA PaletteStep == ASSUME SettingsInv, PaletteChanges PROVE SettingsInv'
  <1>1. PICK value \in Grey :
           desktop' = [key \in DOMAIN desktop |-> IF key \in OfPalette THEN value ELSE desktop[key]]
    BY DEF PaletteChanges
  <1>2. UNCHANGED <<file, cached, kwin, notices, eye, sideways>>
    BY DEF PaletteChanges
  <1>3. OfPalette \subseteq Watched \ InFile
    BY KeysOfFile
  <1>4. \A key \in Watched : known'[key] = IF key \in OfPalette THEN ValueOf(key)' ELSE known[key]
    BY <1>3, KeysOfModules, ModulesDiffer DEF PaletteChanges, ValueOf, OfPalette
  <1>5. SettingsTypes'
    BY <1>1, <1>2, <1>3 DEF SettingsInv, SettingsTypes, PaletteChanges, ColorScheme, Grey
  <1>6. ASSUME NEW key \in InFile PROVE CachedInv(key)'
    <2>1. key \in Watched /\ ValueOf(key)' = ValueOf(key)
      BY <1>2, KeysOfFile DEF ValueOf
    <2>2. known'[key] = known[key]
      BY <1>3, <1>4, <2>1
    <2> QED
      BY <1>2, <2>1, <2>2 DEF SettingsInv, CachedInv
  <1>7. ASSUME NEW key \in Watched \ InFile PROVE ReportedInv(key)'
    <2>1. CASE key \in OfPalette
      <3>1. key \notin Reported
        BY <2>1, KeysOfModules, ModulesDiffer DEF Reported, OfPalette
      <3>2. Queued(key)' = {}
        BY <1>2, <3>1 DEF Queued, SettingsInv, SettingsTypes, Signal
      <3> QED
        BY <1>4, <2>1, <3>2 DEF ReportedInv, LastIsTrue
    <2>2. CASE key \notin OfPalette
      <3>1. desktop'[key] = desktop[key]
        BY <1>1, <2>2 DEF SettingsInv, SettingsTypes
      <3>2. ValueOf(key)' = ValueOf(key) /\ known'[key] = known[key]
        BY <1>2, <1>4, <2>2, <3>1 DEF ValueOf
      <3> QED
        BY <1>2, <3>1, <3>2 DEF SettingsInv, ReportedInv, LastIsTrue, Queued
    <2> QED
      BY <2>1, <2>2
  <1> QED
    BY <1>5, <1>6, <1>7 DEF SettingsInv

LEMMA FileStep == ASSUME SettingsInv, NEW key \in Watched, FileChanges(key) PROVE SettingsInv'
  <1>1. key \in InFile
    BY DEF FileChanges
  <1>2. PICK value \in Grey : file' = [file EXCEPT ![key] = value]
    BY DEF FileChanges
  <1>3. UNCHANGED <<cached, desktop, kwin, eye, known>>
    BY DEF FileChanges
  <1>4. notices \subseteq notices' /\ sideways \ {key} \subseteq sideways'
    BY DEF FileChanges
  <1>5. Announces(key) \in notices' \/ key \in sideways'
    BY DEF FileChanges
  <1>6. SettingsTypes'
    BY <1>2, <1>3 DEF SettingsInv, SettingsTypes
  <1>7. ASSUME NEW other \in InFile PROVE CachedInv(other)'
    <2>1. other = key \/ (file'[other] = file[other] /\ ValueOf(other)' = ValueOf(other))
      BY <1>2, <1>3, KeysOfFile DEF SettingsInv, SettingsTypes, ValueOf
    <2> QED
      BY <1>3, <1>4, <1>5, <2>1 DEF SettingsInv, CachedInv
  <1>8. ASSUME NEW other \in Watched \ InFile PROVE ReportedInv(other)'
    <2>1. ValueOf(other)' = ValueOf(other) /\ other # key
      BY <1>1, <1>3, KeysOfFile DEF ValueOf
    <2> QED
      BY <1>3, <1>4, <2>1 DEF SettingsInv, ReportedInv, LastIsTrue, Queued
  <1> QED
    BY <1>6, <1>7, <1>8 DEF SettingsInv

LEMMA SignalStep == ASSUME SettingsInv, KWinSignal PROVE SettingsInv'
  <1> DEFINE key == kwin[1][1]
  <1>1. /\ kwin # <<>> /\ kwin' = Tail(kwin)
        /\ UNCHANGED <<file, cached, desktop, notices, eye, sideways>>
        /\ known' = [known EXCEPT ![key] = IF Module[key] = Tablet THEN kwin[1][2] ELSE ValueOf(key)]
    BY DEF KWinSignal
  <1>2. kwin[1] \in Signal
    BY <1>1 DEF SettingsInv, SettingsTypes
  <1>3. key \in Reported /\ key \in Watched \ InFile /\ kwin[1][2] \in Grey
    BY <1>2, KeysOfModules, KeysOfFile, ModulesDiffer DEF Signal, Reported
  <1>4. SettingsTypes'
    BY <1>1, <1>3, ValueType DEF SettingsInv, SettingsTypes, Grey
  <1>5. /\ Len(kwin) \in Nat \ {0} /\ DOMAIN kwin = 1..Len(kwin) /\ DOMAIN kwin' = 1..Len(kwin) - 1
        /\ \A n \in 1..Len(kwin) - 1 : kwin'[n] = kwin[n + 1]
    BY <1>1 DEF SettingsInv, SettingsTypes
  <1>6. ASSUME NEW other \in InFile PROVE CachedInv(other)'
    <2>1. other # key /\ other \in Watched /\ ValueOf(other)' = ValueOf(other)
      BY <1>1, <1>3, KeysOfFile DEF ValueOf
    <2>2. known'[other] = known[other]
      BY <1>1, <2>1 DEF SettingsInv, SettingsTypes
    <2> QED
      BY <1>1, <2>1, <2>2 DEF SettingsInv, CachedInv
  <1>7. ASSUME NEW other \in Watched \ InFile PROVE ReportedInv(other)'
    <2>1. ValueOf(other)' = ValueOf(other)
      BY <1>1 DEF ValueOf
    <2>2. LastIsTrue(other)'
      <3> SUFFICES ASSUME other # Unsignalled, NEW n \in Queued(other)', \A k \in Queued(other)' : k <= n
                   PROVE  kwin'[n][2] = desktop'[other]
        BY DEF LastIsTrue
      <3>1. n \in 1..Len(kwin) - 1 /\ n + 1 \in Queued(other)
        BY <1>5 DEF Queued
      <3>2. ASSUME NEW k \in Queued(other) PROVE k <= n + 1
        <4>1. k \in 1..Len(kwin)
          BY <1>5 DEF Queued
        <4>2. k # 1 => k - 1 \in Queued(other)'
          BY <1>5, <4>1 DEF Queued
        <4> QED
          BY <3>1, <4>1, <4>2
      <3> QED
        BY <1>1, <1>5, <3>1, <3>2 DEF SettingsInv, ReportedInv, LastIsTrue
    <2>3. ASSUME Queued(other)' = {}, other \notin sideways' PROVE known'[other] \in {Unknown, ValueOf(other)}
      <3>1. \A n \in Queued(other) : n = 1
        <4> SUFFICES ASSUME NEW n \in Queued(other), n # 1 PROVE FALSE
          OBVIOUS
        <4>1. n - 1 \in Queued(other)'
          BY <1>5 DEF Queued
        <4> QED
          BY <2>3, <4>1
      <3>2. CASE other = key
        <4>1. 1 \in Queued(other)
          BY <1>5, <3>2 DEF Queued
        <4>2. other # Unsignalled => kwin[1][2] = desktop[other]
          BY <3>1, <4>1 DEF SettingsInv, ReportedInv, LastIsTrue
        <4>3. Module[other] = Tablet => ValueOf(other) = desktop[other] /\ other # Unsignalled
          <5> SUFFICES ASSUME Module[other] = Tablet PROVE ValueOf(other) = desktop[other] /\ other # Unsignalled
            OBVIOUS
          <5>1. other[1] = Tablet /\ other[2] \in Keys(Tablet)
            BY SettingsAssumption, ModulesDiffer
          <5>2. other[2] # "color-scheme" /\ other[2] # "willShowOnActive"
            BY <5>1, ModulesDiffer DEF Keys
          <5>3. other # Motion
            BY <5>1, ModulesDiffer DEF Motion
          <5> QED
            BY <5>2, <5>3, ModulesDiffer DEF ValueOf, Unsignalled
        <4> QED
          BY <1>1, <1>3, <3>2, <4>2, <4>3 DEF SettingsInv, SettingsTypes
      <3>3. CASE other # key
        <4>1. Queued(other) = {}
          BY <1>5, <3>1, <3>3 DEF Queued
        <4> QED
          BY <1>1, <2>3, <3>3, <4>1 DEF SettingsInv, SettingsTypes, ReportedInv
      <3> QED
        BY <3>2, <3>3
    <2> QED
      BY <2>1, <2>2, <2>3 DEF ReportedInv
  <1> QED
    BY <1>4, <1>6, <1>7 DEF SettingsInv

LEMMA NoticeTold == ASSUME SettingsInv, NEW signal \in notices, Notice(signal) PROVE SettingsInv'
  <1>1. /\ notices' = notices \ {signal} /\ UNCHANGED <<file, desktop, kwin, eye, sideways>>
        /\ cached' \in {cached, file}
        /\ signal \notin {"refreshFonts", "styleChanged", "configChanged"} => cached' = file
    BY DEF Notice, Reparse
  <1>2. known' = [key \in Watched |->
           IF key \in InFile /\ (Announces(key) = signal \/ signal \in Side(Announces(key)))
           THEN ValueOf(key)' ELSE known[key]]
    BY DEF Notice
  <1>3. SettingsTypes'
    <2>1. cached' \in [InFile -> Grey]
      BY <1>1 DEF SettingsInv, SettingsTypes
    <2>2. Grey \subseteq Int
      BY DEF Grey
    <2>3. known' \in [Watched -> Int]
      <3>1. \A key \in InFile : ValueOf(key)' \in Int
        BY <1>1, <2>1, <2>2, KeysOfFile DEF ValueOf, SettingsInv, SettingsTypes
      <3> QED
        BY <1>2, <3>1 DEF SettingsInv, SettingsTypes
    <2> QED
      BY <1>1, <2>1, <2>3 DEF SettingsInv, SettingsTypes
  <1>4. ASSUME NEW key \in InFile PROVE CachedInv(key)'
    <2>1. key \in Watched
      BY KeysOfFile
    <2>2. ValueOf(key)' \in {ValueOf(key), file[key]} /\ known'[key] \in {known[key], ValueOf(key)'}
      BY <1>1, <1>2, <2>1, KeysOfFile DEF ValueOf
    <2>3. CASE Announces(key) = signal
      <3>1. ValueOf(key)' = file[key]
        <4>1. key # Motion => cached' = file
          BY <1>1, <2>3, SideSignals
        <4> QED
          BY <1>1, <2>1, <4>1, KeysOfFile, ModulesDiffer DEF ValueOf
      <3>2. known'[key] = ValueOf(key)'
        BY <1>2, <2>1, <2>3
      <3> QED
        BY <1>1, <3>1, <3>2 DEF CachedInv
    <2>4. CASE Announces(key) # signal
      BY <1>1, <2>2, <2>4 DEF SettingsInv, CachedInv
    <2> QED
      BY <2>3, <2>4
  <1>5. ASSUME NEW key \in Watched \ InFile PROVE ReportedInv(key)'
    <2>1. known'[key] = known[key]
      BY <1>2
    <2>2. ValueOf(key)' = ValueOf(key)
      BY <1>1, KeysOfFile DEF ValueOf
    <2> QED
      BY <1>1, <2>1, <2>2 DEF SettingsInv, ReportedInv, LastIsTrue, Queued
  <1> QED
    BY <1>3, <1>4, <1>5 DEF SettingsInv

LEMMA SettingsStep == SettingsInv /\ [SettingsNext]_settingsVars => SettingsInv'
  <1> SUFFICES ASSUME SettingsInv, [SettingsNext]_settingsVars PROVE SettingsInv'
    OBVIOUS
  <1>1. ASSUME NEW patterns \in Patterns, ReadAll(patterns) PROVE SettingsInv'
    BY <1>1, TellingKeeps, ValueType DEF ReadAll, SettingsInv, SettingsTypes
  <1>2. ASSUME NEW key \in eye, Read(key) PROVE SettingsInv'
    BY <1>2, TellingKeeps, ValueType DEF Read, SettingsInv, SettingsTypes
  <1>3. ASSUME NEW key \in eye, key \in Watched, KWinChanges(key) \/ FileChanges(key) PROVE SettingsInv'
    BY <1>3, KWinStep, FileStep
  <1>4. CASE OtherNotice
    BY <1>4 DEF OtherNotice, SettingsInv, SettingsTypes, CachedInv, ReportedInv, LastIsTrue, Queued, ValueOf
  <1>5. CASE UNCHANGED settingsVars
    BY <1>5 DEF settingsVars, SettingsInv, SettingsTypes, CachedInv, ReportedInv, LastIsTrue, Queued, ValueOf
  <1>6. eye \subseteq Watched
    BY DEF SettingsInv, SettingsTypes
  <1> QED
    BY <1>1, <1>2, <1>3, <1>4, <1>5, <1>6, PaletteStep, SignalStep, NoticeTold DEF SettingsNext

\* What an application knows of a key is what a read would give and what the desktop
\* has, once no signal for the key is under way, if nothing but a signal changed it: a
\* key of kdeglobals that has no notice, or was written without it, and willShowOnActive
\* are read as they are but not announced.
THEOREM KnownStaysTrue == SettingsSpec => []KnownIsRead
  <1>1. SettingsInit => SettingsInv
    BY KeysOfFile, SettingsAssumption DEF SettingsInit, SettingsInv, ValueOf, SettingsTypes, Grey, CachedInv, ReportedInv,
                         LastIsTrue, Queued, Unknown
  <1>2. SettingsInv => KnownIsRead
    BY DEF SettingsInv, CachedInv, ReportedInv, Queued, KnownIsRead
  <1> QED
    BY <1>1, <1>2, SettingsStep, PTL DEF SettingsSpec

-----------------------------------------------------------------------------
(* The file chooser portal.                                                *)

FilesSpec == FilesInit /\ [][FilesNext]_filesVars

\* Adding a third to two.
LEMMA Three ==
    ASSUME NEW a, NEW b, NEW c
    PROVE  LET s == Append(<<a, b>>, c) IN s[1] = a /\ s[2] = b /\ Last(s) = c
  <1>1. <<a, b>> \in Seq({a, b, c})
    OBVIOUS
  <1> QED
    BY <1>1 DEF Last

\* Redirecting keeps the number of URLs, and what each stands for.
LEMMA Redirected ==
    ASSUME NEW urls \in Picks, NEW mountable
    PROVE  /\ DOMAIN FuseRedirect(urls, mountable) = DOMAIN urls
           /\ Len(FuseRedirect(urls, mountable)) = Len(urls)
           /\ \A i \in DOMAIN urls : Origin(FuseRedirect(urls, mountable)[i]) = urls[i]
  <1> DEFINE to == FuseRedirect(urls, mountable)
  <1>1. urls \in Seq([scheme : {"file", "smb"}, path : Seq(Seq(STRING))])
    BY FileChooserAssumption
  <1>2. DOMAIN to = DOMAIN urls /\ DOMAIN urls = 1..Len(urls) /\ Len(urls) \in Nat
    BY <1>1 DEF FuseRedirect
  <1>3. to \in Seq({to[i] : i \in DOMAIN urls})
    <2>1. to = [i \in 1..Len(urls) |-> to[i]]
      BY <1>2 DEF FuseRedirect
    <2> HIDE DEF to
    <2> QED
      BY <1>2, <2>1
  <1>4. Len(to) = Len(urls)
    <2> HIDE DEF to
    <2> QED
      BY <1>2, <1>3
  <1>5. ASSUME NEW i \in DOMAIN urls PROVE Origin(to[i]) = urls[i]
    <2> DEFINE url == urls[i]
               p == url.path
    <2>1. /\ url \in [scheme : {"file", "smb"}, path : Seq(Seq(STRING))]
          /\ p \in Seq(Seq(STRING)) /\ p # <<>>
          /\ url = [scheme |-> url.scheme, path |-> p]
      <3>1. url \in [scheme : {"file", "smb"}, path : Seq(Seq(STRING))]
        BY <1>1, <1>2, ElementOfSeq
      <3>2. p # <<>>
        BY FileChooserAssumption
      <3> HIDE DEF url
      <3> QED
        BY <3>1, <3>2
    <2>2. p[1] # <<"mount">> /\ Last(p) # <<>>
      BY FileChooserAssumption
    <2>3. Len(p) \in Nat \ {0}
      BY <2>1
    <2>4. CASE to[i] = url
      BY <2>2, <2>4 DEF Origin
    <2>5. CASE to[i] # url /\ Len(p) > 1
      <3>1. to[i] = [scheme |-> "file", path |-> Append(<<<<"mount">>, Front(p)>>, Last(p))]
        BY <2>5 DEF FuseRedirect
      <3>2. url.scheme = "smb"
        BY <2>1, <2>5 DEF FuseRedirect
      <3>3. Append(Front(p), Last(p)) = p
        BY <2>1, <2>3 DEF Front, Last
      <3> HIDE DEF to, p
      <3>4. /\ to[i].path[1] = <<"mount">> /\ to[i].path[2] = Front(p)
            /\ Last(to[i].path) = Last(p)
        BY <3>1, Three
      <3>5. Origin(to[i]) = [scheme |-> "smb", path |-> Append(Front(p), Last(p))]
        BY <2>2, <3>4 DEF Origin
      <3> QED
        BY <2>1, <3>2, <3>3, <3>5
    <2>6. CASE to[i] # url /\ ~(Len(p) > 1)
      <3>1. to[i] = [scheme |-> "file", path |-> Append(<<<<"mount">>, p>>, <<>>)]
        BY <2>6 DEF FuseRedirect
      <3>2. url.scheme = "smb"
        BY <2>1, <2>6 DEF FuseRedirect
      <3> HIDE DEF to, p
      <3>3. /\ to[i].path[1] = <<"mount">> /\ to[i].path[2] = p
            /\ Last(to[i].path) = <<>>
        BY <3>1, Three
      <3>4. Origin(to[i]) = [scheme |-> "smb", path |-> p]
        BY <3>3 DEF Origin
      <3> QED
        BY <2>1, <3>2, <3>4
    <2> QED
      BY <2>4, <2>5, <2>6
  <1> QED
    BY <1>2, <1>4, <1>5

\* No URLs are redirected to none.
LEMMA NothingRedirected ==
    ASSUME NEW mountable
    PROVE  FuseRedirect(<<>>, mountable) = <<>>
  BY DEF FuseRedirect

\* Every choice has a control: the last of its kind for its id.
LEMMA EveryChoiceHasControl ==
    ASSUME NEW o \in Options
    PROVE  {k.id : k \in Controls(o)} = {x.id : x \in Items(o.choices)}
  <1> DEFINE Same(k, n) == /\ o.choices[k].id = o.choices[n].id
                           /\ (o.choices[k].of = {}) = (o.choices[n].of = {})
             Later(n) == \E k \in n+1..Len(o.choices) : Same(k, n)
  <1>1. o.choices \in Seq([id : STRING, of : SUBSET STRING])
    BY FileChooserAssumption
  <1>2. DOMAIN o.choices = 1..Len(o.choices) /\ Len(o.choices) \in Nat
    BY <1>1
  <1>3. Controls(o) = {o.choices[n] : n \in {k \in DOMAIN o.choices : ~Later(k)}}
    BY DEF Controls
  <1>4. Controls(o) \subseteq Items(o.choices)
    BY <1>3 DEF Items
  <1>5. ASSUME NEW n \in DOMAIN o.choices
        PROVE  \E k \in Controls(o) : k.id = o.choices[n].id
    <2> DEFINE T == {k \in DOMAIN o.choices : Same(k, n)}
    <2>1. n \in T /\ T \subseteq 0..Len(o.choices)
      BY <1>2
    <2>2. PICK last \in T : \A k \in T : k <= last
      BY <1>2, <2>1, GreatestNumber
    <2>3. ~Later(last)
      BY <1>2, <2>2
    <2>4. o.choices[last] \in Controls(o)
      BY <1>3, <2>3
    <2> QED
      BY <2>4
  <1> QED
    BY <1>4, <1>5 DEF Items


\* What the caller is to get: the files selected, redirected, and every choice.
Fits(a, urls, o) ==
    /\ IF a.response = 0
       THEN /\ Len(a.uris) = Len(urls)
            /\ \A i \in DOMAIN a.uris : Origin(a.uris[i]) = urls[i]
       ELSE a.uris = <<>>
    /\ a.response = 0 /\ ~mobile /\ ~PlainFolder(o) =>
          {k.id : k \in DOMAIN a.choices} = {x.id : x \in Items(o.choices)}

FilesTypes ==
    /\ mobile \in BOOLEAN
    /\ chooser \in [FileCall -> {"none", "shown", "answered"}]
    /\ wanted \in [FileCall -> Options]
    /\ exitCode \in [FileCall -> {0, 1}]
    /\ answer = [c \in FileCall |-> answer[c]]
    /\ picked = [c \in FileCall |-> picked[c]]
    /\ nested \in Seq(FileCall)
    /\ overlapped \subseteq FileCall

\* A call that has the mobile dialog for itself finds in its results what the user
\* selected for it; or nothing, before and after cancelling.
Alone(c) ==
    /\ nested = <<c>> /\ chooser[c] = "shown"
    /\ IF c \in quitting /\ exitCode[c] = 0
       THEN picked[c] \in Picks /\ results = picked[c]
       ELSE results = <<>>

FileInv(c) ==
    c \notin overlapped =>
        /\ c \in Everyone => Alone(c)
        /\ chooser[c] = "answered" => Fits(answer[c], picked[c], wanted[c])

FilesInv ==
    /\ FilesTypes
    /\ ~mobile => nested = <<>>
    /\ quitting \subseteq Everyone
    /\ \A c \in FileCall : FileInv(c)

LEMMA FitsFrame == mobile' = mobile => \A a, urls, o : Fits(a, urls, o)' = Fits(a, urls, o)
  BY DEF Fits

\* Who is in a sequence that grows or shrinks at its end.
LEMMA ItemsOfAppend ==
    ASSUME NEW S, NEW s \in Seq(S), NEW x \in S
    PROVE  Items(Append(s, x)) = Items(s) \cup {x}
  <1>1. /\ Len(s) \in Nat /\ DOMAIN s = 1..Len(s) /\ DOMAIN Append(s, x) = 1..Len(s) + 1
        /\ \A n \in 1..Len(s) : Append(s, x)[n] = s[n]
        /\ Append(s, x)[Len(s) + 1] = x
    OBVIOUS
  <1>2. ASSUME NEW y \in Items(Append(s, x)) PROVE y \in Items(s) \cup {x}
    BY <1>1 DEF Items
  <1>3. ASSUME NEW y \in Items(s) \cup {x} PROVE y \in Items(Append(s, x))
    <2>1. CASE y \in Items(s)
      <3>1. PICK n \in 1..Len(s) : y = s[n]
        BY <1>1, <2>1 DEF Items
      <3> QED
        BY <1>1, <3>1 DEF Items
    <2>2. CASE y = x
      <3>1. Len(s) + 1 \in DOMAIN Append(s, x)
        BY <1>1
      <3> QED
        BY <1>1, <2>2, <3>1 DEF Items
    <2> QED
      BY <2>1, <2>2
  <1> QED
    BY <1>2, <1>3

LEMMA ItemsOfFront ==
    ASSUME NEW S, NEW s \in Seq(S), s # <<>>
    PROVE  /\ Front(s) \in Seq(S) /\ Items(Front(s)) \subseteq Items(s) /\ Last(s) \in Items(s)
           /\ Items(s) \subseteq Items(Front(s)) \cup {Last(s)}
  <1>1. Len(s) \in Nat \ {0} /\ DOMAIN s = 1..Len(s)
    OBVIOUS
  <1>2. /\ Front(s) \in Seq(S) /\ Len(Front(s)) = Len(s) - 1
        /\ \A n \in 1..Len(s) - 1 : Front(s)[n] = s[n]
    BY <1>1 DEF Front
  <1>3. DOMAIN Front(s) = 1..Len(s) - 1
    BY <1>1, <1>2
  <1>4. \A n \in 1..Len(s) - 1 : n \in 1..Len(s)
    BY <1>1
  <1>5. Len(s) \in 1..Len(s)
    BY <1>1
  <1>6. Items(s) \subseteq Items(Front(s)) \cup {Last(s)}
    <2> SUFFICES ASSUME NEW n \in 1..Len(s), n # Len(s) PROVE s[n] \in Items(Front(s))
      BY <1>1 DEF Items, Last
    <2>0. \A m \in Nat : \A k \in 1..m : k # m => k \in 1..m - 1
      OBVIOUS
    <2>1. n \in 1..Len(s) - 1
      BY <1>1, <2>0
    <2> QED
      BY <1>2, <1>3, <2>1 DEF Items
  <1> QED
    BY <1>1, <1>2, <1>3, <1>4, <1>5, <1>6 DEF Items, Last

LEMMA ItemsOfOne == \A c : Items(<<c>>) = {c} /\ Last(<<c>>) = c /\ Front(<<c>>) = <<>>
  <1>1. \A c : /\ DOMAIN <<c>> = {1} /\ <<c>>[1] = c /\ Len(<<c>>) = 1
               /\ <<c>> \in Seq({c})
    OBVIOUS
  <1>2. \A c : SubSeq(<<c>>, 1, 0) = <<>>
    BY <1>1
  <1> QED
    BY <1>1, <1>2 DEF Items, Last, Front

LEMMA ItemsOfNone == Items(<<>>) = {}
  BY DEF Items

LEMMA AcceptFilesStep == ASSUME FilesInv, NEW c \in FileCall, AcceptFiles(c) PROVE FilesInv'
  <1>1. PICK urls \in Picks, mountable \in SUBSET (1..2),
             evaluated \in IF PlainFolder(wanted[c]) THEN {NoChoices} ELSE EvaluateSelectedChoices(wanted[c]) :
           /\ picked' = [picked EXCEPT ![c] = urls]
           /\ answer' = [answer EXCEPT ![c] =
                 IF ResponseTo(wanted[c], urls) # 0
                 THEN [NoAnswer EXCEPT !.response = ResponseTo(wanted[c], urls)]
                 ELSE [response |-> 0, uris |-> FuseRedirect(urls, mountable), choices |-> evaluated,
                       filter |-> IF PlainFolder(wanted[c]) THEN {} ELSE ExtractFilters(wanted[c])]]
    BY Zenon DEF AcceptFiles
  <1>2. /\ ~mobile /\ chooser' = [chooser EXCEPT ![c] = "answered"]
        /\ UNCHANGED <<mobile, wanted, nested, exitCode, quitting, results, overlapped>>
    BY DEF AcceptFiles, NoMobile
  <1>3. wanted[c] \in Options
    BY DEF FilesInv, FilesTypes
  <1>4. ASSUME ~PlainFolder(wanted[c])
        PROVE  {k.id : k \in DOMAIN evaluated} = {x.id : x \in Items(wanted[c].choices)}
    <2>1. DOMAIN evaluated = Controls(wanted[c])
      BY <1>4 DEF EvaluateSelectedChoices
    <2> QED
      BY <1>3, <2>1, EveryChoiceHasControl
  <1>5. Fits(answer'[c], urls, wanted[c])
    <2>1. CASE ResponseTo(wanted[c], urls) # 0
      <3>1. answer'[c] = [NoAnswer EXCEPT !.response = ResponseTo(wanted[c], urls)]
        BY <1>1, <2>1 DEF FilesInv, FilesTypes
      <3>2. answer'[c].response # 0 /\ answer'[c].uris = <<>>
        BY <2>1, <3>1 DEF NoAnswer
      <3> QED
        BY <3>2 DEF Fits
    <2>2. CASE ResponseTo(wanted[c], urls) = 0
      <3>1. /\ answer'[c].uris = FuseRedirect(urls, mountable)
            /\ answer'[c].choices = evaluated /\ answer'[c].response = 0
        BY <1>1, <2>2 DEF FilesInv, FilesTypes
      <3> QED
        BY <1>4, <3>1, Redirected DEF Fits
    <2> QED
      BY <2>1, <2>2
  <1>6. FilesTypes'
    BY <1>1, <1>2 DEF FilesInv, FilesTypes
  <1>7. ASSUME NEW d \in FileCall PROVE FileInv(d)'
    <2>1. d \notin Everyone'
      BY <1>2, ItemsOfNone DEF FilesInv, Everyone
    <2>2. CASE d = c
      <3>1. picked'[c] = urls /\ wanted'[c] = wanted[c] /\ mobile' = mobile
        BY <1>1, <1>2 DEF FilesInv, FilesTypes
      <3>2. Fits(answer[c], picked[c], wanted[c])'
        BY <1>5, <3>1 DEF Fits
      <3> QED
        BY <2>1, <2>2, <3>2 DEF FileInv
    <2>3. CASE d # c
      <3>1. /\ picked'[d] = picked[d] /\ answer'[d] = answer[d] /\ wanted' = wanted /\ mobile' = mobile
            /\ chooser'[d] = chooser[d] /\ overlapped' = overlapped
        BY <1>1, <1>2, <2>3 DEF FilesInv, FilesTypes
      <3> QED
        BY <2>1, <3>1 DEF FilesInv, FileInv, Fits
    <2> QED
      BY <2>2, <2>3
  <1>8. quitting' \subseteq Everyone'
    BY <1>2 DEF FilesInv, Everyone
  <1> QED
    BY <1>2, <1>6, <1>7, <1>8 DEF FilesInv

LEMMA RejectFilesStep == ASSUME FilesInv, NEW c \in FileCall, RejectFiles(c) PROVE FilesInv'
  <1>1. /\ ~mobile /\ chooser' = [chooser EXCEPT ![c] = "answered"]
        /\ answer' = [answer EXCEPT ![c] = [NoAnswer EXCEPT !.response = 1]]
        /\ UNCHANGED <<mobile, wanted, nested, exitCode, quitting, results, overlapped, picked>>
    BY DEF RejectFiles, NoMobile
  <1>2. FilesTypes'
    BY <1>1 DEF FilesInv, FilesTypes
  <1>3. answer'[c].response = 1 /\ answer'[c].uris = <<>>
    BY <1>1 DEF FilesInv, FilesTypes, NoAnswer
  <1>4. ASSUME NEW d \in FileCall PROVE FileInv(d)'
    <2>1. d \notin Everyone'
      BY <1>1, ItemsOfNone DEF FilesInv, Everyone
    <2>2. d # c => /\ answer'[d] = answer[d] /\ chooser'[d] = chooser[d]
      BY <1>1 DEF FilesInv, FilesTypes
    <2>3. CASE d = c
      BY <1>3, <2>1, <2>3 DEF FileInv, Fits
    <2>4. CASE d # c
      BY <1>1, <2>1, <2>2, <2>4 DEF FilesInv, FileInv, Fits
    <2> QED
      BY <2>3, <2>4
  <1>5. quitting' \subseteq Everyone'
    BY <1>1 DEF FilesInv, Everyone
  <1> QED
    BY <1>1, <1>2, <1>4, <1>5 DEF FilesInv

LEMMA OpenDialogStep ==
    ASSUME FilesInv, NEW c \in FileCall, NEW o \in Options, OpenDialog(c, o) PROVE FilesInv'
  <1>1. /\ ~mobile /\ chooser' = [chooser EXCEPT ![c] = "shown"] /\ wanted' = [wanted EXCEPT ![c] = o]
        /\ UNCHANGED <<mobile, nested, exitCode, quitting, results, overlapped, picked, answer>>
    BY DEF OpenDialog, NoMobile
  <1>2. FilesTypes'
    BY <1>1 DEF FilesInv, FilesTypes
  <1>3. ASSUME NEW d \in FileCall PROVE FileInv(d)'
    <2>1. d \notin Everyone'
      BY <1>1, ItemsOfNone DEF FilesInv, Everyone
    <2>2. /\ d # c => wanted'[d] = wanted[d] /\ chooser'[d] = chooser[d]
          /\ chooser'[c] = "shown"
      BY <1>1 DEF FilesInv, FilesTypes
    <2> QED
      BY <1>1, <2>1, <2>2 DEF FilesInv, FileInv, Fits
  <1>4. quitting' \subseteq Everyone'
    BY <1>1 DEF FilesInv, Everyone
  <1> QED
    BY <1>1, <1>2, <1>3, <1>4 DEF FilesInv

LEMMA OpenMobileStep ==
    ASSUME FilesInv, NEW c \in FileCall, NEW o \in Options, OpenMobile(c, o) PROVE FilesInv'
  <1>1. /\ mobile /\ chooser' = [chooser EXCEPT ![c] = "shown"] /\ wanted' = [wanted EXCEPT ![c] = o]
        /\ nested' = Append(nested, c) /\ exitCode' = [exitCode EXCEPT ![c] = 0] /\ results' = <<>>
        /\ overlapped' = IF nested = <<>> THEN overlapped ELSE overlapped \cup {c} \cup Items(nested)
        /\ UNCHANGED <<mobile, quitting, picked, answer>>
    BY DEF OpenMobile, Exec, Enter, NoDesktop
  <1>2. Everyone' = Everyone \cup {c} /\ Everyone \subseteq FileCall
    <2>1. Everyone' = Everyone \cup {c}
      BY <1>1, ItemsOfAppend DEF FilesInv, FilesTypes, Everyone
    <2>2. Everyone \subseteq FileCall
      BY DEF FilesInv, FilesTypes, Everyone, Items
    <2> QED
      BY <2>1, <2>2
  <1>3. FilesTypes'
    BY <1>1, <1>2 DEF FilesInv, FilesTypes, Everyone
  <1>4. ASSUME NEW d \in FileCall, d \notin overlapped'
        PROVE  /\ d \in Everyone' => Alone(d)'
               /\ chooser'[d] = "answered" => Fits(answer[d], picked[d], wanted[d])'
    <2>1. CASE d = c
      <3>1. chooser'[c] = "shown" /\ exitCode'[c] = 0
        BY <1>1 DEF FilesInv, FilesTypes
      <3>0. nested = <<>> /\ Append(<<>>, c) = <<c>>
        BY <1>1, <1>4, <2>1
      <3>2. nested = <<>> /\ nested' = <<c>>
        BY <1>1, <3>0
      <3>3. c \notin quitting
        BY <3>2, ItemsOfNone DEF FilesInv, Everyone
      <3> QED
        BY <1>1, <2>1, <3>1, <3>2, <3>3 DEF Alone
    <2>2. CASE d # c
      <3>1. d \notin Everyone'
        BY <1>1, <1>2, <1>4, <2>2, ItemsOfNone DEF Everyone
      <3>2. /\ wanted'[d] = wanted[d] /\ chooser'[d] = chooser[d] /\ d \notin overlapped
        BY <1>1, <1>4, <2>2 DEF FilesInv, FilesTypes
      <3> QED
        BY <1>1, <1>4, <3>1, <3>2 DEF FilesInv, FileInv, Fits
    <2> QED
      BY <2>1, <2>2
  <1>5. quitting' \subseteq Everyone'
    BY <1>1, <1>2 DEF FilesInv
  <1> QED
    BY <1>1, <1>3, <1>4, <1>5 DEF FilesInv, FileInv

LEMMA AcceptMobileStep == ASSUME FilesInv, AcceptMobile PROVE FilesInv'
  <1>1. PICK urls \in Picks : results' = urls /\ picked' = [picked EXCEPT ![Last(nested)] = urls]
    BY DEF AcceptMobile
  <1>2. /\ exitCode' = [c \in FileCall |-> IF c \in Everyone THEN 0 ELSE exitCode[c]]
        /\ quitting' = quitting \cup Everyone
        /\ UNCHANGED <<mobile, chooser, wanted, nested, answer, overlapped>>
    BY DEF AcceptMobile, NoDesktop
  <1>3. FilesTypes' /\ quitting' \subseteq Everyone'
    BY <1>1, <1>2 DEF FilesInv, FilesTypes, Everyone
  <1>4. ASSUME NEW d \in FileCall, d \notin overlapped
        PROVE  /\ d \in Everyone' => Alone(d)'
               /\ chooser'[d] = "answered" => Fits(answer[d], picked[d], wanted[d])'
    <2>1. CASE d \in Everyone
      <3>1. nested = <<d>> /\ chooser[d] = "shown"
        BY <1>4, <2>1 DEF FilesInv, FileInv, Alone
      <3>2. picked'[d] = urls /\ exitCode'[d] = 0 /\ d \in quitting'
        BY <1>1, <1>2, <2>1, <3>1, ItemsOfOne DEF FilesInv, FilesTypes
      <3> QED
        BY <1>1, <1>2, <3>1, <3>2 DEF Alone
    <2>2. CASE d \notin Everyone
      <3>1. nested # <<>>
        BY ItemsOfNone DEF AcceptMobile, Everyone
      <3>2. Last(nested) # d
        BY <2>2, <3>1, ItemsOfFront DEF FilesInv, FilesTypes, Everyone
      <3>3. picked'[d] = picked[d]
        BY <1>1, <3>2 DEF FilesInv, FilesTypes
      <3>4. d \notin Everyone'
        BY <1>2, <2>2 DEF Everyone
      <3> QED
        BY <1>2, <1>4, <3>3, <3>4, FitsFrame DEF FilesInv, FileInv
    <2> QED
      BY <2>1, <2>2
  <1> QED
    BY <1>2, <1>3, <1>4 DEF FilesInv, FileInv

LEMMA CancelMobileStep == ASSUME FilesInv, CancelMobile PROVE FilesInv'
  <1>1. /\ Everyone \ quitting # {}
        /\ exitCode' = [c \in FileCall |-> IF c \in Everyone THEN 1 ELSE exitCode[c]]
        /\ quitting' = quitting \cup Everyone
        /\ UNCHANGED <<mobile, chooser, wanted, nested, results, answer, picked, overlapped>>
    BY DEF CancelMobile, NoDesktop
  <1>2. FilesTypes' /\ quitting' \subseteq Everyone' /\ Everyone' = Everyone
    BY <1>1 DEF FilesInv, FilesTypes, Everyone
  <1>3. ASSUME NEW d \in FileCall, d \notin overlapped
        PROVE  /\ d \in Everyone' => Alone(d)'
               /\ chooser'[d] = "answered" => Fits(answer[d], picked[d], wanted[d])'
    <2>1. CASE d \in Everyone
      <3>1. nested = <<d>> /\ chooser[d] = "shown"
        BY <1>3, <2>1 DEF FilesInv, FileInv, Alone
      <3>2. d \notin quitting
        BY <1>1, <3>1, ItemsOfOne DEF Everyone
      <3>3. results = <<>>
        BY <1>3, <2>1, <3>2 DEF FilesInv, FileInv, Alone
      <3>4. exitCode'[d] = 1
        BY <1>1, <2>1
      <3> QED
        BY <1>1, <3>1, <3>3, <3>4 DEF Alone
    <2>2. CASE d \notin Everyone
      BY <1>1, <1>2, <1>3, <2>2 DEF FilesInv, FileInv, Fits
    <2> QED
      BY <2>1, <2>2
  <1> QED
    BY <1>1, <1>2, <1>3 DEF FilesInv, FileInv

LEMMA ReturnMobileStep == ASSUME FilesInv, NEW c \in FileCall, ReturnMobile(c) PROVE FilesInv'
  <1>1. PICK mountable \in SUBSET (1..2) :
           answer' = [answer EXCEPT ![c] =
              [NoAnswer EXCEPT !.response = exitCode[c], !.uris = FuseRedirect(results, mountable)]]
    BY DEF ReturnMobile
  <1>2. /\ nested # <<>> /\ c = Last(nested) /\ c \in quitting
        /\ nested' = Front(nested) /\ quitting' = quitting \ {c}
        /\ chooser' = [chooser EXCEPT ![c] = "answered"]
        /\ UNCHANGED <<mobile, wanted, exitCode, results, picked, overlapped>>
    BY DEF ReturnMobile, NoDesktop
  <1>3. Everyone' \subseteq Everyone /\ quitting' \subseteq Everyone' /\ nested' \in Seq(FileCall)
        /\ c \in Everyone
    BY <1>2, ItemsOfFront DEF FilesInv, FilesTypes, Everyone
  <1>4. FilesTypes'
    BY <1>1, <1>2, <1>3 DEF FilesInv, FilesTypes
  <1>5. /\ answer'[c].response = exitCode[c] /\ answer'[c].uris = FuseRedirect(results, mountable)
    BY <1>1 DEF FilesInv, FilesTypes, NoAnswer
  <1>6. mobile
    BY <1>2 DEF FilesInv
  <1>7. ASSUME NEW d \in FileCall, d \notin overlapped
        PROVE  /\ d \in Everyone' => Alone(d)'
               /\ chooser'[d] = "answered" => Fits(answer[d], picked[d], wanted[d])'
    <2>1. CASE d = c
      <3>1. Alone(c)
        BY <1>3, <1>7, <2>1 DEF FilesInv, FileInv
      <3>2. Everyone' = {}
        BY <1>2, <3>1, ItemsOfOne, ItemsOfNone DEF Alone, Everyone
      <3>3. CASE exitCode[c] = 0
        <4>1. picked[c] \in Picks /\ results = picked[c]
          BY <1>2, <3>1, <3>3 DEF Alone
        <4> QED
          BY <1>2, <1>5, <1>6, <2>1, <3>2, <3>3, <4>1, Redirected DEF Fits
      <3>4. CASE exitCode[c] # 0
        <4>1. results = <<>>
          BY <3>1, <3>4 DEF Alone
        <4> QED
          BY <1>2, <1>5, <1>6, <2>1, <3>2, <3>4, <4>1, NothingRedirected DEF Fits
      <3> QED
        BY <3>3, <3>4
    <2>2. CASE d # c
      <3>1. d \notin Everyone
        BY <1>3, <1>7, <2>2, ItemsOfOne DEF FilesInv, FileInv, Alone, Everyone
      <3>2. answer'[d] = answer[d] /\ chooser'[d] = chooser[d]
        BY <1>1, <1>2, <2>2 DEF FilesInv, FilesTypes
      <3> QED
        BY <1>2, <1>3, <1>7, <3>1, <3>2 DEF FilesInv, FileInv, Fits
    <2> QED
      BY <2>1, <2>2
  <1> QED
    BY <1>2, <1>3, <1>4, <1>6, <1>7 DEF FilesInv, FileInv

\* A call that overlapped with no other is answered with the files selected for it.
THEOREM FilesGoToTheirCaller == FilesSpec => []FilesForTheCaller
  <1>1. FilesInit => FilesInv
    BY FileChooserAssumption, ItemsOfNone DEF FilesInit, FilesInv, FilesTypes, FileInv, Everyone
  <1>2. FilesInv /\ [FilesNext]_filesVars => FilesInv'
    <2> SUFFICES ASSUME FilesInv, [FilesNext]_filesVars PROVE FilesInv'
      OBVIOUS
    <2>1. CASE UNCHANGED filesVars
      BY <2>1 DEF filesVars, FilesInv, FilesTypes, FileInv, Alone, Fits, Everyone
    <2> QED
      BY <2>1, OpenDialogStep, OpenMobileStep, AcceptFilesStep, RejectFilesStep,
         AcceptMobileStep, CancelMobileStep, ReturnMobileStep DEF FilesNext
  <1>3. FilesInv => FilesForTheCaller
    BY DEF FilesInv, FileInv, Fits, FilesForTheCaller
  <1> QED
    BY <1>1, <1>2, <1>3, PTL DEF FilesSpec


-----------------------------------------------------------------------------
(* The dialog that chooses what is shared.                                 *)

ChooserSpec == ChooserInit /\ [][ChooserNext]_chooserVars

Row == Screen \cup MadeUp

\* No row comes twice, and screens come before what is made up.
ScreensFirst(list) ==
    \E k \in Nat : k <= Len(list) /\ \A n \in DOMAIN list : list[n] \in Screen <=> n <= k
IsRows(list) == list \in Seq(Row) /\ IsInjective(list) /\ ScreensFirst(list)

\* What is selected is what the user ticked: rows as long as none has moved under the
\* numbers, windows always.
SelectionInv ==
    /\ tickedWindows = ticked \cap ShareWindow
    /\ ~moved => /\ selectedRows \subseteq DOMAIN rows
                 /\ {rows[n] : n \in selectedRows} = ticked \ ShareWindow

AtMostOne ==
    \/ selectedRows = {} /\ \E w : tickedWindows \subseteq {w}
    \/ tickedWindows = {} /\ \E n : selectedRows \subseteq {n}

ChooserInv ==
    /\ screens \subseteq Screen /\ shown \subseteq ShareWindow
    /\ IsRows(rows)
    /\ SelectionInv
    /\ ~multiple => AtMostOne
    /\ choosing = "none" => ~moved
    /\ choosing = "read" => shared = [outputs |-> SelectedOutputs, windows |-> tickedWindows \cap shown]

\* An order of some things has each of them once.
LEMMA OrdersDistinct ==
    ASSUME NEW some, IsFiniteSet(some), NEW order \in Orders(some)
    PROVE  /\ order \in Seq(some) /\ Len(order) = Cardinality(some) /\ Cardinality(some) \in Nat
           /\ IsInjective(order)
  <1>1. Cardinality(some) \in Nat
    BY FS_CardinalityType
  <1>2. order \in [1..Cardinality(some) -> some] /\ Elements(order) = some
    BY DEF Orders
  <1>3. order \in Seq(some) /\ Len(order) = Cardinality(some)
    BY <1>1, <1>2
  <1>4. order \in Surjection(1..Cardinality(some), some)
    BY <1>2 DEF Surjection, Elements
  <1>5. IsFiniteSet(1..Cardinality(some)) /\ Cardinality(1..Cardinality(some)) = Cardinality(some)
    BY <1>1, FS_Interval
  <1>6. order \in Injection(1..Cardinality(some), some)
    BY <1>4, <1>5, FS_SurjSameCardinalityImpliesInj
  <1>7. IsInjective(order)
    BY <1>6 DEF Injection
  <1> QED
    BY <1>1, <1>3, <1>7

\* The rows the dialog starts with.
LEMMA RowsAtFirst ==
    ASSUME screens \subseteq Screen, NEW asked, NEW list \in OutputRows(asked)
    PROVE  IsRows(list)
  <1>1. CASE "Monitor" \in asked
    <2>0. PICK some \in SUBSET screens : \E order \in Orders(some) :
             list = order \o (IF Cardinality(screens) > 1 THEN <<"Workspace">> ELSE <<>>) \o <<"Region", "Virtual">>
      BY <1>1 DEF OutputRows
    <2>1. PICK order \in Orders(some) :
             list = order \o (IF Cardinality(screens) > 1 THEN <<"Workspace">> ELSE <<>>) \o <<"Region", "Virtual">>
      BY <2>0
    <2>2. some \subseteq Screen /\ IsFiniteSet(some)
      BY ChooserAssumption, FS_Subset
    <2>3. /\ order \in Seq(some) /\ Len(order) \in Nat /\ IsInjective(order)
      BY <2>2, OrdersDistinct
    <2>4. order \in Seq(Row)
      BY <2>2, <2>3, SeqMonotonic DEF Row
    <2>5. /\ \A n \in 1..Len(order) : order[n] \in Screen
          /\ \A row \in MadeUp : row \notin Screen
      BY <2>2, <2>3, ElementOfSeq, ChooserAssumption DEF MadeUp
    <2>6. DOMAIN order = 1..Len(order)
      BY <2>4
    <2> DEFINE all == <<"Workspace", "Region", "Virtual">>
               two == <<"Region", "Virtual">>
    <2>7. all \in Seq(Row) /\ two \in Seq(Row) /\ Len(all) = 3 /\ Len(two) = 2
      BY DEF Row, MadeUp
    <2>8. list = order \o all \/ list = order \o two
      <3>1. (order \o <<"Workspace">>) \o two = order \o all
        <4>1. <<"Workspace">> \in Seq(Row) /\ Len(<<"Workspace">>) = 1
          BY DEF Row, MadeUp
        <4>2. /\ <<"Workspace">> \o two \in Seq(Row) /\ Len(<<"Workspace">> \o two) = 3
              /\ \A i \in 1..3 : (<<"Workspace">> \o two)[i] =
                                  IF i <= 1 THEN <<"Workspace">>[i] ELSE two[i - 1]
          BY <2>7, <4>1, ConcatProperties
        <4>3. \A i \in 1..3 : (<<"Workspace">> \o two)[i] = all[i]
          BY <4>2
        <4>4. <<"Workspace">> \o two = all
          <5> HIDE DEF all, two
          <5> QED
            BY <2>7, <4>2, <4>3, SeqEqual
        <4> QED
          BY <2>4, <2>7, <4>1, <4>4, ConcatAssociative
      <3>2. (order \o <<>>) \o two = order \o two
        BY <2>4, ConcatEmptySeq
      <3> QED
        BY <2>1, <3>1, <3>2
    <2>9. ASSUME NEW tail \in {all, two}, list = order \o tail PROVE IsRows(list)
      <3>1. tail \in Seq(Row) /\ Len(tail) \in 2..3
        BY <2>7
      <3>2. /\ list \in Seq(Row) /\ Len(list) = Len(order) + Len(tail)
            /\ \A i \in 1..Len(order) + Len(tail) :
                  list[i] = IF i <= Len(order) THEN order[i] ELSE tail[i - Len(order)]
        BY <2>4, <2>9, <3>1, ConcatProperties
      <3>3. DOMAIN list = 1..Len(order) + Len(tail)
        BY <3>2
      <3>4. /\ \A i \in 1..Len(tail) : tail[i] \in MadeUp
            /\ \A i, j \in 1..Len(tail) : tail[i] = tail[j] => i = j
        BY DEF MadeUp
      <3> HIDE DEF all, two
      <3>5. ASSUME NEW i \in 1..Len(order) + Len(tail)
            PROVE  /\ i <= Len(order) => i \in 1..Len(order) /\ list[i] = order[i] /\ list[i] \in Screen
                   /\ i > Len(order) => /\ i - Len(order) \in 1..Len(tail)
                                        /\ list[i] = tail[i - Len(order)] /\ list[i] \notin Screen
        BY <2>3, <2>5, <3>1, <3>2, <3>4
      <3>6. IsInjective(list)
        <4> SUFFICES ASSUME NEW i \in 1..Len(order) + Len(tail), NEW j \in 1..Len(order) + Len(tail),
                            list[i] = list[j]
                     PROVE  i = j
          BY <3>3 DEF IsInjective
        <4>1. CASE i <= Len(order)
          BY <2>3, <2>6, <3>1, <3>5, <4>1 DEF IsInjective
        <4>2. CASE i > Len(order)
          <5>1. j > Len(order)
            BY <2>3, <3>1, <3>5, <4>2
          <5>2. tail[i - Len(order)] = tail[j - Len(order)]
            BY <3>5, <4>2, <5>1
          <5>3. i - Len(order) = j - Len(order)
            BY <3>4, <3>5, <4>2, <5>1, <5>2
          <5> QED
            BY <2>3, <3>1, <5>3
        <4> QED
          BY <2>3, <3>1, <4>1, <4>2
      <3>7. ScreensFirst(list)
        <4>1. Len(order) <= Len(list)
          BY <2>3, <3>1, <3>2
        <4>2. \A n \in 1..Len(order) + Len(tail) : list[n] \in Screen <=> n <= Len(order)
          BY <2>3, <3>1, <3>5
        <4> QED
          BY <2>3, <3>3, <4>1, <4>2 DEF ScreensFirst
      <3> QED
        BY <3>2, <3>6, <3>7 DEF IsRows
    <2> QED
      BY <2>8, <2>9
  <1>2. CASE "Monitor" \notin asked
    <2>1. list = <<"Virtual">> \/ list = <<>>
      BY <1>2 DEF OutputRows
    <2>2. <<"Virtual">> \in Seq(Row) /\ <<>> \in Seq(Row)
      BY DEF Row, MadeUp
    <2>3. \A x : /\ DOMAIN <<x>> = {1} /\ <<x>>[1] = x /\ Len(<<x>>) = 1
      OBVIOUS
    <2>4. "Virtual" \notin Screen
      BY ChooserAssumption
    <2>5. ScreensFirst(<<"Virtual">>)
      <3>1. \A n \in DOMAIN <<"Virtual">> : <<"Virtual">>[n] \in Screen <=> n <= 0
        BY <2>3, <2>4
      <3> QED
        BY <2>3, <3>1 DEF ScreensFirst
    <2>6. IsInjective(<<"Virtual">>)
      BY <2>3 DEF IsInjective
    <2>7. IsInjective(<<>>) /\ ScreensFirst(<<>>)
      BY DEF IsInjective, ScreensFirst
    <2> QED
      BY <2>1, <2>2, <2>5, <2>6, <2>7 DEF IsRows
  <1> QED
    BY <1>1, <1>2

\* Rows stay in order when one is taken out and when they are sorted anew.
LEMMA WithoutOne == ASSUME IsRows(rows), NEW s \in Screen PROVE IsRows(Without(s))
  <1>1. CASE s \notin Elements(rows)
    BY <1>1 DEF Without
  <1>2. CASE s \in Elements(rows)
    <2> DEFINE at == CHOOSE n \in DOMAIN rows : rows[n] = s
               list == Without(s)
               len == Len(rows)
    <2>1. rows \in Seq(Row) /\ DOMAIN rows = 1..len /\ len \in Nat
      BY DEF IsRows
    <2>2. at \in 1..len /\ rows[at] = s
      BY <1>2, <2>1 DEF Elements
    <2>3. list = [n \in 1..len-1 |-> IF n < at THEN rows[n] ELSE rows[n+1]]
      BY <1>2 DEF Without
    <2> HIDE DEF at, list, len
    <2> DEFINE From(n) == IF n < at THEN n ELSE n + 1
    <2>4. \A n \in 1..len-1 : From(n) \in 1..len /\ list[n] = rows[From(n)] /\ rows[From(n)] \in Row
      BY <2>1, <2>2, <2>3, ElementOfSeq DEF len
    <2>5. list \in Seq(Row) /\ Len(list) = len - 1 /\ DOMAIN list = 1..len-1
      <3>1. list \in [1..len-1 -> Row]
        BY <2>3, <2>4
      <3>2. len - 1 \in Nat
        BY <2>1, <2>2
      <3> QED
        BY <3>1, <3>2
    <2>6. IsInjective(list)
      <3> SUFFICES ASSUME NEW m \in 1..len-1, NEW n \in 1..len-1, list[m] = list[n] PROVE m = n
        BY <2>5 DEF IsInjective
      <3>1. From(m) = From(n)
        BY <2>1, <2>4 DEF IsRows, IsInjective
      <3> QED
        BY <2>1, <2>2, <3>1
    <2>7. ScreensFirst(list)
      <3>1. PICK k \in Nat : k <= len /\ \A n \in 1..len : rows[n] \in Screen <=> n <= k
        BY <2>1 DEF IsRows, ScreensFirst, len
      <3>2. at <= k
        BY <2>2, <3>1
      <3>3. k - 1 \in Nat /\ k - 1 <= Len(list)
        BY <2>1, <2>2, <2>5, <3>1, <3>2
      <3>4. ASSUME NEW n \in 1..len-1 PROVE list[n] \in Screen <=> n <= k - 1
        <4>1. From(n) <= k <=> n <= k - 1
          BY <2>1, <2>2, <3>2
        <4> QED
          BY <2>4, <3>1, <4>1
      <3> QED
        BY <2>5, <3>3, <3>4 DEF ScreensFirst
    <2> QED
      BY <2>5, <2>6, <2>7 DEF IsRows, list
  <1> QED
    BY <1>1, <1>2

LEMMA SortedAnew ==
    ASSUME IsRows(rows), NEW order \in Orders(Elements(rows) \cap Screen)
    PROVE  IsRows([n \in DOMAIN rows |-> IF rows[n] \in Screen THEN order[n] ELSE rows[n]])
  <1> DEFINE real == Elements(rows) \cap Screen
             list == [n \in DOMAIN rows |-> IF rows[n] \in Screen THEN order[n] ELSE rows[n]]
  <1>1. rows \in Seq(Row) /\ DOMAIN rows = 1..Len(rows) /\ Len(rows) \in Nat
    BY DEF IsRows
  <1>2. PICK k \in Nat : k <= Len(rows) /\ \A n \in 1..Len(rows) : rows[n] \in Screen <=> n <= k
    BY <1>1 DEF IsRows, ScreensFirst
  <1>3. IsFiniteSet(real)
    BY ChooserAssumption, FS_Subset
  <1>4. Cardinality(real) = k
    <2> DEFINE f == [n \in 1..k |-> rows[n]]
    <2>1. \A n \in 1..k : n \in 1..Len(rows) /\ rows[n] \in real
      BY <1>1, <1>2 DEF Elements
    <2>2. f \in [1..k -> real]
      BY <2>1
    <2>3. \A s \in real : \E n \in 1..k : f[n] = s
      <3> SUFFICES ASSUME NEW s \in real PROVE \E n \in 1..k : f[n] = s
        OBVIOUS
      <3>1. PICK n \in 1..Len(rows) : rows[n] = s
        BY <1>1 DEF Elements
      <3>2. n \in 1..k
        BY <1>1, <1>2, <3>1
      <3> QED
        BY <3>1, <3>2
    <2>4. \A m, n \in 1..k : f[m] = f[n] => m = n
      BY <1>1, <2>1 DEF IsRows, IsInjective
    <2>5. f \in Bijection(1..k, real)
      <3> HIDE DEF f, real
      <3>1. f \in Injection(1..k, real)
        BY <2>2, <2>4, Zenon DEF Injection, IsInjective
      <3>2. f \in Surjection(1..k, real)
        BY <2>2, <2>3, Zenon DEF Surjection
      <3> QED
        BY <3>1, <3>2 DEF Bijection
    <2>6. ExistsBijection(1..k, real)
      BY <2>5 DEF ExistsBijection
    <2> QED
      BY <2>6, FS_CountingElements
  <1>5. order \in Seq(real) /\ Len(order) = k /\ IsInjective(order) /\ DOMAIN order = 1..k
    <2>1. order \in Seq(real) /\ Len(order) = k /\ IsInjective(order)
      BY <1>3, <1>4, OrdersDistinct
    <2> QED
      BY <1>2, <2>1
  <1>6. \A n \in 1..k : order[n] \in real
    BY <1>5, ElementOfSeq
  <1> HIDE DEF real
  <1>7. real \subseteq Screen /\ Screen \subseteq Row
    BY DEF real, Row
  <1>8. ASSUME NEW n \in 1..Len(rows)
        PROVE  /\ n <= k => n \in 1..k /\ list[n] = order[n] /\ list[n] \in Screen
               /\ n > k => list[n] = rows[n] /\ list[n] \notin Screen
               /\ list[n] \in Row
    <2>1. rows[n] \in Row
      BY <1>1, ElementOfSeq
    <2> QED
      BY <1>1, <1>2, <1>6, <1>7, <2>1
  <1>9. list \in Seq(Row) /\ Len(list) = Len(rows) /\ DOMAIN list = 1..Len(rows)
    <2>1. list \in [1..Len(rows) -> Row]
      BY <1>1, <1>8
    <2> HIDE DEF list
    <2> QED
      BY <1>1, <2>1
  <1> HIDE DEF list
  <1>10. IsInjective(list)
    <2> SUFFICES ASSUME NEW m \in 1..Len(rows), NEW n \in 1..Len(rows), list[m] = list[n]
                 PROVE  m = n
      BY <1>9 DEF IsInjective
    <2>1. CASE m <= k
      BY <1>1, <1>2, <1>5, <1>8, <2>1 DEF IsInjective
    <2>2. CASE m > k
      BY <1>1, <1>2, <1>8, <2>2 DEF IsRows, IsInjective
    <2> QED
      BY <1>1, <1>2, <2>1, <2>2
  <1>11. ScreensFirst(list)
    BY <1>1, <1>2, <1>8, <1>9 DEF ScreensFirst
  <1> QED
    BY <1>9, <1>10, <1>11 DEF IsRows, list


\* No row is a window.
LEMMA RowsNoWindows ==
    ASSUME NEW list, IsRows(list), NEW n \in DOMAIN list
    PROVE  list[n] \notin ShareWindow
  <1>1. n \in 1..Len(list)
    BY DEF IsRows
  <1>2. list[n] \in Row
    BY <1>1, ElementOfSeq DEF IsRows
  <1> QED
    BY <1>2, ChooserAssumption DEF Row, MadeUp

\* Rows that become others take the numbers with them, or the history says so.
LEMMA RowsChange ==
    ASSUME ChooserInv, NEW new, IsRows(new), RowsBecome(new), screens' \subseteq screens, Living
    PROVE  ChooserInv'
  <1>1. /\ rows' = new /\ moved' = (moved \/ (new # rows /\ selectedRows # {}))
        /\ UNCHANGED <<multiple, shown, selectedRows, tickedWindows, choosing, shared, ticked>>
    BY DEF RowsBecome
  <1>2. SelectionInv'
    <2>1. CASE moved'
      BY <1>1, <2>1 DEF ChooserInv, SelectionInv
    <2>2. CASE ~moved' /\ selectedRows = {}
      BY <1>1, <2>2 DEF ChooserInv, SelectionInv
    <2>3. CASE ~moved' /\ new = rows
      BY <1>1, <2>3 DEF ChooserInv, SelectionInv
    <2> QED
      BY <1>1, <2>1, <2>2, <2>3
  <1> QED
    BY <1>1, <1>2 DEF ChooserInv, AtMostOne, Living

LEMMA OpenChooserStep == ASSUME ChooserInv, OpenChooser PROVE ChooserInv'
  <1>1. /\ rows' \in OutputRows(types')
        /\ selectedRows' = IF Len(rows') = 1 /\ WindowRows(types') = {} THEN {1} ELSE {}
        /\ tickedWindows' = {} /\ ticked' = {rows'[n] : n \in selectedRows'}
        /\ choosing' = "open" /\ ~moved'
        /\ UNCHANGED <<screens, shown>>
    BY DEF OpenChooser, ChooserInv
  <1>2. IsRows(rows')
    BY <1>1, RowsAtFirst DEF ChooserInv
  <1>3. selectedRows' \subseteq DOMAIN rows'
    BY <1>1, <1>2 DEF IsRows
  <1>4. \A n \in DOMAIN rows' : rows'[n] \notin ShareWindow
    BY <1>2, RowsNoWindows
  <1>5. SelectionInv'
    BY <1>1, <1>3, <1>4 DEF SelectionInv
  <1>6. AtMostOne'
    BY <1>1 DEF AtMostOne
  <1> QED
    BY <1>1, <1>2, <1>5, <1>6 DEF ChooserInv

\* Ticks of the user.
LEMMA TickStep ==
    ASSUME ChooserInv, UNCHANGED <<screens, shown, rows, multiple, shared>>,
           SelectionInv', ~multiple => AtMostOne', choosing' \in {"open", "editing", "accepted"}
    PROVE  ChooserInv'
  BY DEF ChooserInv

LEMMA ToggleRowStep == ASSUME ChooserInv, NEW n, ToggleRow(n) PROVE ChooserInv'
  <1>1. /\ multiple /\ n \in DOMAIN rows /\ choosing = "open"
        /\ UNCHANGED <<screens, shown, rows, multiple, shared, tickedWindows, choosing, moved>>
        /\ \/ n \in selectedRows /\ selectedRows' = selectedRows \ {n} /\ ticked' = ticked \ {rows[n]}
           \/ n \notin selectedRows /\ selectedRows' = selectedRows \cup {n}
              /\ ticked' = ticked \cup {rows[n]}
    BY DEF ToggleRow, modelVars
  <1>2. rows[n] \notin ShareWindow
    BY <1>1, RowsNoWindows DEF ChooserInv
  <1>3. \A m, k \in DOMAIN rows : rows[m] = rows[k] => m = k
    BY DEF ChooserInv, IsRows, IsInjective
  <1>4. tickedWindows' = ticked' \cap ShareWindow
    BY <1>1, <1>2 DEF ChooserInv, SelectionInv
  <1>5. ASSUME ~moved'
        PROVE  /\ selectedRows' \subseteq DOMAIN rows'
               /\ {rows'[m] : m \in selectedRows'} = ticked' \ ShareWindow
    <2>1. /\ selectedRows \subseteq DOMAIN rows
          /\ {rows[m] : m \in selectedRows} = ticked \ ShareWindow
      BY <1>1, <1>5 DEF ChooserInv, SelectionInv
    <2>2. CASE n \in selectedRows
      <3>1. {rows[m] : m \in selectedRows \ {n}} = {rows[m] : m \in selectedRows} \ {rows[n]}
        BY <1>1, <1>3, <2>1
      <3> QED
        BY <1>1, <2>1, <2>2, <3>1
    <2>3. CASE n \notin selectedRows
      <3>1. {rows[m] : m \in selectedRows \cup {n}} = {rows[m] : m \in selectedRows} \cup {rows[n]}
        OBVIOUS
      <3> QED
        BY <1>1, <1>2, <2>1, <2>3, <3>1
    <2> QED
      BY <2>2, <2>3
  <1> QED
    BY <1>1, <1>4, <1>5, TickStep DEF SelectionInv

LEMMA ToggleWindowStep == ASSUME ChooserInv, NEW w \in ShareWindow, ToggleWindow(w) PROVE ChooserInv'
  <1>1. /\ multiple /\ choosing = "open"
        /\ UNCHANGED <<screens, shown, rows, multiple, shared, selectedRows, choosing, moved>>
        /\ \/ tickedWindows' = tickedWindows \ {w} /\ ticked' = ticked \ {w}
           \/ tickedWindows' = tickedWindows \cup {w} /\ ticked' = ticked \cup {w}
    BY DEF ToggleWindow, modelVars
  <1>2. SelectionInv'
    BY <1>1 DEF ChooserInv, SelectionInv
  <1> QED
    BY <1>1, <1>2, TickStep

LEMMA SelectStep ==
    ASSUME ChooserInv, SelectAndAccept \/ AcceptSearch
    PROVE  ChooserInv'
  <1>1. /\ ~moved' /\ choosing = "open" /\ choosing' \in {"accepted", "editing"}
        /\ UNCHANGED <<screens, shown, rows, multiple, shared>>
    BY DEF SelectAndAccept, AcceptSearch, modelVars, Accepted
  <1>2. \/ \E n \in DOMAIN rows : SelectOnly({n}, {}) /\ ticked' = {rows[n]}
        \/ \E w \in WindowRows(types) : SelectOnly({}, {w}) /\ ticked' = {w}
    BY DEF SelectAndAccept, AcceptSearch
  <1>3. CASE \E n \in DOMAIN rows : SelectOnly({n}, {}) /\ ticked' = {rows[n]}
    <2>1. PICK n \in DOMAIN rows : selectedRows' = {n} /\ tickedWindows' = {} /\ ticked' = {rows[n]}
      BY <1>3 DEF SelectOnly
    <2>2. rows[n] \notin ShareWindow
      BY RowsNoWindows DEF ChooserInv
    <2>3. SelectionInv'
      BY <1>1, <2>1, <2>2 DEF SelectionInv
    <2>4. AtMostOne'
      BY <2>1 DEF AtMostOne
    <2> QED
      BY <1>1, <2>3, <2>4, TickStep
  <1>4. CASE \E w \in WindowRows(types) : SelectOnly({}, {w}) /\ ticked' = {w}
    <2>1. PICK w \in WindowRows(types) : selectedRows' = {} /\ tickedWindows' = {w} /\ ticked' = {w}
      BY <1>4 DEF SelectOnly
    <2>2. w \in ShareWindow
      BY DEF WindowRows, ChooserInv
    <2>3. SelectionInv'
      BY <1>1, <2>1, <2>2 DEF SelectionInv
    <2>4. AtMostOne'
      BY <2>1 DEF AtMostOne
    <2> QED
      BY <1>1, <2>3, <2>4, TickStep
  <1> QED
    BY <1>2, <1>3, <1>4

LEMMA ChooserStep == ChooserInv /\ [ChooserNext]_chooserVars => ChooserInv'
  <1> SUFFICES ASSUME ChooserInv, [ChooserNext]_chooserVars PROVE ChooserInv'
    OBVIOUS
  <1>1. ASSUME NEW s \in Screen, ScreenRemoved(s) PROVE ChooserInv'
    <2>1. RowsBecome(Without(s)) /\ screens' \subseteq screens /\ Living
      BY <1>1 DEF ScreenRemoved
    <2> QED
      BY <2>1, WithoutOne, RowsChange DEF ChooserInv
  <1>2. CASE OnOutputsChanged
    <2>1. PICK order \in Orders(Elements(rows) \cap Screen) :
             RowsBecome([n \in DOMAIN rows |-> IF rows[n] \in Screen THEN order[n] ELSE rows[n]])
      BY <1>2 DEF OnOutputsChanged
    <2>2. screens' \subseteq screens /\ Living
      BY <1>2 DEF OnOutputsChanged
    <2>3. IsRows([n \in DOMAIN rows |-> IF rows[n] \in Screen THEN order[n] ELSE rows[n]])
      BY SortedAnew DEF ChooserInv
    <2> QED
      BY <2>1, <2>2, <2>3, RowsChange
  <1>3. ASSUME NEW w \in ShareWindow, WindowOpens(w) \/ WindowCloses(w) PROVE ChooserInv'
    <2>1. /\ shown' \subseteq ShareWindow /\ choosing # "read"
          /\ UNCHANGED <<multiple, screens, rows, selectedRows, tickedWindows, ticked, moved, choosing>>
      BY <1>3 DEF WindowOpens, WindowCloses, ChooserInv, Living, selectionVars
    <2> QED
      BY <2>1 DEF ChooserInv, SelectionInv, AtMostOne
  <1>4. CASE Accept \/ RegionFinished \/ Reject
    <2>1. /\ choosing' \in {"open", "editing", "accepted", "rejected"}
          /\ UNCHANGED <<multiple, screens, shown, rows, selectedRows, tickedWindows, ticked, moved>>
      BY <1>4 DEF Accept, Accepted, RegionFinished, Reject, modelVars, selectionVars
    <2> QED
      BY <2>1 DEF ChooserInv, SelectionInv, AtMostOne
  <1>5. CASE ReadSelection
    <2>1. /\ choosing' = "read"
          /\ shared' = [outputs |-> SelectedOutputs, windows |-> tickedWindows \cap shown]
          /\ UNCHANGED <<multiple, screens, shown, rows, selectedRows, tickedWindows, ticked, moved>>
      BY <1>5 DEF ReadSelection, modelVars, selectionVars
    <2>2. SelectedOutputs' = SelectedOutputs
      BY <2>1 DEF SelectedOutputs, OutputAt
    <2> QED
      BY <2>1, <2>2 DEF ChooserInv, SelectionInv, AtMostOne
  <1>6. CASE UNCHANGED chooserVars
    BY <1>6 DEF chooserVars, ChooserInv, SelectionInv, AtMostOne, SelectedOutputs, OutputAt
  <1> QED
    BY <1>1, <1>2, <1>3, <1>4, <1>5, <1>6, OpenChooserStep, ToggleRowStep, ToggleWindowStep,
       SelectStep DEF ChooserNext

\* Start reads what the user ticked, of the windows those that are still there, and one
\* thing if only one was asked for.
THEOREM TicksAreShared == ChooserSpec => []TickedIsShared
  <1>1. ASSUME ChooserInit PROVE ChooserInv
    <2>1. rows = <<>> /\ DOMAIN rows = {}
      BY <1>1 DEF ChooserInit
    <2>2. IsRows(rows)
      BY <2>1 DEF IsRows, IsInjective, ScreensFirst
    <2>3. SelectionInv /\ AtMostOne
      BY <1>1, <2>1 DEF ChooserInit, SelectionInv, AtMostOne
    <2> QED
      BY <1>1, <2>2, <2>3 DEF ChooserInit, ChooserInv
  <1>2. ChooserInv => TickedIsShared
    <2> SUFFICES ASSUME ChooserInv, choosing = "read" PROVE TickedIsShared
      BY DEF TickedIsShared
    <2>1. shared.outputs = SelectedOutputs /\ shared.windows = tickedWindows \cap shown
      BY DEF ChooserInv
    <2>2. shared.windows = ticked \cap shown
      BY <2>1 DEF ChooserInv, SelectionInv
    <2>3. ~moved => shared.outputs = ticked \ ShareWindow
      BY <2>1 DEF ChooserInv, SelectionInv, SelectedOutputs, OutputAt
    <2>4. ASSUME ~multiple PROVE Cardinality(shared.outputs \cup shared.windows) <= 1
      <3>1. \E x : shared.outputs \cup shared.windows \subseteq {x}
        BY <2>1, <2>4 DEF ChooserInv, AtMostOne, SelectedOutputs
      <3>2. PICK x : shared.outputs \cup shared.windows \subseteq {x}
        BY <3>1
      <3>3. IsFiniteSet({x}) /\ Cardinality({x}) = 1
        BY FS_Singleton
      <3> QED
        BY <3>2, <3>3, FS_Subset
    <2> QED
      BY <2>2, <2>3, <2>4 DEF TickedIsShared
  <1> QED
    BY <1>1, <1>2, ChooserStep, PTL DEF ChooserSpec

-----------------------------------------------------------------------------
(* The print portal.                                                       *)

PrintSpec == PrintInit /\ [][PrintNext]_printVars

\* A printer that can be written down and set up again.
IsPrinter(p) ==
    /\ p = [orientation |-> p.orientation, duplex |-> p.duplex, range |-> p.range,
            pages |-> p.pages, sheet |-> p.sheet, layout |-> p.layout, paper |-> p.paper,
            file |-> p.file]
    /\ p.orientation \in {"Portrait", "Landscape"}
    /\ p.duplex \in {"DuplexNone", "DuplexShortSide", "DuplexLongSide"}
    /\ p.range \in {"AllPages", "Selection", "CurrentPage", "PageRange"}
    /\ p.paper # Custom => IdForPpdKey(KeyForPageSizeId(p.paper)) = p.paper

\* m_printers has, for each token that was given, the last call it was given to; and
\* while the clock is not set back tokens do not fall.
TokensInv ==
    /\ accepts \in Seq(PrintCall)
    /\ \A n \in DOMAIN accepts :
         /\ preparing[accepts[n]] = "accepted"
         /\ token[accepts[n]] \in DOMAIN printers
    /\ DOMAIN printers \subseteq 0..MaxClock
    /\ \A t \in DOMAIN printers :
         \E n \in DOMAIN accepts :
             /\ printers[t] = accepts[n] /\ token[accepts[n]] = t
             /\ \A k \in DOMAIN accepts : token[accepts[k]] = t => k <= n
    /\ steady => \A n \in DOMAIN accepts :
                   /\ token[accepts[n]] <= now
                   /\ \A k \in n..Len(accepts) : token[accepts[n]] <= token[accepts[k]]

PrintInv ==
    /\ preparing \in [PrintCall -> {"none", "shown", "accepted", "rejected"}]
    /\ printer = [c \in PrintCall |-> printer[c]]
    /\ token = [c \in PrintCall |-> token[c]]
    /\ now \in 0..MaxClock
    /\ \A c \in PrintCall : IsPrinter(printer[c])
    /\ TokensInv

LEMMA PaperTable ==
    /\ PageSizeId = 1..119 /\ Custom \in PageSizeId /\ PageSizes[Custom] = "Custom"
    /\ "A4" \in DOMAIN IdsByKey
  <1>1. DOMAIN PageSizes = 1..119 /\ PageSizes[8] = "A4" /\ PageSizes[32] = "Custom"
    BY DEF PageSizes
  <1>2. PageSizeId = 1..119 /\ 8 \in PageSizeId /\ 32 \in PageSizeId
    BY <1>1 DEF PageSizeId
  <1>3. Custom \in PageSizeId /\ PageSizes[Custom] = "Custom"
    BY <1>1, <1>2 DEF Custom
  <1>4. "A4" \in DOMAIN IdsByKey
    BY <1>1, <1>2 DEF IdsByKey
  <1> QED
    BY <1>2, <1>3, <1>4

\* An entry of the table is the first with its key.
LEMMA FirstByKey ==
    ASSUME NEW key \in DOMAIN IdsByKey
    PROVE  IdsByKey[key] \in PageSizeId /\ PageSizes[IdsByKey[key]] = key
  <1> DEFINE T == {id \in PageSizeId : PageSizes[id] = key}
  <1>1. T # {} /\ T \subseteq Nat
    BY PaperTable DEF IdsByKey
  <1>2. PICK id \in T : \A other \in T : id <= other
    <2> HIDE DEF T
    <2> QED
      BY <1>1, LeastNumber
  <1>3. id \in PageSizeId /\ PageSizes[id] = key /\ \A before \in 1..id-1 : PageSizes[before] # key
    BY <1>1, <1>2, PaperTable
  <1>4. IdsByKey[key] = CHOOSE i \in PageSizeId :
            PageSizes[i] = key /\ \A before \in 1..i-1 : PageSizes[before] # key
    BY DEF IdsByKey
  <1> QED
    BY <1>3, <1>4

\* The key of a paper that was set by its key leads back to it.
LEMMA KeysLeadBack ==
    /\ \A key : IdForPpdKey(key) # Custom =>
                  IdForPpdKey(KeyForPageSizeId(IdForPpdKey(key))) = IdForPpdKey(key)
    /\ IdForPpdKey(KeyForPageSizeId(A4)) = A4
  <1>1. ASSUME NEW key \in DOMAIN IdsByKey
        PROVE  IdForPpdKey(KeyForPageSizeId(IdsByKey[key])) = IdsByKey[key]
    BY FirstByKey DEF IdForPpdKey, KeyForPageSizeId
  <1> QED
    BY <1>1, PaperTable DEF IdForPpdKey, A4

\* What a call is set up with can be read back.
LEMMA Loaded ==
    ASSUME NEW setup \in Setup
    PROVE  IsPrinter(LoadPrinter(setup.settings, setup.page))
  <1> DEFINE p == LoadPrinter(setup.settings, setup.page)
  <1>1. p.orientation \in {"Portrait", "Landscape"}
    BY DEF LoadPrinter, Orientation
  <1>2. p.duplex \in {"DuplexNone", "DuplexShortSide", "DuplexLongSide"}
    BY PrintAssumption DEF LoadPrinter, PrintAssumption, Duplex, NewPrinter
  <1>3. p.range \in {"AllPages", "Selection", "CurrentPage", "PageRange"}
    BY PrintAssumption DEF LoadPrinter, PrintAssumption, PrintPages, NewPrinter
  <1>4. p.paper # Custom => IdForPpdKey(KeyForPageSizeId(p.paper)) = p.paper
    <2>1. p.paper = (IF Has(setup.page, "PPDName") THEN IdForPpdKey(setup.page["PPDName"])
                     ELSE IF Has(setup.page, "Name") THEN Custom ELSE A4)
      BY DEF LoadPrinter
    <2> QED
      BY <2>1, KeysLeadBack
  <1>5. p = [orientation |-> p.orientation, duplex |-> p.duplex, range |-> p.range,
             pages |-> p.pages, sheet |-> p.sheet, layout |-> p.layout, paper |-> p.paper,
             file |-> p.file]
    BY DEF LoadPrinter
  <1> HIDE DEF p
  <1> QED
    BY <1>1, <1>2, <1>3, <1>4, <1>5 DEF IsPrinter, p

\* What an application is told of a printer sets up the same one.
LEMMA ReadBack ==
    ASSUME NEW c, IsPrinter(printer[c])
    PROVE  Described(c)
  <1> DEFINE p == printer[c]
             s == SettingsOf(p)
             g == PageSetupOf(p)
             again == LoadPrinter(s, g)
  <1>1. Has(g, "Orientation") /\ g["Orientation"] = IF p.orientation = "Landscape" THEN "landscape" ELSE "portrait"
    BY DEF PageSetupOf, Both, Has
  <1>2. IF p.paper = Custom THEN Has(g, "Name") /\ ~Has(g, "PPDName")
        ELSE Has(g, "PPDName") /\ g["PPDName"] = KeyForPageSizeId(p.paper)
    BY DEF PageSetupOf, Both, Has
  <1>3. Has(s, "duplex") /\ s["duplex"] = Named(Duplex, p.duplex)
    BY DEF SettingsOf, Both, Has
  <1>4. Has(s, "print-pages") /\ s["print-pages"] = Named(PrintPages, p.range)
    BY DEF SettingsOf, Both, Has
  <1>5. Has(s, "number-up") /\ s["number-up"] = p.sheet
    BY DEF SettingsOf, Both, Has, Only
  <1>6. Has(s, "number-up-layout") /\ s["number-up-layout"] = p.layout
    BY DEF SettingsOf, Both, Has, Only
  <1>7. Duplex[Named(Duplex, p.duplex)] = p.duplex
    <2>1. \E name \in DOMAIN Duplex : Duplex[name] = p.duplex
      BY DEF IsPrinter, Duplex
    <2> QED
      BY <2>1 DEF Named
  <1>8. PrintPages[Named(PrintPages, p.range)] = p.range
    <2>1. \E name \in DOMAIN PrintPages : PrintPages[name] = p.range
      BY DEF IsPrinter, PrintPages
    <2> QED
      BY <2>1 DEF Named
  <1>9. Orientation(s, g) = p.orientation
    <2> HIDE DEF s, g
    <2> QED
      BY <1>1 DEF Orientation, Landscape, IsPrinter
  <1>10. /\ again.orientation = p.orientation /\ again.duplex = p.duplex /\ again.range = p.range
         /\ again.sheet = p.sheet /\ again.layout = p.layout /\ again.paper = p.paper
    <2> HIDE DEF s, g
    <2> QED
      BY <1>2, <1>3, <1>4, <1>5, <1>6, <1>7, <1>8, <1>9 DEF LoadPrinter, IsPrinter
  <1>11. again = [orientation |-> again.orientation, duplex |-> again.duplex, range |-> again.range,
                  pages |-> again.pages, sheet |-> again.sheet, layout |-> again.layout,
                  paper |-> again.paper, file |-> again.file]
    BY DEF LoadPrinter
  <1> HIDE DEF s, g, again
  <1>12. again = [p EXCEPT !.pages = again.pages, !.file = again.file]
    BY <1>10, <1>11 DEF IsPrinter
  <1> QED
    BY <1>12 DEF Described, again, s, g

LEMMA PrintInvInit == PrintInit => PrintInv
  <1>1. IsPrinter(NewPrinter)
    BY KeysLeadBack DEF IsPrinter, NewPrinter
  <1> QED
    BY <1>1, PrintAssumption DEF PrintInit, PrintInv, TokensInv, PrintAssumption

LEMMA AcceptPrintStep == ASSUME PrintInv, NEW c \in PrintCall, AcceptPrint(c) PROVE PrintInv'
  <1>1. /\ preparing[c] = "shown" /\ preparing' = [preparing EXCEPT ![c] = "accepted"]
        /\ DOMAIN printers' = DOMAIN printers \cup {now} /\ printers'[now] = c
        /\ \A t \in DOMAIN printers \ {now} : printers'[t] = printers[t]
        /\ token' = [token EXCEPT ![c] = now] /\ accepts' = Append(accepts, c)
        /\ now' = now /\ steady' = steady
    BY DEF AcceptPrint, Insert
  <1>2. ASSUME NEW d \in PrintCall PROVE IsPrinter(printer'[d])
    BY DEF AcceptPrint, PrintInv, IsPrinter
  <1>3. printer' = [d \in PrintCall |-> printer'[d]]
    BY DEF AcceptPrint, PrintInv
  <1>4. preparing' \in [PrintCall -> {"none", "shown", "accepted", "rejected"}] /\ token' = [d \in PrintCall |-> token'[d]]
    BY <1>1 DEF PrintInv
  <1>5. /\ accepts \in Seq(PrintCall) /\ accepts' \in Seq(PrintCall)
        /\ Len(accepts) \in Nat /\ Len(accepts') = Len(accepts) + 1
        /\ DOMAIN accepts = 1..Len(accepts) /\ DOMAIN accepts' = 1..Len(accepts) + 1
        /\ accepts'[Len(accepts) + 1] = c
        /\ \A n \in DOMAIN accepts : accepts'[n] = accepts[n] /\ accepts[n] \in PrintCall /\ accepts[n] # c
    <2>1. accepts \in Seq(PrintCall)
      BY DEF PrintInv, TokensInv
    <2>2. \A n \in DOMAIN accepts : preparing[accepts[n]] = "accepted"
      BY DEF PrintInv, TokensInv
    <2>3. /\ accepts' \in Seq(PrintCall) /\ Len(accepts) \in Nat /\ Len(accepts') = Len(accepts) + 1
          /\ DOMAIN accepts = 1..Len(accepts) /\ DOMAIN accepts' = 1..Len(accepts) + 1
          /\ accepts'[Len(accepts) + 1] = c
          /\ \A n \in DOMAIN accepts : accepts'[n] = accepts[n] /\ accepts[n] \in PrintCall
      BY <1>1, <2>1
    <2> QED
      BY <1>1, <2>1, <2>2, <2>3
  <1>6. /\ token'[c] = now
        /\ \A n \in DOMAIN accepts : token'[accepts'[n]] = token[accepts[n]]
    BY <1>1, <1>5 DEF PrintInv
  <1>7. now \in 0..MaxClock /\ MaxClock \in Nat
    BY PrintAssumption DEF PrintInv, PrintAssumption
  <1>8. ASSUME NEW n \in DOMAIN accepts' PROVE preparing'[accepts'[n]] = "accepted" /\ token'[accepts'[n]] \in DOMAIN printers'
    <2>1. \A d \in PrintCall : preparing'[d] = IF d = c THEN "accepted" ELSE preparing[d]
      BY <1>1 DEF PrintInv
    <2>2. \A k \in DOMAIN accepts : preparing[accepts[k]] = "accepted" /\ token[accepts[k]] \in DOMAIN printers
      BY DEF PrintInv, TokensInv
    <2>3. CASE n \in DOMAIN accepts
      BY <1>1, <1>5, <1>6, <2>1, <2>2, <2>3
    <2>4. CASE n = Len(accepts) + 1
      BY <1>1, <1>5, <1>6, <2>1, <2>4
    <2> QED
      BY <1>5, <2>3, <2>4
  <1>9. ASSUME NEW t \in DOMAIN printers'
        PROVE  \E n \in DOMAIN accepts' :
                 /\ printers'[t] = accepts'[n] /\ token'[accepts'[n]] = t
                 /\ \A k \in DOMAIN accepts' : token'[accepts'[k]] = t => k <= n
    <2>1. CASE t = now
      BY <1>1, <1>5, <1>6, <2>1
    <2>2. CASE t # now
      <3>1. t \in DOMAIN printers
        BY <1>1, <2>2
      <3>2. PICK n \in DOMAIN accepts :
               /\ printers[t] = accepts[n] /\ token[accepts[n]] = t
               /\ \A k \in DOMAIN accepts : token[accepts[k]] = t => k <= n
        BY <3>1 DEF PrintInv, TokensInv
      <3> QED
        BY <1>1, <1>5, <1>6, <2>2, <3>1, <3>2
    <2> QED
      BY <2>1, <2>2
  <1>10. ASSUME steady', NEW n \in DOMAIN accepts'
         PROVE  /\ token'[accepts'[n]] <= now'
                /\ \A k \in n..Len(accepts') : token'[accepts'[n]] <= token'[accepts'[k]]
    <2>1. CASE n \in DOMAIN accepts
      <3>1. /\ token[accepts[n]] <= now
            /\ \A k \in n..Len(accepts) : token[accepts[n]] <= token[accepts[k]]
        BY <1>1, <1>10, <2>1 DEF PrintInv, TokensInv
      <3>2. ASSUME NEW k \in n..Len(accepts') PROVE token'[accepts'[n]] <= token'[accepts'[k]]
        <4>1. CASE k \in n..Len(accepts)
          BY <1>5, <1>6, <2>1, <3>1, <4>1
        <4>2. CASE k = Len(accepts) + 1
          BY <1>5, <1>6, <2>1, <3>1, <4>2
        <4> QED
          BY <1>5, <2>1, <4>1, <4>2
      <3> QED
        BY <1>1, <1>6, <2>1, <3>1, <3>2
    <2>2. CASE n = Len(accepts) + 1
      BY <1>1, <1>5, <1>6, <1>7, <2>2
    <2> QED
      BY <1>5, <2>1, <2>2
  <1>11. DOMAIN printers' \subseteq 0..MaxClock
    BY <1>1, <1>7 DEF PrintInv, TokensInv
  <1>12. TokensInv'
    BY <1>5, <1>8, <1>9, <1>10, <1>11 DEF TokensInv
  <1> QED
    BY <1>1, <1>2, <1>3, <1>4, <1>7, <1>12 DEF PrintInv

\* A call that is not accepted is not one of those that were.
LEMMA OthersStay ==
    ASSUME PrintInv, NEW c \in PrintCall, preparing[c] # "accepted", NEW as,
           preparing' = [preparing EXCEPT ![c] = as]
    PROVE  \A n \in DOMAIN accepts : accepts[n] # c /\ preparing'[accepts[n]] = "accepted"
  <1>1. accepts \in Seq(PrintCall) /\ preparing \in [PrintCall -> {"none", "shown", "accepted", "rejected"}]
    BY DEF PrintInv, TokensInv
  <1>2. \A n \in DOMAIN accepts : preparing[accepts[n]] = "accepted"
    BY DEF PrintInv, TokensInv
  <1>3. \A n \in DOMAIN accepts : accepts[n] \in PrintCall
    BY <1>1, ElementOfSeq
  <1> QED
    BY <1>1, <1>2, <1>3

LEMMA PrintStep == PrintInv /\ [PrintNext]_printVars => PrintInv'
  <1> SUFFICES ASSUME PrintInv, [PrintNext]_printVars PROVE PrintInv'
    OBVIOUS
  <1>1. ASSUME NEW c \in PrintCall, NEW setup \in Setup, PreparePrint(c, setup) PROVE PrintInv'
    <2>1. /\ preparing[c] = "none" /\ preparing' = [preparing EXCEPT ![c] = "shown"]
          /\ printer' = [printer EXCEPT ![c] = LoadPrinter(setup.settings, setup.page)]
          /\ UNCHANGED <<printers, now, accepts, token, steady>>
      BY <1>1 DEF PreparePrint
    <2>2. \A d \in PrintCall : IsPrinter(printer'[d])
      BY <2>1, Loaded DEF PrintInv
    <2>3. \A n \in DOMAIN accepts : accepts[n] # c /\ preparing'[accepts[n]] = "accepted"
      BY <2>1, OthersStay
    <2>4. TokensInv'
      BY <2>1, <2>3 DEF PrintInv, TokensInv
    <2> QED
      BY <2>1, <2>2, <2>4 DEF PrintInv
  <1>2. ASSUME NEW c \in PrintCall, RejectPrint(c) PROVE PrintInv'
    <2>1. /\ preparing[c] = "shown" /\ preparing' = [preparing EXCEPT ![c] = "rejected"]
          /\ UNCHANGED <<printer, printers, now, accepts, token, steady>>
      BY <1>2 DEF RejectPrint
    <2>2. \A n \in DOMAIN accepts : accepts[n] # c /\ preparing'[accepts[n]] = "accepted"
      BY <2>1, OthersStay
    <2>3. TokensInv'
      BY <2>1, <2>2 DEF PrintInv, TokensInv
    <2> QED
      BY <2>1, <2>3 DEF PrintInv
  <1>3. ASSUME NEW t, PrintDocument(t) PROVE PrintInv'
    BY <1>3 DEF PrintDocument, PrintInv, TokensInv
  <1>4. ASSUME NEW t \in 0..MaxClock, SetClock(t) PROVE PrintInv'
    <2>1. /\ now' = t /\ steady' = (steady /\ t >= now)
          /\ UNCHANGED <<preparing, printer, printers, accepts, token>>
      BY <1>4 DEF SetClock
    <2>2. steady' => steady /\ t >= now
      BY <2>1
    <2>3. ASSUME steady', NEW n \in DOMAIN accepts PROVE token[accepts[n]] <= t
      <3>1. token[accepts[n]] \in 0..MaxClock /\ token[accepts[n]] <= now /\ now \in 0..MaxClock
        BY <2>2, <2>3 DEF PrintInv, TokensInv
      <3> QED
        BY <2>2, <2>3, <3>1, PrintAssumption DEF PrintAssumption
    <2>4. TokensInv'
      BY <2>1, <2>2, <2>3 DEF PrintInv, TokensInv
    <2> QED
      BY <2>1, <2>4 DEF PrintInv
  <1>5. CASE UNCHANGED printVars
    BY <1>5 DEF printVars, PrintInv, TokensInv
  <1> QED
    BY <1>1, <1>2, <1>3, <1>4, <1>5, AcceptPrintStep DEF PrintNext

LEMMA PrinterOfToken ==
    ASSUME PrintInv, NEW t \in 0..MaxClock \cup {NoToken}, NEW c \in PrinterFor(t)
    PROVE  LET Latest(calls) == accepts[CHOOSE n \in calls : \A k \in calls : k <= n]
           IN  /\ c \in PrintCall
               /\ t # NoToken => c = Latest({n \in DOMAIN accepts : token[accepts[n]] = t})
               /\ t = NoToken /\ steady => c = Latest(DOMAIN accepts)
  <1> DEFINE Latest(calls) == CHOOSE n \in calls : \A k \in calls : k <= n
  <1>1. /\ accepts \in Seq(PrintCall) /\ Len(accepts) \in Nat /\ DOMAIN accepts = 1..Len(accepts)
        /\ MaxClock \in Nat /\ DOMAIN printers \subseteq 0..MaxClock
    <2>1. accepts \in Seq(PrintCall) /\ DOMAIN printers \subseteq 0..MaxClock
      BY DEF PrintInv, TokensInv
    <2> QED
      BY <2>1, PrintAssumption DEF PrintAssumption
  <1>2. ASSUME NEW calls, calls \subseteq Nat, NEW n \in calls, \A k \in calls : k <= n
        PROVE  Latest(calls) = n
    <2>1. Latest(calls) \in calls /\ \A k \in calls : k <= Latest(calls)
      BY <1>2
    <2> HIDE DEF Latest
    <2>2. Latest(calls) \in Nat /\ n \in Nat /\ n <= Latest(calls) /\ Latest(calls) <= n
      BY <1>2, <2>1
    <2> QED
      BY <2>2
  <1>3. PICK u \in DOMAIN printers : c = printers[u] /\ IF t # NoToken THEN u = t ELSE \A w \in DOMAIN printers : w <= u
    BY DEF PrinterFor
  <1>4. PICK n \in DOMAIN accepts :
           /\ c = accepts[n] /\ token[accepts[n]] = u
           /\ \A k \in DOMAIN accepts : token[accepts[k]] = u => k <= n
    BY <1>3 DEF PrintInv, TokensInv
  <1>5. ASSUME t # NoToken PROVE Latest({k \in DOMAIN accepts : token[accepts[k]] = t}) = n
    <2>1. u = t
      BY <1>3, <1>5
    <2>2. {k \in DOMAIN accepts : token[accepts[k]] = t} \subseteq Nat
      BY <1>1
    <2> HIDE DEF Latest
    <2> QED
      BY <1>2, <1>4, <2>1, <2>2
  <1>6. ASSUME t = NoToken, steady PROVE Latest(DOMAIN accepts) = n
    <2> DEFINE z == Len(accepts)
    <2>1. z \in DOMAIN accepts /\ n \in Nat /\ z \in n..Len(accepts)
      BY <1>1, <1>4
    <2>2. token[accepts[n]] <= token[accepts[z]] /\ token[accepts[z]] \in DOMAIN printers
      BY <1>4, <1>6, <2>1 DEF PrintInv, TokensInv
    <2>3. token[accepts[z]] <= u
      BY <1>3, <1>6, <2>2
    <2>4. token[accepts[z]] = u
      BY <1>1, <1>4, <2>2, <2>3
    <2>5. z = n
      BY <1>1, <1>4, <2>1, <2>4
    <2>6. \A k \in DOMAIN accepts : k <= n
      BY <1>1, <2>5
    <2>7. DOMAIN accepts \subseteq Nat
      BY <1>1
    <2> HIDE DEF Latest
    <2> QED
      BY <1>2, <1>4, <2>6, <2>7
  <1> HIDE DEF Latest
  <1>7. accepts[n] \in PrintCall
    BY <1>1, <1>4
  <1> QED
    BY <1>4, <1>5, <1>6, <1>7 DEF Latest

\* PrintedAsPrepared: whatever jobs are prepared, accepted and printed in any order, a
\* document is printed with the printer of the dialog whose token it names, the later of
\* two of one second, and that printer is as PreparePrint told the application; a
\* document without a token goes to the printer accepted last, unless the clock has been
\* set back.  For any settings of the values that are documented.
THEOREM PreparedIsPrinted == PrintSpec => PrintedAsPrepared
  <1>1. PrintInv /\ [PrintNext]_printVars => [PrintsAsPrepared]_printVars
    <2> SUFFICES ASSUME PrintInv, PrintNext, printed' # printed, printed'.call # "none"
                 PROVE  PrintsAsPrepared
      BY DEF PrintsAsPrepared
    <2>1. PICK t \in 0..MaxClock \cup {NoToken} : PrintDocument(t)
      BY DEF PrintNext, PreparePrint, AcceptPrint, RejectPrint, SetClock
    <2>2. printed'.by = t /\ printed'.call \in PrinterFor(t)
      <3>1. CASE PrinterFor(t) = {}
        BY <2>1, <3>1 DEF PrintDocument
      <3>2. ASSUME NEW c \in PrinterFor(t), PrintWith(t, c) PROVE printed'.by = t /\ printed'.call = c
        BY <3>2 DEF PrintWith
      <3> QED
        BY <2>1, <3>1, <3>2 DEF PrintDocument
    <2>3. UNCHANGED <<printer, accepts, token, steady>>
      BY <2>1 DEF PrintDocument
    <2>4. Described(printed'.call)
      BY <2>2, PrinterOfToken, ReadBack DEF PrintInv
    <2> QED
      BY <2>2, <2>4, PrinterOfToken DEF PrintsAsPrepared
  <1> QED
    BY <1>1, PrintInvInit, PrintStep, PTL DEF PrintSpec, PrintedAsPrepared

-----------------------------------------------------------------------------
(* Which lines can be barriers.                                            *)

BarriersSpec == BarriersInit /\ [][BarriersNext]_barrierVars

Rectangle == [x : Int, y : Int, w : Nat \ {0}, h : Nat \ {0}]
Line == [x1 : Int, y1 : Int, x2 : Int, y2 : Int]

\* Screens that do not overlap.
IsLayout(screenList) ==
    /\ screenList \in Seq(Rectangle)
    /\ \A n, k \in DOMAIN screenList : n # k => Separate(screenList[n], screenList[k])

\* Pixel (x, y) is of screen r.
Shows(r, x, y) == r.x <= x /\ x < RightEdge(r) /\ r.y <= y /\ y <= Bottom(r)

\* Upright line l, from above to below, has the whole side of a screen at offset o (-1 left
\* of it, 0 right of it), and no screen on the other side.
Guards(l, screenList, o) ==
    /\ \A n \in DOMAIN screenList, y \in l.y1..l.y2 : ~Shows(screenList[n], l.x1 - 1 - o, y)
    /\ \E n \in DOMAIN screenList : /\ Fills(l, screenList[n])
                                    /\ Shows(screenList[n], l.x1 + o, l.y1)

\* A screen of which a line is the side is the only one the line touches.
LEMMA OnlyOneTouched ==
    ASSUME NEW screenList, IsLayout(screenList), NEW l \in Line, l.y1 <= l.y2,
           NEW o \in {-1, 0}, NEW n \in DOMAIN screenList,
           Fills(l, screenList[n]), Shows(screenList[n], l.x1 + o, l.y1),
           \A k \in DOMAIN screenList, y \in l.y1..l.y2 : ~Shows(screenList[k], l.x1 - 1 - o, y)
    PROVE  /\ Touching(l, screenList) = {n}
           /\ IF o = 0 THEN l.x1 = screenList[n].x ELSE l.x1 = RightEdge(screenList[n])
  <1> DEFINE r == screenList[n]
  <1>1. \A k \in DOMAIN screenList : screenList[k] \in Rectangle
    BY ElementOfSeq DEF IsLayout
  <1>2. /\ r.x \in Int /\ r.y \in Int /\ r.w \in Nat \ {0} /\ r.h \in Nat \ {0}
        /\ l.x1 \in Int /\ l.y1 \in Int /\ l.y2 \in Int
    BY <1>1 DEF Rectangle, Line
  <1>3. l.y1 = r.y /\ l.y2 = r.y + r.h - 1 /\ r.x <= l.x1 + o /\ l.x1 + o < r.x + r.w
    BY DEF Fills, Shows, Bottom, RightEdge
  <1>4. ~(r.x <= l.x1 - 1 - o /\ l.x1 - 1 - o < r.x + r.w)
    <2>1. l.y1 \in l.y1..l.y2
      BY <1>2
    <2>2. ~Shows(r, l.x1 - 1 - o, l.y1)
      BY <2>1
    <2> QED
      BY <1>2, <1>3, <2>2 DEF Shows, Bottom, RightEdge
  <1>5. IF o = 0 THEN l.x1 = r.x ELSE l.x1 = RightEdge(r)
    <2> HIDE DEF r
    <2>1. CASE o = 0
      BY <1>2, <1>3, <1>4, <2>1
    <2>2. CASE o = -1
      BY <1>2, <1>3, <1>4, <2>2 DEF RightEdge
    <2> QED
      BY <2>1, <2>2
  <1>6. n \in Touching(l, screenList)
    BY <1>2, <1>3, <1>5 DEF Touching, Bottom, RightEdge
  <1>7. ASSUME NEW k \in Touching(l, screenList), k # n PROVE FALSE
    <2> DEFINE q == screenList[k]
               top == IF q.y <= l.y1 THEN l.y1 ELSE q.y
    <2>1. /\ k \in DOMAIN screenList /\ l.y1 <= q.y + q.h - 1 /\ q.y <= l.y2
          /\ l.x1 = q.x \/ l.x1 = q.x + q.w
      BY DEF Touching, Bottom, RightEdge
    <2>2. q.x \in Int /\ q.y \in Int /\ q.w \in Nat \ {0} /\ q.h \in Nat \ {0}
      BY <1>1, <2>1 DEF Rectangle
    <2>3. Separate(q, r)
      BY <1>7, <2>1 DEF IsLayout
    <2>4. ~Shows(q, l.x1 - 1 - o, top)
      <3>1. top \in l.y1..l.y2
        BY <1>2, <2>1, <2>2
      <3> QED
        BY <2>1, <3>1
    <2> HIDE DEF q, r
    <2>5. ~(q.x <= l.x1 - 1 - o /\ l.x1 - 1 - o < q.x + q.w)
      BY <1>2, <2>1, <2>2, <2>4 DEF Shows, Bottom, RightEdge, top
    <2>6. q.x + q.w <= r.x \/ r.x + r.w <= q.x
      BY <1>2, <1>3, <2>1, <2>2, <2>3 DEF Separate
    <2>7. CASE o = 0
      BY <1>2, <1>5, <2>1, <2>2, <2>5, <2>6, <2>7
    <2>8. CASE o = -1
      BY <1>2, <1>5, <2>1, <2>2, <2>5, <2>6, <2>8 DEF RightEdge
    <2> QED
      BY <2>7, <2>8
  <1> QED
    BY <1>5, <1>6, <1>7

\* Where one screen only is touched, and filled, nothing is beyond.
LEMMA NothingBeyond ==
    ASSUME NEW screenList, IsLayout(screenList), NEW l \in Line, l.y1 <= l.y2,
           NEW n \in DOMAIN screenList, Touching(l, screenList) = {n}, Fills(l, screenList[n])
    PROVE  Guards(l, screenList, IF l.x1 = RightEdge(screenList[n]) THEN -1 ELSE 0)
  <1> DEFINE r == screenList[n]
             o == IF l.x1 = RightEdge(r) THEN -1 ELSE 0
  <1>1. \A k \in DOMAIN screenList : screenList[k] \in Rectangle
    BY ElementOfSeq DEF IsLayout
  <1>2. /\ r.x \in Int /\ r.y \in Int /\ r.w \in Nat \ {0} /\ r.h \in Nat \ {0}
        /\ l.x1 \in Int /\ l.y1 \in Int /\ l.y2 \in Int
    BY <1>1 DEF Rectangle, Line
  <1>3. l.y1 = r.y /\ l.y2 = r.y + r.h - 1 /\ l.x1 \in {r.x, r.x + r.w}
    BY DEF Fills, Touching, Bottom, RightEdge
  <1>4. Shows(r, l.x1 + o, l.y1)
    <2> HIDE DEF r
    <2> QED
      BY <1>2, <1>3 DEF Shows, Bottom, RightEdge, o
  <1>5. ASSUME NEW k \in DOMAIN screenList, NEW y \in l.y1..l.y2, Shows(screenList[k], l.x1 - 1 - o, y)
        PROVE  FALSE
    <2> DEFINE q == screenList[k]
    <2>1. q.x \in Int /\ q.y \in Int /\ q.w \in Nat \ {0} /\ q.h \in Nat \ {0} /\ y \in Int
      BY <1>1, <1>2 DEF Rectangle
    <2>2. q.x <= l.x1 - 1 - o /\ l.x1 - 1 - o < q.x + q.w /\ q.y <= y /\ y <= q.y + q.h - 1
      BY <1>5 DEF Shows, Bottom, RightEdge
    <2>3. k # n
      <3> SUFFICES ASSUME k = n PROVE FALSE
        OBVIOUS
      <3>1. r.x <= l.x1 - 1 - o /\ l.x1 - 1 - o < r.x + r.w
        BY <2>2
      <3> HIDE DEF r
      <3> QED
        BY <1>2, <1>3, <3>1 DEF o, RightEdge
    <2>4. Separate(q, r)
      BY <2>3 DEF IsLayout
    <2>5. k \notin Touching(l, screenList)
      BY <2>3
    <2>6. ~(l.y1 <= q.y + q.h - 1 /\ q.y <= l.y2 /\ l.x1 \in {q.x, q.x + q.w})
      BY <2>5 DEF Touching, Bottom, RightEdge
    <2> HIDE DEF q, r
    <2>7. l.y1 <= q.y + q.h - 1 /\ q.y <= l.y2
      BY <1>2, <2>1, <2>2
    <2>8. q.x + q.w <= r.x \/ r.x + r.w <= q.x
      BY <1>2, <1>3, <2>1, <2>2, <2>4 DEF Separate
    <2> QED
      BY <1>2, <1>3, <2>1, <2>2, <2>6, <2>7, <2>8 DEF o, RightEdge
  <1>6. Fills(l, r)
    OBVIOUS
  <1> QED
    BY <1>4, <1>5, <1>6 DEF Guards

\* checkAndMakeBarrier finds the offset at which an upright line has a side, if there is one.
LEMMA UprightGuards ==
    ASSUME NEW screenList, IsLayout(screenList), NEW l \in Line, l.y1 <= l.y2, l.x1 = l.x2
    PROVE  /\ Upright(l, screenList).failure = "none" <=> \E o \in {-1, 0} : Guards(l, screenList, o)
           /\ \A o \in {-1, 0} : Guards(l, screenList, o) =>
                Upright(l, screenList).line = [l EXCEPT !.x1 = l.x1 + o, !.x2 = l.x1 + o]
  <1> DEFINE touching == Touching(l, screenList)
             found == screenList[CHOOSE n \in touching : TRUE]
             at == IF l.x1 = RightEdge(found) THEN l.x1 - 1 ELSE l.x1
  <1>1. ASSUME NEW o \in {-1, 0}, Guards(l, screenList, o)
        PROVE  Upright(l, screenList) = Made([l EXCEPT !.x1 = l.x1 + o, !.x2 = l.x1 + o])
    <2>1. PICK n \in DOMAIN screenList : Fills(l, screenList[n]) /\ Shows(screenList[n], l.x1 + o, l.y1)
      BY <1>1 DEF Guards
    <2>2. /\ touching = {n}
          /\ IF o = 0 THEN l.x1 = screenList[n].x ELSE l.x1 = RightEdge(screenList[n])
      BY <1>1, <2>1, OnlyOneTouched DEF Guards
    <2>3. found = screenList[n]
      BY <2>2
    <2>4. screenList[n] \in Rectangle
      BY ElementOfSeq DEF IsLayout
    <2>5. at = l.x1 + o
      BY <2>2, <2>3, <2>4 DEF RightEdge, Rectangle, Line
    <2>6. \A k \in touching : touching = {k} /\ Fills(l, found)
      BY <2>1, <2>2, <2>3
    <2>7. touching # {}
      BY <2>2
    <2> QED
      BY <2>5, <2>6, <2>7 DEF Upright
  <1>2. ASSUME Upright(l, screenList).failure = "none" PROVE \E o \in {-1, 0} : Guards(l, screenList, o)
    <2>1. touching # {} /\ \A n \in touching : touching = {n} /\ Fills(l, found)
      BY <1>2 DEF Upright, Failure
    <2>2. PICK n \in touching : TRUE
      BY <2>1
    <2>3. touching = {n} /\ found = screenList[n] /\ Fills(l, screenList[n]) /\ n \in DOMAIN screenList
      BY <2>1, <2>2 DEF Touching
    <2> QED
      BY <2>3, NothingBeyond
  <1> QED
    BY <1>1, <1>2 DEF Made

LEMMA PixelShown ==
    ASSUME NEW r \in Rectangle, NEW p
    PROVE  p \in Pixels(r) <=> p \in Int \X Int /\ Shows(r, p[1], p[2])
  BY DEF Pixels, Shows, Bottom, RightEdge, Rectangle

LEMMA DesktopShown ==
    ASSUME layout \in Seq(Rectangle), NEW p
    PROVE  p \in Desktop <=> p \in Int \X Int /\ \E n \in DOMAIN layout : Shows(layout[n], p[1], p[2])
  <1>1. \A n \in DOMAIN layout : layout[n] \in Rectangle
    BY ElementOfSeq
  <1> QED
    BY <1>1, PixelShown DEF Desktop

\* What a column and a row of pixels is to a screen.
LEMMA ColumnOfPixels ==
    ASSUME NEW r \in Rectangle, NEW v \in Int, NEW a \in Int, NEW b \in Int, a <= b
    PROVE  ({v} \X (a..b) = {p \in Pixels(r) : p[1] = v}) <=> (a = r.y /\ b = Bottom(r) /\ Shows(r, v, a))
  <1>1. r.x \in Int /\ r.y \in Int /\ r.w \in Nat \ {0} /\ r.h \in Nat \ {0} /\ Bottom(r) \in Int /\ r.y <= Bottom(r)
    BY DEF Rectangle, Bottom
  <1>2. ASSUME {v} \X (a..b) = {p \in Pixels(r) : p[1] = v}
        PROVE  a = r.y /\ b = Bottom(r) /\ Shows(r, v, a)
    <2>1. <<v, a>> \in {v} \X (a..b) /\ <<v, b>> \in {v} \X (a..b)
      OBVIOUS
    <2>2. <<v, a>> \in Pixels(r) /\ <<v, b>> \in Pixels(r)
      BY <1>2, <2>1
    <2>3. Shows(r, v, a) /\ Shows(r, v, b)
      BY <2>2, PixelShown
    <2>4. Shows(r, v, r.y) /\ Shows(r, v, Bottom(r))
      BY <1>1, <2>3 DEF Shows
    <2>5. <<v, r.y>> \in {v} \X (a..b) /\ <<v, Bottom(r)>> \in {v} \X (a..b)
      <3>1. <<v, r.y>> \in Pixels(r) /\ <<v, Bottom(r)>> \in Pixels(r)
        BY <1>1, <2>4, PixelShown
      <3> QED
        BY <1>2, <3>1
    <2>6. a <= r.y /\ Bottom(r) <= b
      BY <1>1, <2>5
    <2> QED
      BY <1>1, <2>3, <2>6 DEF Shows
  <1>3. ASSUME a = r.y, b = Bottom(r), Shows(r, v, a), NEW p
        PROVE  p \in {v} \X (a..b) <=> p \in Pixels(r) /\ p[1] = v
    <2>1. ASSUME p \in {v} \X (a..b) PROVE p \in Pixels(r) /\ p[1] = v
      <3>1. p \in Int \X Int /\ p[1] = v /\ a <= p[2] /\ p[2] <= b
        BY <2>1
      <3> QED
        BY <1>1, <1>3, <3>1, PixelShown DEF Shows
    <2>2. ASSUME p \in Pixels(r), p[1] = v PROVE p \in {v} \X (a..b)
      <3>1. p \in Int \X Int /\ Shows(r, p[1], p[2])
        BY <2>2, PixelShown
      <3>2. p[2] \in a..b /\ p = <<p[1], p[2]>>
        BY <1>3, <3>1 DEF Shows
      <3> QED
        BY <2>2, <3>2
    <2> QED
      BY <2>1, <2>2
  <1> QED
    BY <1>2, <1>3

LEMMA RowOfPixels ==
    ASSUME NEW r \in Rectangle, NEW v \in Int, NEW a \in Int, NEW b \in Int, a <= b
    PROVE  ((a..b) \X {v} = {p \in Pixels(r) : p[2] = v}) <=> (a = r.x /\ b = RightEdge(r) - 1 /\ Shows(r, a, v))
  <1>1. r.x \in Int /\ r.y \in Int /\ RightEdge(r) \in Int /\ Bottom(r) \in Int /\ r.x < RightEdge(r)
    BY DEF Rectangle, RightEdge, Bottom
  <1>2. ASSUME (a..b) \X {v} = {p \in Pixels(r) : p[2] = v}
        PROVE  a = r.x /\ b = RightEdge(r) - 1 /\ Shows(r, a, v)
    <2>1. <<a, v>> \in (a..b) \X {v} /\ <<b, v>> \in (a..b) \X {v}
      OBVIOUS
    <2>2. <<a, v>> \in Pixels(r) /\ <<b, v>> \in Pixels(r)
      BY <1>2, <2>1
    <2>3. Shows(r, a, v) /\ Shows(r, b, v)
      BY <2>2, PixelShown
    <2>4. Shows(r, r.x, v) /\ Shows(r, RightEdge(r) - 1, v)
      BY <1>1, <2>3 DEF Shows
    <2>5. <<r.x, v>> \in (a..b) \X {v} /\ <<RightEdge(r) - 1, v>> \in (a..b) \X {v}
      <3>1. <<r.x, v>> \in Pixels(r) /\ <<RightEdge(r) - 1, v>> \in Pixels(r)
        BY <1>1, <2>4, PixelShown
      <3> QED
        BY <1>2, <3>1
    <2>6. a <= r.x /\ RightEdge(r) - 1 <= b
      BY <1>1, <2>5
    <2> QED
      BY <1>1, <2>3, <2>6 DEF Shows
  <1>3. ASSUME a = r.x, b = RightEdge(r) - 1, Shows(r, a, v), NEW p
        PROVE  p \in (a..b) \X {v} <=> p \in Pixels(r) /\ p[2] = v
    <2>1. ASSUME p \in (a..b) \X {v} PROVE p \in Pixels(r) /\ p[2] = v
      <3>1. p \in Int \X Int /\ p[2] = v /\ a <= p[1] /\ p[1] <= b
        BY <2>1
      <3> QED
        BY <1>1, <1>3, <3>1, PixelShown DEF Shows
    <2>2. ASSUME p \in Pixels(r), p[2] = v PROVE p \in (a..b) \X {v}
      <3>1. p \in Int \X Int /\ Shows(r, p[1], p[2])
        BY <2>2, PixelShown
      <3>2. p[1] \in a..b /\ p = <<p[1], p[2]>>
        BY <1>1, <1>3, <3>1 DEF Shows
      <3> QED
        BY <2>2, <3>2
    <2> QED
      BY <2>1, <2>2
  <1> QED
    BY <1>2, <1>3

Transposed(screenList) == [n \in DOMAIN screenList |-> TransposedRect(screenList[n])]

\* The offsets at which a line is along the whole side of a screen, with nothing beyond.
ScreenSides(l) == {o \in {-1, 0} : /\ Along(l, -1 - o) \cap Desktop = {}
                             /\ \E n \in DOMAIN layout : SideOf(layout[n], l, o)}

LEMMA UprightSides ==
    ASSUME layout \in Seq(Rectangle), NEW l \in Line, l.x1 = l.x2
    PROVE  /\ Sorted(l) \in Line /\ Sorted(l).y1 <= Sorted(l).y2 /\ Sorted(l).x1 = l.x1 /\ Sorted(l).x2 = l.x1
           /\ \A o \in Int : Along(l, o) = {l.x1 + o} \X (Sorted(l).y1 .. Sorted(l).y2)
           /\ ScreenSides(l) = {o \in {-1, 0} : Guards(Sorted(l), layout, o)}
  <1> DEFINE s == Sorted(l)
  <1>1. /\ s \in Line /\ s.y1 <= s.y2 /\ s.x1 = l.x1 /\ s.x2 = l.x1
        /\ s.y1 \in Int /\ s.y2 \in Int /\ l.x1 \in Int
        /\ (l.y1..l.y2) \cup (l.y2..l.y1) = s.y1..s.y2
    <2>1. l.y1 \in Int /\ l.y2 \in Int /\ l.x1 \in Int /\ l.x2 \in Int
      BY DEF Line
    <2>2. CASE l.y1 > l.y2
      <3>1. s = [l EXCEPT !.y1 = l.y2, !.y2 = l.y1]
        BY <2>2 DEF Sorted
      <3>2. s \in Line /\ s.y1 = l.y2 /\ s.y2 = l.y1 /\ s.x1 = l.x1 /\ s.x2 = l.x1
        BY <3>1 DEF Line
      <3> QED
        BY <2>1, <2>2, <3>2
    <2>3. CASE ~(l.y1 > l.y2)
      <3>1. s = l
        BY <2>3 DEF Sorted
      <3> QED
        BY <2>1, <2>3, <3>1
    <2> QED
      BY <2>2, <2>3
  <1>2. \A o \in Int : Along(l, o) = {l.x1 + o} \X (s.y1 .. s.y2)
    BY <1>1 DEF Along
  <1>3. \A n \in DOMAIN layout : layout[n] \in Rectangle
    BY ElementOfSeq
  <1> HIDE DEF s
  <1>4. ASSUME NEW o \in {-1, 0}
        PROVE  Along(l, -1 - o) \cap Desktop = {} <=>
                 \A n \in DOMAIN layout, y \in s.y1..s.y2 : ~Shows(layout[n], s.x1 - 1 - o, y)
    <2>1. Along(l, -1 - o) = {s.x1 - 1 - o} \X (s.y1 .. s.y2) /\ s.x1 - 1 - o \in Int
      BY <1>1, <1>2
    <2>2. \A y \in s.y1..s.y2 : <<s.x1 - 1 - o, y>> \in Desktop <=>
             \E n \in DOMAIN layout : Shows(layout[n], s.x1 - 1 - o, y)
      BY <1>1, <2>1, DesktopShown
    <2>3. Along(l, -1 - o) \cap Desktop = {} <=> \A y \in s.y1..s.y2 : <<s.x1 - 1 - o, y>> \notin Desktop
      BY <2>1
    <2> QED
      BY <2>2, <2>3
  <1>5. ASSUME NEW o \in {-1, 0}, NEW n \in DOMAIN layout
        PROVE  SideOf(layout[n], l, o) <=> Fills(s, layout[n]) /\ Shows(layout[n], s.x1 + o, s.y1)
    <2> DEFINE v == l.x1 + o
    <2>1. Along(l, o) = {v} \X (s.y1 .. s.y2) /\ v \in Int
      BY <1>1, <1>2
    <2>2. SideOf(layout[n], l, o) <=> {v} \X (s.y1 .. s.y2) = {p \in Pixels(layout[n]) : p[1] = v}
      BY <2>1 DEF SideOf
    <2>3. v = s.x1 + o
      BY <1>1
    <2> HIDE DEF v
    <2>4. ({v} \X (s.y1 .. s.y2) = {p \in Pixels(layout[n]) : p[1] = v})
            <=> s.y1 = layout[n].y /\ s.y2 = Bottom(layout[n]) /\ Shows(layout[n], v, s.y1)
      <3> DEFINE a == s.y1
                 b == s.y2
      <3>1. layout[n] \in Rectangle /\ v \in Int /\ a \in Int /\ b \in Int /\ a <= b
        BY <1>1, <1>3, <2>1
      <3> HIDE DEF a, b
      <3>2. ({v} \X (a..b) = {p \in Pixels(layout[n]) : p[1] = v})
              <=> a = layout[n].y /\ b = Bottom(layout[n]) /\ Shows(layout[n], v, a)
        BY <3>1, ColumnOfPixels
      <3> QED
        BY <3>2 DEF a, b
    <2> QED
      BY <2>2, <2>3, <2>4 DEF Fills
  <1>6. ScreenSides(l) = {o \in {-1, 0} : Guards(s, layout, o)}
    BY <1>4, <1>5 DEF ScreenSides, Guards
  <1> QED
    BY <1>1, <1>2, <1>6 DEF s

LEMMA LevelSides ==
    ASSUME layout \in Seq(Rectangle), NEW l \in Line, l.x1 # l.x2, l.y1 = l.y2
    PROVE  LET s == Sorted(TransposedLine(l))
           IN  /\ s \in Line /\ s.y1 < s.y2 /\ s.x1 = l.y1 /\ s.x2 = l.y1
               /\ \A o \in Int : Along(l, o) = (s.y1 .. s.y2) \X {l.y1 + o}
               /\ ScreenSides(l) = {o \in {-1, 0} : Guards(s, Transposed(layout), o)}
  <1> DEFINE s == Sorted(TransposedLine(l))
  <1>1. /\ s \in Line /\ s.y1 < s.y2 /\ s.x1 = l.y1 /\ s.x2 = l.y1
        /\ s.y1 \in Int /\ s.y2 \in Int /\ l.y1 \in Int
        /\ (l.x1..l.x2) \cup (l.x2..l.x1) = s.y1..s.y2
    <2>1. l.y1 \in Int /\ l.y2 \in Int /\ l.x1 \in Int /\ l.x2 \in Int
      BY DEF Line
    <2> DEFINE t == TransposedLine(l)
    <2>2. t \in Line /\ t.x1 = l.y1 /\ t.x2 = l.y1 /\ t.y1 = l.x1 /\ t.y2 = l.x2
      BY DEF Line, TransposedLine
    <2> HIDE DEF t
    <2>3. CASE l.x1 > l.x2
      <3>1. s = [t EXCEPT !.y1 = t.y2, !.y2 = t.y1]
        BY <2>2, <2>3 DEF Sorted, t
      <3>2. s \in Line /\ s.y1 = l.x2 /\ s.y2 = l.x1 /\ s.x1 = l.y1 /\ s.x2 = l.y1
        BY <2>2, <3>1 DEF Line
      <3> QED
        BY <2>1, <2>3, <3>2
    <2>4. CASE ~(l.x1 > l.x2)
      <3>1. s = t
        BY <2>2, <2>4 DEF Sorted, t
      <3> QED
        BY <2>1, <2>2, <2>4, <3>1
    <2> QED
      BY <2>3, <2>4
  <1>2. \A o \in Int : Along(l, o) = (s.y1 .. s.y2) \X {l.y1 + o}
    BY <1>1 DEF Along
  <1>3. \A n \in DOMAIN layout : layout[n] \in Rectangle
    BY ElementOfSeq
  <1>4. ASSUME NEW n \in DOMAIN layout, NEW x \in Int, NEW y \in Int
        PROVE  Shows(Transposed(layout)[n], y, x) <=> Shows(layout[n], x, y)
    <2> DEFINE r == layout[n]
               t == TransposedRect(r)
    <2>1. Transposed(layout)[n] = t /\ t.x = r.y /\ t.y = r.x /\ t.w = r.h /\ t.h = r.w
      BY DEF Transposed, TransposedRect
    <2>2. r.x \in Int /\ r.y \in Int /\ r.w \in Nat \ {0} /\ r.h \in Nat \ {0}
      BY <1>3 DEF Rectangle
    <2> HIDE DEF r, t
    <2>3. Shows(t, y, x) <=> Shows(r, x, y)
      <3>1. Shows(t, y, x) <=> r.y <= y /\ y < r.y + r.h /\ r.x <= x /\ x <= r.x + r.w - 1
        BY <2>1 DEF Shows, RightEdge, Bottom
      <3>2. Shows(r, x, y) <=> r.x <= x /\ x < r.x + r.w /\ r.y <= y /\ y <= r.y + r.h - 1
        BY DEF Shows, RightEdge, Bottom
      <3>3. \A i, j, k \in Int : i < j + k <=> i <= j + k - 1
        OBVIOUS
      <3>4. (y < r.y + r.h <=> y <= r.y + r.h - 1) /\ (x < r.x + r.w <=> x <= r.x + r.w - 1)
        <4>1. r.x \in Int /\ r.y \in Int /\ r.w \in Int /\ r.h \in Int
          BY <2>2
        <4> QED
          BY <3>3, <4>1, Zenon
      <3> QED
        BY <3>1, <3>2, <3>4
    <2> QED
      BY <2>1, <2>3 DEF r
  <1> HIDE DEF s
  <1>5. ASSUME NEW o \in {-1, 0}
        PROVE  Along(l, -1 - o) \cap Desktop = {} <=>
                 \A n \in DOMAIN layout, x \in s.y1..s.y2 : ~Shows(Transposed(layout)[n], s.x1 - 1 - o, x)
    <2>1. Along(l, -1 - o) = (s.y1 .. s.y2) \X {s.x1 - 1 - o} /\ s.x1 - 1 - o \in Int
      BY <1>1, <1>2
    <2>2. \A x \in s.y1..s.y2 : <<x, s.x1 - 1 - o>> \in Desktop <=>
             \E n \in DOMAIN layout : Shows(layout[n], x, s.x1 - 1 - o)
      BY <1>1, <2>1, DesktopShown
    <2>3. Along(l, -1 - o) \cap Desktop = {} <=> \A x \in s.y1..s.y2 : <<x, s.x1 - 1 - o>> \notin Desktop
      BY <2>1
    <2>4. s.y1..s.y2 \subseteq Int
      BY <1>1
    <2>5. \A n \in DOMAIN layout, x \in s.y1..s.y2 :
             Shows(Transposed(layout)[n], s.x1 - 1 - o, x) <=> Shows(layout[n], x, s.x1 - 1 - o)
      BY <1>4, <2>1, <2>4
    <2> QED
      BY <2>2, <2>3, <2>5
  <1>6. ASSUME NEW o \in {-1, 0}, NEW n \in DOMAIN layout
        PROVE  SideOf(layout[n], l, o) <=>
                 Fills(s, Transposed(layout)[n]) /\ Shows(Transposed(layout)[n], s.x1 + o, s.y1)
    <2> DEFINE v == l.y1 + o
    <2>1. Along(l, o) = (s.y1 .. s.y2) \X {v} /\ v \in Int
      BY <1>1, <1>2
    <2>2. SideOf(layout[n], l, o) <=> (s.y1 .. s.y2) \X {v} = {p \in Pixels(layout[n]) : p[2] = v}
      BY <2>1, <1>1 DEF SideOf
    <2>3. Fills(s, Transposed(layout)[n]) <=> s.y1 = layout[n].x /\ s.y2 = RightEdge(layout[n]) - 1
      <3>1. /\ Transposed(layout)[n].y = layout[n].x /\ Transposed(layout)[n].h = layout[n].w
            /\ layout[n].x \in Int /\ layout[n].w \in Int
        BY <1>3 DEF Transposed, TransposedRect, Rectangle
      <3> QED
        BY <3>1 DEF Fills, Bottom, RightEdge
    <2>4. Shows(Transposed(layout)[n], s.x1 + o, s.y1) <=> Shows(layout[n], s.y1, v)
      BY <1>1, <1>4, <2>1
    <2> HIDE DEF v
    <2>5. ((s.y1 .. s.y2) \X {v} = {p \in Pixels(layout[n]) : p[2] = v})
            <=> s.y1 = layout[n].x /\ s.y2 = RightEdge(layout[n]) - 1 /\ Shows(layout[n], s.y1, v)
      <3>1. s.y1 <= s.y2
        BY <1>1
      <3> QED
        BY <1>1, <1>3, <2>1, <3>1, RowOfPixels
    <2> QED
      BY <2>2, <2>3, <2>4, <2>5
  <1>7. DOMAIN Transposed(layout) = DOMAIN layout
    BY DEF Transposed
  <1>8. ScreenSides(l) = {o \in {-1, 0} : Guards(s, Transposed(layout), o)}
    BY <1>5, <1>6, <1>7 DEF ScreenSides, Guards
  <1> QED
    BY <1>1, <1>2, <1>8 DEF s

LEMMA TransposedIsLayout ==
    ASSUME NEW screenList, IsLayout(screenList)
    PROVE  IsLayout(Transposed(screenList))
  <1>1. \A n \in DOMAIN screenList : screenList[n] \in Rectangle
    BY ElementOfSeq DEF IsLayout
  <1>2. \A n \in DOMAIN screenList : TransposedRect(screenList[n]) \in Rectangle
    BY <1>1 DEF TransposedRect, Rectangle
  <1>3. Transposed(screenList) \in Seq(Rectangle)
    BY <1>2 DEF IsLayout, Transposed
  <1>4. ASSUME NEW n \in DOMAIN screenList, NEW k \in DOMAIN screenList, n # k
        PROVE  Separate(Transposed(screenList)[n], Transposed(screenList)[k])
    BY <1>4 DEF IsLayout, Transposed, TransposedRect, Separate
  <1> QED
    BY <1>3, <1>4 DEF IsLayout, Transposed

\* The answer to a line, whatever the screens: made exactly where it has a side.
LEMMA Checked ==
    ASSUME IsLayout(layout), NEW l \in Line
    PROVE  LET made == CheckAndMakeBarrier(l, layout)
           IN  /\ made.failure = "none" <=> (l.x1 = l.x2 \/ l.y1 = l.y2) /\ ScreenSides(l) # {}
               /\ l.x1 = l.x2 \/ l.y1 = l.y2 => \A o \in ScreenSides(l) : Along(made.line, 0) = Along(l, o)
  <1> DEFINE made == CheckAndMakeBarrier(l, layout)
  <1>1. CASE l.x1 # l.x2 /\ l.y1 # l.y2
    BY <1>1 DEF CheckAndMakeBarrier, Failure
  <1>2. CASE l.x1 = l.x2
    <2> DEFINE s == Sorted(l)
    <2>1. made = Upright(s, layout)
      BY <1>2 DEF CheckAndMakeBarrier
    <2>2. /\ s \in Line /\ s.y1 <= s.y2 /\ s.x1 = l.x1 /\ s.x2 = l.x1
          /\ \A o \in Int : Along(l, o) = {l.x1 + o} \X (s.y1 .. s.y2)
          /\ ScreenSides(l) = {o \in {-1, 0} : Guards(s, layout, o)}
      BY <1>2, UprightSides DEF IsLayout
    <2> HIDE DEF s, made
    <2>3. s.x1 = s.x2
      BY <2>2
    <2>4. /\ Upright(s, layout).failure = "none" <=> \E o \in {-1, 0} : Guards(s, layout, o)
          /\ \A o \in {-1, 0} : Guards(s, layout, o) =>
               Upright(s, layout).line = [s EXCEPT !.x1 = s.x1 + o, !.x2 = s.x1 + o]
      BY <2>2, <2>3, UprightGuards
    <2>5. /\ made.failure = "none" <=> \E o \in {-1, 0} : Guards(s, layout, o)
          /\ \A o \in {-1, 0} : Guards(s, layout, o) =>
               made.line = [s EXCEPT !.x1 = s.x1 + o, !.x2 = s.x1 + o]
      BY <2>1, <2>4
    <2>6. ASSUME NEW o \in ScreenSides(l) PROVE Along(made.line, 0) = Along(l, o)
      <3>1. o \in Int /\ o \in {-1, 0} /\ Guards(s, layout, o)
        BY <2>2
      <3>2. made.line = [s EXCEPT !.x1 = s.x1 + o, !.x2 = s.x1 + o] /\ o \in Int
        BY <2>5, <3>1
      <3>3. /\ made.line.x1 = l.x1 + o /\ made.line.x2 = l.x1 + o
            /\ made.line.y1 = s.y1 /\ made.line.y2 = s.y2
        BY <2>2, <3>2 DEF Line
      <3>4. s.y1 \in Int /\ s.y2 \in Int /\ (s.y1..s.y2) \cup (s.y2..s.y1) = s.y1..s.y2 /\ l.x1 \in Int
        BY <2>2 DEF Line
      <3>5. Along(made.line, 0) = {l.x1 + o} \X (s.y1..s.y2)
        BY <3>2, <3>3, <3>4 DEF Along
      <3> QED
        BY <2>2, <3>2, <3>5
    <2> QED
      BY <1>2, <2>2, <2>5, <2>6 DEF made
  <1>3. CASE l.x1 # l.x2 /\ l.y1 = l.y2
    <2> DEFINE s == Sorted(TransposedLine(l))
               upright == Upright(s, Transposed(layout))
    <2>1. made = IF upright.failure = "none" THEN Made(TransposedLine(upright.line)) ELSE upright
      BY <1>3 DEF CheckAndMakeBarrier, Transposed
    <2>2. /\ s \in Line /\ s.y1 < s.y2 /\ s.x1 = l.y1 /\ s.x2 = l.y1
          /\ \A o \in Int : Along(l, o) = (s.y1 .. s.y2) \X {l.y1 + o}
          /\ ScreenSides(l) = {o \in {-1, 0} : Guards(s, Transposed(layout), o)}
      BY <1>3, LevelSides DEF IsLayout
    <2>3. IsLayout(Transposed(layout))
      BY TransposedIsLayout
    <2> HIDE DEF s, made
    <2>4. s.y1 \in Int /\ s.y2 \in Int /\ s.y1 <= s.y2 /\ (s.y1..s.y2) \cup (s.y2..s.y1) = s.y1..s.y2 /\ l.y1 \in Int
      BY <2>2 DEF Line
    <2>5. s.x1 = s.x2
      BY <2>2
    <2>6. /\ upright.failure = "none" <=> \E o \in {-1, 0} : Guards(s, Transposed(layout), o)
          /\ \A o \in {-1, 0} : Guards(s, Transposed(layout), o) =>
               upright.line = [s EXCEPT !.x1 = s.x1 + o, !.x2 = s.x1 + o]
      BY <2>2, <2>3, <2>4, <2>5, UprightGuards
    <2> HIDE DEF upright
    <2>7. made.failure = "none" <=> upright.failure = "none"
      BY <2>1 DEF Made
    <2>8. ASSUME NEW o \in ScreenSides(l) PROVE Along(made.line, 0) = Along(l, o)
      <3>1. o \in Int /\ o \in {-1, 0} /\ Guards(s, Transposed(layout), o)
        BY <2>2
      <3>2. upright.failure = "none"
        BY <2>6, <3>1
      <3>3. upright.line = [s EXCEPT !.x1 = s.x1 + o, !.x2 = s.x1 + o] /\ upright.failure = "none" /\ o \in Int
        BY <2>6, <3>1, <3>2
      <3>4. made.line = TransposedLine(upright.line)
        BY <2>1, <3>3 DEF Made
      <3>5. /\ made.line.y1 = l.y1 + o /\ made.line.y2 = l.y1 + o
            /\ made.line.x1 = s.y1 /\ made.line.x2 = s.y2
        BY <2>2, <3>3, <3>4 DEF Line, TransposedLine
      <3>6. Along(made.line, 0) = (s.y1..s.y2) \X {l.y1 + o}
        BY <2>2, <2>4, <3>3, <3>5 DEF Along
      <3> QED
        BY <2>2, <3>3, <3>6
    <2> QED
      BY <1>3, <2>2, <2>6, <2>7, <2>8 DEF made
  <1> QED
    BY <1>1, <1>2, <1>3

BarriersInv ==
    /\ IsLayout(layout)
    /\ line # <<>> => line \in Line /\ barrier = CheckAndMakeBarrier(line, layout)

\* BarriersAtTheOutside: for any screens that do not overlap, checkAndMakeBarrier accepts
\* an upright or level line just when it runs along the whole side of one screen, with
\* no screen beyond it, and the barrier it makes is along that side, outside of it.
THEOREM BarriersAreOutside == BarriersSpec => []BarriersAtTheOutside
  <1>1. BarriersInit => BarriersInv
    BY BarriersAssumption DEF BarriersInit, BarriersInv, IsLayout, Rectangle
  <1>2. BarriersInv /\ [BarriersNext]_barrierVars => BarriersInv'
    <2> SUFFICES ASSUME BarriersInv, [BarriersNext]_barrierVars PROVE BarriersInv'
      OBVIOUS
    <2>1. ASSUME NEW l \in Lines, Check(l) PROVE BarriersInv'
      BY <2>1, BarriersAssumption DEF Check, BarriersInv, Line
    <2>2. CASE UNCHANGED barrierVars
      BY <2>2 DEF barrierVars, BarriersInv
    <2> QED
      BY <2>1, <2>2 DEF BarriersNext
  <1>3. BarriersInv => BarriersAtTheOutside
    <2> SUFFICES ASSUME BarriersInv, line # <<>> PROVE BarriersAtTheOutside
      BY DEF BarriersAtTheOutside
    <2>1. /\ Accepts <=> (line.x1 = line.x2 \/ line.y1 = line.y2) /\ ScreenSides(line) # {}
          /\ line.x1 = line.x2 \/ line.y1 = line.y2 =>
               \A o \in ScreenSides(line) : Along(barrier.line, 0) = Along(line, o)
      BY Checked DEF BarriersInv, Accepts
    <2>2. Guarded(line) = {Along(line, o) : o \in ScreenSides(line)}
      BY DEF Guarded, ScreenSides
    <2> QED
      BY <2>1, <2>2 DEF BarriersAtTheOutside
  <1> QED
    BY <1>1, <1>2, <1>3, PTL DEF BarriersSpec

-----------------------------------------------------------------------------
(* Restoring a screen cast.                                                *)

RestoreSpec == RestoreInit /\ [][RestoreNext]_restoreVars

\* There are n numbers from 1 to n.
LEMMA Upto ==
    ASSUME NEW n \in Nat
    PROVE  IsFiniteSet(1..n) /\ Cardinality(1..n) = n
  <1>1. 1 \in Int /\ n \in Int
    OBVIOUS
  <1>2. IsFiniteSet(1..n) /\ Cardinality(1..n) = IF 1 > n THEN 0 ELSE n - 1 + 1
    BY <1>1, FS_Interval
  <1> QED
    BY <1>2

\* Letters counted among all positions are those of the title.
LEMMA NthOfAll ==
    ASSUME NEW c \in Nat, NEW k \in 1..c, NEW s
    PROVE  Nth(s, 1..c, k) = s[k]
  <1>1. ASSUME NEW n \in 1..c PROVE Cardinality({j \in 1..c : j <= n}) = n
    <2>1. {j \in 1..c : j <= n} = 1..n /\ n \in Nat
      OBVIOUS
    <2>2. Cardinality(1..n) = n
      BY <2>1, Upto
    <2> QED
      BY <2>1, <2>2
  <1>2. (CHOOSE n \in 1..c : Cardinality({j \in 1..c : j <= n}) = k) = k
    BY <1>1
  <1> QED
    BY <1>2 DEF Nth

\* Titles with an edit distance of 0 are the same.
LEMMA ApartUnlessSame ==
    ASSUME NEW a \in Titles, NEW b \in Titles, EditDistance[a][b] = 0
    PROVE  a = b
  <1>1. a \in Seq(Nat) /\ b \in Seq(Nat)
    BY RestoreAssumption DEF RestoreAssumption
  <1>2. Len(a) \in Nat /\ Len(b) \in Nat /\ DOMAIN a = 1..Len(a) /\ DOMAIN b = 1..Len(b)
    BY <1>1, LenProperties
  <1> DEFINE T == {Cost(a, b, pair) : pair \in Kept(a, b)}
  <1>3. EditDistance[a][b] = Least(T)
    <2> DEFINE V(x, y) == Least({Cost(x, y, pair) : pair \in Kept(x, y)})
    <2>1. EditDistance = [x \in Titles |-> [y \in Titles |-> V(x, y)]]
      BY DEF EditDistance
    <2> HIDE DEF V
    <2>2. EditDistance[a][b] = V(a, b)
      BY <2>1
    <2> QED
      BY <2>2 DEF V
  <1>4. ASSUME NEW pair \in Kept(a, b)
        PROVE  /\ Cardinality(pair[1]) \in Nat /\ Cardinality(pair[2]) = Cardinality(pair[1])
               /\ Cardinality(pair[1]) <= Len(a) /\ Cardinality(pair[1]) <= Len(b)
               /\ Cardinality(pair[1]) = Len(a) => pair[1] = 1..Len(a)
               /\ Cardinality(pair[2]) = Len(b) => pair[2] = 1..Len(b)
               /\ IsFiniteSet(Misfits(a, b, pair)) /\ Cardinality(Misfits(a, b, pair)) \in Nat
    <2>1. /\ pair[1] \in SUBSET (1..Len(a)) /\ pair[2] \in SUBSET (1..Len(b))
          /\ Cardinality(pair[1]) = Cardinality(pair[2])
      BY <1>2 DEF Kept
    <2>2. /\ IsFiniteSet(1..Len(a)) /\ Cardinality(1..Len(a)) = Len(a)
          /\ IsFiniteSet(1..Len(b)) /\ Cardinality(1..Len(b)) = Len(b)
      BY <1>2, Upto
    <2>3. /\ IsFiniteSet(pair[1])
          /\ Cardinality(pair[1]) <= Cardinality(1..Len(a))
          /\ Cardinality(1..Len(a)) = Cardinality(pair[1]) => 1..Len(a) = pair[1]
      BY <2>1, <2>2, FS_Subset, Zenon
    <2>4. /\ IsFiniteSet(pair[2])
          /\ Cardinality(pair[2]) <= Cardinality(1..Len(b))
          /\ Cardinality(1..Len(b)) = Cardinality(pair[2]) => 1..Len(b) = pair[2]
      BY <2>1, <2>2, FS_Subset, Zenon
    <2>5. Cardinality(pair[1]) \in Nat
      BY <2>3, FS_CardinalityType
    <2>6. Misfits(a, b, pair) \in SUBSET (1..Cardinality(pair[1]))
          /\ IsFiniteSet(1..Cardinality(pair[1]))
      BY <2>5, Upto DEF Misfits
    <2>7. IsFiniteSet(Misfits(a, b, pair)) /\ Cardinality(Misfits(a, b, pair)) \in Nat
      BY <2>6, FS_Subset, FS_CardinalityType
    <2> QED
      BY <2>1, <2>2, <2>3, <2>4, <2>5, <2>7
  <1>5. T \subseteq Nat
    <2> SUFFICES ASSUME NEW pair \in Kept(a, b) PROVE Cost(a, b, pair) \in Nat
      OBVIOUS
    <2> DEFINE p == Len(a)
               q == Len(b)
               c == Cardinality(pair[1])
               m == Cardinality(Misfits(a, b, pair))
    <2>1. p \in Nat /\ q \in Nat /\ c \in Nat /\ m \in Nat /\ c <= p /\ c <= q
      BY <1>2, <1>4
    <2>2. Cost(a, b, pair) = p + q - 2 * c + m
      BY DEF Cost
    <2> HIDE DEF p, q, c, m
    <2>3. p + q - 2 * c + m \in Nat
      BY <2>1
    <2> QED
      BY <2>2, <2>3
  <1>6. T # {}
    <2>1. <<{}, {}>> \in Kept(a, b)
      BY DEF Kept
    <2> QED
      BY <2>1
  <1>7. Least(T) \in T
    <2> HIDE DEF T
    <2>1. PICK x \in T : \A y \in T : x <= y
      BY <1>5, <1>6, LeastNumber
    <2> QED
      BY <2>1 DEF Least
  <1>8. PICK pair \in Kept(a, b) : Cost(a, b, pair) = 0
    BY <1>3, <1>7
  <1> HIDE DEF T
  <1>9. Len(a) = Len(b) /\ pair[1] = 1..Len(a) /\ pair[2] = 1..Len(a) /\ Cardinality(Misfits(a, b, pair)) = 0
    <2> DEFINE p == Len(a)
               q == Len(b)
               c == Cardinality(pair[1])
               m == Cardinality(Misfits(a, b, pair))
    <2>1. /\ p \in Nat /\ q \in Nat /\ c \in Nat /\ m \in Nat /\ c <= p /\ c <= q
          /\ c = p => pair[1] = 1..p
          /\ c = q => pair[2] = 1..q
      BY <1>2, <1>4
    <2>2. p + q - 2 * c + m = 0
      BY <1>8 DEF Cost
    <2> HIDE DEF p, q, c, m
    <2>3. c = p /\ c = q /\ m = 0
      BY <2>1, <2>2
    <2>4. p = q /\ pair[1] = 1..p /\ pair[2] = 1..p /\ m = 0
      BY <2>1, <2>3
    <2> QED
      BY <2>4 DEF p, q, m
  <1>10. Misfits(a, b, pair) = {}
    BY <1>4, <1>9, FS_EmptySet
  <1>11. ASSUME NEW k \in 1..Len(a) PROVE a[k] = b[k]
    <2>1. Cardinality(pair[1]) = Len(a)
      BY <1>2, <1>9, Upto
    <2>2. Nth(a, 1..Len(a), k) = Nth(b, 1..Len(a), k)
      BY <1>9, <1>10, <2>1 DEF Misfits
    <2>3. Nth(a, 1..Len(a), k) = a[k] /\ Nth(b, 1..Len(a), k) = b[k]
      BY <1>2, NthOfAll
    <2> QED
      BY <2>2, <2>3
  <1> QED
    BY <1>1, <1>9, <1>11, SeqEqual

\* Of a set with at most one element.
LEMMA OneAtMost ==
    ASSUME NEW S, IsFiniteSet(S), Cardinality(S) <= 1, NEW x \in S, NEW y \in S
    PROVE  x = y
  <1> SUFFICES ASSUME x # y PROVE FALSE
    OBVIOUS
  <1>1. IsFiniteSet({x}) /\ Cardinality({x}) = 1
    BY FS_Singleton
  <1>2. IsFiniteSet({x} \cup {y}) /\ Cardinality({x} \cup {y}) = 2
    <2>1. x \in {x} /\ ~(y \in {x})
      OBVIOUS
    <2>2. IsFiniteSet({x} \cup {y}) /\ Cardinality({x} \cup {y}) = Cardinality({x}) + 1
      BY <1>1, <2>1, FS_AddElement
    <2> QED
      BY <1>1, <2>2
  <1>3. {x} \cup {y} \in SUBSET S
    OBVIOUS
  <1>4. Cardinality({x} \cup {y}) <= Cardinality(S) /\ Cardinality(S) \in Nat
    BY <1>3, FS_Subset, FS_CardinalityType
  <1> QED
    BY <1>2, <1>4

\* What an entry matches is of its application, and like it if distances are right.
LEMMA Matched ==
    ASSUME NEW entry, NEW distance, NEW k \in MatchesOf(entry, distance)
    PROVE  /\ k \in DOMAIN listed /\ AppId[listed[k]] = entry.app
           /\ distance[k] = 0 \/ Similar(distance[k], entry.title)
  BY DEF MatchesOf, First

\* As many matches as entries, one for each at most: then each has one.
LEMMA EachMatched ==
    ASSUME NEW sought, NEW distances, Len(sought) \in Nat, DOMAIN sought = 1..Len(sought),
           Cardinality(TryMatchWindows(sought, distances)) = Len(sought),
           \A n \in DOMAIN sought : /\ IsFiniteSet(MatchesOf(sought[n], distances[n]))
                                     /\ Cardinality(MatchesOf(sought[n], distances[n])) <= 1
    PROVE  \A n \in DOMAIN sought : MatchesOf(sought[n], distances[n]) # {}
  <1> DEFINE M(n) == MatchesOf(sought[n], distances[n])
             matches == TryMatchWindows(sought, distances)
             f == [m \in matches |-> m[1]]
  <1>1. \A m : m \in matches <=> \E n \in DOMAIN sought : \E k \in M(n) : m = <<n, k>>
    BY DEF TryMatchWindows
  <1>2. f \in [matches -> 1..Len(sought)]
    BY <1>1
  <1>3. ASSUME NEW m \in matches, NEW o \in matches, f[m] = f[o] PROVE m = o
    <2>1. PICK n \in DOMAIN sought : \E k \in M(n) : m = <<n, k>>
      BY <1>1
    <2>1a. PICK k \in M(n) : m = <<n, k>>
      BY <2>1
    <2>2. PICK p \in DOMAIN sought : \E j \in M(p) : o = <<p, j>>
      BY <1>1
    <2>2a. PICK j \in M(p) : o = <<p, j>>
      BY <2>2
    <2>3. n = p
      BY <1>3, <2>1a, <2>2a
    <2>4. k = j
      BY <2>3, OneAtMost
    <2> QED
      BY <2>1a, <2>2a, <2>3, <2>4
  <1>4. f \in Injection(matches, 1..Len(sought))
    BY <1>2, <1>3, Zenon DEF Injection, IsInjective
  <1>5. IsFiniteSet(1..Len(sought)) /\ Cardinality(1..Len(sought)) = Len(sought)
    BY Upto
  <1>6. f \in Surjection(matches, 1..Len(sought))
    <2> HIDE DEF f, matches
    <2>1. Cardinality(matches) = Cardinality(1..Len(sought))
      BY <1>5 DEF matches
    <2> QED
      BY <1>4, <1>5, <2>1, FS_Injection
  <1>7. ASSUME NEW n \in DOMAIN sought PROVE M(n) # {}
    <2>1. PICK m \in matches : f[m] = n
      BY <1>6 DEF Surjection
    <2> QED
      BY <1>1, <2>1
  <1> QED
    BY <1>7

\* What is saved was chosen; once a cast was restored nothing changes.
RestoreInv ==
    /\ listed \in Seq(CastWindow)
    /\ title \in [CastWindow -> Titles]
    /\ saved.windows \in Seq([app : {AppId[w] : w \in CastWindow}, title : Titles])
    /\ saved.region # {} => "Region" \in saved.madeUp
    /\ saved.ours => saved.places = {stood[s] : s \in DOMAIN stood}
    /\ restored.silent => saved # NoData
    /\ RestoredIsChosen

LEMMA StartAndSaveStep ==
    ASSUME RestoreInv, NEW selection \in Selections, NEW chosen \in Ticked, StartAndSave(selection, chosen)
    PROVE  RestoreInv'
  <1>1. /\ saved = NoData /\ UNCHANGED <<listed, title, restored, reliable>>
        /\ stood' = [s \in selection.screens |-> UniqueId(s)]
        /\ saved' = [ours |-> TRUE, places |-> Ids(selection.screens),
                     madeUp |-> selection.madeUp, region |-> selection.region,
                     windows |-> [n \in DOMAIN chosen |->
                                     [app |-> AppId[chosen[n]], title |-> title[chosen[n]]]]]
    BY DEF StartAndSave
  <1>2. PICK m \in 0..Len(listed) : chosen \in [1..m -> InSeq(listed)]
    BY DEF Ticked
  <1>3. listed \in Seq(CastWindow) /\ Len(listed) \in Nat /\ m \in Nat
    BY <1>2 DEF RestoreInv
  <1>4. \A n \in 1..m : chosen[n] \in CastWindow
    BY <1>2, <1>3 DEF InSeq
  <1>5. saved'.windows \in Seq([app : {AppId[w] : w \in CastWindow}, title : Titles])
    <2>1. saved'.windows = [n \in 1..m |-> [app |-> AppId[chosen[n]], title |-> title[chosen[n]]]]
      BY <1>1, <1>2
    <2>2. \A n \in 1..m : [app |-> AppId[chosen[n]], title |-> title[chosen[n]]]
                            \in [app : {AppId[w] : w \in CastWindow}, title : Titles]
      BY <1>4 DEF RestoreInv
    <2> QED
      BY <1>3, <2>1, <2>2
  <1>6. saved'.places = {stood'[s] : s \in DOMAIN stood'}
    BY <1>1 DEF Ids
  <1>7. ~restored'.silent
    BY <1>1 DEF RestoreInv
  <1>8. saved'.region # {} => "Region" \in saved'.madeUp
    BY <1>1, RestoreAssumption DEF RestoreAssumption
  <1> QED
    BY <1>1, <1>5, <1>6, <1>7, <1>8 DEF RestoreInv, RestoredIsChosen

LEMMA RestoringStep ==
    ASSUME RestoreInv, NEW some \in SUBSET plugged, NEW found, RestoringStart(some, found)
    PROVE  RestoreInv'
  <1> DEFINE distances == [n \in DOMAIN saved.windows |-> [k \in DOMAIN listed |->
                            Distance[title[listed[k]], saved.windows[n].title, found[n][k]]]]
             matches == TryMatchWindows(saved.windows, distances)
             M(n) == MatchesOf(saved.windows[n], distances[n])
  <1>1. /\ saved # NoData /\ UNCHANGED <<screenVars, listed, title, saved, stood>>
        /\ Ids(some) \subseteq saved.places
        /\ restored' = IF saved.ours /\ Valid(some, matches)
                       THEN [silent |-> TRUE, screens |-> some, madeUp |-> saved.madeUp,
                             windows |-> {listed[m[2]] : m \in matches}]
                       ELSE Asked
        /\ reliable' = \A n \in DOMAIN saved.windows :
              /\ \A k \in DOMAIN listed :
                    distances[n][k] = EditDistance[title[listed[k]]][saved.windows[n].title]
              /\ Cardinality(M(n)) <= 1
    BY DEF RestoringStart, Finds
  <1>2. /\ listed \in Seq(CastWindow) /\ Len(listed) \in Nat /\ DOMAIN listed = 1..Len(listed)
        /\ \A k \in DOMAIN listed : listed[k] \in CastWindow
        /\ Len(saved.windows) \in Nat /\ DOMAIN saved.windows = 1..Len(saved.windows)
        /\ \A n \in DOMAIN saved.windows : saved.windows[n].title \in Titles
        /\ title \in [CastWindow -> Titles]
    <2>1. /\ listed \in Seq(CastWindow) /\ title \in [CastWindow -> Titles]
          /\ saved.windows \in Seq([app : {AppId[w] : w \in CastWindow}, title : Titles])
      BY DEF RestoreInv
    <2>2. \A n \in DOMAIN saved.windows :
             saved.windows[n] \in [app : {AppId[w] : w \in CastWindow}, title : Titles]
      <3> DEFINE Entries == [app : {AppId[w] : w \in CastWindow}, title : Titles]
      <3>1. saved.windows \in Seq(Entries)
        BY <2>1
      <3> HIDE DEF Entries
      <3>2. \A n \in DOMAIN saved.windows : saved.windows[n] \in Entries
        BY <3>1, ElementOfSeq, LenProperties
      <3> QED
        BY <3>2 DEF Entries
    <2> HIDE DEF distances
    <2>3. \A n \in DOMAIN saved.windows : saved.windows[n].title \in Titles
      BY <2>2
    <2>4. \A k \in DOMAIN listed : listed[k] \in CastWindow
      BY <2>1
    <2> QED
      BY <2>1, <2>3, <2>4
  <1> HIDE DEF distances
  <1>3. \A m : m \in matches <=> \E n \in DOMAIN saved.windows : \E k \in M(n) : m = <<n, k>>
    BY DEF TryMatchWindows
  <1> HIDE DEF matches
  <1>4. CASE ~(saved.ours /\ Valid(some, matches))
    BY <1>1, <1>4 DEF RestoreInv, RestoredIsChosen, Asked
  <1>5. CASE saved.ours /\ Valid(some, matches)
    <2>1. /\ restored'.silent /\ restored'.screens = some /\ restored'.madeUp = saved.madeUp
          /\ restored'.windows = {listed[m[2]] : m \in matches}
      BY <1>1, <1>5
    <2>2. \A w \in restored'.windows :
             \E n \in DOMAIN saved.windows : \E k \in M(n) : w = listed[k]
      BY <1>3, <2>1
    <2>3. \A n \in DOMAIN saved.windows : \A k \in M(n) : listed[k] \in restored'.windows
      <3> SUFFICES ASSUME NEW n \in DOMAIN saved.windows, NEW k \in M(n)
                   PROVE  listed[k] \in restored'.windows
        OBVIOUS
      <3>1. <<n, k>> \in matches
        BY <1>3
      <3>2. listed[<<n, k>>[2]] \in restored'.windows
        BY <2>1, <3>1
      <3> QED
        BY <3>2
    <2>4. \A w \in restored'.windows : \E n \in DOMAIN saved.windows : AppId[w] = saved.windows[n].app
      BY <2>2, Matched
    <2>5. ASSUME reliable', NEW n \in DOMAIN saved.windows, NEW k \in M(n)
          PROVE  Alike(listed[k], saved.windows[n])
      <3>1. /\ k \in DOMAIN listed /\ AppId[listed[k]] = saved.windows[n].app
            /\ distances[n][k] = 0 \/ Similar(distances[n][k], saved.windows[n].title)
        BY <2>5, Matched
      <3>2. distances[n][k] = EditDistance[title[listed[k]]][saved.windows[n].title]
        BY <1>1, <2>5, <3>1
      <3>3. title[listed[k]] \in Titles /\ saved.windows[n].title \in Titles
        BY <1>2, <3>1
      <3> QED
        BY <3>1, <3>2, <3>3, ApartUnlessSame DEF Alike, Similar
    <2>6. ASSUME saved.windows # <<>>
          PROVE  Cardinality(matches) = Len(saved.windows) /\ Len(saved.windows) # 0
      <3>1. Len(saved.windows) # 0
        BY <1>2, <2>6 DEF RestoreInv
      <3> QED
        BY <1>5, <2>6, <3>1 DEF Valid
    <2>7. ASSUME reliable', NEW n \in DOMAIN saved.windows
          PROVE  \E w \in restored'.windows : Alike(w, saved.windows[n])
      <3>1. saved.windows # <<>>
        BY <1>2, <2>7
      <3>2. \A j \in DOMAIN saved.windows : IsFiniteSet(M(j)) /\ Cardinality(M(j)) <= 1
        <4>1. IsFiniteSet(DOMAIN listed)
          BY <1>2, Upto
        <4>2. ASSUME NEW j \in DOMAIN saved.windows PROVE M(j) \in SUBSET DOMAIN listed
          BY Matched
        <4> QED
          BY <1>1, <2>7, <4>1, <4>2, FS_Subset
      <3>3. M(n) # {}
        BY <1>2, <2>6, <2>7, <3>1, <3>2, EachMatched DEF matches
      <3> QED
        BY <2>3, <2>5, <2>7, <3>3
    <2>8. restored'.screens # {} \/ restored'.madeUp # {} \/ restored'.windows # {}
      <3>1. CASE saved.windows # <<>>
        <4>1. matches # {}
          BY <2>6, <3>1, FS_EmptySet
        <4> QED
          BY <2>1, <4>1
      <3>2. CASE saved.windows = <<>> /\ saved.region # {}
        BY <2>1, <3>2 DEF RestoreInv
      <3>3. CASE saved.windows = <<>> /\ saved.region = {}
        BY <1>5, <2>1, <3>3 DEF Valid, Ids
      <3> QED
        BY <3>1, <3>2, <3>3
    <2>9. /\ \A s \in restored'.screens : \E o \in DOMAIN stood : UniqueId(s) = stood[o]
          /\ saved.windows = <<>> /\ saved.region = {} =>
                \A o \in DOMAIN stood : \E s \in restored'.screens : UniqueId(s) = stood[o]
      <3>1. saved.places = {stood[s] : s \in DOMAIN stood}
        BY <1>5 DEF RestoreInv
      <3>2. ASSUME NEW s \in some PROVE \E o \in DOMAIN stood : UniqueId(s) = stood[o]
        BY <1>1, <3>1 DEF Ids
      <3>3. ASSUME saved.windows = <<>>, saved.region = {}, NEW o \in DOMAIN stood
            PROVE  \E s \in some : UniqueId(s) = stood[o]
        <4>1. saved.places \subseteq Ids(some)
          BY <1>5, <3>3 DEF Valid
        <4> QED
          BY <3>1, <4>1 DEF Ids
      <3> QED
        BY <2>1, <3>2, <3>3
    <2>10. RestoredIsChosen'
      <3>1. UNCHANGED <<saved, title, stood>> /\ \A s : UniqueId(s)' = UniqueId(s)
        BY <1>1 DEF screenVars, UniqueId
      <3>2. ASSUME reliable', NEW w \in restored'.windows
            PROVE  \E n \in DOMAIN saved'.windows : Alike(w, saved.windows[n])'
        <4>1. PICK n \in DOMAIN saved.windows : \E k \in M(n) : w = listed[k]
          BY <2>2, <3>2
        <4>2. Alike(w, saved.windows[n])
          BY <2>5, <3>2, <4>1
        <4> QED
          BY <3>1, <4>2 DEF Alike
      <3>3. ASSUME reliable', NEW n \in DOMAIN saved'.windows
            PROVE  \E w \in restored'.windows : Alike(w, saved.windows[n])'
        <4>1. PICK w \in restored'.windows : Alike(w, saved.windows[n])
          BY <2>7, <3>1, <3>3
        <4> QED
          BY <3>1, <4>1 DEF Alike
      <3>4. /\ restored'.screens # {} \/ restored'.madeUp # {} \/ restored'.windows # {}
            /\ \A s \in restored'.screens : \E o \in DOMAIN stood' : UniqueId(s)' = stood'[o]
            /\ saved'.windows = <<>> /\ saved'.region = {} =>
                  /\ restored'.madeUp = saved'.madeUp
                  /\ \A o \in DOMAIN stood' : \E s \in restored'.screens : UniqueId(s)' = stood'[o]
            /\ \A w \in restored'.windows :
                  \E n \in DOMAIN saved'.windows : AppId[w] = saved'.windows[n].app
        BY <2>1, <2>4, <2>8, <2>9, <3>1
      <3>5. reliable' =>
               /\ \A w \in restored'.windows :
                     \E n \in DOMAIN saved'.windows : Alike(w, saved.windows[n])'
               /\ \A n \in DOMAIN saved'.windows :
                     \E w \in restored'.windows : Alike(w, saved.windows[n])'
        BY <3>2, <3>3
      <3> QED
        BY <3>4, <3>5, Zenon DEF RestoredIsChosen
    <2> QED
      BY <1>1, <2>10 DEF RestoreInv
  <1> QED
    BY <1>4, <1>5

LEMMA RestoreStep == RestoreInv /\ [RestoreNext]_restoreVars => RestoreInv'
  <1> SUFFICES ASSUME RestoreInv, [RestoreNext]_restoreVars PROVE RestoreInv'
    OBVIOUS
  <1>1. ASSUME NEW selection \in Selections, ForeignData(selection) PROVE RestoreInv'
    <2>1. /\ saved = NoData /\ UNCHANGED <<screenVars, listed, title, restored, reliable, stood>>
          /\ saved' = [NoData EXCEPT !.places = Ids(selection.screens), !.madeUp = selection.madeUp,
                                     !.region = selection.region]
      BY <1>1 DEF ForeignData
    <2>2. /\ saved'.ours = FALSE /\ saved'.windows = <<>>
          /\ saved'.madeUp = selection.madeUp /\ saved'.region = selection.region
      BY <2>1 DEF NoData
    <2>3. ~restored'.silent
      BY <2>1 DEF RestoreInv
    <2> QED
      BY <2>1, <2>2, <2>3, RestoreAssumption DEF RestoreAssumption, RestoreInv, RestoredIsChosen
  <1>2. ASSUME NEW s \in Plug, OutputChanges(s) PROVE RestoreInv'
    BY <1>2 DEF OutputChanges, RestoreInv, RestoredIsChosen
  <1>3. ASSUME NEW w \in CastWindow, WindowGoes(w) PROVE RestoreInv'
    <2>1. ~restored.silent /\ title' = [title EXCEPT ![w] = CHOOSE t \in Titles : TRUE]
          /\ UNCHANGED <<screenVars, saved, restored, reliable, stood>>
      BY <1>3 DEF WindowGoes
    <2>2. PICK n \in DOMAIN listed :
             listed' = SubSeq(listed, 1, n - 1) \o SubSeq(listed, n + 1, Len(listed))
      BY <1>3 DEF WindowGoes
    <2>3. listed' \in Seq(CastWindow)
      <3>1. listed \in Seq(CastWindow) /\ n \in 1..Len(listed) /\ Len(listed) \in Nat
        BY DEF RestoreInv
      <3>2. SubSeq(listed, 1, n - 1) \in Seq(CastWindow) /\ SubSeq(listed, n + 1, Len(listed)) \in Seq(CastWindow)
        BY <3>1
      <3> QED
        BY <2>2, <3>2
    <2>4. title' \in [CastWindow -> Titles]
      BY <2>1, RestoreAssumption DEF RestoreAssumption, RestoreInv
    <2> QED
      BY <2>1, <2>3, <2>4 DEF RestoreInv, RestoredIsChosen
  <1>4. ASSUME NEW w \in CastWindow, NEW t \in Titles, WindowShows(w, t) PROVE RestoreInv'
    BY <1>4 DEF WindowShows, RestoreInv, RestoredIsChosen
  <1>5. ASSUME NEW w \in CastWindow, NEW t \in Titles, TitleChanges(w, t) PROVE RestoreInv'
    BY <1>5 DEF TitleChanges, RestoreInv, RestoredIsChosen
  <1>6. CASE UNCHANGED restoreVars
    <2>1. UNCHANGED <<area, listed, title, saved, restored, reliable, stood>>
      BY <1>6 DEF restoreVars, screenVars
    <2>2. /\ \A s : UniqueId(s)' = UniqueId(s)
          /\ \A w, entry : Alike(w, entry)' = Alike(w, entry)
      BY <2>1 DEF UniqueId, Alike
    <2>3. RestoredIsChosen'
      BY <2>1, <2>2 DEF RestoreInv, RestoredIsChosen
    <2> QED
      BY <2>1, <2>3 DEF RestoreInv
  <1>7. ASSUME NEW some \in SUBSET plugged, NEW found, RestoringStart(some, found) PROVE RestoreInv'
    BY <1>7, RestoringStep
  <1> QED
    BY <1>7, <1>1, <1>2, <1>3, <1>4, <1>5, <1>6, StartAndSaveStep DEF RestoreNext

\* RestoredIsChosen: whatever screens and windows came, went, moved and changed since the
\* user chose, a cast that starts without asking shares what stands where something
\* chosen stood and what is like it, by the rules Finds, Valid and Alike.  A screen that
\* nobody chose is shared where it took the place of one that was.  Of the distance it
\* uses only that no two titles that differ have an edit distance of 0; that
\* levenshteinDistance computes it is what reliable assumes.
THEOREM RestoredAsChosen == RestoreSpec => []RestoredIsChosen
  <1>1. RestoreInit => RestoreInv
    BY RestoreAssumption DEF RestoreAssumption, RestoreInit, RestoreInv, RestoredIsChosen, NoData, Asked
  <1>2. RestoreInv => RestoredIsChosen
    BY DEF RestoreInv
  <1> QED
    BY <1>1, <1>2, RestoreStep, PTL DEF RestoreSpec

=============================================================================
