---------------------------- MODULE FileChooser ----------------------------
(***************************************************************************)
(* The file chooser portal (src/src/filechooser.cpp) and the dialog it     *)
(* shares between all calls on a phone (kirigami-filepicker).              *)
(*                                                                         *)
(* A URL is its scheme and its path, a sequence of names; a name is the    *)
(* sequence of its parts between dots.  The accept label, the name to save *)
(* under, the size and the modality of the dialog are left out; choices     *)
(* are none or some.                                                       *)
(***************************************************************************)
EXTENDS Integers, Sequences

CONSTANTS
    FileCall, \* calls of OpenFile and SaveFile
    Options,  \* what applications ask for: see the record in OpenDialog
    Picks     \* what users select: sequences of URLs

VARIABLES
    mobile,     \* QT_QUICK_CONTROLS_MOBILE
    chooser,    \* chooser[c]: none, shown or answered
    wanted,     \* wanted[c]: the method and the options of the call
    selected,   \* selected[c]: URLs selected when the dialog is shown
    mountPoint, \* the mount point of the document portal, once it is known
    fuse,       \* isKIOFuseAvailable
    nested,     \* calls in MobileFileDialog::exec, the innermost last
    exitCode,   \* exitCode[c]: of the exec of the call
    quitting,   \* calls whose event loop was told to quit
    results,    \* m_results of the mobile dialog
    form,       \* what its callback object is set to
    answer,     \* answer[c]: response, uris, choices and current_filter
    picked,     \* history: picked[c]: what was selected in a dialog for c alone
    overlapped  \* history: calls that shared the mobile dialog with another

filesVars == <<mobile, chooser, wanted, selected, mountPoint, fuse, nested, exitCode,
               quitting, results, form, answer, picked, overlapped>>

NoChoices == [control \in {} |-> ""]
NoAnswer == [response |-> -1, uris |-> <<>>, choices |-> NoChoices, filter |-> {}]
Fresh == [existing |-> TRUE, folder |-> FALSE, multiple |-> TRUE, filter |-> {}]

FilesInit ==
    /\ mobile \in BOOLEAN
    /\ fuse \in BOOLEAN
    /\ chooser = [c \in FileCall |-> "none"]
    /\ wanted = [c \in FileCall |-> CHOOSE o \in Options : TRUE]
    /\ selected = [c \in FileCall |-> <<>>]
    /\ mountPoint = "unknown"
    /\ nested = <<>>
    /\ exitCode = [c \in FileCall |-> 0]
    /\ quitting = {}
    /\ results = <<>>
    /\ form = Fresh
    /\ answer = [c \in FileCall |-> NoAnswer]
    /\ picked = [c \in FileCall |-> <<>>]
    /\ overlapped = {}

-----------------------------------------------------------------------------
(* URLs.                                                                   *)

Front(s) == SubSeq(s, 1, Len(s) - 1)
Last(s) == s[Len(s)]
Items(s) == {s[n] : n \in DOMAIN s}

\* Users select local files and remote ones, none under the mount of KIOFuse.
ASSUME FileChooserAssumption ==
    /\ Picks \subseteq Seq([scheme : {"file", "smb"}, path : Seq(Seq(STRING))])
    /\ \A urls \in Picks : \A i \in DOMAIN urls :
          LET path == urls[i].path
          IN  path # <<>> /\ path[1] # <<"mount">> /\ Last(path) # <<>>
    /\ Options # {}
    /\ \A o \in Options : o.choices \in Seq([id : STRING, of : SUBSET STRING])

FromLocalFile(path) == [scheme |-> "file", path |-> path]
CompleteBaseName(name) == IF Len(name) > 1 THEN Front(name) ELSE name

\* Each remote URL is replaced by its place under the mount of its folder, if that
\* can be mounted; one at the top of its server by a folder with an empty name in it.
FuseRedirect(urls, mountable) ==
    [i \in DOMAIN urls |->
        LET url == urls[i]
            Mounted(path) == [scheme |-> "file", path |-> <<<<"mount">>, path>>]
        IN  IF url.scheme = "file" \/ i \notin mountable THEN url
            ELSE IF Len(url.path) > 1
                 THEN [Mounted(Front(url.path)) EXCEPT !.path = Append(@, Last(url.path))]
                 ELSE [Mounted(url.path) EXCEPT !.path = Append(@, <<>>)]]

\* The URL that a redirected one stands for.
Origin(url) ==
    IF url.path[1] # <<"mount">> THEN url
    ELSE [scheme |-> "smb",
          path |-> IF Last(url.path) = <<>> THEN url.path[2] ELSE Append(url.path[2], Last(url.path))]

\* Where a path in a sandbox is: the document portal, asked for what it has under the
\* id in the path, and KIOFuse, asked for the remote URL, answer with at most one
\* path each.  A failed GetMountPoint is tried again by the next call.
KioUrlFromSandboxPath(path, document, remote, point) ==
    IF path = <<>> THEN <<>>
    ELSE IF point = "known" /\ path[1] # <<"doc">> THEN <<FromLocalFile(path)>>
    ELSE IF document = <<>> THEN <<FromLocalFile(path)>>
    ELSE IF ~fuse THEN <<FromLocalFile(document[1])>>
    ELSE IF remote = <<>> THEN <<FromLocalFile(path)>>
    ELSE <<[scheme |-> "smb", path |-> Front(remote[1])]>>

\* What SaveFile selects: the current file, in the current folder if there is one,
\* else the URL of the file itself with its base name appended.
SelectedForSaving(o, folder, file) ==
    LET under == IF folder = <<>> THEN file ELSE folder
    IN  IF o.currentFile = <<>> THEN <<>>
        ELSE <<[under[1] EXCEPT !.path = Append(@, CompleteBaseName(Last(o.currentFile)))]>>

-----------------------------------------------------------------------------
(* Filters and choices.                                                    *)

\* A name filter is "*." and a sequence of letters, of which <<l, l>> stands for both
\* cases of l in brackets.  One of nothing but such pairs becomes one of letters.
Normalised(filter) ==
    IF \A i \in DOMAIN filter : Len(filter[i]) = 2 /\ filter[i][1] = filter[i][2]
    THEN [i \in DOMAIN filter |-> <<filter[i][1]>>]
    ELSE filter

ExtractFilters(o) == {Normalised(filter) : filter \in o.filters}

\* A check box for an option without choices, a combo box for any other; of two
\* controls of a kind for an id the later is asked.
Controls(o) ==
    LET Later(n) == \E k \in n+1..Len(o.choices) :
                        /\ o.choices[k].id = o.choices[n].id
                        /\ (o.choices[k].of = {}) = (o.choices[n].of = {})
    IN  {o.choices[n] : n \in {k \in DOMAIN o.choices : ~Later(k)}}

\* What the user may have set them to.
EvaluateSelectedChoices(o) ==
    LET Values(control) == IF control.of = {} THEN {"true", "false"} ELSE control.of
    IN  {value \in [Controls(o) -> UNION {Values(k) : k \in Controls(o)}] :
            \A k \in Controls(o) : value[k] \in Values(k)}

-----------------------------------------------------------------------------
(* Calls on a desktop.                                                     *)

NoMobile == UNCHANGED <<mobile, fuse, nested, exitCode, quitting, results, form, overlapped>>

OpenDialog(c, o) ==
    /\ ~mobile
    /\ chooser[c] = "none"
    /\ chooser' = [chooser EXCEPT ![c] = "shown"]
    /\ wanted' = [wanted EXCEPT ![c] = o]
    /\ mountPoint' \in IF o.currentFolder = <<>> /\ (o.method = "open" \/ o.currentFile = <<>>)
                       THEN {mountPoint} ELSE {mountPoint, "known"}
    /\ \E document \in {<<>>, <<<<<<"home">>, <<"a", "txt">>>>>>},
          remote \in {<<>>, <<<<<<"share">>, <<"a", "txt">>>>>>} :
         LET folder == KioUrlFromSandboxPath(o.currentFolder, document, remote, mountPoint')
             file == KioUrlFromSandboxPath(o.currentFile, document, remote, mountPoint')
         IN  selected' = [selected EXCEPT
                ![c] = IF o.method = "open" THEN folder ELSE SelectedForSaving(o, folder, file)]
    /\ UNCHANGED <<answer, picked>> /\ NoMobile

\* QFileDialog is used for folders without choices.
PlainFolder(o) == o.method = "open" /\ o.directory /\ o.choices = <<>>

\* Nothing selected is an error of QFileDialog, a cancelled FileDialog, or saved.
ResponseTo(o, urls) ==
    IF urls # <<>> \/ o.method = "save" THEN 0 ELSE IF PlainFolder(o) THEN 2 ELSE 1

\* The user presses Open or Save.
AcceptFiles(c) ==
    /\ ~mobile
    /\ chooser[c] = "shown"
    /\ chooser' = [chooser EXCEPT ![c] = "answered"]
    /\ \E urls \in Picks, mountable \in SUBSET (1..2) :
         LET o == wanted[c]
             response == ResponseTo(o, urls)
         IN  /\ picked' = [picked EXCEPT ![c] = urls]
             /\ \E choices \in IF PlainFolder(o) THEN {NoChoices} ELSE EvaluateSelectedChoices(o) :
                  answer' = [answer EXCEPT ![c] =
                    IF response # 0 THEN [NoAnswer EXCEPT !.response = response]
                    ELSE [response |-> 0, uris |-> FuseRedirect(urls, mountable), choices |-> choices,
                          filter |-> IF PlainFolder(o) THEN {} ELSE ExtractFilters(o)]]
    /\ UNCHANGED <<wanted, selected, mountPoint>> /\ NoMobile

\* The user, or Close of the request.
RejectFiles(c) ==
    /\ ~mobile
    /\ chooser[c] = "shown"
    /\ chooser' = [chooser EXCEPT ![c] = "answered"]
    /\ answer' = [answer EXCEPT ![c] = [NoAnswer EXCEPT !.response = 1]]
    /\ UNCHANGED <<wanted, selected, mountPoint, picked>> /\ NoMobile

-----------------------------------------------------------------------------
(* Calls on a phone: one dialog, and an event loop in the event loop.      *)

NoDesktop == UNCHANGED <<mobile, fuse, selected, mountPoint>>

\* OpenFile and SaveFile reset the dialog and set what they were asked for; SaveFile
\* leaves "multiple" and "folder" as reset left them.
SetForm(o) ==
    form' = [Fresh EXCEPT
        !.existing = (o.method = "open"),
        !.folder = (o.method = "open" /\ o.directory),
        !.multiple = IF o.method = "open" THEN o.multiple ELSE @,
        !.filter = ExtractFilters(o)]

Enter(c) ==
    /\ nested' = Append(nested, c)
    /\ exitCode' = [exitCode EXCEPT ![c] = 0]
    /\ overlapped' = IF nested = <<>> THEN overlapped
                     ELSE overlapped \cup {c} \cup Items(nested)

\* Variant: the results of the call before were kept.
ExecKeepsResults(c) == Enter(c) /\ UNCHANGED results

\* "Reset old data"
Exec(c) == Enter(c) /\ results' = <<>>

OpenMobile(c, o) ==
    /\ mobile
    /\ chooser[c] = "none"
    /\ chooser' = [chooser EXCEPT ![c] = "shown"]
    /\ wanted' = [wanted EXCEPT ![c] = o]
    /\ SetForm(o)
    /\ Exec(c)
    /\ UNCHANGED <<quitting, answer, picked>> /\ NoDesktop

Everyone == Items(nested)

\* accepted reaches the handlers of every exec, and quits every loop.
AcceptMobile ==
    /\ Everyone \ quitting # {}
    /\ \E urls \in Picks :
         /\ results' = urls
         /\ picked' = [picked EXCEPT ![Last(nested)] = urls]
    /\ exitCode' = [c \in FileCall |-> IF c \in Everyone THEN 0 ELSE exitCode[c]]
    /\ quitting' = quitting \cup Everyone
    /\ UNCHANGED <<chooser, wanted, nested, form, answer, overlapped>> /\ NoDesktop

\* cancel, by the button or because the window closes.
CancelMobile ==
    /\ Everyone \ quitting # {}
    /\ exitCode' = [c \in FileCall |-> IF c \in Everyone THEN 1 ELSE exitCode[c]]
    /\ quitting' = quitting \cup Everyone
    /\ UNCHANGED <<chooser, wanted, nested, results, form, answer, picked, overlapped>> /\ NoDesktop

\* The innermost exec returns, and its call takes the results, cancelled or not.
ReturnMobile(c) ==
    /\ nested # <<>> /\ c = Last(nested) /\ c \in quitting
    /\ nested' = Front(nested)
    /\ quitting' = quitting \ {c}
    /\ chooser' = [chooser EXCEPT ![c] = "answered"]
    /\ \E mountable \in SUBSET (1..2) :
         answer' = [answer EXCEPT ![c] =
            [NoAnswer EXCEPT !.response = exitCode[c], !.uris = FuseRedirect(results, mountable)]]
    /\ UNCHANGED <<wanted, exitCode, results, form, picked, overlapped>> /\ NoDesktop

FilesNext ==
    \/ \E c \in FileCall :
         \/ \E o \in Options : OpenDialog(c, o) \/ OpenMobile(c, o)
         \/ AcceptFiles(c) \/ RejectFiles(c) \/ ReturnMobile(c)
    \/ AcceptMobile \/ CancelMobile

-----------------------------------------------------------------------------
\* The files a call is answered with are those that were selected in a dialog shown
\* for this call, in order, each at most redirected; a call that was cancelled is
\* given none; and on a desktop every choice that was offered has a value.  On a phone
\* this needs calls that do not overlap.
FilesForTheCaller ==
    \A c \in FileCall \ overlapped :
        LET a == answer[c]
        IN  chooser[c] = "answered" =>
              /\ IF a.response = 0
                 THEN /\ Len(a.uris) = Len(picked[c])
                      /\ \A i \in DOMAIN a.uris : Origin(a.uris[i]) = picked[c][i]
                 ELSE a.uris = <<>>
              /\ a.response = 0 /\ ~mobile /\ ~PlainFolder(wanted[c]) =>
                    {k.id : k \in DOMAIN a.choices} = {o.id : o \in Items(wanted[c].choices)}

=============================================================================
