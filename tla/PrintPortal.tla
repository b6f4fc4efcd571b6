---------------------------- MODULE PrintPortal ----------------------------
(***************************************************************************)
(* The print portal (src/src/print.cpp).  PreparePrint sets a QPrinter up, *)
(* shows the print dialog for it and returns its settings with a token, by *)
(* which a later Print finds the printer.                                  *)
(*                                                                         *)
(* Lengths and the yes/no and number settings that are copied as they are  *)
(* (resolution, colour, collate, reverse, margins) are left out.  A file   *)
(* name is <<n, name>> with n times "file:" in front of it: a path has     *)
(* none, a URI one.  The name "dir/" ends with a slash, "base" with the    *)
(* base name the application gives.                                        *)
(***************************************************************************)
EXTENDS Integers, Sequences

CONSTANTS
    PrintCall, \* calls of PreparePrint
    Setup,     \* what applications pass: records of the two maps of a call
    MaxClock   \* bound: seconds of the clock

\* qt_pageSizes: the PPD keys, in the order of QPageSize::PageSizeId.
PageSizes == <<
    "Letter", "Legal", "Executive.7.5x10in", "A0", "A1", "A2", "A3", "A4", "A5", "A6",
    "A7", "A8", "A9", "A10", "ISOB0", "ISOB1", "ISOB2", "ISOB3", "ISOB4", "ISOB5",
    "ISOB6", "ISOB7", "ISOB8", "ISOB9", "ISOB10", "EnvC5", "Env10", "EnvDL", "Folio",
    "Ledger", "Tabloid", "Custom", "A3Extra", "A4Extra", "A4Plus", "A4Small", "A5Extra",
    "ISOB5Extra", "B0", "B1", "B2", "B3", "B4", "B5", "B6", "B7", "B8", "B9", "B10",
    "AnsiC", "AnsiD", "AnsiE", "LegalExtra", "LetterExtra", "LetterPlus", "LetterSmall",
    "TabloidExtra", "ARCHA", "ARCHB", "ARCHC", "ARCHD", "ARCHE", "7x9", "8x10", "9x11",
    "9x12", "10x11", "10x13", "10x14", "12x11", "15x11", "Executive", "Note", "Quarto",
    "Statement", "SuperA", "SuperB", "Postcard", "DoublePostcard", "PRC16K", "PRC32K",
    "PRC32KBig", "FanFoldUS", "FanFoldGerman", "FanFoldGermanLegal", "EnvISOB4",
    "EnvISOB5", "EnvISOB6", "EnvC0", "EnvC1", "EnvC2", "EnvC3", "EnvC4", "EnvC6",
    "EnvC65", "EnvC7", "Env9", "Env11", "Env12", "Env14", "EnvMonarch", "EnvPersonal",
    "EnvChou3", "EnvChou4", "EnvInvite", "EnvItalian", "EnvKaku2", "EnvKaku3", "EnvPRC1",
    "EnvPRC2", "EnvPRC3", "EnvPRC4", "EnvPRC5", "EnvPRC6", "EnvPRC7", "EnvPRC8",
    "EnvPRC9", "EnvPRC10", "EnvYou4" >>

PageSizeId == DOMAIN PageSizes
Custom == CHOOSE id \in PageSizeId : PageSizes[id] = "Custom"

KeyForPageSizeId(id) == PageSizes[id]

\* The id of the first entry with the key.
IdsByKey ==
    [key \in {PageSizes[id] : id \in PageSizeId} |->
        CHOOSE id \in PageSizeId :
            PageSizes[id] = key /\ \A before \in 1..id-1 : PageSizes[before] # key]

\* The paper of a fresh QPrinter.
A4 == IdsByKey["A4"]

IdForPpdKey(key) == IF key \in DOMAIN IdsByKey THEN IdsByKey[key] ELSE Custom

VARIABLES
    preparing, \* preparing[c]: none, shown, accepted or rejected
    printer,   \* printer[c]: the QPrinter of the call
    printers,  \* m_printers: token |-> call whose printer it is
    now,       \* seconds since the epoch
    printed,   \* the last Print: its token, the printer it took and the job
    accepts,   \* history: calls in the order they were accepted
    token,     \* history: token[c]: the token the application was given
    steady     \* history: the clock has never been set back

printVars == <<preparing, printer, printers, now, printed, accepts, token, steady>>

NoToken == -1
Has(map, key) == key \in DOMAIN map

\* A fresh QPrinter.
NewPrinter ==
    [orientation |-> "Portrait", duplex |-> "DuplexNone", range |-> "AllPages",
     pages |-> <<0, 0>>, sheet |-> "1", layout |-> "lrtb", paper |-> A4, file |-> <<>>]

PrintInit ==
    /\ preparing = [c \in PrintCall |-> "none"]
    /\ printer = [c \in PrintCall |-> NewPrinter]
    /\ printers = [t \in {} |-> {}]
    /\ now = 0
    /\ printed = [by |-> NoToken, call |-> "none", response |-> 0, args |-> <<>>]
    /\ accepts = <<>>
    /\ token = [c \in PrintCall |-> NoToken]
    /\ steady = TRUE

-----------------------------------------------------------------------------
(* From the maps of the call to the printer, and back.                     *)

Landscape == {"landscape", "reverse_landscape"}
Duplex == [simplex |-> "DuplexNone", horizontal |-> "DuplexShortSide", vertical |-> "DuplexLongSide"]
PrintPages == [all |-> "AllPages", selection |-> "Selection", current |-> "CurrentPage",
               ranges |-> "PageRange"]

\* Settings have the values the portal documents.
ASSUME PrintAssumption ==
    /\ MaxClock \in Nat
    /\ \A setup \in Setup :
         /\ Has(setup.settings, "duplex") => setup.settings["duplex"] \in DOMAIN Duplex
         /\ Has(setup.settings, "print-pages") => setup.settings["print-pages"] \in DOMAIN PrintPages

\* A map from what the printer has to what the application calls it.
Named(table, value) == CHOOSE name \in DOMAIN table : table[name] = value

\* The URI is taken for a file name.  The base name is appended to a directory;
\* a URI that already ends with the base name is not used at all.
FileName(settings) ==
    IF ~Has(settings, "output-uri") THEN <<>>
    ELSE IF ~Has(settings, "output-basename") THEN settings["output-uri"]
    ELSE IF settings["output-uri"][2] = "dir/" THEN <<1, "dir/base">> ELSE <<>>

\* QUrl::fromLocalFile.
UriOf(file) == <<file[1] + 1, file[2]>>

\* The first number of the first range and the last of the last.
FromTo(ranges) == <<ranges[1][1], ranges[Len(ranges)][2]>>

\* The page setup is looked at last.
Orientation(settings, setup) ==
    LET wish == IF Has(setup, "Orientation") THEN setup["Orientation"]
                ELSE IF Has(settings, "orientation") THEN settings["orientation"] ELSE "portrait"
    IN  IF wish \in Landscape THEN "Landscape" ELSE "Portrait"

LoadPrinter(settings, setup) ==
    LET Given(key, table, otherwise) ==
            IF Has(settings, key) THEN table[settings[key]] ELSE otherwise
    IN  [orientation |-> Orientation(settings, setup),
         duplex |-> Given("duplex", Duplex, NewPrinter.duplex),
         range |-> Given("print-pages", PrintPages, NewPrinter.range),
         pages |-> IF Has(settings, "page-ranges") THEN FromTo(settings["page-ranges"]) ELSE <<0, 0>>,
         sheet |-> IF Has(settings, "number-up") THEN settings["number-up"] ELSE "1",
         layout |-> IF Has(settings, "number-up-layout") THEN settings["number-up-layout"] ELSE "lrtb",
         paper |-> IF Has(setup, "PPDName") THEN IdForPpdKey(setup["PPDName"])
                   ELSE IF Has(setup, "Name") THEN Custom ELSE A4,
         file |-> FileName(settings)]

\* Pages count from 0 in what is returned, from 1 in Qt.
FromZero(page) == IF page = 0 THEN 0 ELSE page - 1

\* Keys that are there on a condition only.
Only(condition, map) == IF condition THEN map ELSE [k \in {} |-> {}]
Both(f, g) == [k \in DOMAIN f \cup DOMAIN g |-> IF k \in DOMAIN f THEN f[k] ELSE g[k]]

SettingsOf(p) ==
    Both([k \in {"duplex"} |-> Named(Duplex, p.duplex)],
    Both([k \in {"print-pages"} |-> Named(PrintPages, p.range)],
    Both(Only(p.range = "PageRange",
              [k \in {"page-ranges"} |-> <<<<FromZero(p.pages[1]), FromZero(p.pages[2])>>>>]),
    Both([k \in {"number-up"} |-> p.sheet],
    Both([k \in {"number-up-layout"} |-> p.layout],
         Only(p.file # <<>>, [k \in {"output-uri"} |-> UriOf(p.file)]))))))

\* Variant: the orientation was only in the settings.
PageSetupWithoutOrientation(p) ==
    Both([k \in {"Orientation"} |-> "portrait"],
         IF p.paper = Custom THEN [k \in {"Name"} |-> "Custom"]
         ELSE [k \in {"PPDName"} |-> KeyForPageSizeId(p.paper)])

PageSetupOf(p) ==
    Both([k \in {"Orientation"} |-> IF p.orientation = "Landscape" THEN "landscape" ELSE "portrait"],
         IF p.paper = Custom THEN [k \in {"Name"} |-> "Custom"]
         ELSE [k \in {"PPDName"} |-> KeyForPageSizeId(p.paper)])

-----------------------------------------------------------------------------
(* PreparePrint and its dialog.                                            *)

PreparePrint(c, setup) ==
    /\ preparing[c] = "none"
    /\ preparing' = [preparing EXCEPT ![c] = "shown"]
    /\ printer' = [printer EXCEPT ![c] = LoadPrinter(setup.settings, setup.page)]
    /\ UNCHANGED <<printers, now, printed, accepts, token, steady>>

Insert(t, c) == printers' = [u \in DOMAIN printers \cup {t} |-> IF u = t THEN c ELSE printers[u]]

\* The user may have chosen some of the pages, or a file.
AcceptPrint(c) ==
    /\ preparing[c] = "shown"
    /\ preparing' = [preparing EXCEPT ![c] = "accepted"]
    /\ printer' \in {printer,
                     [printer EXCEPT ![c].range = "PageRange", ![c].pages = <<2, 3>>],
                     [printer EXCEPT ![c].file = <<0, "chosen">>]}
    /\ Insert(now, c)
    /\ token' = [token EXCEPT ![c] = now]
    /\ accepts' = Append(accepts, c)
    /\ UNCHANGED <<now, printed, steady>>

\* By the user, or by Close of the request.
RejectPrint(c) ==
    /\ preparing[c] = "shown"
    /\ preparing' = [preparing EXCEPT ![c] = "rejected"]
    /\ UNCHANGED <<printer, printers, now, printed, accepts, token, steady>>

-----------------------------------------------------------------------------
(* Print.                                                                  *)

\* m_printers.value for a token, m_printers.last without.
PrinterFor(t) ==
    IF t # NoToken THEN {printers[u] : u \in DOMAIN printers \cap {t}}
    ELSE {printers[u] : u \in {v \in DOMAIN printers : \A w \in DOMAIN printers : w <= v}}

\* The first that is installed.
Programs == <<"lpr-cups", "lpr.cups", "lpr", "lp">>
Program(installed) ==
    LET there == {n \in DOMAIN Programs : Programs[n] \in installed}
    IN  Programs[CHOOSE n \in there : \A k \in there : n <= k]

\* cupsOptions: printer options that are not part of the document.
Sides(p) ==
    CASE p.duplex = "DuplexNone" -> "sides=one-sided"
      [] p.duplex = "DuplexLongSide" -> "sides=two-sided-long-edge"
      [] p.duplex = "DuplexShortSide" -> "sides=two-sided-short-edge"

\* printArguments: destination, copies, the options of CUPS, and the end of the
\* options; then the file.  The document has no name.
PrintArguments(p, program, cups) ==
    (IF program = "lp" THEN <<"-d", "-n">> ELSE <<"-P", "-#">>)
        \o (IF cups THEN <<Sides(p), "outputorder", "Collate">> ELSE <<>>)
        \o (IF program = "lp" THEN <<"--">> ELSE <<>>)
        \o <<"file">>

\* An exit code of 0 or less is an error; any other is the response.
ExitResponse(code) == IF code <= 0 THEN 2 ELSE code

\* A file that cannot be opened, as a URI taken for a path, is a success too.
PrintWith(t, c) ==
    LET p == printer[c]
    IN  IF p.file # <<>>
        THEN printed' = [by |-> t, call |-> c, response |-> 0,
                         args |-> IF p.file[1] = 0 THEN <<p.file[2]>> ELSE <<>>]
        ELSE \/ printed' = [by |-> t, call |-> "none", response |-> 2, args |-> <<>>]
             \/ \E installed \in {{"lp"}, {"lpr", "lp"}}, cups \in BOOLEAN, code \in 0..1 :
                    printed' = [by |-> t, call |-> c, response |-> ExitResponse(code),
                                args |-> PrintArguments(p, Program(installed), cups)]

PrintDocument(t) ==
    /\ IF PrinterFor(t) = {}
       THEN printed' = [by |-> t, call |-> "none", response |-> 2, args |-> <<>>]
       ELSE \E c \in PrinterFor(t) : PrintWith(t, c)
    /\ UNCHANGED <<preparing, printer, printers, now, accepts, token, steady>>

\* Time goes by, or the clock is set.
SetClock(t) ==
    /\ t # now
    /\ now' = t
    /\ steady' = (steady /\ t >= now)
    /\ UNCHANGED <<preparing, printer, printers, printed, accepts, token>>

PrintNext ==
    \/ \E c \in PrintCall :
         \/ \E setup \in Setup : PreparePrint(c, setup)
         \/ AcceptPrint(c) \/ RejectPrint(c)
    \/ \E t \in 0..MaxClock \cup {NoToken} : PrintDocument(t)
    \/ \E t \in 0..MaxClock : SetClock(t)

-----------------------------------------------------------------------------
\* The settings an application is given with a token describe the printer, as it
\* would be set up from them; but for the page numbers, which come back one lower,
\* and the name of a file.
Described(c) ==
    LET p == printer[c]
        again == LoadPrinter(SettingsOf(p), PageSetupOf(p))
    IN  again = [p EXCEPT !.pages = again.pages, !.file = again.file]

\* Print with a token takes the printer of the dialog that gave it, the later of two
\* accepted within a second, and that printer is as the application was told.  Print
\* without a token takes the printer of the dialog accepted last, if the clock has
\* never been set back.
PrintsAsPrepared ==
    LET c == printed'.call
        by == printed'.by
        Last(calls) == accepts[CHOOSE n \in calls : \A k \in calls : k <= n]
    IN  printed' # printed /\ c # "none" =>
          /\ Described(c)
          /\ by # NoToken => c = Last({n \in DOMAIN accepts : token[accepts[n]] = by})
          /\ by = NoToken /\ steady => c = Last(DOMAIN accepts)

PrintedAsPrepared == [][PrintsAsPrepared]_printVars

=============================================================================
