----------------------------- MODULE PcmInstall -----------------------------
(* KiCad's plugin and content manager in the extension (PcmService):          *)
(* installs, updates and uninstalls that overlap, the package files, and the  *)
(* three records of what is installed: the service's map, the global state    *)
(* and KiCad's own installed_packages.json, which KiCad writes as well.       *)
EXTENDS Naturals, Sequences, FiniteSets

CONSTANTS
  Package,       \* packages whose library names share no prefix
  Op,            \* commands that may be under way
  MaxVersion,    \* versions the repository publishes
  MaxRestarts

ASSUME PcmAssumption == MaxVersion \in Nat \ {0} /\ MaxRestarts \in Nat

Version == 0 .. MaxVersion  \* 0: none

VARIABLES
  cliInstalls,   \* whether kicad-cli has "pcm install", which makes every
                 \*   install one of the CLI; otherwise it is a direct one
  published,     \* the newest version in the repository
  listed,        \* the newest version in the loaded repository
  shown,         \* the version the loaded package says is installed
  installed,     \* the map of installed packages: their versions
  files,         \* the version in the package's directory
  memento,       \* the map in the global state on disk
  managed,       \* managedIdentifiers
  byStudio,      \* the version in installed_packages.json, put by the extension
  byKiCad,       \* and the one put by KiCad
  writes,        \* the commands in write(), which await the global state, with
                 \*   the versions each is to write
  kind, package, \* what each command does, "none" for none, to which package
  latest, had,   \* latestVersion and installed of the object it was given
  progress,      \* where it stands
  restarts,
  everManaged,   \* history: packages the extension ever installed
  everKiCad,     \* history: packages KiCad installed itself
  cutOff         \* history: packages a restart left with records that differ

catalog  == <<published, listed, shown>>
records  == <<installed, memento, managed, everManaged>>
file     == <<byStudio, byKiCad, everKiCad>>
commands == <<kind, package, latest, had, progress>>
pcmVars  == <<cliInstalls, catalog, records, file, files, writes, commands, restarts,
              cutOff>>

NonePer == [p \in Package |-> 0]

PcmInit ==
  /\ cliInstalls \in BOOLEAN
  /\ published = [p \in Package |-> 1] /\ listed = published /\ shown = NonePer
  /\ installed = NonePer /\ memento = NonePer
  /\ files = NonePer
  /\ managed = {}
  /\ byStudio = NonePer /\ byKiCad = NonePer
  /\ writes = <<>>
  /\ kind = [o \in Op |-> "none"]
  /\ package \in [Op -> {CHOOSE p \in Package : TRUE}]
  /\ latest = [o \in Op |-> 0] /\ had = [o \in Op |-> 0]
  /\ progress = [o \in Op |-> "idle"]
  /\ restarts = 0 /\ everManaged = {} /\ everKiCad = {} /\ cutOff = {}

MovesOn(o, to) == progress' = [progress EXCEPT ![o] = to]

(* The command is over; its arguments are forgotten.                          *)
Ends(o) ==
  /\ MovesOn(o, "idle")
  /\ kind' = [kind EXCEPT ![o] = "none"]
  /\ package' = [package EXCEPT ![o] = CHOOSE p \in Package : TRUE]
  /\ latest' = [latest EXCEPT ![o] = 0]
  /\ had' = [had EXCEPT ![o] = 0]

(* write(): the managed packages, the update of the global state, an await.   *)
Write(o, versions) ==
  /\ installed' = versions
  /\ managed' = managed \cup {p \in Package : versions[p] # 0}
  /\ everManaged' = everManaged \cup {p \in Package : versions[p] # 0}
  /\ writes' = Append(writes, [op |-> o, versions |-> versions])
  /\ UNCHANGED memento

(* A command is given a package object of the list, or, as updateAllPackages  *)
(* and an item of an old tree, keeps it until its turn comes.                 *)
Pick(o, p, what) ==
  /\ kind[o] = "none"
  /\ kind' = [kind EXCEPT ![o] = what]
  /\ package' = [package EXCEPT ![o] = p]
  /\ latest' = [latest EXCEPT ![o] = IF what = "uninstall" THEN 0 ELSE listed[p]]
  /\ had' = [had EXCEPT ![o] = IF what = "update" THEN shown[p] ELSE 0]
  /\ MovesOn(o, "picked")
  /\ UNCHANGED <<cliInstalls, catalog, records, file, files, writes, restarts, cutOff>>

(* installPackage up to its first await, over the files there are then.       *)
StartInstall(o) ==
  LET p == package[o]
  IN /\ progress[o] = "picked"
     /\ \/ kind[o] = "install"
        \/ kind[o] = "update" /\ installed[p] = 0
     /\ IF installed[p] = latest[o]
          THEN Ends(o)
          ELSE MovesOn(o, "installing") /\ UNCHANGED <<kind, package, latest, had>>
     /\ UNCHANGED <<cliInstalls, catalog, records, file, files, writes, restarts, cutOff>>

(* updatePackage, which asks the object whether there is an update, and       *)
(* removes the files before it installs.                                      *)
StartUpdate(o) ==
  LET p == package[o]
  IN /\ progress[o] = "picked" /\ kind[o] = "update" /\ installed[p] # 0
     /\ IF had[o] # 0 /\ latest[o] > had[o]
          THEN /\ files' = [files EXCEPT ![p] = 0]
               /\ IF installed[p] = latest[o]
                    THEN Ends(o)
                    ELSE MovesOn(o, "installing") /\ UNCHANGED <<kind, package, latest, had>>
          ELSE Ends(o) /\ UNCHANGED files
     /\ UNCHANGED <<cliInstalls, catalog, records, file, writes, restarts, cutOff>>

(* kicad-cli has installed it, or the archive was downloaded, extracted and   *)
(* published by a rename; either way the map is written.                      *)
Install(o) ==
  LET p == package[o]
  IN /\ progress[o] = "installing"
     /\ files' = IF cliInstalls THEN files ELSE [files EXCEPT ![p] = latest[o]]
     /\ Write(o, [installed EXCEPT ![p] = latest[o]])
     /\ MovesOn(o, "storing")
     /\ UNCHANGED <<cliInstalls, catalog, file, kind, package, latest, had, restarts, cutOff>>

(* The CLI, the download, the checksum or the archive fails.                  *)
InstallFails(o) ==
  /\ progress[o] = "installing"
  /\ Ends(o)
  /\ UNCHANGED <<cliInstalls, catalog, records, file, files, writes, restarts, cutOff>>

UninstallKeepsFiles(o) ==
  LET p == package[o]
  IN /\ progress[o] = "picked" /\ kind[o] = "uninstall"
     /\ IF installed[p] = 0
          THEN Ends(o) /\ UNCHANGED <<records, writes>>
          ELSE /\ Write(o, [installed EXCEPT ![p] = 0])
               /\ MovesOn(o, "storing")
               /\ UNCHANGED <<kind, package, latest, had>>
     /\ UNCHANGED <<cliInstalls, catalog, file, files, restarts, cutOff>>

UninstallStoresFirst(o) ==
  LET p == package[o]
  IN /\ progress[o] = "picked" /\ kind[o] = "uninstall" /\ installed[p] # 0
     /\ files' = [files EXCEPT ![p] = 0]
     /\ installed' = [installed EXCEPT ![p] = 0]
     /\ writes' = Append(writes, [op |-> o, versions |-> installed])
     /\ MovesOn(o, "storing")
     /\ UNCHANGED <<cliInstalls, catalog, file, kind, package, latest, had, memento,
                    managed, everManaged, restarts, cutOff>>

(* uninstallPackage up to its await.                                          *)
Uninstall(o) ==
  LET p == package[o]
  IN /\ progress[o] = "picked" /\ kind[o] = "uninstall"
     /\ IF installed[p] = 0
          THEN Ends(o) /\ UNCHANGED <<files, records, writes>>
          ELSE /\ files' = [files EXCEPT ![p] = 0]
               /\ Write(o, [installed EXCEPT ![p] = 0])
               /\ MovesOn(o, "storing")
               /\ UNCHANGED <<kind, package, latest, had>>
     /\ UNCHANGED <<cliInstalls, catalog, file, restarts, cutOff>>

WriteOnlyOurs ==
  /\ writes # <<>>
  /\ byStudio' = Head(writes).versions /\ memento' = byStudio'
  /\ byKiCad' = NonePer
  /\ writes' = Tail(writes)
  /\ MovesOn(Head(writes).op, "indexing")
  /\ UNCHANGED <<cliInstalls, catalog, installed, managed, everManaged, everKiCad,
                 files, kind, package, latest, had, restarts, cutOff>>

WriteCoalesced ==
  /\ writes # <<>>
  /\ byStudio' = writes[Len(writes)].versions /\ memento' = byStudio'
  /\ writes' = <<>>
  /\ MovesOn(writes[Len(writes)].op, "indexing")
  /\ UNCHANGED <<cliInstalls, catalog, installed, managed, everManaged, byKiCad,
                 everKiCad, files, kind, package, latest, had, restarts, cutOff>>

(* The global state has taken the oldest write, and installed_packages.json   *)
(* is written: the packages of that write, and of the others there are those  *)
(* the extension has not managed.                                             *)
WriteFile ==
  /\ writes # <<>>
  /\ LET versions == Head(writes).versions
         Ours(p)  == versions[p] # 0 \/ p \in managed
     IN /\ byStudio' = [p \in Package |-> IF Ours(p) THEN versions[p] ELSE byStudio[p]]
        /\ byKiCad' = [p \in Package |-> IF Ours(p) THEN 0 ELSE byKiCad[p]]
        /\ memento' = versions
  /\ writes' = Tail(writes)
  /\ MovesOn(Head(writes).op, "indexing")
  /\ UNCHANGED <<cliInstalls, catalog, installed, managed, everManaged, everKiCad,
                 files, kind, package, latest, had, restarts, cutOff>>

RefreshOwnState(o) ==
  /\ progress[o] = "indexing"
  /\ shown' = [shown EXCEPT ![package[o]] = latest[o]]
  /\ Ends(o)
  /\ UNCHANGED <<cliInstalls, published, listed, records, file, files, writes, restarts, cutOff>>

(* The index is rebuilt, and the loaded packages get their new states.        *)
RefreshStates(o) ==
  /\ progress[o] = "indexing"
  /\ shown' = installed
  /\ Ends(o)
  /\ UNCHANGED <<cliInstalls, published, listed, records, file, files, writes, restarts, cutOff>>

(* A refresh of the one repository configured.                                *)
RefreshRepositories ==
  /\ listed' = published
  /\ shown' = installed
  /\ UNCHANGED <<cliInstalls, published, records, file, files, writes, commands, restarts, cutOff>>

PublishVersion(p) ==
  /\ published[p] < MaxVersion
  /\ published' = [published EXCEPT ![p] = @ + 1]
  /\ UNCHANGED <<cliInstalls, listed, shown, records, file, files, writes,
                 commands, restarts, cutOff>>

(* KiCad's own manager installs a package the extension has not installed.    *)
KiCadInstalls(p) ==
  /\ byStudio[p] = 0 /\ byKiCad[p] = 0
  /\ byKiCad' = [byKiCad EXCEPT ![p] = published[p]]
  /\ everKiCad' = everKiCad \cup {p}
  /\ UNCHANGED <<cliInstalls, catalog, records, byStudio, files, writes,
                 commands, restarts, cutOff>>

(* The window closes or its host dies, and a new one reads the global state,  *)
(* which has taken some of the writes under way.  The files of installs and   *)
(* updates that were cut off stay as they are.                                *)
Restart ==
  /\ restarts < MaxRestarts
  /\ restarts' = restarts + 1
  /\ \E n \in 0 .. Len(writes) :
       memento' = IF n = 0 THEN memento ELSE writes[n].versions
  /\ installed' = memento'
  /\ managed' = {p \in Package : memento'[p] # 0}
  /\ listed' = published /\ shown' = memento'
  /\ writes' = <<>>
  /\ cutOff' = cutOff \cup {p \in Package : memento'[p] # installed[p]
                                            \/ memento'[p] # byStudio[p]}
  /\ kind' = [o \in Op |-> "none"] /\ progress' = [o \in Op |-> "idle"]
  /\ package' = [o \in Op |-> CHOOSE p \in Package : TRUE]
  /\ latest' = [o \in Op |-> 0] /\ had' = [o \in Op |-> 0]
  /\ UNCHANGED <<cliInstalls, published, everManaged, file, files>>

PcmNext ==
  \/ \E o \in Op :
       \/ \E p \in Package : \E what \in {"install", "update", "uninstall"} :
            Pick(o, p, what)
       \/ StartInstall(o) \/ StartUpdate(o) \/ Install(o) \/ InstallFails(o)
       \/ Uninstall(o) \/ RefreshStates(o)
  \/ WriteFile \/ RefreshRepositories \/ Restart
  \/ \E p \in Package : PublishVersion(p) \/ KiCadInstalls(p)

PcmSpec == PcmInit /\ [][PcmNext]_pcmVars
-----------------------------------------------------------------------------
(* The types, and that each command that stores waits for its own write.      *)
PcmTypeOK ==
  /\ cliInstalls \in BOOLEAN
  /\ {published, listed, shown, installed, files, memento, byStudio, byKiCad}
       \subseteq [Package -> Version]
  /\ {managed, cutOff, everManaged, everKiCad} \subseteq SUBSET Package
  /\ writes \in Seq([op : Op, versions : [Package -> Version]])
  /\ kind \in [Op -> {"none", "install", "update", "uninstall"}]
  /\ package \in [Op -> Package]
  /\ latest \in [Op -> Version] /\ had \in [Op -> Version]
  /\ progress \in [Op -> {"idle", "picked", "installing", "storing", "indexing"}]
  /\ \A o \in Op : progress[o] = "storing" <=>
       Cardinality({i \in DOMAIN writes : writes[i].op = o}) = 1
  /\ restarts \in 0 .. MaxRestarts

(* The three records agree when no write is under way: what a new window will *)
(* find installed and what KiCad is told is what the service has, in whatever *)
(* order commands end and whatever KiCad installs, but for packages a restart *)
(* has cut off.                                                               *)
RecordsAgree ==
  writes = <<>> =>
    /\ memento = installed
    /\ \A p \in Package \ cutOff : byStudio[p] = installed[p]

(* Packages only KiCad ever installed stay in its file, whatever the          *)
(* extension writes for others.                                               *)
ForeignKept == \A p \in everKiCad \ everManaged : byKiCad[p] # 0

(* No directory is left behind: files there are those of a recorded install,  *)
(* also when commands for one package overlap.                                *)
FilesAreRecorded ==
  \A p \in Package \ cutOff : files[p] # 0 => installed[p] = files[p]

(* When no command is under way the list shows what is installed.             *)
ListShowsInstalled == (\A o \in Op : kind[o] = "none") => shown = installed

=============================================================================
