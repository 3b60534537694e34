--------------------------- MODULE PcmInstallProofs ---------------------------
(* The records of what is installed, for any packages, commands, versions and *)
(* restarts.                                                                  *)
EXTENDS PcmInstall, FiniteSetTheorems, TLAPS

StoreWrite == [op : Op, versions : [Package -> Version]]
Progress == {"idle", "picked", "installing", "storing", "indexing"}

\* The types the invariants need.  The package of a command is not among them:
\* an update of a function outside its domain changes nothing.
PcmData ==
  /\ published \in [Package -> Version \ {0}]
  /\ listed \in [Package -> Version] /\ shown \in [Package -> Version]
  /\ installed \in [Package -> Version] /\ files \in [Package -> Version]
  /\ memento \in [Package -> Version]
  /\ byStudio \in [Package -> Version] /\ byKiCad \in [Package -> Version]
  /\ managed \in SUBSET Package
  /\ writes \in Seq(StoreWrite)
  /\ latest \in [Op -> Version]
  /\ kind \in [Op -> {"none", "install", "update", "uninstall"}]
  /\ progress \in [Op -> Progress]

\* A command is storing while one write of it is under way.
OwnWrite ==
  /\ \A o \in Op : kind[o] = "none" => progress[o] = "idle"
  /\ \A i \in DOMAIN writes : progress[writes[i].op] = "storing"
  /\ \A i, j \in DOMAIN writes : writes[i].op = writes[j].op => i = j
  /\ \A o \in Op : progress[o] = "storing" => \E i \in DOMAIN writes : writes[i].op = o

QueueInv == PcmData /\ OwnWrite

LEMMA PcmConstants ==
  /\ Version \subseteq Nat /\ 0 \in Version /\ 1 \in Version
  /\ NonePer \in [Package -> Version]
BY PcmAssumption DEF Version, NonePer

LEMMA QueueInit == PcmInit => QueueInv
BY PcmConstants DEF PcmInit, QueueInv, PcmData, OwnWrite, Progress, NonePer

LEMMA WriteQueues ==
  ASSUME QueueInv, NEW o \in Op, NEW versions \in [Package -> Version],
         Write(o, versions), progress[o] \notin {"idle", "storing"},
         MovesOn(o, "storing"), kind' = kind
  PROVE  OwnWrite' /\ writes' \in Seq(StoreWrite) /\ progress' \in [Op -> Progress]
         /\ installed' \in [Package -> Version] /\ managed' \in SUBSET Package
<1> USE DEF QueueInv, PcmData
<1> DEFINE w == [op |-> o, versions |-> versions]
<1>1. w \in StoreWrite /\ writes' = Append(writes, w)
  BY DEF Write, StoreWrite
<1>2. writes' \in Seq(StoreWrite) /\ DOMAIN writes' = DOMAIN writes \cup {Len(writes) + 1}
      /\ writes'[Len(writes) + 1] = w /\ Len(writes) + 1 \notin DOMAIN writes
      /\ \A i \in DOMAIN writes : writes'[i] = writes[i]
  BY <1>1
<1>3. progress' = [progress EXCEPT ![o] = "storing"]
  BY DEF MovesOn
<1>4. w.op = o
  OBVIOUS
<1> HIDE DEF w
<1>5. \A i \in DOMAIN writes : writes[i].op # o
  BY DEF OwnWrite
<1>6. OwnWrite'
  <2>1. \A q \in Op : kind'[q] = "none" => progress'[q] = "idle"
    BY <1>3 DEF OwnWrite
  <2>2. \A i \in DOMAIN writes' : progress'[writes'[i].op] = "storing"
    <3> SUFFICES ASSUME NEW i \in DOMAIN writes' PROVE progress'[writes'[i].op] = "storing"
      OBVIOUS
    <3>1. CASE i = Len(writes) + 1
      BY <1>2, <1>3, <1>4, <3>1
    <3>2. CASE i \in DOMAIN writes
      <4>1. progress[writes[i].op] = "storing" /\ writes'[i] = writes[i]
        BY <1>2, <3>2 DEF OwnWrite
      <4>2. progress'[writes[i].op] = progress[writes[i].op]
        BY <1>3, <1>5, <3>2
      <4> QED BY <4>1, <4>2
    <3> QED BY <1>2, <3>1, <3>2
  <2>3. \A i, j \in DOMAIN writes' : writes'[i].op = writes'[j].op => i = j
    BY <1>2, <1>4, <1>5 DEF OwnWrite
  <2>4. \A q \in Op : progress'[q] = "storing" => \E i \in DOMAIN writes' : writes'[i].op = q
    BY <1>2, <1>3, <1>4 DEF OwnWrite
  <2> QED BY <2>1, <2>2, <2>3, <2>4 DEF OwnWrite
<1> QED BY <1>2, <1>3, <1>6 DEF Progress, Write

\* The rest of the queue after its head.
LEMMA TailOf ==
  ASSUME writes \in Seq(StoreWrite), writes # <<>>, writes' = Tail(writes)
  PROVE  /\ 1 \in DOMAIN writes /\ Head(writes) = writes[1]
         /\ Head(writes).op \in Op /\ Head(writes).versions \in [Package -> Version]
         /\ writes' \in Seq(StoreWrite)
         /\ \A i \in DOMAIN writes' : i + 1 \in DOMAIN writes /\ writes'[i] = writes[i + 1]
                                      /\ i + 1 # 1 /\ i \in Nat
         /\ \A i \in DOMAIN writes \ {1} : i - 1 \in DOMAIN writes' /\ writes'[i - 1] = writes[i]
<1>1. 1 \in DOMAIN writes /\ Head(writes) = writes[1]
  OBVIOUS
<1>2. Head(writes) \in StoreWrite
  BY <1>1
<1>3. writes' \in Seq(StoreWrite) /\ Len(writes') = Len(writes) - 1
  OBVIOUS
<1>4. \A i \in DOMAIN writes' : i + 1 \in DOMAIN writes /\ writes'[i] = writes[i + 1]
                                /\ i + 1 # 1 /\ i \in Nat
  BY <1>3
<1>5. \A i \in DOMAIN writes \ {1} : i - 1 \in DOMAIN writes' /\ writes'[i - 1] = writes[i]
  BY <1>3
<1> QED BY <1>1, <1>2, <1>3, <1>4, <1>5 DEF StoreWrite

\* A step of a command that neither stores nor ends a store.
LEMMA QuietQueues ==
  ASSUME QueueInv, PcmData', NEW o \in Op, progress[o] # "storing", writes' = writes,
         kind'[o] = "none" => progress'[o] = "idle", progress'[o] # "storing",
         \A q \in Op \ {o} : kind'[q] = kind[q] /\ progress'[q] = progress[q]
  PROVE  QueueInv'
<1> USE DEF QueueInv, OwnWrite
<1>1. \A i \in DOMAIN writes : writes[i].op # o
  OBVIOUS
<1>2. \A i \in DOMAIN writes : writes[i] \in StoreWrite
  BY DEF PcmData
<1>3. \A i \in DOMAIN writes : writes[i].op \in Op \ {o}
  BY <1>1, <1>2 DEF StoreWrite
<1>4. \A i \in DOMAIN writes' : progress'[writes'[i].op] = "storing"
  BY <1>3
<1> QED BY <1>4

LEMMA QueueWriteFile ==
  ASSUME QueueInv, WriteFile
  PROVE  QueueInv'
<1> USE DEF QueueInv
<1> DEFINE h == Head(writes)
<1>1. /\ 1 \in DOMAIN writes /\ h = writes[1]
      /\ h.op \in Op /\ h.versions \in [Package -> Version]
      /\ writes' \in Seq(StoreWrite)
      /\ \A i \in DOMAIN writes' : i + 1 \in DOMAIN writes /\ writes'[i] = writes[i + 1]
                                   /\ i + 1 # 1 /\ i \in Nat
      /\ \A i \in DOMAIN writes \ {1} : i - 1 \in DOMAIN writes' /\ writes'[i - 1] = writes[i]
  BY TailOf DEF WriteFile, PcmData
<1>2. progress' = [progress EXCEPT ![h.op] = "indexing"] /\ kind' = kind
      /\ memento' = h.versions
      /\ byStudio' = [p \in Package |-> IF h.versions[p] # 0 \/ p \in managed
                                         THEN h.versions[p] ELSE byStudio[p]]
      /\ byKiCad' = [p \in Package |-> IF h.versions[p] # 0 \/ p \in managed
                                        THEN 0 ELSE byKiCad[p]]
      /\ UNCHANGED <<published, listed, shown, installed, files, managed, latest>>
  BY DEF WriteFile, MovesOn, catalog
<1> HIDE DEF h
<1>3. byStudio' \in [Package -> Version] /\ byKiCad' \in [Package -> Version]
  BY <1>1, <1>2, PcmConstants DEF PcmData
<1>4. progress' \in [Op -> Progress]
  BY <1>2 DEF PcmData, Progress
<1>5. PcmData'
  BY <1>1, <1>2, <1>3, <1>4 DEF PcmData
<1>6. progress[h.op] = "storing"
  BY <1>1 DEF OwnWrite
<1>7. OwnWrite'
  <2>1. \A q \in Op : kind'[q] = "none" => progress'[q] = "idle"
    BY <1>1, <1>2, <1>6 DEF OwnWrite, PcmData
  <2>2. \A i \in DOMAIN writes' : progress'[writes'[i].op] = "storing"
    <3> SUFFICES ASSUME NEW i \in DOMAIN writes' PROVE progress'[writes'[i].op] = "storing"
      OBVIOUS
    <3>1. progress[writes[i + 1].op] = "storing" /\ writes[i + 1].op # h.op
      BY <1>1 DEF OwnWrite
    <3>2. progress'[writes[i + 1].op] = progress[writes[i + 1].op]
      BY <1>2, <3>1 DEF PcmData
    <3> QED BY <1>1, <3>1, <3>2
  <2>3. \A i, j \in DOMAIN writes' : writes'[i].op = writes'[j].op => i = j
    <3> SUFFICES ASSUME NEW i \in DOMAIN writes', NEW j \in DOMAIN writes',
                        writes'[i].op = writes'[j].op
                 PROVE  i = j
      OBVIOUS
    <3>1. i + 1 = j + 1
      BY <1>1 DEF OwnWrite
    <3> QED BY <1>1, <3>1
  <2>4. \A q \in Op : progress'[q] = "storing" => \E i \in DOMAIN writes' : writes'[i].op = q
    <3> SUFFICES ASSUME NEW q \in Op, progress'[q] = "storing"
                 PROVE  \E i \in DOMAIN writes' : writes'[i].op = q
      OBVIOUS
    <3>1. q # h.op /\ progress[q] = "storing"
      BY <1>2 DEF PcmData
    <3>2. PICK i \in DOMAIN writes : writes[i].op = q
      BY <3>1 DEF OwnWrite
    <3>3. i # 1
      BY <1>1, <3>1, <3>2
    <3> QED BY <1>1, <3>2, <3>3
  <2> QED BY <2>1, <2>2, <2>3, <2>4 DEF OwnWrite
<1> QED BY <1>5, <1>7

LEMMA EndsOf ==
  ASSUME PcmData, NEW o \in Op, Ends(o)
  PROVE  /\ progress' = [progress EXCEPT ![o] = "idle"] /\ kind' = [kind EXCEPT ![o] = "none"]
         /\ progress' \in [Op -> Progress] /\ latest' \in [Op -> Version]
         /\ kind' \in [Op -> {"none", "install", "update", "uninstall"}]
BY PcmConstants DEF PcmData, Ends, MovesOn, Progress

LEMMA QueueOp ==
  ASSUME QueueInv, NEW o \in Op,
         \/ \E p \in Package : \E what \in {"install", "update", "uninstall"} : Pick(o, p, what)
         \/ StartInstall(o) \/ StartUpdate(o) \/ Install(o) \/ InstallFails(o)
         \/ Uninstall(o) \/ RefreshStates(o)
  PROVE  QueueInv'
<1> USE DEF QueueInv, catalog, records, file, commands
<1>1. ASSUME NEW p \in Package, NEW what \in {"install", "update", "uninstall"},
             Pick(o, p, what)
      PROVE  QueueInv'
  <2>1. kind' = [kind EXCEPT ![o] = what] /\ progress' = [progress EXCEPT ![o] = "picked"]
    BY <1>1 DEF Pick, MovesOn
  <2>2. latest' \in [Op -> Version]
    BY <1>1, PcmConstants DEF Pick, PcmData
  <2>3. PcmData'
    BY <1>1, <2>1, <2>2 DEF Pick, PcmData, Progress
  <2>4. progress[o] # "storing"
    BY <1>1 DEF Pick, OwnWrite
  <2> QED BY <1>1, <2>1, <2>3, <2>4, QuietQueues DEF Pick, PcmData
<1>2. ASSUME \/ StartInstall(o) \/ StartUpdate(o) \/ InstallFails(o) \/ RefreshStates(o)
             \/ Uninstall(o) /\ installed[package[o]] = 0
      PROVE  QueueInv'
  <2>1. \/ Ends(o)
        \/ MovesOn(o, "installing") /\ UNCHANGED <<kind, latest>> /\ kind[o] # "none"
    BY <1>2 DEF StartInstall, StartUpdate, InstallFails, RefreshStates, Uninstall
  <2>2. writes' = writes /\ progress[o] # "storing"
    BY <1>2 DEF StartInstall, StartUpdate, InstallFails, RefreshStates, Uninstall
  <2>3. \/ progress' = [progress EXCEPT ![o] = "idle"] /\ kind' = [kind EXCEPT ![o] = "none"]
        \/ progress' = [progress EXCEPT ![o] = "installing"] /\ kind' = kind /\ kind[o] # "none"
    BY <2>1, EndsOf DEF MovesOn
  <2>4. progress' \in [Op -> Progress] /\ latest' \in [Op -> Version]
        /\ kind' \in [Op -> {"none", "install", "update", "uninstall"}]
    BY <2>1, EndsOf DEF MovesOn, PcmData, Progress
  <2>5. files' \in [Package -> Version] /\ shown' \in [Package -> Version]
    BY <1>2, PcmConstants
       DEF StartInstall, StartUpdate, InstallFails, RefreshStates, Uninstall, PcmData
  <2>6. UNCHANGED <<published, listed, installed, memento, byStudio, byKiCad, managed>>
    BY <1>2 DEF StartInstall, StartUpdate, InstallFails, RefreshStates, Uninstall
  <2>7. PcmData'
    BY <2>2, <2>4, <2>5, <2>6 DEF PcmData
  <2> QED BY <2>2, <2>3, <2>7, QuietQueues DEF PcmData
<1>3. ASSUME \/ Install(o)
             \/ Uninstall(o) /\ installed[package[o]] # 0
      PROVE  QueueInv'
  <2>1. PICK v \in Version : Write(o, [installed EXCEPT ![package[o]] = v])
    BY <1>3, PcmConstants DEF Install, Uninstall, PcmData
  <2>2. [installed EXCEPT ![package[o]] = v] \in [Package -> Version]
    BY DEF PcmData
  <2>3. progress[o] \notin {"idle", "storing"} /\ MovesOn(o, "storing") /\ kind' = kind
    BY <1>3 DEF Install, Uninstall
  <2>4. OwnWrite' /\ writes' \in Seq(StoreWrite) /\ progress' \in [Op -> Progress]
        /\ installed' \in [Package -> Version] /\ managed' \in SUBSET Package
    BY <2>1, <2>2, <2>3, WriteQueues
  <2>5. files' \in [Package -> Version]
    BY <1>3, PcmConstants DEF Install, Uninstall, PcmData
  <2>6. UNCHANGED <<published, listed, shown, memento, byStudio, byKiCad, kind, latest>>
    BY <1>3, <2>1 DEF Install, Uninstall, Write
  <2> QED BY <2>4, <2>5, <2>6 DEF PcmData
<1> QED BY <1>1, <1>2, <1>3

\* What Restart finds in the global state: what was there, or one of the writes.
LEMMA RestartMemento ==
  ASSUME PcmData, Restart
  PROVE  /\ memento' \in [Package -> Version]
         /\ memento' = memento \/ \E i \in DOMAIN writes : memento' = writes[i].versions
<1>1. PICK n \in 0 .. Len(writes) : memento' = IF n = 0 THEN memento ELSE writes[n].versions
  BY DEF Restart
<1>2. CASE n = 0
  BY <1>1, <1>2 DEF PcmData
<1>3. CASE n # 0
  <2>1. n \in DOMAIN writes /\ writes[n] \in StoreWrite
    BY <1>3 DEF PcmData
  <2> QED BY <1>1, <1>3, <2>1 DEF StoreWrite
<1> QED BY <1>2, <1>3

LEMMA QueueNext ==
  ASSUME QueueInv, [PcmNext]_pcmVars
  PROVE  QueueInv'
<1> USE DEF QueueInv, catalog, records, file, commands
<1>1. CASE RefreshRepositories
  BY <1>1, PcmConstants DEF RefreshRepositories, PcmData, OwnWrite
<1>2. CASE Restart
  <2>1. writes' = <<>> /\ \A o \in Op : progress'[o] = "idle" /\ kind'[o] = "none"
    BY <1>2 DEF Restart
  <2>2. OwnWrite'
    BY <2>1 DEF OwnWrite
  <2>3. memento' \in [Package -> Version] /\ writes' \in Seq(StoreWrite)
    BY <1>2, <2>1, RestartMemento
  <2>4. listed' \in [Package -> Version] /\ latest' \in [Op -> Version]
        /\ progress' \in [Op -> Progress]
    BY <1>2, PcmConstants DEF Restart, PcmData, Progress
  <2>5. PcmData'
    BY <1>2, <2>3, <2>4 DEF Restart, PcmData
  <2> QED BY <2>2, <2>5
<1>3. ASSUME NEW p \in Package, PublishVersion(p) PROVE QueueInv'
  <2>1. published' \in [Package -> Version \ {0}]
    <3>1. published[p] + 1 \in Version \ {0}
      BY <1>3, PcmAssumption DEF PublishVersion, PcmData, Version
    <3> QED BY <1>3, <3>1 DEF PublishVersion, PcmData
  <2> QED BY <1>3, <2>1 DEF PublishVersion, PcmData, OwnWrite
<1>4. ASSUME NEW p \in Package, KiCadInstalls(p) PROVE QueueInv'
  BY <1>4 DEF KiCadInstalls, PcmData, OwnWrite
<1>5. CASE UNCHANGED pcmVars
  BY <1>5 DEF pcmVars, PcmData, OwnWrite
<1> QED BY <1>1, <1>2, <1>3, <1>4, <1>5, QueueOp, QueueWriteFile DEF PcmNext
-----------------------------------------------------------------------------
\* A restart may leave a package out of the records, but whatever any record has
\* the extension manages, and once managed it.
ManagedInv ==
  /\ \A p \in Package :
       installed[p] # 0 \/ memento[p] # 0 \/ (\E i \in DOMAIN writes : writes[i].versions[p] # 0)
         => p \in managed
  /\ managed \subseteq everManaged

RecordInv == QueueInv /\ ManagedInv

\* What write() leaves: one write more, whose versions are the map's.
LEMMA Written ==
  ASSUME QueueInv, NEW o \in Op, NEW v \in Version, NEW p,
         Write(o, [installed EXCEPT ![p] = v])
  PROVE  /\ installed' = [installed EXCEPT ![p] = v] /\ installed' \in [Package -> Version]
         /\ memento' = memento
         /\ managed' = managed \cup {q \in Package : installed'[q] # 0}
         /\ everManaged' = everManaged \cup {q \in Package : installed'[q] # 0}
         /\ writes' # <<>> /\ writes'[Len(writes')].versions = installed'
         /\ \A i \in DOMAIN writes' :
              \/ writes'[i].versions = installed'
              \/ i \in DOMAIN writes /\ writes'[i] = writes[i]
<1> DEFINE w == [op |-> o, versions |-> installed']
<1> USE DEF Write, QueueInv, PcmData
<1>1. installed' = [installed EXCEPT ![p] = v] /\ installed' \in [Package -> Version]
  OBVIOUS
<1>2. w \in StoreWrite /\ writes' = Append(writes, w) /\ w.versions = installed'
  BY <1>1 DEF StoreWrite
<1> HIDE DEF w
<1>3. /\ Len(writes') = Len(writes) + 1 /\ writes'[Len(writes) + 1] = w
      /\ DOMAIN writes' = DOMAIN writes \cup {Len(writes) + 1}
      /\ \A i \in DOMAIN writes : writes'[i] = writes[i]
  BY <1>2
<1>4. writes' # <<>>
  BY <1>3
<1> QED BY <1>1, <1>2, <1>3, <1>4

LEMMA WritesOnce ==
  ASSUME QueueInv, NEW o \in Op, Install(o) \/ (Uninstall(o) /\ installed[package[o]] # 0)
  PROVE  \E v \in Version : Write(o, [installed EXCEPT ![package[o]] = v])
BY PcmConstants DEF Install, Uninstall, QueueInv, PcmData

\* The steps that leave the records and the files in them as they are.
Elsewhere ==
  \/ \E o \in Op :
       \/ \E p \in Package : \E what \in {"install", "update", "uninstall"} : Pick(o, p, what)
       \/ StartInstall(o) \/ StartUpdate(o) \/ InstallFails(o) \/ RefreshStates(o)
       \/ Uninstall(o) /\ installed[package[o]] = 0
  \/ RefreshRepositories
  \/ \E p \in Package : PublishVersion(p)
  \/ UNCHANGED pcmVars

LEMMA ElsewhereKeeps ==
  ASSUME Elsewhere
  PROVE  /\ UNCHANGED <<cliInstalls, installed, memento, managed, everManaged, writes>>
         /\ UNCHANGED <<byStudio, byKiCad, everKiCad, cutOff>>
BY DEF Elsewhere, Pick, StartInstall, StartUpdate, InstallFails, RefreshStates, Uninstall,
       RefreshRepositories, PublishVersion, pcmVars, catalog, records, file, commands

LEMMA Steps ==
  ASSUME [PcmNext]_pcmVars
  PROVE  \/ Elsewhere \/ WriteFile \/ Restart
         \/ \E o \in Op : Install(o) \/ (Uninstall(o) /\ installed[package[o]] # 0)
         \/ \E p \in Package : KiCadInstalls(p)
BY DEF PcmNext, Elsewhere

LEMMA RecordNext ==
  ASSUME RecordInv, [PcmNext]_pcmVars
  PROVE  RecordInv'
<1> USE DEF RecordInv
<1>1. QueueInv'
  BY QueueNext
<1>2. ManagedInv'
  <2>1. CASE Elsewhere
    BY <2>1, ElsewhereKeeps DEF ManagedInv
  <2>2. CASE WriteFile
    <3>1. UNCHANGED <<installed, managed, everManaged>> /\ memento' = writes[1].versions
          /\ 1 \in DOMAIN writes
          /\ \A i \in DOMAIN writes' : i + 1 \in DOMAIN writes /\ writes'[i] = writes[i + 1]
      BY <2>2, TailOf DEF WriteFile, QueueInv, PcmData
    <3> QED BY <3>1 DEF ManagedInv
  <2>3. CASE Restart
    <3>1. installed' = memento' /\ managed' = {p \in Package : memento'[p] # 0}
          /\ everManaged' = everManaged /\ writes' = <<>>
      BY <2>3 DEF Restart
    <3>2. \A p \in Package : memento'[p] # 0 => p \in managed
      BY <2>3, RestartMemento DEF ManagedInv, QueueInv
    <3> QED BY <3>1, <3>2 DEF ManagedInv
  <2>4. ASSUME NEW o \in Op, Install(o) \/ (Uninstall(o) /\ installed[package[o]] # 0)
        PROVE  ManagedInv'
    <3>1. PICK v \in Version : Write(o, [installed EXCEPT ![package[o]] = v])
      BY <2>4, WritesOnce
    <3>2. /\ memento' = memento
          /\ managed' = managed \cup {q \in Package : installed'[q] # 0}
          /\ everManaged' = everManaged \cup {q \in Package : installed'[q] # 0}
          /\ \A i \in DOMAIN writes' :
               \/ writes'[i].versions = installed'
               \/ i \in DOMAIN writes /\ writes'[i] = writes[i]
      BY <3>1, Written
    <3> QED BY <3>2 DEF ManagedInv
  <2>5. ASSUME NEW p \in Package, KiCadInstalls(p) PROVE ManagedInv'
    BY <2>5 DEF KiCadInstalls, records, ManagedInv
  <2> QED BY <2>1, <2>2, <2>3, <2>4, <2>5, Steps
<1> QED BY <1>1, <1>2

LEMMA RecordInit == PcmInit => RecordInv
BY QueueInit DEF PcmInit, RecordInv, ManagedInv, NonePer
-----------------------------------------------------------------------------
LEMMA ForeignNext ==
  ASSUME RecordInv, everKiCad \subseteq Package, ForeignKept, [PcmNext]_pcmVars
  PROVE  everKiCad' \subseteq Package /\ ForeignKept'
<1> USE DEF RecordInv, QueueInv, PcmData
<1>1. CASE Elsewhere
  BY <1>1, ElsewhereKeeps DEF ForeignKept
<1>2. CASE WriteFile
  <2> SUFFICES ASSUME NEW p \in everKiCad \ everManaged PROVE byKiCad'[p] # 0
    BY <1>2 DEF WriteFile, records, ForeignKept
  <2>1. p \in Package /\ writes[1].versions[p] = 0 /\ p \notin managed
    BY <1>2, TailOf DEF WriteFile, ManagedInv
  <2>2. byKiCad'[p] = byKiCad[p]
    BY <1>2, <2>1, TailOf DEF WriteFile
  <2> QED BY <2>2 DEF ForeignKept
<1>3. CASE Restart
  BY <1>3 DEF Restart, file, ForeignKept
<1>4. ASSUME NEW o \in Op, Install(o) \/ (Uninstall(o) /\ installed[package[o]] # 0)
      PROVE  ForeignKept'
  BY <1>4 DEF Install, Uninstall, Write, file, ForeignKept
<1>5. ASSUME NEW p \in Package, KiCadInstalls(p) PROVE ForeignKept'
  BY <1>5 DEF KiCadInstalls, records, ForeignKept
<1>6. everKiCad' \subseteq Package
  BY ElsewhereKeeps, Steps DEF WriteFile, Restart, Install, Uninstall, KiCadInstalls, file
<1> QED BY <1>1, <1>2, <1>3, <1>4, <1>5, <1>6, Steps

\* Packages only KiCad installed stay in its file, whatever the extension
\* writes for others, however writes overlap and wherever a restart falls.
THEOREM ForeignKeptAlways == PcmSpec => []ForeignKept
<1> DEFINE I == RecordInv /\ everKiCad \subseteq Package /\ ForeignKept
<1>1. PcmInit => I
  BY RecordInit DEF PcmInit, ForeignKept
<1>2. I /\ [PcmNext]_pcmVars => I'
  BY RecordNext, ForeignNext
<1>3. I => ForeignKept
  OBVIOUS
<1> QED BY <1>1, <1>2, <1>3, PTL DEF PcmSpec
-----------------------------------------------------------------------------
\* kicad-cli keeps no files here.  Otherwise a package's files are the map's
\* version of it: every step changes the two together, or removes the files.
FilesInv ==
  /\ cliInstalls => files = NonePer
  /\ FilesAreRecorded

\* A step that removes the files of packages, or of none.
LEMMA FilesOnlyGo ==
  ASSUME PcmData, FilesInv, UNCHANGED <<cliInstalls, installed, cutOff>>,
         files' = files \/ \E p : files' = [files EXCEPT ![p] = 0]
  PROVE  FilesInv'
<1>1. \A q \in Package : files'[q] = files[q] \/ files'[q] = 0
  BY DEF PcmData
<1>2. DOMAIN files' = Package
  BY DEF PcmData
<1>3. files = NonePer => files' = NonePer
  BY DEF NonePer, PcmData
<1> QED BY <1>1, <1>3 DEF FilesInv, FilesAreRecorded

LEMMA FilesNext ==
  ASSUME RecordInv, FilesInv, [PcmNext]_pcmVars
  PROVE  FilesInv'
<1> USE DEF RecordInv, QueueInv
<1>1. CASE Elsewhere
  <2>1. UNCHANGED <<cliInstalls, installed, cutOff>>
    BY <1>1, ElsewhereKeeps
  <2>2. files' = files \/ \E p : files' = [files EXCEPT ![p] = 0]
    BY <1>1 DEF Elsewhere, Pick, StartInstall, StartUpdate, InstallFails, RefreshStates,
                Uninstall, RefreshRepositories, PublishVersion, pcmVars
  <2> QED BY <2>1, <2>2, FilesOnlyGo
<1>2. CASE WriteFile \/ \E p \in Package : KiCadInstalls(p)
  BY <1>2 DEF WriteFile, KiCadInstalls, records, FilesInv, FilesAreRecorded
<1>3. CASE Restart
  <2>1. \A p \in Package \ cutOff' : p \notin cutOff /\ installed'[p] = installed[p]
    BY <1>3 DEF Restart
  <2>2. UNCHANGED <<cliInstalls, files>>
    BY <1>3 DEF Restart
  <2> QED BY <2>1, <2>2 DEF FilesInv, FilesAreRecorded
<1>4. ASSUME NEW o \in Op, Install(o) PROVE FilesInv'
  <2> DEFINE p == package[o]
  <2>1. installed' = [installed EXCEPT ![p] = latest[o]] /\ cutOff' = cutOff
        /\ cliInstalls' = cliInstalls
        /\ files' = IF cliInstalls THEN files ELSE [files EXCEPT ![p] = latest[o]]
    BY <1>4 DEF Install, Write
  <2> HIDE DEF p
  <2>2. CASE cliInstalls
    BY <2>1, <2>2 DEF FilesInv, FilesAreRecorded, NonePer
  <2>3. CASE ~cliInstalls
    <3>1. \A q \in Package : \/ files'[q] = installed'[q]
                             \/ files'[q] = files[q] /\ installed'[q] = installed[q]
      BY <2>1, <2>3 DEF PcmData
    <3> QED BY <2>1, <2>3, <3>1 DEF FilesInv, FilesAreRecorded
  <2> QED BY <2>2, <2>3
<1>5. ASSUME NEW o \in Op, Uninstall(o), installed[package[o]] # 0 PROVE FilesInv'
  <2> DEFINE p == package[o]
  <2>1. installed' = [installed EXCEPT ![p] = 0] /\ files' = [files EXCEPT ![p] = 0]
        /\ cutOff' = cutOff /\ cliInstalls' = cliInstalls
    BY <1>5 DEF Uninstall, Write
  <2> HIDE DEF p
  <2>2. \A q \in Package : \/ files'[q] = 0
                           \/ files'[q] = files[q] /\ installed'[q] = installed[q]
    BY <2>1 DEF PcmData
  <2>3. files = NonePer => files' = NonePer
    BY <2>1 DEF NonePer
  <2> QED BY <2>1, <2>2, <2>3 DEF FilesInv, FilesAreRecorded
<1> QED BY <1>1, <1>2, <1>3, <1>4, <1>5, Steps

\* No directory is left behind: files there are those of a recorded install,
\* however commands for one package overlap and whichever of them fail.
THEOREM FilesAreRecordedAlways == PcmSpec => []FilesAreRecorded
<1>1. PcmInit => RecordInv /\ FilesInv
  BY RecordInit DEF PcmInit, FilesInv, FilesAreRecorded, NonePer
<1>2. RecordInv /\ FilesInv /\ [PcmNext]_pcmVars => (RecordInv /\ FilesInv)'
  BY RecordNext, FilesNext
<1>3. FilesInv => FilesAreRecorded
  BY DEF FilesInv
<1> QED BY <1>1, <1>2, <1>3, PTL DEF PcmSpec
-----------------------------------------------------------------------------
\* The map is what the newest write under way will store, or what is stored, and
\* installed_packages.json has nothing of ours that we do not manage.
AgreeInv ==
  /\ writes # <<>> => writes[Len(writes)].versions = installed
  /\ writes = <<>> => memento = installed
  /\ \A p \in Package \ cutOff :
       /\ p \notin managed => byStudio[p] = 0
       /\ writes = <<>> => byStudio[p] = installed[p]

LEMMA AgreeNext ==
  ASSUME RecordInv, AgreeInv, [PcmNext]_pcmVars
  PROVE  AgreeInv'
<1> USE DEF RecordInv, QueueInv
<1>1. CASE Elsewhere
  BY <1>1, ElsewhereKeeps DEF AgreeInv
<1>2. CASE WriteFile
  <2>1. /\ 1 \in DOMAIN writes /\ Len(writes') = Len(writes) - 1
        /\ writes' \in Seq(StoreWrite) /\ Len(writes) \in Nat
        /\ writes' # <<>> => writes'[Len(writes')] = writes[Len(writes)]
        /\ writes' = <<>> => Len(writes) = 1
    <3>1. 1 \in DOMAIN writes /\ writes \in Seq(StoreWrite) /\ writes' \in Seq(StoreWrite)
          /\ writes' = Tail(writes) /\ writes # <<>>
      BY <1>2, TailOf DEF WriteFile, PcmData
    <3>2. Len(writes') = Len(writes) - 1 /\ Len(writes) \in Nat
      BY <3>1
    <3>3. ASSUME writes' # <<>> PROVE writes'[Len(writes')] = writes[Len(writes)]
      <4>1. Len(writes') # 0 /\ Len(writes') \in Nat
        BY <3>1, <3>3
      <4>2. DOMAIN writes' = 1 .. Len(writes')
        BY <3>1
      <4>3. Len(writes') \in DOMAIN writes'
        BY <4>1, <4>2
      <4> QED BY <1>2, <3>1, <3>2, <4>3, TailOf
    <3>4. writes' = <<>> => Len(writes) = 1
      BY <3>2
    <3> QED BY <3>1, <3>2, <3>3, <3>4
  <2>2. /\ UNCHANGED <<installed, managed, cutOff>> /\ memento' = writes[1].versions
        /\ byStudio' = [p \in Package |->
              IF writes[1].versions[p] # 0 \/ p \in managed
                THEN writes[1].versions[p] ELSE byStudio[p]]
    BY <1>2, TailOf DEF WriteFile, PcmData
  <2>3. \A p \in Package \ cutOff : byStudio'[p] = writes[1].versions[p]
    BY <2>2 DEF AgreeInv
  <2>4. \A p \in Package : p \notin managed => writes[1].versions[p] = 0
    BY <2>1 DEF ManagedInv
  <2> QED BY <2>1, <2>2, <2>3, <2>4 DEF AgreeInv
<1>3. CASE Restart
  <2>1. /\ installed' = memento' /\ managed' = {p \in Package : memento'[p] # 0}
        /\ writes' = <<>> /\ byStudio' = byStudio
        /\ \A p \in Package \ cutOff' : memento'[p] = byStudio[p]
    BY <1>3 DEF Restart, file
  <2> QED BY <2>1 DEF AgreeInv
<1>4. ASSUME NEW o \in Op, Install(o) \/ (Uninstall(o) /\ installed[package[o]] # 0)
      PROVE  AgreeInv'
  <2>1. PICK v \in Version : Write(o, [installed EXCEPT ![package[o]] = v])
    BY <1>4, WritesOnce
  <2>2. writes' # <<>> /\ writes'[Len(writes')].versions = installed' /\ managed \subseteq managed'
    BY <2>1, Written
  <2>3. byStudio' = byStudio /\ cutOff' = cutOff
    BY <1>4 DEF Install, Uninstall, file
  <2> QED BY <2>2, <2>3 DEF AgreeInv
<1>5. ASSUME NEW p \in Package, KiCadInstalls(p) PROVE AgreeInv'
  BY <1>5 DEF KiCadInstalls, records, AgreeInv
<1> QED BY <1>1, <1>2, <1>3, <1>4, <1>5, Steps

\* With no write under way the map, the global state and installed_packages.json
\* have the same versions, whatever commands and KiCad's own installs overlapped.
THEOREM RecordsAgreeAlways == PcmSpec => []RecordsAgree
<1>1. PcmInit => RecordInv /\ AgreeInv
  BY RecordInit DEF PcmInit, AgreeInv, NonePer
<1>2. RecordInv /\ AgreeInv /\ [PcmNext]_pcmVars => (RecordInv /\ AgreeInv)'
  BY RecordNext, AgreeNext
<1>3. AgreeInv => RecordsAgree
  BY DEF AgreeInv, RecordsAgree
<1> QED BY <1>1, <1>2, <1>3, PTL DEF PcmSpec
-----------------------------------------------------------------------------
\* The list is behind the map only while a command is between its write and its
\* refresh of the list.
ListInv == (\A o \in Op : progress[o] \notin {"storing", "indexing"}) => shown = installed

LEMMA ListNext ==
  ASSUME QueueInv, ListInv, [PcmNext]_pcmVars
  PROVE  ListInv'
<1> USE DEF QueueInv, PcmData
<1>1. CASE RefreshRepositories \/ Restart
  BY <1>1 DEF RefreshRepositories, Restart, records, ListInv
<1>2. CASE WriteFile
  <2>1. Head(writes).op \in Op
    BY <1>2, TailOf DEF WriteFile
  <2>2. progress'[Head(writes).op] = "indexing"
    BY <1>2, <2>1 DEF WriteFile, MovesOn
  <2> QED BY <2>1, <2>2 DEF ListInv
<1>3. ASSUME NEW o \in Op, Install(o) \/ (Uninstall(o) /\ installed[package[o]] # 0)
      PROVE  ListInv'
  BY <1>3 DEF Install, Uninstall, MovesOn, ListInv
<1>4. ASSUME NEW o \in Op, RefreshStates(o) PROVE ListInv'
  BY <1>4 DEF RefreshStates, records, ListInv
<1>5. ASSUME NEW o \in Op,
             \/ \E p \in Package : \E what \in {"install", "update", "uninstall"} : Pick(o, p, what)
             \/ StartInstall(o) \/ StartUpdate(o) \/ InstallFails(o)
             \/ Uninstall(o) /\ installed[package[o]] = 0
      PROVE  ListInv'
  <2>1. UNCHANGED <<shown, installed>>
    BY <1>5 DEF Pick, StartInstall, StartUpdate, InstallFails, Uninstall, catalog, records
  <2>2. progress[o] \notin {"storing", "indexing"}
    BY <1>5 DEF Pick, StartInstall, StartUpdate, InstallFails, Uninstall, OwnWrite
  <2>3. \E to : progress' = [progress EXCEPT ![o] = to]
    BY <1>5 DEF Pick, StartInstall, StartUpdate, InstallFails, Uninstall, Ends, MovesOn
  <2> QED BY <2>1, <2>2, <2>3 DEF ListInv
<1>6. CASE \/ \E p \in Package : PublishVersion(p) \/ KiCadInstalls(p)
           \/ UNCHANGED pcmVars
  BY <1>6 DEF PublishVersion, KiCadInstalls, pcmVars, catalog, records, commands, ListInv
<1> QED BY <1>1, <1>2, <1>3, <1>4, <1>5, <1>6 DEF PcmNext

\* When no command is under way the list shows what is installed, in whatever
\* order overlapping commands stored and refreshed it.
THEOREM ListShowsInstalledAlways == PcmSpec => []ListShowsInstalled
<1>1. PcmInit => QueueInv /\ ListInv
  BY QueueInit DEF PcmInit, ListInv
<1>2. QueueInv /\ ListInv /\ [PcmNext]_pcmVars => (QueueInv /\ ListInv)'
  BY QueueNext, ListNext
<1>3. QueueInv /\ ListInv => ListShowsInstalled
  BY DEF QueueInv, OwnWrite, ListInv, ListShowsInstalled
<1> QED BY <1>1, <1>2, <1>3, PTL DEF PcmSpec
-----------------------------------------------------------------------------
\* The types the invariants do not need.
PcmRest ==
  /\ cliInstalls \in BOOLEAN
  /\ {cutOff, everManaged, everKiCad} \subseteq SUBSET Package
  /\ package \in [Op -> Package]
  /\ had \in [Op -> Version]
  /\ restarts \in 0 .. MaxRestarts

LEMMA RestNext ==
  ASSUME Package # {}, QueueInv, PcmRest, [PcmNext]_pcmVars
  PROVE  PcmRest'
<1> USE DEF QueueInv, PcmData, catalog, records, file, commands
<1> DEFINE first == CHOOSE p \in Package : TRUE
<1>1. first \in Package
  OBVIOUS
<1> HIDE DEF first
<1>2. ASSUME NEW o \in Op, Ends(o) PROVE package' \in [Op -> Package] /\ had' \in [Op -> Version]
  BY <1>1, <1>2, PcmConstants DEF Ends, PcmRest, first
<1>3. ASSUME NEW o \in Op,
             \/ \E p \in Package : \E what \in {"install", "update", "uninstall"} : Pick(o, p, what)
             \/ StartInstall(o) \/ StartUpdate(o) \/ Install(o) \/ InstallFails(o)
             \/ Uninstall(o) \/ RefreshStates(o)
      PROVE  PcmRest'
  <2>1. package' \in [Op -> Package] /\ had' \in [Op -> Version]
    <3>1. CASE \E p \in Package : \E what \in {"install", "update", "uninstall"} : Pick(o, p, what)
      BY <3>1, PcmConstants DEF Pick, PcmRest
    <3>2. CASE Ends(o) \/ UNCHANGED <<package, had>>
      BY <1>2, <3>2 DEF PcmRest
    <3> QED
      BY <1>3, <3>1, <3>2 DEF StartInstall, StartUpdate, Install, InstallFails, Uninstall,
                              RefreshStates
  <2>2. UNCHANGED <<cliInstalls, cutOff, everKiCad, restarts>>
    BY <1>3 DEF Pick, StartInstall, StartUpdate, Install, InstallFails, Uninstall, RefreshStates
  <2>3. everManaged' \subseteq everManaged \cup Package
    BY <1>3 DEF Pick, StartInstall, StartUpdate, Install, InstallFails, Uninstall,
                RefreshStates, Write
  <2> QED BY <2>1, <2>2, <2>3 DEF PcmRest
<1>4. CASE Restart
  <2>1. package' \in [Op -> Package] /\ had' \in [Op -> Version]
    BY <1>1, <1>4, PcmConstants DEF Restart, first
  <2>2. restarts' \in 0 .. MaxRestarts
    BY <1>4, PcmAssumption DEF Restart, PcmRest
  <2>3. UNCHANGED <<cliInstalls, everManaged, everKiCad>> /\ cutOff' \subseteq cutOff \cup Package
    BY <1>4 DEF Restart
  <2> QED BY <2>1, <2>2, <2>3 DEF PcmRest
<1>5. CASE \/ WriteFile \/ RefreshRepositories \/ UNCHANGED pcmVars
           \/ \E p \in Package : PublishVersion(p) \/ KiCadInstalls(p)
  BY <1>5 DEF WriteFile, RefreshRepositories, PublishVersion, KiCadInstalls, pcmVars, PcmRest
<1> QED BY <1>3, <1>4, <1>5 DEF PcmNext

LEMMA OneWrite ==
  ASSUME QueueInv, NEW o \in Op
  PROVE  progress[o] = "storing" <=>
           Cardinality({i \in DOMAIN writes : writes[i].op = o}) = 1
<1> DEFINE Mine == {i \in DOMAIN writes : writes[i].op = o}
<1>1. CASE progress[o] = "storing"
  <2>1. PICK i \in DOMAIN writes : writes[i].op = o
    BY <1>1 DEF QueueInv, OwnWrite
  <2>2. Mine = {i}
    BY <2>1 DEF QueueInv, OwnWrite
  <2> QED BY <1>1, <2>2, FS_Singleton
<1>2. CASE progress[o] # "storing"
  <2>1. Mine = {}
    BY <1>2 DEF QueueInv, OwnWrite
  <2>2. Cardinality(Mine) = 0
    BY <2>1, FS_EmptySet
  <2> QED BY <1>2, <2>2
<1> QED BY <1>1, <1>2

\* The types, and that each command that stores waits for one write of its own.
THEOREM PcmTypeCorrect ==
  ASSUME Package # {}
  PROVE  PcmSpec => []PcmTypeOK
<1>1. PcmInit => QueueInv /\ PcmRest
  BY QueueInit, PcmConstants, PcmAssumption DEF PcmInit, PcmRest
<1>2. QueueInv /\ PcmRest /\ [PcmNext]_pcmVars => (QueueInv /\ PcmRest)'
  BY QueueNext, RestNext
<1>3. QueueInv /\ PcmRest => PcmTypeOK
  <2> SUFFICES ASSUME QueueInv, PcmRest PROVE PcmTypeOK
    OBVIOUS
  <2>1. \A o \in Op : progress[o] = "storing" <=>
          Cardinality({i \in DOMAIN writes : writes[i].op = o}) = 1
    BY OneWrite
  <2>2. {published, listed, shown, installed, files, memento, byStudio, byKiCad}
          \subseteq [Package -> Version]
    BY DEF QueueInv, PcmData
  <2> QED
    BY <2>1, <2>2 DEF QueueInv, PcmData, PcmRest, PcmTypeOK, StoreWrite, Progress
<1> QED BY <1>1, <1>2, <1>3, PTL DEF PcmSpec
=============================================================================
