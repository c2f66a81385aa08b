------------------------- MODULE MaintenanceProofs --------------------------
(***************************************************************************)
(* The maintenance of a gateway. For any number of calls, versions,        *)
(* services, packages and uploads, and whatever fails or is cut short:     *)
(* configurations are applied and rolled back as a whole, packages are     *)
(* imported as validated, and upgrades settle.                             *)
(***************************************************************************)
EXTENDS ConfigVersions, TLAPS

-----------------------------------------------------------------------------
(* apigateway: configuration versions *)

CaFolders == [cfg : CaConfigs \union {CaTorn}, users : Nat]
CaArchives == [data : CaFolders, row : BOOLEAN, deleted : BOOLEAN, file : BOOLEAN]
CaPlaces == {"none", "unchanged", "file", "row", "current", "stage", "copy", "restart", "undo", "again",
             "undone", "broken", "delete"}
CaOps == [at : CaPlaces, for : {"none", "backup", "snap", "final"}, pack : CaFolders, before : CaFolders,
          made : Nat, snap : Nat, clean : BOOLEAN]

\* What a call may rely on at each of its steps: the version it is making, the snapshot
\* it will fall back on, and what is in the directory as long as nobody else wrote.
CaFine(op) ==
    /\ op.at \in {"row", "current"} =>
          /\ op.made \in DOMAIN caVer /\ caVer[op.made].file /\ ~caVer[op.made].deleted
          /\ op.at = "current" => caVer[op.made].row
          /\ op.for = "snap" /\ op.clean => caVer[op.made].data = op.before
    /\ op.at = "delete" => op.made \in DOMAIN caVer /\ op.made # caCur
    /\ op.at \in {"stage", "copy", "restart", "undo", "again"} =>
          /\ op.for = "snap" /\ op.snap \in DOMAIN caVer
          /\ op.clean => caVer[op.snap].data = op.before
    /\ op.at \in {"undone", "broken"} => op.for = "snap"
    /\ op.at = "file" /\ op.for = "snap" /\ op.clean => caData = op.before
    /\ op.at = "restart" /\ op.clean => caData = op.pack
    /\ op.at = "again" /\ op.clean => caData = op.before
    /\ op.at # "none" /\ op.for = "final" /\ op.clean =>
          caData.cfg = op.pack.cfg /\ \A s \in CaServices : caRuns[s] = op.pack.cfg
    /\ op.at = "undone" /\ op.clean =>
          caData.cfg = op.before.cfg /\ \A s \in CaServices : caRuns[s] = op.before.cfg

CaKinds == caData \in CaFolders /\ caVer \in Seq(CaArchives) /\ caCur \in Nat /\ caEdit \in Nat

\* One call at a time is under way, only while the gateway is up.
CaInv ==
    /\ CaKinds /\ caOp \in [CaCalls -> CaOps]
    /\ \A c \in CaCalls : CaInOp(c) => caBusy /\ caUp = "up"
    /\ \A c, d \in CaCalls : CaInOp(c) /\ CaInOp(d) => c = d
    /\ CaCurrentRestorable
    /\ \A c \in CaCalls : CaFine(caOp[c])

LEMMA CaFreeOp == CaFree \in CaOps /\ CaFree.at = "none"
BY Zenon DEF CaFree, CaOps, CaPlaces, CaNoDir, CaFolders

\* A call that ends leaves none under way.
LEMMA CaEnded ==
    ASSUME CaInv, NEW c \in CaCalls, CaInOp(c), CaEnds(c), CaKinds', CaCurrentRestorable'
    PROVE  CaInv'
<1>1. caOp' \in [CaCalls -> CaOps] /\ \A d \in CaCalls : caOp'[d].at = "none"
  BY CaFreeOp, Zenon DEF CaInv, CaEnds, CaInOp
<1> QED
  BY <1>1, Zenon DEF CaInv, CaInOp, CaFine

\* A call that goes on is the only one under way.
LEMMA CaMoved ==
    ASSUME CaInv, NEW c \in CaCalls, NEW op \in CaOps, caOp' = [caOp EXCEPT ![c] = op],
           \A d \in CaCalls : d # c => ~CaInOp(d), caBusy', caUp' = "up",
           CaKinds', CaCurrentRestorable', CaFine(op)'
    PROVE  CaInv'
<1>1. caOp' \in [CaCalls -> CaOps] /\ caOp'[c] = op /\ \A d \in CaCalls \ {c} : caOp'[d].at = "none"
  BY Zenon DEF CaInv, CaInOp
<1>2. \A d \in CaCalls : CaInOp(d)' => d = c
  BY <1>1, Zenon DEF CaInOp
<1>3. ASSUME NEW d \in CaCalls PROVE CaFine(caOp[d])'
  <2>1. CASE d = c
    BY <1>1, <2>1, Zenon DEF CaFine
  <2>2. CASE d # c
    BY <1>1, <2>2, Zenon DEF CaFine
  <2> QED
    BY <2>1, <2>2, Zenon
<1> QED
  BY <1>1, <1>2, <1>3, Zenon DEF CaInv

\* The versions after one was added, and after one was marked.
LEMMA CaAdded ==
    ASSUME CaInv, NEW v \in CaArchives, caVer' = Append(caVer, v)
    PROVE  /\ caVer' \in Seq(CaArchives) /\ Len(caVer) + 1 \in DOMAIN caVer' /\ caVer'[Len(caVer) + 1] = v
           /\ Len(caVer) + 1 \in Nat \ {0}
           /\ \A i \in DOMAIN caVer : i \in DOMAIN caVer' /\ caVer'[i] = caVer[i]
BY DEF CaInv, CaKinds

LEMMA CaMarked ==
    ASSUME CaInv, NEW i \in DOMAIN caVer, NEW v \in CaArchives, caVer' = [caVer EXCEPT ![i] = v]
    PROVE  /\ caVer' \in Seq(CaArchives) /\ caVer'[i] = v /\ i \in DOMAIN caVer'
           /\ \A j \in DOMAIN caVer \ {i} : j \in DOMAIN caVer' /\ caVer'[j] = caVer[j]
BY DEF CaInv, CaKinds

LEMMA CaEntry == ASSUME CaInv, NEW i \in DOMAIN caVer PROVE caVer[i] \in CaArchives
<1>1. caVer \in Seq(CaArchives)
  BY Zenon DEF CaInv, CaKinds
<1> QED
  BY <1>1

\* The current version stays restorable as long as its entry is left alone.
LEMMA CaKeepsCurrent ==
    ASSUME CaInv, caCur' = caCur, \A i \in DOMAIN caVer : i = caCur => i \in DOMAIN caVer' /\ caVer'[i] = caVer[i]
    PROVE  CaCurrentRestorable'
BY Zenon DEF CaInv, CaCurrentRestorable, CaListed

\* A call that takes the guard is the only one under way.
LEMMA CaBegins ==
    ASSUME CaInv, NEW c \in CaCalls, NEW op \in CaOps, CaAcquire(c, op), caUp' = caUp,
           CaKinds', CaCurrentRestorable', CaFine(op)'
    PROVE  CaInv'
<1>1. \A d \in CaCalls : ~CaInOp(d)
  BY Zenon DEF CaInv, CaAcquire
<1> QED
  BY <1>1, CaMoved, Zenon DEF CaAcquire

\* The steps of create_version().
LEMMA CaVersionSteps ==
    ASSUME CaInv, NEW c \in CaCalls, CaWriteArchive(c) \/ CaInsertRow(c) \/ CaSetCurrent(c)
    PROVE  CaInv'
<1>0. PICK o \in CaOps : o = caOp[c]
  BY Zenon DEF CaInv
<1>1. CaFine(o) /\ o.at # "none" /\ CaInOp(c) /\ caBusy /\ caUp = "up" /\ \A d \in CaCalls : d # c => ~CaInOp(d)
  BY <1>0, Zenon DEF CaInv, CaWriteArchive, CaInsertRow, CaSetCurrent, CaInOp
<1>2. CASE CaWriteArchive(c)
  <2>1. CASE CaEnds(c) /\ UNCHANGED caVer
    BY <1>1, <1>2, <2>1, CaEnded, CaKeepsCurrent, Zenon DEF CaWriteArchive, CaInv, CaKinds
  <2>2. CASE /\ caVer' = Append(caVer, [data |-> caData, row |-> FALSE, deleted |-> FALSE, file |-> TRUE])
             /\ caOp' = [caOp EXCEPT ![c].at = "row", ![c].made = Len(caVer) + 1] /\ UNCHANGED caBusy
    <3>1. PICK v \in CaArchives : v = [data |-> caData, row |-> FALSE, deleted |-> FALSE, file |-> TRUE]
      BY Zenon DEF CaInv, CaKinds, CaArchives
    <3>2. PICK n \in Nat : n = Len(caVer) + 1
      BY DEF CaInv, CaKinds
    <3>3. caVer' \in Seq(CaArchives) /\ n \in DOMAIN caVer' /\ caVer'[n] = v
      BY <2>2, <3>1, <3>2, CaAdded, Zenon
    <3>4. CaCurrentRestorable' /\ CaKinds'
      BY <1>2, <2>2, <3>1, <3>3, CaAdded, CaKeepsCurrent, Zenon DEF CaWriteArchive, CaInv, CaKinds
    <3>5. PICK p \in CaOps : p = [o EXCEPT !.at = "row", !.made = n]
      BY Zenon DEF CaOps, CaPlaces
    <3>6. caOp' = [caOp EXCEPT ![c] = p]
      BY <1>0, <2>2, <3>2, <3>5, Zenon DEF CaInv, CaOps
    <3>7. p.at = "row" /\ p.made = n /\ p.for = o.for /\ p.clean = o.clean /\ p.before = o.before /\ p.pack = o.pack
      BY <3>5, Zenon DEF CaOps
    <3>8. o.at = "file" /\ UNCHANGED <<caData, caRuns>>
      BY <1>0, <1>2, Zenon DEF CaWriteArchive
    <3>9. v.file /\ ~v.deleted /\ v.data = caData
      BY <3>1, Zenon
    <3>10. CaFine(p)'
      BY <1>1, <3>3, <3>7, <3>8, <3>9, Zenon DEF CaFine
    <3> QED
      BY <1>1, <1>2, <2>2, <3>4, <3>6, <3>10, CaMoved, Zenon DEF CaWriteArchive
  <2> QED
    BY <1>2, <2>1, <2>2, Zenon DEF CaWriteArchive
<1>3. CASE CaInsertRow(c)
  <2>1. CASE CaEnds(c) /\ UNCHANGED caVer
    BY <1>1, <1>3, <2>1, CaEnded, CaKeepsCurrent, Zenon DEF CaInsertRow, CaInv, CaKinds
  <2>2. CASE caVer' = [caVer EXCEPT ![caOp[c].made].row = TRUE] /\ caOp' = [caOp EXCEPT ![c].at = "current"] /\ UNCHANGED caBusy
    <3>1. o.at = "row" /\ o.made \in DOMAIN caVer /\ caVer[o.made] \in CaArchives /\ UNCHANGED <<caData, caRuns, caCur, caEdit, caUp>>
      BY <1>0, <1>1, <1>3 DEF CaInsertRow, CaFine, CaInv, CaKinds
    <3>2. PICK v \in CaArchives : v = [caVer[o.made] EXCEPT !.row = TRUE]
      BY <3>1, Zenon DEF CaArchives
    <3>3. v.row /\ v.file = caVer[o.made].file /\ v.deleted = caVer[o.made].deleted /\ v.data = caVer[o.made].data
      BY <3>1, <3>2, Zenon DEF CaArchives
    <3>4. caVer' = [caVer EXCEPT ![o.made] = v]
      BY <1>0, <2>2, <3>1, <3>2, Zenon DEF CaInv, CaKinds
    <3>5. /\ caVer' \in Seq(CaArchives) /\ caVer'[o.made] = v /\ o.made \in DOMAIN caVer'
          /\ \A j \in DOMAIN caVer \ {o.made} : j \in DOMAIN caVer' /\ caVer'[j] = caVer[j]
      BY <3>1, <3>4, CaMarked, Zenon
    <3>6. CaKinds' /\ CaCurrentRestorable'
      BY <3>1, <3>3, <3>5, Zenon DEF CaInv, CaKinds, CaCurrentRestorable, CaListed
    <3>7. PICK p \in CaOps : p = [o EXCEPT !.at = "current"]
      BY Zenon DEF CaOps, CaPlaces
    <3>8. caOp' = [caOp EXCEPT ![c] = p]
      BY <1>0, <2>2, <3>7, Zenon DEF CaInv, CaOps
    <3>9. p.at = "current" /\ p.made = o.made /\ p.for = o.for /\ p.clean = o.clean /\ p.before = o.before /\ p.pack = o.pack
      BY <3>7, Zenon DEF CaOps
    <3>10. CaFine(p)'
      BY <1>1, <3>1, <3>3, <3>5, <3>9 DEF CaFine
    <3> QED
      BY <1>1, <2>2, <3>1, <3>6, <3>8, <3>10, CaMoved, Zenon
  <2> QED
    BY <1>3, <2>1, <2>2, Zenon DEF CaInsertRow
<1>4. CASE CaSetCurrent(c)
  <2>1. o.at = "current" /\ o.made \in DOMAIN caVer /\ UNCHANGED <<caData, caRuns, caVer, caEdit, caUp>>
        /\ caVer[o.made].row /\ caVer[o.made].file /\ ~caVer[o.made].deleted
    BY <1>0, <1>1, <1>4, Zenon DEF CaSetCurrent, CaFine
  <2>2. CASE UNCHANGED caCur /\ CaEnds(c)
    BY <1>1, <2>1, <2>2, CaEnded, CaKeepsCurrent, Zenon DEF CaInv, CaKinds
  <2>3. CASE caCur' = caOp[c].made
    <3>1. CaKinds' /\ CaCurrentRestorable'
      BY <1>0, <2>1, <2>3, Zenon DEF CaInv, CaKinds, CaCurrentRestorable, CaListed, CaOps
    <3>2. CASE CaEnds(c)
      BY <1>1, <3>1, <3>2, CaEnded, Zenon
    <3>3. CASE o.for = "snap" /\ caOp' = [caOp EXCEPT ![c].at = "stage", ![c].snap = caOp[c].made] /\ UNCHANGED caBusy
      <4>1. PICK p \in CaOps : p = [o EXCEPT !.at = "stage", !.snap = o.made]
        BY Zenon DEF CaOps, CaPlaces
      <4>2. caOp' = [caOp EXCEPT ![c] = p]
        BY <1>0, <3>3, <4>1, Zenon DEF CaInv, CaOps
      <4>3. p.at = "stage" /\ p.snap = o.made /\ p.for = o.for /\ p.clean = o.clean /\ p.before = o.before
        BY <4>1, Zenon DEF CaOps
      <4>4. CaFine(p)'
        BY <1>1, <2>1, <3>3, <4>3, Zenon DEF CaFine
      <4> QED
        BY <1>1, <2>1, <3>1, <3>3, <4>2, <4>4, CaMoved, Zenon
    <3> QED
      BY <1>0, <1>4, <2>3, <3>2, <3>3, Zenon DEF CaSetCurrent
  <2> QED
    BY <1>4, <2>2, <2>3, Zenon DEF CaSetCurrent
<1> QED
  BY <1>2, <1>3, <1>4, Zenon

\* The steps of an apply and of its rollback.
LEMMA CaApplySteps ==
    ASSUME CaInv, NEW c \in CaCalls, CaStage(c) \/ CaCopy(c) \/ CaRestart(c) \/ CaUndo(c) \/ CaRestartAgain(c)
    PROVE  CaInv'
<1>0. PICK o \in CaOps : o = caOp[c]
  BY Zenon DEF CaInv
<1>1. CaFine(o) /\ o.at # "none" /\ CaInOp(c) /\ caBusy /\ caUp = "up" /\ \A d \in CaCalls : d # c => ~CaInOp(d)
  BY <1>0, Zenon DEF CaInv, CaStage, CaCopy, CaRestart, CaUndo, CaRestartAgain, CaInOp
<1>2. UNCHANGED <<caVer, caCur, caEdit, caUp>>
  BY Zenon DEF CaStage, CaCopy, CaRestart, CaUndo, CaRestartAgain
<1>3. CaCurrentRestorable'
  BY <1>2, CaKeepsCurrent, Zenon
<1>4. caData' \in CaFolders => CaKinds'
  BY <1>2, Zenon DEF CaInv, CaKinds
<1>5. o.at \in {"stage", "copy", "restart", "undo", "again"}
  BY <1>0, Zenon DEF CaStage, CaCopy, CaRestart, CaUndo, CaRestartAgain
<1>6. o.for = "snap" /\ o.snap \in DOMAIN caVer /\ caVer[o.snap].data \in CaFolders /\ (o.clean => caVer[o.snap].data = o.before)
  <2>1. o.for = "snap" /\ o.snap \in DOMAIN caVer /\ (o.clean => caVer[o.snap].data = o.before)
    BY <1>1, <1>5, Zenon DEF CaFine
  <2>2. caVer[o.snap] \in CaArchives
    BY <2>1, CaEntry, Zenon
  <2> QED
    BY <2>1, <2>2, Zenon DEF CaArchives
<1>7. caData \in CaFolders /\ o.pack \in CaFolders
  BY Zenon DEF CaInv, CaKinds, CaOps
<1>8. ASSUME NEW d \in CaFolders, NEW p \in CaFolders PROVE CaPartly(d, p) \subseteq CaFolders
  BY Zenon DEF CaPartly, CaFolders
<1>9. CASE CaStage(c)
  <2>1. UNCHANGED <<caData, caRuns>> /\ CaKinds'
    BY <1>4, <1>7, <1>9, Zenon DEF CaStage
  <2>2. CASE CaEnds(c)
    BY <1>1, <1>3, <2>1, <2>2, CaEnded, Zenon
  <2>3. CASE caOp' = [caOp EXCEPT ![c].at = "copy", ![c].pack.users = caData.users] /\ UNCHANGED caBusy
    <3>1. PICK p \in CaOps : p = [o EXCEPT !.at = "copy", !.pack = [o.pack EXCEPT !.users = caData.users]]
      <4>1. [o.pack EXCEPT !.users = caData.users] \in CaFolders
        BY <1>7, Zenon DEF CaFolders
      <4> QED
        BY <4>1, Zenon DEF CaOps, CaPlaces
    <3>2. caOp' = [caOp EXCEPT ![c] = p]
      BY <1>0, <2>3, <3>1, Zenon DEF CaInv, CaOps
    <3>3. p.at = "copy" /\ p.for = o.for /\ p.snap = o.snap /\ p.clean = o.clean /\ p.before = o.before
      BY <3>1, Zenon DEF CaOps
    <3>4. CaFine(p)'
      BY <1>2, <1>6, <3>3, Zenon DEF CaFine
    <3> QED
      BY <1>1, <1>2, <1>3, <2>1, <2>3, <3>2, <3>4, CaMoved, Zenon
  <2> QED
    BY <1>9, <2>2, <2>3, Zenon DEF CaStage
<1>10. CASE CaCopy(c)
  <2>1. CASE caData' = caOp[c].pack /\ caOp' = [caOp EXCEPT ![c].at = "restart"]
    <3>1. PICK p \in CaOps : p = [o EXCEPT !.at = "restart"]
      BY Zenon DEF CaOps, CaPlaces
    <3>2. caOp' = [caOp EXCEPT ![c] = p]
      BY <1>0, <2>1, <3>1, Zenon DEF CaInv, CaOps
    <3>3. p.at = "restart" /\ p.for = o.for /\ p.snap = o.snap /\ p.clean = o.clean /\ p.before = o.before /\ p.pack = o.pack
      BY <3>1, Zenon DEF CaOps
    <3>4. CaFine(p)'
      BY <1>0, <1>2, <1>6, <2>1, <3>3, Zenon DEF CaFine
    <3> QED
      BY <1>0, <1>1, <1>2, <1>3, <1>4, <1>7, <1>10, <2>1, <3>2, <3>4, CaMoved, Zenon DEF CaCopy
  <2>2. CASE caData' \in CaPartly(caData, caOp[c].pack) /\ caOp' = [caOp EXCEPT ![c].at = "undo"]
    <3>1. PICK p \in CaOps : p = [o EXCEPT !.at = "undo"]
      BY Zenon DEF CaOps, CaPlaces
    <3>2. caOp' = [caOp EXCEPT ![c] = p]
      BY <1>0, <2>2, <3>1, Zenon DEF CaInv, CaOps
    <3>3. p.at = "undo" /\ p.for = o.for /\ p.snap = o.snap /\ p.clean = o.clean /\ p.before = o.before
      BY <3>1, Zenon DEF CaOps
    <3>4. CaFine(p)'
      BY <1>2, <1>6, <3>3, Zenon DEF CaFine
    <3>5. CaKinds'
      BY <1>0, <1>4, <1>7, <1>8, <2>2, Zenon
    <3> QED
      BY <1>1, <1>2, <1>3, <1>10, <3>2, <3>4, <3>5, CaMoved, Zenon DEF CaCopy
  <2> QED
    BY <1>10, <2>1, <2>2, Zenon DEF CaCopy
<1>11. CASE CaRestart(c)
  <2>1. o.at = "restart" /\ UNCHANGED <<caData, caBusy>> /\ CaKinds'
    BY <1>0, <1>4, <1>7, <1>11, Zenon DEF CaRestart
  <2>2. CASE CaRestarts(TRUE) /\ caOp' = [caOp EXCEPT ![c].at = "file", ![c].for = "final"]
    <3>1. PICK p \in CaOps : p = [o EXCEPT !.at = "file", !.for = "final"]
      BY Zenon DEF CaOps, CaPlaces
    <3>2. caOp' = [caOp EXCEPT ![c] = p]
      BY <1>0, <2>2, <3>1, Zenon DEF CaInv, CaOps
    <3>3. p.at = "file" /\ p.for = "final" /\ p.clean = o.clean /\ p.pack = o.pack
      BY <3>1, Zenon DEF CaOps
    <3>4. \A s \in CaServices : caRuns'[s] = caData.cfg
      BY <2>2, Zenon DEF CaRestarts
    <3>5. o.clean => caData = o.pack
      BY <1>1, <2>1, Zenon DEF CaFine
    <3>6. CaFine(p)'
      BY <2>1, <3>3, <3>4, <3>5, Zenon DEF CaFine
    <3> QED
      BY <1>1, <1>2, <1>3, <2>1, <3>2, <3>6, CaMoved, Zenon
  <2>3. CASE caOp' = [caOp EXCEPT ![c].at = "undo"]
    <3>1. PICK p \in CaOps : p = [o EXCEPT !.at = "undo"]
      BY Zenon DEF CaOps, CaPlaces
    <3>2. caOp' = [caOp EXCEPT ![c] = p]
      BY <1>0, <2>3, <3>1, Zenon DEF CaInv, CaOps
    <3>3. p.at = "undo" /\ p.for = o.for /\ p.snap = o.snap /\ p.clean = o.clean /\ p.before = o.before
      BY <3>1, Zenon DEF CaOps
    <3>4. CaFine(p)'
      BY <1>2, <1>6, <3>3, Zenon DEF CaFine
    <3> QED
      BY <1>1, <1>2, <1>3, <2>1, <3>2, <3>4, CaMoved, Zenon
  <2> QED
    BY <1>11, <2>2, <2>3, Zenon DEF CaRestart
<1>12. CASE CaUndo(c)
  <2>1. CASE caData' = caVer[caOp[c].snap].data /\ caOp' = [caOp EXCEPT ![c].at = "again"] /\ UNCHANGED caBusy
    <3>1. PICK p \in CaOps : p = [o EXCEPT !.at = "again"]
      BY Zenon DEF CaOps, CaPlaces
    <3>2. caOp' = [caOp EXCEPT ![c] = p]
      BY <1>0, <2>1, <3>1, Zenon DEF CaInv, CaOps
    <3>3. p.at = "again" /\ p.for = o.for /\ p.snap = o.snap /\ p.clean = o.clean /\ p.before = o.before
      BY <3>1, Zenon DEF CaOps
    <3>4. CaFine(p)'
      BY <1>0, <1>2, <1>6, <2>1, <3>3, Zenon DEF CaFine
    <3> QED
      BY <1>0, <1>1, <1>2, <1>3, <1>4, <1>6, <2>1, <3>2, <3>4, CaMoved, Zenon
  <2>2. CASE caData' \in CaPartly(caData, caVer[caOp[c].snap].data) /\ CaEnds(c)
    <3>1. CaKinds'
      BY <1>0, <1>4, <1>6, <1>7, <1>8, <2>2, Zenon
    <3> QED
      BY <1>1, <1>3, <2>2, <3>1, CaEnded, Zenon
  <2> QED
    BY <1>12, <2>1, <2>2, Zenon DEF CaUndo
<1>13. CASE CaRestartAgain(c)
  <2>1. o.at = "again" /\ UNCHANGED <<caData, caBusy>> /\ CaKinds'
    BY <1>0, <1>4, <1>7, <1>13, Zenon DEF CaRestartAgain
  <2>2. CASE CaRestarts(TRUE) /\ caOp' = [caOp EXCEPT ![c].at = "undone"]
    <3>1. PICK p \in CaOps : p = [o EXCEPT !.at = "undone"]
      BY Zenon DEF CaOps, CaPlaces
    <3>2. caOp' = [caOp EXCEPT ![c] = p]
      BY <1>0, <2>2, <3>1, Zenon DEF CaInv, CaOps
    <3>3. p.at = "undone" /\ p.for = o.for /\ p.clean = o.clean /\ p.before = o.before
      BY <3>1, Zenon DEF CaOps
    <3>4. \A s \in CaServices : caRuns'[s] = caData.cfg
      BY <2>2, Zenon DEF CaRestarts
    <3>5. o.clean => caData = o.before
      BY <1>1, <2>1, Zenon DEF CaFine
    <3>6. CaFine(p)'
      BY <1>6, <2>1, <3>3, <3>4, <3>5, Zenon DEF CaFine
    <3> QED
      BY <1>1, <1>2, <1>3, <2>1, <3>2, <3>6, CaMoved, Zenon
  <2>3. CASE caOp' = [caOp EXCEPT ![c].at = "broken"]
    <3>1. PICK p \in CaOps : p = [o EXCEPT !.at = "broken"]
      BY Zenon DEF CaOps, CaPlaces
    <3>2. caOp' = [caOp EXCEPT ![c] = p]
      BY <1>0, <2>3, <3>1, Zenon DEF CaInv, CaOps
    <3>3. p.at = "broken" /\ p.for = o.for
      BY <3>1, Zenon DEF CaOps
    <3>4. CaFine(p)'
      BY <1>6, <3>3, Zenon DEF CaFine
    <3> QED
      BY <1>1, <1>2, <1>3, <2>1, <3>2, <3>4, CaMoved, Zenon
  <2> QED
    BY <1>13, <2>2, <2>3, Zenon DEF CaRestartAgain
<1> QED
  BY <1>9, <1>10, <1>11, <1>12, <1>13, Zenon

\* The calls as they begin.
LEMMA CaCallSteps ==
    ASSUME CaInv, NEW c \in CaCalls,
           \/ CaBackup(c) \/ CaImport(c)
           \/ \E v \in DOMAIN caVer : CaRestore(c, v) \/ CaDelete(c, v)
    PROVE  CaInv'
<1>0. UNCHANGED <<caData, caCur, caRuns, caEdit, caUp>>
  BY Zenon DEF CaBackup, CaImport, CaRestore, CaDelete
<1>1. ASSUME UNCHANGED caVer PROVE CaKinds' /\ CaCurrentRestorable'
  BY <1>0, <1>1, CaKeepsCurrent, Zenon DEF CaInv, CaKinds
<1>2. ASSUME NEW d \in CaFolders, UNCHANGED caVer,
             CaAcquire(c, [CaFree EXCEPT !.at = "file", !.for = "snap", !.before = caData, !.pack = d])
      PROVE  CaInv'
  <2>1. PICK p \in CaOps : p = [CaFree EXCEPT !.at = "file", !.for = "snap", !.before = caData, !.pack = d]
    BY CaFreeOp, Zenon DEF CaOps, CaPlaces, CaInv, CaKinds
  <2>2. p.at = "file" /\ p.for = "snap" /\ p.before = caData
    BY <2>1, CaFreeOp, Zenon DEF CaOps
  <2>3. CaFine(p)'
    BY <1>0, <2>2, Zenon DEF CaFine
  <2> QED
    BY <1>0, <1>1, <1>2, <2>1, <2>3, CaBegins, Zenon
<1>3. CASE CaBackup(c)
  <2>0. UNCHANGED caVer
    BY <1>3, Zenon DEF CaBackup
  <2>1. CASE CaAcquire(c, [CaFree EXCEPT !.at = "unchanged"])
    <3>1. PICK p \in CaOps : p = [CaFree EXCEPT !.at = "unchanged"]
      BY CaFreeOp, Zenon DEF CaOps, CaPlaces
    <3>2. p.at = "unchanged" /\ p.for = "none"
      BY <3>1, Zenon DEF CaOps, CaFree
    <3>3. CaFine(p)'
      BY <3>2, Zenon DEF CaFine
    <3> QED
      BY <1>0, <1>1, <2>0, <2>1, <3>1, <3>3, CaBegins, Zenon
  <2>2. CASE CaAcquire(c, [CaFree EXCEPT !.at = "file", !.for = "backup", !.before = caData])
    <3>1. PICK p \in CaOps : p = [CaFree EXCEPT !.at = "file", !.for = "backup", !.before = caData]
      BY CaFreeOp, Zenon DEF CaOps, CaPlaces, CaInv, CaKinds
    <3>2. p.at = "file" /\ p.for = "backup"
      BY <3>1, CaFreeOp, Zenon DEF CaOps
    <3>3. CaFine(p)'
      BY <3>2, Zenon DEF CaFine
    <3> QED
      BY <1>0, <1>1, <2>0, <2>2, <3>1, <3>3, CaBegins, Zenon
  <2> QED
    BY <1>3, <2>1, <2>2, Zenon DEF CaBackup
<1>4. CASE CaImport(c)
  <2>1. PICK f \in CaConfigs : CaAcquire(c, [CaFree EXCEPT !.at = "file", !.for = "snap", !.before = caData,
                                                           !.pack = [cfg |-> f, users |-> 0]])
    BY <1>4, Zenon DEF CaImport
  <2>2. [cfg |-> f, users |-> 0] \in CaFolders
    BY Zenon DEF CaFolders
  <2> QED
    BY <1>2, <1>4, <2>1, <2>2, Zenon DEF CaImport
<1>5. ASSUME NEW v \in DOMAIN caVer, CaRestore(c, v) PROVE CaInv'
  <2>0. caVer[v] \in CaArchives
    BY CaEntry, Zenon
  <2>1. PICK d \in CaFolders : d = caVer[v].data
    BY <2>0, Zenon DEF CaArchives
  <2> QED
    BY <1>2, <1>5, <2>1, Zenon DEF CaRestore
<1>6. ASSUME NEW v \in DOMAIN caVer, CaDelete(c, v) PROVE CaInv'
  <2>0. caVer[v] \in CaArchives
    BY CaEntry, Zenon
  <2>1. PICK w \in CaArchives : w = [caVer[v] EXCEPT !.file = FALSE]
    BY <2>0, Zenon DEF CaArchives
  <2>2. caVer' = [caVer EXCEPT ![v] = w] /\ v # caCur
    BY <1>6, <2>1, Zenon DEF CaDelete, CaInv, CaKinds
  <2>3. /\ caVer' \in Seq(CaArchives) /\ v \in DOMAIN caVer'
        /\ \A j \in DOMAIN caVer \ {v} : j \in DOMAIN caVer' /\ caVer'[j] = caVer[j]
    BY <2>2, CaMarked, Zenon
  <2>4. CaKinds' /\ CaCurrentRestorable'
    BY <1>0, <2>2, <2>3, CaKeepsCurrent, Zenon DEF CaInv, CaKinds
  <2>5. v \in Nat
    BY DEF CaInv, CaKinds
  <2>6. PICK p \in CaOps : p = [CaFree EXCEPT !.at = "delete", !.made = v]
    BY <2>5, CaFreeOp, Zenon DEF CaOps, CaPlaces
  <2>7. p.at = "delete" /\ p.made = v /\ p.for = "none"
    BY <2>6, Zenon DEF CaOps, CaFree
  <2>8. CaFine(p)'
    BY <1>0, <2>2, <2>3, <2>7, Zenon DEF CaFine
  <2>9. CaAcquire(c, p)
    BY <1>6, <2>6, Zenon DEF CaDelete
  <2> QED
    BY <1>0, <2>4, <2>8, <2>9, CaBegins, Zenon
<1> QED
  BY <1>3, <1>4, <1>5, <1>6, Zenon

\* The calls as they end.
LEMMA CaEndSteps ==
    ASSUME CaInv, NEW c \in CaCalls, CaUnchanged(c) \/ CaAnswer(c) \/ CaMarkDeleted(c) \/ CaDropped(c)
    PROVE  CaInv'
<1>0. PICK o \in CaOps : o = caOp[c]
  BY Zenon DEF CaInv
<1>1. CaInOp(c) /\ CaEnds(c) /\ UNCHANGED <<caData, caCur, caEdit>>
  BY Zenon DEF CaUnchanged, CaAnswer, CaMarkDeleted, CaDropped, CaInOp
<1>2. CASE UNCHANGED caVer
  BY <1>1, <1>2, CaEnded, CaKeepsCurrent, Zenon DEF CaInv, CaKinds
<1>3. CASE CaMarkDeleted(c)
  <2>1. o.made \in DOMAIN caVer /\ o.made # caCur /\ caVer[o.made] \in CaArchives
    BY <1>0, <1>3, SMTT(30) DEF CaMarkDeleted, CaInv, CaKinds, CaFine
  <2>2. ASSUME NEW w \in CaArchives, caVer' = [caVer EXCEPT ![o.made] = w] PROVE CaInv'
    <3>1. /\ caVer' \in Seq(CaArchives)
          /\ \A j \in DOMAIN caVer \ {o.made} : j \in DOMAIN caVer' /\ caVer'[j] = caVer[j]
      BY <2>1, <2>2, CaMarked, Zenon
    <3> QED
      BY <1>1, <2>1, <3>1, CaEnded, CaKeepsCurrent, Zenon DEF CaInv, CaKinds
  <2>3. CASE caVer' = [caVer EXCEPT ![caOp[c].made].deleted = TRUE]
    <3>1. [caVer[o.made] EXCEPT !.deleted = TRUE] \in CaArchives
      BY <2>1, Zenon DEF CaArchives
    <3> QED
      BY <1>0, <2>1, <2>2, <2>3, <3>1, Zenon DEF CaInv, CaKinds
  <2>4. CASE caVer' = [caVer EXCEPT ![caOp[c].made].file = TRUE]
    <3>1. [caVer[o.made] EXCEPT !.file = TRUE] \in CaArchives
      BY <2>1, Zenon DEF CaArchives
    <3> QED
      BY <1>0, <2>1, <2>2, <2>4, <3>1, Zenon DEF CaInv, CaKinds
  <2> QED
    BY <1>2, <1>3, <2>3, <2>4, Zenon DEF CaMarkDeleted
<1> QED
  BY <1>2, <1>3, Zenon DEF CaUnchanged, CaAnswer, CaDropped

\* A change by others: no call under way may take the directory for its own any more.
LEMMA CaChangeStep == ASSUME CaInv, CaChange PROVE CaInv'
<1>1. /\ caOp' \in [CaCalls -> CaOps]
      /\ \A c \in CaCalls : /\ caOp'[c].at = caOp[c].at /\ caOp'[c].for = caOp[c].for
                            /\ caOp'[c].made = caOp[c].made /\ caOp'[c].snap = caOp[c].snap
                            /\ caOp[c].at # "none" => ~caOp'[c].clean
  BY Zenon DEF CaInv, CaChange, CaUnclean, CaInOp, CaOps
<1>2. CaKinds' /\ CaCurrentRestorable'
  BY CaKeepsCurrent DEF CaInv, CaKinds, CaChange, CaFolders
<1>3. ASSUME NEW c \in CaCalls PROVE CaFine(caOp[c])'
  BY <1>1 DEF CaInv, CaChange, CaFine
<1>4. UNCHANGED <<caBusy, caUp>>
  BY Zenon DEF CaChange
<1> QED
  BY <1>1, <1>2, <1>3, <1>4, Zenon DEF CaInv, CaInOp

\* The gateway goes down, and comes up again.
LEMMA CaCrashStep == ASSUME CaInv, CaCrash PROVE CaInv'
<1>1. CaKinds' /\ CaCurrentRestorable'
  BY CaKeepsCurrent, Zenon DEF CaInv, CaKinds, CaCrash
<1>2. caOp' \in [CaCalls -> CaOps] /\ \A c \in CaCalls : caOp'[c].at = "none"
  BY CaFreeOp, Zenon DEF CaCrash
<1> QED
  BY <1>1, <1>2, Zenon DEF CaInv, CaInOp, CaFine

LEMMA CaInitializeStep == ASSUME CaInv, CaInitialize PROVE CaInv'
<1>1. /\ \A c \in CaCalls : caOp[c].at = "none"
      /\ UNCHANGED <<caData, caOp, caEdit>>
  BY Zenon DEF CaInv, CaInitialize, CaInOp
<1>2. CaKinds' /\ CaCurrentRestorable' => CaInv'
  BY <1>1, Zenon DEF CaInv, CaInOp, CaFine
<1>3. CASE UNCHANGED <<caVer, caCur>>
  BY <1>1, <1>2, <1>3, CaKeepsCurrent, Zenon DEF CaInv, CaKinds
<1>4. CASE /\ caVer' = Append(caVer, [data |-> caData, row |-> TRUE, deleted |-> FALSE, file |-> TRUE])
           /\ caCur' = Len(caVer) + 1
  <2>1. PICK v \in CaArchives : v = [data |-> caData, row |-> TRUE, deleted |-> FALSE, file |-> TRUE]
    BY Zenon DEF CaInv, CaKinds, CaArchives
  <2>2. caVer' \in Seq(CaArchives) /\ caCur' \in DOMAIN caVer' /\ caVer'[caCur'] = v /\ caCur' \in Nat
    BY <1>4, <2>1, CaAdded, Zenon
  <2>3. v.row /\ v.file /\ ~v.deleted
    BY <2>1, Zenon
  <2>4. CaKinds'
    BY <1>1, <2>2, Zenon DEF CaInv, CaKinds
  <2>5. CaCurrentRestorable'
    BY <2>2, <2>3, Zenon DEF CaCurrentRestorable, CaListed
  <2> QED
    BY <1>2, <2>4, <2>5, Zenon
<1> QED
  BY <1>3, <1>4, Zenon DEF CaInitialize

\* Whatever fails, is cut short or restarted while the configuration is backed up, imported,
\* restored or a version deleted, the current version is listed with its archive on disk,
\* and an apply that nobody else interfered with leaves all services on the new
\* configuration or all on the old one.
THEOREM VersionsSound == CaSpec => [](CaCurrentRestorable /\ CaAllOrNothing)
<1>1. CaInit => CaInv
  <2> SUFFICES ASSUME CaInit PROVE CaInv
    BY Zenon
  <2>1. CaKinds /\ caOp \in [CaCalls -> CaOps] /\ \A c \in CaCalls : caOp[c].at = "none"
    BY CaFreeOp DEF CaInit, CaKinds, CaFolders
  <2> QED
    BY <2>1, Zenon DEF CaInit, CaInv, CaInOp, CaFine, CaCurrentRestorable
<1>2. CaInv /\ [CaNext]_caVars => CaInv'
  <2> SUFFICES ASSUME CaInv, [CaNext]_caVars PROVE CaInv'
    BY Zenon
  <2>1. CASE UNCHANGED caVars
    <3>1. CaKinds' /\ CaCurrentRestorable'
      BY <2>1, CaKeepsCurrent, Zenon DEF caVars, CaInv, CaKinds
    <3>2. ASSUME NEW c \in CaCalls PROVE CaFine(caOp[c])' /\ CaInOp(c)' = CaInOp(c)
      BY <2>1, Zenon DEF caVars, CaInv, CaFine, CaInOp
    <3> QED
      BY <2>1, <3>1, <3>2, Zenon DEF caVars, CaInv
  <2>2. ASSUME NEW c \in CaCalls, CaStep(c) PROVE CaInv'
    BY <2>2, CaVersionSteps, CaApplySteps, CaEndSteps, Zenon DEF CaStep
  <2>3. ASSUME NEW c \in CaCalls, \/ CaBackup(c) \/ CaImport(c)
                                   \/ \E v \in DOMAIN caVer : CaRestore(c, v) \/ CaDelete(c, v)
        PROVE  CaInv'
    BY <2>3, CaCallSteps, Zenon
  <2> QED
    BY <2>1, <2>2, <2>3, CaEndSteps, CaChangeStep, CaCrashStep, CaInitializeStep, Zenon DEF CaNext
<1>3. CaInv => CaCurrentRestorable /\ CaAllOrNothing
  BY Zenon DEF CaInv, CaAllOrNothing, CaInOp, CaFine
<1> QED
  BY <1>1, <1>2, <1>3, PTL DEF CaSpec

-----------------------------------------------------------------------------
(* apigateway: the import of a package *)

CiRows == [status : {"validated", "invalid", "applied"}, hash : CiPackage, path : BOOLEAN, expired : BOOLEAN]

\* A row with a path has its package on disk, and one that apply_import() would accept
\* has a path; the session being staged has a package and no row yet.
CiInv ==
    /\ ciRow \in [CiIds -> SUBSET CiRows] /\ ciFile \in [CiIds -> SUBSET CiPackage]
    /\ DOMAIN ciCall = {"validate", "apply"}
    /\ \A i \in CiIds : \A r \in ciRow[i] :
          /\ r.path => ciFile[i] = {r.hash}
          /\ r.status = "validated" /\ ~r.expired => r.path
    /\ ciCall["validate"] # CiNoCall =>
          /\ ciCall["validate"].id \in CiIds /\ ciCall["validate"].pack \in CiPackage
          /\ ciRow[ciCall["validate"].id] = {}
          /\ ciFile[ciCall["validate"].id] = {ciCall["validate"].pack}
    /\ ciSweep \subseteq CiIds
    /\ \A p \in ciUsed : CiValid(p)

\* A step that leaves sessions, packages and the validation alone.
LEMMA CiQuiet ==
    ASSUME CiInv, UNCHANGED <<ciRow, ciFile, ciUsed>>, ciSweep' \subseteq CiIds,
           DOMAIN ciCall' = {"validate", "apply"}, ciCall'["validate"] = ciCall["validate"]
    PROVE  CiInv'
BY Zenon DEF CiInv

\* A step on one session that has a row.
LEMMA CiOneSession ==
    ASSUME CiInv, NEW i \in CiIds, ciRow[i] # {}, ciCall' = ciCall, ciUsed' = ciUsed, ciSweep' \subseteq CiIds,
           ciRow' \in [CiIds -> SUBSET CiRows], ciFile' \in [CiIds -> SUBSET CiPackage],
           \A j \in CiIds \ {i} : ciRow'[j] = ciRow[j] /\ ciFile'[j] = ciFile[j],
           \A r \in ciRow'[i] : (r.path => ciFile'[i] = {r.hash}) /\ (r.status = "validated" /\ ~r.expired => r.path)
    PROVE  CiInv'
<1>1. ASSUME NEW j \in CiIds, NEW r \in ciRow'[j]
      PROVE  (r.path => ciFile'[j] = {r.hash}) /\ (r.status = "validated" /\ ~r.expired => r.path)
  <2>1. CASE j = i
    BY <1>1, <2>1, Zenon
  <2>2. CASE j # i
    BY <1>1, <2>2, Zenon DEF CiInv
  <2> QED
    BY <2>1, <2>2, Zenon
<1>2. ASSUME ciCall["validate"] # CiNoCall
      PROVE  /\ ciCall["validate"].id \in CiIds /\ ciCall["validate"].pack \in CiPackage
             /\ ciRow'[ciCall["validate"].id] = {} /\ ciFile'[ciCall["validate"].id] = {ciCall["validate"].pack}
  <2>1. /\ ciCall["validate"].id \in CiIds /\ ciCall["validate"].pack \in CiPackage
        /\ ciRow[ciCall["validate"].id] = {} /\ ciFile[ciCall["validate"].id] = {ciCall["validate"].pack}
    BY <1>2, Zenon DEF CiInv
  <2>2. ciCall["validate"].id # i
    BY <2>1, Zenon
  <2> QED
    BY <2>1, <2>2, Zenon
<1>3. DOMAIN ciCall = {"validate", "apply"} /\ \A p \in ciUsed : CiValid(p)
  BY Zenon DEF CiInv
<1> QED
  BY <1>1, <1>2, <1>3, Zenon DEF CiInv

LEMMA CiStep == CiInv /\ [CiNext]_ciVars => CiInv'
<1> SUFFICES ASSUME CiInv, [CiNext]_ciVars PROVE CiInv'
  BY Zenon
<1>1. CASE CiUpload
  <2>1. PICK i \in CiIds, p \in CiPackage :
          /\ ciRow[i] = {} /\ ciFile[i] = {} /\ ciFile' = [ciFile EXCEPT ![i] = {p}]
          /\ ciCall' = [ciCall EXCEPT !["validate"] = [at |-> "row", id |-> i, pack |-> p]]
    BY <1>1, Zenon DEF CiUpload
  <2>2. ciCall'["validate"].id = i /\ ciCall'["validate"].pack = p /\ DOMAIN ciCall' = {"validate", "apply"}
    BY <2>1, Zenon DEF CiInv
  <2>3. ciFile'[i] = {p} /\ ciFile' \in [CiIds -> SUBSET CiPackage] /\ \A j \in CiIds \ {i} : ciFile'[j] = ciFile[j]
    BY <2>1, SMTT(30) DEF CiInv
  <2>4. ciRow' = ciRow /\ ciUsed' = ciUsed /\ ciSweep' = ciSweep
    BY <1>1, Zenon DEF CiUpload
  <2> QED
    BY <2>1, <2>2, <2>3, <2>4, Zenon DEF CiInv
<1>2. CASE CiStage
  <2> DEFINE q == ciCall["validate"]
             row == [status |-> IF CiValid(q.pack) THEN "validated" ELSE "invalid",
                     hash |-> q.pack, path |-> TRUE, expired |-> FALSE]
  <2>1. q.id \in CiIds /\ q.pack \in CiPackage /\ ciRow[q.id] = {} /\ ciFile[q.id] = {q.pack}
    BY <1>2, Zenon DEF CiStage, CiInv
  <2>2. row \in CiRows /\ row.path /\ row.hash = q.pack
    BY <2>1, Zenon DEF CiRows
  <2>3. /\ ciRow' = [ciRow EXCEPT ![q.id] = {row}] /\ ciSweep' \subseteq CiIds
        /\ ciFile' = ciFile /\ ciUsed' = ciUsed
        /\ ciCall' = [ciCall EXCEPT !["validate"] = CiNoCall]
    BY <1>2, Zenon DEF CiStage, CiInv
  <2> HIDE DEF row, q
  <2>4. /\ ciRow' \in [CiIds -> SUBSET CiRows] /\ ciRow'[q.id] = {row}
        /\ \A j \in CiIds \ {q.id} : ciRow'[j] = ciRow[j]
    BY <2>1, <2>2, <2>3, Zenon DEF CiInv
  <2>5. DOMAIN ciCall' = {"validate", "apply"} /\ ciCall'["validate"] = CiNoCall
    BY <2>3, Zenon DEF CiInv
  <2> QED
    BY <2>1, <2>2, <2>3, <2>4, <2>5, SMTT(30) DEF CiInv
<1>3. CASE CiBeginApply \/ CiBeginDirect
  BY <1>3, CiQuiet, Zenon DEF CiBeginApply, CiBeginDirect, CiInv
<1>4. CASE CiEndApply
  <2> DEFINE q == ciCall["apply"]
             done == {[r EXCEPT !.status = "applied"] : r \in ciRow[q.id]}
  <2>0. /\ ciCall' = [ciCall EXCEPT !["apply"] = CiNoCall] /\ ciFile' = ciFile
        /\ \/ /\ CiValid(q.pack) /\ ciUsed' = {q.pack}
              /\ \/ ciRow' = [ciRow EXCEPT ![q.id] = done] /\ ciSweep' = CiIds
                 \/ UNCHANGED <<ciRow, ciSweep>>
           \/ UNCHANGED <<ciRow, ciUsed, ciSweep>>
    BY <1>4, Zenon DEF CiEndApply
  <2>1. DOMAIN ciCall' = {"validate", "apply"} /\ ciCall'["validate"] = ciCall["validate"] /\ ciSweep' \subseteq CiIds
    BY <2>0, Zenon DEF CiInv
  <2>2. \A p \in ciUsed' : CiValid(p)
    BY <2>0 DEF CiInv
  <2>3. ASSUME q.id \in CiIds, NEW r \in ciRow[q.id]
        PROVE  LET s == [r EXCEPT !.status = "applied"]
               IN  s \in CiRows /\ s.path = r.path /\ s.hash = r.hash /\ s.status # "validated"
    <3>1. r \in CiRows
      BY <2>3, Zenon DEF CiInv
    <3> QED
      BY <3>1, Zenon DEF CiRows
  <2>4. CASE ciRow' = [ciRow EXCEPT ![q.id] = done]
    <3>1. CASE q.id \in CiIds
      <4>1. ciRow'[q.id] = done /\ \A j \in CiIds \ {q.id} : ciRow'[j] = ciRow[j]
        BY <2>4, <3>1, Zenon DEF CiInv
      <4>2. \A s \in done : s \in CiRows /\ (s.path => ciFile[q.id] = {s.hash}) /\ s.status # "validated"
        <5> SUFFICES ASSUME NEW s \in done
                     PROVE  s \in CiRows /\ (s.path => ciFile[q.id] = {s.hash}) /\ s.status # "validated"
          BY Zenon
        <5>1. PICK r \in ciRow[q.id] : s = [r EXCEPT !.status = "applied"]
          BY Zenon
        <5>2. r.path => ciFile[q.id] = {r.hash}
          BY <3>1, Zenon DEF CiInv
        <5> HIDE DEF q, done
        <5> QED
          BY <2>3, <3>1, <5>1, <5>2, Zenon
      <4>3. done = {} <=> ciRow[q.id] = {}
        BY Zenon
      <4> HIDE DEF done
      <4>4. ciRow' \in [CiIds -> SUBSET CiRows]
        BY <2>4, <3>1, <4>2, Zenon DEF CiInv
      <4> HIDE DEF q
      <4>5. ciCall["validate"] # CiNoCall => ciRow'[ciCall["validate"].id] = {}
        <5> SUFFICES ASSUME ciCall["validate"] # CiNoCall PROVE ciRow'[ciCall["validate"].id] = {}
          BY Zenon
        <5>1. ciCall["validate"].id \in CiIds /\ ciRow[ciCall["validate"].id] = {}
          BY Zenon DEF CiInv
        <5> QED
          BY <4>1, <4>3, <5>1, Zenon
      <4> QED
        BY <2>0, <2>1, <2>2, <4>1, <4>2, <4>4, <4>5, Zenon DEF CiInv
    <3>2. CASE q.id \notin CiIds
      <4>1. ciRow' = ciRow
        BY <2>4, <3>2 DEF CiInv
      <4> QED
        BY <2>0, <2>1, <2>2, <4>1, Zenon DEF CiInv
    <3> QED
      BY <3>1, <3>2, Zenon
  <2>5. CASE ciRow' = ciRow
    BY <2>0, <2>1, <2>2, <2>5, Zenon DEF CiInv
  <2> QED
    BY <2>0, <2>4, <2>5, Zenon
<1>5. CASE CiExpire
  <2>0. PICK i \in CiIds : \E r \in ciRow[i] : ciRow' = [ciRow EXCEPT ![i] = {[r EXCEPT !.expired = TRUE]}]
    BY <1>5, Zenon DEF CiExpire
  <2>1. PICK r \in ciRow[i] : ciRow' = [ciRow EXCEPT ![i] = {[r EXCEPT !.expired = TRUE]}]
    BY <2>0, Zenon
  <2>2. r \in CiRows
    BY <2>1, Zenon DEF CiInv
  <2> DEFINE s == [r EXCEPT !.expired = TRUE]
  <2>3. s \in CiRows /\ s.path = r.path /\ s.hash = r.hash /\ s.expired
    BY <2>2, Zenon DEF CiRows
  <2> HIDE DEF s
  <2>4. ciRow' \in [CiIds -> SUBSET CiRows] /\ ciRow'[i] = {s} /\ \A j \in CiIds \ {i} : ciRow'[j] = ciRow[j]
    BY <2>1, <2>3, Zenon DEF CiInv, s
  <2>5. ciRow[i] # {} /\ ciFile' = ciFile /\ ciCall' = ciCall /\ ciUsed' = ciUsed /\ ciSweep' = ciSweep
    BY <1>5, <2>1, Zenon DEF CiExpire
  <2>6. r.path => ciFile[i] = {r.hash}
    BY <2>1, Zenon DEF CiInv
  <2>7. ciSweep \subseteq CiIds /\ ciFile \in [CiIds -> SUBSET CiPackage]
    BY Zenon DEF CiInv
  <2> QED
    BY <2>3, <2>4, <2>5, <2>6, <2>7, CiOneSession, Zenon
<1>6. CASE CiTick
  BY <1>6, CiQuiet, Zenon DEF CiTick, CiInv
<1>7. CASE CiClean
  <2> DEFINE go(i) == {r \in ciRow[i] : r.path /\ (r.status # "validated" \/ r.expired)}
             left(i) == {[r EXCEPT !.path = FALSE] : r \in go(i)}
  <2>1. PICK i \in ciSweep :
          /\ ciSweep' = ciSweep \ {i}
          /\ \/ UNCHANGED <<ciRow, ciFile>>
             \/ go(i) # {} /\ ciFile' = [ciFile EXCEPT ![i] = {}] /\ ciRow' = [ciRow EXCEPT ![i] = left(i)]
    BY <1>7, Zenon DEF CiClean
  <2>2. i \in CiIds /\ ciSweep' \subseteq CiIds /\ ciCall' = ciCall /\ ciUsed' = ciUsed
    BY <1>7, <2>1, Zenon DEF CiInv, CiClean
  <2>3. CASE UNCHANGED <<ciRow, ciFile>>
    BY <2>2, <2>3, CiQuiet, Zenon DEF CiInv
  <2>4. CASE go(i) # {} /\ ciFile' = [ciFile EXCEPT ![i] = {}] /\ ciRow' = [ciRow EXCEPT ![i] = left(i)]
    <3>1. ASSUME NEW r \in go(i) PROVE LET s == [r EXCEPT !.path = FALSE] IN
             s \in CiRows /\ ~s.path /\ ~(s.status = "validated" /\ ~s.expired)
      <4>1. r \in CiRows /\ (r.status # "validated" \/ r.expired)
        BY <2>2, <3>1, Zenon DEF CiInv
      <4> QED
        BY <4>1, Zenon DEF CiRows
    <3>2. \A s \in left(i) : s \in CiRows /\ ~s.path /\ ~(s.status = "validated" /\ ~s.expired)
      BY <3>1, Zenon
    <3>3. ciRow[i] # {}
      BY <2>4, Zenon
    <3> HIDE DEF go, left
    <3>4. /\ ciRow' \in [CiIds -> SUBSET CiRows] /\ ciRow'[i] = left(i) /\ \A j \in CiIds \ {i} : ciRow'[j] = ciRow[j]
          /\ ciFile' \in [CiIds -> SUBSET CiPackage] /\ \A j \in CiIds \ {i} : ciFile'[j] = ciFile[j]
      BY <2>2, <2>4, <3>2, Zenon DEF CiInv
    <3> QED
      BY <2>2, <3>2, <3>3, <3>4, CiOneSession, Zenon
  <2> QED
    BY <2>1, <2>3, <2>4, Zenon
<1>8. CASE UNCHANGED ciVars
  BY <1>8, CiQuiet, Zenon DEF ciVars, CiInv
<1> QED
  BY <1>1, <1>2, <1>3, <1>4, <1>5, <1>6, <1>7, <1>8, Zenon DEF CiNext

\* Only packages that pass every check are applied, every export would pass them, and
\* a session that could still be applied has its package on disk, for any number of
\* sessions and any limit of an archive.
THEOREM ImportsSound == CiSpec => [](CiOnlySound /\ CiStagedStays)
<1>1. CiInit => CiInv
  BY Zenon DEF CiInit, CiInv
<1>2. CiInv => CiStagedStays
  BY Zenon DEF CiInv, CiStagedStays
<1>3. CiInv => CiOnlySound
  <2>1. ASSUME NEW n \in 1 .. (CiMaxFiles - 1) PROVE CiValid(CiExport(n))
    BY CiAssumption DEF CiValid, CiExport, CiSafe, CiStructure, CiCompatible, CiIntegrity
  <2>2. ASSUME NEW p, CiValid(p) PROVE p.db \in {"ok", "auth_ref"} /\ p.hashed = p.content /\ p.enclosed
    BY <2>2, Zenon DEF CiValid, CiSafe, CiStructure, CiIntegrity
  <2> QED
    BY <2>1, <2>2, Zenon DEF CiInv, CiOnlySound
<1> QED
  BY <1>1, <1>2, <1>3, CiStep, PTL DEF CiSpec

-----------------------------------------------------------------------------
(* apigateway: the upgrade of the software *)

UgPlaces == {"none", "rm", "run", "wait", "tidy", "flag", "pid", "end"}

\* The two promises of the upgrade, with the shape of its threads.
UgInv ==
    /\ ugThread \in [UgUploads -> UgPlaces]
    /\ UgFlagReleased /\ UgRunningReported

\* A step that starts no upgrade, ends no thread and reports nothing as running.
LEMMA UgQuiet ==
    ASSUME UgInv, ugThread' = ugThread, ugRunning' => ugRunning,
           ugFile' = ugFile \/ ugFile' # "running"
    PROVE  UgInv'
BY Zenon DEF UgInv, UgFlagReleased, UgRunningReported

LEMMA UgStep == UgInv /\ [UgNext]_ugVars => UgInv'
<1> SUFFICES ASSUME UgInv, [UgNext]_ugVars PROVE UgInv'
  BY Zenon
<1>1. ASSUME NEW u \in UgUploads, UgCheck(u) \/ UgDropped(u) PROVE UgInv'
  BY <1>1, UgQuiet DEF UgCheck, UgDropped, ugMem
<1>2. ASSUME NEW u \in UgUploads, UgBegin(u) PROVE UgInv'
  BY <1>2, UgQuiet, Zenon DEF UgBegin
<1>3. ASSUME NEW u \in UgUploads, UgUploadEnds(u) PROVE UgInv'
  BY <1>3, UgQuiet, Zenon DEF UgUploadEnds
<1>4. ASSUME NEW u \in UgUploads, UgReceived(u) PROVE UgInv'
  <2>1. CASE ugThread' = [ugThread EXCEPT ![u] = "rm"]
    BY <2>1, Zenon DEF UgInv, UgPlaces, UgFlagReleased, UgRunningReported
  <2>2. CASE UNCHANGED <<ugRunning, ugFile, ugThread>>
    BY <2>2, UgQuiet, Zenon
  <2> QED
    BY <1>4, <2>1, <2>2, Zenon DEF UgReceived
<1>5. ASSUME NEW u \in UgUploads, UgWork(u) PROVE UgInv'
  <2> USE DEF UgInv, UgPlaces, UgGo, ugMem
  <2>1. ASSUME NEW at \in UgPlaces, UgGo(u, at), ugRunning' = ugRunning \/ ~ugRunning',
               ugRunning' => at \in {"rm", "run", "wait", "tidy", "flag"},
               ugFile' = ugFile \/ ugFile' # "running", ugFile' = "running" =>
                  at \in {"rm", "run", "wait"} \/ ugThread[u] \notin {"rm", "run", "wait"}
        PROVE  UgInv'
    BY <2>1, Zenon DEF UgFlagReleased, UgRunningReported
  <2>2. CASE UgRemoveBox(u)
    BY <2>1, <2>2, Zenon DEF UgRemoveBox
  <2>3. CASE UgSpawn(u)
    BY <2>1, <2>3, Zenon DEF UgSpawn
  <2>4. CASE UgExit(u)
    BY <2>1, <2>4, Zenon DEF UgExit
  <2>5. CASE UgTidy(u)
    BY <2>1, <2>5, Zenon DEF UgTidy
  <2>6. CASE UgClearFlag(u)
    BY <2>1, <2>6, Zenon DEF UgClearFlag
  <2>7. CASE UgClearPid(u)
    BY <2>7, Zenon DEF UgClearPid, UgFlagReleased, UgRunningReported
  <2> QED
    BY <1>5, <2>2, <2>3, <2>4, <2>5, <2>6, <2>7, Zenon DEF UgWork
<1>6. CASE UgInstalled \/ UgAbortStart \/ UgAbortStop \/ UgAbortMark
  BY <1>6, UgQuiet DEF UgInstalled, UgAbortStart, UgAbortStop, UgAbortMark, ugMem
<1>7. CASE UgPollFile \/ UgPollMem \/ UgPollAnswer
  BY <1>7, UgQuiet DEF UgPollFile, UgPollMem, UgPollAnswer, ugMem
<1>8. CASE UgRestart
  BY <1>8, Zenon DEF UgRestart, UgInv, UgPlaces, UgFlagReleased, UgRunningReported
<1>9. CASE UNCHANGED ugVars
  BY <1>9, UgQuiet, Zenon DEF ugVars, ugMem
<1> QED
  BY <1>1, <1>2, <1>3, <1>4, <1>5, <1>6, <1>7, <1>8, <1>9, Zenon DEF UgNext

\* UPGRADE_RUNNING is set, and the status file says "running", only while a thread
\* lives that will clear the one and correct the other, for any number of uploads,
\* aborts and restarts.
THEOREM UpgradeReported == UgSpec => [](UgFlagReleased /\ UgRunningReported)
<1>1. UgInit => UgInv
  BY Zenon DEF UgInit, UgInv, UgForget, UgPlaces, UgFlagReleased, UgRunningReported
<1>2. UgInv => UgFlagReleased /\ UgRunningReported
  BY Zenon DEF UgInv
<1> QED
  BY <1>1, <1>2, UgStep, PTL DEF UgSpec

-----------------------------------------------------------------------------
(* apigateway: maintenance as a whole *)

\* Backups, imports, restores, deletions and upgrades of a gateway leave its versions, its
\* staged packages and its status sound, for any number of calls and any failures.
THEOREM MaintenanceCorrect == CaSpec /\ CiSpec /\ UgSpec => []MaintenanceSound
<1>1. (CaCurrentRestorable /\ CaAllOrNothing) /\ (CiOnlySound /\ CiStagedStays)
      /\ (UgFlagReleased /\ UgRunningReported) => MaintenanceSound
  BY Zenon DEF MaintenanceSound
<1> QED
  BY <1>1, VersionsSound, ImportsSound, UpgradeReported, PTL

=============================================================================
