----------------------- MODULE LegacyMigrationProofs ------------------------
(***************************************************************************)
(* Proofs about LegacyMigration, for any sets of sources and slot files    *)
(* and any number of crashes.                                              *)
(*                                                                         *)
(* NothingLost is not inductive: that Remove may delete a file depends on  *)
(* what happened to it in this transaction.  Handled follows each file of  *)
(* the current source through the steps of migrateLegacySource, and Sound  *)
(* says what may be in the transaction, in the database and under          *)
(* legacy-failed.  Swept does the same for whole sources: a file still on  *)
(* disk belongs to a directory that is yet to come.                        *)
(***************************************************************************)
EXTENDS LegacyMigration, TLAPS

Sound ==
  /\ \A f \in Files : kind[f] \in KindsOf(f)
  /\ \A f \in disk : kind[f] # "none"
  /\ tx \subseteq importable /\ db \subseteq importable /\ failed \subseteq broken

Handled ==
  /\ step = "slots" => \A f \in disk : f.source = source =>
       f \in entries \/ f \in tx \/ kind[f] = "other"
  /\ step = "remove" => \A f \in disk : f.source = source =>
       f \in db \/ kind[f] = "other"

Swept ==
  /\ step \in {"scan", "source", "slots", "remove"} =>
       /\ ~marker
       /\ \A f \in disk : f.source \in sources \/ (step # "scan" /\ f.source = source)
  /\ step = "running" => marker
  /\ marker => disk = {}

IInv == TypeOK /\ Sound /\ Handled /\ NothingLost /\ Swept

USE DEF Names

LEMMA InitIInv == Init => IInv
<1> SUFFICES ASSUME Init PROVE IInv
  OBVIOUS
<1>1. kind \in [Files -> Kinds] /\ \A f \in Files : kind[f] \in KindsOf(f)
  BY DEF Init
<1>2. disk = {f \in Files : kind[f] # "none"} /\ db = {} /\ tx = {} /\ failed = {}
  BY DEF Init
<1>3. /\ marker = FALSE /\ step = "down" /\ stops = 0
      /\ sources = {} /\ entries = {}
  BY DEF Init
<1>4. stops \in 0..MaxStops
  BY <1>3, MigrationAssumption
<1>5. TypeOK
  BY <1>1, <1>2, <1>3, <1>4 DEF TypeOK, Steps
<1>6. Sound
  BY <1>1, <1>2 DEF Sound
<1>7. NothingLost
  BY <1>2 DEF NothingLost, importable, broken
<1>8. Handled /\ Swept
  BY <1>3 DEF Handled, Swept
<1> QED
  BY <1>5, <1>6, <1>7, <1>8 DEF IInv

LEMMA StepIInv == IInv /\ [Next]_vars => IInv'
<1> SUFFICES ASSUME IInv, [Next]_vars PROVE IInv'
  OBVIOUS
<1> USE MigrationAssumption DEF IInv, of, importable, broken
<1>1. CASE NewStorage
  BY <1>1 DEF NewStorage, TypeOK, Sound, Handled, NothingLost, Swept, Steps, Files
<1>2. ASSUME NEW s \in Sources, Begin(s) PROVE IInv'
  BY <1>2 DEF Begin, TypeOK, Sound, Handled, NothingLost, Swept, Steps
<1>3. CASE MigrateSource
  <2>1. sourceFile \in Files
    BY <1>3 DEF MigrateSource, TypeOK, sourceFile, Files
  <2>2. CASE sourceFile \notin disk
    <3>1. UNCHANGED <<disk, failed, tx>> /\ tx = {}
      BY <1>3, <2>2 DEF MigrateSource, TypeOK
    <3>2. \A f \in disk : f.source = source => f \in entries'
      BY <1>3, <2>2 DEF MigrateSource, TypeOK, sourceFile, Files
    <3> QED
      BY <1>3, <3>1, <3>2
      DEF MigrateSource, TypeOK, Sound, Handled, NothingLost, Swept, Steps
  <2>3. CASE sourceFile \in disk /\ kind[sourceFile] = "malformed"
    <3>1. quarantine(sourceFile) /\ UNCHANGED tx /\ tx = {}
      BY <1>3, <2>3 DEF MigrateSource, TypeOK
    <3>2. \A f \in disk' : f.source = source => f \in entries'
      BY <1>3, <2>3, <3>1 DEF MigrateSource, TypeOK, sourceFile, Files, quarantine
    <3> QED
      BY <1>3, <2>1, <2>3, <3>1, <3>2
      DEF MigrateSource, TypeOK, Sound, Handled, NothingLost, Swept, Steps, quarantine
  <2>4. CASE sourceFile \in disk /\ kind[sourceFile] # "malformed"
    <3>1. tx' = tx \union {sourceFile} /\ UNCHANGED <<disk, failed>> /\ tx = {}
      BY <1>3, <2>4 DEF MigrateSource, TypeOK
    <3>2. \A f \in disk : f.source = source => f \in entries' \/ f \in tx'
      BY <1>3, <2>4, <3>1 DEF MigrateSource, TypeOK, sourceFile, Files
    <3>3. sourceFile \in importable /\ sourceFile.source = source
      BY <2>1, <2>4 DEF Sound, KindsOf, sourceFile
    <3> QED
      BY <1>3, <2>1, <3>1, <3>2, <3>3
      DEF MigrateSource, TypeOK, Sound, Handled, NothingLost, Swept, Steps
  <2> QED
    BY <2>2, <2>3, <2>4
<1>4. ASSUME NEW f \in Files, MigrateSlot(f) PROVE IInv'
  <2>1. CASE kind[f] = "other"
    BY <1>4, <2>1 DEF MigrateSlot, TypeOK, Sound, Handled, NothingLost, Swept, Steps
  <2>2. CASE kind[f] = "malformed"
    BY <1>4, <2>2
    DEF MigrateSlot, quarantine, TypeOK, Sound, Handled, NothingLost, Swept, Steps
  <2>3. CASE kind[f] \in {"good", "large"} /\ ~rejects(f)
    BY <1>4, <2>3
    DEF MigrateSlot, writeSlot, rejects, TypeOK, Sound, Handled, NothingLost, Swept, Steps
  <2>4. CASE kind[f] \in {"good", "large"} /\ rejects(f)
    BY <1>4, <2>4
    DEF MigrateSlot, Exit, TypeOK, Sound, Handled, NothingLost, Swept, Steps
  <2> QED
    BY <1>4, <2>1, <2>2, <2>3, <2>4 DEF MigrateSlot
<1>5. CASE Commit
  BY <1>5 DEF Commit, TypeOK, Sound, Handled, NothingLost, Swept, Steps
<1>6. ASSUME NEW f \in Files, Remove(f) PROVE IInv'
  BY <1>6 DEF Remove, removable, TypeOK, Sound, Handled, NothingLost, Swept, Steps
<1>7. CASE SourceDone
  <2>1. \A f \in disk : f.source # source
    BY <1>7 DEF SourceDone, removable, sourceFile
  <2> QED
    BY <1>7, <2>1 DEF SourceDone, TypeOK, Sound, Handled, NothingLost, Swept, Steps
<1>8. CASE WriteMarker
  BY <1>8 DEF WriteMarker, TypeOK, Sound, Handled, NothingLost, Swept, Steps
<1>9. CASE Stop
  BY <1>9 DEF Stop, Exit, TypeOK, Sound, Handled, NothingLost, Swept, Steps
<1>10. CASE UNCHANGED vars
  BY <1>10 DEF vars, TypeOK, Sound, Handled, NothingLost, Swept
<1> QED
  BY <1>1, <1>2, <1>3, <1>4, <1>5, <1>6, <1>7, <1>8, <1>9, <1>10 DEF Next, Migrate

LEMMA Invariance == Spec => []IInv
<1>1. Init => IInv
  BY InitIInv
<1>2. IInv /\ [Next]_vars => IInv'
  BY StepIInv
<1> QED
  BY <1>1, <1>2, PTL DEF Spec

(* For any number of crashes, at any step, every importable legacy file is *)
(* on disk or committed and every broken one on disk or set aside.         *)
THEOREM NothingIsLost == Spec => []NothingLost
<1>1. IInv => NothingLost
  BY DEF IInv
<1> QED
  BY <1>1, Invariance, PTL

(* The marker is there only when nothing is left to import. *)
THEOREM MarkerTellsTruth == Spec => []MarkerIsTrue
<1>1. IInv => MarkerIsTrue
  BY DEF IInv, Swept, NothingLost, MarkerIsTrue
<1> QED
  BY <1>1, Invariance, PTL

(* The migration implements the all-at-once import of LegacyImport: Commit *)
(* is the only step that stores anything, and it stores all of a source.   *)
THEOREM MigrationImplementsImport == Spec => ImplementsImport
<1>1. Init => Import!Init
  BY DEF Init, Import!Init, place, Files, Import!Files, Import!Names
<1>2. ASSUME IInv, [Next]_vars PROVE [Import!Next]_<<kind, place>>
  <2> USE DEF Import!Files, Import!Names
  <2>1. ASSUME db' = db, failed' = failed, kind' = kind PROVE UNCHANGED <<kind, place>>
    BY <2>1 DEF place
  <2>2. ASSUME NEW f \in Files, kind[f] = "malformed", quarantine(f),
               db' = db, kind' = kind
        PROVE  Import!Next
    <3>1. f \notin db
      BY <1>2, <2>2 DEF IInv, Sound, importable
    <3>2. place' = [place EXCEPT ![f] = "failed"]
      BY <2>2, <3>1 DEF place, quarantine
    <3>3. Import!Quarantine(f)
      BY <2>2, <3>2 DEF Import!Quarantine
    <3> QED
      BY <2>2, <3>3 DEF Import!Next, Files
  <2>3. ASSUME Commit PROVE Import!Next
    <3>1. source \in Sources /\ entries = {} /\ db' = db \union tx
          /\ failed' = failed /\ kind' = kind
      BY <1>2, <2>3 DEF Commit, IInv, TypeOK
    <3>2. ASSUME NEW f \in Files PROVE
            f \in db' <=> f \in db \/ (f.source = source /\ kind[f] = "good")
      BY <1>2, <2>3, <3>1
      DEF Commit, IInv, TypeOK, Sound, Handled, NothingLost, importable, of
    <3>3. ASSUME NEW f \in Files, f.source = source, kind[f] = "good" PROVE f \notin failed
      BY <1>2, <3>3 DEF IInv, Sound, broken
    <3>4. place' = [f \in Files |->
            IF f.source = source /\ kind[f] = "good" THEN "stored" ELSE place[f]]
      BY <3>1, <3>2, <3>3 DEF place
    <3>5. Import!Import(source)
      BY <3>4 DEF Import!Import, Files
    <3> QED
      BY <3>1, <3>5 DEF Import!Next
  <2>4. CASE NewStorage
    BY <2>1, <2>4 DEF NewStorage
  <2>5. ASSUME NEW s \in Sources, Begin(s) PROVE [Import!Next]_<<kind, place>>
    BY <2>1, <2>5 DEF Begin
  <2>6. CASE MigrateSource
    <3>1. sourceFile \in Files /\ db' = db /\ kind' = kind
      BY <1>2, <2>6 DEF MigrateSource, IInv, TypeOK, sourceFile, Files
    <3>2. CASE sourceFile \in disk /\ kind[sourceFile] = "malformed"
      <4>1. quarantine(sourceFile)
        BY <2>6, <3>2 DEF MigrateSource
      <4> QED
        BY <2>2, <3>1, <3>2, <4>1
    <3>3. CASE ~(sourceFile \in disk /\ kind[sourceFile] = "malformed")
      BY <2>1, <2>6, <3>1, <3>3 DEF MigrateSource
    <3> QED
      BY <3>2, <3>3
  <2>7. ASSUME NEW f \in Files, MigrateSlot(f) PROVE [Import!Next]_<<kind, place>>
    <3>1. CASE kind[f] = "malformed" /\ quarantine(f) /\ UNCHANGED <<db, kind>>
      BY <2>2, <3>1
    <3>2. CASE UNCHANGED <<db, failed, kind>>
      BY <2>1, <3>2
    <3> QED
      BY <2>7, <3>1, <3>2 DEF MigrateSlot, writeSlot, Exit
  <2>8. ASSUME NEW f \in Files, Remove(f) PROVE [Import!Next]_<<kind, place>>
    BY <2>1, <2>8 DEF Remove
  <2>9. CASE SourceDone
    BY <2>1, <2>9 DEF SourceDone
  <2>10. CASE WriteMarker
    BY <2>1, <2>10 DEF WriteMarker
  <2>11. CASE Stop
    BY <2>1, <2>11 DEF Stop, Exit
  <2>12. CASE UNCHANGED vars
    BY <2>1, <2>12 DEF vars
  <2> QED
    BY <1>2, <2>3, <2>4, <2>5, <2>6, <2>7, <2>8, <2>9, <2>10, <2>11, <2>12
    DEF Next, Migrate
<1> QED
  BY <1>1, <1>2, Invariance, PTL DEF Spec, ImplementsImport, Import!Spec
=============================================================================
