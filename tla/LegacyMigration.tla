-------------------------- MODULE LegacyMigration ---------------------------
(***************************************************************************)
(* The import of legacy JSON files into SQLite when the storage is opened  *)
(* (NewStorage and migrateLegacyFiles, internal/storage/storage.go).       *)
(*                                                                         *)
(* Per source there is one transaction; the files are removed after its    *)
(* commit, and a marker written at the very end keeps the import from      *)
(* running again.  The process may end between any two steps, by a crash   *)
(* or because a step returned an error: main then exits, and is started    *)
(* again on the same directory and the same database.                      *)
(*                                                                         *)
(* A file is its source and its name; of its contents the model keeps what *)
(* the code tells apart.  The legacy index is left out: it is only ever    *)
(* removed.                                                                *)
(***************************************************************************)
EXTENDS Integers

CONSTANTS Sources,     \* the directories below the data directory
          Slots,       \* names of the entries of a slots directory
          MaxStops     \* bound: crashes and I/O errors

ASSUME MigrationAssumption == MaxStops \in Nat /\ "source" \notin Slots

Names == Slots \union {"source"}
Files == [source : Sources, name : Names]

(* "none": there is no such file; "good": it decodes and can be written;   *)
(* "malformed": it does not decode; "large": it decodes to a slot beyond   *)
(* the range of int64Slot; "other": an entry of slots/ that is not JSON.   *)
Kinds == {"none", "good", "malformed", "large", "other"}
KindsOf(f) ==
  IF f.name = "source" THEN {"none", "good", "malformed"} ELSE Kinds

VARIABLES kind,      \* what each legacy file held before the first start
          disk,      \* the legacy files that are still in place
          failed,    \* the files under legacy-failed
          marker,    \* .legacy-json-migrated exists
          db,        \* the files whose contents are committed
          tx,        \* what the open transaction has written
          step,      \* where NewStorage is
          source,    \* sourceID of migrateLegacySource
          sources,   \* the entries of the data directory still to migrate
          entries,   \* the entries of its slots directory still to migrate
          stops      \* counts to MaxStops

vars == <<kind, disk, failed, marker, db, tx, step, source, sources, entries, stops>>

None == "none"
of(s) == {f \in Files : f.source = s}
sourceFile == [source |-> source, name |-> "source"]

Init ==
  /\ kind \in {k \in [Files -> Kinds] : \A f \in Files : k[f] \in KindsOf(f)}
  /\ disk = {f \in Files : kind[f] # "none"}
  /\ failed = {} /\ marker = FALSE /\ db = {} /\ tx = {}
  /\ step = "down" /\ source = None /\ sources = {} /\ entries = {} /\ stops = 0
-----------------------------------------------------------------------------
(* NewStorage: the schema is created if it is not there, and the marker    *)
(* decides whether the entries of the data directory are read.             *)
NewStorage ==
  /\ step = "down"
  /\ step' = IF marker THEN "running" ELSE "scan"
  /\ sources' = IF marker THEN {} ELSE Sources
  /\ UNCHANGED <<kind, disk, failed, marker, db, tx, source, entries, stops>>

(* migrateLegacyFiles takes the next directory and begins a transaction. *)
Begin(s) ==
  /\ step = "scan" /\ s \in sources
  /\ sources' = sources \ {s}
  /\ source' = s /\ tx' = {} /\ step' = "source"
  /\ UNCHANGED <<kind, disk, failed, marker, db, entries, stops>>

(* quarantineLegacyFile: a rename, which no rollback undoes. *)
quarantine(f) == disk' = disk \ {f} /\ failed' = failed \union {f}

(* source.json is written, set aside or absent; then slots/ is listed (a   *)
(* missing directory is an empty one).                                     *)
MigrateSource ==
  /\ step = "source"
  /\ \/ sourceFile \notin disk /\ UNCHANGED <<disk, failed, tx>>
     \/ /\ sourceFile \in disk /\ kind[sourceFile] = "malformed"
        /\ quarantine(sourceFile) /\ UNCHANGED tx
     \/ /\ sourceFile \in disk /\ kind[sourceFile] # "malformed"
        /\ tx' = tx \union {sourceFile} /\ UNCHANGED <<disk, failed>>
  /\ entries' = {f \in disk : f.source = source /\ f.name \in Slots}
  /\ step' = "slots"
  /\ UNCHANGED <<kind, marker, db, source, sources, stops>>

(* NewStorage returns the error: the open transaction is rolled back, the  *)
(* database closed, and main exits.                                        *)
Exit ==
  /\ step' = "down" /\ source' = None /\ sources' = {} /\ entries' = {} /\ tx' = {}
  /\ UNCHANGED <<kind, disk, failed, marker, db>>

(* writeSlot within the transaction.  INSERT OR IGNORE takes a row that is *)
(* there already for success; int64Slot refuses a large slot.              *)
rejects_Duplicates(f) == kind[f] = "large" \/ f \in db
rejects(f) == kind[f] = "large"

writeSlot_Autocommits(f) == db' = db \union {f} /\ UNCHANGED tx
writeSlot(f) == tx' = tx \union {f} /\ UNCHANGED db

(* One entry of slots/. *)
MigrateSlot(f) ==
  /\ step = "slots" /\ f \in entries
  /\ \/ /\ kind[f] = "other"
        /\ entries' = entries \ {f}
        /\ UNCHANGED <<kind, disk, failed, marker, db, tx, step, source, sources>>
     \/ /\ kind[f] = "malformed"
        /\ quarantine(f) /\ entries' = entries \ {f}
        /\ UNCHANGED <<kind, marker, db, tx, step, source, sources>>
     \/ /\ kind[f] \in {"good", "large"} /\ ~rejects(f)
        /\ writeSlot(f) /\ entries' = entries \ {f}
        /\ UNCHANGED <<kind, disk, failed, marker, step, source, sources>>
     \/ /\ kind[f] \in {"good", "large"} /\ rejects(f)
        /\ Exit
  /\ UNCHANGED stops

Commit_Later ==
  /\ step = "slots" /\ entries = {}
  /\ step' = "remove"
  /\ UNCHANGED <<kind, disk, failed, marker, db, tx, source, sources, entries, stops>>
Commit ==
  /\ step = "slots" /\ entries = {}
  /\ db' = db \union tx /\ tx' = {} /\ step' = "remove"
  /\ UNCHANGED <<kind, disk, failed, marker, source, sources, entries, stops>>
-----------------------------------------------------------------------------
(* removeLegacySourceFiles: source.json first, then the entries of slots/, *)
(* one at a time.                                                          *)
removable == {f \in disk : f.source = source /\ (f.name = "source" \/ sourceFile \notin disk)}

Remove(f) ==
  /\ step = "remove" /\ f \in removable
  /\ disk' = disk \ {f}
  /\ UNCHANGED <<kind, failed, marker, db, tx, step, source, sources, entries, stops>>

SourceDone ==
  /\ step = "remove" /\ removable = {}
  /\ step' = "scan" /\ source' = None
  /\ UNCHANGED <<kind, disk, failed, marker, db, tx, sources, entries, stops>>

(* All directories are done: the marker is written and NewStorage returns. *)
WriteMarker_First ==
  /\ step = "scan" /\ ~marker
  /\ marker' = TRUE
  /\ step' = IF sources = {} THEN "running" ELSE step
  /\ UNCHANGED <<kind, disk, failed, db, tx, source, sources, entries, stops>>
WriteMarker ==
  /\ step = "scan" /\ sources = {}
  /\ marker' = TRUE /\ step' = "running"
  /\ UNCHANGED <<kind, disk, failed, db, tx, source, sources, entries, stops>>

(* A crash, or an I/O error of any step; a running backend may stop too. *)
Stop ==
  /\ step # "down" /\ stops < MaxStops
  /\ stops' = stops + 1
  /\ Exit
-----------------------------------------------------------------------------
Migrate ==
  \/ NewStorage
  \/ \E s \in Sources : Begin(s)
  \/ MigrateSource
  \/ \E f \in Files : MigrateSlot(f)
  \/ Commit
  \/ \E f \in Files : Remove(f)
  \/ SourceDone
  \/ WriteMarker

Next == Migrate \/ Stop

Spec == Init /\ [][Next]_vars

(* The process is started again when it has ended, and a goroutine that    *)
(* can take its next step takes it.                                        *)
FairSpec == Spec /\ WF_vars(Migrate)
-----------------------------------------------------------------------------
Steps == {"down", "scan", "source", "slots", "remove", "running"}

(* The variables have their types; a transaction is open only while the    *)
(* slots of one source are read (migrateLegacySource's deferred rollback). *)
TypeOK ==
  /\ kind \in [Files -> Kinds]
  /\ disk \subseteq Files /\ failed \subseteq Files /\ db \subseteq Files
  /\ marker \in BOOLEAN /\ step \in Steps /\ stops \in 0..MaxStops
  /\ sources \subseteq Sources
  /\ step \in {"source", "slots", "remove"} => source \in Sources
  /\ tx # {} => step = "slots" /\ tx \subseteq of(source)
  /\ entries # {} => step = "slots" /\ entries \subseteq of(source)

importable == {f \in Files : kind[f] = "good"}
broken == {f \in Files : kind[f] = "malformed"}

(* No legacy file is lost, wherever the process ends: what can be imported *)
(* is on disk until its row is committed, and what does not decode is on   *)
(* disk until it is under legacy-failed (migrateLegacySource removes files *)
(* only after the commit).                                                 *)
NothingLost ==
  /\ importable \subseteq disk \union db
  /\ broken \subseteq disk \union failed
  /\ {f \in Files : kind[f] = "large"} \subseteq disk

(* The marker tells the truth: once it is there, and so whenever the       *)
(* backend serves, every importable file is in the database, every broken  *)
(* one is set aside and no legacy file is left to import again             *)
(* (migrateLegacyFiles).                                                   *)
MarkerIsTrue ==
  /\ step = "running" => marker
  /\ marker => importable \subseteq db /\ broken \subseteq failed /\ disk = {}

(* The migration with its crashes and retries implements the import: a     *)
(* source's files reach the database all at once, and what is there or set *)
(* aside stays (tx.Commit, INSERT OR IGNORE).                              *)
place == [f \in Files |->
  IF f \in db THEN "stored" ELSE IF f \in failed THEN "failed" ELSE "legacy"]
Import == INSTANCE LegacyImport WITH place <- place
ImplementsImport == Import!Spec

(* The backend comes up in the end, whatever was imported by the attempts  *)
(* before: a row that is already there does not stop the next attempt.     *)
(* The exception is a file whose slot writeSlot refuses: it is neither     *)
(* imported nor set aside, and every start fails on it (int64Slot).        *)
MigrationEnds ==
  (\A f \in Files : kind[f] # "large") => <>[](step = "running")
=============================================================================
