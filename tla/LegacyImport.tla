---------------------------- MODULE LegacyImport ----------------------------
(***************************************************************************)
(* What the migration of the legacy JSON files promises: a source's files  *)
(* enter the database all at once, a malformed one is set aside, and       *)
(* neither is ever undone.  Crashes, retries and the files on disk do not  *)
(* show.                                                                   *)
(***************************************************************************)
CONSTANTS Sources, Slots

VARIABLES kind,    \* what each legacy file holds
          place    \* where its contents are

Names == Slots \union {"source"}
Files == [source : Sources, name : Names]

Init == place = [f \in Files |-> "legacy"]

Import(s) ==
  place' = [f \in Files |->
    IF f.source = s /\ kind[f] = "good" THEN "stored" ELSE place[f]]

Quarantine(f) ==
  /\ kind[f] = "malformed"
  /\ place' = [place EXCEPT ![f] = "failed"]

Next ==
  /\ \/ \E s \in Sources : Import(s)
     \/ \E f \in Files : Quarantine(f)
  /\ kind' = kind

Spec == Init /\ [][Next]_<<kind, place>>
=============================================================================
