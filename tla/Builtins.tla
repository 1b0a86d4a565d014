------------------------------ MODULE Builtins ------------------------------
(* The profiles shipped with the application (internal/profile/builtin.go   *)
(* and SeedBuiltinProfiles, internal/app/profiles.go). At every start they  *)
(* are written into the user's folder, and the hash of what was written is  *)
(* recorded in the configuration: the record decides at the next start what *)
(* is still the client's. The folder is the user's as well, who edits and   *)
(* deletes what is in it, and later versions ship other contents.           *)
(*                                                                          *)
(* A content is a number: a version's shipped content, or Own, one no       *)
(* version ships; contents are told apart by their hashes. The user leaves  *)
(* the folder alone during the start.                                       *)
EXTENDS Naturals

CONSTANTS
  MaxProfile,   \* shipped profiles, in the order of their ids
  LastVersion,  \* bound: versions of the application
  MaxFaults     \* bound: files that cannot be read or written, saves that fail

Profiles == 1 .. MaxProfile
Missing == 0
NoRecord == 0
Own == LastVersion + 1
Bodies == Missing .. Own

BuiltinsAssumption == MaxProfile \in Nat /\ LastVersion \in Nat \ {0}

VARIABLES
  shipped,   \* the version installed
  file,      \* the folder
  recorded,  \* cfg.BuiltinProfiles, in memory and on disk
  phase,     \* "down", "seeding", "recording", "up"
  next,      \* the profile Seed is at
  results,   \* its results so far: the hash to record, or none
  faults,
  users,     \* history: what the user left in place of the client's file
  wrote,     \* history: the contents the client has written
  unsure,    \* history: written, but the record of it was lost
  excused    \* history: failed at this start, or the user's since

user == <<shipped, users>>
vars == <<file, recorded, phase, next, results, faults, user, wrote, unsure, excused>>

Nobody == Own + 1
NoResults == [p \in Profiles |-> NoRecord]

Init ==
  /\ shipped = 1
  /\ file \in [Profiles -> {Missing, Own}]
  /\ recorded = NoResults /\ phase = "down" /\ next = 1 /\ results = NoResults
  /\ faults = 0
  /\ users = [p \in Profiles |-> IF file[p] = Own THEN Own ELSE Nobody]
  /\ wrote = [p \in Profiles |-> {}] /\ unsure = {} /\ excused = {}

(***************************************************************************)
(* The user                                                                *)
(***************************************************************************)

Quiet == phase \in {"down", "up"}

\* What he leaves is his, unless it is the content of the record.
Leaves(p, c) ==
  /\ file' = [file EXCEPT ![p] = c]
  /\ users' = [users EXCEPT ![p] = IF c # Missing /\ c = recorded[p] THEN Nobody ELSE c]
  /\ excused' = excused \cup {p}
  /\ UNCHANGED <<recorded, phase, next, results, faults, shipped, wrote, unsure>>

Edit(p, c) == Quiet /\ c # Missing /\ c # file[p] /\ Leaves(p, c)
Delete(p) == Quiet /\ file[p] # Missing /\ Leaves(p, Missing)

Upgrade ==
  /\ phase = "down" /\ shipped < LastVersion
  /\ shipped' = shipped + 1
  /\ UNCHANGED <<file, recorded, phase, next, results, faults, users, wrote, unsure, excused>>

(***************************************************************************)
(* The start                                                               *)
(***************************************************************************)

Start ==
  /\ phase = "down"
  /\ phase' = "seeding" /\ next' = 1 /\ results' = NoResults /\ excused' = {}
  /\ UNCHANGED <<file, recorded, faults, user, wrote, unsure>>

\* Mutant: whatever is not current is written.
WritesStale(p) == file[p] # shipped
\* Mutant: a default that is missing is written again.
WritesMissing(p) ==
  \/ file[p] = Missing
  \/ recorded[p] # NoRecord /\ file[p] = recorded[p] /\ recorded[p] # shipped
(* The table of Seed: the first run, and an untouched default of another   *)
(* version. The rest is the user's, deleted by him, or current.            *)
Writes(p) ==
  \/ recorded[p] = NoRecord /\ file[p] = Missing
  \/ recorded[p] # NoRecord /\ file[p] = recorded[p] /\ recorded[p] # shipped

Moved == next' = next + 1 /\ UNCHANGED <<recorded, phase, shipped, unsure>>

SeedLeaves ==
  /\ phase = "seeding" /\ next \in Profiles /\ ~Writes(next)
  /\ results' = [results EXCEPT ![next] = recorded[next]]
  /\ Moved /\ UNCHANGED <<file, users, faults, wrote, excused>>

\* Gone, and the client does not know that it wrote it.
Forgotten(p) == users[p] = Missing /\ recorded[p] = NoRecord

SeedWrites ==
  /\ phase = "seeding" /\ next \in Profiles /\ Writes(next)
  /\ file' = [file EXCEPT ![next] = shipped]
  /\ wrote' = [wrote EXCEPT ![next] = @ \cup {shipped}]
  /\ results' = [results EXCEPT ![next] = shipped]
  /\ users' = [users EXCEPT ![next] = IF Forgotten(next) THEN Nobody ELSE @]
  /\ Moved /\ UNCHANGED <<faults, excused>>

\* Mutant: a write that fails is recorded like one that succeeds.
RecordsFailure ==
  /\ phase = "seeding" /\ next \in Profiles /\ faults < MaxFaults
  /\ faults' = faults + 1 /\ excused' = excused \cup {next}
  /\ results' = [results EXCEPT ![next] = IF Writes(next) THEN shipped ELSE recorded[next]]
  /\ Moved /\ UNCHANGED <<file, users, wrote>>
(* A file that cannot be read or written gives no result.                  *)
SeedFails ==
  /\ phase = "seeding" /\ next \in Profiles /\ faults < MaxFaults
  /\ faults' = faults + 1 /\ excused' = excused \cup {next}
  /\ Moved /\ UNCHANGED <<file, users, results, wrote>>

\* Mutant: the results replace the record.
OnlyResults == results
(* The record goes over, with every result in place of its entry.          *)
Updated == [p \in Profiles |-> IF results[p] = NoRecord THEN recorded[p] ELSE results[p]]

Seeded ==
  /\ phase = "seeding" /\ next = MaxProfile + 1
  /\ phase' = IF Updated = recorded THEN "up" ELSE "recording"
  /\ UNCHANGED <<file, recorded, next, results, faults, user, wrote, unsure, excused>>

Written == {p \in Profiles : results[p] # NoRecord /\ results[p] # recorded[p]}
Over == results' = NoResults /\ next' = 1 /\ UNCHANGED <<file, user, wrote, excused>>

Records ==
  /\ phase = "recording" /\ phase' = "up"
  /\ recorded' = Updated
  /\ Over /\ UNCHANGED <<faults, unsure>>

\* The files are on disk but unrecorded.
RecordFails ==
  /\ phase = "recording" /\ phase' = "up" /\ faults < MaxFaults
  /\ faults' = faults + 1
  /\ unsure' = unsure \cup Written
  /\ Over /\ UNCHANGED recorded

(* The application quits, or dies between a file and its record.           *)
Stops ==
  /\ phase # "down" /\ phase' = "down"
  /\ unsure' = unsure \cup Written
  /\ Over /\ UNCHANGED <<recorded, faults>>

Next ==
  \/ \E p \in Profiles : (\E c \in Bodies : Edit(p, c)) \/ Delete(p)
  \/ Upgrade \/ Start
  \/ SeedLeaves \/ SeedWrites \/ SeedFails \/ Seeded
  \/ Records \/ RecordFails \/ Stops

Spec == Init /\ [][Next]_vars

(***************************************************************************)
(* Properties                                                              *)
(***************************************************************************)

(* "A user edit is permanent. A deletion is permanent." (Seed): what the   *)
(* user left in place of a default is there after any number of starts of  *)
(* any versions, with files that cannot be read, saves that fail and       *)
(* deaths between a file and its record. A deletion counts when the client *)
(* knows that it wrote the file.                                           *)
UserIsRespected ==
  \A p \in Profiles :
    \/ users[p] = Nobody
    \/ Forgotten(p)
    \/ file[p] = users[p]

(* "A recorded hash proves the file was written at least once" (Seed).     *)
RecordIsProof == \A p \in Profiles : recorded[p] # NoRecord => recorded[p] \in wrote[p]

(* A default nobody touched is the installed version's once the start is   *)
(* over, unless its file failed at this start or its record was lost at an *)
(* earlier one; a file that failed takes no other's record with it         *)
(* (SeedBuiltinProfiles).                                                  *)
UntouchedIsCurrent ==
  phase = "up" =>
    \A p \in Profiles \ (unsure \cup excused) : users[p] = Nobody => file[p] = shipped

BuiltinsRespectUser == UserIsRespected /\ RecordIsProof /\ UntouchedIsCurrent
=============================================================================
