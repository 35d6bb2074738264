------------------------------- MODULE Store --------------------------------
(***************************************************************************)
(* The state file (internal/store).  The mutex makes every setter one      *)
(* step: it changes the copy in memory, then save writes the whole copy to *)
(* a temporary file and renames it over the old one.  When save fails the  *)
(* memory keeps the new value, the file keeps its old content, and any     *)
(* later save that succeeds catches up.                                    *)
(***************************************************************************)
EXTENDS Domain

VARIABLES
    mem,      \* the State the process holds
    disk      \* the State in the file, what a restart reads

storeVars == <<mem, disk>>

StoredState == [alarmState  : ArmStates,
                startedByUs : [Vacuums -> BOOLEAN]]

StoreTypeOK == mem \in StoredState /\ disk \in StoredState

NothingStored == [alarmState  |-> Unknown,
                  startedByUs |-> [v \in Vacuums |-> FALSE]]

StoreInit == mem = NothingStored /\ disk = NothingStored

\* Mutant: the file is not read.
LoadStoreMutant == mem' = NothingStored /\ UNCHANGED disk

\* New: the process starts from the content of the file.
LoadStore == mem' = disk /\ UNCHANGED disk

save == disk' = mem' \/ ("save_error" \in Events /\ UNCHANGED disk)

SetAlarmState(a) == mem' = [mem EXCEPT !.alarmState = a] /\ save

\* No code reads the control state back, so its value is left out; its save
\* writes everything else as well.
SetControlState == UNCHANGED mem /\ save

\* Nor is the cookie modelled, whose save does the same.
SetVerisureCookie == UNCHANGED mem /\ save

SetVacuumStartedByUs(v, b) ==
    /\ mem' = [mem EXCEPT !.startedByUs = [@ EXCEPT ![v] = b]]
    /\ save

startedByUs == mem.startedByUs

hasStartedVacuums   == \E v \in Vacuums : startedByUs[v]
hasUnstartedVacuums == \E v \in Vacuums : ~startedByUs[v]
=============================================================================
