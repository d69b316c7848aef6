------------------------------ MODULE Watcher ------------------------------
(***************************************************************************)
(* The file watcher of internal/pool/watcher.go: a goroutine that walks    *)
(* the directories every interval, compares modification times with those  *)
(* of the walk before, and calls onChange (Pool.Reload) when one differs.  *)
(* The walk is not atomic: files are written and deleted while it runs,    *)
(* and between its end and the reload.                                     *)
(*                                                                         *)
(* A file that filepath.Walk lists and then cannot stat is skipped like    *)
(* one deleted before the visit, and one created after the listing is seen *)
(* in the next walk, so listing and stat are one step, and the order of    *)
(* the visits is left open.  Directories are left out: the files of a      *)
(* skipped one (vendor, node_modules, .git), like those with another       *)
(* extension, are the Files that are not Watched.                          *)
(***************************************************************************)
EXTENDS Naturals, FiniteSets

CONSTANTS
    Files,       \* the files below the watched directories
    Watched,     \* those that isWatchedFile accepts, outside skipped directories
    Backdating,  \* may a write leave a time that is not later than all before?
    Fleeting,    \* may a file be deleted that mtimes has no entry for?
    MaxEdits     \* bound: how often files are written or deleted

ASSUME WatchConfig ==
    /\ Watched \subseteq Files /\ IsFiniteSet(Files)
    /\ {Backdating, Fleeting} \subseteq BOOLEAN /\ MaxEdits \in Nat \ {0}

VARIABLES
    disk,     \* modification time and version of each file; 0 and 0: no file
    edits,    \* how many edits there were; the clock of the file system too
    mtimes,   \* w.mtimes; 0: no entry
    at,       \* where the watcher is
    left,     \* the files the walk has still to visit
    current,  \* currentFiles
    changed,  \* changed
    covered   \* the version of each file at the first scan or at the last reload

watcherVars == <<mtimes, at, left, current, changed>>
vars == <<disk, edits, watcherVars, covered>>

Absent == [mtime |-> 0, version |-> 0]
NoFiles == [f \in Files |-> 0]
Versions == [f \in Files |-> disk[f].version]
IsWatchedFile(f) == f \in Watched

\* Mutant: the time of the walk is recorded, not that of the file.
RecordedNow(times, f) == IF IsWatchedFile(f) THEN [times EXCEPT ![f] = edits + 1]
                         ELSE times

\* The visit of f puts the time of a watched file into a map.
Recorded(times, f) == IF IsWatchedFile(f) THEN [times EXCEPT ![f] = disk[f].mtime]
                      ELSE times

Init ==
    /\ disk \in [Files -> {Absent, [mtime |-> 1, version |-> 1]}]
    /\ edits = 1
    /\ mtimes = NoFiles
    /\ at = "scan" /\ left = Files
    /\ current = NoFiles /\ changed = FALSE
    /\ covered = Versions

-----------------------------------------------------------------------------
\* Start: scan() visits the next file.
Scan(f) ==
    /\ at = "scan" /\ f \in left
    /\ left' = left \ {f}
    /\ mtimes' = Recorded(mtimes, f)
    /\ covered' = [covered EXCEPT ![f] = disk[f].version]
    /\ UNCHANGED <<disk, edits, at, current, changed>>

StartLoop ==
    /\ at = "scan" /\ left = {}
    /\ at' = "idle"
    /\ UNCHANGED <<disk, edits, mtimes, left, current, changed, covered>>

\* The ticker: detectChanges() begins its walk.
Tick ==
    /\ at = "idle"
    /\ at' = "walk"
    /\ left' = Files /\ current' = NoFiles /\ changed' = FALSE
    /\ UNCHANGED <<disk, edits, mtimes, covered>>

\* Mutant: only files that were there before can change.
AfterKnown(f) == mtimes[f] # 0 /\ disk[f].mtime > mtimes[f]

\* A file has changed if it is new to mtimes or its time is After the one there.
After(f) == disk[f].mtime > mtimes[f]

Visit(f) ==
    /\ at = "walk" /\ f \in left
    /\ left' = left \ {f}
    /\ current' = Recorded(current, f)
    /\ changed' = (changed \/ (IsWatchedFile(f) /\ After(f)))
    /\ UNCHANGED <<disk, edits, mtimes, at, covered>>

\* Mutant: deleted files are not looked for.
DeletedIgnored == FALSE

\* Entries of mtimes that the walk did not meet were deleted.
Deleted == \E f \in Files : mtimes[f] # 0 /\ current[f] = 0

\* Mutant: the new times are not kept.
WalkEndsKept ==
    /\ at = "walk" /\ left = {}
    /\ at' = IF changed \/ Deleted THEN "reload" ELSE "idle"
    /\ UNCHANGED <<disk, edits, mtimes, left, current, changed, covered>>

WalkEnds ==
    /\ at = "walk" /\ left = {}
    /\ mtimes' = current
    /\ at' = IF changed \/ Deleted THEN "reload" ELSE "idle"
    /\ UNCHANGED <<disk, edits, left, current, changed, covered>>

\* w.onChange(): the workers it spawns read the files from here on.  It has no
\* result, so a Reload that failed inside it counts as loaded.
OnChange ==
    /\ at = "reload"
    /\ at' = "idle"
    /\ covered' = Versions
    /\ UNCHANGED <<disk, edits, mtimes, left, current, changed>>

\* Stop cancels ctx; the loop looks at it between two ticks.
Stop ==
    /\ at = "idle"
    /\ at' = "stopped"
    /\ UNCHANGED <<disk, edits, mtimes, left, current, changed, covered>>

(***************************************************************************)
(* Somebody writes or deletes a file.  Two habits of theirs defeat the     *)
(* watcher, and each has its switch: a write that keeps an old time (a     *)
(* copy that preserves times, a restored backup) is not After, and a file  *)
(* that comes and goes between two walks leaves no trace in mtimes, even   *)
(* if a reload for another file has loaded it in the meantime.             *)
(***************************************************************************)
Write(f) ==
    /\ edits < MaxEdits
    /\ edits' = edits + 1
    /\ \E t \in (IF Backdating THEN 1 .. edits + 1 ELSE {edits + 1}) :
          disk' = [disk EXCEPT ![f] = [mtime |-> t, version |-> edits + 1]]
    /\ UNCHANGED <<watcherVars, covered>>

Delete(f) ==
    /\ edits < MaxEdits
    /\ disk[f] # Absent
    /\ Fleeting \/ mtimes[f] # 0 \/ ~IsWatchedFile(f)
    /\ edits' = edits + 1
    /\ disk' = [disk EXCEPT ![f] = Absent]
    /\ UNCHANGED <<watcherVars, covered>>

Watch ==
    \/ \E f \in Files : Scan(f) \/ Visit(f)
    \/ StartLoop \/ Tick \/ WalkEnds \/ OnChange

Next == Watch \/ Stop \/ \E f \in Files : Write(f) \/ Delete(f)

\* The ticker fires, and the goroutine of the watcher is scheduled.
Spec == Init /\ [][Next]_vars /\ WF_vars(Watch)

-----------------------------------------------------------------------------
TypeOK ==
    /\ disk \in [Files -> [mtime : 0 .. MaxEdits, version : 0 .. MaxEdits]]
    /\ edits \in 1 .. MaxEdits
    /\ {mtimes, current, covered} \subseteq [Files -> 0 .. MaxEdits]
    /\ at \in {"scan", "idle", "walk", "reload", "stopped"}
    /\ left \subseteq Files /\ changed \in BOOLEAN

\* No change is missed: whenever the watcher sleeps, a watched file that is not
\* as the last reload (or the first scan) found it still differs from mtimes, so
\* that the next walk sees it, whatever was edited behind the back of this one.
NoMissedChange ==
    at = "idle" =>
        \A f \in Watched : disk[f].version # covered[f] =>
            After(f) \/ (disk[f] = Absent /\ mtimes[f] # 0)

\* Once the edits are over, a reload has followed the last of them, unless the
\* watcher was stopped.
ChangesAreLoaded ==
    <>[](at = "stopped" \/ \A f \in Watched : disk[f].version = covered[f])

\* The watcher comes to rest: files that no longer change, and files it does not
\* watch, do not reload the pool for ever.
ReloadsEnd == <>[](at # "reload")

=============================================================================
