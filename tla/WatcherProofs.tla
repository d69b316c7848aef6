--------------------------- MODULE WatcherProofs ---------------------------
(***************************************************************************)
(* The watcher misses no change, for any files and any number of edits, as *)
(* long as writes leave later times and deleted files had been recorded.   *)
(***************************************************************************)
EXTENDS Watcher, TLAPS

\* The types a proof needs, without the bounds that only the model checker uses.
\* Without Backdating a version is the time it was written.
Types ==
    /\ disk \in [Files -> [mtime : Nat, version : Nat]]
    /\ \A f \in Files : disk[f].mtime = disk[f].version /\ disk[f].mtime <= edits
    /\ edits \in Nat
    /\ mtimes \in [Files -> Nat] /\ current \in [Files -> Nat]
    /\ covered \in [Files -> Nat]
    /\ changed \in BOOLEAN

\* Recorded times are times of the past: of a file that is there, the disk has
\* the same or a later one.
DiskIsLater ==
    \A f \in Files :
        /\ mtimes[f] <= edits /\ current[f] <= edits
        /\ disk[f].mtime = 0 \/ (disk[f].mtime >= mtimes[f]
                                 /\ disk[f].mtime >= current[f])

\* A walk has flagged the changes of the files it has visited.
Flagged ==
    at = "walk" => \A f \in Watched \ left :
        /\ current[f] > mtimes[f] => changed
        /\ current[f] = 0 \/ current[f] >= mtimes[f]

\* NoMissedChange for one file, and where it has to hold to be inductive.
Noticed(f) ==
    \/ disk[f].version = covered[f]
    \/ After(f)
    \/ disk[f].mtime = 0 /\ mtimes[f] # 0

\* A change that was not loaded stays noticeable while the watcher sleeps and walks, and
\* for the files it has scanned, during the first scan.
Pending ==
    \A f \in Watched :
        (at \in {"idle", "walk"} \/ (at = "scan" /\ f \notin left)) => Noticed(f)

\* The inductive invariant of NoMissedChange.
WatchInv == Types /\ DiskIsLater /\ Flagged /\ Pending

\* The switches: no time of the past, and no deletion of an unrecorded file.
OrderlyEdits == ~Backdating /\ ~Fleeting

\* The first scan records the time of a file together with its version.
LEMMA ScanKeeps ==
    ASSUME NEW f \in Files, WatchInv, Scan(f) PROVE WatchInv'
<1> USE WatchConfig DEF WatchInv, Scan, Recorded, IsWatchedFile
<1>1. Types'
    BY DEF Types
<1>2. DiskIsLater'
    BY DEF Types, DiskIsLater
<1>3. Flagged'
    BY DEF Flagged
<1>4. Pending'
    BY DEF Types, Pending, Noticed, After
<1> QED
    BY <1>1, <1>2, <1>3, <1>4

\* A visit flags a file that is later than mtimes and leaves mtimes alone.
LEMMA VisitKeeps ==
    ASSUME NEW f \in Files, WatchInv, Visit(f) PROVE WatchInv'
<1> USE WatchConfig DEF WatchInv, Visit, Recorded, IsWatchedFile
<1>1. Types'
    BY DEF Types
<1>2. DiskIsLater'
    BY DEF Types, DiskIsLater
<1>3. Flagged'
    BY DEF Types, DiskIsLater, Flagged, After
<1>4. Pending'
    BY DEF Types, Pending, Noticed, After
<1> QED
    BY <1>1, <1>2, <1>3, <1>4

\* The end of a walk replaces mtimes: a change it overwrites was flagged, so that a
\* reload follows.
LEMMA WalkEndsKeeps ==
    ASSUME WatchInv, WalkEnds PROVE WatchInv'
<1> USE WatchConfig DEF WatchInv, WalkEnds
<1>1. Types' /\ DiskIsLater' /\ Flagged'
    BY DEF Types, DiskIsLater, Flagged
<1>2. ASSUME at' = "idle", NEW f \in Watched PROVE current[f] = mtimes[f]
    <2>1. ~changed /\ (mtimes[f] = 0 \/ current[f] # 0)
        BY <1>2 DEF Deleted
    <2>2. current[f] \in Nat /\ mtimes[f] \in Nat
        BY DEF Types
    <2>3. ~(current[f] > mtimes[f]) /\ (current[f] = 0 \/ current[f] >= mtimes[f])
        BY <2>1 DEF Flagged
    <2> QED
        BY <2>1, <2>2, <2>3
<1>3. Pending'
    BY <1>2 DEF Types, Pending, Noticed, After
<1> QED
    BY <1>1, <1>3

\* A write leaves a time later than any that was recorded.
LEMMA WriteKeeps ==
    ASSUME OrderlyEdits, NEW f \in Files, WatchInv, Write(f) PROVE WatchInv'
<1> USE WatchConfig DEF WatchInv, watcherVars
<1>1. /\ disk' = [disk EXCEPT ![f] = [mtime |-> edits + 1, version |-> edits + 1]]
      /\ edits' = edits + 1
      /\ UNCHANGED <<mtimes, at, left, current, changed, covered>>
    BY DEF Write, OrderlyEdits
<1>2. Types' /\ DiskIsLater'
    BY <1>1 DEF Types, DiskIsLater
<1>3. Flagged'
    BY <1>1 DEF Flagged
<1>4. Pending'
    BY <1>1 DEF Types, DiskIsLater, Pending, Noticed, After
<1> QED
    BY <1>2, <1>3, <1>4

\* A deleted file had been recorded, so that mtimes still shows it.
LEMMA DeleteKeeps ==
    ASSUME OrderlyEdits, NEW f \in Files, WatchInv, Delete(f) PROVE WatchInv'
<1> USE WatchConfig DEF WatchInv, watcherVars
<1>1. /\ disk' = [disk EXCEPT ![f] = [mtime |-> 0, version |-> 0]]
      /\ edits' = edits + 1
      /\ mtimes[f] # 0 \/ f \notin Watched
      /\ UNCHANGED <<mtimes, at, left, current, changed, covered>>
    BY DEF Delete, OrderlyEdits, Absent, IsWatchedFile
<1>2. Types' /\ DiskIsLater'
    BY <1>1 DEF Types, DiskIsLater
<1>3. Flagged'
    BY <1>1 DEF Flagged
<1>4. Pending'
    BY <1>1 DEF Types, Pending, Noticed, After
<1> QED
    BY <1>2, <1>3, <1>4

\* Every step keeps the inductive invariant, given edits the watcher can see.
LEMMA WatchStep == OrderlyEdits /\ WatchInv /\ [Next]_vars => WatchInv'
<1> SUFFICES ASSUME OrderlyEdits, WatchInv, [Next]_vars PROVE WatchInv'
    OBVIOUS
<1> USE WatchConfig
<1>1. ASSUME NEW f \in Files, Scan(f) \/ Visit(f) PROVE WatchInv'
    BY <1>1, ScanKeeps, VisitKeeps
<1>2. CASE StartLoop
    BY <1>2 DEF StartLoop, WatchInv, Types, DiskIsLater, Flagged, Pending, Noticed, After
<1>3. CASE Tick
    <2>1. Types' /\ Flagged'
        BY <1>3 DEF Tick, NoFiles, WatchInv, Types, Flagged
    <2>2. DiskIsLater'
        <3>1. \A f \in Files : current'[f] = 0 /\ mtimes'[f] = mtimes[f] /\ disk'[f] = disk[f]
            BY <1>3 DEF Tick, NoFiles
        <3>2. edits' = edits /\ edits \in Nat /\ \A f \in Files : disk[f].mtime \in Nat
            BY <1>3 DEF Tick, WatchInv, Types
        <3> QED
            BY <3>1, <3>2 DEF WatchInv, DiskIsLater
    <2>3. Pending'
        BY <1>3 DEF Tick, WatchInv, Pending, Noticed, After
    <2> QED
        BY <2>1, <2>2, <2>3 DEF WatchInv
<1>4. CASE WalkEnds
    BY <1>4, WalkEndsKeeps
<1>5. CASE OnChange
    BY <1>5 DEF OnChange, Versions, WatchInv, Types, DiskIsLater, Flagged, Pending,
                Noticed, After
<1>6. CASE Stop
    BY <1>6 DEF Stop, WatchInv, Types, DiskIsLater, Flagged, Pending, Noticed, After
<1>7. ASSUME NEW f \in Files, Write(f) \/ Delete(f) PROVE WatchInv'
    BY <1>7, WriteKeeps, DeleteKeeps
<1>8. CASE UNCHANGED vars
    BY <1>8 DEF vars, watcherVars, WatchInv, Types, DiskIsLater, Flagged, Pending,
                Noticed, After
<1> QED
    BY <1>1, <1>2, <1>3, <1>4, <1>5, <1>6, <1>7, <1>8 DEF Next, Watch

\* Whenever the watcher sleeps, every watched file that is not as the last reload
\* found it will be seen to differ by the next walk, however edits fell between
\* the visits of this one: for any files and any number of edits.
THEOREM NoMissedChangeAlways == OrderlyEdits /\ Spec => []NoMissedChange
<1>1. Init => WatchInv
    <2> SUFFICES ASSUME Init PROVE WatchInv
        OBVIOUS
    <2>1. \A f \in Files : /\ disk[f] \in [mtime : Nat, version : Nat]
                            /\ disk[f].mtime = disk[f].version
                            /\ disk[f].mtime \in {0, 1}
                            /\ mtimes[f] = 0 /\ current[f] = 0
        BY DEF Init, Absent, NoFiles
    <2>2. Types
        <3>1. covered \in [Files -> Nat] /\ mtimes \in [Files -> Nat]
              /\ current \in [Files -> Nat]
            BY <2>1 DEF Init, NoFiles, Versions
        <3>2. disk \in [Files -> [mtime : Nat, version : Nat]]
            BY DEF Init, Absent
        <3>3. edits = 1 /\ changed = FALSE
            BY DEF Init
        <3>4. \A f \in Files : disk[f].mtime = disk[f].version /\ disk[f].mtime <= 1
            BY <2>1
        <3> QED
            BY <3>1, <3>2, <3>3, <3>4 DEF Types
    <2>3. DiskIsLater
        BY <2>1 DEF Init, DiskIsLater
    <2>4. Flagged /\ Pending
        BY WatchConfig DEF Init, Flagged, Pending
    <2> QED
        BY <2>2, <2>3, <2>4 DEF WatchInv
<1>2. WatchInv => NoMissedChange
    <2> SUFFICES ASSUME WatchInv, at = "idle", NEW f \in Watched,
                        disk[f].version # covered[f]
                 PROVE  After(f) \/ (disk[f] = Absent /\ mtimes[f] # 0)
        BY DEF NoMissedChange
    <2>1. f \in Files
        BY WatchConfig
    <2>2. disk[f].mtime = 0 => disk[f] = Absent
        BY <2>1 DEF WatchInv, Types, Absent
    <2> QED
        BY <2>1, <2>2 DEF WatchInv, Pending, Noticed
<1>3. ASSUME OrderlyEdits PROVE Spec => []NoMissedChange
    <2>1. WatchInv /\ [Next]_vars => WatchInv'
        BY <1>3, WatchStep
    <2> QED
        BY <1>1, <1>2, <2>1, PTL DEF Spec
<1> QED
    BY <1>3

-----------------------------------------------------------------------------
(* Type correctness needs none of the above: it holds under either switch. *)

\* The step of TypeOK: a walk only writes times that the disk has, and an edit
\* only writes the time of the next one.
LEMMA TypeStep == TypeOK /\ [Next]_vars => TypeOK'
<1> SUFFICES ASSUME TypeOK, [Next]_vars PROVE TypeOK'
    OBVIOUS
<1> USE WatchConfig
<1>1. /\ disk \in [Files -> [mtime : 0 .. MaxEdits, version : 0 .. MaxEdits]]
      /\ mtimes \in [Files -> 0 .. MaxEdits]
      /\ current \in [Files -> 0 .. MaxEdits]
      /\ covered \in [Files -> 0 .. MaxEdits]
    BY DEF TypeOK
<1>2. /\ NoFiles \in [Files -> 0 .. MaxEdits]
      /\ Versions \in [Files -> 0 .. MaxEdits]
    BY <1>1 DEF NoFiles, Versions
<1>3. \A f \in Files : disk[f].mtime \in 0 .. MaxEdits /\ disk[f].version \in 0 .. MaxEdits
    BY <1>1
<1>4. \A f \in Files : /\ Recorded(mtimes, f) \in [Files -> 0 .. MaxEdits]
                       /\ Recorded(current, f) \in [Files -> 0 .. MaxEdits]
    BY <1>1, <1>3 DEF Recorded
<1>5. ASSUME NEW f \in Files, Scan(f) PROVE TypeOK'
    <2>1. mtimes' \in [Files -> 0 .. MaxEdits] /\ covered' \in [Files -> 0 .. MaxEdits]
        BY <1>1, <1>3, <1>4, <1>5 DEF Scan
    <2> QED
        BY <1>1, <1>5, <2>1 DEF Scan, TypeOK
<1>6. ASSUME NEW f \in Files, Visit(f) PROVE TypeOK'
    <2>1. current' \in [Files -> 0 .. MaxEdits]
        BY <1>4, <1>6 DEF Visit
    <2>2. changed' \in BOOLEAN
        BY <1>6 DEF Visit, TypeOK
    <2> QED
        BY <1>1, <1>6, <2>1, <2>2 DEF Visit, TypeOK
<1>7. CASE StartLoop
    BY <1>7 DEF StartLoop, TypeOK
<1>8. CASE Tick
    BY <1>1, <1>2, <1>8 DEF Tick, TypeOK
<1>9. CASE WalkEnds
    BY <1>1, <1>9 DEF WalkEnds, TypeOK
<1>10. CASE OnChange
    BY <1>1, <1>2, <1>10 DEF OnChange, TypeOK
<1>11. CASE Stop
    BY <1>11 DEF Stop, TypeOK
<1>12. ASSUME NEW f \in Files, Write(f) PROVE TypeOK'
    <2>1. edits \in 1 .. MaxEdits /\ edits < MaxEdits /\ edits' = edits + 1
        BY <1>12 DEF Write, TypeOK
    <2>2. PICK t \in 1 .. edits + 1 :
              disk' = [disk EXCEPT ![f] = [mtime |-> t, version |-> edits + 1]]
        <3>1. PICK t \in (IF Backdating THEN 1 .. edits + 1 ELSE {edits + 1}) :
                  disk' = [disk EXCEPT ![f] = [mtime |-> t, version |-> edits + 1]]
            BY <1>12 DEF Write
        <3>2. t \in 1 .. edits + 1
            BY <2>1
        <3> QED
            BY <3>1, <3>2
    <2>3. disk' \in [Files -> [mtime : 0 .. MaxEdits, version : 0 .. MaxEdits]]
        BY <1>1, <2>1, <2>2
    <2> QED
        BY <1>1, <1>12, <2>1, <2>3 DEF Write, watcherVars, TypeOK
<1>13. ASSUME NEW f \in Files, Delete(f) PROVE TypeOK'
    <2>1. edits' \in 1 .. MaxEdits
        BY <1>13 DEF Delete, TypeOK
    <2>2. disk' \in [Files -> [mtime : 0 .. MaxEdits, version : 0 .. MaxEdits]]
        BY <1>1, <1>13 DEF Delete, Absent
    <2> QED
        BY <1>1, <1>13, <2>1, <2>2 DEF Delete, watcherVars, TypeOK
<1>14. CASE UNCHANGED vars
    BY <1>14 DEF vars, watcherVars, TypeOK
<1> QED
    BY <1>5, <1>6, <1>7, <1>8, <1>9, <1>10, <1>11, <1>12, <1>13, <1>14
       DEF Next, Watch

\* Every variable of the watcher keeps its type, backdated writes and fleeting
\* files included: a walk records no time that no file ever had.
THEOREM WatcherTypeOK == Spec => []TypeOK
<1>1. Init => TypeOK
    <2> SUFFICES ASSUME Init PROVE TypeOK
        OBVIOUS
    <2>1. disk \in [Files -> [mtime : 0 .. MaxEdits, version : 0 .. MaxEdits]]
        BY WatchConfig DEF Init, Absent
    <2>2. NoFiles \in [Files -> 0 .. MaxEdits] /\ Versions \in [Files -> 0 .. MaxEdits]
        BY WatchConfig, <2>1 DEF NoFiles, Versions
    <2>3. {mtimes, current, covered} \subseteq [Files -> 0 .. MaxEdits]
        BY <2>2 DEF Init
    <2>4. edits \in 1 .. MaxEdits
        BY WatchConfig DEF Init
    <2> QED
        BY <2>1, <2>3, <2>4 DEF Init, TypeOK
<1> QED
    BY <1>1, TypeStep, PTL DEF Spec

=============================================================================
