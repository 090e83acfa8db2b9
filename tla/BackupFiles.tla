----------------------------- MODULE BackupFiles -----------------------------
(***************************************************************************)
(* The backups of the database: postgres_backup.py dumps into a file under *)
(* its final name, postgres_backup_retention.py removes the old ones and   *)
(* postgres_restore.py feeds one to psql, each run by hand or by a timer   *)
(* without a lock.  pg_dump and psql are modelled as these scripts call    *)
(* them: a plain dump of one snapshot first creates the tables, one by     *)
(* one, and then copies the rows of each; psql stops at the first error    *)
(* and keeps what it did before.  A file is an inode behind a name, a name *)
(* is the second it was made in or EXPLICIT, a path outside that pattern.  *)
(* --output may name any of them, and a name may be a link to a backup.    *)
(* Assumed: nobody writes to the database while psql loads it, one backup  *)
(* at a time and no timed one in a second in which another was begun, no   *)
(* dump that writes nothing for as long as the retention, links that lead  *)
(* to files and not to links, and none put at a path that a script has     *)
(* resolved and opens next.                                                *)
(***************************************************************************)
EXTENDS Integers, Sequences, FiniteSets, FiniteSetsExt, SequencesExt

CONSTANTS NTables,      \* tables of the database, in the order of the dump
          RETENTION,    \* --retention-days
          Uses,         \* what may be done on a server besides timed backups, a set of:
                        \* "output" (a backup with --output), "retention", "restore",
                        \* and "link" (somebody links a name to a backup)
          MaxTime, MaxVersion, MaxFiles, MaxFailures

\* Assumed of the constants by the modules that give them values.
BackupAssumption == NTables \in Nat \ {0} /\ RETENTION \in Nat \ {0} /\ MaxTime \in Nat \ {0}

VARIABLES operations, \* the use that is made of this server, one of Uses
          time,       \* in seconds, and in days for the retention
          db,         \* the version of the rows of each table
          dir, files, \* name -> inode, and what the inodes hold
          backup, sweep, restore,
          written,    \* inodes of backups reported as written
          aimed,      \* the names that a backup was aimed at: it came there by --output,
                      \* or by a link at the name of its second
          deleted, failures
backupVars == <<operations, time, db, dir, files, backup, sweep, restore, written, aimed, deleted, failures>>

EXPLICIT == 0
NoOutput == -1
Names == EXPLICIT .. MaxTime
Absent == 0
Empty == 1
NoFile == 0
Resting == [pc |-> "idle"]
Tables == 1 .. NTables
Pieces == 2 * NTables

BackupInit ==
    /\ operations \in Uses /\ time = 1 /\ db = [t \in Tables |-> Empty + 1]
    /\ dir = [n \in Names |-> NoFile] /\ files = <<>>
    /\ backup = Resting /\ sweep = Resting /\ restore = Resting
    /\ written = {} /\ aimed = {} /\ deleted = {} /\ failures = 0

Regular(name) == dir[name] # NoFile /\ files[dir[name]].kind = "file"
Linked(name) == dir[name] # NoFile /\ files[dir[name]].kind = "link"
\* where the path of a name ends
resolve(name) == IF Linked(name) THEN files[dir[name]].target ELSE name

(* around the scripts *)
TimePasses ==
    /\ time < MaxTime /\ time' = time + 1
    /\ backup.pc = "dump" => time - files[backup.ino].mtime < RETENTION
    /\ UNCHANGED <<db, dir, files, backup, sweep, restore, written, aimed, deleted, failures>>
Write ==
    /\ restore.pc # "psql" /\ Max(ToSet(db)) \in Empty .. MaxVersion - 1
    /\ db' = [t \in Tables |-> IF db[t] = Absent THEN Absent ELSE db[t] + 1]
    /\ UNCHANGED <<time, dir, files, backup, sweep, restore, written, aimed, deleted, failures>>
RecreateDatabase ==
    /\ "restore" \in operations /\ restore.pc = "idle"
    /\ db' = [t \in Tables |-> Absent]
    /\ UNCHANGED <<time, dir, files, backup, sweep, restore, written, aimed, deleted, failures>>
PutLink(name, to) ==
    /\ "link" \in operations /\ Len(files) < MaxFiles /\ Regular(to) /\ name # to
    /\ dir[name] # NoFile => Regular(name)
    /\ \A n \in Names : Linked(n) => files[dir[n]].target # name
    /\ files' = Append(files, [kind |-> "link", target |-> to, mtime |-> time, born |-> Absent])
    /\ dir' = [dir EXCEPT ![name] = Len(files) + 1]
    /\ UNCHANGED <<time, db, backup, sweep, restore, written, aimed, deleted, failures>>

(* postgres_backup.py *)
backup_path(output) == resolve(IF output = NoOutput THEN time ELSE output)
\* open("wb") empties the file at the end of the path, or makes one
run_backup(output) ==
    /\ backup.pc = "idle"
    /\ LET path == backup_path(output)
           new == dir[path] = NoFile
           ino == IF new THEN Len(files) + 1 ELSE dir[path]
           file == [kind |-> "file", snap |-> db, len |-> 0, mtime |-> time, born |-> time]
       IN  /\ new => Len(files) < MaxFiles
           /\ files' = IF new THEN Append(files, file) ELSE [files EXCEPT ![ino] = file]
           /\ dir' = [dir EXCEPT ![path] = ino]
           /\ written' = written \ {ino}
           /\ aimed' = IF output = NoOutput /\ path = time THEN aimed ELSE aimed \cup {path}
           /\ backup' = [pc |-> "dump", name |-> path, ino |-> ino]
    /\ UNCHANGED <<time, db, sweep, restore, deleted, failures>>
BackupByTime == (\A i \in DOMAIN files : files[i].born # time) /\ run_backup(NoOutput)
BackupToOutput ==
    "output" \in operations
    /\ \E output \in Names : (dir[output] # NoFile \/ output = EXPLICIT) /\ run_backup(output)
Longer(file) == [file EXCEPT !.len = @ + 1, !.mtime = time]
DumpPiece ==
    /\ backup.pc = "dump" /\ files[backup.ino].len < Pieces
    /\ files' = [files EXCEPT ![backup.ino] = Longer(@)]
    /\ UNCHANGED <<time, db, dir, backup, sweep, restore, written, aimed, deleted, failures>>
ReportWritten ==
    /\ backup.pc = "dump" /\ files[backup.ino].len = Pieces
    /\ written' = written \cup {backup.ino}
    /\ backup' = Resting
    /\ UNCHANGED <<time, db, dir, files, sweep, restore, deleted, failures, aimed>>
\* pg_dump fails: what has the name by now is removed
DumpFails ==
    /\ backup.pc = "dump" /\ failures < MaxFailures
    /\ failures' = failures + 1
    /\ dir' = [dir EXCEPT ![backup.name] = NoFile]
    /\ backup' = Resting
    /\ UNCHANGED <<time, db, files, sweep, restore, written, aimed, deleted>>
BackupDies ==
    /\ backup.pc = "dump" /\ failures < MaxFailures
    /\ failures' = failures + 1
    /\ backup' = Resting
    /\ UNCHANGED <<time, db, dir, files, sweep, restore, written, aimed, deleted>>

(* postgres_backup_retention.py --delete *)
scan_backup_dir == {n \in Names : Regular(n) /\ files[dir[n]].mtime < time - RETENTION}
build_retention_report ==
    /\ "retention" \in operations /\ sweep.pc = "idle"
    /\ sweep' = [pc |-> "delete", cutoff |-> time - RETENTION, candidates |-> scan_backup_dir,
                 name |-> EXPLICIT, seen |-> 0]
    /\ UNCHANGED <<time, db, dir, files, backup, restore, written, aimed, deleted, failures>>
\* the next candidate is looked at, when there are `seen` inodes, and unlinked by its name
LooksGood(name) ==
    sweep' = [sweep EXCEPT !.pc = "unlink", !.name = name, !.seen = Len(files)]
Leave(name) ==
    sweep' = [sweep EXCEPT !.pc = "delete", !.candidates = @ \ {name}, !.name = EXPLICIT, !.seen = 0]
\* mutant: what the scan found is removed without another look
RemoveBlindly(name) ==
    /\ sweep.pc = "delete" /\ name \in sweep.candidates
    /\ LooksGood(name)
    /\ UNCHANGED <<time, db, dir, files, backup, restore, written, aimed, deleted, failures>>
\* only its kind is looked at again; a missing one and a link are errors
delete_candidates(name) ==
    /\ sweep.pc = "delete" /\ name \in sweep.candidates
    /\ IF Regular(name) THEN LooksGood(name) ELSE Leave(name)
    /\ UNCHANGED <<time, db, dir, files, backup, restore, written, aimed, deleted, failures>>
Unlink ==
    /\ sweep.pc = "unlink"
    /\ LET name == sweep.name  ino == dir[name] IN
       /\ Leave(name)
       /\ dir' = [dir EXCEPT ![name] = NoFile]
       /\ deleted' = IF ino = NoFile THEN deleted ELSE
             deleted \cup {[name |-> name, kind |-> files[ino].kind, mtime |-> files[ino].mtime,
                            cutoff |-> sweep.cutoff, late |-> ino > sweep.seen]}
    /\ UNCHANGED <<time, db, files, backup, restore, written, aimed, failures>>
SweepEnds ==
    /\ sweep.pc = "delete" /\ sweep.candidates = {}
    /\ sweep' = Resting
    /\ UNCHANGED <<time, db, dir, files, backup, restore, written, aimed, deleted, failures>>

(* postgres_restore.py *)
restore_path(name) == resolve(name)
run_restore(name) ==
    LET path == restore_path(name) IN
    /\ "restore" \in operations /\ restore.pc = "idle" /\ Regular(path)
    /\ restore' = [pc |-> "psql", name |-> path, ino |-> dir[path], n |-> 0,
                   whole |-> dir[path] \in written]
    /\ UNCHANGED <<time, db, dir, files, backup, sweep, written, aimed, deleted, failures>>
\* psql at piece n: CREATE TABLE of a table that is there and COPY into one that is not are errors
TableOf(n) == IF n <= NTables THEN n ELSE n - NTables
Refused(n, rows) == LET t == TableOf(n) IN
    rows[t] # Absent /\ (IF n <= NTables THEN db[t] # Absent ELSE db[t] = Absent)
Applied(n, rows) == LET t == TableOf(n) IN
    IF rows[t] = Absent THEN db ELSE [db EXCEPT ![t] = IF n <= NTables THEN Empty ELSE rows[t]]
RestorePiece ==
    /\ restore.pc = "psql" /\ restore.n < files[restore.ino].len
    /\ LET n == restore.n + 1  rows == files[restore.ino].snap IN
       IF Refused(n, rows)
       THEN restore' = [restore EXCEPT !.pc = "failed"] /\ UNCHANGED db
       ELSE restore' = [restore EXCEPT !.n = n] /\ db' = Applied(n, rows)
    /\ UNCHANGED <<time, dir, files, backup, sweep, written, aimed, deleted, failures>>
RestoreDies ==
    /\ restore.pc = "psql" /\ failures < MaxFailures
    /\ failures' = failures + 1
    /\ restore' = [restore EXCEPT !.pc = "failed"]
    /\ UNCHANGED <<time, db, dir, files, backup, sweep, written, aimed, deleted>>
\* exit 0 at the end of the file
RestoreExits ==
    /\ restore.pc = "psql" /\ restore.n = files[restore.ino].len
    /\ restore' = [restore EXCEPT !.pc = "ok"]
    /\ UNCHANGED <<time, db, dir, files, backup, sweep, written, aimed, deleted, failures>>
CloseRestore ==
    /\ restore.pc \in {"ok", "failed"}
    /\ restore' = Resting
    /\ UNCHANGED <<time, db, dir, files, backup, sweep, written, aimed, deleted, failures>>

BackupStep ==
    \/ TimePasses \/ Write \/ RecreateDatabase
    \/ BackupByTime \/ BackupToOutput \/ DumpPiece \/ ReportWritten \/ DumpFails \/ BackupDies
    \/ build_retention_report \/ Unlink \/ SweepEnds
    \/ \E n \in Names :
          \/ \E to \in Names : PutLink(n, to)
          \/ delete_candidates(n) \/ run_restore(n)
    \/ RestorePiece \/ RestoreDies \/ RestoreExits \/ CloseRestore
BackupNext == BackupStep /\ UNCHANGED operations
BackupSpec == BackupInit /\ [][BackupNext]_backupVars

-----------------------------------------------------------------------------
\* A restore of a backup that was reported as written and that ends well has run the whole
\* dump, and so does one of a database nobody else writes to hold at least what it held,
\* also when dumps, sweeps, links and crashes go on around it (run_backup, run_restore).
\* Of a file that --output or a link aimed a backup at, and which that backup overwrites in
\* place, this cannot be said.
RestoredWhole ==
    restore.pc = "ok" /\ restore.whole /\ restore.name \notin aimed =>
        /\ restore.n = Pieces
        /\ \A t \in Tables : files[restore.ino].snap[t] # Absent => db[t] >= files[restore.ino].snap[t]

\* Retention removes a link only if it was put there after the candidate was looked at
\* again.  Of the names no backup was aimed at it removes no file younger than the retention
\* and never the one that is being written, whatever happens to a name between the scan and
\* the deletions (delete_candidates after scan_backup_dir).
OnlyOldFilesGo ==
    /\ \A d \in deleted :
          /\ d.kind = "link" => d.late
          /\ d.kind = "file" /\ d.name \notin aimed => d.mtime < d.cutoff
    /\ backup.pc = "dump" /\ backup.name \notin aimed /\ dir[backup.name] # backup.ino
          => Linked(backup.name)

\* A timed backup reported as written stays whole under its name until retention removes it,
\* somebody puts a link there, or a backup is aimed at it, by --output or by a link at the
\* name of its second: no other backup, failed, killed or not, takes it away.
WrittenStays ==
    \A n \in Names \ aimed' : dir[n] \in written =>
        \/ dir'[n] = dir[n] /\ dir[n] \in written' /\ files'[dir[n]] = files[dir[n]]
        \/ dir'[n] = NoFile /\ \E d \in deleted' \ deleted : d.name = n
        \/ dir'[n] # NoFile /\ files'[dir'[n]].kind = "link"

\* The three together, of every step.
BackupsHold == [][OnlyOldFilesGo' /\ RestoredWhole' /\ WrittenStays]_backupVars
=============================================================================
