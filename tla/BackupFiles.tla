----------------------------- MODULE BackupFiles -----------------------------
(***************************************************************************)
(* The backup command (packages/db/src/sqlite/backup.ts): snapshots of the *)
(* live database are written beside their destination, verified, and       *)
(* published by a hard link; a backup is restored to a new file the same   *)
(* way.  Several commands may run at once, each may be killed anywhere,    *)
(* and the files they do not hold open may change under them.              *)
(*                                                                         *)
(* There are two destinations: "backup", which createSqliteBackup writes   *)
(* and restoreSqliteBackupToNewFile reads, and "restored".  A file holds a *)
(* number: a complete snapshot of the database at some time, or Damaged.   *)
(***************************************************************************)
EXTENDS Naturals

CONSTANTS
  Creators, Restorers,   \* commands: createSqliteBackup, restore...ToNewFile
  LastChange             \* changes of the live database; bounds the model

VARIABLES
  live,      \* the committed state of the live database
  file,      \* the contents of each destination
  partial,   \* the contents of each command's temporary file
  step,      \* the next statement of each command
  digest     \* the sha256 that a restoring command has verified

backupVars == <<live, file, partial, step, digest>>

Commands == Creators \union Restorers
Destinations == {"backup", "restored"}
Output(c) == IF c \in Creators THEN "backup" ELSE "restored"

Snapshots == 1 .. LastChange
Damaged == 0
Absent == LastChange + 1
Contents == {Damaged} \union Snapshots
Steps == {"start", "read", "write", "verify", "publish", "remove", "clean",
          "done", "failed"}

BackupParameters ==
  /\ LastChange \in Nat \ {0}
  /\ Creators \intersect Restorers = {}

BackupTypeOK ==
  /\ live \in Snapshots
  /\ file \in [Destinations -> Contents \union {Absent}]
  /\ partial \in [Commands -> Contents \union {Absent}]
  /\ step \in [Commands -> Steps]
  /\ digest \in [Commands -> Contents \union {Absent}]

BackupInit ==
  /\ live = 1
  /\ file = [d \in Destinations |-> Absent]
  /\ partial = [c \in Commands |-> Absent]
  /\ step = [c \in Commands |-> "start"]
  /\ digest = [c \in Commands |-> Absent]

-----------------------------------------------------------------------------

Goes(c, from, to) == step[c] = from /\ step' = [step EXCEPT ![c] = to]

\* assertNewOutputPath.  A backup to restore has to exist (realpathSync).
Start(c) ==
  /\ Goes(c, "start", IF c \in Creators THEN "write" ELSE "read")
  /\ file[Output(c)] = Absent
  /\ c \in Restorers => file["backup"] # Absent
  /\ UNCHANGED <<live, file, partial, digest>>

\* verifySqliteBackup of the backup that is to be restored.
ReadBackup(c) ==
  /\ Goes(c, "read", "write")
  /\ file["backup"] \in Snapshots
  /\ digest' = [digest EXCEPT ![c] = file["backup"]]
  /\ UNCHANGED <<live, file, partial>>

\* VACUUM INTO, or the copy of the backup, which may be another by now.
\* Either may go wrong and leave a damaged file without an error.
WritePartial(c) ==
  /\ Goes(c, "write", "verify")
  /\ \E written \in {Damaged,
                     IF c \in Creators THEN live ELSE file["backup"]} \ {Absent} :
       partial' = [partial EXCEPT ![c] = written]
  /\ UNCHANGED <<live, file, digest>>

\* verifySqliteBackup finds the temporary file healthy and complete, and a
\* restored file equal to the backup that was verified.
Sound(c) ==
  /\ partial[c] \in Snapshots
  /\ c \in Restorers => partial[c] = digest[c]

Verify(c) ==
  /\ Goes(c, "verify", "publish")
  /\ Sound(c)
  /\ UNCHANGED <<live, file, partial, digest>>

\* Wrong variant: the temporary file is renamed over the output.
MayLinkAlways(c) == TRUE

\* linkSync refuses a path that exists.
MayLink(c) == file[Output(c)] = Absent

\* publishNewFile makes the link ...
Publish(c) ==
  /\ Goes(c, "publish", "remove")
  /\ MayLink(c)
  /\ file' = [file EXCEPT ![Output(c)] = partial[c]]
  /\ UNCHANGED <<live, partial, digest>>

\* ... and removes the temporary name.
RemovePartial(c) ==
  /\ Goes(c, "remove", "done")
  /\ partial' = [partial EXCEPT ![c] = Absent]
  /\ UNCHANGED <<live, file, digest>>

\* A check or a statement fails.  The catch block covers the steps that may
\* have written the temporary file; after the link it removes that name only.
Throw(c) ==
  \/ Goes(c, "start", "failed")
  \/ Goes(c, "read", "failed")
  \/ \E from \in {"write", "verify", "publish", "remove"} :
       Goes(c, from, "clean")

Fail(c) == Throw(c) /\ UNCHANGED <<live, file, partial, digest>>

CleanUp(c) ==
  /\ Goes(c, "clean", "failed")
  /\ partial' = [partial EXCEPT ![c] = Absent]
  /\ UNCHANGED <<live, file, digest>>

\* The command is killed; its temporary file stays.
Kill(c) ==
  /\ step[c] \notin {"done", "failed"}
  /\ step' = [step EXCEPT ![c] = "failed"]
  /\ UNCHANGED <<live, file, partial, digest>>

Command(c) ==
  \/ Start(c) \/ ReadBackup(c) \/ WritePartial(c) \/ Verify(c)
  \/ Publish(c) \/ RemovePartial(c) \/ Fail(c) \/ CleanUp(c) \/ Kill(c)

\* Somebody writes to the live database.
Change ==
  /\ live < LastChange
  /\ live' = live + 1
  /\ UNCHANGED <<file, partial, step, digest>>

\* An operator deletes the backup.
Delete ==
  /\ file["backup"] # Absent
  /\ file' = [file EXCEPT !["backup"] = Absent]
  /\ UNCHANGED <<live, partial, step, digest>>

\* The backup is damaged where it lies.
Rot ==
  /\ file["backup"] \in Snapshots
  /\ file' = [file EXCEPT !["backup"] = Damaged]
  /\ UNCHANGED <<live, partial, step, digest>>

BackupNext == (\E c \in Commands : Command(c)) \/ Change \/ Delete \/ Rot

BackupSpec == BackupInit /\ [][BackupNext]_backupVars

-----------------------------------------------------------------------------

\* A command never puts anything but a complete, verified snapshot under an
\* output path, and never puts it over a file: not when two commands find the
\* path free, when the source changes between two statements, or when the
\* command dies between any two of them (backup.ts, publishNewFile).
OutputsAppearWhole ==
  [][\A d \in Destinations : file'[d] # file[d] =>
       /\ file'[d] \in Snapshots => file[d] = Absent
       /\ file[d] = Absent => file'[d] \in Snapshots]_backupVars

=============================================================================
