----------------------------- MODULE SelfUpdate -----------------------------
(***************************************************************************)
(* Updater.Apply, commitBinary and Restart (src/upgrade): ask the server,   *)
(* download a binary to a temporary file, verify its checksum, move the     *)
(* target to a backup, move the new binary in place, roll back if that      *)
(* fails, remove the backup; start what is at the target path.              *)
(* Every file system call is one action; any of them may fail, and the      *)
(* process may crash between any two.  Files are inodes, so that a download *)
(* that truncates a file another updater is installing is seen.             *)
(***************************************************************************)
EXTENDS Naturals

CONSTANTS
    Updaters,   \* concurrent calls of Apply
    Checked,    \* the update server sends a checksum
    Inodes      \* files: at least one per path and one per updater

Paths == {"target", "backup", "tmp"}

ASSUME UpdateAssumption == Checked \in BOOLEAN /\ 0 \notin Inodes /\ Inodes # {}

VARIABLES
    dir,       \* [Paths -> Inodes \union {0}], 0 for a path that does not exist
    content,   \* [Inodes -> {"old", "new", "part", "bad"}]
    exec,      \* [Inodes -> BOOLEAN] the file has the mode of the target
    pc,        \* [Updaters -> step]
    fd,        \* [Updaters -> Inodes \union {0}] file the download writes to
    moved      \* [Updaters -> BOOLEAN] targetMoved

files == <<dir, content, exec>>
vars  == <<files, pc, fd, moved>>

Steps == {"idle", "fetch", "fill", "verify", "chmod", "stat", "unlink", "backup", "install",
          "rollback", "clean"}
Contents == {"old", "new", "part", "bad"}

Init ==
    /\ \E i \in Inodes : /\ dir = [p \in Paths |-> IF p = "target" THEN i ELSE 0]
                         /\ exec = [j \in Inodes |-> j = i]
    /\ content = [i \in Inodes |-> "old"]
    /\ pc = [u \in Updaters |-> "idle"]
    /\ fd = [u \in Updaters |-> 0] /\ moved = [u \in Updaters |-> FALSE]

Goto(u, s) == pc' = [pc EXCEPT ![u] = s]
Exists(p)  == dir[p] # 0
Unused(i)  == (\A p \in Paths : dir[p] # i) /\ (\A u \in Updaters : fd[u] # i)

\* os.Rename and os.Remove.
Rename(src, dst) ==
    /\ Exists(src)
    /\ dir' = [dir EXCEPT ![dst] = dir[src], ![src] = 0]
    /\ UNCHANGED <<content, exec>>
Remove(p) == dir' = [dir EXCEPT ![p] = 0] /\ UNCHANGED <<content, exec>>

\* Check: the server offers a package, at an https address and with a checksum
\* that can be parsed.  Else Apply ends here, as after any other failure.
Check(u) ==
    /\ pc[u] = "idle"
    /\ Goto(u, "fetch")
    /\ UNCHANGED <<files, fd, moved>>

\* SaveStream: os.Create, which truncates the file if it is there.
Download(u) ==
    /\ pc[u] = "fetch"
    /\ \E i \in Inodes :
         /\ IF Exists("tmp") THEN i = dir["tmp"] ELSE Unused(i)
         /\ dir' = [dir EXCEPT !["tmp"] = i]
         /\ content' = [content EXCEPT ![i] = "part"]
         /\ exec' = [exec EXCEPT ![i] = Exists("tmp") /\ @]
         /\ fd' = [fd EXCEPT ![u] = i]
    /\ Goto(u, "fill")
    /\ UNCHANGED moved

\* SaveStream: the whole body is written, and it is what was published or it is not.
Filled(u) ==
    /\ pc[u] = "fill"
    /\ \E c \in {"new", "bad"} : content' = [content EXCEPT ![fd[u]] = c]
    /\ fd' = [fd EXCEPT ![u] = 0]
    /\ Goto(u, "verify")
    /\ UNCHANGED <<dir, exec, moved>>

\* A slip: the checksum is not looked at.
VerifyNothing(u) ==
    /\ pc[u] = "verify" /\ Exists("tmp")
    /\ Goto(u, "chmod")
    /\ UNCHANGED <<files, fd, moved>>

\* VerifyChecksum; without a checksum it accepts any file.
Verify(u) ==
    /\ pc[u] = "verify"
    /\ Checked => Exists("tmp") /\ content[dir["tmp"]] = "new"
    /\ Goto(u, "chmod")
    /\ UNCHANGED <<files, fd, moved>>

\* commitBinary: os.Chmod(newBinary, targetMode).
Chmod(u) ==
    /\ pc[u] = "chmod" /\ Exists("tmp")
    /\ exec' = [exec EXCEPT ![dir["tmp"]] = TRUE]
    /\ Goto(u, "stat")
    /\ UNCHANGED <<dir, content, fd, moved>>

\* commitBinary: os.Stat(targetPath) decides whether there is something to back up.
Stat(u) ==
    /\ pc[u] = "stat"
    /\ moved' = [moved EXCEPT ![u] = FALSE]
    /\ Goto(u, IF Exists("target") THEN "unlink" ELSE "install")
    /\ UNCHANGED <<files, fd>>

\* commitBinary: remove an old backup.
Unlink(u) ==
    /\ pc[u] = "unlink"
    /\ Remove("backup")
    /\ Goto(u, "backup")
    /\ UNCHANGED <<fd, moved>>

\* A slip: the target is deleted instead of moved aside.
BackupDeletes(u) ==
    /\ pc[u] = "backup"
    /\ Remove("target")
    /\ moved' = [moved EXCEPT ![u] = TRUE]
    /\ Goto(u, "install")
    /\ UNCHANGED fd

\* commitBinary: os.Rename(targetPath, backupPath).
Backup(u) ==
    /\ pc[u] = "backup"
    /\ Rename("target", "backup")
    /\ moved' = [moved EXCEPT ![u] = TRUE]
    /\ Goto(u, "install")
    /\ UNCHANGED fd

\* commitBinary: os.Rename(newBinary, targetPath).
Install(u) ==
    /\ pc[u] = "install"
    /\ Rename("tmp", "target")
    /\ Goto(u, IF moved[u] THEN "clean" ELSE "idle")
    /\ UNCHANGED <<fd, moved>>

\* commitBinary: that rename fails.
InstallFails(u) ==
    /\ pc[u] = "install"
    /\ Goto(u, IF moved[u] THEN "rollback" ELSE "idle")
    /\ UNCHANGED <<files, fd, moved>>

\* commitBinary: move the backup back.
Rollback(u) ==
    /\ pc[u] = "rollback"
    /\ Rename("backup", "target")
    /\ Goto(u, "idle")
    /\ UNCHANGED <<fd, moved>>

\* commitBinary: remove the backup after success.
Clean(u) ==
    /\ pc[u] = "clean"
    /\ Remove("backup")
    /\ Goto(u, "idle")
    /\ UNCHANGED <<fd, moved>>

\* Any other step fails: Apply returns the error and leaves the files as they are.
Fails(u) ==
    /\ pc[u] \in Steps \ {"idle", "install"}
    /\ fd' = [fd EXCEPT ![u] = 0]
    /\ Goto(u, "idle")
    /\ UNCHANGED <<files, moved>>

\* The process dies; it, or a supervisor, may call Apply again.
Crash ==
    /\ pc' = [u \in Updaters |-> "idle"]
    /\ fd' = [u \in Updaters |-> 0]
    /\ UNCHANGED <<files, moved>>

\* Restart: the process is replaced by what is at the target path, if it can be
\* executed; calls of Apply under way end with it.
Restart ==
    /\ Exists("target") /\ exec[dir["target"]]
    /\ pc' = [u \in Updaters |-> "idle"]
    /\ fd' = [u \in Updaters |-> 0]
    /\ UNCHANGED <<files, moved>>

Apply(u) ==
    \/ Check(u) \/ Download(u) \/ Filled(u) \/ Verify(u) \/ Chmod(u) \/ Stat(u) \/ Unlink(u)
    \/ Backup(u) \/ Install(u) \/ InstallFails(u) \/ Rollback(u) \/ Clean(u) \/ Fails(u)

Next == Crash \/ Restart \/ \E u \in Updaters : Apply(u)

Spec == Init /\ [][Next]_vars

-----------------------------------------------------------------------------
(* Type correctness; a download under way has its file open.                 *)
TypeOK ==
    /\ dir \in [Paths -> Inodes \union {0}]
    /\ content \in [Inodes -> Contents] /\ exec \in [Inodes -> BOOLEAN]
    /\ pc \in [Updaters -> Steps]
    /\ fd \in [Updaters -> Inodes \union {0}] /\ moved \in [Updaters -> BOOLEAN]
    /\ \A u \in Updaters : pc[u] = "fill" <=> fd[u] # 0

Complete(p) == Exists(p) /\ content[dir[p]] \in {"old", "new"} /\ exec[dir[p]]

(* What is found at the target path is a complete, verified and executable   *)
(* version of the program, whichever call of Apply failed or crashed.        *)
TargetComplete == Exists("target") => Complete("target")

(* The program is never lost: while the target path is empty, between the    *)
(* two renames of commitBinary or after a failed rollback, the backup holds  *)
(* a complete version.                                                       *)
NeverLost == ~Exists("target") => Complete("backup")

\* The version that can be started, or restored from the backup.
Recoverable == IF Exists("target") THEN content[dir["target"]]
               ELSE IF Exists("backup") THEN content[dir["backup"]] ELSE "none"

(* Seen from outside, any sequence of updates, failures, rollbacks and       *)
(* crashes replaces the old version by the new one at most once and never    *)
(* brings the old one back.                                                  *)
Register == INSTANCE VersionRegister WITH version <- Recoverable
NoDowngrade == Register!Spec
=============================================================================
