------------------------------ MODULE ShellFs ------------------------------
(***************************************************************************)
(* The file commands of the shell (src/src/shell/shell.c) and the editor   *)
(* sessions it starts (src/src/em/em.c), over the file system of Fs.       *)
(*                                                                         *)
(* The shell runs one command at a time; the editor keeps the keyboard     *)
(* until it is left, so a session is opened, saves any number of times and *)
(* ends, with no shell command between.  What happens to the text between  *)
(* two saves is module Em; here a save writes any of Texts.                *)
(***************************************************************************)
EXTENDS Fs

CONSTANTS Args,        \* the path arguments typed
          Texts,       \* the texts echoed and edited
          Home,        \* /home
          InitTree     \* the boot tree: directories and files, in order

ASSUME ShellFsAssumption ==
    /\ \A arg \in Args : arg.comps \in Seq(Component)
    /\ IsCanonical(Home)
    /\ Len(InitTree) \in Nat
    /\ \A n \in 1..Len(InitTree) : /\ IsCanonical(InitTree[n].path)
                                   /\ Len(InitTree[n].data) \in Nat
    /\ \A text \in Texts : Len(text) \in Nat

VARIABLES files, change_log,
          shell_cwd,
          em           \* the open editor session

vars == <<files, change_log, shell_cwd, em>>

NoSession == [open |-> FALSE, path |-> Root, confirmed |-> FALSE]

Init ==
    /\ files = fs_init(InitTree)
    /\ change_log = <<>>
    /\ shell_cwd = Home
    /\ em = NoSession

Log(type, path) == change_log' = fs_log_change(change_log, type, path)

(* cd and cd ~ take /home as it is; every other path must be a directory.  *)
cmd_cd_home ==
    /\ shell_cwd' = Home
    /\ UNCHANGED <<files, change_log, em>>

cmd_cd(path) ==
    /\ shell_cwd' = IF fs_is_dir(files, path) THEN path ELSE shell_cwd
    /\ UNCHANGED <<files, change_log, em>>

cmd_makedir(path) ==
    /\ files' = fs_mkdir(files, path)
    /\ IF CanMkdir(files, path) THEN Log("CREATED", path)
                                ELSE UNCHANGED change_log
    /\ UNCHANGED <<shell_cwd, em>>

(* The file there is, or the one made for it.                              *)
Opened(path) == IF Exists(files, path) THEN files ELSE fs_create(files, path)

(* A name that is taken, by a file or a directory, is left as it is and    *)
(* touch succeeds; "/" is not taken.                                       *)
cmd_touch(path) ==
    /\ files' = Opened(path)
    /\ IF CanCreate(files, path) THEN Log("CREATED", path)
                                 ELSE UNCHANGED change_log
    /\ UNCHANGED <<shell_cwd, em>>

(* Mutant: a removal is not recorded.                                      *)
RmUnlogged(path) ==
    /\ files' = fs_delete(files, path)
    /\ UNCHANGED <<shell_cwd, em, change_log>>

(* A directory is removed like a file, whatever is below it.               *)
cmd_rm(path) ==
    /\ files' = fs_delete(files, path)
    /\ IF Exists(files, path) THEN Log("DELETED", path)
                              ELSE UNCHANGED change_log
    /\ UNCHANGED <<shell_cwd, em>>

(* cat and grep.                                                           *)
cmd_view(path) ==
    /\ IF IsFile(files, path) THEN Log("VIEW", path) ELSE UNCHANGED change_log
    /\ UNCHANGED <<files, shell_cwd, em>>

(* echo text > path.  What fs_write returns is ignored.                    *)
EchoRedirect(path, text) ==
    /\ files' = fs_write(Opened(path), path, text)
    /\ IF Exists(files, path) THEN Log("EDITED", path)
       ELSE IF CanCreate(files, path) THEN Log("CREATED", path)
       ELSE UNCHANGED change_log
    /\ UNCHANGED <<shell_cwd, em>>

(* cmd_em: a system file is opened only after [ OK ]; the VIEW is logged   *)
(* whether or not there is such a file.                                    *)
em_run(path, ok) ==
    /\ IF fs_is_system(files, path) /\ ~ok
       THEN UNCHANGED <<em, change_log>>
       ELSE /\ em' = [open |-> TRUE, path |-> path,
                      confirmed |-> fs_is_system(files, path)]
            /\ Log("VIEW", path)
    /\ UNCHANGED <<files, shell_cwd>>

(* Mutant: the save is recorded although the file cannot be made.          *)
EmSaveLogFirst(text) ==
    /\ files' = fs_write(Opened(em.path), em.path, text)
    /\ Log("EDITED", em.path)
    /\ UNCHANGED <<shell_cwd, em>>

(* A save creates the file if it is missing and logs EDITED in both cases; *)
(* what fs_write returns is ignored.                                       *)
em_save(text) ==
    LET ok == Exists(files, em.path) \/ CanCreate(files, em.path)
    IN  /\ files' = fs_write(Opened(em.path), em.path, text)
        /\ IF ok THEN Log("EDITED", em.path) ELSE UNCHANGED change_log
        /\ UNCHANGED <<shell_cwd, em>>

em_quit ==
    /\ em' = NoSession
    /\ UNCHANGED <<files, change_log, shell_cwd>>

Command(path) ==
    \/ cmd_cd(path)
    \/ cmd_makedir(path)
    \/ cmd_touch(path)
    \/ cmd_rm(path)
    \/ cmd_view(path)
    \/ \E text \in Texts : EchoRedirect(path, text)
    \/ \E ok \in BOOLEAN : em_run(path, ok)

Shell ==
    /\ ~em.open
    /\ \/ cmd_cd_home
       \/ \E arg \in Args : Command(fs_resolve_path(shell_cwd, arg))

Editor ==
    /\ em.open
    /\ em_quit \/ \E text \in Texts : em_save(text)

Next == Shell \/ Editor

Spec == Init /\ [][Next]_vars

-----------------------------------------------------------------------------
Present == {files[i].path : i \in {j \in Slots : files[j].used}}
NodeAt(path) == files[fs_find(files, path)]

(* The table and the log keep their shape: a slot holds a text that fits   *)
(* and a canonical path, so that fs_create and fs_mkdir never cut one with *)
(* strncpy; the log is never longer than change_log[]; what the shell and  *)
(* the editor resolve paths against and save to is canonical.              *)
TypeOK ==
    /\ DOMAIN files = Slots
    /\ \A i \in Slots :
         /\ files[i].used \in BOOLEAN
         /\ files[i].is_dir \in BOOLEAN
         /\ files[i].is_system \in BOOLEAN
         /\ IsCanonical(files[i].path)
         /\ Len(files[i].data) < FS_MAX_FILESIZE
    /\ IsCanonical(shell_cwd) /\ IsCanonical(em.path)
    /\ Len(change_log) <= FS_MAX_CHANGES

(* No two used slots of files[] hold the same path: fs_find always finds   *)
(* the one node there is, whatever was created, deleted and created again. *)
UniquePaths ==
    \A i, j \in Slots :
        files[i].used /\ files[j].used /\ files[i].path = files[j].path => i = j

(* A directory never holds text, although echo and the editor's save do    *)
(* not look at what fs_write returns.                                      *)
DirsHaveNoText == \A i \in Slots : files[i].is_dir => files[i].data = <<>>

(* The audit log tells the truth about what exists: the last of the        *)
(* entries CREATED, EDITED and DELETED that it still holds about a path    *)
(* says whether that path is in the table.                                 *)
LastAbout(path, k) ==
    /\ change_log[k].path = path
    /\ change_log[k].type # "VIEW"
    /\ \A j \in (k + 1)..Len(change_log) :
         change_log[j].path = path => change_log[j].type = "VIEW"
AuditAgrees ==
    \A k \in 1..Len(change_log) :
        LastAbout(change_log[k].path, k)
          => (change_log[k].type = "DELETED" <=> ~Exists(files, change_log[k].path))

(* Every step that changes files[] changes one slot, and the newest entry  *)
(* of the log names its path, with a type other than VIEW.                 *)
EveryChangeLogged ==
    [][files' # files =>
         LET e == Last(change_log')
         IN  /\ change_log' # change_log \/ Len(change_log) = FS_MAX_CHANGES
             /\ e.type # "VIEW"
             /\ \A i \in Slots : files[i] # files'[i] =>
                  e.path = IF files'[i].used THEN files'[i].path
                                             ELSE files[i].path]_vars

(* What a path is does not change while it exists: a file never becomes a  *)
(* directory, and the system mark set when it was created stays.           *)
KindStable ==
    [][\A path \in Present \cap Present' :
         /\ NodeAt(path).is_dir = NodeAt(path)'.is_dir
         /\ NodeAt(path).is_system = NodeAt(path)'.is_system]_vars

-----------------------------------------------------------------------------
(* What the manual says of echo: an existing target is overwritten with    *)
(* the new text and EDITED is recorded.  So what a new EDITED entry names  *)
(* is a file.                                                              *)
EditedMeansWritten ==
    [][change_log' # change_log /\ Last(change_log').type = "EDITED"
         => IsFile(files', Last(change_log').path)]_vars

(* What the manual says of cd: a target that does not exist is an error.   *)
CdTargetExists ==
    [][shell_cwd' # shell_cwd => fs_is_dir(files, shell_cwd')]_vars

(* What the manual says of system files: they are edited only after the    *)
(* dialog was answered with [ OK ].                                        *)
SystemNeedsConfirmation ==
    [][\A i \in Slots :
         /\ files[i].used /\ files[i].is_system /\ ~files[i].is_dir
         /\ files'[i].used /\ files'[i].data # files[i].data
         => em.open /\ em.confirmed]_vars
=============================================================================
