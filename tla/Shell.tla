-------------------------------- MODULE Shell --------------------------------
(***************************************************************************)
(* The shell as a whole (handle_line and execute_command of                *)
(* src/src/shell/shell.c): a line of commands chained by &&, run one after *)
(* the other over the file system (ShellFs) and the process table (Proc).  *)
(*                                                                         *)
(* A command is what module CmdLine makes of its text.  It returns a       *)
(* status, and the first one that returns an error ends the line.  What    *)
(* stands behind the next && is not looked at before it is reached, so the *)
(* model chooses it there, and whether there is anything: lines have any   *)
(* length.  Commands that touch neither files nor processes are one        *)
(* command, with either status.  em keeps the keyboard until it is left;   *)
(* then the line goes on.                                                  *)
(***************************************************************************)
EXTENDS Proc

CONSTANTS FS_MAX_PATH, MAX_COMPS, FS_MAX_FILES, FS_MAX_FILESIZE,
          FS_MAX_CHANGES, SystemNames, Args, Texts, Home, InitTree

VARIABLES files, change_log, shell_cwd, em,
          line         \* the command of the line that runs next, or Prompt

F == INSTANCE ShellFs

ASSUME ShellAssumption ==
    F!FsPathAssumption /\ F!FsAssumption /\ F!ShellFsAssumption

fsvars == <<files, change_log, shell_cwd, em>>
shellvars == <<fsvars, vars, line>>

FileCommands ==
    [cmd : {"cd", "makedir", "touch", "rm", "cat", "lsf", "em"}, arg : Args]
      \cup [cmd : {"echo"}, arg : Args, text : Texts]
PrCommands == [cmd : {"start", "kill", "-c"}, name : Names]
StatusCommands == FileCommands \cup {[cmd |-> "home"]}
Commands ==
    StatusCommands \cup PrCommands
      \cup {[cmd |-> "other", fails |-> FALSE], [cmd |-> "other", fails |-> TRUE]}

Prompt == [cmd |-> "prompt"]

ShellInit == F!Init /\ Init /\ line = Prompt

-----------------------------------------------------------------------------
Target(c) == F!fs_resolve_path(shell_cwd, c.arg)
Taken(c) == F!Exists(files, Target(c))

(* Mutant: touch reports an error for a name that is taken.                *)
FailsTouchTaken(c) ==
    \/ c.cmd \in {"cd", "lsf"} /\ ~F!fs_is_dir(files, Target(c))
    \/ c.cmd = "makedir" /\ ~F!CanMkdir(files, Target(c))
    \/ c.cmd \in {"touch", "echo"} /\ Taken(c)
    \/ c.cmd = "rm" /\ ~Taken(c)
    \/ c.cmd = "cat" /\ ~F!IsFile(files, Target(c))
    \/ c.cmd = "other" /\ c.fails

(* The command returns an error.  pr and em return none, whatever happens. *)
Fails(c) ==
    \/ c.cmd \in {"cd", "lsf"} /\ ~F!fs_is_dir(files, Target(c))
    \/ c.cmd = "makedir" /\ ~F!CanMkdir(files, Target(c))
    \/ c.cmd \in {"touch", "echo"} /\ ~Taken(c) /\ ~F!CanCreate(files, Target(c))
    \/ c.cmd = "rm" /\ ~Taken(c)
    \/ c.cmd = "cat" /\ ~F!IsFile(files, Target(c))
    \/ c.cmd = "other" /\ c.fails

RunFile(c) ==
    /\ \/ c.cmd = "home"    /\ F!cmd_cd_home
       \/ c.cmd = "cd"      /\ F!cmd_cd(Target(c))
       \/ c.cmd = "makedir" /\ F!cmd_makedir(Target(c))
       \/ c.cmd = "touch"   /\ F!cmd_touch(Target(c))
       \/ c.cmd = "rm"      /\ F!cmd_rm(Target(c))
       \/ c.cmd = "cat"     /\ F!cmd_view(Target(c))
       \/ c.cmd = "echo"    /\ F!EchoRedirect(Target(c), c.text)
       \/ c.cmd = "em"      /\ \E ok \in BOOLEAN : F!em_run(Target(c), ok)
    /\ UNCHANGED vars

RunPr(c) ==
    /\ \/ c.cmd = "start" /\ proc_start(c.name)
       \/ c.cmd = "kill"  /\ proc_kill(c.name)
       \/ c.cmd = "-c"    /\ proc_set_comment(c.name)
    /\ UNCHANGED fsvars

execute_command(c) ==
    \/ RunFile(c)
    \/ RunPr(c)
    \/ c.cmd \in {"lsf", "other"} /\ UNCHANGED <<fsvars, vars>>

Runs(c) == line = c /\ ~em.open

(* A line is typed.                                                        *)
EnterLine ==
    /\ Runs(Prompt)
    /\ line' \in Commands
    /\ UNCHANGED <<fsvars, vars>>

(* The next command of the line; an error drops what follows it.           *)
handle_line ==
    \E c \in Commands :
        /\ Runs(c)
        /\ execute_command(c)
        /\ line' \in IF Fails(c) THEN {Prompt} ELSE Commands \cup {Prompt}

Editor == F!Editor /\ UNCHANGED <<vars, line>>

ShellNext == EnterLine \/ handle_line \/ Editor

ShellSpec == ShellInit /\ [][ShellNext]_shellvars

-----------------------------------------------------------------------------
(* The status of a file command, on which && relies, tells what has become *)
(* of the system.  An error leaves files, log, directory, session and      *)
(* processes as they were.  Without one the command has done what it is    *)
(* for, to the path it names and to no other: cd goes to the directory,    *)
(* lsf lists one; makedir makes a directory that was not there; touch      *)
(* leaves what is there and makes what is not; rm removes; cat reads a     *)
(* file; em opens it, or leaves a system file alone.  Of echo it tells     *)
(* less: the text is in the file, but a directory of that name is left as  *)
(* it is, and echo returns no error all the same.                          *)
(* pr returns no error whatever happens, so its status tells nothing; what *)
(* pr does is the next property.                                           *)
OnlyAt(path) ==
    \A i \in F!Slots : files'[i] # files[i] =>
        path = IF files'[i].used THEN files'[i].path ELSE files[i].path

Echoed(path, text) ==
    IF F!Exists(files, path) /\ ~F!IsFile(files, path) THEN files' = files
    ELSE /\ F!IsFile(files', path)
         /\ files'[F!fs_find(files', path)].data = F!Clamp(text)

Done(c) ==
    /\ c.cmd \in {"home", "lsf", "cd", "cat", "em"} => files' = files
    /\ c.cmd = "home" => shell_cwd' = Home
    /\ c.cmd = "cd" => shell_cwd' = Target(c)
    /\ c.cmd \in {"cd", "lsf", "makedir"} => F!fs_is_dir(files', Target(c))
    /\ c.cmd \in {"makedir", "touch", "rm", "echo"} => OnlyAt(Target(c))
    /\ c.cmd = "makedir" => ~Taken(c)
    /\ c.cmd = "touch" => /\ F!Exists(files', Target(c))
                          /\ Taken(c) => files' = files
    /\ c.cmd = "rm" => Taken(c) /\ ~F!Exists(files', Target(c))
    /\ c.cmd = "cat" => F!IsFile(files', Target(c))
    /\ c.cmd = "echo" => Echoed(Target(c), c.text)
    /\ c.cmd = "em" => \/ em'.open /\ em'.path = Target(c)
                       \/ F!fs_is_system(files, Target(c)) /\ UNCHANGED fsvars
StatusTellsEffect ==
    [][\A c \in StatusCommands :
         Runs(c) => IF Fails(c) THEN UNCHANGED <<fsvars, vars>> ELSE Done(c)]_shellvars

(* What a pr command that cannot do its work prints, since it returns      *)
(* nothing: no slot is free, the process is "system", there is none.       *)
PrComplains(c) ==
    \/ c.cmd = "start" /\ StartFails(c.name)
    \/ c.cmd = "kill" /\ KillFails(c.name)
    \/ c.cmd = "-c" /\ CommentFails(c.name)

(* A pr command either complains and changes nothing, or leaves what it is *)
(* for: pr start a process of that name that runs, pr kill one in its slot *)
(* and none that runs, pr -c a process with the comment.                   *)
PrDone(c) ==
    LET slots == {i \in Slots : procs'[i].used /\ procs'[i].name = c.name}
    IN  /\ slots # {}
        /\ c.cmd = "start" => \E i \in slots : procs'[i].running
        /\ c.cmd = "kill" => \A i \in slots : ~procs'[i].running
        /\ c.cmd = "-c" => \E i \in slots : procs'[i].comment = "set"
PrDoesOrComplains ==
    [][\A c \in PrCommands :
         Runs(c) => IF PrComplains(c) THEN UNCHANGED <<fsvars, vars>>
                                      ELSE UNCHANGED fsvars /\ PrDone(c)]_shellvars

(* What the manual says of &&: if any command fails, all that follow it on *)
(* the line are aborted.                                                   *)
ChainStopsOnFailure ==
    [][\A c \in Commands :
         Runs(c) /\ (Fails(c) \/ PrComplains(c)) => line' = Prompt]_shellvars
=============================================================================
