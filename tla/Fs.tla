--------------------------------- MODULE Fs ---------------------------------
(***************************************************************************)
(* The in-memory file system of src/src/fs/fs.c: the table files[] and the *)
(* audit log change_log[], as functions from table to table and from log   *)
(* to log.  The shell (module ShellFs) and the editor (module Em) are its  *)
(* two clients.                                                            *)
(*                                                                         *)
(* A path is canonical, as FsPath makes it.  A text is a sequence of       *)
(* characters.  The user of a log entry is always "root" and is left out.  *)
(* is_dir and is_system of an unused slot are never read; the model keeps  *)
(* such a slot at the value memset gave it.                                *)
(***************************************************************************)
EXTENDS FsPath

CONSTANTS FS_MAX_FILES,      \* 64 in the program
          FS_MAX_FILESIZE,   \* 2048
          FS_MAX_CHANGES,    \* 64
          SystemNames        \* first components that begin with boot or krnl

ASSUME FsAssumption ==
    /\ FS_MAX_FILES \in Nat \ {0}
    /\ FS_MAX_FILESIZE \in Nat \ {0}
    /\ FS_MAX_CHANGES \in Nat \ {0}

Slots == 0..(FS_MAX_FILES - 1)

Unused == [used |-> FALSE, path |-> Root, data |-> <<>>,
           is_dir |-> FALSE, is_system |-> FALSE]

(* strncmp(path, "/boot", 5) == 0 || strncmp(path, "/krnl", 5) == 0        *)
SystemPath(path) == path # Root /\ path[1] \in SystemNames

First(S) == CHOOSE i \in S : \A j \in S : i <= j

FreeSlots(files) == {i \in Slots : ~files[i].used}

(* Mutant: the last slot is never looked at.                               *)
MatchesButLast(files, path) ==
    {i \in 0..(FS_MAX_FILES - 2) : files[i].used /\ files[i].path = path}

(* Mutant: a path is found by its beginning.                               *)
MatchesPrefix(files, path) ==
    {i \in Slots : files[i].used /\ IsPrefix(path, files[i].path)}

(* The slots that hold the path: at most one, as UniquePaths shows.        *)
Matches(files, path) == {i \in Slots : files[i].used /\ files[i].path = path}

fs_find_slot(files) == First(FreeSlots(files))
fs_find(files, path) == First(Matches(files, path))
Exists(files, path) == Matches(files, path) # {}

fs_is_dir(files, path) ==
    \/ path = Root
    \/ Exists(files, path) /\ files[fs_find(files, path)].is_dir

fs_is_system(files, path) ==
    \/ SystemPath(path)
    \/ Exists(files, path) /\ files[fs_find(files, path)].is_system

IsFile(files, path) == Exists(files, path) /\ ~files[fs_find(files, path)].is_dir

Node(path, dir) == [used |-> TRUE, path |-> path, data |-> <<>>,
                    is_dir |-> dir, is_system |-> SystemPath(path)]

(* The status a call returns: the table as it was means -1.                *)
CanCreate(files, path) == ~Exists(files, path) /\ FreeSlots(files) # {}
CanMkdir(files, path) == CanCreate(files, path) /\ path # Root

fs_create(files, path) ==
    IF CanCreate(files, path)
    THEN [files EXCEPT ![fs_find_slot(files)] = Node(path, FALSE)]
    ELSE files

fs_mkdir(files, path) ==
    IF CanMkdir(files, path)
    THEN [files EXCEPT ![fs_find_slot(files)] = Node(path, TRUE)]
    ELSE files

Clamp(text) == SubSeq(text, 1, IF Len(text) >= FS_MAX_FILESIZE
                               THEN FS_MAX_FILESIZE - 1 ELSE Len(text))

(* Mutant: directories are written like files.                             *)
WriteAnyNode(files, path, text) ==
    IF Exists(files, path)
    THEN [files EXCEPT ![fs_find(files, path)].data = Clamp(text)]
    ELSE files

fs_write(files, path, text) ==
    IF IsFile(files, path)
    THEN [files EXCEPT ![fs_find(files, path)].data = Clamp(text)]
    ELSE files

fs_delete(files, path) ==
    IF Exists(files, path)
    THEN [files EXCEPT ![fs_find(files, path)] = Unused]
    ELSE files

Event(type, path) == [type |-> type, path |-> path]

(* Mutant: a full log is not shifted.                                      *)
LogNeverShifts(log, type, path) == Append(log, Event(type, path))

(* A full log is shifted by one before the entry is appended.              *)
fs_log_change(log, type, path) ==
    Append(IF Len(log) >= FS_MAX_CHANGES THEN Tail(log) ELSE log,
           Event(type, path))

(* fs_init: the table is cleared and the boot tree is made entry by entry, *)
(* each one a directory or a file with its text.                           *)
BootStep(files, e) ==
    IF e.dir THEN fs_mkdir(files, e.path)
             ELSE fs_write(fs_create(files, e.path), e.path, e.data)

fs_init(tree) ==
    LET made[n \in 0..Len(tree)] ==
          IF n = 0 THEN [i \in Slots |-> Unused]
                   ELSE BootStep(made[n - 1], tree[n])
    IN  made[Len(tree)]
=============================================================================
