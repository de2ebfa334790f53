--------------------------- MODULE ShellFsProofs ---------------------------
(***************************************************************************)
(* Theorems about the file system under the shell and the editor, for      *)
(* every size of the table and of the log, all arguments and all texts:    *)
(* the table keeps its shape, paths stay unique, directories hold no text, *)
(* the kind of a path is stable, every change is logged, and the log is    *)
(* truthful.                                                               *)
(***************************************************************************)
EXTENDS ShellFs, FsProofs

-----------------------------------------------------------------------------
(* Every step leaves table and log alone, changes the table and logs the   *)
(* change, or logs something about a path without changing the table.      *)
Changes(path, type) ==
    /\ change_log' = fs_log_change(change_log, type, path)
    /\ \/ type \in {"CREATED", "EDITED"} /\ Created(files, files', path)
       \/ type = "EDITED" /\ Written(files, files', path)
       \/ type = "DELETED" /\ Deleted(files, files', path)
Notes(path, type) ==
    /\ change_log' = fs_log_change(change_log, type, path)
    /\ files' = files
    /\ type = "VIEW" \/ (type = "EDITED" /\ Exists(files, path))
Effect ==
    \/ UNCHANGED <<files, change_log>>
    \/ \E path, type : /\ IsCanonical(path)
                       /\ Changes(path, type) \/ Notes(path, type)

LEMMA TypedIsCanonical ==
    ASSUME IsCanonical(shell_cwd), NEW arg \in Args
    PROVE  IsCanonical(fs_resolve_path(shell_cwd, arg))
  <1>1. shell_cwd \in Seq(Component) /\ arg.comps \in Seq(Component)
    BY ShellFsAssumption DEF IsCanonical
  <1> QED
    BY <1>1, ResolvedIsCanonical

LEMMA CommandEffect ==
    ASSUME TableOK(files), NEW path, IsCanonical(path), Command(path)
    PROVE  Effect
  <1>1. CASE cmd_cd(path)
    BY <1>1 DEF cmd_cd, Effect
  <1>2. CASE cmd_makedir(path)
    <2>1. CASE CanMkdir(files, path)
      BY <1>2, <2>1, MkdirCreates DEF cmd_makedir, Log, Changes, Effect
    <2>2. CASE ~CanMkdir(files, path)
      BY <1>2, <2>2 DEF cmd_makedir, fs_mkdir, Effect
    <2> QED
      BY <2>1, <2>2
  <1>3. CASE cmd_touch(path)
    <2>1. CASE CanCreate(files, path)
      BY <1>3, <2>1, CreateCreates
      DEF cmd_touch, CanCreate, Opened, Log, Changes, Effect
    <2>2. CASE ~CanCreate(files, path)
      BY <1>3, <2>2 DEF cmd_touch, Opened, fs_create, Effect
    <2> QED
      BY <2>1, <2>2
  <1>4. CASE cmd_rm(path)
    <2>1. CASE Exists(files, path)
      BY <1>4, <2>1, DeleteDeletes DEF cmd_rm, Log, Changes, Effect
    <2>2. CASE ~Exists(files, path)
      BY <1>4, <2>2 DEF cmd_rm, fs_delete, Effect
    <2> QED
      BY <2>1, <2>2
  <1>5. CASE cmd_view(path)
    BY <1>5 DEF cmd_view, Log, Notes, Effect
  <1>6. ASSUME NEW text \in Texts, EchoRedirect(path, text)
        PROVE  Effect
    <2>1. files' = fs_write(IF Exists(files, path) THEN files
                            ELSE fs_create(files, path), path, text)
      BY <1>6 DEF EchoRedirect, Opened
    <2>2. CASE Exists(files, path) /\ Written(files, files', path)
      BY <1>6, <2>2 DEF EchoRedirect, Log, Changes, Effect
    <2>3. CASE Exists(files, path) /\ files' = files
      BY <1>6, <2>3 DEF EchoRedirect, Log, Notes, Effect
    <2>4. CASE /\ ~Exists(files, path) /\ CanCreate(files, path)
               /\ Created(files, files', path)
      BY <1>6, <2>4 DEF EchoRedirect, Log, Changes, Effect
    <2>5. CASE /\ ~Exists(files, path) /\ ~CanCreate(files, path)
               /\ files' = files
      BY <1>6, <2>5 DEF EchoRedirect, Log, Effect
    <2> QED
      BY <2>1, <2>2, <2>3, <2>4, <2>5, OpenedAndWritten, ShellFsAssumption
  <1>7. ASSUME NEW ok \in BOOLEAN, em_run(path, ok)
        PROVE  Effect
    BY <1>7 DEF em_run, Log, Notes, Effect
  <1> QED
    BY <1>1, <1>2, <1>3, <1>4, <1>5, <1>6, <1>7 DEF Command

LEMMA StepEffect ==
    ASSUME TableOK(files), IsCanonical(shell_cwd), IsCanonical(em.path), [Next]_vars
    PROVE  Effect
  <1>1. CASE cmd_cd_home
    BY <1>1 DEF cmd_cd_home, Effect
  <1>2. ASSUME NEW arg \in Args, Command(fs_resolve_path(shell_cwd, arg))
        PROVE  Effect
    BY <1>2, CommandEffect, TypedIsCanonical
  <1>3. CASE em_quit
    BY <1>3 DEF em_quit, Effect
  <1>4. ASSUME NEW text \in Texts, em_save(text)
        PROVE  Effect
    <2>1. files' = fs_write(IF Exists(files, em.path) THEN files
                            ELSE fs_create(files, em.path), em.path, text)
      BY <1>4 DEF em_save, Opened
    <2>2. CASE Exists(files, em.path) /\ Written(files, files', em.path)
      BY <1>4, <2>2 DEF em_save, Log, Changes, Effect
    <2>3. CASE Exists(files, em.path) /\ files' = files
      BY <1>4, <2>3 DEF em_save, Log, Notes, Effect
    <2>4. CASE /\ ~Exists(files, em.path) /\ CanCreate(files, em.path)
               /\ Created(files, files', em.path)
      BY <1>4, <2>4 DEF em_save, Log, Changes, Effect
    <2>5. CASE /\ ~Exists(files, em.path) /\ ~CanCreate(files, em.path)
               /\ files' = files
      BY <1>4, <2>5 DEF em_save, Log, Effect
    <2> QED
      BY <2>1, <2>2, <2>3, <2>4, <2>5, OpenedAndWritten, ShellFsAssumption
  <1>5. CASE UNCHANGED vars
    BY <1>5 DEF vars, Effect
  <1> QED
    BY <1>1, <1>2, <1>3, <1>4, <1>5 DEF Next, Shell, Editor

-----------------------------------------------------------------------------
LogOK == /\ \E S : change_log \in Seq(S)
         /\ Len(change_log) <= FS_MAX_CHANGES

(* The inductive invariant: the conjunct about the table is what makes the *)
(* slot fs_find returns the only one, and a log of at most FS_MAX_CHANGES  *)
(* entries is shifted by one entry or not at all.                          *)
PathsOK == /\ PathsCanonical(files)
           /\ IsCanonical(shell_cwd) /\ IsCanonical(em.path)
ShellFsInv == TableOK(files) /\ PathsOK /\ LogOK /\ AuditAgrees

(* fs_log_change drops d = 0 or 1 entries in front and appends one.        *)
LEMMA LogAppends ==
    ASSUME NEW S, NEW log \in Seq(S), Len(log) <= FS_MAX_CHANGES,
           NEW type, NEW path, NEW new, new = fs_log_change(log, type, path)
    PROVE  \E d \in {0, 1} :
             /\ new \in Seq(S \cup {Event(type, path)})
             /\ Len(new) = Len(log) - d + 1
             /\ Len(new) <= FS_MAX_CHANGES
             /\ d = 1 => Len(log) = FS_MAX_CHANGES
             /\ \A k \in 1..(Len(log) - d) : new[k] = log[k + d]
             /\ new[Len(new)] = Event(type, path)
  <1> DEFINE e == Event(type, path)
             T == S \cup {e}
  <1>1. log \in Seq(T) /\ e \in T
    OBVIOUS
  <1> HIDE DEF e, T
  <1>2. CASE Len(log) >= FS_MAX_CHANGES
    <2>1. log # <<>> /\ Len(log) = FS_MAX_CHANGES
      BY <1>1, <1>2, FsAssumption
    <2>2. /\ Tail(log) \in Seq(T) /\ Len(Tail(log)) = Len(log) - 1
          /\ \A k \in 1..(Len(log) - 1) : Tail(log)[k] = log[k + 1]
      BY <1>1, <2>1
    <2>3. new = Append(Tail(log), e)
      BY <1>2 DEF fs_log_change, e
    <2> QED
      BY <1>1, <2>1, <2>2, <2>3 DEF e, T
  <1>3. CASE ~(Len(log) >= FS_MAX_CHANGES)
    <2>1. new = Append(log, e)
      BY <1>3 DEF fs_log_change, e
    <2> QED
      BY <1>1, <1>3, <2>1, FsAssumption DEF e, T
  <1> QED
    BY <1>2, <1>3

LEMMA LogStep ==
    ASSUME LogOK, NEW path, NEW type,
           change_log' = fs_log_change(change_log, type, path)
    PROVE  /\ LogOK'
           /\ change_log'[Len(change_log')] = Event(type, path)
           /\ Len(change_log') \in Nat \ {0}
           /\ change_log' # change_log \/ Len(change_log) = FS_MAX_CHANGES
           /\ \E d \in {0, 1} :
                /\ Len(change_log') = Len(change_log) - d + 1
                /\ \A k \in 1..(Len(change_log) - d) :
                     change_log'[k] = change_log[k + d]
  <1>1. PICK S : change_log \in Seq(S)
    BY DEF LogOK
  <1>2. Len(change_log) <= FS_MAX_CHANGES /\ Len(change_log) \in Nat
    BY <1>1 DEF LogOK
  <1>0. ASSUME NEW new, new = fs_log_change(change_log, type, path)
        PROVE  \E d \in {0, 1} :
                 /\ new \in Seq(S \cup {Event(type, path)})
                 /\ Len(new) = Len(change_log) - d + 1
                 /\ Len(new) <= FS_MAX_CHANGES
                 /\ d = 1 => Len(change_log) = FS_MAX_CHANGES
                 /\ \A k \in 1..(Len(change_log) - d) : new[k] = change_log[k + d]
                 /\ new[Len(new)] = Event(type, path)
    BY <1>0, <1>1, <1>2, LogAppends, Z3
  <1>3. PICK d \in {0, 1} :
          /\ change_log' \in Seq(S \cup {Event(type, path)})
          /\ Len(change_log') = Len(change_log) - d + 1
          /\ Len(change_log') <= FS_MAX_CHANGES
          /\ d = 1 => Len(change_log) = FS_MAX_CHANGES
          /\ \A k \in 1..(Len(change_log) - d) :
               change_log'[k] = change_log[k + d]
          /\ change_log'[Len(change_log')] = Event(type, path)
    BY <1>0
  <1>4. LogOK'
    BY <1>3 DEF LogOK
  <1>5. Len(change_log') \in Nat \ {0}
    BY <1>2, <1>3, FsAssumption
  <1>6. d = 0 => change_log' # change_log
    BY <1>2, <1>3
  <1> QED
    BY <1>3, <1>4, <1>5, <1>6

(* A step that logs the truth about one path keeps AuditAgrees: older      *)
(* entries about other paths are as true as they were.                     *)
LEMMA AuditStep ==
    ASSUME LogOK, AuditAgrees, NEW path, NEW type,
           change_log' = fs_log_change(change_log, type, path),
           \A q : q # path => (Exists(files', q) <=> Exists(files, q)),
           type = "VIEW" => files' = files,
           type # "VIEW" => (type = "DELETED" <=> ~Exists(files', path))
    PROVE  AuditAgrees'
  <1>1. PICK S : change_log \in Seq(S)
    BY DEF LogOK
  <1>2. PICK d \in {0, 1} :
          /\ Len(change_log') = Len(change_log) - d + 1
          /\ \A k \in 1..(Len(change_log) - d) :
               change_log'[k] = change_log[k + d]
    BY LogStep
  <1>3. /\ Len(change_log) \in Nat /\ Len(change_log') \in Nat \ {0}
        /\ change_log'[Len(change_log')].path = path
        /\ change_log'[Len(change_log')].type = type
    <2>1. Event(type, path).path = path /\ Event(type, path).type = type
      BY DEF Event
    <2>2. /\ change_log'[Len(change_log')] = Event(type, path)
          /\ Len(change_log') \in Nat \ {0}
      BY LogStep
    <2> QED
      BY <1>1, <2>1, <2>2
  <1>4. SUFFICES ASSUME NEW k \in 1..Len(change_log'),
                        LastAbout(change_log[k].path, k)'
                 PROVE  change_log'[k].type = "DELETED"
                          <=> ~Exists(files', change_log'[k].path)
    BY DEF AuditAgrees
  <1>5. /\ change_log'[k].type # "VIEW"
        /\ \A j \in (k + 1)..Len(change_log') :
             change_log'[j].path = change_log'[k].path
               => change_log'[j].type = "VIEW"
    BY <1>4 DEF LastAbout
  <1>6. CASE k = Len(change_log')
    BY <1>3, <1>5, <1>6
  <1>7. CASE k # Len(change_log')
    <2>1. /\ k \in 1..(Len(change_log) - d) /\ k + d \in 1..Len(change_log)
          /\ change_log'[k] = change_log[k + d]
      BY <1>2, <1>3, <1>7
    <2>2. LastAbout(change_log[k + d].path, k + d)
      <3>1. ASSUME NEW j \in (k + d + 1)..Len(change_log),
                   change_log[j].path = change_log[k + d].path
            PROVE  change_log[j].type = "VIEW"
        <4>1. /\ j - d \in (k + 1)..Len(change_log')
              /\ j - d \in 1..(Len(change_log) - d)
              /\ (j - d) + d = j
          BY <1>2, <1>3, <2>1
        <4>2. change_log'[j - d] = change_log[j]
          BY <1>2, <4>1
        <4> QED
          BY <1>5, <2>1, <3>1, <4>1, <4>2
      <3> QED
        BY <1>5, <2>1, <3>1 DEF LastAbout
    <2>3. change_log[k + d].type = "DELETED"
            <=> ~Exists(files, change_log[k + d].path)
      BY <2>1, <2>2 DEF AuditAgrees
    <2>4. change_log'[k].path # path \/ type = "VIEW"
      BY <1>3, <1>5, <1>7
    <2> QED
      BY <2>1, <2>3, <2>4
  <1> QED
    BY <1>6, <1>7

(* The shell goes to a path it resolved, or to /home, and the editor is    *)
(* opened on a path the shell resolved.                                    *)
LEMMA WhereStep ==
    ASSUME PathsOK, [Next]_vars
    PROVE  IsCanonical(shell_cwd') /\ IsCanonical(em.path)'
  <1>1. IsCanonical(shell_cwd) /\ IsCanonical(em.path)
    BY DEF PathsOK
  <1>2. CASE cmd_cd_home
    BY <1>1, <1>2, ShellFsAssumption DEF cmd_cd_home
  <1>3. ASSUME NEW arg \in Args, Command(fs_resolve_path(shell_cwd, arg))
        PROVE  IsCanonical(shell_cwd') /\ IsCanonical(em.path)'
    <2> DEFINE path == fs_resolve_path(shell_cwd, arg)
    <2>1. IsCanonical(path) /\ Command(path)
      BY <1>1, <1>3, TypedIsCanonical
    <2> HIDE DEF path
    <2> QED
      BY <1>1, <2>1 DEF Command, cmd_cd, cmd_makedir, cmd_touch, cmd_rm, cmd_view,
                        EchoRedirect, em_run
  <1>4. CASE em_quit
    BY <1>1, <1>4, RootIsCanonical DEF em_quit, NoSession
  <1>5. ASSUME NEW text \in Texts, em_save(text)
        PROVE  IsCanonical(shell_cwd') /\ IsCanonical(em.path)'
    BY <1>1, <1>5 DEF em_save
  <1>6. CASE UNCHANGED vars
    BY <1>1, <1>6 DEF vars
  <1> QED
    BY <1>2, <1>3, <1>4, <1>5, <1>6 DEF Next, Shell, Editor

(* What the last two sections say of a step.                               *)
LEMMA InvStep ==
    ASSUME ShellFsInv, [Next]_vars
    PROVE  ShellFsInv'
  <1>1. TableOK(files) /\ PathsOK /\ LogOK /\ AuditAgrees
    BY DEF ShellFsInv
  <1>a. IsCanonical(shell_cwd') /\ IsCanonical(em.path)'
    BY <1>1, WhereStep
  <1>2. CASE UNCHANGED <<files, change_log>>
    BY <1>1, <1>2, <1>a DEF ShellFsInv, TableOK, IsNode, LogOK, AuditAgrees, LastAbout,
                      Exists, Matches, PathsOK, PathsCanonical
  <1>3. ASSUME NEW path, NEW type, IsCanonical(path), Changes(path, type)
        PROVE  ShellFsInv'
    <2>1. /\ change_log' = fs_log_change(change_log, type, path)
          /\ \/ Created(files, files', path)
             \/ Written(files, files', path)
             \/ Deleted(files, files', path)
          /\ type # "VIEW"
          /\ type = "DELETED" => Deleted(files, files', path)
          /\ type # "DELETED" => \/ Created(files, files', path)
                                 \/ Written(files, files', path)
      BY <1>3 DEF Changes
    <2>2. /\ TableOK(files')
          /\ \A q : q # path => (Exists(files', q) <=> Exists(files, q))
          /\ type = "DELETED" <=> ~Exists(files', path)
      BY <1>1, <2>1, ChangesKeepOrder
    <2>3. LogOK'
      BY <1>1, <2>1, LogStep
    <2>4. AuditAgrees'
      BY <1>1, <2>1, <2>2, AuditStep
    <2>5. PathsCanonical(files')
      BY <1>1, <1>3, <2>1, ChangesKeepPaths DEF PathsOK
    <2>6. PathsOK'
      BY <1>a, <2>5 DEF PathsOK
    <2> QED
      BY <2>2, <2>3, <2>4, <2>6 DEF ShellFsInv
  <1>4. ASSUME NEW path, NEW type, Notes(path, type)
        PROVE  ShellFsInv'
    <2>1. /\ change_log' = fs_log_change(change_log, type, path)
          /\ files' = files
          /\ type # "VIEW" => type = "EDITED" /\ Exists(files', path)
      BY <1>4 DEF Notes
    <2>2. LogOK'
      BY <1>1, <2>1, LogStep
    <2>3. AuditAgrees'
      BY <1>1, <2>1, AuditStep
    <2>4. PathsOK'
      BY <1>1, <1>a, <2>1 DEF PathsOK, PathsCanonical
    <2> QED
      BY <1>1, <2>1, <2>2, <2>3, <2>4 DEF ShellFsInv
  <1>5. Effect
    BY <1>1, StepEffect DEF PathsOK
  <1> QED
    BY <1>2, <1>3, <1>4, <1>5 DEF Effect

LEMMA InitInv ==
    ASSUME Init
    PROVE  ShellFsInv
  <1>1. TableOK(files)
    BY ShellFsAssumption, BootTableOK DEF Init
  <1>2. change_log = <<>> /\ Len(change_log) = 0
    BY DEF Init
  <1>3. LogOK
    <2>1. change_log \in Seq({})
      BY <1>2
    <2> QED
      BY <1>2, <2>1, FsAssumption DEF LogOK
  <1>4. AuditAgrees
    BY <1>2 DEF AuditAgrees
  <1>5. PathsOK
    BY ShellFsAssumption, BootPaths, RootIsCanonical DEF Init, PathsOK, NoSession
  <1> QED
    BY <1>1, <1>3, <1>4, <1>5 DEF ShellFsInv

-----------------------------------------------------------------------------
LEMMA ShellFsInvariant == Spec => []ShellFsInv
  BY InitInv, InvStep, PTL DEF Spec

(* files[] and change_log[] keep their shape: every slot is a node whose   *)
(* text fits in data[], the log never outgrows change_log[], and every     *)
(* path that is stored or resolved against is canonical, so that no        *)
(* strncpy cuts one.                                                       *)
THEOREM ShellFsTypeCorrect == Spec => []TypeOK
  <1>1. ShellFsInv => TypeOK
    BY DEF ShellFsInv, TableOK, IsNode, Fits, LogOK, TypeOK, PathsOK, PathsCanonical
  <1> QED
    BY <1>1, ShellFsInvariant, PTL

(* No two used slots of files[] hold the same path, whatever the shell and *)
(* the editor create, write and delete, with paths from Args.              *)
THEOREM ShellFsUniquePaths == Spec => []UniquePaths
  <1>1. ShellFsInv => UniquePaths
    BY DEF ShellFsInv, TableOK, UniquePaths
  <1> QED
    BY <1>1, ShellFsInvariant, PTL

(* No directory ever holds text, although echo and em_save ignore what     *)
(* fs_write returns.                                                       *)
THEOREM ShellFsDirsHaveNoText == Spec => []DirsHaveNoText
  <1>1. ShellFsInv => DirsHaveNoText
    BY DEF ShellFsInv, TableOK, DirsHaveNoText
  <1> QED
    BY <1>1, ShellFsInvariant, PTL

(* The last CREATED, EDITED or DELETED that change_log[] still holds about *)
(* a path says whether the path is in files[].                             *)
THEOREM ShellFsAuditAgrees == Spec => []AuditAgrees
  <1>1. ShellFsInv => AuditAgrees
    BY DEF ShellFsInv
  <1> QED
    BY <1>1, ShellFsInvariant, PTL

LEMMA LoggedStep ==
    ASSUME ShellFsInv, [Next]_vars, files' # files
    PROVE  LET e == Last(change_log')
           IN  /\ change_log' # change_log \/ Len(change_log) = FS_MAX_CHANGES
               /\ e.type # "VIEW"
               /\ \A i \in Slots : files[i] # files'[i] =>
                    e.path = IF files'[i].used THEN files'[i].path
                                               ELSE files[i].path
  <1>1. PICK path, type : Changes(path, type)
    BY StepEffect DEF ShellFsInv, PathsOK, Effect, Notes
  <1>2. /\ change_log' = fs_log_change(change_log, type, path)
        /\ \/ Created(files, files', path)
           \/ Written(files, files', path)
           \/ Deleted(files, files', path)
        /\ type # "VIEW"
    BY <1>1 DEF Changes
  <1>3. Last(change_log') = Event(type, path)
    BY <1>2, LogStep DEF ShellFsInv, Last
  <1>4. change_log' # change_log \/ Len(change_log) = FS_MAX_CHANGES
    BY <1>2, LogStep DEF ShellFsInv
  <1>5. \A i \in Slots : files[i] # files'[i] =>
            path = IF files'[i].used THEN files'[i].path ELSE files[i].path
    BY <1>2, ChangesKeepOrder DEF ShellFsInv
  <1> QED
    BY <1>2, <1>3, <1>4, <1>5 DEF Event

(* A step that changes files[] appends an entry that names the path of the *)
(* slot that changed.                                                      *)
THEOREM ShellFsEveryChangeLogged == Spec => EveryChangeLogged
  BY LoggedStep, ShellFsInvariant, PTL DEF Spec, EveryChangeLogged

LEMMA KindStep ==
    ASSUME ShellFsInv, [Next]_vars,
           NEW path \in Present \cap Present'
    PROVE  /\ NodeAt(path).is_dir = NodeAt(path)'.is_dir
           /\ NodeAt(path).is_system = NodeAt(path)'.is_system
  <1>1. Exists(files, path) /\ Exists(files', path)
    BY DEF Present, Exists, Matches
  <1>2. TableOK(files) /\ TableOK(files')
    BY InvStep DEF ShellFsInv
  <1> DEFINE i == fs_find(files, path)
             j == fs_find(files', path)
  <1>3. /\ i \in Slots /\ files[i].used /\ files[i].path = path
        /\ j \in Slots /\ files'[j].used /\ files'[j].path = path
    BY <1>1, <1>2, FindIsTheSlot
  <1>4. NodeAt(path) = files[i] /\ NodeAt(path)' = files'[j]
    BY DEF NodeAt
  <1> HIDE DEF i, j
  <1>5. CASE files' = files
    BY <1>2, <1>3, <1>4, <1>5 DEF TableOK
  <1>6. ASSUME NEW q, NEW type, Changes(q, type)
        PROVE  /\ files[i].is_dir = files'[j].is_dir
               /\ files[i].is_system = files'[j].is_system
    <2>1. /\ \A k \in Slots : files[k] # files'[k] =>
                q = IF files'[k].used THEN files'[k].path ELSE files[k].path
          /\ Deleted(files, files', q) => ~Exists(files', q)
          /\ \A k \in Slots : files[k].used /\ ~files'[k].used
                => Deleted(files, files', q)
          /\ \A k \in Slots : files[k].used /\ files'[k].used =>
                /\ files'[k].path = files[k].path
                /\ files'[k].is_dir = files[k].is_dir
                /\ files'[k].is_system = files[k].is_system
      BY <1>2, <1>6, ChangesKeepOrder DEF Changes
    <2>2. files'[i].used
      BY <1>1, <1>3, <2>1
    <2>3. i = j
      BY <1>2, <1>3, <2>1, <2>2 DEF TableOK
    <2> QED
      BY <1>3, <2>1, <2>2, <2>3
  <1> QED
    BY <1>4, <1>5, <1>6, StepEffect DEF ShellFsInv, PathsOK, Effect, Notes

(* What a path is, directory or file, marked or not, stays what it is      *)
(* while the path exists.                                                  *)
THEOREM ShellFsKindStable == Spec => KindStable
  <1>1. ASSUME ShellFsInv, [Next]_vars
        PROVE  [\A path \in Present \cap Present' :
                  /\ NodeAt(path).is_dir = NodeAt(path)'.is_dir
                  /\ NodeAt(path).is_system = NodeAt(path)'.is_system]_vars
    BY <1>1, KindStep
  <1> QED
    BY <1>1, ShellFsInvariant, PTL DEF Spec, KindStable
=============================================================================
