---------------------------- MODULE ShellProofs ----------------------------
(***************************************************************************)
(* Theorems about the process table and about the shell that holds it and  *)
(* the files together, for every size of the file table, the log and the   *)
(* process table and every set of names.                                   *)
(*                                                                         *)
(* The process table fills from the front in the order of the pids, a      *)
(* process keeps its identity, and a name belongs to one process as long   *)
(* as names fit into procs[].name.  Whatever commands a line mixes, what   *)
(* is proved of files and processes apart holds of the whole; the status   *)
(* of a file command tells what it has done, and a pr command does its     *)
(* work or complains.                                                      *)
(*                                                                         *)
(* F is ShellFs as Shell sees it and FP the same module under its proofs:  *)
(* lemmas on expanded definitions identify them.                           *)
(***************************************************************************)
EXTENDS Shell, WellFoundedInduction, TLAPS

FP == INSTANCE ShellFsProofs

-----------------------------------------------------------------------------
(* The process table, as module Proc has it                                *)

StoredNames == {Stored[n] : n \in Names} \cup {"system", "shell", ""}
Entries == [used : BOOLEAN, pid : Nat, name : StoredNames,
            running : BOOLEAN, comment : {"default", "set", ""}]

(* The inductive invariant: PidsInOrder is what tells where the next free  *)
(* slot is.                                                                *)
ProcInv ==
    /\ procs \in [Slots -> Entries]
    /\ next_pid \in 2..MAX_PROCS
    /\ PidsInOrder

(* First finds a member of every non-empty set of slots.                   *)
LEMMA FirstIsMember ==
    ASSUME NEW S, S \subseteq Slots, S # {}
    PROVE  First(S) \in S /\ \A j \in S : First(S) <= j
  <1>1. S \subseteq Nat
    BY ProcAssumption DEF Slots
  <1>2. \E i \in S : \A j \in S : ~(<<j, i>> \in OpToRel(<, Nat))
    BY <1>1, WFMin, NatLessThanWellFounded
  <1>3. ASSUME NEW i \in Nat, NEW j \in Nat, j < i
        PROVE  <<j, i>> \in OpToRel(<, Nat)
    BY <1>3 DEF OpToRel
  <1>4. \E i \in S : \A j \in S : i <= j
    <2>1. PICK i \in S : \A j \in S : ~(<<j, i>> \in OpToRel(<, Nat))
      BY <1>2
    <2>2. \A j \in S : ~(j < i)
      BY <1>1, <1>3, <2>1
    <2> QED
      BY <1>1, <2>2
  <1> QED
    BY <1>4 DEF First

(* The free slots are those from next_pid on, so the first one is next_pid. *)
LEMMA FreeSlotsAreLast ==
    ASSUME ProcInv
    PROVE  /\ FreeSlots = next_pid..(MAX_PROCS - 1)
           /\ FreeSlots # {} => First(FreeSlots) = next_pid /\ next_pid \in Slots
  <1>1. FreeSlots = next_pid..(MAX_PROCS - 1)
    BY ProcAssumption DEF ProcInv, PidsInOrder, FreeSlots, Slots
  <1>2. ASSUME FreeSlots # {}
        PROVE  First(FreeSlots) = next_pid /\ next_pid \in Slots
    <2>1. FreeSlots \subseteq Slots
      BY DEF FreeSlots
    <2>2. First(FreeSlots) \in FreeSlots /\ \A j \in FreeSlots : First(FreeSlots) <= j
      BY <1>2, <2>1, FirstIsMember
    <2>3. next_pid \in FreeSlots /\ next_pid \in Nat
      BY <1>1, <1>2, ProcAssumption DEF ProcInv
    <2> QED
      BY <1>1, <2>1, <2>2, <2>3, ProcAssumption DEF Slots, ProcInv
  <1> QED
    BY <1>1, <1>2

(* What a command may do to the table: relabel a process without touching  *)
(* its identity, or add one under a name that no slot holds.               *)
Relabels ==
    \E i \in Slots, p \in Entries :
        /\ p.used = procs[i].used /\ p.pid = procs[i].pid /\ p.name = procs[i].name
        /\ procs' = [procs EXCEPT ![i] = p]
        /\ next_pid' = next_pid
Adds(name) ==
    /\ next_pid \in Slots
    /\ Named(name) = {}
    /\ procs' = [procs EXCEPT ![next_pid] = Process(next_pid, Stored[name])]
    /\ next_pid' = next_pid + 1
Keeps == UNCHANGED <<procs, next_pid>>

LEMMA CommandEffect ==
    ASSUME ProcInv, Next
    PROVE  Keeps \/ Relabels \/ \E name \in Names : Adds(name)
  <1>1. ASSUME NEW name \in Names, Named(name) # {}
        PROVE  /\ First(Named(name)) \in Slots
               /\ procs[First(Named(name))] \in Entries
    <2>1. Named(name) \subseteq Slots
      BY DEF Named
    <2> QED
      BY <1>1, <2>1, FirstIsMember DEF ProcInv
  <1>2. ASSUME NEW name \in Names, NEW b \in BOOLEAN, Named(name) # {},
               procs' = [procs EXCEPT ![First(Named(name))].running = b],
               next_pid' = next_pid
        PROVE  Relabels
    <2> DEFINE i == First(Named(name))
    <2>1. i \in Slots /\ procs[i] \in Entries
      BY <1>1, <1>2
    <2>2. procs' = [procs EXCEPT ![i] = [procs[i] EXCEPT !.running = b]]
      BY <1>2
    <2>3. [procs[i] EXCEPT !.running = b] \in Entries
      BY <2>1 DEF Entries
    <2> HIDE DEF i
    <2> QED
      BY <1>2, <2>1, <2>2, <2>3 DEF Relabels, Entries
  <1>3. ASSUME NEW name \in Names, Named(name) # {},
               procs' = [procs EXCEPT ![First(Named(name))].comment = "set"],
               next_pid' = next_pid
        PROVE  Relabels
    <2> DEFINE i == First(Named(name))
    <2>1. i \in Slots /\ procs[i] \in Entries
      BY <1>1, <1>3
    <2>2. procs' = [procs EXCEPT ![i] = [procs[i] EXCEPT !.comment = "set"]]
      BY <1>3
    <2>3. [procs[i] EXCEPT !.comment = "set"] \in Entries
      BY <2>1 DEF Entries
    <2> HIDE DEF i
    <2> QED
      BY <1>3, <2>1, <2>2, <2>3 DEF Relabels, Entries
  <1>4. ASSUME NEW name \in Names, proc_start(name)
        PROVE  Keeps \/ Relabels \/ Adds(name)
    BY <1>2, <1>4, FreeSlotsAreLast DEF proc_start, Adds, Keeps, vars
  <1>5. ASSUME NEW name \in Names, proc_kill(name)
        PROVE  Keeps \/ Relabels
    BY <1>2, <1>5 DEF proc_kill, Keeps
  <1>6. ASSUME NEW name \in Names, proc_set_comment(name)
        PROVE  Keeps \/ Relabels
    BY <1>3, <1>6 DEF proc_set_comment, Keeps
  <1> QED
    BY <1>4, <1>5, <1>6 DEF Next

(* The table proc_init leaves: two processes, in the slots of their pids.  *)
LEMMA BootTable ==
    /\ 0 \in Slots /\ 1 \in Slots
    /\ \A i \in Slots : /\ proc_init[i].used <=> i < 2
                        /\ proc_init[i].used => proc_init[i].pid = i
    /\ proc_init[0].name = "system"
    /\ proc_init[1].name = "shell"
  <1>1. 0 \in Slots /\ 1 \in Slots
    BY ProcAssumption DEF Slots
  <1>2. proc_init[0] = Process(0, "system") /\ proc_init[1] = Process(1, "shell")
    BY <1>1 DEF proc_init
  <1>3. \A i \in Slots \ {0, 1} : proc_init[i] = Unused /\ ~(i < 2)
    BY ProcAssumption DEF proc_init, Slots
  <1>4. ~Unused.used
    BY DEF Unused
  <1>5. /\ Process(0, "system").used /\ Process(0, "system").pid = 0
        /\ Process(0, "system").name = "system"
        /\ Process(1, "shell").used /\ Process(1, "shell").pid = 1
        /\ Process(1, "shell").name = "shell"
    BY DEF Process
  <1> QED
    BY <1>1, <1>2, <1>3, <1>4, <1>5

(* The invariant holds whatever is entered.                                *)
LEMMA ProcInvInductive ==
    /\ Init => ProcInv
    /\ ProcInv /\ [Next]_vars => ProcInv'
  <1>1. ASSUME Init PROVE ProcInv
    <2>1. proc_init \in [Slots -> Entries]
      BY DEF proc_init, Entries, Process, Unused, StoredNames
    <2>2. PidsInOrder
      BY <1>1, BootTable DEF Init, PidsInOrder
    <2> QED
      BY <1>1, <2>1, <2>2, ProcAssumption DEF Init, ProcInv
  <1>2. ASSUME ProcInv, [Next]_vars PROVE ProcInv'
    <2>1. CASE Next
      <3>1. CASE Keeps
        BY <1>2, <3>1 DEF Keeps, ProcInv, PidsInOrder
      <3>2. CASE Relabels
        BY <1>2, <3>2 DEF Relabels, ProcInv, PidsInOrder
      <3>3. ASSUME NEW name \in Names, Adds(name)
            PROVE  ProcInv'
        <4>1. Process(next_pid, Stored[name]) \in Entries
          <5>1. next_pid \in Nat
            BY <1>2, ProcAssumption DEF ProcInv
          <5>2. Stored[name] \in StoredNames
            BY DEF StoredNames
          <5> QED
            BY <5>1, <5>2 DEF Process, Entries
        <4>2. next_pid' \in 2..MAX_PROCS
          BY <1>2, <3>3, ProcAssumption DEF Adds, ProcInv, Slots
        <4>3. PidsInOrder'
          BY <1>2, <3>3, ProcAssumption
          DEF Adds, ProcInv, PidsInOrder, Process, Slots
        <4> QED
          BY <1>2, <3>3, <4>1, <4>2, <4>3 DEF Adds, ProcInv
      <3> QED
        BY <1>2, <2>1, <3>1, <3>2, <3>3, CommandEffect
    <2>2. CASE UNCHANGED vars
      BY <1>2, <2>2 DEF vars, ProcInv, PidsInOrder
    <2> QED
      BY <1>2, <2>1, <2>2
  <1> QED
    BY <1>1, <1>2

(* Type correctness: the counter never passes the size of the table, so    *)
(* pids stay below it whatever is started and killed.                      *)
THEOREM ProcTypeCorrect == Spec => []TypeOK
  <1>1. ProcInv => TypeOK
    BY DEF ProcInv, TypeOK, Entries
  <1> QED
    BY <1>1, ProcInvInductive, PTL DEF Spec

(* Every pid given out belongs to exactly one slot, and slots are taken in *)
(* that order: proc_start's search for a free slot finds the one whose     *)
(* index is next_pid.                                                      *)
THEOREM ProcPidsInOrder == Spec => []PidsInOrder
  <1>1. ProcInv => PidsInOrder
    BY DEF ProcInv
  <1> QED
    BY <1>1, ProcInvInductive, PTL DEF Spec

(* A process keeps its pid and its name through kill, start and comment.   *)
THEOREM ProcIdentity == Spec => IdentityStable
  <1>1. ASSUME ProcInv, [Next]_vars, NEW i \in Slots, procs[i].used
        PROVE  /\ procs'[i].used
               /\ procs'[i].pid = procs[i].pid
               /\ procs'[i].name = procs[i].name
    <2>1. CASE UNCHANGED procs
      BY <1>1, <2>1
    <2>2. CASE Next
      <3>1. CASE Relabels
        BY <1>1, <3>1 DEF Relabels, ProcInv
      <3>2. ASSUME NEW name \in Names, Adds(name)
            PROVE  procs'[i] = procs[i]
        BY <1>1, <3>2, ProcAssumption DEF Adds, ProcInv, PidsInOrder, Slots
      <3> QED
        BY <1>1, <2>1, <2>2, <3>1, <3>2, CommandEffect DEF Keeps
    <2> QED
      BY <1>1, <2>1, <2>2 DEF vars
  <1>2. ProcInv /\ [Next]_vars =>
          [\A i \in Slots : procs[i].used =>
             /\ procs'[i].used
             /\ procs'[i].pid = procs[i].pid
             /\ procs'[i].name = procs[i].name]_vars
    BY <1>1
  <1> QED
    BY <1>2, ProcInvInductive, PTL DEF Spec, IdentityStable

-----------------------------------------------------------------------------
(* What procs[].name has to hold for the theorem on names: no name typed   *)
(* is cut when it is stored.                                               *)
NamesFit == \A n \in Names : Stored[n] = n

(* While names fit, no two processes have the same name: pr start of a     *)
(* name that exists resumes it, running or not.                            *)
THEOREM ProcUniqueNames == ASSUME NamesFit PROVE Spec => []UniqueNames
  <1>1. ASSUME Init PROVE UniqueNames
    <2>1. \A i \in Slots : procs[i].used => i \in {0, 1}
      BY <1>1, BootTable, ProcAssumption DEF Init, Slots
    <2>2. procs[0].name = "system" /\ procs[1].name = "shell"
      BY <1>1, BootTable DEF Init
    <2> QED
      BY <2>1, <2>2 DEF UniqueNames
  <1>2. ASSUME ProcInv, UniqueNames, [Next]_vars
        PROVE  UniqueNames'
    <2>1. CASE UNCHANGED procs
      BY <1>2, <2>1 DEF UniqueNames
    <2>2. CASE Next
      <3>1. CASE Relabels
        BY <1>2, <3>1 DEF Relabels, ProcInv, UniqueNames
      <3>2. ASSUME NEW name \in Names, Adds(name)
            PROVE  UniqueNames'
        <4>1. procs' = [procs EXCEPT ![next_pid] = Process(next_pid, name)]
          BY <3>2 DEF Adds, NamesFit
        <4>2. \A i \in Slots : procs[i].used => procs[i].name # name
          BY <3>2 DEF Adds, Named
        <4>3. /\ procs'[next_pid].name = name
              /\ \A i \in Slots \ {next_pid} : procs'[i] = procs[i]
          BY <1>2, <3>2, <4>1 DEF Adds, ProcInv, Process
        <4> QED
          BY <1>2, <3>2, <4>2, <4>3 DEF UniqueNames, Adds
      <3> QED
        BY <1>2, <2>1, <2>2, <3>1, <3>2, CommandEffect DEF Keeps
    <2> QED
      BY <1>2, <2>1, <2>2 DEF vars
  <1> QED
    BY <1>1, <1>2, ProcInvInductive, PTL DEF Spec
-----------------------------------------------------------------------------
(* The shell as a composition                                              *)

(* What the command of a line carries.                                     *)
LEMMA CommandKinds ==
    ASSUME NEW c \in Commands
    PROVE  /\ c.cmd \in {"cd", "makedir", "touch", "rm", "cat", "lsf", "em", "echo"}
                => c.arg \in Args
           /\ c.cmd = "echo" => c.text \in Texts
           /\ c.cmd \in {"start", "kill", "-c"} => c.name \in Names
  BY DEF Commands, StatusCommands, FileCommands, PrCommands

(* A command leaves the processes alone or makes one call of Proc.         *)
LEMMA PrStep ==
    ASSUME NEW c \in Commands, execute_command(c)
    PROVE  [Next]_vars
  <1>1. CASE RunFile(c)
    BY <1>1 DEF RunFile
  <1>2. CASE RunPr(c)
    BY <1>2, CommandKinds DEF RunPr, Next
  <1> QED
    BY <1>1, <1>2 DEF execute_command

(* Whatever a line mixes, the process table only changes as Proc says.     *)
LEMMA ShellImplementsProc == ShellSpec => Spec
  <1>1. ShellInit => Init
    BY DEF ShellInit
  <1>2. ASSUME [ShellNext]_shellvars
        PROVE  [Next]_vars
    <2>1. CASE EnterLine \/ Editor \/ UNCHANGED shellvars
      BY <2>1 DEF EnterLine, Editor, shellvars
    <2>2. CASE handle_line
      BY <2>2, PrStep DEF handle_line
    <2> QED
      BY <1>2, <2>1, <2>2 DEF ShellNext
  <1> QED
    BY <1>1, <1>2, PTL DEF ShellSpec, Spec

(* A command run at the prompt leaves files, log and directory alone or is *)
(* one file command of ShellFs.                                            *)
LEMMA FileStep ==
    ASSUME NEW c \in Commands, execute_command(c), ~em.open
    PROVE  [F!Next]_(F!vars)
  <1>1. CASE UNCHANGED fsvars
    BY <1>1 DEF fsvars, F!vars
  <1>2. CASE RunFile(c) /\ c.cmd = "home"
    BY <1>2 DEF RunFile, F!Next, F!Shell
  <1>3. CASE RunFile(c) /\ c.cmd # "home"
    <2>1. F!Command(Target(c))
      BY <1>3, CommandKinds DEF RunFile, F!Command
    <2>2. c.arg \in Args
      BY <1>3, CommandKinds DEF RunFile
    <2> QED
      BY <2>1, <2>2 DEF F!Next, F!Shell, Target
  <1> QED
    BY <1>1, <1>2, <1>3 DEF execute_command, RunPr

(* Whatever a line mixes, files, log and directory only change as ShellFs  *)
(* says, and no command runs while an editor session is open.              *)
LEMMA ShellImplementsFiles == ShellSpec => F!Spec
  <1>1. ShellInit => F!Init
    BY DEF ShellInit
  <1>2. ASSUME [ShellNext]_shellvars
        PROVE  [F!Next]_(F!vars)
    <2>1. CASE EnterLine \/ UNCHANGED shellvars
      BY <2>1 DEF EnterLine, shellvars, fsvars, F!vars
    <2>2. CASE Editor
      BY <2>2 DEF Editor, F!Next
    <2>3. CASE handle_line
      BY <2>3, FileStep DEF handle_line, Runs
    <2> QED
      BY <1>2, <2>1, <2>2, <2>3 DEF ShellNext
  <1> QED
    BY <1>1, <1>2, PTL DEF ShellSpec, F!Spec

-----------------------------------------------------------------------------
(* F and FP are the same file system.                                      *)
LEMMA SameTable ==
    /\ \A f, p : F!Exists(f, p) <=> FP!Exists(f, p)
    /\ \A f, p : F!fs_is_dir(f, p) <=> FP!fs_is_dir(f, p)
    /\ \A f, p : F!IsFile(f, p) <=> FP!IsFile(f, p)
    /\ \A f, p : F!CanCreate(f, p) <=> FP!CanCreate(f, p)
    /\ \A f, p : F!CanMkdir(f, p) <=> FP!CanMkdir(f, p)
    /\ \A f, p : F!fs_create(f, p) = FP!fs_create(f, p)
    /\ \A f, p : F!fs_mkdir(f, p) = FP!fs_mkdir(f, p)
    /\ \A f, p, t : F!fs_write(f, p, t) = FP!fs_write(f, p, t)
    /\ \A f, p : F!fs_delete(f, p) = FP!fs_delete(f, p)
    /\ \A p : F!Opened(p) = FP!Opened(p)
    /\ \A f, p : F!fs_is_system(f, p) <=> FP!fs_is_system(f, p)
    /\ \A f, p : F!fs_find(f, p) = FP!fs_find(f, p)
    /\ \A t : F!Clamp(t) = FP!Clamp(t)
    /\ F!Slots = FP!Slots
  BY DEF F!Slots, F!Root, F!Unused, F!First, F!FreeSlots, F!Matches, F!Exists,
         F!fs_find, F!fs_find_slot, F!fs_is_dir, F!fs_is_system, F!IsFile,
         F!SystemPath, F!Node, F!CanCreate, F!CanMkdir, F!fs_create,
         F!fs_mkdir, F!Clamp, F!fs_write, F!fs_delete, F!Opened,
         FP!Slots, FP!Root, FP!Unused, FP!First, FP!FreeSlots, FP!Matches,
         FP!Exists, FP!fs_find, FP!fs_find_slot, FP!fs_is_dir,
         FP!fs_is_system, FP!IsFile, FP!SystemPath, FP!Node, FP!CanCreate,
         FP!CanMkdir, FP!fs_create, FP!fs_mkdir, FP!Clamp, FP!fs_write,
         FP!fs_delete, FP!Opened

LEMMA SameFold ==
    /\ \A w, a : F!fs_resolve_path(w, a) = FP!fs_resolve_path(w, a)
    /\ F!fs_init(InitTree) = FP!fs_init(InitTree)
  <1>1. \A w, a : F!fs_resolve_path(w, a) = FP!fs_resolve_path(w, a)
    BY DEF F!fs_resolve_path, F!Joined, F!Join, F!Root, F!Pushed, F!Push, F!Temp,
           F!Write, F!TempMax, F!Full, F!PathLength, F!Dot, F!DotDot, F!Comp,
           F!Cut, F!Front,
           FP!fs_resolve_path, FP!Joined, FP!Join, FP!Root, FP!Pushed, FP!Push,
           FP!Temp, FP!Write, FP!TempMax, FP!Full, FP!PathLength, FP!Dot,
           FP!DotDot, FP!Comp, FP!Cut, FP!Front
  <1>2. F!fs_init(InitTree) = FP!fs_init(InitTree)
    BY DEF F!fs_init, F!BootStep, F!Slots, F!Root,
           F!Unused, F!First, F!FreeSlots, F!Matches, F!Exists, F!fs_find,
           F!fs_find_slot, F!IsFile, F!SystemPath, F!Node, F!CanCreate,
           F!CanMkdir, F!fs_create, F!fs_mkdir, F!Clamp, F!fs_write,
           FP!fs_init, FP!BootStep, FP!Slots,
           FP!Root, FP!Unused, FP!First, FP!FreeSlots, FP!Matches, FP!Exists,
           FP!fs_find, FP!fs_find_slot, FP!IsFile, FP!SystemPath, FP!Node,
           FP!CanCreate, FP!CanMkdir, FP!fs_create, FP!fs_mkdir, FP!Clamp,
           FP!fs_write
  <1> QED
    BY <1>1, <1>2

LEMMA SameNext == [F!Next]_(F!vars) => [FP!Next]_(FP!vars)
  <1>1. ASSUME NEW type, NEW p
        PROVE  F!Log(type, p) <=> FP!Log(type, p)
    BY DEF F!Log, F!fs_log_change, F!Event, FP!Log, FP!fs_log_change, FP!Event
  <1>2. ASSUME NEW p, F!Command(p)
        PROVE  FP!Command(p)
    <2>1. F!cmd_cd(p) => FP!cmd_cd(p)
      BY SameTable DEF F!cmd_cd, FP!cmd_cd
    <2>2. F!cmd_makedir(p) => FP!cmd_makedir(p)
      BY <1>1, SameTable DEF F!cmd_makedir, FP!cmd_makedir
    <2>3. F!cmd_touch(p) => FP!cmd_touch(p)
      BY <1>1, SameTable DEF F!cmd_touch, FP!cmd_touch
    <2>4. F!cmd_rm(p) => FP!cmd_rm(p)
      BY <1>1, SameTable DEF F!cmd_rm, FP!cmd_rm
    <2>5. F!cmd_view(p) => FP!cmd_view(p)
      BY <1>1, SameTable DEF F!cmd_view, FP!cmd_view
    <2>6. \A t : F!EchoRedirect(p, t) => FP!EchoRedirect(p, t)
      BY <1>1, SameTable DEF F!EchoRedirect, FP!EchoRedirect
    <2>7. \A ok : F!em_run(p, ok) => FP!em_run(p, ok)
      <3>1. F!fs_is_system(files, p) = FP!fs_is_system(files, p)
        BY DEF F!Root, F!Slots, F!First, F!Matches, F!Exists, F!fs_find,
               F!SystemPath, F!fs_is_system,
               FP!Root, FP!Slots, FP!First, FP!Matches, FP!Exists, FP!fs_find,
               FP!SystemPath, FP!fs_is_system
      <3> QED
        BY <1>1, <3>1 DEF F!em_run, FP!em_run
    <2> QED
      BY <1>2, <2>1, <2>2, <2>3, <2>4, <2>5, <2>6, <2>7
      DEF F!Command, FP!Command
  <1>3. ASSUME F!Editor
        PROVE  FP!Editor
    <2>1. \A t : F!em_save(t) => FP!em_save(t)
      BY <1>1, SameTable DEF F!em_save, FP!em_save
    <2>2. F!em_quit => FP!em_quit
      BY DEF F!em_quit, F!NoSession, F!Root, FP!em_quit, FP!NoSession, FP!Root
    <2> QED
      BY <1>3, <2>1, <2>2 DEF F!Editor, FP!Editor
  <1>4. ASSUME F!Shell
        PROVE  FP!Shell
    <2>1. F!cmd_cd_home => FP!cmd_cd_home
      BY DEF F!cmd_cd_home, FP!cmd_cd_home
    <2>2. ASSUME NEW a \in Args, F!Command(F!fs_resolve_path(shell_cwd, a))
          PROVE  FP!Command(FP!fs_resolve_path(shell_cwd, a))
      BY <1>2, <2>2, SameFold
    <2> QED
      BY <1>4, <2>1, <2>2 DEF F!Shell, FP!Shell
  <1> QED
    BY <1>3, <1>4 DEF F!Next, F!vars, FP!Next, FP!vars

LEMMA SameFiles == F!Spec => FP!Spec
  <1>1. F!Init => FP!Init
    BY SameFold DEF F!Init, F!NoSession, F!Root, FP!Init, FP!NoSession, FP!Root
  <1> QED
    BY <1>1, SameNext, PTL DEF F!Spec, FP!Spec

-----------------------------------------------------------------------------
(* What is proved of the two parts holds of the whole.                     *)
LEMMA SameCanonical ==
    /\ F!Component = FP!Component
    /\ \A p : F!IsCanonical(p) <=> FP!IsCanonical(p)
  <1>1. /\ F!Component = FP!Component
        /\ F!Dot = FP!Dot /\ F!DotDot = FP!DotDot
    BY DEF F!Component, F!Dot, F!DotDot, F!Comp,
           FP!Component, FP!Dot, FP!DotDot, FP!Comp
  <1>2. \A p : F!PathLength(p) = FP!PathLength(p)
    BY DEF F!PathLength, FP!PathLength
  <1> QED
    BY <1>1, <1>2 DEF F!IsCanonical, FP!IsCanonical

LEMMA SameAssumptions ==
    FP!FsPathAssumption /\ FP!FsAssumption /\ FP!ShellFsAssumption
  <1>1. FP!FsPathAssumption /\ FP!FsAssumption
    BY ShellAssumption DEF F!FsPathAssumption, F!FsAssumption,
                           FP!FsPathAssumption, FP!FsAssumption
  <1>2. FP!ShellFsAssumption
    BY ShellAssumption, SameCanonical DEF F!ShellFsAssumption, FP!ShellFsAssumption
  <1> QED
    BY <1>1, <1>2

LEMMA ShellInvariant == ShellSpec => [](FP!ShellFsInv /\ ProcInv)
  <1>1. FP!FsPathAssumption /\ FP!FsAssumption /\ FP!ShellFsAssumption
    BY SameAssumptions
  <1>2. FP!Spec => []FP!ShellFsInv
    BY <1>1, FP!ShellFsInvariant
  <1>3. ShellSpec => FP!Spec
    BY ShellImplementsFiles, SameFiles
  <1>4. ShellSpec => []ProcInv
    BY ShellImplementsProc, ProcInvInductive, PTL DEF Spec
  <1> QED
    BY <1>2, <1>3, <1>4, PTL

(* A line of any length, mixing file commands, editor sessions and pr,     *)
(* keeps paths canonical and unique, directories without text and the      *)
(* audit log true, and pids in the order of the slots.                     *)
THEOREM ShellKeepsOrder ==
    ShellSpec => [](/\ FP!TypeOK /\ FP!UniquePaths /\ FP!DirsHaveNoText
                    /\ FP!AuditAgrees /\ PidsInOrder)
  <1>1. FP!ShellFsInv => /\ FP!TypeOK /\ FP!UniquePaths /\ FP!DirsHaveNoText
                         /\ FP!AuditAgrees
    BY DEF FP!ShellFsInv, FP!TableOK, FP!IsNode, FP!Fits, FP!LogOK, FP!PathsOK,
           FP!PathsCanonical, FP!TypeOK, FP!UniquePaths, FP!DirsHaveNoText
  <1>2. ProcInv => PidsInOrder
    BY DEF ProcInv
  <1> QED
    BY <1>1, <1>2, ShellInvariant, PTL

-----------------------------------------------------------------------------
(* A command that returns an error has changed nothing.                    *)
LEMMA ErrorChangesNothing ==
    ASSUME NEW c \in Commands, execute_command(c), Fails(c)
    PROVE  UNCHANGED <<fsvars, vars>>
  <1>1. CASE c.cmd \in {"lsf", "other"} /\ UNCHANGED <<fsvars, vars>>
    BY <1>1
  <1>2. CASE RunPr(c)
    BY <1>2 DEF RunPr, Fails
  <1>3. CASE RunFile(c)
    <2> DEFINE p == Target(c)
    <2>1. CASE c.cmd = "cd" /\ F!cmd_cd(p) /\ ~F!fs_is_dir(files, p)
      BY <1>3, <2>1 DEF RunFile, F!cmd_cd, fsvars
    <2>2. CASE c.cmd = "makedir" /\ F!cmd_makedir(p) /\ ~F!CanMkdir(files, p)
      BY <1>3, <2>2 DEF RunFile, F!cmd_makedir, F!fs_mkdir, fsvars
    <2>3. CASE c.cmd = "touch" /\ F!cmd_touch(p) /\ ~Taken(c) /\ ~F!CanCreate(files, p)
      BY <1>3, <2>3
      DEF RunFile, F!cmd_touch, F!Opened, F!fs_create, Taken, fsvars
    <2>4. CASE /\ c.cmd = "echo" /\ F!EchoRedirect(p, c.text)
               /\ ~Taken(c) /\ ~F!CanCreate(files, p)
      BY <1>3, <2>4
      DEF RunFile, F!EchoRedirect, F!Opened, F!fs_create, F!fs_write, F!IsFile,
          Taken, fsvars
    <2>5. CASE c.cmd = "rm" /\ F!cmd_rm(p) /\ ~Taken(c)
      BY <1>3, <2>5 DEF RunFile, F!cmd_rm, F!fs_delete, Taken, fsvars
    <2>6. CASE c.cmd = "cat" /\ F!cmd_view(p) /\ ~F!IsFile(files, p)
      BY <1>3, <2>6 DEF RunFile, F!cmd_view, fsvars
    <2> QED
      BY <1>3, <2>1, <2>2, <2>3, <2>4, <2>5, <2>6 DEF RunFile, Fails
  <1> QED
    BY <1>1, <1>2, <1>3 DEF execute_command

(* A change of the table that is a creation, a write or a deletion of a    *)
(* path touches no other one.                                              *)
LEMMA ChangeOnlyAt ==
    ASSUME NEW p, FP!TableOK(files),
           \/ FP!Created(files, files', p) \/ FP!Deleted(files, files', p)
           \/ files' = files
    PROVE  OnlyAt(p)
  <1>1. FP!FsPathAssumption /\ FP!FsAssumption /\ FP!ShellFsAssumption
    BY SameAssumptions
  <1>2. \A i \in FP!Slots : files[i] # files'[i] =>
            p = IF files'[i].used THEN files'[i].path ELSE files[i].path
    BY <1>1, FP!ChangesKeepOrder
  <1> QED
    BY <1>2, SameTable DEF OnlyAt

(* A file command without an error has done what it is for: the table is   *)
(* in order, so that the node made or removed is the only one of its path. *)
LEMMA FileCommandDone ==
    ASSUME NEW c \in StatusCommands, FP!TableOK(files), ~em.open,
           execute_command(c), ~Fails(c)
    PROVE  Done(c)
  <1> DEFINE p == Target(c)
  <1>0. FP!FsPathAssumption /\ FP!FsAssumption /\ FP!ShellFsAssumption
    BY SameAssumptions
  <1>a. c.cmd \in {"home", "cd", "makedir", "touch", "rm", "cat", "lsf", "em", "echo"}
    BY DEF StatusCommands, FileCommands
  <1>b. c.cmd # "lsf" => RunFile(c)
    BY <1>a DEF execute_command, RunPr
  <1>1. CASE c.cmd = "home"
    BY <1>b, <1>1 DEF RunFile, F!cmd_cd_home, Done
  <1>2. CASE c.cmd = "cd"
    BY <1>b, <1>2 DEF RunFile, F!cmd_cd, Fails, Done
  <1>3. CASE c.cmd = "makedir"
    <2>1. F!CanMkdir(files, p) /\ files' = F!fs_mkdir(files, p)
      BY <1>b, <1>3 DEF RunFile, F!cmd_makedir, Fails
    <2>2. FP!CanMkdir(files, p) /\ files' = FP!fs_mkdir(files, p)
      BY <2>1, SameTable
    <2>3. FP!fs_is_dir(files', p)
      BY <1>0, <2>2, FP!MkdirMakesDir
    <2>4. FP!Created(files, files', p)
      BY <1>0, <2>2, FP!MkdirCreates
    <2>5. OnlyAt(p)
      BY <2>4, ChangeOnlyAt
    <2>6. F!fs_is_dir(files', p) /\ ~Taken(c)
      BY <2>1, <2>3, SameTable DEF F!CanMkdir, F!CanCreate, Taken
    <2> QED
      BY <1>3, <2>5, <2>6 DEF Done
  <1>4. CASE c.cmd = "touch"
    <2>1. F!Exists(files, p) \/ F!CanCreate(files, p)
      BY <1>4 DEF Fails, Taken
    <2>2. CASE F!Exists(files, p)
      <3>1. files' = files
        BY <1>b, <1>4, <2>2 DEF RunFile, F!cmd_touch, F!Opened
      <3>2. OnlyAt(p)
        BY <3>1, ChangeOnlyAt
      <3> QED
        BY <1>4, <2>2, <3>1, <3>2 DEF Done
    <2>3. CASE ~F!Exists(files, p) /\ F!CanCreate(files, p)
      <3>1. FP!CanCreate(files, p) /\ files' = FP!fs_create(files, p)
        BY <1>b, <1>4, <2>3, SameTable DEF RunFile, F!cmd_touch, F!Opened
      <3>2. FP!Created(files, files', p)
        BY <1>0, <3>1, FP!CreateCreates
      <3>3. FP!Exists(files', p)
        BY <1>0, <3>2, FP!ChangesKeepOrder
      <3>4. OnlyAt(p)
        BY <3>2, ChangeOnlyAt
      <3> QED
        BY <1>4, <2>3, <3>3, <3>4, SameTable DEF Done, Taken
    <2> QED
      BY <2>1, <2>2, <2>3
  <1>5. CASE c.cmd = "echo"
    <2>1. FP!Exists(files, p) \/ FP!CanCreate(files, p)
      BY <1>5, SameTable DEF Fails, Taken
    <2>2. files' = FP!fs_write(IF FP!Exists(files, p) THEN files
                               ELSE FP!fs_create(files, p), p, c.text)
      BY <1>b, <1>5, SameTable DEF RunFile, F!EchoRedirect, F!Opened
    <2>3. Len(c.text) \in Nat
      BY <1>5, CommandKinds, SameAssumptions
      DEF FP!ShellFsAssumption, Commands
    <2>4. /\ IF FP!Exists(files, p) /\ ~FP!IsFile(files, p) THEN files' = files
             ELSE /\ FP!IsFile(files', p)
                  /\ files'[FP!fs_find(files', p)].data = FP!Clamp(c.text)
          /\ \A i \in FP!Slots : files'[i] # files[i] =>
               p = IF files'[i].used THEN files'[i].path ELSE files[i].path
      <3> DEFINE t == c.text
                 g == FP!fs_write(IF FP!Exists(files, p) THEN files
                                  ELSE FP!fs_create(files, p), p, t)
      <3> HIDE DEF p, t
      <3>1. /\ IF FP!Exists(files, p) /\ ~FP!IsFile(files, p) THEN g = files
               ELSE /\ FP!IsFile(g, p)
                    /\ g[FP!fs_find(g, p)].data = FP!Clamp(t)
            /\ \A i \in FP!Slots : g[i] # files[i] =>
                 p = IF g[i].used THEN g[i].path ELSE files[i].path
        <4>1. Len(t) \in Nat
          BY <2>3 DEF t
        <4> QED
          BY <1>0, <2>1, <4>1, FP!EchoLeavesIt
      <3>2. files' = g
        BY <2>2 DEF t
      <3> HIDE DEF g
      <3> QED
        BY <3>1, <3>2 DEF t
    <2>5. OnlyAt(p) /\ Echoed(p, c.text)
      BY <2>4, SameTable DEF OnlyAt, Echoed
    <2> QED
      BY <1>5, <2>5 DEF Done
  <1>6. CASE c.cmd = "rm"
    <2>1. F!Exists(files, p) /\ files' = F!fs_delete(files, p)
      BY <1>b, <1>6 DEF RunFile, F!cmd_rm, Fails, Taken
    <2>2. FP!Exists(files, p) /\ files' = FP!fs_delete(files, p)
      BY <2>1, SameTable
    <2>3. FP!Deleted(files, files', p)
      BY <1>0, <2>2, FP!DeleteDeletes
    <2>4. ~FP!Exists(files', p)
      BY <1>0, <2>3, FP!ChangesKeepOrder
    <2>5. OnlyAt(p)
      BY <2>3, ChangeOnlyAt
    <2> QED
      BY <1>6, <2>1, <2>4, <2>5, SameTable DEF Done, Taken
  <1>7. CASE c.cmd = "cat"
    BY <1>b, <1>7 DEF RunFile, F!cmd_view, Fails, Done
  <1>8. CASE c.cmd = "lsf"
    <2>1. UNCHANGED <<fsvars, vars>>
      BY <1>8 DEF execute_command, RunFile, RunPr
    <2>2. F!fs_is_dir(files, p) /\ files' = files
      BY <1>8, <2>1 DEF Fails, fsvars
    <2> QED
      BY <1>8, <2>2 DEF Done
  <1>9. CASE c.cmd = "em"
    <2>1. PICK ok \in BOOLEAN : F!em_run(p, ok)
      BY <1>b, <1>9 DEF RunFile
    <2>2. /\ files' = files
          /\ \/ em'.open /\ em'.path = p
             \/ F!fs_is_system(files, p) /\ UNCHANGED fsvars
      BY <2>1 DEF F!em_run, fsvars
    <2> QED
      BY <1>9, <2>2 DEF Done
  <1> QED
    BY <1>a, <1>1, <1>2, <1>3, <1>4, <1>5, <1>6, <1>7, <1>8, <1>9

(* A pr command leaves what it is for, or complains and changes nothing.   *)
LEMMA PrEffect ==
    ASSUME NEW c \in PrCommands, NamesFit, ProcInv, UniqueNames, RunPr(c)
    PROVE  IF PrComplains(c) THEN UNCHANGED <<fsvars, vars>>
                             ELSE UNCHANGED fsvars /\ PrDone(c)
  <1> DEFINE n == c.name
             i == First(Named(n))
  <1>0. c.cmd \in {"start", "kill", "-c"} /\ n \in Names /\ UNCHANGED fsvars
    BY DEF PrCommands, RunPr
  <1>1. ASSUME Named(n) # {}
        PROVE  i \in Slots /\ procs[i].used /\ procs[i].name = n
    <2>1. Named(n) \subseteq Slots
      BY DEF Named
    <2>2. i \in Named(n)
      BY <1>1, <2>1, FirstIsMember
    <2> QED
      BY <2>2 DEF Named
  <1>2. CASE c.cmd = "start"
    <2>1. CASE Named(n) # {}
      <3>1. procs' = [procs EXCEPT ![i].running = TRUE]
        BY <1>2, <2>1 DEF RunPr, proc_start
      <3>2. procs'[i].used /\ procs'[i].name = n /\ procs'[i].running
        BY <1>1, <2>1, <3>1 DEF ProcInv, Entries
      <3> QED
        BY <1>0, <1>1, <1>2, <2>1, <3>2 DEF PrComplains, StartFails, PrDone
    <2>2. CASE Named(n) = {} /\ FreeSlots # {}
      <3>1. First(FreeSlots) = next_pid /\ next_pid \in Slots
        BY <2>2, FreeSlotsAreLast
      <3>2. procs' = [procs EXCEPT ![next_pid] = Process(next_pid, n)]
        BY <1>0, <1>2, <2>2, <3>1 DEF RunPr, proc_start, NamesFit
      <3>3. /\ procs'[next_pid].used /\ procs'[next_pid].name = n
            /\ procs'[next_pid].running
        BY <3>1, <3>2 DEF ProcInv, Process
      <3> QED
        BY <1>0, <1>2, <2>2, <3>1, <3>3 DEF PrComplains, StartFails, PrDone
    <2>3. CASE Named(n) = {} /\ FreeSlots = {}
      BY <1>0, <1>2, <2>3 DEF RunPr, proc_start, PrComplains, StartFails
    <2> QED
      BY <2>1, <2>2, <2>3
  <1>3. CASE c.cmd = "kill" /\ ~KillFails(n)
    <2>1. Named(n) # {} /\ n # "system"
      BY <1>3 DEF KillFails
    <2>2. procs' = [procs EXCEPT ![i].running = FALSE]
      BY <1>3, <2>1 DEF RunPr, proc_kill
    <2>3. ASSUME NEW j \in Slots, procs'[j].used, procs'[j].name = n
          PROVE  ~procs'[j].running
      <3>1. procs[j].used /\ procs[j].name = n
        BY <2>2, <2>3 DEF ProcInv, Entries
      <3>2. j = i
        BY <1>1, <2>1, <3>1 DEF UniqueNames
      <3> QED
        BY <1>1, <2>1, <2>2, <3>2 DEF ProcInv, Entries
    <2>4. procs'[i].used /\ procs'[i].name = n
      BY <1>1, <2>1, <2>2 DEF ProcInv, Entries
    <2> QED
      BY <1>0, <1>1, <1>3, <2>1, <2>3, <2>4 DEF PrComplains, PrDone
  <1>4. CASE c.cmd = "kill" /\ KillFails(n)
    <2>1. procs' = procs /\ next_pid' = next_pid
      BY <1>4 DEF RunPr, proc_kill, KillFails
    <2> QED
      BY <1>0, <1>4, <2>1 DEF PrComplains, vars
  <1>5. CASE c.cmd = "-c" /\ ~CommentFails(n)
    <2>1. Named(n) # {}
      BY <1>5 DEF CommentFails
    <2>2. procs' = [procs EXCEPT ![i].comment = "set"]
      BY <1>5, <2>1 DEF RunPr, proc_set_comment
    <2>3. procs'[i].used /\ procs'[i].name = n /\ procs'[i].comment = "set"
      BY <1>1, <2>1, <2>2 DEF ProcInv, Entries
    <2> QED
      BY <1>0, <1>1, <1>5, <2>1, <2>3 DEF PrComplains, PrDone
  <1>6. CASE c.cmd = "-c" /\ CommentFails(n)
    <2>1. procs' = procs /\ next_pid' = next_pid
      BY <1>6 DEF RunPr, proc_set_comment, CommentFails
    <2> QED
      BY <1>0, <1>6, <2>1 DEF PrComplains, vars
  <1> QED
    BY <1>0, <1>2, <1>3, <1>4, <1>5, <1>6

(* The step in which a command runs.                                       *)
LEMMA CommandRuns ==
    ASSUME ShellNext, NEW c \in Commands, Runs(c)
    PROVE  execute_command(c)
  <1>1. c # Prompt
    BY DEF Commands, StatusCommands, FileCommands, PrCommands, Prompt
  <1> QED
    BY <1>1 DEF ShellNext, EnterLine, Editor, F!Editor, handle_line, Runs

(* The status on which && relies tells what has become of the system: a    *)
(* file command that fails leaves files, log, directory, session and       *)
(* processes as they were, and one that does not has done what it is for   *)
(* to the path it names and touched no other.  echo returns no error when  *)
(* its target is a directory, which it leaves as it is.                    *)
THEOREM ShellStatusTellsEffect == ShellSpec => StatusTellsEffect
  <1> DEFINE Told == \A c \in StatusCommands :
                       Runs(c) => IF Fails(c) THEN UNCHANGED <<fsvars, vars>>
                                              ELSE Done(c)
  <1>1. ASSUME FP!ShellFsInv, ShellNext, NEW c \in StatusCommands, Runs(c)
        PROVE  IF Fails(c) THEN UNCHANGED <<fsvars, vars>> ELSE Done(c)
    <2>1. c \in Commands
      BY DEF Commands
    <2>2. execute_command(c)
      BY <1>1, <2>1, CommandRuns
    <2>3. CASE Fails(c)
      BY <2>1, <2>2, <2>3, ErrorChangesNothing
    <2>4. CASE ~Fails(c)
      BY <1>1, <2>2, <2>4, FileCommandDone DEF FP!ShellFsInv, Runs
    <2> QED
      BY <2>3, <2>4
  <1>2. FP!ShellFsInv /\ [ShellNext]_shellvars => [Told]_shellvars
    BY <1>1
  <1> QED
    BY <1>2, ShellInvariant, PTL DEF ShellSpec, StatusTellsEffect

(* While names fit into procs[].name, a pr command of a line either        *)
(* complains and changes nothing, or leaves the process it names running,  *)
(* stopped or commented, in a slot of its own.                             *)
THEOREM ShellPrDoesOrComplains ==
    ASSUME NamesFit
    PROVE  ShellSpec => PrDoesOrComplains
  <1> DEFINE Told == \A c \in PrCommands :
                       Runs(c) => IF PrComplains(c) THEN UNCHANGED <<fsvars, vars>>
                                  ELSE UNCHANGED fsvars /\ PrDone(c)
  <1>1. ASSUME ProcInv, UniqueNames, ShellNext, NEW c \in PrCommands, Runs(c)
        PROVE  IF PrComplains(c) THEN UNCHANGED <<fsvars, vars>>
               ELSE UNCHANGED fsvars /\ PrDone(c)
    <2>1. execute_command(c)
      BY <1>1, CommandRuns DEF Commands
    <2>2. RunPr(c)
      BY <2>1 DEF execute_command, RunFile, PrCommands
    <2> QED
      BY <1>1, <2>2, PrEffect
  <1>2. ProcInv /\ UniqueNames /\ [ShellNext]_shellvars => [Told]_shellvars
    BY <1>1
  <1>3. ShellSpec => []UniqueNames
    BY ShellImplementsProc, ProcUniqueNames
  <1> QED
    BY <1>2, <1>3, ShellInvariant, PTL DEF ShellSpec, PrDoesOrComplains
=============================================================================
