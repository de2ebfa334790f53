-------------------------------- MODULE Proc --------------------------------
(***************************************************************************)
(* The process table of src/src/proc/proc.c and the calls that pr makes:   *)
(* start, kill and set a comment.  The lines they come from are module     *)
(* Shell.                                                                  *)
(*                                                                         *)
(* A name typed on the command line may be longer than procs[].name; what  *)
(* is stored is Stored[name].  agent, mem_kib and mem_bytes are the same   *)
(* for every user process and are left out.                                *)
(***************************************************************************)
EXTENDS Integers, Sequences

CONSTANTS MAX_PROCS,   \* 16 in the program
          Names,       \* the names typed
          Stored       \* the first PROC_NAME_MAX - 1 characters of each

ASSUME ProcAssumption == MAX_PROCS \in Nat \ {0, 1}

VARIABLES procs, next_pid

vars == <<procs, next_pid>>

Slots == 0..(MAX_PROCS - 1)

Process(pid, name) == [used |-> TRUE, pid |-> pid, name |-> name,
                       running |-> TRUE, comment |-> "default"]
Unused == [used |-> FALSE, pid |-> 0, name |-> "",
           running |-> FALSE, comment |-> ""]

proc_init == [i \in Slots |-> IF i = 0 THEN Process(0, "system")
                              ELSE IF i = 1 THEN Process(1, "shell")
                              ELSE Unused]

Init ==
    /\ procs = proc_init
    /\ next_pid = 2

First(S) == CHOOSE i \in S : \A j \in S : i <= j
Named(name) == {i \in Slots : procs[i].used /\ procs[i].name = name}
FreeSlots == {i \in Slots : ~procs[i].used}

(* Mutant: a stopped process is not looked for.                            *)
StartIgnoresStopped(name) ==
    IF {i \in Named(name) : procs[i].running} = {} /\ FreeSlots # {}
    THEN /\ procs' = [procs EXCEPT ![First(FreeSlots)] =
                                     Process(next_pid, Stored[name])]
         /\ next_pid' = next_pid + 1
    ELSE UNCHANGED vars

(* Mutant: a resumed process is given a new pid.                           *)
StartRenumbers(name) ==
    LET slots == IF Named(name) # {} THEN Named(name) ELSE FreeSlots
    IN  IF slots = {} THEN UNCHANGED vars
        ELSE /\ procs' = [procs EXCEPT ![First(slots)] =
                                         Process(next_pid, Stored[name])]
             /\ next_pid' = next_pid + 1

(* A process of that name is resumed, else the first free slot is taken.   *)
proc_start(name) ==
    \/ /\ Named(name) # {}
       /\ procs' = [procs EXCEPT ![First(Named(name))].running = TRUE]
       /\ UNCHANGED next_pid
    \/ /\ Named(name) = {} /\ FreeSlots # {}
       /\ procs' = [procs EXCEPT ![First(FreeSlots)] =
                                   Process(next_pid, Stored[name])]
       /\ next_pid' = next_pid + 1
    \/ /\ Named(name) = {} /\ FreeSlots = {}
       /\ UNCHANGED vars

(* Mutant: the slot is given back, and with it the process is forgotten.   *)
KillFreesSlot(name) ==
    IF Named(name) # {} /\ name # "system"
    THEN /\ procs' = [procs EXCEPT ![First(Named(name))] = Unused]
         /\ UNCHANGED next_pid
    ELSE UNCHANGED vars

(* Mutant: system is stopped like any other process.                       *)
KillAnyone(name) ==
    /\ procs' = IF Named(name) # {}
                THEN [procs EXCEPT ![First(Named(name))].running = FALSE]
                ELSE procs
    /\ UNCHANGED next_pid

proc_kill(name) ==
    /\ procs' = IF name # "system" /\ Named(name) # {}
                THEN [procs EXCEPT ![First(Named(name))].running = FALSE]
                ELSE procs
    /\ UNCHANGED next_pid

proc_set_comment(name) ==
    /\ procs' = IF Named(name) # {}
                THEN [procs EXCEPT ![First(Named(name))].comment = "set"]
                ELSE procs
    /\ UNCHANGED next_pid

(* Whether a call reports an error and returns -1.                         *)
StartFails(name) == Named(name) = {} /\ FreeSlots = {}
KillFails(name) == name = "system" \/ Named(name) = {}
CommentFails(name) == Named(name) = {}

Next ==
    \E name \in Names :
        proc_start(name) \/ proc_kill(name) \/ proc_set_comment(name)

Spec == Init /\ [][Next]_vars

-----------------------------------------------------------------------------
TypeOK ==
    /\ \A i \in Slots : procs[i].used \in BOOLEAN /\ procs[i].running \in BOOLEAN
    /\ next_pid \in 2..MAX_PROCS

(* The table fills from the front and pids are given in that order: every  *)
(* pid below next_pid belongs to exactly one slot, and the table is full   *)
(* exactly when MAX_PROCS of them have been given out.                     *)
PidsInOrder ==
    \A i \in Slots : /\ procs[i].used <=> i < next_pid
                     /\ procs[i].used => procs[i].pid = i

(* No name is held by two slots: pr start resumes the process there is, so *)
(* that pr kill, which stops the first one of the name, stops all of it.   *)
UniqueNames ==
    \A i, j \in Slots :
        procs[i].used /\ procs[j].used /\ procs[i].name = procs[j].name => i = j

(* A process keeps its pid and its name through kill and start.            *)
IdentityStable ==
    [][\A i \in Slots : procs[i].used =>
         /\ procs'[i].used
         /\ procs'[i].pid = procs[i].pid
         /\ procs'[i].name = procs[i].name]_vars
=============================================================================
