------------------------------- MODULE FsPath -------------------------------
(***************************************************************************)
(* Path canonicalisation, fs_resolve_path of src/src/fs/fs.c.              *)
(*                                                                         *)
(* A component is an identity and a length, so that the fixed buffers of   *)
(* the code can be modelled without characters; a component cut short by   *)
(* the temp buffer is another component.  A path argument is absolute or   *)
(* relative; a canonical path is a sequence of components, the root being  *)
(* the empty one.  "/c1/c2" takes one character for each slash.            *)
(***************************************************************************)
EXTENDS Integers, Sequences, SequencesExt

CONSTANTS FS_MAX_PATH,   \* 64 in the program: sizeof(path)
          MAX_COMPS      \* 16: sizeof(comps)

ASSUME FsPathAssumption ==
    FS_MAX_PATH \in Nat \ {0} /\ MAX_COMPS \in Nat \ {0}

Comp(id, len) == [id |-> id, len |-> len]
Dot    == Comp(".", 1)
DotDot == Comp("..", 2)
Component == {Dot, DotDot} \cup [id : STRING, len : Nat]
Root   == <<>>

PathLength(path) ==
    LET length[n \in 0..Len(path)] ==
          IF n = 0 THEN 0 ELSE (length[n - 1] + 1) + path[n].len
    IN  length[Len(path)]

(* What is left of a component of which only k characters fit.             *)
Cut(x, k) == IF x = DotDot THEN Dot ELSE Comp(x.id, k)

(* The text in temp[FS_MAX_PATH * 2], of n characters: everything behind   *)
(* its last one is lost.                                                   *)
TempMax == 2 * FS_MAX_PATH - 1
Write(acc, x) ==
    LET room == TempMax - acc.n - 1
    IN  IF room >= x.len
        THEN [out |-> Append(acc.out, x), n |-> acc.n + 1 + x.len]
        ELSE [out |-> IF room >= 1 THEN Append(acc.out, Cut(x, room)) ELSE acc.out,
              n   |-> TempMax]
Temp(comps) ==
    LET text[n \in 0..Len(comps)] ==
          IF n = 0 THEN [out |-> <<>>, n |-> 0] ELSE Write(text[n - 1], comps[n])
    IN  text[Len(comps)].out

(* Mutant: ".." at the root is kept as an ordinary component.              *)
PushUnclamped(stack, x) ==
    IF x = Dot THEN stack
    ELSE IF x = DotDot /\ stack # <<>> THEN Front(stack)
    ELSE IF Len(stack) < MAX_COMPS THEN Append(stack, x) ELSE stack

(* One component: "." is skipped, ".." pops (and stays at the root), a     *)
(* name is pushed while there is room.                                     *)
Push(stack, x) ==
    IF x = Dot THEN stack
    ELSE IF x = DotDot THEN IF stack = <<>> THEN stack ELSE Front(stack)
    ELSE IF Len(stack) < MAX_COMPS THEN Append(stack, x) ELSE stack

(* Mutant: the join may fill the buffer to its last byte.                  *)
JoinOffByOne(out, x) ==
    IF PathLength(out) + 1 + x.len <= FS_MAX_PATH THEN Append(out, x) ELSE out

(* A component that does not fit into out_path is left out; later, shorter *)
(* ones are still appended.                                                *)
Join(out, x) ==
    IF PathLength(out) + 1 + x.len < FS_MAX_PATH THEN Append(out, x) ELSE out

Full(cwd, arg) == IF arg.abs THEN arg.comps ELSE cwd \o arg.comps

(* comps[], from the first component to the last, and the path they are    *)
(* joined to.                                                              *)
Pushed(comps) ==
    LET stack[n \in 0..Len(comps)] ==
          IF n = 0 THEN <<>> ELSE Push(stack[n - 1], comps[n])
    IN  stack[Len(comps)]
Joined(comps) ==
    LET out[n \in 0..Len(comps)] ==
          IF n = 0 THEN Root ELSE Join(out[n - 1], comps[n])
    IN  out[Len(comps)]

fs_resolve_path(cwd, arg) == Joined(Pushed(Temp(Full(cwd, arg))))

(* A path that fits its buffer with the terminating zero, has no more      *)
(* components than comps[] takes, and no dots.                             *)
IsCanonical(path) ==
    /\ path \in Seq(Component)
    /\ PathLength(path) < FS_MAX_PATH
    /\ Len(path) <= MAX_COMPS
    /\ \A i \in 1..Len(path) : path[i] \notin {Dot, DotDot}

-----------------------------------------------------------------------------
(* Reference: the canonical path without any limit.  A component counts    *)
(* when it is a name and is not cancelled by a later "..": reading from    *)
(* the right, a ".." cancels the next name that is still standing.         *)
Standing(r, x) ==
    IF x = Dot THEN r
    ELSE IF x = DotDot THEN [out |-> r.out, ups |-> r.ups + 1]
    ELSE IF r.ups > 0 THEN [out |-> r.out, ups |-> r.ups - 1]
    ELSE [out |-> <<x>> \o r.out, ups |-> 0]
Reference(comps) ==
    LET scan[i \in 1..(Len(comps) + 1)] ==
          IF i = Len(comps) + 1 THEN [out |-> <<>>, ups |-> 0]
                                ELSE Standing(scan[i + 1], comps[i])
    IN  scan[1].out

(* Where no buffer is too small: temp, comps[] and the path returned.      *)
WithinLimits(comps) ==
    /\ PathLength(comps) < 2 * FS_MAX_PATH
    /\ Len(comps) <= MAX_COMPS
    /\ PathLength(Reference(comps)) < FS_MAX_PATH
=============================================================================
