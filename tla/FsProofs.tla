------------------------------ MODULE FsProofs ------------------------------
(***************************************************************************)
(* Lemmas about the file system that the proofs of its two clients share,  *)
(* the shell (ShellFsProofs) and the editor (EmProofs): what the calls do  *)
(* to a table in order, and the table with which the system starts.        *)
(***************************************************************************)
EXTENDS Fs, SequenceTheorems, WellFoundedInduction, TLAPS

(* First finds the least member of every non-empty set of positions.       *)
LEMMA FirstIsLeast ==
    ASSUME NEW S, S \subseteq Nat, S # {}
    PROVE  First(S) \in S /\ \A j \in S : First(S) <= j
  <1> DEFINE R == {ss \in Nat \X Nat : ss[1] < ss[2]}
  <1>1. IsWellFoundedOn(R, Nat)
    BY NatLessThanWellFounded DEF OpToRel
  <1>2. PICK x \in S : \A y \in S : ~ (<<y, x>> \in R)
    BY <1>1, WFMin
  <1>3. ASSUME NEW y \in S
        PROVE  x <= y
    <2>1. y \in Nat /\ x \in Nat
      OBVIOUS
    <2>2. <<y, x>> \in Nat \X Nat /\ <<y, x>>[1] = y /\ <<y, x>>[2] = x
      BY <2>1
    <2> QED
      BY <1>2, <2>1, <2>2
  <1> QED
    BY <1>3 DEF First

LEMMA FirstIsMember ==
    ASSUME NEW S, S \subseteq Slots, S # {}
    PROVE  First(S) \in S /\ First(S) \in Slots
  <1>1. S \subseteq Nat
    BY FsAssumption DEF Slots
  <1>2. First(S) \in S
    BY <1>1, FirstIsLeast
  <1> QED
    BY <1>2

-----------------------------------------------------------------------------
(* A text that fits in the data[] of a node, with its terminating zero.    *)
Fits(text) == Len(text) \in Nat /\ Len(text) < FS_MAX_FILESIZE

IsNode(n) ==
    /\ n = [used |-> n.used, path |-> n.path, data |-> n.data,
            is_dir |-> n.is_dir, is_system |-> n.is_system]
    /\ n.used \in BOOLEAN /\ n.is_dir \in BOOLEAN /\ n.is_system \in BOOLEAN
    /\ Fits(n.data)

(* A table in order: every path in one slot, no text in a directory.       *)
TableOK(f) ==
    /\ f = [i \in Slots |-> f[i]]
    /\ \A i \in Slots : IsNode(f[i])
    /\ \A i, j \in Slots : f[i].used /\ f[j].used /\ f[i].path = f[j].path => i = j
    /\ \A i \in Slots : f[i].is_dir => f[i].data = <<>>

(* The three ways in which a call changes the table f to g.                *)
Created(f, g, path) ==
    \E i \in Slots : \E dir, system \in BOOLEAN : \E text :
        /\ ~f[i].used /\ ~Exists(f, path)
        /\ dir => text = <<>>
        /\ Fits(text)
        /\ g = [f EXCEPT ![i] = [used |-> TRUE, path |-> path, data |-> text,
                                 is_dir |-> dir, is_system |-> system]]
Written(f, g, path) ==
    \E i \in Slots : \E text :
        /\ f[i].used /\ f[i].path = path /\ ~f[i].is_dir
        /\ Fits(text)
        /\ g = [f EXCEPT ![i].data = text]
Deleted(f, g, path) ==
    \E i \in Slots :
        /\ f[i].used /\ f[i].path = path
        /\ g = [f EXCEPT ![i] = Unused]

(* fs_find is the one slot that holds the path.                            *)
LEMMA FindIsTheSlot ==
    ASSUME NEW f, NEW path, TableOK(f), Exists(f, path)
    PROVE  /\ fs_find(f, path) \in Slots
           /\ f[fs_find(f, path)].used
           /\ f[fs_find(f, path)].path = path
  <1>1. Matches(f, path) \subseteq Slots /\ Matches(f, path) # {}
    BY DEF Matches, Exists
  <1>2. fs_find(f, path) \in Matches(f, path)
    BY <1>1, FirstIsMember DEF fs_find
  <1> QED
    BY <1>2 DEF Matches

(* fs_find_slot is a slot that is not used.                                *)
LEMMA FindSlotIsFree ==
    ASSUME NEW f, FreeSlots(f) # {}
    PROVE  fs_find_slot(f) \in Slots /\ ~f[fs_find_slot(f)].used
  <1>1. FreeSlots(f) \subseteq Slots
    BY DEF FreeSlots
  <1>2. fs_find_slot(f) \in FreeSlots(f)
    BY <1>1, FirstIsMember DEF fs_find_slot
  <1> QED
    BY <1>2 DEF FreeSlots

(* What fs_write writes fits.                                              *)
LEMMA ClampFits ==
    ASSUME NEW text, Len(text) \in Nat
    PROVE  Fits(Clamp(text))
  <1> DEFINE n == IF Len(text) >= FS_MAX_FILESIZE
                  THEN FS_MAX_FILESIZE - 1 ELSE Len(text)
             S == {text[k] : k \in 1..n}
  <1>1. n \in Nat /\ n < FS_MAX_FILESIZE
    BY FsAssumption
  <1> HIDE DEF n
  <1>2. SubSeq(text, 1, n) = [k \in 1..n |-> text[k]]
    BY <1>1
  <1>3. SubSeq(text, 1, n) \in [1..n -> S]
    BY <1>2
  <1>4. Len(SubSeq(text, 1, n)) = n
    BY <1>1, <1>3, LenProperties, SeqDef
  <1> QED
    BY <1>1, <1>4 DEF Fits, Clamp, n

LEMMA EmptyFits == Fits(<<>>)
  BY FsAssumption DEF Fits

LEMMA MkdirCreates ==
    ASSUME NEW f, NEW path, TableOK(f), CanMkdir(f, path)
    PROVE  Created(f, fs_mkdir(f, path), path)
  BY FindSlotIsFree, EmptyFits
  DEF CanMkdir, CanCreate, fs_mkdir, Node, Created, SystemPath

LEMMA CreateCreates ==
    ASSUME NEW f, NEW path, TableOK(f), CanCreate(f, path)
    PROVE  Created(f, fs_create(f, path), path)
  BY FindSlotIsFree, EmptyFits DEF CanCreate, fs_create, Node, Created, SystemPath

LEMMA WriteWrites ==
    ASSUME NEW f, NEW path, NEW text, Len(text) \in Nat,
           TableOK(f), IsFile(f, path)
    PROVE  Written(f, fs_write(f, path, text), path)
  BY FindIsTheSlot, ClampFits DEF IsFile, fs_write, Written

LEMMA DeleteDeletes ==
    ASSUME NEW f, NEW path, TableOK(f), Exists(f, path)
    PROVE  Deleted(f, fs_delete(f, path), path)
  BY FindIsTheSlot DEF fs_delete, Deleted

(* A table in order stays in order, and only the path changed is affected. *)
LEMMA ChangesKeepOrder ==
    ASSUME NEW f, NEW g, NEW path, TableOK(f),
           Created(f, g, path) \/ Written(f, g, path) \/ Deleted(f, g, path)
    PROVE  /\ TableOK(g)
           /\ \A q : q # path => (Exists(g, q) <=> Exists(f, q))
           /\ Created(f, g, path) \/ Written(f, g, path) => Exists(g, path)
           /\ Deleted(f, g, path) => ~Exists(g, path)
           /\ \A i \in Slots : f[i].used /\ ~g[i].used => Deleted(f, g, path)
           /\ \A i \in Slots : f[i] # g[i] =>
                path = IF g[i].used THEN g[i].path ELSE f[i].path
           /\ \A i \in Slots : f[i].used /\ g[i].used =>
                /\ g[i].path = f[i].path
                /\ g[i].is_dir = f[i].is_dir
                /\ g[i].is_system = f[i].is_system
  <1>1. CASE Created(f, g, path)
    <2>0. PICK i \in Slots : \E dir, system \in BOOLEAN : \E text :
              /\ ~f[i].used /\ ~Exists(f, path)
              /\ dir => text = <<>>
              /\ Fits(text)
              /\ g = [f EXCEPT ![i] = [used |-> TRUE, path |-> path, data |-> text,
                                       is_dir |-> dir, is_system |-> system]]
      BY <1>1 DEF Created
    <2>1. PICK dir \in BOOLEAN, system \in BOOLEAN : \E text :
              /\ ~f[i].used /\ ~Exists(f, path)
              /\ dir => text = <<>>
              /\ Fits(text)
              /\ g = [f EXCEPT ![i] = [used |-> TRUE, path |-> path, data |-> text,
                                       is_dir |-> dir, is_system |-> system]]
      BY <2>0
    <2>a. PICK text :
              /\ ~f[i].used /\ ~Exists(f, path)
              /\ dir => text = <<>>
              /\ Fits(text)
              /\ g = [f EXCEPT ![i] = [used |-> TRUE, path |-> path, data |-> text,
                                       is_dir |-> dir, is_system |-> system]]
      BY <2>1
    <2>2. /\ g[i] = [used |-> TRUE, path |-> path, data |-> text,
                     is_dir |-> dir, is_system |-> system]
          /\ \A j \in Slots \ {i} : g[j] = f[j]
          /\ g = [j \in Slots |-> g[j]]
      BY <2>a DEF TableOK
    <2>3. \A j \in Slots : f[j].used => f[j].path # path
      BY <2>a DEF Exists, Matches
    <2>4. TableOK(g)
      BY <2>a, <2>2, <2>3 DEF TableOK, IsNode
    <2>5. ~Deleted(f, g, path)
      BY <2>3 DEF Deleted
    <2>6. Exists(g, path)
      BY <2>2 DEF Exists, Matches
    <2>7. \A q : q # path => (Exists(g, q) <=> Exists(f, q))
      BY <2>a, <2>2 DEF Exists, Matches
    <2> QED
      BY <2>a, <2>2, <2>4, <2>5, <2>6, <2>7
  <1>2. CASE Written(f, g, path)
    <2>0. PICK i \in Slots : \E text :
              /\ f[i].used /\ f[i].path = path /\ ~f[i].is_dir
              /\ Fits(text)
              /\ g = [f EXCEPT ![i].data = text]
      BY <1>2 DEF Written
    <2>1. PICK text :
              /\ f[i].used /\ f[i].path = path /\ ~f[i].is_dir
              /\ Fits(text)
              /\ g = [f EXCEPT ![i].data = text]
      BY <2>0
    <2>2. /\ g[i] = [used |-> f[i].used, path |-> f[i].path, data |-> text,
                     is_dir |-> f[i].is_dir, is_system |-> f[i].is_system]
          /\ \A j \in Slots \ {i} : g[j] = f[j]
          /\ g = [j \in Slots |-> g[j]]
      BY <2>1 DEF TableOK, IsNode
    <2>3. TableOK(g)
      BY <2>1, <2>2 DEF TableOK, IsNode
    <2>4. \A q : Exists(g, q) <=> Exists(f, q)
      <3>1. \A j \in Slots : g[j].used = f[j].used /\ g[j].path = f[j].path
        BY <2>2
      <3>2. \A q : Matches(g, q) = Matches(f, q)
        BY <3>1 DEF Matches
      <3> QED
        BY <3>2 DEF Exists
    <2>5. Exists(f, path)
      BY <2>1 DEF Exists, Matches
    <2>6. \A j \in Slots : g[j].used <=> f[j].used
      BY <2>2
    <2>7. ~Deleted(f, g, path)
      <3>1. SUFFICES ASSUME NEW k \in Slots, f[k].used,
                            g = [f EXCEPT ![k] = Unused]
                     PROVE  FALSE
        BY DEF Deleted
      <3>2. ~g[k].used
        BY <3>1 DEF TableOK, Unused
      <3> QED
        BY <2>6, <3>1, <3>2
    <2>8. \A j \in Slots : /\ g[j].path = f[j].path
                           /\ g[j].is_dir = f[j].is_dir
                           /\ g[j].is_system = f[j].is_system
      BY <2>2
    <2>9. \A j \in Slots : f[j] # g[j] =>
              path = IF g[j].used THEN g[j].path ELSE f[j].path
      BY <2>1, <2>2, <2>8
    <2>10. Exists(g, path) /\ \A j \in Slots : ~(f[j].used /\ ~g[j].used)
      BY <2>4, <2>5, <2>6
    <2> QED
      BY <2>3, <2>4, <2>7, <2>8, <2>9, <2>10, Zenon
  <1>3. CASE Deleted(f, g, path)
    <2>1. PICK i \in Slots :
              /\ f[i].used /\ f[i].path = path
              /\ g = [f EXCEPT ![i] = Unused]
      BY <1>3 DEF Deleted
    <2>2. /\ g[i] = Unused
          /\ \A j \in Slots \ {i} : g[j] = f[j]
          /\ g = [j \in Slots |-> g[j]]
      BY <2>1 DEF TableOK
    <2>3. TableOK(g)
      <3>1. IsNode(Unused)
        BY EmptyFits DEF IsNode, Unused
      <3>2. \A j \in Slots : IsNode(g[j])
        BY <2>2, <3>1 DEF TableOK
      <3> QED
        BY <2>2, <3>2 DEF TableOK, Unused
    <2>4. \A q : q # path => (Exists(g, q) <=> Exists(f, q))
      BY <2>1, <2>2 DEF Exists, Matches, Unused
    <2>5. ~Exists(g, path)
      BY <2>1, <2>2 DEF Exists, Matches, Unused, TableOK
    <2>6. ~Created(f, g, path) /\ ~Written(f, g, path)
      <3>1. ~Created(f, g, path)
        BY <2>1 DEF Created, Exists, Matches
      <3>2. SUFFICES ASSUME NEW k \in Slots, NEW text,
                            f[k].used, f[k].path = path,
                            g = [f EXCEPT ![k].data = text]
                     PROVE  FALSE
        BY <3>1 DEF Written
      <3>3. g[k].used /\ k = i
        BY <2>1, <3>2 DEF TableOK, IsNode
      <3> QED
        BY <2>2, <3>3 DEF Unused
    <2>7. ~g[i].used
      BY <2>2 DEF Unused
    <2>8. \A j \in Slots : f[j] # g[j] =>
              path = IF g[j].used THEN g[j].path ELSE f[j].path
      BY <2>1, <2>2, <2>7
    <2>9. \A j \in Slots : f[j].used /\ g[j].used =>
              /\ g[j].path = f[j].path
              /\ g[j].is_dir = f[j].is_dir
              /\ g[j].is_system = f[j].is_system
      BY <2>2, <2>7
    <2> QED
      BY <1>3, <2>3, <2>4, <2>5, <2>6, <2>8, <2>9, Zenon
  <1> QED
    BY <1>1, <1>2, <1>3

(* What EXCEPT does to the text of a node.                                 *)
LEMMA SetData ==
    ASSUME NEW n, NEW text,
           n = [used |-> n.used, path |-> n.path, data |-> n.data,
                is_dir |-> n.is_dir, is_system |-> n.is_system]
    PROVE  [n EXCEPT !.data = text] =
             [used |-> n.used, path |-> n.path, data |-> text,
              is_dir |-> n.is_dir, is_system |-> n.is_system]
  OBVIOUS

(* Writing a file just made in slot i fills in the text of that slot.      *)
LEMMA WriteFresh ==
    ASSUME NEW f, NEW g, NEW i \in Slots, NEW path, NEW text,
           Len(text) \in Nat, NEW system \in BOOLEAN,
           TableOK(f), ~f[i].used, ~Exists(f, path),
           g = [f EXCEPT ![i] = [used |-> TRUE, path |-> path, data |-> <<>>,
                                 is_dir |-> FALSE, is_system |-> system]]
    PROVE  Created(f, fs_write(g, path, text), path)
  <1> DEFINE new == Clamp(text)
  <1>1. /\ g[i] = [used |-> TRUE, path |-> path, data |-> <<>>,
                   is_dir |-> FALSE, is_system |-> system]
        /\ \A j \in Slots \ {i} : g[j] = f[j]
        /\ g = [j \in Slots |-> g[j]]
        /\ f = [j \in Slots |-> f[j]]
    BY DEF TableOK
  <1>2. Created(f, g, path)
    BY EmptyFits DEF Created
  <1>3. TableOK(g)
    BY <1>2, ChangesKeepOrder
  <1>4. Exists(g, path)
    BY <1>1 DEF Exists, Matches
  <1>5. fs_find(g, path) = i
    <2>1. /\ fs_find(g, path) \in Slots
          /\ g[fs_find(g, path)].used
          /\ g[fs_find(g, path)].path = path
      BY <1>3, <1>4, FindIsTheSlot
    <2>2. g[i].used /\ g[i].path = path
      BY <1>1
    <2> QED
      BY <1>3, <2>1, <2>2 DEF TableOK
  <1>6. fs_write(g, path, text) = [g EXCEPT ![i].data = new]
    BY <1>1, <1>4, <1>5 DEF fs_write, IsFile
  <1> HIDE DEF new
  <1>7. [g EXCEPT ![i].data = new] =
          [f EXCEPT ![i] = [used |-> TRUE, path |-> path, data |-> new,
                            is_dir |-> FALSE, is_system |-> system]]
    <2>1. [g[i] EXCEPT !.data = new] = [used |-> TRUE, path |-> path, data |-> new,
                                        is_dir |-> FALSE, is_system |-> system]
      <3>1. /\ g[i].used = TRUE /\ g[i].path = path
            /\ g[i].is_dir = FALSE /\ g[i].is_system = system
            /\ g[i] = [used |-> g[i].used, path |-> g[i].path, data |-> g[i].data,
                       is_dir |-> g[i].is_dir, is_system |-> g[i].is_system]
        BY <1>1
      <3>2. [g[i] EXCEPT !.data = new] =
              [used |-> g[i].used, path |-> g[i].path, data |-> new,
               is_dir |-> g[i].is_dir, is_system |-> g[i].is_system]
        BY <3>1, SetData
      <3> QED
        BY <3>1, <3>2, Zenon
    <2>2. [g EXCEPT ![i].data = new] =
            [j \in Slots |-> IF j = i THEN [g[i] EXCEPT !.data = new] ELSE g[j]]
      BY <1>1
    <2>3. [f EXCEPT ![i] = [used |-> TRUE, path |-> path, data |-> new,
                            is_dir |-> FALSE, is_system |-> system]] =
            [j \in Slots |-> IF j = i THEN [used |-> TRUE, path |-> path,
                                            data |-> new, is_dir |-> FALSE,
                                            is_system |-> system] ELSE f[j]]
      BY <1>1
    <2> QED
      BY <1>1, <2>1, <2>2, <2>3
  <1>8. fs_write(g, path, text) =
          [f EXCEPT ![i] = [used |-> TRUE, path |-> path, data |-> new,
                            is_dir |-> FALSE, is_system |-> system]]
    BY <1>6, <1>7
  <1>9. \A h, data : Fits(data) /\
            h = [f EXCEPT ![i] = [used |-> TRUE, path |-> path, data |-> data,
                                  is_dir |-> FALSE, is_system |-> system]]
              => Created(f, h, path)
    BY Zenon DEF Created
  <1>10. Fits(new)
    BY ClampFits DEF new
  <1> QED
    BY <1>8, <1>9, <1>10, Zenon

(* Making a file and writing it at once is one creation.                   *)
LEMMA CreateAndWrite ==
    ASSUME NEW f, NEW path, NEW text, Len(text) \in Nat,
           TableOK(f), CanCreate(f, path)
    PROVE  Created(f, fs_write(fs_create(f, path), path, text), path)
  <1>1. /\ fs_find_slot(f) \in Slots
        /\ ~f[fs_find_slot(f)].used
        /\ ~Exists(f, path)
    BY FindSlotIsFree DEF CanCreate
  <1>2. fs_create(f, path) =
          [f EXCEPT ![fs_find_slot(f)] =
              [used |-> TRUE, path |-> path, data |-> <<>>,
               is_dir |-> FALSE, is_system |-> SystemPath(path)]]
    BY DEF fs_create, Node
  <1>3. SystemPath(path) \in BOOLEAN
    BY DEF SystemPath
  <1> QED
    BY <1>1, <1>2, <1>3, WriteFresh

(* What Opened and fs_write do together, for echo and for the editor.      *)
LEMMA OpenedAndWritten ==
    ASSUME NEW f, NEW path, NEW text, Len(text) \in Nat, TableOK(f)
    PROVE  LET open == IF Exists(f, path) THEN f ELSE fs_create(f, path)
               g == fs_write(open, path, text)
           IN  \/ Exists(f, path) /\ Written(f, g, path)
               \/ Exists(f, path) /\ g = f
               \/ ~Exists(f, path) /\ CanCreate(f, path) /\ Created(f, g, path)
               \/ ~Exists(f, path) /\ ~CanCreate(f, path) /\ g = f
  <1>1. CASE IsFile(f, path)
    BY <1>1, WriteWrites DEF IsFile
  <1>2. CASE Exists(f, path) /\ ~IsFile(f, path)
    BY <1>2 DEF fs_write
  <1>3. CASE CanCreate(f, path)
    BY <1>3, CreateAndWrite DEF CanCreate
  <1>4. CASE ~Exists(f, path) /\ ~CanCreate(f, path)
    BY <1>4 DEF fs_create, fs_write, IsFile
  <1> QED
    BY <1>1, <1>2, <1>3, <1>4

(* What a call leaves behind when it does not return -1.                   *)
LEMMA MkdirMakesDir ==
    ASSUME NEW f, NEW path, TableOK(f), CanMkdir(f, path)
    PROVE  fs_is_dir(fs_mkdir(f, path), path)
  <1> DEFINE i == fs_find_slot(f)
             g == fs_mkdir(f, path)
  <1>1. i \in Slots /\ ~f[i].used /\ ~Exists(f, path)
    BY FindSlotIsFree DEF CanMkdir, CanCreate
  <1>2. g = [f EXCEPT ![i] = Node(path, TRUE)]
    BY DEF fs_mkdir
  <1>3. TableOK(g) /\ Exists(g, path)
    BY MkdirCreates, ChangesKeepOrder
  <1>4. g[i] = Node(path, TRUE) /\ \A j \in Slots \ {i} : g[j] = f[j]
    BY <1>1, <1>2 DEF TableOK
  <1>5. fs_find(g, path) = i
    <2>1. /\ fs_find(g, path) \in Slots /\ g[fs_find(g, path)].used
          /\ g[fs_find(g, path)].path = path
      BY <1>3, FindIsTheSlot
    <2> QED
      BY <1>1, <1>4, <2>1 DEF Exists, Matches
  <1> QED
    BY <1>3, <1>4, <1>5 DEF fs_is_dir, Node

(* What is written to a file is in it, as much of it as fits.              *)
LEMMA WriteHolds ==
    ASSUME NEW f, NEW path, NEW text, Len(text) \in Nat, TableOK(f),
           IsFile(f, path)
    PROVE  /\ IsFile(fs_write(f, path, text), path)
           /\ fs_write(f, path, text)[fs_find(fs_write(f, path, text), path)].data
                = Clamp(text)
  <1> DEFINE g == fs_write(f, path, text)
             i == fs_find(f, path)
             j == fs_find(g, path)
  <1>1. i \in Slots /\ f[i].used /\ f[i].path = path /\ ~f[i].is_dir
    BY FindIsTheSlot DEF IsFile
  <1>2. TableOK(g) /\ Exists(g, path)
    BY WriteWrites, ChangesKeepOrder
  <1>3. g = [f EXCEPT ![i].data = Clamp(text)]
    BY DEF fs_write
  <1>4. /\ f = [k \in Slots |-> f[k]]
        /\ f[i] = [used |-> f[i].used, path |-> f[i].path, data |-> f[i].data,
                   is_dir |-> f[i].is_dir, is_system |-> f[i].is_system]
    BY <1>1 DEF TableOK, IsNode
  <1>5. j \in Slots /\ g[j].used /\ g[j].path = path
    BY <1>2, FindIsTheSlot
  <1> HIDE DEF g, i, j
  <1>6. g[i] = [used |-> f[i].used, path |-> f[i].path, data |-> Clamp(text),
                is_dir |-> f[i].is_dir, is_system |-> f[i].is_system]
    <2>1. g[i] = [f[i] EXCEPT !.data = Clamp(text)]
      BY <1>1, <1>3, <1>4
    <2> QED
      BY <1>4, <2>1, SetData
  <1>7. j = i
    BY <1>1, <1>2, <1>5, <1>6 DEF TableOK
  <1>8. g[j].data = Clamp(text) /\ ~g[j].is_dir
    BY <1>1, <1>6, <1>7
  <1> QED
    BY <1>2, <1>8 DEF IsFile, g, j

(* A file just made is one.                                                *)
LEMMA CreateMakesIt ==
    ASSUME NEW f, NEW path, TableOK(f), CanCreate(f, path)
    PROVE  TableOK(fs_create(f, path)) /\ IsFile(fs_create(f, path), path)
  <1> DEFINE i == fs_find_slot(f)
             g == fs_create(f, path)
  <1>1. i \in Slots
    BY FindSlotIsFree DEF CanCreate
  <1>2. TableOK(g) /\ Exists(g, path)
    BY CreateCreates, ChangesKeepOrder
  <1>3. g[i].used /\ g[i].path = path /\ ~g[i].is_dir
    BY <1>1 DEF fs_create, Node, TableOK
  <1>4. fs_find(g, path) = i
    <2>1. /\ fs_find(g, path) \in Slots /\ g[fs_find(g, path)].used
          /\ g[fs_find(g, path)].path = path
      BY <1>2, FindIsTheSlot
    <2> QED
      BY <1>1, <1>2, <1>3, <2>1 DEF TableOK
  <1> QED
    BY <1>2, <1>3, <1>4 DEF IsFile

(* What echo leaves behind: a directory as it was, else a file that holds  *)
(* the text; and no other path is touched.                                 *)
LEMMA EchoLeavesIt ==
    ASSUME NEW f, NEW path, NEW text, Len(text) \in Nat, TableOK(f),
           Exists(f, path) \/ CanCreate(f, path),
           NEW g, g = fs_write(IF Exists(f, path) THEN f ELSE fs_create(f, path),
                               path, text)
    PROVE  /\ IF Exists(f, path) /\ ~IsFile(f, path) THEN g = f
              ELSE IsFile(g, path) /\ g[fs_find(g, path)].data = Clamp(text)
           /\ \A i \in Slots : g[i] # f[i] =>
                path = IF g[i].used THEN g[i].path ELSE f[i].path
  <1> DEFINE open == IF Exists(f, path) THEN f ELSE fs_create(f, path)
  <1>0. g = fs_write(open, path, text)
    OBVIOUS
  <1>1. IF Exists(f, path) /\ ~IsFile(f, path) THEN g = f
        ELSE IsFile(g, path) /\ g[fs_find(g, path)].data = Clamp(text)
    <2>1. CASE Exists(f, path) /\ ~IsFile(f, path)
      BY <2>1 DEF fs_write
    <2>2. CASE IsFile(f, path)
      <3>1. open = f
        BY <2>2 DEF IsFile
      <3> HIDE DEF open
      <3> QED
        BY <1>0, <2>2, <3>1, WriteHolds
    <2>3. CASE ~Exists(f, path)
      <3>1. TableOK(open) /\ IsFile(open, path)
        BY <2>3, CreateMakesIt
      <3> HIDE DEF open
      <3> QED
        BY <1>0, <2>3, <3>1, WriteHolds
    <2> QED
      BY <2>1, <2>2, <2>3
  <1>2. \A i \in Slots : g[i] # f[i] =>
            path = IF g[i].used THEN g[i].path ELSE f[i].path
    <2>1. Written(f, g, path) \/ Created(f, g, path) \/ g = f
      BY OpenedAndWritten
    <2> QED
      BY <2>1, ChangesKeepOrder
  <1> QED
    BY <1>1, <1>2

-----------------------------------------------------------------------------
(* The boot tree                                                           *)

(* Counting up: what holds of 0 and of the next number holds of all.       *)
LEMMA CountUp ==
    ASSUME NEW last \in Nat, NEW Good, 0 \in Good,
           \A n \in 0..(last - 1) : n \in Good => n + 1 \in Good
    PROVE  \A n \in 0..last : n \in Good
  <1> DEFINE Bad == {n \in 0..last : n \notin Good}
  <1> SUFFICES ASSUME Bad # {} PROVE FALSE
    OBVIOUS
  <1>1. Bad \subseteq Nat
    OBVIOUS
  <1>2. PICK m \in Bad : \A n \in Bad : m <= n
    BY <1>1, FirstIsLeast
  <1>3. m \in 0..last /\ m \notin Good /\ m # 0
    OBVIOUS
  <1>4. m - 1 \in 0..(last - 1) /\ m - 1 \notin Bad
    <2>1. m - 1 \in 0..(last - 1)
      BY <1>3
    <2> HIDE DEF Bad
    <2>2. m - 1 \in Bad => m <= m - 1
      BY <1>2
    <2> QED
      BY <1>3, <2>1, <2>2
  <1>5. m - 1 \in Good
    BY <1>4
  <1> QED
    BY <1>3, <1>4, <1>5

Empty == [i \in Slots |-> Unused]

(* m holds the tables that fs_init makes from the first n entries.         *)
Boots(m, tree, n) ==
    m = [k \in 0..n |-> IF k = 0 THEN Empty ELSE BootStep(m[k - 1], tree[k])]

LEMMA BootTables ==
    ASSUME NEW tree, Len(tree) \in Nat
    PROVE  \E m : /\ m[0] = Empty
                  /\ \A n \in 1..Len(tree) : m[n] = BootStep(m[n - 1], tree[n])
                  /\ fs_init(tree) = m[Len(tree)]
  <1> DEFINE L == Len(tree)
             Good == {n \in 0..L : \E m : Boots(m, tree, n)}
             made == CHOOSE m : Boots(m, tree, L)
  <1>1. 0 \in Good
    <2>1. Boots([k \in 0..0 |-> Empty], tree, 0)
      BY DEF Boots
    <2> QED
      BY <2>1
  <1>2. ASSUME NEW n \in 0..(L - 1), n \in Good
        PROVE  n + 1 \in Good
    <2>1. PICK m : Boots(m, tree, n)
      BY <1>2
    <2> DEFINE new == [k \in 0..(n + 1) |-> IF k = n + 1
                                            THEN BootStep(m[n], tree[n + 1])
                                            ELSE m[k]]
    <2>2. \A k \in 0..n : m[k] = IF k = 0 THEN Empty
                                         ELSE BootStep(m[k - 1], tree[k])
      BY <2>1 DEF Boots
    <2>3. \A k \in 0..(n + 1) : new[k] = IF k = 0 THEN Empty
                                     ELSE BootStep(new[k - 1], tree[k])
      <3> SUFFICES ASSUME NEW k \in 0..(n + 1)
                   PROVE  new[k] = IF k = 0 THEN Empty
                                   ELSE BootStep(new[k - 1], tree[k])
        OBVIOUS
      <3>1. CASE k = n + 1
        <4>1. k # 0 /\ k - 1 = n /\ n \in 0..(n + 1) /\ n # n + 1
          BY <3>1
        <4>2. new[k - 1] = m[n] /\ new[k] = BootStep(m[n], tree[k])
          BY <3>1, <4>1
        <4> QED
          BY <4>1, <4>2
      <3>2. CASE k # n + 1
        <4>1. k \in 0..n /\ (k # 0 => k - 1 \in 0..(n + 1) /\ k - 1 # n + 1)
          BY <3>2
        <4>2. new[k] = m[k] /\ (k # 0 => new[k - 1] = m[k - 1])
          BY <3>2, <4>1
        <4> QED
          BY <2>2, <4>1, <4>2
      <3> QED
        BY <3>1, <3>2
    <2>4. Boots(new, tree, n + 1)
      <3>1. new = [k \in 0..(n + 1) |-> new[k]]
        OBVIOUS
      <3> HIDE DEF new
      <3> QED
        BY <2>3, <3>1 DEF Boots
    <2>5. n + 1 \in 0..L
      OBVIOUS
    <2> QED
      BY <2>4, <2>5
  <1>3. L \in Good
    <2> HIDE DEF Good
    <2>1. \A n \in 0..L : n \in Good
      BY <1>1, <1>2, CountUp
    <2> QED
      BY <2>1
  <1>4. Boots(made, tree, L)
    BY <1>3
  <1>5. fs_init(tree) = made[L]
    BY DEF fs_init, Boots, Empty
  <1> HIDE DEF made
  <1>6. \A k \in 0..L : made[k] = IF k = 0 THEN Empty
                                   ELSE BootStep(made[k - 1], tree[k])
    BY <1>4 DEF Boots
  <1> QED
    BY <1>5, <1>6

(* A boot step makes one node or leaves the table as it is.                *)
LEMMA BootStepCreates ==
    ASSUME NEW f, NEW e, TableOK(f), Len(e.data) \in Nat
    PROVE  \/ BootStep(f, e) = f
           \/ Created(f, BootStep(f, e), e.path)
           \/ Written(f, BootStep(f, e), e.path)
  <1>1. CASE e.dir
    BY <1>1, MkdirCreates DEF BootStep, fs_mkdir
  <1>2. CASE ~e.dir
    <2>1. BootStep(f, e) = fs_write(fs_create(f, e.path), e.path, e.data)
      BY <1>2 DEF BootStep
    <2>2. CASE CanCreate(f, e.path)
      BY <2>1, <2>2, CreateAndWrite
    <2>3. CASE ~CanCreate(f, e.path)
      <3>1. BootStep(f, e) = fs_write(f, e.path, e.data)
        BY <2>1, <2>3 DEF fs_create
      <3> QED
        BY <3>1, WriteWrites DEF fs_write
    <2> QED
      BY <2>2, <2>3
  <1> QED
    BY <1>1, <1>2

(* The system starts with a table in order, whatever the tree.             *)
LEMMA BootTableOK ==
    ASSUME NEW tree, Len(tree) \in Nat,
           \A n \in 1..Len(tree) : Len(tree[n].data) \in Nat
    PROVE  TableOK(fs_init(tree))
  <1>1. PICK m : /\ m[0] = Empty
                 /\ \A n \in 1..Len(tree) : m[n] = BootStep(m[n - 1], tree[n])
                 /\ fs_init(tree) = m[Len(tree)]
    BY BootTables
  <1> DEFINE Good == {n \in 0..Len(tree) : TableOK(m[n])}
  <1>2. TableOK(Empty)
    <2>1. IsNode(Unused)
      BY EmptyFits DEF IsNode, Unused
    <2> QED
      BY <2>1 DEF TableOK, Empty, Unused
  <1>3. 0 \in Good
    BY <1>1, <1>2
  <1>4. ASSUME NEW n \in 0..(Len(tree) - 1), n \in Good
        PROVE  n + 1 \in Good
    <2>1. n + 1 \in 1..Len(tree) /\ (n + 1) - 1 = n
      OBVIOUS
    <2>2. m[n + 1] = BootStep(m[n], tree[n + 1])
      BY <1>1, <2>1
    <2>3. TableOK(m[n]) /\ Len(tree[n + 1].data) \in Nat
      BY <1>4, <2>1
    <2>4. TableOK(m[n + 1])
      BY <2>2, <2>3, BootStepCreates, ChangesKeepOrder
    <2> QED
      BY <2>1, <2>4
  <1>5. Len(tree) \in Good
    <2> HIDE DEF Good
    <2>1. \A n \in 0..Len(tree) : n \in Good
      BY <1>3, <1>4, CountUp
    <2> QED
      BY <2>1
  <1> QED
    BY <1>1, <1>5

-----------------------------------------------------------------------------
(* Paths: what the recursive functions of FsPath compute, step by step.    *)

LEMMA LengthWalk ==
    ASSUME NEW path, Len(path) \in Nat
    PROVE  \E m : /\ m[0] = 0
                  /\ \A n \in 1..Len(path) : m[n] = (m[n - 1] + 1) + path[n].len
                  /\ PathLength(path) = m[Len(path)]
  <1> DEFINE L == Len(path)
             Is(m, n) == m = [k \in 0..n |-> IF k = 0 THEN 0
                                             ELSE (m[k - 1] + 1) + path[k].len]
             Good == {n \in 0..L : \E m : Is(m, n)}
             made == CHOOSE m : Is(m, L)
  <1>1. 0 \in Good
    <2> DEFINE one == [k \in 0..0 |-> 0]
    <2>1. \A k \in 0..0 : k = 0
      OBVIOUS
    <2>2. Is(one, 0)
      BY <2>1, Zenon
    <2>3. 0 \in 0..L
      OBVIOUS
    <2> QED
      BY <2>2, <2>3, Zenon
  <1>2. ASSUME NEW n \in 0..(L - 1), n \in Good
        PROVE  n + 1 \in Good
    <2>1. PICK m : Is(m, n)
      BY <1>2
    <2> DEFINE new == [k \in 0..(n + 1) |-> IF k = n + 1
                                            THEN (m[n] + 1) + path[n + 1].len
                                            ELSE m[k]]
    <2>2. \A k \in 0..n : m[k] = IF k = 0 THEN 0 ELSE (m[k - 1] + 1) + path[k].len
      BY <2>1
    <2>3. ASSUME NEW k \in 0..(n + 1)
          PROVE  new[k] = IF k = 0 THEN 0 ELSE (new[k - 1] + 1) + path[k].len
      <3>1. CASE k = n + 1
        <4>1. k # 0 /\ k - 1 = n /\ n \in 0..(n + 1) /\ n # n + 1
          BY <3>1
        <4>2. new[k - 1] = m[n] /\ new[k] = (m[n] + 1) + path[k].len
          BY <3>1, <4>1
        <4> QED
          BY <4>1, <4>2
      <3>2. CASE k # n + 1
        <4>1. k \in 0..n /\ (k # 0 => k - 1 \in 0..(n + 1) /\ k - 1 # n + 1)
          BY <3>2
        <4>2. new[k] = m[k] /\ (k # 0 => new[k - 1] = m[k - 1])
          BY <3>2, <4>1
        <4> QED
          BY <2>2, <4>1, <4>2
      <3> QED
        BY <3>1, <3>2
    <2>4. Is(new, n + 1)
      <3>1. new = [k \in 0..(n + 1) |-> new[k]]
        OBVIOUS
      <3> HIDE DEF new
      <3> QED
        BY <2>3, <3>1
    <2>5. n + 1 \in 0..L
      OBVIOUS
    <2> QED
      BY <2>4, <2>5
  <1>3. L \in Good
    <2> HIDE DEF Good
    <2>1. \A n \in 0..L : n \in Good
      BY <1>1, <1>2, CountUp
    <2> QED
      BY <2>1
  <1>4. Is(made, L)
    BY <1>3
  <1>5. PathLength(path) = made[L]
    BY DEF PathLength
  <1> HIDE DEF made
  <1>6. \A k \in 0..L : made[k] = IF k = 0 THEN 0 ELSE (made[k - 1] + 1) + path[k].len
    BY <1>4
  <1> QED
    BY <1>5, <1>6

LEMMA TempWalk ==
    ASSUME NEW comps, Len(comps) \in Nat
    PROVE  \E m : /\ m[0] = [out |-> <<>>, n |-> 0]
                  /\ \A n \in 1..Len(comps) : m[n] = Write(m[n - 1], comps[n])
                  /\ Temp(comps) = m[Len(comps)].out
  <1> DEFINE L == Len(comps)
             Is(m, n) == m = [k \in 0..n |-> IF k = 0 THEN [out |-> <<>>, n |-> 0]
                                             ELSE Write(m[k - 1], comps[k])]
             Good == {n \in 0..L : \E m : Is(m, n)}
             made == CHOOSE m : Is(m, L)
  <1>1. 0 \in Good
    <2> DEFINE one == [k \in 0..0 |-> [out |-> <<>>, n |-> 0]]
    <2>1. \A k \in 0..0 : k = 0
      OBVIOUS
    <2>2. Is(one, 0)
      BY <2>1, Zenon
    <2>3. 0 \in 0..L
      OBVIOUS
    <2> QED
      BY <2>2, <2>3, Zenon
  <1>2. ASSUME NEW n \in 0..(L - 1), n \in Good
        PROVE  n + 1 \in Good
    <2>1. PICK m : Is(m, n)
      BY <1>2
    <2> DEFINE new == [k \in 0..(n + 1) |-> IF k = n + 1
                                            THEN Write(m[n], comps[n + 1])
                                            ELSE m[k]]
    <2>2. \A k \in 0..n : m[k] = IF k = 0 THEN [out |-> <<>>, n |-> 0] ELSE Write(m[k - 1], comps[k])
      BY <2>1
    <2>3. ASSUME NEW k \in 0..(n + 1)
          PROVE  new[k] = IF k = 0 THEN [out |-> <<>>, n |-> 0] ELSE Write(new[k - 1], comps[k])
      <3>1. CASE k = n + 1
        <4>1. k # 0 /\ k - 1 = n /\ n \in 0..(n + 1) /\ n # n + 1
          BY <3>1
        <4>2. new[k - 1] = m[n] /\ new[k] = Write(m[n], comps[k])
          BY <3>1, <4>1
        <4> QED
          BY <4>1, <4>2
      <3>2. CASE k # n + 1
        <4>1. k \in 0..n /\ (k # 0 => k - 1 \in 0..(n + 1) /\ k - 1 # n + 1)
          BY <3>2
        <4>2. new[k] = m[k] /\ (k # 0 => new[k - 1] = m[k - 1])
          BY <3>2, <4>1
        <4> QED
          BY <2>2, <4>1, <4>2
      <3> QED
        BY <3>1, <3>2
    <2>4. Is(new, n + 1)
      <3>1. new = [k \in 0..(n + 1) |-> new[k]]
        OBVIOUS
      <3> HIDE DEF new
      <3> QED
        BY <2>3, <3>1
    <2>5. n + 1 \in 0..L
      OBVIOUS
    <2> QED
      BY <2>4, <2>5
  <1>3. L \in Good
    <2> HIDE DEF Good
    <2>1. \A n \in 0..L : n \in Good
      BY <1>1, <1>2, CountUp
    <2> QED
      BY <2>1
  <1>4. Is(made, L)
    BY <1>3
  <1>5. Temp(comps) = made[L].out
    BY DEF Temp
  <1> HIDE DEF made
  <1>6. \A k \in 0..L : made[k] = IF k = 0 THEN [out |-> <<>>, n |-> 0] ELSE Write(made[k - 1], comps[k])
    BY <1>4
  <1> QED
    BY <1>5, <1>6

LEMMA PushedWalk ==
    ASSUME NEW comps, Len(comps) \in Nat
    PROVE  \E m : /\ m[0] = <<>>
                  /\ \A n \in 1..Len(comps) : m[n] = Push(m[n - 1], comps[n])
                  /\ Pushed(comps) = m[Len(comps)]
  <1> DEFINE L == Len(comps)
             Is(m, n) == m = [k \in 0..n |-> IF k = 0 THEN <<>>
                                             ELSE Push(m[k - 1], comps[k])]
             Good == {n \in 0..L : \E m : Is(m, n)}
             made == CHOOSE m : Is(m, L)
  <1>1. 0 \in Good
    <2> DEFINE one == [k \in 0..0 |-> <<>>]
    <2>1. \A k \in 0..0 : k = 0
      OBVIOUS
    <2>2. Is(one, 0)
      BY <2>1, Zenon
    <2>3. 0 \in 0..L
      OBVIOUS
    <2> QED
      BY <2>2, <2>3, Zenon
  <1>2. ASSUME NEW n \in 0..(L - 1), n \in Good
        PROVE  n + 1 \in Good
    <2>1. PICK m : Is(m, n)
      BY <1>2
    <2> DEFINE new == [k \in 0..(n + 1) |-> IF k = n + 1
                                            THEN Push(m[n], comps[n + 1])
                                            ELSE m[k]]
    <2>2. \A k \in 0..n : m[k] = IF k = 0 THEN <<>> ELSE Push(m[k - 1], comps[k])
      BY <2>1
    <2>3. ASSUME NEW k \in 0..(n + 1)
          PROVE  new[k] = IF k = 0 THEN <<>> ELSE Push(new[k - 1], comps[k])
      <3>1. CASE k = n + 1
        <4>1. k # 0 /\ k - 1 = n /\ n \in 0..(n + 1) /\ n # n + 1
          BY <3>1
        <4>2. new[k - 1] = m[n] /\ new[k] = Push(m[n], comps[k])
          BY <3>1, <4>1
        <4> QED
          BY <4>1, <4>2
      <3>2. CASE k # n + 1
        <4>1. k \in 0..n /\ (k # 0 => k - 1 \in 0..(n + 1) /\ k - 1 # n + 1)
          BY <3>2
        <4>2. new[k] = m[k] /\ (k # 0 => new[k - 1] = m[k - 1])
          BY <3>2, <4>1
        <4> QED
          BY <2>2, <4>1, <4>2
      <3> QED
        BY <3>1, <3>2
    <2>4. Is(new, n + 1)
      <3>1. new = [k \in 0..(n + 1) |-> new[k]]
        OBVIOUS
      <3> HIDE DEF new
      <3> QED
        BY <2>3, <3>1
    <2>5. n + 1 \in 0..L
      OBVIOUS
    <2> QED
      BY <2>4, <2>5
  <1>3. L \in Good
    <2> HIDE DEF Good
    <2>1. \A n \in 0..L : n \in Good
      BY <1>1, <1>2, CountUp
    <2> QED
      BY <2>1
  <1>4. Is(made, L)
    BY <1>3
  <1>5. Pushed(comps) = made[L]
    BY DEF Pushed
  <1> HIDE DEF made
  <1>6. \A k \in 0..L : made[k] = IF k = 0 THEN <<>> ELSE Push(made[k - 1], comps[k])
    BY <1>4
  <1> QED
    BY <1>5, <1>6

LEMMA JoinedWalk ==
    ASSUME NEW comps, Len(comps) \in Nat
    PROVE  \E m : /\ m[0] = Root
                  /\ \A n \in 1..Len(comps) : m[n] = Join(m[n - 1], comps[n])
                  /\ Joined(comps) = m[Len(comps)]
  <1> DEFINE L == Len(comps)
             Is(m, n) == m = [k \in 0..n |-> IF k = 0 THEN Root
                                             ELSE Join(m[k - 1], comps[k])]
             Good == {n \in 0..L : \E m : Is(m, n)}
             made == CHOOSE m : Is(m, L)
  <1>1. 0 \in Good
    <2> DEFINE one == [k \in 0..0 |-> Root]
    <2>1. \A k \in 0..0 : k = 0
      OBVIOUS
    <2>2. Is(one, 0)
      BY <2>1, Zenon
    <2>3. 0 \in 0..L
      OBVIOUS
    <2> QED
      BY <2>2, <2>3, Zenon
  <1>2. ASSUME NEW n \in 0..(L - 1), n \in Good
        PROVE  n + 1 \in Good
    <2>1. PICK m : Is(m, n)
      BY <1>2
    <2> DEFINE new == [k \in 0..(n + 1) |-> IF k = n + 1
                                            THEN Join(m[n], comps[n + 1])
                                            ELSE m[k]]
    <2>2. \A k \in 0..n : m[k] = IF k = 0 THEN Root ELSE Join(m[k - 1], comps[k])
      BY <2>1
    <2>3. ASSUME NEW k \in 0..(n + 1)
          PROVE  new[k] = IF k = 0 THEN Root ELSE Join(new[k - 1], comps[k])
      <3>1. CASE k = n + 1
        <4>1. k # 0 /\ k - 1 = n /\ n \in 0..(n + 1) /\ n # n + 1
          BY <3>1
        <4>2. new[k - 1] = m[n] /\ new[k] = Join(m[n], comps[k])
          BY <3>1, <4>1
        <4> QED
          BY <4>1, <4>2
      <3>2. CASE k # n + 1
        <4>1. k \in 0..n /\ (k # 0 => k - 1 \in 0..(n + 1) /\ k - 1 # n + 1)
          BY <3>2
        <4>2. new[k] = m[k] /\ (k # 0 => new[k - 1] = m[k - 1])
          BY <3>2, <4>1
        <4> QED
          BY <2>2, <4>1, <4>2
      <3> QED
        BY <3>1, <3>2
    <2>4. Is(new, n + 1)
      <3>1. new = [k \in 0..(n + 1) |-> new[k]]
        OBVIOUS
      <3> HIDE DEF new
      <3> QED
        BY <2>3, <3>1
    <2>5. n + 1 \in 0..L
      OBVIOUS
    <2> QED
      BY <2>4, <2>5
  <1>3. L \in Good
    <2> HIDE DEF Good
    <2>1. \A n \in 0..L : n \in Good
      BY <1>1, <1>2, CountUp
    <2> QED
      BY <2>1
  <1>4. Is(made, L)
    BY <1>3
  <1>5. Joined(comps) = made[L]
    BY DEF Joined
  <1> HIDE DEF made
  <1>6. \A k \in 0..L : made[k] = IF k = 0 THEN Root ELSE Join(made[k - 1], comps[k])
    BY <1>4
  <1> QED
    BY <1>5, <1>6

PathSeq == Seq(Component)
NoDots(path) == \A i \in 1..Len(path) : path[i] \notin {Dot, DotDot}
Prefix(path, n) == SubSeq(path, 1, n)

LEMMA Components ==
    /\ \A x \in Component : x.len \in Nat
    /\ Dot \in Component /\ DotDot \in Component /\ Dot # DotDot
    /\ Dot.len = 1 /\ DotDot.len = 2
    /\ \A x \in Component, k \in Nat :
          1 <= k /\ k < x.len => Cut(x, k) \in Component /\ Cut(x, k).len = k
  <1>1. \A id \in STRING, k \in Nat : Comp(id, k) \in Component /\ Comp(id, k).len = k
    BY DEF Component, Comp
  <1>2. \A x \in Component : x.len \in Nat /\ (x \notin {Dot, DotDot} => x.id \in STRING)
    BY DEF Component, Comp, Dot, DotDot
  <1>3. Dot \in Component /\ DotDot \in Component /\ Dot.len = 1 /\ DotDot.len = 2
    BY DEF Component, Dot, DotDot, Comp
  <1>4. Dot # DotDot
    <2>1. Dot.len # DotDot.len
      BY <1>3
    <2> QED
      BY <2>1
  <1>5. ASSUME NEW x \in Component, NEW k \in Nat, 1 <= k, k < x.len
        PROVE  Cut(x, k) \in Component /\ Cut(x, k).len = k
    <2>1. CASE x = DotDot
      BY <1>3, <1>5, <2>1 DEF Cut
    <2>2. CASE x # DotDot
      <3>1. x # Dot
        BY <1>3, <1>5
      <3>2. x.id \in STRING
        BY <1>2, <2>2, <3>1
      <3>3. Cut(x, k) = Comp(x.id, k)
        BY <2>2 DEF Cut
      <3> QED
        BY <1>1, <3>2, <3>3
    <2> QED
      BY <2>1, <2>2
  <1> QED
    BY <1>2, <1>3, <1>4, <1>5

LEMMA PathParts ==
    ASSUME NEW path \in PathSeq
    PROVE  /\ Len(path) \in Nat
           /\ \A i \in 1..Len(path) : path[i] \in Component
           /\ path = <<>> <=> Len(path) = 0
  BY DEF PathSeq

LEMMA EmptyPath ==
    <<>> \in PathSeq /\ Len(<<>>) = 0 /\ NoDots(<<>>) /\ PathLength(<<>>) = 0
  <1>1. <<>> \in PathSeq /\ Len(<<>>) = 0
    BY DEF PathSeq
  <1>2. PathLength(<<>>) = 0
    BY <1>1, LengthWalk
  <1> QED
    BY <1>1, <1>2 DEF NoDots

LEMMA AppendPath ==
    ASSUME NEW path \in PathSeq, NEW x \in Component
    PROVE  /\ Append(path, x) \in PathSeq
           /\ Len(Append(path, x)) = Len(path) + 1
           /\ \A i \in 1..Len(path) : Append(path, x)[i] = path[i]
           /\ Append(path, x)[Len(path) + 1] = x
  BY DEF PathSeq

LEMMA FrontPath ==
    ASSUME NEW path \in PathSeq, path # <<>>
    PROVE  /\ Front(path) \in PathSeq
           /\ Len(Front(path)) = Len(path) - 1
           /\ \A i \in 1..(Len(path) - 1) : Front(path)[i] = path[i]
  <1>1. Len(path) \in Nat /\ Len(path) >= 1
    BY PathParts
  <1>2. Front(path) = [i \in 1..(Len(path) - 1) |-> path[i]]
    BY <1>1 DEF Front
  <1>3. [i \in 1..(Len(path) - 1) |-> path[i]] \in [1..(Len(path) - 1) -> Component]
    BY <1>1, PathParts
  <1>4. Len(path) - 1 \in Nat
    BY <1>1
  <1> QED
    BY <1>2, <1>3, <1>4 DEF PathSeq

LEMMA PrefixStep ==
    ASSUME NEW path \in PathSeq
    PROVE  /\ Prefix(path, 0) = <<>> /\ Prefix(path, Len(path)) = path
           /\ \A n \in 0..Len(path) : Prefix(path, n) \in PathSeq /\ Len(Prefix(path, n)) = n
           /\ \A n \in 0..(Len(path) - 1) :
                 Prefix(path, n + 1) = Append(Prefix(path, n), path[n + 1])
  <1>1. Len(path) \in Nat /\ path \in Seq(Component)
    BY PathParts DEF PathSeq
  <1>2. Prefix(path, 0) = <<>>
    BY DEF Prefix
  <1>3. Prefix(path, Len(path)) = path
    BY <1>1, SubSeqFull DEF Prefix
  <1>4. ASSUME NEW n \in 0..Len(path)
        PROVE  /\ Prefix(path, n) \in PathSeq /\ Len(Prefix(path, n)) = n
               /\ Prefix(path, n) = [i \in 1..n |-> path[i]]
    <2>1. Prefix(path, n) = [i \in 1..n |-> path[i]]
      BY <1>1 DEF Prefix
    <2>2. [i \in 1..n |-> path[i]] \in [1..n -> Component] /\ n \in Nat
      BY <1>1, PathParts
    <2> QED
      BY <2>1, <2>2 DEF PathSeq
  <1>5. ASSUME NEW n \in 0..(Len(path) - 1)
        PROVE  Prefix(path, n + 1) = Append(Prefix(path, n), path[n + 1])
    <2> DEFINE a == Prefix(path, n + 1)
               p == Prefix(path, n)
               b == Append(p, path[n + 1])
    <2>1. n \in 0..Len(path) /\ n + 1 \in 0..Len(path) /\ n + 1 \in 1..Len(path)
      BY <1>1
    <2>2. /\ a \in PathSeq /\ Len(a) = n + 1 /\ a = [i \in 1..(n + 1) |-> path[i]]
          /\ p \in PathSeq /\ Len(p) = n /\ p = [i \in 1..n |-> path[i]]
      BY <1>4, <2>1
    <2>3. path[n + 1] \in Component
      BY <2>1, PathParts
    <2> HIDE DEF p
    <2>4. /\ b \in PathSeq /\ Len(b) = n + 1 /\ b[n + 1] = path[n + 1]
          /\ \A i \in 1..n : b[i] = p[i]
      BY <2>2, <2>3, AppendPath
    <2> HIDE DEF a, b
    <2>5. ASSUME NEW i \in 1..(n + 1) PROVE a[i] = b[i]
      <3>1. CASE i = n + 1
        BY <2>2, <2>4, <3>1
      <3>2. CASE i # n + 1
        <4>1. i \in 1..n
          BY <3>2
        <4> QED
          BY <2>2, <2>4, <4>1
      <3> QED
        BY <3>1, <3>2
    <2>6. /\ a \in Seq(Component) /\ b \in Seq(Component) /\ Len(a) = Len(b)
          /\ \A i \in 1..Len(a) : a[i] = b[i]
      BY <2>2, <2>4, <2>5 DEF PathSeq
    <2>7. a = b
      BY <2>6, SeqEqual, Zenon
    <2> QED
      BY <2>7 DEF a, b, p
  <1> QED
    BY <1>2, <1>3, <1>4, <1>5

LEMMA LengthType ==
    ASSUME NEW path \in PathSeq
    PROVE  PathLength(path) \in Nat
  <1>1. Len(path) \in Nat /\ \A i \in 1..Len(path) : path[i].len \in Nat
    BY PathParts, Components
  <1>2. PICK m : /\ m[0] = 0 /\ PathLength(path) = m[Len(path)]
                 /\ \A n \in 1..Len(path) : m[n] = (m[n - 1] + 1) + path[n].len
    BY <1>1, LengthWalk
  <1> DEFINE Good == {n \in 0..Len(path) : m[n] \in Nat}
  <1>3. 0 \in Good
    BY <1>1, <1>2
  <1>4. ASSUME NEW n \in 0..(Len(path) - 1), n \in Good PROVE n + 1 \in Good
    <2>1. n + 1 \in 1..Len(path) /\ (n + 1) - 1 = n /\ n + 1 \in 0..Len(path)
      BY <1>1
    <2>2. m[n + 1] = (m[n] + 1) + path[n + 1].len
      BY <1>2, <2>1
    <2> QED
      BY <1>1, <1>4, <2>1, <2>2
  <1>5. Len(path) \in Good
    <2> HIDE DEF Good
    <2>1. \A n \in 0..Len(path) : n \in Good
      BY <1>1, <1>3, <1>4, CountUp
    <2> QED
      BY <1>1, <2>1
  <1> QED
    BY <1>2, <1>5

LEMMA LengthAppend ==
    ASSUME NEW path \in PathSeq, NEW x \in Component
    PROVE  PathLength(Append(path, x)) = (PathLength(path) + 1) + x.len
  <1> DEFINE L == Len(path)
             longer == Append(path, x)
  <1>1. L \in Nat
    BY PathParts
  <1>2. /\ Len(longer) = L + 1 /\ longer[L + 1] = x
        /\ \A i \in 1..L : longer[i] = path[i]
    BY AppendPath
  <1> HIDE DEF longer
  <1>3. PICK m : /\ m[0] = 0 /\ PathLength(path) = m[L]
                 /\ \A n \in 1..L : m[n] = (m[n - 1] + 1) + path[n].len
    BY <1>1, LengthWalk
  <1>4. PICK k : /\ k[0] = 0 /\ PathLength(longer) = k[L + 1]
                 /\ \A n \in 1..(L + 1) : k[n] = (k[n - 1] + 1) + longer[n].len
    <2>1. Len(longer) \in Nat
      BY <1>1, <1>2
    <2>2. \E k : /\ k[0] = 0
                 /\ \A n \in 1..Len(longer) : k[n] = (k[n - 1] + 1) + longer[n].len
                 /\ PathLength(longer) = k[Len(longer)]
      BY <2>1, LengthWalk, Zenon
    <2> QED
      BY <1>2, <2>2
  <1> DEFINE Good == {n \in 0..L : k[n] = m[n]}
  <1>5. 0 \in Good
    BY <1>1, <1>3, <1>4
  <1>6. ASSUME NEW n \in 0..(L - 1), n \in Good PROVE n + 1 \in Good
    <2>1. /\ n + 1 \in 1..L /\ n + 1 \in 1..(L + 1) /\ (n + 1) - 1 = n
          /\ n + 1 \in 0..L
      BY <1>1
    <2>2. m[n + 1] = (m[n] + 1) + path[n + 1].len
      BY <1>3, <2>1
    <2>3. k[n + 1] = (k[n] + 1) + longer[n + 1].len
      BY <1>4, <2>1
    <2>4. longer[n + 1] = path[n + 1] /\ k[n] = m[n]
      BY <1>2, <1>6, <2>1
    <2> QED
      BY <2>1, <2>2, <2>3, <2>4
  <1>7. L \in Good
    <2> HIDE DEF Good
    <2>1. \A n \in 0..L : n \in Good
      BY <1>1, <1>5, <1>6, CountUp
    <2> QED
      BY <1>1, <2>1
  <1>8. k[L + 1] = (k[L] + 1) + longer[L + 1].len
    <2>1. L + 1 \in 1..(L + 1) /\ (L + 1) - 1 = L
      BY <1>1
    <2> QED
      BY <1>4, <2>1
  <1> QED
    BY <1>2, <1>3, <1>4, <1>7, <1>8 DEF longer

(* No part of a path is longer than the path.                              *)
LEMMA PrefixShorter ==
    ASSUME NEW path \in PathSeq, NEW n \in 0..Len(path)
    PROVE  PathLength(Prefix(path, n)) <= PathLength(path)
  <1> DEFINE L == Len(path)
             g(k) == PathLength(Prefix(path, k))
             Good == {k \in 0..L : \A j \in 0..k : g(j) <= g(k)}
  <1>1. L \in Nat
    BY PathParts
  <1>2. \A k \in 0..L : g(k) \in Nat
    BY PrefixStep, LengthType
  <1>3. \A k \in 0..(L - 1) : g(k) <= g(k + 1)
    <2> TAKE k \in 0..(L - 1)
    <2>1. k \in 0..L /\ k + 1 \in 1..L /\ k + 1 \in 0..L
      BY <1>1
    <2>2. path[k + 1] \in Component /\ path[k + 1].len \in Nat
      BY <2>1, PathParts, Components
    <2>3. g(k + 1) = (g(k) + 1) + path[k + 1].len
      BY <2>1, <2>2, PrefixStep, LengthAppend
    <2> HIDE DEF g
    <2> QED
      BY <1>2, <2>1, <2>2, <2>3
  <1> HIDE DEF g
  <1>4. 0 \in Good
    <2>1. \A j \in 0..0 : j = 0
      OBVIOUS
    <2> QED
      BY <1>1, <1>2, <2>1
  <1>5. ASSUME NEW k \in 0..(L - 1), k \in Good PROVE k + 1 \in Good
    <2>1. k \in 0..L /\ k + 1 \in 0..L
      BY <1>1
    <2>2. ASSUME NEW j \in 0..(k + 1) PROVE g(j) <= g(k + 1)
      <3>1. CASE j = k + 1
        BY <1>2, <2>1, <3>1
      <3>2. CASE j # k + 1
        <4>1. j \in 0..k /\ j \in 0..L
          BY <1>1, <3>2
        <4>2. g(j) <= g(k) /\ g(k) <= g(k + 1)
          BY <1>3, <1>5, <4>1
        <4> QED
          BY <1>2, <2>1, <4>1, <4>2
      <3> QED
        BY <3>1, <3>2
    <2> QED
      BY <2>1, <2>2
  <1>6. L \in Good
    <2> HIDE DEF Good
    <2>1. \A k \in 0..L : k \in Good
      BY <1>1, <1>4, <1>5, CountUp
    <2> QED
      BY <1>1, <2>1
  <1>7. g(n) <= g(L)
    BY <1>6
  <1> QED
    BY <1>7, PrefixStep DEF g

(* A path that fits in temp is not cut.                                    *)
LEMMA TempKeeps ==
    ASSUME NEW comps \in PathSeq, PathLength(comps) <= TempMax
    PROVE  Temp(comps) = comps
  <1> DEFINE L == Len(comps)
             P(n) == Prefix(comps, n)
             g(n) == PathLength(P(n))
  <1>1. L \in Nat /\ TempMax \in Nat
    BY PathParts, FsPathAssumption DEF TempMax
  <1>2. PICK m : /\ m[0] = [out |-> <<>>, n |-> 0] /\ Temp(comps) = m[L].out
                 /\ \A n \in 1..L : m[n] = Write(m[n - 1], comps[n])
    BY <1>1, TempWalk
  <1> DEFINE Good == {n \in 0..L : m[n] = [out |-> P(n), n |-> g(n)]}
  <1>3. 0 \in Good
    <2>1. P(0) = <<>> /\ g(0) = 0
      BY PrefixStep, EmptyPath
    <2> QED
      BY <1>1, <1>2, <2>1
  <1>4. ASSUME NEW n \in 0..(L - 1), n \in Good PROVE n + 1 \in Good
    <2>1. n + 1 \in 1..L /\ (n + 1) - 1 = n /\ n + 1 \in 0..L /\ n \in 0..L
      BY <1>1
    <2>2. comps[n + 1] \in Component /\ comps[n + 1].len \in Nat
      BY <2>1, PathParts, Components
    <2>3. P(n) \in PathSeq /\ P(n + 1) = Append(P(n), comps[n + 1])
      BY <2>1, PrefixStep
    <2>4. g(n) \in Nat /\ g(n + 1) = (g(n) + 1) + comps[n + 1].len
      BY <2>2, <2>3, LengthType, LengthAppend
    <2>5. g(n + 1) <= PathLength(comps) /\ PathLength(comps) \in Nat
      BY <2>1, PrefixShorter, LengthType
    <2>6. m[n + 1] = Write(m[n], comps[n + 1]) /\ m[n] = [out |-> P(n), n |-> g(n)]
      BY <1>2, <1>4, <2>1
    <2> HIDE DEF P, g
    <2>7. (TempMax - g(n)) - 1 >= comps[n + 1].len
      BY <1>1, <2>2, <2>4, <2>5
    <2>8. Write(m[n], comps[n + 1]) =
            [out |-> Append(P(n), comps[n + 1]), n |-> (g(n) + 1) + comps[n + 1].len]
      BY <2>6, <2>7 DEF Write
    <2> QED
      BY <2>1, <2>3, <2>4, <2>6, <2>8
  <1>5. L \in Good
    <2> HIDE DEF Good
    <2>1. \A n \in 0..L : n \in Good
      BY <1>1, <1>3, <1>4, CountUp
    <2> QED
      BY <1>1, <2>1
  <1>6. P(L) = comps
    BY PrefixStep
  <1> QED
    BY <1>2, <1>5, <1>6

LEMMA TempType ==
    ASSUME NEW comps \in PathSeq
    PROVE  Temp(comps) \in PathSeq
  <1> DEFINE L == Len(comps)
  <1>1. L \in Nat /\ TempMax \in Nat
    BY PathParts, FsPathAssumption DEF TempMax
  <1>2. PICK m : /\ m[0] = [out |-> <<>>, n |-> 0] /\ Temp(comps) = m[L].out
                 /\ \A n \in 1..L : m[n] = Write(m[n - 1], comps[n])
    BY <1>1, TempWalk
  <1> DEFINE Good == {n \in 0..L : m[n].out \in PathSeq /\ m[n].n \in 0..TempMax}
  <1>3. 0 \in Good
    BY <1>1, <1>2, EmptyPath
  <1>4. ASSUME NEW n \in 0..(L - 1), n \in Good PROVE n + 1 \in Good
    <2>1. n + 1 \in 1..L /\ (n + 1) - 1 = n /\ n + 1 \in 0..L
      BY <1>1
    <2> DEFINE x == comps[n + 1]
               k == m[n].n
               s == m[n].out
               new == m[n + 1]
               room == (TempMax - k) - 1
    <2>2. x \in Component /\ x.len \in Nat
      BY <2>1, PathParts, Components
    <2>3. new = Write(m[n], x) /\ s \in PathSeq /\ k \in 0..TempMax
      BY <1>2, <1>4, <2>1
    <2>4. new = IF room >= x.len
                THEN [out |-> Append(s, x), n |-> (k + 1) + x.len]
                ELSE [out |-> IF room >= 1 THEN Append(s, Cut(x, room)) ELSE s,
                      n   |-> TempMax]
      BY <2>3 DEF Write
    <2> HIDE DEF x, k, s, new
    <2>5. TempMax \in 0..TempMax
      BY <1>1
    <2>6. CASE room >= x.len
      <3>1. new.out = Append(s, x) /\ new.n = (k + 1) + x.len
        BY <2>4, <2>6
      <3>2. (k + 1) + x.len \in 0..TempMax
        BY <1>1, <2>2, <2>3, <2>6
      <3>3. new.out \in PathSeq /\ new.n \in 0..TempMax
        BY <2>2, <2>3, <3>1, <3>2, AppendPath
      <3> QED
        BY <2>1, <3>3 DEF new
    <2>7. CASE ~(room >= x.len) /\ room >= 1
      <3>1. new.out = Append(s, Cut(x, room)) /\ new.n = TempMax
        BY <2>4, <2>7
      <3>2. room \in Nat /\ 1 <= room /\ room < x.len
        BY <1>1, <2>2, <2>3, <2>7
      <3> HIDE DEF room
      <3>3. Cut(x, room) \in Component
        BY <2>2, <3>2, Components
      <3>4. new.out \in PathSeq /\ new.n \in 0..TempMax
        BY <2>3, <2>5, <3>1, <3>3, AppendPath
      <3> QED
        BY <2>1, <3>4 DEF new
    <2>8. CASE ~(room >= x.len) /\ ~(room >= 1)
      <3>1. new.out = s /\ new.n = TempMax
        BY <2>4, <2>8
      <3>2. new.out \in PathSeq /\ new.n \in 0..TempMax
        BY <2>3, <2>5, <3>1
      <3> QED
        BY <2>1, <3>2 DEF new
    <2> QED
      BY <2>6, <2>7, <2>8
  <1>5. L \in Good
    <2> HIDE DEF Good
    <2>1. \A n \in 0..L : n \in Good
      BY <1>1, <1>3, <1>4, CountUp
    <2> QED
      BY <1>1, <2>1
  <1> QED
    BY <1>2, <1>5

(* Whatever is pushed, comps[] never outgrows its room and holds no dots.  *)
LEMMA PushedPlain ==
    ASSUME NEW comps \in PathSeq
    PROVE  /\ Pushed(comps) \in PathSeq /\ NoDots(Pushed(comps))
           /\ Len(Pushed(comps)) <= MAX_COMPS
  <1> DEFINE L == Len(comps)
             Plain(s) == s \in PathSeq /\ NoDots(s) /\ Len(s) <= MAX_COMPS
  <1>1. L \in Nat /\ MAX_COMPS \in Nat
    BY PathParts, FsPathAssumption
  <1>2. PICK m : /\ m[0] = <<>> /\ Pushed(comps) = m[L]
                 /\ \A n \in 1..L : m[n] = Push(m[n - 1], comps[n])
    BY <1>1, PushedWalk
  <1> DEFINE Good == {n \in 0..L : Plain(m[n])}
  <1>3. 0 \in Good
    BY <1>1, <1>2, EmptyPath
  <1>4. ASSUME NEW s, Plain(s), NEW x \in Component
        PROVE  Plain(Push(s, x))
    <2>1. CASE Push(s, x) = s
      BY <1>4, <2>1
    <2>2. CASE s # <<>> /\ Push(s, x) = Front(s)
      <3>1. /\ Front(s) \in PathSeq /\ Len(Front(s)) = Len(s) - 1 /\ Len(s) \in Nat
            /\ \A i \in 1..(Len(s) - 1) : Front(s)[i] = s[i]
        BY <1>4, <2>2, FrontPath, PathParts
      <3>2. NoDots(Front(s))
        BY <1>4, <3>1 DEF NoDots
      <3>3. Len(Front(s)) <= MAX_COMPS
        BY <1>1, <1>4, <3>1
      <3> QED
        BY <2>2, <3>1, <3>2, <3>3
    <2>3. CASE x \notin {Dot, DotDot} /\ Len(s) < MAX_COMPS /\ Push(s, x) = Append(s, x)
      <3> DEFINE b == Append(s, x)
      <3>1. /\ b \in PathSeq /\ Len(b) = Len(s) + 1 /\ Len(s) \in Nat
            /\ b[Len(s) + 1] = x
            /\ \A i \in 1..Len(s) : b[i] = s[i]
        BY <1>4, AppendPath, PathParts
      <3> HIDE DEF b
      <3>2. ASSUME NEW i \in 1..Len(b) PROVE b[i] \notin {Dot, DotDot}
        <4>1. CASE i = Len(s) + 1
          BY <2>3, <3>1, <4>1
        <4>2. CASE i # Len(s) + 1
          <5>1. i \in 1..Len(s)
            BY <3>1, <4>2
          <5> QED
            BY <1>4, <3>1, <5>1 DEF NoDots
        <4> QED
          BY <4>1, <4>2
      <3>3. NoDots(b)
        BY <3>2 DEF NoDots
      <3>4. Len(b) <= MAX_COMPS
        BY <1>1, <2>3, <3>1
      <3> QED
        BY <2>3, <3>1, <3>3, <3>4 DEF b
    <2> QED
      BY <2>1, <2>2, <2>3 DEF Push
  <1>5. ASSUME NEW n \in 0..(L - 1), n \in Good PROVE n + 1 \in Good
    <2>1. n + 1 \in 1..L /\ (n + 1) - 1 = n /\ n + 1 \in 0..L
      BY <1>1
    <2>2. comps[n + 1] \in Component /\ m[n + 1] = Push(m[n], comps[n + 1])
      BY <1>2, <2>1, PathParts
    <2> HIDE DEF Plain
    <2> QED
      BY <1>4, <1>5, <2>1, <2>2
  <1>6. L \in Good
    <2> HIDE DEF Good
    <2>1. \A n \in 0..L : n \in Good
      BY <1>1, <1>3, <1>5, CountUp
    <2> QED
      BY <1>1, <2>1
  <1> QED
    BY <1>2, <1>6

LEMMA PushKeeps ==
    ASSUME NEW comps \in PathSeq, NoDots(comps), Len(comps) <= MAX_COMPS
    PROVE  Pushed(comps) = comps
  <1> DEFINE L == Len(comps)
             P(n) == Prefix(comps, n)
  <1>1. L \in Nat /\ MAX_COMPS \in Nat
    BY PathParts, FsPathAssumption
  <1>2. PICK m : /\ m[0] = <<>> /\ Pushed(comps) = m[L]
                 /\ \A n \in 1..L : m[n] = Push(m[n - 1], comps[n])
    BY <1>1, PushedWalk
  <1> DEFINE Good == {n \in 0..L : m[n] = P(n)}
  <1>3. 0 \in Good
    BY <1>1, <1>2, PrefixStep
  <1>4. ASSUME NEW n \in 0..(L - 1), n \in Good PROVE n + 1 \in Good
    <2>1. /\ n + 1 \in 1..L /\ (n + 1) - 1 = n /\ n + 1 \in 0..L /\ n \in 0..L
          /\ n < MAX_COMPS
      BY <1>1
    <2>2. P(n + 1) = Append(P(n), comps[n + 1]) /\ Len(P(n)) = n
      BY <2>1, PrefixStep
    <2>3. m[n + 1] = Push(P(n), comps[n + 1])
      BY <1>2, <1>4, <2>1
    <2>4. comps[n + 1] \notin {Dot, DotDot}
      BY <2>1 DEF NoDots
    <2> HIDE DEF P
    <2>5. Push(P(n), comps[n + 1]) = Append(P(n), comps[n + 1])
      BY <2>1, <2>2, <2>4 DEF Push
    <2> QED
      BY <2>1, <2>2, <2>3, <2>5
  <1>5. L \in Good
    <2> HIDE DEF Good
    <2>1. \A n \in 0..L : n \in Good
      BY <1>1, <1>3, <1>4, CountUp
    <2> QED
      BY <1>1, <2>1
  <1> QED
    BY <1>2, <1>5, PrefixStep

(* What is joined fits the buffer with the terminating zero, whatever the  *)
(* names and however many are left out.                                    *)
LEMMA JoinedCanonical ==
    ASSUME NEW comps \in PathSeq, NoDots(comps), Len(comps) <= MAX_COMPS
    PROVE  IsCanonical(Joined(comps))
  <1> DEFINE L == Len(comps)
             Fine(s) == s \in PathSeq /\ NoDots(s) /\ PathLength(s) < FS_MAX_PATH
  <1>1. L \in Nat /\ MAX_COMPS \in Nat /\ FS_MAX_PATH \in Nat \ {0}
    BY PathParts, FsPathAssumption
  <1>2. PICK m : /\ m[0] = Root /\ Joined(comps) = m[L]
                 /\ \A n \in 1..L : m[n] = Join(m[n - 1], comps[n])
    BY <1>1, JoinedWalk
  <1> DEFINE Good == {n \in 0..L : Fine(m[n]) /\ Len(m[n]) <= n}
  <1>3. 0 \in Good
    BY <1>1, <1>2, EmptyPath DEF Root
  <1>4. ASSUME NEW s, Fine(s), NEW x \in Component, x \notin {Dot, DotDot}
        PROVE  Fine(Join(s, x)) /\ Len(Join(s, x)) <= Len(s) + 1
    <2>0. Len(s) \in Nat
      BY <1>4, PathParts
    <2>1. CASE Join(s, x) = s
      BY <1>4, <2>0, <2>1
    <2>2. CASE (PathLength(s) + 1) + x.len < FS_MAX_PATH /\ Join(s, x) = Append(s, x)
      <3> DEFINE b == Append(s, x)
      <3>1. /\ b \in PathSeq /\ Len(b) = Len(s) + 1
            /\ b[Len(s) + 1] = x /\ PathLength(b) = (PathLength(s) + 1) + x.len
            /\ \A i \in 1..Len(s) : b[i] = s[i]
        BY <1>4, AppendPath, LengthAppend
      <3> HIDE DEF b
      <3>2. ASSUME NEW i \in 1..Len(b) PROVE b[i] \notin {Dot, DotDot}
        <4>1. CASE i = Len(s) + 1
          BY <1>4, <3>1, <4>1
        <4>2. CASE i # Len(s) + 1
          <5>1. i \in 1..Len(s)
            BY <2>0, <3>1, <4>2
          <5> QED
            BY <1>4, <3>1, <5>1 DEF NoDots
        <4> QED
          BY <4>1, <4>2
      <3>3. NoDots(b)
        BY <3>2 DEF NoDots
      <3> QED
        BY <2>0, <2>2, <3>1, <3>3 DEF b
    <2> QED
      BY <2>1, <2>2 DEF Join
  <1>5. ASSUME NEW n \in 0..(L - 1), n \in Good PROVE n + 1 \in Good
    <2>1. n + 1 \in 1..L /\ (n + 1) - 1 = n /\ n + 1 \in 0..L
      BY <1>1
    <2>2. /\ comps[n + 1] \in Component /\ m[n + 1] = Join(m[n], comps[n + 1])
          /\ comps[n + 1] \notin {Dot, DotDot}
      BY <1>2, <2>1, PathParts DEF NoDots
    <2>3. Fine(m[n]) /\ Len(m[n]) <= n /\ Len(m[n]) \in Nat
      BY <1>5, PathParts
    <2>4. Fine(m[n + 1]) /\ Len(m[n + 1]) <= Len(m[n]) + 1 /\ Len(m[n + 1]) \in Nat
      BY <1>4, <2>2, <2>3, PathParts
    <2>5. Len(m[n + 1]) <= n + 1
      BY <2>3, <2>4
    <2> QED
      BY <2>1, <2>4, <2>5
  <1>6. L \in Good
    <2> HIDE DEF Good
    <2>1. \A n \in 0..L : n \in Good
      BY <1>1, <1>3, <1>5, CountUp
    <2> QED
      BY <1>1, <2>1
  <1>7. /\ m[L] \in PathSeq /\ NoDots(m[L]) /\ PathLength(m[L]) < FS_MAX_PATH
        /\ Len(m[L]) <= L /\ Len(m[L]) \in Nat
    BY <1>6, PathParts
  <1>8. Len(m[L]) <= MAX_COMPS
    BY <1>1, <1>7
  <1> QED
    BY <1>2, <1>7, <1>8 DEF IsCanonical, PathSeq, NoDots

LEMMA JoinKeeps ==
    ASSUME NEW comps \in PathSeq, PathLength(comps) < FS_MAX_PATH
    PROVE  Joined(comps) = comps
  <1> DEFINE L == Len(comps)
             P(n) == Prefix(comps, n)
             g(n) == PathLength(P(n))
  <1>1. L \in Nat /\ FS_MAX_PATH \in Nat
    BY PathParts, FsPathAssumption
  <1>2. PICK m : /\ m[0] = Root /\ Joined(comps) = m[L]
                 /\ \A n \in 1..L : m[n] = Join(m[n - 1], comps[n])
    BY <1>1, JoinedWalk
  <1> DEFINE Good == {n \in 0..L : m[n] = P(n)}
  <1>3. 0 \in Good
    BY <1>1, <1>2, PrefixStep DEF Root
  <1>4. ASSUME NEW n \in 0..(L - 1), n \in Good PROVE n + 1 \in Good
    <2>1. n + 1 \in 1..L /\ (n + 1) - 1 = n /\ n + 1 \in 0..L /\ n \in 0..L
      BY <1>1
    <2>2. comps[n + 1] \in Component /\ comps[n + 1].len \in Nat
      BY <2>1, PathParts, Components
    <2>3. P(n) \in PathSeq /\ P(n + 1) = Append(P(n), comps[n + 1])
      BY <2>1, PrefixStep
    <2>4. g(n) \in Nat /\ g(n + 1) = (g(n) + 1) + comps[n + 1].len
      BY <2>2, <2>3, LengthType, LengthAppend
    <2>5. g(n + 1) <= PathLength(comps) /\ PathLength(comps) \in Nat
      BY <2>1, PrefixShorter, LengthType
    <2>6. m[n + 1] = Join(P(n), comps[n + 1])
      BY <1>2, <1>4, <2>1
    <2>7. (PathLength(P(n)) + 1) + comps[n + 1].len < FS_MAX_PATH
      <3>1. (g(n) + 1) + comps[n + 1].len < FS_MAX_PATH
        <4> HIDE DEF P, g
        <4> QED
          BY <1>1, <2>2, <2>4, <2>5
      <3> QED
        BY <3>1
    <2> HIDE DEF P, g
    <2>8. Join(P(n), comps[n + 1]) = Append(P(n), comps[n + 1])
      BY <2>7 DEF Join
    <2> QED
      BY <2>1, <2>3, <2>6, <2>8
  <1>5. L \in Good
    <2> HIDE DEF Good
    <2>1. \A n \in 0..L : n \in Good
      BY <1>1, <1>3, <1>4, CountUp
    <2> QED
      BY <1>1, <2>1
  <1> QED
    BY <1>2, <1>5, PrefixStep

(* What fs_resolve_path returns fits in a path buffer with its terminating *)
(* zero and has no dots, whatever was typed and wherever the shell stands: *)
(* the strncpy of fs_create and fs_mkdir copies all of it.                 *)
THEOREM ResolvedIsCanonical ==
    ASSUME NEW cwd \in Seq(Component), NEW arg, arg.comps \in Seq(Component)
    PROVE  IsCanonical(fs_resolve_path(cwd, arg))
  <1> DEFINE full == Full(cwd, arg)
  <1>1. full \in PathSeq
    BY DEF Full, PathSeq
  <1> HIDE DEF full
  <1>2. Temp(full) \in PathSeq
    BY <1>1, TempType
  <1>3. /\ Pushed(Temp(full)) \in PathSeq /\ NoDots(Pushed(Temp(full)))
        /\ Len(Pushed(Temp(full))) <= MAX_COMPS
    BY <1>2, PushedPlain
  <1> QED
    BY <1>3, JoinedCanonical DEF fs_resolve_path, full

(* A canonical path, typed with its slash, is resolved to itself.          *)
THEOREM CanonicalResolvesToItself ==
    ASSUME NEW arg, arg.abs, IsCanonical(arg.comps), NEW cwd
    PROVE  fs_resolve_path(cwd, arg) = arg.comps
  <1> DEFINE path == arg.comps
  <1>1. Full(cwd, arg) = path
    BY DEF Full
  <1>2. /\ path \in PathSeq /\ NoDots(path) /\ Len(path) <= MAX_COMPS
        /\ PathLength(path) < FS_MAX_PATH
    BY DEF IsCanonical, PathSeq, NoDots
  <1> HIDE DEF path
  <1>3. PathLength(path) <= TempMax
    BY <1>2, LengthType, FsPathAssumption DEF TempMax
  <1>4. Temp(path) = path /\ Pushed(path) = path /\ Joined(path) = path
    BY <1>2, <1>3, TempKeeps, PushKeeps, JoinKeeps
  <1> QED
    BY <1>1, <1>4 DEF fs_resolve_path, path

(* The reference, read from the right: what each suffix leaves.            *)
LEMMA ReferenceWalk ==
    ASSUME NEW comps, Len(comps) \in Nat
    PROVE  \E w : /\ w[Len(comps) + 1] = [out |-> <<>>, ups |-> 0]
                  /\ \A i \in 1..Len(comps) : w[i] = Standing(w[i + 1], comps[i])
                  /\ Reference(comps) = w[1].out
  <1> DEFINE L == Len(comps)
             Is(w, a) == w = [i \in a..(L + 1) |->
                                IF i = L + 1 THEN [out |-> <<>>, ups |-> 0]
                                             ELSE Standing(w[i + 1], comps[i])]
             Good == {n \in 0..L : \E w : Is(w, (L + 1) - n)}
             made == CHOOSE w : Is(w, 1)
  <1>1. 0 \in Good
    <2> DEFINE one == [i \in (L + 1)..(L + 1) |-> [out |-> <<>>, ups |-> 0]]
    <2>1. \A i \in (L + 1)..(L + 1) : i = L + 1
      OBVIOUS
    <2>2. Is(one, L + 1)
      BY <2>1, Zenon
    <2>3. 0 \in 0..L /\ (L + 1) - 0 = L + 1
      OBVIOUS
    <2> QED
      BY <2>2, <2>3
  <1>2. ASSUME NEW n \in 0..(L - 1), n \in Good
        PROVE  n + 1 \in Good
    <2> DEFINE a == L - n
    <2>0. /\ (L + 1) - n = a + 1 /\ (L + 1) - (n + 1) = a /\ a \in 1..L
          /\ n + 1 \in 0..L
      OBVIOUS
    <2>1. PICK w : Is(w, a + 1)
      BY <1>2, <2>0
    <2> HIDE DEF a
    <2> DEFINE new == [i \in a..(L + 1) |-> IF i = a THEN Standing(w[a + 1], comps[a])
                                                     ELSE w[i]]
    <2>2. \A i \in (a + 1)..(L + 1) : w[i] = IF i = L + 1 THEN [out |-> <<>>, ups |-> 0]
                                             ELSE Standing(w[i + 1], comps[i])
      BY <2>1
    <2>3. ASSUME NEW i \in a..(L + 1)
          PROVE  new[i] = IF i = L + 1 THEN [out |-> <<>>, ups |-> 0]
                          ELSE Standing(new[i + 1], comps[i])
      <3>1. CASE i = a
        <4>1. i # L + 1 /\ i + 1 = a + 1 /\ i + 1 \in a..(L + 1) /\ i + 1 # a
          BY <2>0, <3>1
        <4>2. new[i + 1] = w[a + 1] /\ new[i] = Standing(w[a + 1], comps[i])
          BY <3>1, <4>1
        <4> QED
          BY <4>1, <4>2
      <3>2. CASE i # a
        <4>1. /\ i \in (a + 1)..(L + 1)
              /\ i # L + 1 => i + 1 \in a..(L + 1) /\ i + 1 # a
          BY <2>0, <3>2
        <4>2. new[i] = w[i] /\ (i # L + 1 => new[i + 1] = w[i + 1])
          BY <3>2, <4>1
        <4> QED
          BY <2>2, <4>1, <4>2
      <3> QED
        BY <3>1, <3>2
    <2>4. Is(new, a)
      <3>1. new = [i \in a..(L + 1) |-> new[i]]
        OBVIOUS
      <3> HIDE DEF new
      <3> QED
        BY <2>3, <3>1
    <2> QED
      BY <2>0, <2>4
  <1>3. \E w : Is(w, 1)
    <2>0. L \in Good
      <3> HIDE DEF Good
      <3>1. \A n \in 0..L : n \in Good
        BY <1>1, <1>2, CountUp
      <3> QED
        BY <3>1
    <2>1. (L + 1) - L = 1
      OBVIOUS
    <2> QED
      BY <2>0, <2>1
  <1>4. Is(made, 1)
    BY <1>3
  <1>5. Reference(comps) = made[1].out
    BY DEF Reference
  <1> HIDE DEF made
  <1>6. \A i \in 1..(L + 1) : made[i] = IF i = L + 1 THEN [out |-> <<>>, ups |-> 0]
                                        ELSE Standing(made[i + 1], comps[i])
    BY <1>4
  <1>7. L + 1 \in 1..(L + 1) /\ \A i \in 1..L : i \in 1..(L + 1) /\ i # L + 1
    OBVIOUS
  <1> QED
    BY <1>5, <1>6, <1>7

(* A stack without the last k of its names, all of them if it has no more. *)
Kept(s, k) == SubSeq(s, 1, IF Len(s) > k THEN Len(s) - k ELSE 0)

LEMMA KeptParts ==
    ASSUME NEW s \in PathSeq, NEW k \in Nat
    PROVE  /\ Kept(s, k) \in PathSeq
           /\ Len(Kept(s, k)) = IF Len(s) > k THEN Len(s) - k ELSE 0
           /\ \A i \in 1..Len(Kept(s, k)) : Kept(s, k)[i] = s[i]
  <1> DEFINE n == IF Len(s) > k THEN Len(s) - k ELSE 0
  <1>1. n \in 0..Len(s) /\ Len(s) \in Nat
    BY PathParts
  <1>2. Kept(s, k) = Prefix(s, n)
    BY DEF Kept, Prefix
  <1> HIDE DEF n
  <1>3. Prefix(s, n) \in PathSeq /\ Len(Prefix(s, n)) = n
    BY <1>1, PrefixStep
  <1>4. Prefix(s, n) = [i \in 1..n |-> s[i]]
    BY <1>1 DEF Prefix, PathSeq
  <1> QED
    BY <1>2, <1>3, <1>4 DEF n

LEMMA SamePath ==
    ASSUME NEW a \in PathSeq, NEW b \in PathSeq, Len(a) = Len(b),
           \A i \in 1..Len(a) : a[i] = b[i]
    PROVE  a = b
  <1>1. a \in Seq(Component) /\ b \in Seq(Component)
    BY DEF PathSeq
  <1> QED
    BY <1>1, SeqEqual, Zenon

LEMMA KeptOfFront ==
    ASSUME NEW s \in PathSeq, s # <<>>, NEW k \in Nat
    PROVE  Kept(Front(s), k) = Kept(s, k + 1)
  <1> DEFINE f == Front(s)
             a == Kept(f, k)
             b == Kept(s, k + 1)
  <1>1. Len(s) \in Nat /\ Len(s) >= 1 /\ k + 1 \in Nat
    BY PathParts
  <1>2. /\ f \in PathSeq /\ Len(f) = Len(s) - 1
        /\ \A i \in 1..(Len(s) - 1) : f[i] = s[i]
    BY FrontPath
  <1> HIDE DEF f
  <1>3. /\ a \in PathSeq /\ Len(a) = IF Len(f) > k THEN Len(f) - k ELSE 0
        /\ \A i \in 1..Len(a) : a[i] = f[i]
    BY <1>2, KeptParts
  <1>4. /\ b \in PathSeq /\ Len(b) = IF Len(s) > k + 1 THEN Len(s) - (k + 1) ELSE 0
        /\ \A i \in 1..Len(b) : b[i] = s[i]
    BY <1>1, KeptParts
  <1> HIDE DEF a, b
  <1>5. Len(a) = Len(b) /\ Len(a) <= Len(s) - 1 /\ Len(a) \in Nat
    BY <1>1, <1>2, <1>3, <1>4
  <1>6. \A i \in 1..Len(a) : a[i] = b[i]
    BY <1>1, <1>2, <1>3, <1>4, <1>5
  <1> QED
    BY <1>3, <1>4, <1>5, <1>6, SamePath DEF a, b, f

LEMMA KeptOfAppend ==
    ASSUME NEW s \in PathSeq, NEW x \in Component, NEW k \in Nat
    PROVE  Kept(Append(s, x), k + 1) = Kept(s, k)
  <1> DEFINE f == Append(s, x)
             a == Kept(f, k + 1)
             b == Kept(s, k)
  <1>1. Len(s) \in Nat /\ k + 1 \in Nat
    BY PathParts
  <1>2. /\ f \in PathSeq /\ Len(f) = Len(s) + 1
        /\ \A i \in 1..Len(s) : f[i] = s[i]
    BY AppendPath
  <1> HIDE DEF f
  <1>3. /\ a \in PathSeq /\ Len(a) = IF Len(f) > k + 1 THEN Len(f) - (k + 1) ELSE 0
        /\ \A i \in 1..Len(a) : a[i] = f[i]
    BY <1>1, <1>2, KeptParts
  <1>4. /\ b \in PathSeq /\ Len(b) = IF Len(s) > k THEN Len(s) - k ELSE 0
        /\ \A i \in 1..Len(b) : b[i] = s[i]
    BY <1>1, KeptParts
  <1> HIDE DEF a, b
  <1>5. Len(a) = Len(b) /\ Len(a) <= Len(s) /\ Len(a) \in Nat
    BY <1>1, <1>2, <1>3, <1>4
  <1>6. \A i \in 1..Len(a) : a[i] = b[i]
    BY <1>1, <1>2, <1>3, <1>4, <1>5
  <1> QED
    BY <1>3, <1>4, <1>5, <1>6, SamePath DEF a, b, f

LEMMA KeptAll ==
    ASSUME NEW s \in PathSeq
    PROVE  Kept(s, 0) = s /\ \A k \in Nat : Kept(<<>>, k) = <<>>
  <1>1. Len(s) \in Nat /\ Prefix(s, Len(s)) = s /\ Prefix(s, 0) = <<>>
    BY PathParts, PrefixStep
  <1>2. Kept(s, 0) = s
    <2>1. (IF Len(s) > 0 THEN Len(s) - 0 ELSE 0) = Len(s)
      BY <1>1
    <2>2. Kept(s, 0) = Prefix(s, Len(s))
      BY <2>1 DEF Kept, Prefix
    <2> QED
      BY <1>1, <2>2
  <1>3. ASSUME NEW k \in Nat PROVE Kept(<<>>, k) = <<>>
    <2>1. <<>> \in PathSeq /\ Len(<<>>) = 0
      BY EmptyPath
    <2>2. Kept(<<>>, k) \in PathSeq /\ Len(Kept(<<>>, k)) = 0
      BY <2>1, KeptParts
    <2> QED
      BY <2>2, PathParts
  <1> QED
    BY <1>2, <1>3

LEMMA JoinedPaths ==
    ASSUME NEW s \in PathSeq, NEW t \in PathSeq, NEW x \in Component
    PROVE  /\ s \o t \in PathSeq /\ <<x>> \o t \in PathSeq
           /\ Append(s, x) \o t = s \o (<<x>> \o t)
           /\ s \o <<>> = s /\ <<>> \o s = s
  <1> DEFINE one == <<x>>
             a == Append(s, x)
             r == one \o t
             left == a \o t
             right == s \o r
             Ls == Len(s)
             Lt == Len(t)
  <1>1. Ls \in Nat /\ Lt \in Nat
    BY PathParts
  <1>2. one \in PathSeq /\ Len(one) = 1 /\ one[1] = x
    BY DEF PathSeq
  <1>3. /\ a \in PathSeq /\ Len(a) = Ls + 1 /\ a[Ls + 1] = x
        /\ \A i \in 1..Ls : a[i] = s[i]
    BY AppendPath
  <1>0. \A p, q \in PathSeq :
          /\ p \o q \in PathSeq /\ Len(p \o q) = Len(p) + Len(q)
          /\ \A i \in 1..(Len(p) + Len(q)) :
                (p \o q)[i] = IF i <= Len(p) THEN p[i] ELSE q[i - Len(p)]
    BY ConcatProperties DEF PathSeq
  <1> HIDE DEF one, a
  <1>4. /\ r \in PathSeq /\ Len(r) = 1 + Lt
        /\ \A i \in 1..(1 + Lt) : r[i] = IF i <= 1 THEN one[i] ELSE t[i - 1]
    <2>1. /\ one \o t \in PathSeq /\ Len(one \o t) = Len(one) + Len(t)
          /\ \A i \in 1..(Len(one) + Len(t)) :
                (one \o t)[i] = IF i <= Len(one) THEN one[i] ELSE t[i - Len(one)]
      BY <1>0, <1>2, Zenon
    <2> QED
      BY <1>2, <2>1, Zenon
  <1> HIDE DEF r
  <1>5. /\ left \in PathSeq /\ Len(left) = (Ls + 1) + Lt
        /\ \A i \in 1..((Ls + 1) + Lt) :
              left[i] = IF i <= Ls + 1 THEN a[i] ELSE t[i - (Ls + 1)]
    <2>1. /\ a \o t \in PathSeq /\ Len(a \o t) = Len(a) + Len(t)
          /\ \A i \in 1..(Len(a) + Len(t)) :
                (a \o t)[i] = IF i <= Len(a) THEN a[i] ELSE t[i - Len(a)]
      BY <1>0, <1>3, Zenon
    <2> QED
      BY <1>3, <2>1, Zenon
  <1>6. /\ right \in PathSeq /\ Len(right) = Ls + (1 + Lt)
        /\ \A i \in 1..(Ls + (1 + Lt)) :
              right[i] = IF i <= Ls THEN s[i] ELSE r[i - Ls]
    <2>1. /\ s \o r \in PathSeq /\ Len(s \o r) = Len(s) + Len(r)
          /\ \A i \in 1..(Len(s) + Len(r)) :
                (s \o r)[i] = IF i <= Len(s) THEN s[i] ELSE r[i - Len(s)]
      BY <1>0, <1>4, Zenon
    <2> QED
      BY <1>4, <2>1, Zenon
  <1> HIDE DEF left, right
  <1>7. Len(left) = Len(right)
    BY <1>1, <1>5, <1>6
  <1>8. ASSUME NEW i \in 1..Len(left) PROVE left[i] = right[i]
    <2>1. i \in 1..((Ls + 1) + Lt) /\ i \in 1..(Ls + (1 + Lt))
      BY <1>1, <1>5
    <2>2. CASE i <= Ls
      BY <1>1, <1>3, <1>5, <1>6, <2>1, <2>2
    <2>3. CASE i = Ls + 1
      <3>1. i - Ls = 1 /\ 1 \in 1..(1 + Lt) /\ ~(i <= Ls) /\ i <= Ls + 1
        BY <1>1, <2>3
      <3> QED
        BY <1>2, <1>3, <1>4, <1>5, <1>6, <2>1, <2>3, <3>1
    <2>4. CASE i > Ls + 1
      <3>1. /\ i - Ls \in 1..(1 + Lt) /\ ~(i - Ls <= 1) /\ ~(i <= Ls)
            /\ ~(i <= Ls + 1) /\ (i - Ls) - 1 = i - (Ls + 1)
        BY <1>1, <2>1, <2>4
      <3>2. left[i] = t[i - (Ls + 1)]
        BY <1>5, <2>1, <3>1
      <3>3. right[i] = r[i - Ls]
        BY <1>6, <2>1, <3>1
      <3>4. r[i - Ls] = t[(i - Ls) - 1]
        BY <1>4, <3>1
      <3> QED
        BY <3>1, <3>2, <3>3, <3>4
    <2> QED
      BY <1>1, <2>1, <2>2, <2>3, <2>4
  <1>9. left = right
    BY <1>5, <1>6, <1>7, <1>8, SamePath
  <1>10. s \o <<>> = s /\ <<>> \o s = s
    BY ConcatEmptySeq DEF PathSeq
  <1>11. s \o t \in PathSeq
    BY <1>0
  <1> QED
    BY <1>4, <1>9, <1>10, <1>11 DEF left, right, r, a, one

(* What stands of the names before, with what the rest leaves, is the same *)
(* at every place: to the left of it comps[] is at work, to the right of   *)
(* it the reference.                                                       *)
Agree(s, p, out, ups, o, u) ==
    /\ Kept(p, ups) \o out = Kept(s, u) \o o
    /\ o \in PathSeq /\ u \in Nat
    /\ p \in PathSeq /\ Len(p) <= Len(s) + 1

LEMMA StepAgrees ==
    ASSUME NEW s \in PathSeq, NEW x \in Component, Len(s) < MAX_COMPS,
           NEW out \in PathSeq, NEW ups \in Nat
    PROVE  \E o, u : /\ Standing([out |-> out, ups |-> ups], x) = [out |-> o, ups |-> u]
                     /\ Agree(s, Push(s, x), out, ups, o, u)
  <1> DEFINE r == Standing([out |-> out, ups |-> ups], x)
             p == Push(s, x)
  <1>0. Len(s) \in Nat /\ Len(s) <= Len(s) + 1 /\ Len(s) - 1 <= Len(s) + 1
    BY PathParts
  <1>1. CASE x = Dot
    <2>1. r = [out |-> out, ups |-> ups] /\ p = s
      BY <1>1 DEF Standing, Push
    <2>2. Agree(s, s, out, ups, out, ups)
      BY <1>0, Zenon DEF Agree
    <2> HIDE DEF r, p
    <2>3. Agree(s, p, out, ups, out, ups)
      BY <2>1, <2>2, Zenon
    <2> QED
      BY <2>1, <2>3, Zenon DEF r, p
  <1>2. CASE x = DotDot
    <2>1. r = [out |-> out, ups |-> ups + 1] /\ ups + 1 \in Nat
      BY <1>2, Components DEF Standing
    <2>3. CASE s = <<>>
      <3>1. p = s
        BY <1>2, <2>3 DEF Push
      <3>2. Kept(s, ups) = <<>> /\ Kept(s, ups + 1) = <<>>
        BY <2>1, <2>3, KeptAll
      <3> HIDE DEF r, p
      <3>3. Agree(s, p, out, ups, out, ups + 1)
        BY <1>0, <2>1, <3>1, <3>2, Zenon DEF Agree
      <3> QED
        BY <2>1, <3>3, Zenon DEF r, p
    <2>4. CASE s # <<>>
      <3>1. p = Front(s)
        BY <1>2, <2>4, Components DEF Push
      <3>2. Kept(Front(s), ups) = Kept(s, ups + 1)
        BY <2>4, KeptOfFront
      <3>3. Front(s) \in PathSeq /\ Len(Front(s)) = Len(s) - 1
        BY <2>4, FrontPath
      <3> HIDE DEF r, p
      <3>4. Agree(s, p, out, ups, out, ups + 1)
        BY <1>0, <2>1, <3>1, <3>2, <3>3, Zenon DEF Agree
      <3> QED
        BY <2>1, <3>4, Zenon DEF r, p
    <2> QED
      BY <2>3, <2>4
  <1>3. CASE x \notin {Dot, DotDot}
    <2>1. p = Append(s, x)
      BY <1>3 DEF Push
    <2>2. /\ Append(s, x) \in PathSeq /\ Len(Append(s, x)) = Len(s) + 1
          /\ Len(s) + 1 <= Len(s) + 1
      BY <1>0, AppendPath
    <2>3. CASE ups > 0
      <3>1. r = [out |-> out, ups |-> ups - 1]
        BY <1>3, <2>3 DEF Standing
      <3>2. ups - 1 \in Nat /\ (ups - 1) + 1 = ups
        BY <2>3
      <3>3. Kept(Append(s, x), (ups - 1) + 1) = Kept(s, ups - 1)
        BY <3>2, KeptOfAppend, Zenon
      <3> HIDE DEF r, p
      <3>4. Agree(s, p, out, ups, out, ups - 1)
        BY <2>1, <2>2, <3>2, <3>3, Zenon DEF Agree
      <3> QED
        BY <3>1, <3>4, Zenon DEF r, p
    <2>4. CASE ups = 0
      <3>1. r = [out |-> <<x>> \o out, ups |-> 0]
        BY <1>3, <2>4 DEF Standing
      <3>3. Kept(Append(s, x), 0) = Append(s, x) /\ Kept(s, 0) = s /\ 0 \in Nat
        BY <2>2, KeptAll
      <3>4. Append(s, x) \o out = s \o (<<x>> \o out) /\ <<x>> \o out \in PathSeq
        BY JoinedPaths
      <3> HIDE DEF r, p
      <3>5. Agree(s, p, out, ups, <<x>> \o out, 0)
        BY <2>1, <2>2, <2>4, <3>3, <3>4, Zenon DEF Agree
      <3> QED
        BY <3>1, <3>5, Zenon DEF r, p
    <2>5. ups > 0 \/ ups = 0
      OBVIOUS
    <2> QED
      BY <2>3, <2>4, <2>5
  <1> QED
    BY <1>1, <1>2, <1>3

LEMMA PushedIsReference ==
    ASSUME NEW comps \in PathSeq, Len(comps) <= MAX_COMPS
    PROVE  Pushed(comps) = Reference(comps)
  <1> DEFINE L == Len(comps)
             none == [out |-> <<>>, ups |-> 0]
  <1>1. L \in Nat /\ MAX_COMPS \in Nat
    BY PathParts, FsPathAssumption
  <1>2. PICK m : /\ m[0] = <<>> /\ Pushed(comps) = m[L]
                 /\ \A n \in 1..L : m[n] = Push(m[n - 1], comps[n])
    BY <1>1, PushedWalk
  <1>3. PICK w : /\ w[L + 1] = none /\ Reference(comps) = w[1].out
                 /\ \A i \in 1..L : w[i] = Standing(w[i + 1], comps[i])
    BY <1>1, ReferenceWalk
  <1> DEFINE Rec(r) == r = [out |-> r.out, ups |-> r.ups] /\ r.out \in PathSeq /\ r.ups \in Nat
  <1>4. \A i \in 1..(L + 1) : Rec(w[i])
    <2> DEFINE Good == {n \in 0..L : Rec(w[(L + 1) - n])}
    <2>1. 0 \in Good
      <3>1. (L + 1) - 0 = L + 1 /\ 0 \in 0..L
        BY <1>1
      <3> QED
        BY <1>3, <3>1, EmptyPath
    <2>2. ASSUME NEW n \in 0..(L - 1), n \in Good PROVE n + 1 \in Good
      <3> DEFINE i == L - n
                 r == w[i + 1]
        <3>1. /\ i \in 1..L /\ (L + 1) - n = i + 1 /\ (L + 1) - (n + 1) = i
            /\ n + 1 \in 0..L
        BY <1>1
      <3>2. Rec(r) /\ w[i] = Standing(r, comps[i]) /\ comps[i] \in Component
        BY <1>3, <2>2, <3>1, PathParts
      <3> HIDE DEF i, r
      <3>3. <<>> \in PathSeq /\ Len(<<>>) < MAX_COMPS
        BY <1>1, <3>1, EmptyPath
      <3>4. w[i] = Standing([out |-> r.out, ups |-> r.ups], comps[i])
        BY <3>2
      <3>6. PICK o, u : /\ w[i] = [out |-> o, ups |-> u]
                        /\ Agree(<<>>, Push(<<>>, comps[i]), r.out, r.ups, o, u)
        BY <3>2, <3>3, <3>4, StepAgrees, Zenon
      <3>5. Rec(w[i])
        BY <3>6 DEF Agree
      <3> QED
        BY <3>1, <3>5
    <2>3. \A n \in 0..L : n \in Good
      <3> HIDE DEF Good
      <3> QED
        BY <1>1, <2>1, <2>2, CountUp
    <2>4. ASSUME NEW i \in 1..(L + 1) PROVE Rec(w[i])
      <3>1. (L + 1) - i \in 0..L /\ (L + 1) - ((L + 1) - i) = i
        BY <1>1
      <3>2. (L + 1) - i \in Good
        BY <2>3, <3>1
      <3>3. Rec(w[(L + 1) - ((L + 1) - i)])
        BY <3>2
      <3> QED
        BY <3>1, <3>3
    <2> QED
      BY <2>4
  <1> DEFINE H(n) == Kept(m[n], w[n + 1].ups) \o w[n + 1].out
             Fine(n) == /\ m[n] \in PathSeq /\ Len(m[n]) <= n
                        /\ H(n) = Reference(comps)
             Good == {n \in 0..L : Fine(n)}
  <1>5. 0 \in Good
    <2>1. m[0] = <<>> /\ 0 + 1 = 1 /\ 1 \in 1..(L + 1) /\ 0 \in 0..L
      BY <1>1, <1>2
    <2>2. w[1].out \in PathSeq /\ w[1].ups \in Nat
      BY <1>4, <2>1
    <2>3. <<>> \in PathSeq /\ Len(<<>>) = 0
      BY EmptyPath
    <2>4. Kept(<<>>, w[1].ups) = <<>>
      BY <2>2, <2>3, KeptAll
    <2>5. <<>> \o w[1].out = w[1].out
      BY <2>2, ConcatEmptySeq DEF PathSeq
    <2>6. H(0) = Reference(comps)
      <3>1. H(0) = Kept(<<>>, w[1].ups) \o w[1].out
        BY <2>1, Zenon
      <3> QED
        BY <1>3, <2>4, <2>5, <3>1, Zenon
    <2>7. m[0] \in PathSeq /\ Len(m[0]) <= 0
      BY <2>1, <2>3
    <2> QED
      BY <2>1, <2>6, <2>7, Zenon
  <1>6. ASSUME NEW n \in 0..(L - 1), n \in Good PROVE n + 1 \in Good
    <2> DEFINE x == comps[n + 1]
               s == m[n]
               q == w[(n + 1) + 1]
               r == w[n + 1]
    <2>1. /\ n + 1 \in 1..L /\ (n + 1) - 1 = n /\ n + 1 \in 0..L
          /\ (n + 1) + 1 \in 1..(L + 1) /\ n < MAX_COMPS
      BY <1>1
    <2>2. x \in Component /\ m[n + 1] = Push(s, x) /\ r = Standing(q, x)
      BY <1>2, <1>3, <2>1, PathParts
    <2>3. s \in PathSeq /\ Len(s) <= n /\ Len(s) \in Nat
      BY <1>6, PathParts
    <2>4. q = [out |-> q.out, ups |-> q.ups] /\ q.out \in PathSeq /\ q.ups \in Nat
      BY <1>4, <2>1
    <2>5. Kept(s, r.ups) \o r.out = Reference(comps)
      BY <1>6
    <2> HIDE DEF x, s, q, r
    <2>6. Len(s) < MAX_COMPS
      BY <1>1, <2>1, <2>3
    <2>a. PICK o, u : /\ Standing([out |-> q.out, ups |-> q.ups], x) = [out |-> o, ups |-> u]
                      /\ Agree(s, Push(s, x), q.out, q.ups, o, u)
      BY <2>2, <2>3, <2>4, <2>6, StepAgrees, Zenon
    <2>b. r = [out |-> o, ups |-> u]
      BY <2>2, <2>4, <2>a, Zenon
    <2>c. r.out = o /\ r.ups = u
      BY <2>b
    <2>7. /\ Kept(Push(s, x), q.ups) \o q.out = Kept(s, r.ups) \o r.out
          /\ Push(s, x) \in PathSeq /\ Len(Push(s, x)) <= Len(s) + 1
      BY <2>a, <2>c, Zenon DEF Agree
    <2>8. m[n + 1] \in PathSeq /\ Len(m[n + 1]) <= n + 1
      <3>1. Len(Push(s, x)) \in Nat
        BY <2>7, PathParts
      <3> QED
        BY <2>1, <2>2, <2>3, <2>7, <3>1
    <2>9. H(n + 1) = Reference(comps)
      BY <2>2, <2>5, <2>7 DEF q
    <2> QED
      BY <2>1, <2>8, <2>9
  <1>7. L \in Good
    <2> HIDE DEF Good
    <2>1. \A n \in 0..L : n \in Good
      BY <1>1, <1>5, <1>6, CountUp
    <2> QED
      BY <1>1, <2>1
  <1>8. m[L] \in PathSeq /\ Kept(m[L], 0) \o <<>> = Reference(comps)
    <2>1. m[L] \in PathSeq /\ Kept(m[L], w[L + 1].ups) \o w[L + 1].out = Reference(comps)
      BY <1>7, Zenon
    <2>2. w[L + 1].ups = 0 /\ w[L + 1].out = <<>>
      BY <1>3
    <2> QED
      BY <2>1, <2>2, Zenon
  <1>9. Kept(m[L], 0) = m[L] /\ m[L] \o <<>> = m[L]
    BY <1>8, KeptAll, ConcatEmptySeq DEF PathSeq
  <1> QED
    BY <1>2, <1>8, <1>9

(* Where no buffer is too small, what is typed is resolved as the          *)
(* reference has it: every ".." cancels the name before it, the root is    *)
(* never left, and nothing is lost.                                        *)
THEOREM ResolvesLikeReference ==
    ASSUME NEW cwd \in Seq(Component), NEW arg, arg.comps \in Seq(Component),
           WithinLimits(Full(cwd, arg))
    PROVE  fs_resolve_path(cwd, arg) = Reference(Full(cwd, arg))
  <1> DEFINE full == Full(cwd, arg)
  <1>1. full \in PathSeq
    BY DEF Full, PathSeq
  <1>2. /\ PathLength(full) < 2 * FS_MAX_PATH /\ Len(full) <= MAX_COMPS
        /\ PathLength(Reference(full)) < FS_MAX_PATH
    BY DEF WithinLimits
  <1>3. fs_resolve_path(cwd, arg) = Joined(Pushed(Temp(full)))
    BY DEF fs_resolve_path
  <1> HIDE DEF full
  <1>4. PathLength(full) <= TempMax
    BY <1>1, <1>2, LengthType, FsPathAssumption DEF TempMax
  <1>5. Temp(full) = full
    BY <1>1, <1>4, TempKeeps
  <1>6. Pushed(full) = Reference(full) /\ Pushed(full) \in PathSeq
    BY <1>1, <1>2, PushedIsReference, PushedPlain
  <1>7. Joined(Reference(full)) = Reference(full)
    BY <1>2, <1>6, JoinKeeps
  <1> QED
    BY <1>3, <1>5, <1>6, <1>7 DEF full

-----------------------------------------------------------------------------
(* Every slot of the table holds a canonical path, an unused one the root. *)
PathsCanonical(f) == \A i \in Slots : IsCanonical(f[i].path)

LEMMA RootIsCanonical == IsCanonical(Root)
  BY EmptyPath, FsPathAssumption DEF IsCanonical, Root, PathSeq, NoDots

LEMMA ChangesKeepPaths ==
    ASSUME NEW f, NEW g, NEW path, TableOK(f), PathsCanonical(f), IsCanonical(path),
           Created(f, g, path) \/ Written(f, g, path) \/ Deleted(f, g, path)
    PROVE  PathsCanonical(g)
  <1>1. ASSUME NEW i \in Slots, f[i] # g[i]
        PROVE  g[i].path = path \/ g[i].path = Root
    <2>1. CASE Created(f, g, path)
      <3>1. \E k \in Slots : /\ g[k].path = path
                             /\ \A j \in Slots \ {k} : g[j] = f[j]
        BY <2>1 DEF Created, TableOK
      <3> QED
        BY <1>1, <3>1
    <2>3. CASE Written(f, g, path)
      <3>0. PICK k \in Slots : \E text : /\ f[k].path = path
                                         /\ g = [f EXCEPT ![k].data = text]
        BY <2>3 DEF Written
      <3>1. PICK text : /\ f[k].path = path
                        /\ g = [f EXCEPT ![k].data = text]
        BY <3>0
      <3>2. g[k].path = f[k].path /\ \A j \in Slots \ {k} : g[j] = f[j]
        BY <3>1 DEF TableOK, IsNode
      <3> QED
        BY <1>1, <3>1, <3>2
    <2>2. CASE Deleted(f, g, path)
      BY <1>1, <2>2 DEF Deleted, TableOK, Unused
    <2> QED
      BY <2>1, <2>2, <2>3
  <1> QED
    BY <1>1, RootIsCanonical DEF PathsCanonical

(* The system starts with canonical paths when the tree has no others.     *)
LEMMA BootPaths ==
    ASSUME NEW tree, Len(tree) \in Nat,
           \A n \in 1..Len(tree) : /\ Len(tree[n].data) \in Nat
                                   /\ IsCanonical(tree[n].path)
    PROVE  PathsCanonical(fs_init(tree))
  <1>1. PICK m : /\ m[0] = Empty
                 /\ \A n \in 1..Len(tree) : m[n] = BootStep(m[n - 1], tree[n])
                 /\ fs_init(tree) = m[Len(tree)]
    BY BootTables
  <1> DEFINE Good == {n \in 0..Len(tree) : TableOK(m[n]) /\ PathsCanonical(m[n])}
  <1>2. TableOK(Empty) /\ PathsCanonical(Empty)
    <2>1. IsNode(Unused)
      BY EmptyFits DEF IsNode, Unused
    <2>2. TableOK(Empty)
      BY <2>1 DEF TableOK, Empty, Unused
    <2> QED
      BY <2>2, RootIsCanonical DEF PathsCanonical, Empty, Unused
  <1>3. 0 \in Good
    BY <1>1, <1>2
  <1>4. ASSUME NEW n \in 0..(Len(tree) - 1), n \in Good
        PROVE  n + 1 \in Good
    <2>1. n + 1 \in 1..Len(tree) /\ (n + 1) - 1 = n
      OBVIOUS
    <2>2. m[n + 1] = BootStep(m[n], tree[n + 1])
      BY <1>1, <2>1
    <2>3. /\ TableOK(m[n]) /\ PathsCanonical(m[n])
          /\ Len(tree[n + 1].data) \in Nat /\ IsCanonical(tree[n + 1].path)
      BY <1>4, <2>1
    <2>4. TableOK(m[n + 1]) /\ PathsCanonical(m[n + 1])
      BY <2>2, <2>3, BootStepCreates, ChangesKeepOrder, ChangesKeepPaths
    <2> QED
      BY <2>1, <2>4
  <1>5. Len(tree) \in Good
    <2> HIDE DEF Good
    <2>1. \A n \in 0..Len(tree) : n \in Good
      BY <1>3, <1>4, CountUp
    <2> QED
      BY <2>1
  <1> QED
    BY <1>1, <1>5
=============================================================================
