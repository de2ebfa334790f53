-------------------------- MODULE TypedTextProofs --------------------------
(***************************************************************************)
(* Theorems about what the shell makes of a typed text, for every text of  *)
(* any length, every path and working directory and every size of the      *)
(* buffers: paths are resolved as the reference has it; the commands, the  *)
(* words, the text of an echo and the bytes of asm are what was typed; and *)
(* every page of the manual can be opened and is shown with its numbers.   *)
(***************************************************************************)
EXTENDS TypedText, FsProofs

-----------------------------------------------------------------------------
(* Paths                                                                   *)

PathInv == IsCanonical(cwd) /\ IsCanonical(out)

LEMMA PathInductive ==
    /\ Init => PathInv
    /\ PathInv /\ [Next]_vars => PathInv'
  <1>1. Init => PathInv
    BY RootIsCanonical DEF Init, PathInv
  <1>2. ASSUME PathInv, [Next]_vars
        PROVE  PathInv'
    <2>1. CASE Resolve
      <3>1. PICK a \in Args : out' = fs_resolve_path(cwd, a) /\ cwd' = cwd
        BY <2>1 DEF Resolve
      <3>2. a.comps \in Seq(Component) /\ cwd \in Seq(Component)
        BY <1>2, TypedTextAssumption DEF PathInv, IsCanonical
      <3>3. IsCanonical(fs_resolve_path(cwd, a))
        BY <3>2, ResolvedIsCanonical
      <3> QED
        BY <1>2, <3>1, <3>3 DEF PathInv
    <2>2. CASE Cd
      BY <1>2, <2>2 DEF Cd, PathInv
    <2>3. CASE UNCHANGED <<cwd, out>>
      BY <1>2, <2>3 DEF PathInv
    <2>4. Type \/ Enter \/ TurnPage \/ UNCHANGED vars => UNCHANGED <<cwd, out>>
      BY DEF Type, Enter, TurnPage, vars
    <2> QED
      BY <1>2, <2>1, <2>2, <2>3, <2>4 DEF Next
  <1> QED
    BY <1>1, <1>2

(* Wherever cd leads, the resolved path is canonical and resolves to       *)
(* itself, for all paths typed and buffers of any size.                    *)
THEOREM PathsStayCanonical == Spec => []Canonical
  <1>1. PathInv => Canonical
    <2> SUFFICES ASSUME PathInv PROVE Canonical
      OBVIOUS
    <2> DEFINE a == [abs |-> TRUE, comps |-> out]
    <2>1. a.abs /\ a.comps = out
      OBVIOUS
    <2> HIDE DEF a
    <2>2. fs_resolve_path(cwd, a) = out
      BY <2>1, CanonicalResolvesToItself DEF PathInv
    <2> QED
      BY <2>2 DEF Canonical, PathInv, a
  <1> QED
    BY <1>1, PathInductive, PTL DEF Spec

(* On this walk a path is resolved as the reference has it wherever no     *)
(* buffer is too small.                                                    *)
THEOREM PathsMatchReference == Spec => MatchesReference
  <1> DEFINE Step == \A a \in {arg'} :
                       mode = "path" /\ WithinLimits(Full(cwd, a)) /\ cwd' = cwd
                         => out' = Reference(Full(cwd, a))
  <1>1. ASSUME PathInv, [Next]_vars
        PROVE  [Step]_vars
    <2>1. CASE Resolve
      <3>1. PICK a \in Args : arg' = a /\ out' = fs_resolve_path(cwd, a)
        BY <2>1 DEF Resolve
      <3>2. a.comps \in Seq(Component) /\ cwd \in Seq(Component)
        BY <1>1, TypedTextAssumption DEF PathInv, IsCanonical
      <3>3. WithinLimits(Full(cwd, a))
              => fs_resolve_path(cwd, a) = Reference(Full(cwd, a))
        BY <3>2, ResolvesLikeReference
      <3> QED
        BY <3>1, <3>3
    <2>2. CASE Cd
      <3>1. cwd' = cwd => UNCHANGED vars
        BY <2>2 DEF Cd, vars
      <3> QED
        BY <3>1
    <2>3. Type \/ Enter \/ TurnPage => mode # "path"
      BY TypedTextAssumption DEF Type, Enter, TurnPage
    <2> QED
      BY <1>1, <2>1, <2>2, <2>3 DEF Next
  <1>2. PathInv /\ [Next]_vars => [Step]_vars
    BY <1>1
  <1> QED
    BY <1>2, PathInductive, PTL DEF Spec, MatchesReference

-----------------------------------------------------------------------------
(* What the recursive functions of CmdLine compute, step by step.          *)

LEMMA TokenWalk ==
    ASSUME NEW cmd, Len(cmd) \in Nat
    PROVE  \E m : /\ m[0] = [argv |-> <<>>, inside |-> FALSE]
                  /\ \A n \in 1..Len(cmd) : m[n] = TakeCharacter(m[n - 1], cmd[n])
                  /\ tokenize(cmd) = m[Len(cmd)].argv
  <1> DEFINE L == Len(cmd)
             Is(m, n) == m = [k \in 0..n |-> IF k = 0 THEN [argv |-> <<>>, inside |-> FALSE]
                                             ELSE TakeCharacter(m[k - 1], cmd[k])]
             Good == {n \in 0..L : \E m : Is(m, n)}
             made == CHOOSE m : Is(m, L)
  <1>1. 0 \in Good
    <2> DEFINE one == [k \in 0..0 |-> [argv |-> <<>>, inside |-> FALSE]]
    <2>1. \A k \in 0..0 : k = 0
      OBVIOUS
    <2>2. Is(one, 0)
      BY <2>1, Zenon
    <2>3. 0 \in 0..L
      OBVIOUS
    <2> QED
      BY <2>2, <2>3, Zenon
  <1>2. ASSUME NEW n \in 0..(L - 1), n \in Good
        PROVE  n + 1 \in Good
    <2>1. PICK m : Is(m, n)
      BY <1>2
    <2> DEFINE new == [k \in 0..(n + 1) |-> IF k = n + 1
                                            THEN TakeCharacter(m[n], cmd[n + 1])
                                            ELSE m[k]]
    <2>2. \A k \in 0..n : m[k] = IF k = 0 THEN [argv |-> <<>>, inside |-> FALSE]
                                  ELSE TakeCharacter(m[k - 1], cmd[k])
      BY <2>1
    <2>3. ASSUME NEW k \in 0..(n + 1)
          PROVE  new[k] = IF k = 0 THEN [argv |-> <<>>, inside |-> FALSE]
                            ELSE TakeCharacter(new[k - 1], cmd[k])
      <3>1. CASE k = n + 1
        <4>1. k # 0 /\ k - 1 = n /\ n \in 0..(n + 1) /\ n # n + 1
          BY <3>1
        <4>2. new[k - 1] = m[n] /\ new[k] = TakeCharacter(m[n], cmd[k])
          BY <3>1, <4>1
        <4> QED
          BY <4>1, <4>2
      <3>2. CASE k # n + 1
        <4>1. k \in 0..n /\ (k # 0 => k - 1 \in 0..(n + 1) /\ k - 1 # n + 1)
          BY <3>2
        <4>2. new[k] = m[k] /\ (k # 0 => new[k - 1] = m[k - 1])
          BY <3>2, <4>1
        <4> QED
          BY <2>2, <4>1, <4>2
      <3> QED
        BY <3>1, <3>2
    <2>4. Is(new, n + 1)
      <3>1. new = [k \in 0..(n + 1) |-> new[k]]
        OBVIOUS
      <3> HIDE DEF new
      <3> QED
        BY <2>3, <3>1
    <2>5. n + 1 \in 0..L
      OBVIOUS
    <2> QED
      BY <2>4, <2>5
  <1>3. L \in Good
    <2> HIDE DEF Good
    <2>1. \A n \in 0..L : n \in Good
      BY <1>1, <1>2, CountUp
    <2> QED
      BY <2>1
  <1>4. Is(made, L)
    BY <1>3
  <1>5. tokenize(cmd) = made[L].argv
    BY DEF tokenize
  <1> HIDE DEF made
  <1>6. \A k \in 0..L : made[k] = IF k = 0 THEN [argv |-> <<>>, inside |-> FALSE]
                                   ELSE TakeCharacter(made[k - 1], cmd[k])
    BY <1>4
  <1> QED
    BY <1>5, <1>6

LEMMA BytesWalk ==
    ASSUME NEW args, Len(args) \in Nat
    PROVE  \E m : /\ m[0] = <<>>
                  /\ \A n \in 1..Len(args) : m[n] = m[n - 1] \o Pairs(args[n])
                  /\ TypedBytes(args) = m[Len(args)]
  <1> DEFINE L == Len(args)
             Is(m, n) == m = [k \in 0..n |-> IF k = 0 THEN <<>>
                                             ELSE m[k - 1] \o Pairs(args[k])]
             Good == {n \in 0..L : \E m : Is(m, n)}
             made == CHOOSE m : Is(m, L)
  <1>1. 0 \in Good
    <2> DEFINE one == [k \in 0..0 |-> <<>>]
    <2>1. \A k \in 0..0 : k = 0
      OBVIOUS
    <2>2. Is(one, 0)
      BY <2>1, Zenon
    <2>3. 0 \in 0..L
      OBVIOUS
    <2> QED
      BY <2>2, <2>3, Zenon
  <1>2. ASSUME NEW n \in 0..(L - 1), n \in Good
        PROVE  n + 1 \in Good
    <2>1. PICK m : Is(m, n)
      BY <1>2
    <2> DEFINE new == [k \in 0..(n + 1) |-> IF k = n + 1
                                            THEN m[n] \o Pairs(args[n + 1])
                                            ELSE m[k]]
    <2>2. \A k \in 0..n : m[k] = IF k = 0 THEN <<>> ELSE m[k - 1] \o Pairs(args[k])
      BY <2>1
    <2>3. ASSUME NEW k \in 0..(n + 1)
          PROVE  new[k] = IF k = 0 THEN <<>> ELSE new[k - 1] \o Pairs(args[k])
      <3>1. CASE k = n + 1
        <4>1. k # 0 /\ k - 1 = n /\ n \in 0..(n + 1) /\ n # n + 1
          BY <3>1
        <4>2. new[k - 1] = m[n] /\ new[k] = m[n] \o Pairs(args[k])
          BY <3>1, <4>1
        <4> QED
          BY <4>1, <4>2
      <3>2. CASE k # n + 1
        <4>1. k \in 0..n /\ (k # 0 => k - 1 \in 0..(n + 1) /\ k - 1 # n + 1)
          BY <3>2
        <4>2. new[k] = m[k] /\ (k # 0 => new[k - 1] = m[k - 1])
          BY <3>2, <4>1
        <4> QED
          BY <2>2, <4>1, <4>2
      <3> QED
        BY <3>1, <3>2
    <2>4. Is(new, n + 1)
      <3>1. new = [k \in 0..(n + 1) |-> new[k]]
        OBVIOUS
      <3> HIDE DEF new
      <3> QED
        BY <2>3, <3>1
    <2>5. n + 1 \in 0..L
      OBVIOUS
    <2> QED
      BY <2>4, <2>5
  <1>3. L \in Good
    <2> HIDE DEF Good
    <2>1. \A n \in 0..L : n \in Good
      BY <1>1, <1>2, CountUp
    <2> QED
      BY <2>1
  <1>4. Is(made, L)
    BY <1>3
  <1>5. TypedBytes(args) = made[L]
    BY DEF TypedBytes
  <1> HIDE DEF made
  <1>6. \A k \in 0..L : made[k] = IF k = 0 THEN <<>> ELSE made[k - 1] \o Pairs(args[k])
    BY <1>4
  <1>7. made[0] = <<>>
    BY <1>6
  <1>8. ASSUME NEW k \in 1..L
        PROVE  made[k] = made[k - 1] \o Pairs(args[k])
    <2>1. k \in 0..L /\ k # 0
      OBVIOUS
    <2> QED
      BY <1>6, <2>1, Zenon
  <1> QED
    BY <1>5, <1>7, <1>8

LEMMA CountWalk ==
    ASSUME NEW args, Len(args) \in Nat
    PROVE  \E m : /\ m[0] = 0
                  /\ \A n \in 1..Len(args) : m[n] = m[n - 1] + Len(Pairs(args[n]))
                  /\ \A n \in 0..Len(args) : PairsTyped(args, n) = m[n]
  <1> DEFINE L == Len(args)
             Is(m, n) == m = [k \in 0..n |-> IF k = 0 THEN 0
                                             ELSE m[k - 1] + Len(Pairs(args[k]))]
             Good == {n \in 0..L : \E m : Is(m, n)}
             made == CHOOSE m : Is(m, L)
  <1>1. 0 \in Good
    <2> DEFINE one == [k \in 0..0 |-> 0]
    <2>1. \A k \in 0..0 : k = 0
      OBVIOUS
    <2>2. Is(one, 0)
      BY <2>1, Zenon
    <2>3. 0 \in 0..L
      OBVIOUS
    <2> QED
      BY <2>2, <2>3, Zenon
  <1>2. ASSUME NEW n \in 0..(L - 1), n \in Good
        PROVE  n + 1 \in Good
    <2>1. PICK m : Is(m, n)
      BY <1>2
    <2> DEFINE new == [k \in 0..(n + 1) |-> IF k = n + 1
                                            THEN m[n] + Len(Pairs(args[n + 1]))
                                            ELSE m[k]]
    <2>2. \A k \in 0..n : m[k] = IF k = 0 THEN 0 ELSE m[k - 1] + Len(Pairs(args[k]))
      BY <2>1
    <2>3. ASSUME NEW k \in 0..(n + 1)
          PROVE  new[k] = IF k = 0 THEN 0 ELSE new[k - 1] + Len(Pairs(args[k]))
      <3>1. CASE k = n + 1
        <4>1. k # 0 /\ k - 1 = n /\ n \in 0..(n + 1) /\ n # n + 1
          BY <3>1
        <4>2. new[k - 1] = m[n] /\ new[k] = m[n] + Len(Pairs(args[k]))
          BY <3>1, <4>1
        <4> QED
          BY <4>1, <4>2
      <3>2. CASE k # n + 1
        <4>1. k \in 0..n /\ (k # 0 => k - 1 \in 0..(n + 1) /\ k - 1 # n + 1)
          BY <3>2
        <4>2. new[k] = m[k] /\ (k # 0 => new[k - 1] = m[k - 1])
          BY <3>2, <4>1
        <4> QED
          BY <2>2, <4>1, <4>2
      <3> QED
        BY <3>1, <3>2
    <2>4. Is(new, n + 1)
      <3>1. new = [k \in 0..(n + 1) |-> new[k]]
        OBVIOUS
      <3> HIDE DEF new
      <3> QED
        BY <2>3, <3>1
    <2>5. n + 1 \in 0..L
      OBVIOUS
    <2> QED
      BY <2>4, <2>5
  <1>3. L \in Good
    <2> HIDE DEF Good
    <2>1. \A n \in 0..L : n \in Good
      BY <1>1, <1>2, CountUp
    <2> QED
      BY <2>1
  <1>4. Is(made, L)
    BY <1>3
  <1>5. \A n \in 0..L : PairsTyped(args, n) = made[n]
    BY DEF PairsTyped
  <1> HIDE DEF made
  <1>6. \A k \in 0..L : made[k] = IF k = 0 THEN 0 ELSE made[k - 1] + Len(Pairs(args[k]))
    BY <1>4
  <1> QED
    BY <1>5, <1>6


-----------------------------------------------------------------------------
(* The words by which the pages of the manual are opened.                  *)
PageWords == <<
    "wdid", "help", "clear", "colr", "lang", "uname", "MemRep", "shutdown",
    "reboot", "heap", "calc", "dump", "reg", "asm", "pr", "lsf", "cd", "makedir",
    "changes", "em", "cat", "echo", "touch", "rm", "grep", "chain" >>

(* The characters of a line, the words the theorems name among them: the   *)
(* provers do not know of a word in quotation marks that it is a string.   *)
Characters == STRING \cup {"echo", " ", "'", ">", "f", "wdid"}
                     \cup {PageWords[k] : k \in 1..26}
-----------------------------------------------------------------------------
(* The least and the greatest of a set of places, and Trim.                *)

LEMMA LeastPlace ==
    ASSUME NEW S, S \subseteq Nat, S # {}
    PROVE  Min(S) \in S /\ \A x \in S : Min(S) <= x
  <1>1. First(S) \in S /\ \A j \in S : First(S) <= j
    BY FirstIsLeast
  <1> QED
    BY <1>1 DEF Min

LEMMA GreatestPlace ==
    ASSUME NEW last \in Nat, NEW S, S \subseteq 0..last, S # {}
    PROVE  Max(S) \in S /\ \A x \in S : x <= Max(S)
  <1> DEFINE T == {k \in Nat : \E x \in S : k = last - x}
  <1>1. \A x \in S : x \in Nat /\ last - x \in T
    OBVIOUS
  <1>2. T \subseteq Nat /\ T # {}
    BY <1>1
  <1>3. PICK k \in T : \A j \in T : k <= j
    <2> HIDE DEF T
    <2> QED
      BY <1>2, FirstIsLeast
  <1>4. PICK y \in S : k = last - y
    BY <1>3
  <1>5. ASSUME NEW x \in S
        PROVE  x <= y
    <2>1. k <= last - x
      BY <1>1, <1>3
    <2> QED
      BY <1>1, <1>4, <2>1
  <1> QED
    BY <1>5 DEF Max

(* They are the only ones.                                                 *)
LEMMA LeastIs ==
    ASSUME NEW S, S \subseteq Nat, NEW x \in S, \A y \in S : x <= y
    PROVE  Min(S) = x
  <1>1. Min(S) \in S /\ \A y \in S : Min(S) <= y
    BY LeastPlace
  <1>2. Min(S) <= x /\ x <= Min(S) /\ x \in Nat /\ Min(S) \in Nat
    BY <1>1
  <1> QED
    BY <1>2

LEMMA GreatestIs ==
    ASSUME NEW last \in Nat, NEW S, S \subseteq 0..last, NEW x \in S,
           \A y \in S : y <= x
    PROVE  Max(S) = x
  <1>1. Max(S) \in S /\ \A y \in S : y <= Max(S)
    <2>1. S # {}
      OBVIOUS
    <2> QED
      BY <2>1, GreatestPlace
  <1>2. x <= Max(S) /\ Max(S) <= x
    BY <1>1
  <1>3. x \in 0..last /\ Max(S) \in 0..last
    BY <1>1
  <1> QED
    BY <1>2, <1>3

LEMMA SkipsTo ==
    ASSUME NEW s \in Seq(Characters), NEW q \in 1..(Len(s) + 1),
           q = Len(s) + 1 \/ s[q] \notin Blanks,
           \A k \in 1..(q - 1) : s[k] \in Blanks
    PROVE  calc_skip(s, 1) = q
  <1> DEFINE Ends(r) == /\ r = Len(s) + 1 \/ s[r] \notin Blanks
                        /\ \A k \in 1..(r - 1) : s[k] \in Blanks
  <1>1. calc_skip(s, 1) = CHOOSE r \in 1..(Len(s) + 1) : Ends(r)
    BY DEF calc_skip, EndOf
  <1>2. Ends(q)
    OBVIOUS
  <1>3. ASSUME NEW r \in 1..(Len(s) + 1), Ends(r)
        PROVE  r = q
    <2>1. r < q => r \in 1..(q - 1) /\ r # Len(s) + 1
      OBVIOUS
    <2>2. q < r => q \in 1..(r - 1) /\ q # Len(s) + 1
      OBVIOUS
    <2>3. ~(r < q) /\ ~(q < r)
      BY <1>2, <1>3, <2>1, <2>2
    <2> QED
      BY <2>3
  <1> HIDE DEF Ends
  <1> QED
    BY <1>1, <1>2, <1>3

LEMMA InkInside ==
    ASSUME NEW s \in Seq(Characters)
    PROVE  Inked(s) \subseteq 1..Len(s) /\ Inked(s) \subseteq 0..Len(s)
           /\ Inked(s) \subseteq Nat /\ Len(s) \in Nat
  BY DEF Inked

(* Trim leaves what stands from the first to the last character that is    *)
(* not blank.                                                              *)
LEMMA TrimToInk ==
    ASSUME NEW s \in Seq(Characters)
    PROVE  /\ Inked(s) = {} => Trim(s) = <<>>
           /\ Inked(s) # {} => Trim(s) = SubSeq(s, Min(Inked(s)), Max(Inked(s)))
  <1> DEFINE lasts == {k \in 1..Len(s) : s[k] \notin Blanks}
             last == CHOOSE k \in lasts \cup {0} : \A j \in lasts : j <= k
  <1>1. lasts = Inked(s)
    BY DEF Inked
  <1>2. Trim(s) = SubSeq(s, calc_skip(s, 1), last)
    BY DEF Trim
  <1>3. CASE Inked(s) = {}
    <2>1. calc_skip(s, 1) = Len(s) + 1
      <3>1. Len(s) + 1 \in 1..(Len(s) + 1) /\ \A k \in 1..((Len(s) + 1) - 1) : s[k] \in Blanks
        BY <1>3 DEF Inked
      <3> QED
        BY <3>1, SkipsTo
    <2>2. last = 0
      BY <1>1, <1>3
    <2> HIDE DEF last
    <2>3. SubSeq(s, Len(s) + 1, 0) = <<>>
      BY SubSeqEmpty
    <2> QED
      BY <1>2, <1>3, <2>1, <2>2, <2>3
  <1>4. CASE Inked(s) # {}
    <2>1. /\ Min(Inked(s)) \in Inked(s) /\ \A k \in Inked(s) : Min(Inked(s)) <= k
          /\ Max(Inked(s)) \in Inked(s) /\ \A k \in Inked(s) : k <= Max(Inked(s))
      BY <1>4, InkInside, LeastPlace, GreatestPlace
    <2>2. calc_skip(s, 1) = Min(Inked(s))
      <3> DEFINE q == Min(Inked(s))
      <3>1. q \in 1..(Len(s) + 1) /\ s[q] \notin Blanks
        BY <2>1 DEF Inked
      <3>2. \A k \in 1..(q - 1) : s[k] \in Blanks
        <4>1. ASSUME NEW k \in 1..(q - 1), s[k] \notin Blanks PROVE FALSE
          <5>1. k \in Inked(s) /\ k < q
            BY <2>1, <4>1 DEF Inked
          <5> QED
            BY <2>1, <3>1, <5>1
        <4> QED
          BY <4>1
      <3> HIDE DEF q
      <3>3. calc_skip(s, 1) = q
        BY <3>1, <3>2, SkipsTo
      <3> QED
        BY <3>3 DEF q
    <2>3. last = Max(Inked(s))
      <3> DEFINE m == Max(Inked(s))
      <3>1. m \in lasts /\ \A j \in lasts : j <= m
        BY <1>1, <2>1
      <3> HIDE DEF m
      <3>2. \A j \in lasts : j \in Nat /\ j > 0
        OBVIOUS
      <3> HIDE DEF lasts
      <3>3. last \in lasts \cup {0} /\ \A j \in lasts : j <= last
        BY <3>1
      <3> HIDE DEF last
      <3>4. m <= last /\ last # 0 => last <= m
        BY <3>1, <3>3
      <3>5. m \in Nat /\ m > 0 /\ last \in Nat
        BY <3>1, <3>2, <3>3
      <3>6. m <= last
        BY <3>1, <3>3
      <3>7. last = m
        BY <3>4, <3>5, <3>6
      <3> QED
        BY <3>7 DEF m
    <2> HIDE DEF last
    <2> QED
      BY <1>2, <1>4, <2>2, <2>3
  <1> QED
    BY <1>3, <1>4


LEMMA TrimType ==
    ASSUME NEW s \in Seq(Characters)
    PROVE  Trim(s) \in Seq(Characters)
  <1>1. CASE Inked(s) = {}
    <2>1. <<>> \in Seq(Characters)
      OBVIOUS
    <2> QED
      BY <1>1, <2>1, TrimToInk
  <1>2. CASE Inked(s) # {}
    <2>1. /\ Min(Inked(s)) \in 1..Len(s) /\ Max(Inked(s)) \in 1..Len(s)
      BY <1>2, InkInside, LeastPlace, GreatestPlace
    <2>2. \A i \in Min(Inked(s))..Max(Inked(s)) : s[i] \in Characters
      BY <2>1
    <2>3. SubSeq(s, Min(Inked(s)), Max(Inked(s))) \in Seq(Characters)
      BY <2>1, <2>2, SubSeqProperties
    <2> QED
      BY <1>2, <2>3, TrimToInk
  <1> QED
    BY <1>1, <1>2

-----------------------------------------------------------------------------
(* The separators of a line                                                *)

LEMMA AndFirst ==
    ASSUME NEW s \in Seq(Characters), NEW p \in 1..(Len(s) + 1)
    PROVE  /\ AndFrom(s, p) = 0 =>
                \A k \in p..(Len(s) - 1) : ~(s[k] = "&" /\ s[k + 1] = "&")
           /\ AndFrom(s, p) # 0 =>
                /\ AndFrom(s, p) \in p..(Len(s) - 1)
                /\ s[AndFrom(s, p)] = "&" /\ s[AndFrom(s, p) + 1] = "&"
                /\ \A k \in p..(Len(s) - 1) :
                     s[k] = "&" /\ s[k + 1] = "&" => AndFrom(s, p) <= k
  <1> DEFINE places == {k \in p..(Len(s) - 1) : s[k] = "&" /\ s[k + 1] = "&"}
  <1>1. AndFrom(s, p) = IF places = {} THEN 0 ELSE First(places)
    BY DEF AndFrom, First
  <1>2. CASE places = {}
    BY <1>1, <1>2
  <1>3. CASE places # {}
    <2>1. places \subseteq Nat
      OBVIOUS
    <2>2. First(places) \in places /\ \A j \in places : First(places) <= j
      BY <1>3, <2>1, FirstIsLeast
    <2>3. \A j \in places : j # 0
      OBVIOUS
    <2>4. AndFrom(s, p) \in places /\ AndFrom(s, p) # 0
          /\ \A j \in places : AndFrom(s, p) <= j
      BY <1>1, <1>3, <2>2, <2>3, Zenon
    <2> QED
      BY <2>4
  <1> QED
    BY <1>2, <1>3

(* The run of & in front of a place, from one place to the next.           *)
LEMMA RunSteps ==
    ASSUME NEW s \in Seq(Characters)
    PROVE  /\ RunBefore(s, 1) = 0
           /\ \A k \in 1..Len(s) :
                RunBefore(s, k + 1) = IF s[k] = "&" THEN RunBefore(s, k) + 1 ELSE 0
           /\ \A k \in 1..(Len(s) + 1) : RunBefore(s, k) \in Nat
  <1> DEFINE others(k) == {0} \cup {j \in 1..(k - 1) : s[j] # "&"}
  <1>0. \A k : RunBefore(s, k) = k - 1 - Max(others(k))
    BY DEF RunBefore
  <1>1. \A k \in 1..(Len(s) + 1) : k - 1 \in Nat /\ others(k) \subseteq 0..(k - 1)
                                   /\ 0 \in others(k)
    OBVIOUS
  <1>2. ASSUME NEW k \in 1..(Len(s) + 1)
        PROVE  Max(others(k)) \in others(k) /\ \A x \in others(k) : x <= Max(others(k))
    <2> DEFINE S == others(k)
    <2>1. k - 1 \in Nat /\ S \subseteq 0..(k - 1) /\ S # {}
      BY <1>1
    <2> HIDE DEF S
    <2>2. Max(S) \in S /\ \A x \in S : x <= Max(S)
      BY <2>1, GreatestPlace
    <2> QED
      BY <2>2 DEF S
  <1>3. ASSUME NEW k \in 1..(Len(s) + 1)
        PROVE  RunBefore(s, k) \in Nat
    <2>1. Max(others(k)) \in 0..(k - 1)
      BY <1>1, <1>2
    <2> HIDE DEF others
    <2> QED
      BY <1>0, <2>1
  <1>4. RunBefore(s, 1) = 0
    <2>1. 1 \in 1..(Len(s) + 1)
      OBVIOUS
    <2>2. Max(others(1)) \in 0..(1 - 1)
      BY <1>1, <1>2, <2>1
    <2> HIDE DEF others
    <2> QED
      BY <1>0, <2>2
  <1>5. ASSUME NEW k \in 1..Len(s)
        PROVE  RunBefore(s, k + 1) = IF s[k] = "&" THEN RunBefore(s, k) + 1 ELSE 0
    <2>1. k \in 1..(Len(s) + 1) /\ k + 1 \in 1..(Len(s) + 1) /\ (k + 1) - 1 = k
      OBVIOUS
    <2>2. CASE s[k] = "&"
      <3>1. others(k + 1) = others(k)
        BY <2>2
      <3>2. Max(others(k)) \in 0..(k - 1)
        BY <1>1, <1>2, <2>1
      <3> HIDE DEF others
      <3> QED
        BY <1>0, <2>2, <3>1, <3>2
    <2>3. CASE s[k] # "&"
      <3>1. k \in others(k + 1)
        BY <2>3
      <3>2. Max(others(k + 1)) \in 0..k /\ k <= Max(others(k + 1))
        BY <1>1, <1>2, <2>1, <3>1
      <3> HIDE DEF others
      <3> QED
        BY <1>0, <2>3, <3>2
    <2> QED
      BY <2>2, <2>3
  <1> HIDE DEF others
  <1> QED
    BY <1>3, <1>4, <1>5

(* A place at which the command line looks for the next &&.                *)
Even(s, p) == p \in 1..(Len(s) + 1) /\ RunBefore(s, p) % 2 = 0

LEMMA SeparatorsFrom ==
    ASSUME NEW s \in Seq(Characters), NEW p, Even(s, p)
    PROVE  /\ AndFrom(s, p) = 0 => \A q \in Separators(s) : q < p
           /\ AndFrom(s, p) # 0 =>
                /\ AndFrom(s, p) \in p..(Len(s) - 1)
                /\ AndFrom(s, p) \in Separators(s)
                /\ Even(s, AndFrom(s, p) + 2)
                /\ \A q \in Separators(s) :
                     q >= p => q = AndFrom(s, p) \/ q >= AndFrom(s, p) + 2
           /\ p - 1 \notin Separators(s)
  <1> DEFINE sep == AndFrom(s, p)
  <1>0. p \in 1..(Len(s) + 1) /\ RunBefore(s, p) % 2 = 0 /\ Len(s) \in Nat
    BY DEF Even
  <1>1. \A q \in Separators(s) : /\ q \in 1..(Len(s) - 1) /\ s[q] = "&" /\ s[q + 1] = "&"
                                 /\ RunBefore(s, q) % 2 = 0
    BY DEF Separators
  <1>2. p - 1 \notin Separators(s)
    <2> SUFFICES ASSUME p - 1 \in Separators(s) PROVE FALSE
      OBVIOUS
    <2> DEFINE q == p - 1
    <2>1. q \in 1..(Len(s) - 1) /\ s[q] = "&" /\ RunBefore(s, q) % 2 = 0
      BY <1>1
    <2>2. q \in 1..Len(s) /\ q \in 1..(Len(s) + 1) /\ q + 1 = p
      BY <1>0, <2>1
    <2> HIDE DEF q
    <2>3. RunBefore(s, p) = RunBefore(s, q) + 1 /\ RunBefore(s, q) \in Nat
      BY <2>1, <2>2, RunSteps
    <2> QED
      BY <1>0, <2>1, <2>3
  <1>3. CASE sep = 0
    <2>1. \A k \in p..(Len(s) - 1) : ~(s[k] = "&" /\ s[k + 1] = "&")
      BY <1>0, <1>3, AndFirst
    <2>2. ASSUME NEW q \in Separators(s), ~(q < p) PROVE FALSE
      <3>1. q \in p..(Len(s) - 1)
        BY <1>0, <1>1, <2>2
      <3> QED
        BY <1>1, <2>1, <3>1
    <2> QED
      BY <1>2, <1>3, <2>2
  <1>4. CASE sep # 0
    <2>1. /\ sep \in p..(Len(s) - 1) /\ s[sep] = "&" /\ s[sep + 1] = "&"
          /\ \A k \in p..(Len(s) - 1) : s[k] = "&" /\ s[k + 1] = "&" => sep <= k
      BY <1>0, <1>4, AndFirst
    <2> HIDE DEF sep
    <2>2. /\ sep \in 1..(Len(s) - 1) /\ sep \in 1..Len(s) /\ sep + 1 \in 1..Len(s)
          /\ sep \in 1..(Len(s) + 1) /\ sep + 2 \in 1..(Len(s) + 1)
          /\ (sep + 1) + 1 = sep + 2
      BY <1>0, <2>1
    <2>3. RunBefore(s, sep) % 2 = 0 /\ RunBefore(s, sep) \in Nat
      <3>1. RunBefore(s, sep) \in Nat
        BY <2>2, RunSteps
      <3>2. CASE sep = p
        BY <1>0, <3>1, <3>2
      <3>3. CASE sep # p
        <4> DEFINE k == sep - 1
        <4>1. k \in p..(Len(s) - 1) /\ k \in 1..Len(s) /\ k + 1 = sep /\ ~(sep <= k)
          BY <1>0, <2>1, <3>3
        <4> HIDE DEF k
        <4>2. s[k] # "&"
          BY <2>1, <4>1
        <4>3. RunBefore(s, sep) = 0
          BY <4>1, <4>2, RunSteps
        <4> QED
          BY <4>3
      <3> QED
        BY <3>2, <3>3
    <2>4. RunBefore(s, sep + 1) = RunBefore(s, sep) + 1
      BY <2>1, <2>2, RunSteps
    <2>5. RunBefore(s, sep + 2) = RunBefore(s, sep + 1) + 1
      BY <2>1, <2>2, RunSteps
    <2>6. RunBefore(s, sep + 1) % 2 = 1 /\ RunBefore(s, sep + 2) % 2 = 0
      BY <2>3, <2>4, <2>5
    <2>7. sep \in Separators(s)
      BY <2>1, <2>2, <2>3 DEF Separators
    <2>8. Even(s, sep + 2)
      BY <2>2, <2>6 DEF Even
    <2>9. ASSUME NEW q \in Separators(s), q >= p
          PROVE  q = sep \/ q >= sep + 2
      <3>1. q \in p..(Len(s) - 1) /\ q \in Nat /\ sep \in Nat
        BY <1>0, <1>1, <2>2, <2>9
      <3>2. sep <= q
        BY <1>1, <2>1, <3>1
      <3>3. q # sep + 1
        BY <1>1, <2>6
      <3> QED
        BY <3>1, <3>2, <3>3
    <2> QED
      BY <1>2, <1>4, <2>1, <2>7, <2>8, <2>9 DEF sep
  <1> QED
    BY <1>3, <1>4

-----------------------------------------------------------------------------
(* The commands of a line                                                  *)

LEMMA OneCharacter ==
    ASSUME NEW s \in Seq(Characters), NEW n \in 1..Len(s)
    PROVE  SubSeq(s, n, n) = <<s[n]>>
  <1>1. n \in n..Len(s) /\ n - 1 < n
    OBVIOUS
  <1>2. SubSeq(s, n, n) = SubSeq(s, n, n - 1) \o <<s[n]>>
    BY <1>1, SubSeqRecursiveSecond
  <1>3. SubSeq(s, n, n - 1) = <<>>
    BY <1>1, SubSeqEmpty
  <1>4. <<s[n]>> \in Seq(Characters)
    OBVIOUS
  <1>5. <<>> \o <<s[n]>> = <<s[n]>>
    BY <1>4, ConcatEmptySeq
  <1> QED
    BY <1>2, <1>3, <1>5

(* The part of a line from p to e, without the blanks around it.           *)
LEMMA TrimmedPart ==
    ASSUME NEW s \in Seq(Characters), NEW p \in 1..(Len(s) + 1), NEW e \in (p - 1)..Len(s),
           NEW ink, ink = {k \in Inked(s) : p <= k /\ k <= e}
    PROVE  /\ ink = {} => Trim(SubSeq(s, p, e)) = <<>>
           /\ ink # {} => /\ Trim(SubSeq(s, p, e)) = SubSeq(s, Min(ink), Max(ink))
                          /\ Trim(SubSeq(s, p, e)) # <<>>
                          /\ Min(ink) \in ink /\ Max(ink) \in ink
           /\ Trim(SubSeq(s, p, e)) \in Seq(Characters)
  <1> DEFINE t == SubSeq(s, p, e)
  <1>0. p \in Nat /\ p >= 1 /\ e \in Nat /\ Len(s) \in Nat /\ e <= Len(s) /\ p - 1 <= e
    OBVIOUS
  <1>1. \A i \in p..e : s[i] \in Characters
    BY <1>0
  <1>2. /\ t \in Seq(Characters) /\ Len(t) = e - p + 1
        /\ \A i \in 1..Len(t) : t[i] = s[p + i - 1]
    <2>1. /\ t \in Seq(Characters) /\ Len(t) = IF p <= e THEN e - p + 1 ELSE 0
          /\ \A i \in 1..(e - p + 1) : t[i] = s[p + i - 1]
      BY <1>0, <1>1, SubSeqProperties
    <2> HIDE DEF t
    <2> QED
      BY <1>0, <2>1
  <1> HIDE DEF t
  <1>3. \A k : k \in Inked(t) <=> k \in 1..Len(t) /\ t[k] \notin Blanks
    BY <1>2 DEF Inked
  <1>4. \A k : k \in Inked(s) <=> k \in 1..Len(s) /\ s[k] \notin Blanks
    BY DEF Inked
  <1>5. ASSUME NEW k \in Inked(t)
        PROVE  p + k - 1 \in ink
    <2>1. k \in 1..Len(t) /\ t[k] \notin Blanks
      BY <1>3
    <2>2. p + k - 1 \in 1..Len(s) /\ p <= p + k - 1 /\ p + k - 1 <= e
      BY <1>0, <1>2, <2>1
    <2>3. s[p + k - 1] \notin Blanks
      BY <1>2, <2>1
    <2> QED
      BY <1>4, <2>2, <2>3
  <1>6. ASSUME NEW j \in ink
        PROVE  j - p + 1 \in Inked(t) /\ j \in Nat
    <2>1. j \in 1..Len(s) /\ s[j] \notin Blanks /\ p <= j /\ j <= e
      BY <1>4
    <2>2. j - p + 1 \in 1..Len(t) /\ p + (j - p + 1) - 1 = j
      BY <1>0, <1>2, <2>1
    <2>3. t[j - p + 1] \notin Blanks
      BY <1>2, <2>1, <2>2
    <2> QED
      BY <1>3, <2>1, <2>2, <2>3
  <1>7. Trim(t) \in Seq(Characters)
    BY <1>2, TrimType
  <1>8. CASE ink = {}
    <2>1. Inked(t) = {}
      BY <1>5, <1>8
    <2> QED
      BY <1>2, <1>7, <1>8, <2>1, TrimToInk DEF t
  <1>9. CASE ink # {}
    <2>1. Inked(t) # {}
      BY <1>6, <1>9
    <2> DEFINE a == Min(Inked(t))
               b == Max(Inked(t))
    <2>2. /\ a \in Inked(t) /\ \A k \in Inked(t) : a <= k
          /\ b \in Inked(t) /\ \A k \in Inked(t) : k <= b
      BY <1>2, <2>1, InkInside, LeastPlace, GreatestPlace
    <2>3. Trim(t) = SubSeq(t, a, b)
      BY <1>2, <2>1, TrimToInk
    <2> HIDE DEF a, b
    <2>4. a \in 1..Len(t) /\ b \in 1..Len(t) /\ a <= b
      BY <1>3, <2>2
    <2>5. ink \subseteq 0..Len(s) /\ ink \subseteq Nat
      BY <1>4
    <2>6. Min(ink) = p + a - 1
      <3>1. ASSUME NEW j \in ink PROVE p + a - 1 <= j
        <4>1. a <= j - p + 1 /\ j \in Nat
          BY <1>6, <2>2
        <4> QED
          BY <1>0, <2>4, <4>1
      <3>2. p + a - 1 \in ink
        BY <1>5, <2>2
      <3> QED
        BY <2>5, <3>1, <3>2, LeastIs
    <2>7. Max(ink) = p + b - 1
      <3>1. ASSUME NEW j \in ink PROVE j <= p + b - 1
        <4>1. j - p + 1 <= b /\ j \in Nat
          BY <1>6, <2>2
        <4> QED
          BY <1>0, <2>4, <4>1
      <3>2. p + b - 1 \in ink
        BY <1>5, <2>2
      <3> QED
        BY <1>0, <2>5, <3>1, <3>2, GreatestIs
    <2>8. SubSeq(t, a, b) = SubSeq(s, p + a - 1, p + b - 1)
      <3>1. p \in 1..Len(s) /\ e \in 1..Len(s)
        BY <1>0, <1>2, <2>4
      <3>2. a \in 1..(e - p + 1) /\ b \in 1..(e - p + 1)
        BY <1>2, <2>4
      <3> QED
        BY <3>1, <3>2, SubSeqOfSubSeq DEF t
    <2>9. Trim(t) # <<>>
      <3>1. \A i \in a..b : t[i] \in Characters
        BY <1>2, <2>4
      <3>2. Len(SubSeq(t, a, b)) = b - a + 1
        BY <2>4, <3>1, SubSeqProperties
      <3>3. Len(SubSeq(t, a, b)) # 0
        BY <2>4, <3>2
      <3>4. Len(<<>>) = 0
        OBVIOUS
      <3>5. SubSeq(t, a, b) # <<>>
        BY <3>3, <3>4, Zenon
      <3> QED
        BY <2>3, <3>5
    <2>10. Min(ink) \in ink /\ Max(ink) \in ink
      BY <1>5, <2>2, <2>6, <2>7
    <2> QED
      BY <1>7, <1>9, <2>3, <2>6, <2>7, <2>8, <2>9, <2>10 DEF t
  <1> QED
    BY <1>8, <1>9

(* One command at most is taken from a line at a time.                     *)
Prefixed(sub, rest) == IF sub = <<>> THEN rest ELSE <<sub>> \o rest
PartEnd(s, p) == IF AndFrom(s, p) = 0 THEN Len(s) ELSE AndFrom(s, p) - 1
Taken(s, p) == Trim(SubSeq(s, p, PartEnd(s, p)))

(* The command line, read from the right: what each suffix yields.         *)
LEMMA SplitWalk ==
    ASSUME NEW s \in Seq(Characters)
    PROVE  \E w : /\ w[Len(s) + 1] = <<>>
                  /\ \A p \in 1..Len(s) :
                       w[p] = Prefixed(Taken(s, p), IF AndFrom(s, p) = 0 THEN <<>>
                                                    ELSE w[AndFrom(s, p) + 2])
                  /\ handle_line(s) = w[1]
  <1> DEFINE L == Len(s)
             Step(w, p) == IF p > L THEN <<>>
                           ELSE Prefixed(Taken(s, p), IF AndFrom(s, p) = 0 THEN <<>>
                                                      ELSE w[AndFrom(s, p) + 2])
             Is(w, a) == w = [p \in a..(L + 1) |-> Step(w, p)]
             Good == {n \in 0..L : \E w : Is(w, (L + 1) - n)}
             made == CHOOSE w : Is(w, 1)
  <1>0. \A p \in 1..L : AndFrom(s, p) # 0 =>
            AndFrom(s, p) + 2 \in (p + 1)..(L + 1)
    <2> TAKE p \in 1..L
    <2>1. p \in 1..(Len(s) + 1) /\ Len(s) \in Nat
      OBVIOUS
    <2>2. AndFrom(s, p) # 0 => AndFrom(s, p) \in p..(Len(s) - 1)
      BY <2>1, AndFirst
    <2> QED
      BY <2>1, <2>2
  <1>1. 0 \in Good
    <2> DEFINE one == [p \in (L + 1)..(L + 1) |-> <<>>]
    <2>1. \A p \in (L + 1)..(L + 1) : p > L
      OBVIOUS
    <2>2. Is(one, L + 1)
      BY <2>1, Zenon
    <2>3. 0 \in 0..L /\ (L + 1) - 0 = L + 1
      OBVIOUS
    <2> HIDE DEF Is
    <2> QED
      BY <2>2, <2>3
  <1>2. ASSUME NEW n \in 0..(L - 1), n \in Good
        PROVE  n + 1 \in Good
    <2> DEFINE a == L - n
    <2>0. /\ (L + 1) - n = a + 1 /\ (L + 1) - (n + 1) = a /\ a \in 1..L
          /\ n + 1 \in 0..L
      OBVIOUS
    <2>1. PICK w : Is(w, a + 1)
      BY <1>2, <2>0
    <2> HIDE DEF a
    <2> DEFINE new == [p \in a..(L + 1) |-> IF p = a THEN Step(w, a) ELSE w[p]]
    <2>2. \A p \in (a + 1)..(L + 1) : w[p] = Step(w, p)
      <3> HIDE DEF Step
      <3> QED
        BY <2>1
    <2>3. ASSUME NEW p \in a..(L + 1)
          PROVE  new[p] = Step(new, p)
      <3>1. Step(new, p) = Step(w, p)
        <4>1. CASE p > L
          BY <4>1
        <4>2. CASE ~(p > L)
          <5>1. p \in 1..L /\ (AndFrom(s, p) # 0 => AndFrom(s, p) + 2 \in (p + 1)..(L + 1))
            BY <1>0, <2>0, <4>2
          <5>2. AndFrom(s, p) # 0 => /\ AndFrom(s, p) + 2 \in a..(L + 1)
                                     /\ AndFrom(s, p) + 2 # a
            BY <2>0, <5>1
          <5>3. AndFrom(s, p) # 0 => new[AndFrom(s, p) + 2] = w[AndFrom(s, p) + 2]
            BY <5>2
          <5> HIDE DEF new
          <5> QED
            BY <5>3
        <4> QED
          BY <4>1, <4>2
      <3>2. CASE p = a
        <4> HIDE DEF Step
        <4> QED
          BY <3>1, <3>2
      <3>3. CASE p # a
        <4>1. p \in (a + 1)..(L + 1)
          BY <2>0, <3>3
        <4> HIDE DEF Step
        <4>2. new[p] = w[p]
          BY <3>3
        <4> QED
          BY <2>2, <3>1, <4>1, <4>2
      <3> QED
        BY <3>2, <3>3
    <2>4. Is(new, a)
      <3>1. new = [p \in a..(L + 1) |-> new[p]]
        OBVIOUS
      <3> HIDE DEF new, Step
      <3> QED
        BY <2>3, <3>1
    <2> HIDE DEF Is
    <2> QED
      BY <2>0, <2>4
  <1>3. \E w : Is(w, 1)
    <2>0. L \in Good
      <3> HIDE DEF Good
      <3>1. \A n \in 0..L : n \in Good
        BY <1>1, <1>2, CountUp
      <3> QED
        BY <3>1
    <2>1. (L + 1) - L = 1
      OBVIOUS
    <2> HIDE DEF Is
    <2> QED
      BY <2>0, <2>1
  <1>4. Is(made, 1)
    <2> HIDE DEF Is
    <2> QED
      BY <1>3
  <1>5. handle_line(s) = made[1]
    BY DEF handle_line, Prefixed, Taken, PartEnd
  <1> HIDE DEF made
  <1>6. \A p \in 1..(L + 1) : made[p] = Step(made, p)
    <2> HIDE DEF Step
    <2> QED
      BY <1>4
  <1>7. made[L + 1] = <<>>
    BY <1>6
  <1>8. \A p \in 1..L : made[p] = Prefixed(Taken(s, p), IF AndFrom(s, p) = 0 THEN <<>>
                                                        ELSE made[AndFrom(s, p) + 2])
    <2> TAKE p \in 1..L
    <2>1. p \in 1..(L + 1) /\ ~(p > L)
      OBVIOUS
    <2> QED
      BY <1>6, <2>1
  <1> QED
    BY <1>5, <1>7, <1>8

PiecesFrom(s, p) == {b \in Beginnings(s) : PieceInk(s, b) # {} /\ b >= p}
Command(s, b) == SubSeq(s, Min(PieceInk(s, b)), Max(PieceInk(s, b)))

(* The commands are those of the pieces that begin at these places.        *)
Serves(s, places, commands) ==
    /\ commands \in Seq(Seq(Characters))
    /\ \E at \in [DOMAIN commands -> places] :
         /\ Lists(at, places)
         /\ \A n \in DOMAIN commands : commands[n] = Command(s, at[n])

LEMMA BeginningsEven ==
    ASSUME NEW s \in Seq(Characters)
    PROVE  \A b \in Beginnings(s) : Even(s, b)
  <1> TAKE b \in Beginnings(s)
  <1>1. CASE b = 1
    <2>1. RunBefore(s, 1) = 0 /\ 1 \in 1..(Len(s) + 1)
      BY RunSteps
    <2> QED
      BY <1>1, <2>1 DEF Even
  <1>2. CASE b # 1
    <2>1. PICK k \in Separators(s) : b = k + 2
      BY <1>2 DEF Beginnings
    <2>2. /\ k \in 1..(Len(s) - 1) /\ s[k] = "&" /\ s[k + 1] = "&"
          /\ RunBefore(s, k) % 2 = 0
      BY DEF Separators
    <2>3. /\ k \in 1..Len(s) /\ k + 1 \in 1..Len(s) /\ k \in 1..(Len(s) + 1)
          /\ b \in 1..(Len(s) + 1) /\ (k + 1) + 1 = b
      BY <2>1, <2>2
    <2>4. /\ RunBefore(s, k + 1) = RunBefore(s, k) + 1
          /\ RunBefore(s, b) = RunBefore(s, k + 1) + 1
          /\ RunBefore(s, k) \in Nat
      BY <2>2, <2>3, RunSteps
    <2>5. RunBefore(s, b) % 2 = 0
      BY <2>2, <2>4
    <2> QED
      BY <2>3, <2>5 DEF Even
  <1> QED
    BY <1>1, <1>2

(* A piece ends in front of the next && or at the end of the line.         *)
LEMMA PieceTaken ==
    ASSUME NEW s \in Seq(Characters), NEW p \in Beginnings(s), p <= Len(s)
    PROVE  /\ PieceInk(s, p) = {} => Taken(s, p) = <<>>
           /\ PieceInk(s, p) # {} => Taken(s, p) = Command(s, p) /\ Taken(s, p) # <<>>
           /\ Taken(s, p) \in Seq(Characters)
  <1> DEFINE sep == AndFrom(s, p)
             e == PartEnd(s, p)
             ink == {k \in Inked(s) : p <= k /\ k <= e}
  <1>1. Even(s, p) /\ p \in 1..(Len(s) + 1) /\ Len(s) \in Nat
    BY BeginningsEven DEF Even
  <1>2. e \in (p - 1)..Len(s)
    <2>1. AndFrom(s, p) # 0 => AndFrom(s, p) \in p..(Len(s) - 1)
      BY <1>1, SeparatorsFrom
    <2> QED
      BY <1>1, <2>1 DEF PartEnd
  <1>3. PieceInk(s, p) = ink
    <2>1. \A k \in Inked(s) : k \in 1..Len(s)
      BY DEF Inked
    <2>2. \A q \in Separators(s) : q \in 1..(Len(s) - 1)
      BY DEF Separators
    <2>3. CASE sep = 0
      <3>1. \A q \in Separators(s) : q < p
        BY <1>1, <2>3, SeparatorsFrom
      <3>2. e = Len(s)
        BY <2>3 DEF PartEnd
      <3>3. \A q \in Separators(s) : ~(q >= p)
        BY <1>1, <2>2, <3>1
      <3> QED
        BY <1>1, <2>1, <3>2, <3>3 DEF PieceInk
    <2>4. CASE sep # 0
      <3>1. /\ sep \in p..(Len(s) - 1) /\ sep \in Separators(s)
            /\ \A q \in Separators(s) : q >= p => q = sep \/ q >= sep + 2
        BY <1>1, <2>4, SeparatorsFrom
      <3>2. e = sep - 1
        BY <2>4 DEF PartEnd
      <3> HIDE DEF sep, e
      <3>3. \A k \in Inked(s) :
               (\A q \in Separators(s) : q >= p => k < q) <=> k <= e
        <4> TAKE k \in Inked(s)
        <4>1. k \in Nat /\ sep \in Nat /\ sep >= p
          BY <1>1, <2>1, <3>1
        <4>2. ASSUME \A q \in Separators(s) : q >= p => k < q
              PROVE  k <= e
          <5>1. k < sep
            BY <3>1, <4>1, <4>2
          <5> QED
            BY <3>2, <4>1, <5>1
        <4>3. ASSUME k <= e, NEW q \in Separators(s), q >= p
              PROVE  k < q
          <5>1. q \in Nat /\ (q = sep \/ q >= sep + 2)
            BY <2>2, <3>1, <4>3
          <5> QED
            BY <3>2, <4>1, <4>3, <5>1
        <4> QED
          BY <4>2, <4>3
      <3>4. \A k \in Inked(s) : p <= k <=> k >= p
        BY <1>1, <2>1
      <3> QED
        BY <3>3, <3>4 DEF PieceInk
    <2> QED
      BY <2>3, <2>4
  <1> HIDE DEF e
  <1>4. /\ ink = {} => Trim(SubSeq(s, p, e)) = <<>>
        /\ ink # {} => /\ Trim(SubSeq(s, p, e)) = SubSeq(s, Min(ink), Max(ink))
                       /\ Trim(SubSeq(s, p, e)) # <<>>
        /\ Trim(SubSeq(s, p, e)) \in Seq(Characters)
    BY <1>1, <1>2, TrimmedPart
  <1>5. Taken(s, p) = Trim(SubSeq(s, p, e))
    BY DEF Taken, e
  <1> QED
    BY <1>3, <1>4, <1>5 DEF Command

(* The pieces of a suffix.                                                 *)
LEMMA PiecesSplit ==
    ASSUME NEW s \in Seq(Characters), NEW p \in Beginnings(s)
    PROVE  /\ p > Len(s) => PiecesFrom(s, p) = {}
           /\ AndFrom(s, p) = 0 =>
                PiecesFrom(s, p) = IF PieceInk(s, p) = {} THEN {} ELSE {p}
           /\ AndFrom(s, p) # 0 =>
                /\ AndFrom(s, p) + 2 \in Beginnings(s) /\ AndFrom(s, p) + 2 > p
                /\ AndFrom(s, p) + 2 <= Len(s) + 1
                /\ PiecesFrom(s, p) = (IF PieceInk(s, p) = {} THEN {} ELSE {p})
                                        \cup PiecesFrom(s, AndFrom(s, p) + 2)
  <1> DEFINE sep == AndFrom(s, p)
  <1>1. /\ Even(s, p) /\ p \in 1..(Len(s) + 1) /\ Len(s) \in Nat
        /\ \A b \in Beginnings(s) : b \in 1..(Len(s) + 1)
    BY BeginningsEven DEF Even
  <1>2. \A q \in Separators(s) : q \in 1..(Len(s) - 1)
    BY DEF Separators
  <1>3. ASSUME NEW b \in Beginnings(s), b > p
        PROVE  \E q \in Separators(s) : q >= p /\ b = q + 2
    <2>1. PICK q \in Separators(s) : b = q + 2
      BY <1>1, <1>3 DEF Beginnings
    <2>2. q # p - 1
      BY <1>1, SeparatorsFrom
    <2> QED
      BY <1>1, <1>2, <1>3, <2>1, <2>2
  <1>4. ASSUME p > Len(s)
        PROVE  PiecesFrom(s, p) = {}
    <2>1. \A k \in Inked(s) : k \in 1..Len(s)
      BY DEF Inked
    <2>2. ASSUME NEW b \in PiecesFrom(s, p) PROVE FALSE
      <3>1. b \in 1..(Len(s) + 1) /\ b >= p
        BY <1>1 DEF PiecesFrom
      <3>2. PICK k \in Inked(s) : k >= b
        BY DEF PiecesFrom, PieceInk
      <3> QED
        BY <1>1, <1>4, <2>1, <3>1, <3>2
    <2> QED
      BY <2>2
  <1>5. ASSUME sep = 0
        PROVE  PiecesFrom(s, p) = IF PieceInk(s, p) = {} THEN {} ELSE {p}
    <2>1. \A q \in Separators(s) : ~(q >= p)
      BY <1>1, <1>2, <1>5, SeparatorsFrom
    <2>2. \A b \in Beginnings(s) : b >= p <=> b = p
      BY <1>1, <1>3, <2>1
    <2> QED
      BY <2>2 DEF PiecesFrom
  <1>6. ASSUME sep # 0
        PROVE  /\ sep + 2 \in Beginnings(s) /\ sep + 2 > p /\ sep + 2 <= Len(s) + 1
               /\ PiecesFrom(s, p) = (IF PieceInk(s, p) = {} THEN {} ELSE {p})
                                       \cup PiecesFrom(s, sep + 2)
    <2>1. /\ sep \in p..(Len(s) - 1) /\ sep \in Separators(s)
          /\ \A q \in Separators(s) : q >= p => q = sep \/ q >= sep + 2
      BY <1>1, <1>6, SeparatorsFrom
    <2> HIDE DEF sep
    <2>2. sep \in Nat /\ sep >= p /\ sep + 2 \in Beginnings(s) /\ sep + 2 > p
          /\ sep + 2 <= Len(s) + 1
      BY <1>1, <2>1 DEF Beginnings
    <2>3. ASSUME NEW b \in Beginnings(s)
          PROVE  b >= p <=> b = p \/ b >= sep + 2
      <3>1. b \in Nat
        BY <1>1
      <3>2. CASE b > p
        <4>1. PICK q \in Separators(s) : q >= p /\ b = q + 2
          BY <1>3, <3>2
        <4>2. q \in Nat /\ (q = sep \/ q >= sep + 2)
          BY <1>2, <2>1, <4>1
        <4> QED
          BY <1>1, <2>2, <3>1, <3>2, <4>1, <4>2
      <3>3. CASE ~(b > p)
        BY <1>1, <2>2, <3>1, <3>3
      <3> QED
        BY <3>2, <3>3
    <2> QED
      BY <2>2, <2>3 DEF PiecesFrom
  <1> QED
    BY <1>4, <1>5, <1>6

LEMMA ServesNone ==
    ASSUME NEW s
    PROVE  Serves(s, {}, <<>>)
  <1> DEFINE at == [n \in {} |-> {}]
  <1>1. DOMAIN <<>> = {} /\ <<>> \in Seq(Seq(Characters))
    OBVIOUS
  <1>2. at \in [DOMAIN <<>> -> {}]
    BY <1>1
  <1>3. Lists(at, {})
    BY DEF Lists
  <1> HIDE DEF at
  <1> QED
    BY <1>1, <1>2, <1>3 DEF Serves

LEMMA ServesMore ==
    ASSUME NEW s, NEW p \in Int, NEW places, \A b \in places : b \in Int /\ p < b,
           NEW rest, Serves(s, places, rest), Command(s, p) \in Seq(Characters)
    PROVE  Serves(s, {p} \cup places, <<Command(s, p)>> \o rest)
  <1> DEFINE all == <<Command(s, p)>> \o rest
             L == Len(rest)
  <1>1. rest \in Seq(Seq(Characters)) /\ L \in Nat /\ DOMAIN rest = 1..L
    BY DEF Serves
  <1>2. /\ all \in Seq(Seq(Characters)) /\ Len(all) = L + 1 /\ DOMAIN all = 1..(L + 1)
        /\ all[1] = Command(s, p) /\ \A n \in 2..(L + 1) : all[n] = rest[n - 1]
    <2> DEFINE one == <<Command(s, p)>>
    <2>1. one \in Seq(Seq(Characters)) /\ Len(one) = 1 /\ one[1] = Command(s, p)
      OBVIOUS
    <2> HIDE DEF one
    <2>2. /\ one \o rest \in Seq(Seq(Characters))
          /\ Len(one \o rest) = Len(one) + Len(rest)
          /\ \A i \in 1..(Len(one) + Len(rest)) :
                (one \o rest)[i] = IF i <= Len(one) THEN one[i] ELSE rest[i - Len(one)]
      BY <1>1, <2>1, ConcatProperties
    <2> DEFINE cat == one \o rest
    <2>3. all = cat
      BY DEF one
    <2> HIDE DEF cat, all
    <2>4. cat \in Seq(Seq(Characters)) /\ Len(cat) = L + 1
      BY <1>1, <2>1, <2>2 DEF cat
    <2>5. \A i \in 1..(L + 1) : cat[i] = IF i <= 1 THEN one[i] ELSE rest[i - 1]
      BY <1>1, <2>1, <2>2 DEF cat
    <2> HIDE DEF L
    <2>6. cat[1] = one[1] /\ \A n \in 2..(L + 1) : cat[n] = rest[n - 1]
      BY <1>1, <2>5
    <2> QED
      BY <2>1, <2>3, <2>4, <2>6
  <1>3. PICK at \in [DOMAIN rest -> places] :
             /\ Lists(at, places)
             /\ \A n \in DOMAIN rest : rest[n] = Command(s, at[n])
    BY DEF Serves
  <1> HIDE DEF all, L
  <1> DEFINE new == [n \in 1..(L + 1) |-> IF n = 1 THEN p ELSE at[n - 1]]
  <1>4. \A n \in 2..(L + 1) : n - 1 \in 1..L /\ n # 1 /\ new[n] = at[n - 1]
    BY <1>1
  <1>5. new[1] = p /\ 1 \in 1..(L + 1) /\ DOMAIN new = 1..(L + 1)
    BY <1>1
  <1>6. \A n \in 1..(L + 1) : n = 1 \/ n \in 2..(L + 1)
    BY <1>1
  <1>7. new \in [1..(L + 1) -> {p} \cup places]
    BY <1>1, <1>3, <1>4, <1>6
  <1> HIDE DEF new
  <1>8. Lists(new, {p} \cup places)
    <2>1. ASSUME NEW m \in 1..(L + 1), NEW n \in 1..(L + 1), m < n
          PROVE  new[m] < new[n]
      <3>1. n \in 2..(L + 1) /\ new[n] = at[n - 1] /\ n - 1 \in 1..L
        BY <1>1, <1>4, <2>1
      <3>2. CASE m = 1
        BY <1>1, <1>3, <1>5, <3>1, <3>2
      <3>3. CASE m # 1
        <4>1. new[m] = at[m - 1] /\ m - 1 \in 1..L /\ m - 1 < n - 1
          BY <1>1, <1>4, <1>6, <2>1, <3>3
        <4> QED
          BY <1>1, <1>3, <3>1, <4>1 DEF Lists
      <3> QED
        BY <3>2, <3>3
    <2>2. ASSUME NEW b \in {p} \cup places
          PROVE  \E n \in 1..(L + 1) : new[n] = b
      <3>1. CASE b = p
        BY <1>5, <3>1
      <3>2. CASE b # p
        <4>1. PICK n \in 1..L : at[n] = b
          BY <1>1, <1>3, <3>2 DEF Lists
        <4>2. n + 1 \in 2..(L + 1) /\ (n + 1) - 1 = n /\ n + 1 \in 1..(L + 1)
          BY <1>1
        <4>3. new[n + 1] = b
          BY <1>4, <4>1, <4>2
        <4> QED
          BY <4>2, <4>3
      <3> QED
        BY <3>1, <3>2
    <2> QED
      BY <1>5, <2>1, <2>2 DEF Lists
  <1>9. ASSUME NEW n \in 1..(L + 1)
        PROVE  all[n] = Command(s, new[n])
    <2>1. CASE n = 1
      BY <1>2, <1>5, <2>1
    <2>2. CASE n # 1
      <3>1. n \in 2..(L + 1)
        BY <1>6, <2>2
      <3> QED
        BY <1>1, <1>2, <1>3, <1>4, <3>1
    <2> QED
      BY <2>1, <2>2
  <1> QED
    BY <1>2, <1>7, <1>8, <1>9 DEF Serves, all

LEMMA CommandsServed ==
    ASSUME NEW s \in Seq(Characters)
    PROVE  CommandsAsTyped(s) /\ handle_line(s) \in Seq(Seq(Characters))
  <1> DEFINE L == Len(s)
  <1>0. L \in Nat /\ \A b \in Beginnings(s) : b \in 1..(L + 1)
    BY BeginningsEven DEF Even
  <1>1. PICK w : /\ w[L + 1] = <<>>
                 /\ \A p \in 1..L :
                      w[p] = Prefixed(Taken(s, p), IF AndFrom(s, p) = 0 THEN <<>>
                                                   ELSE w[AndFrom(s, p) + 2])
                 /\ handle_line(s) = w[1]
    BY SplitWalk
  <1> DEFINE Done(p) == Serves(s, PiecesFrom(s, p), w[p])
             Good == {n \in 0..L : \A p \in Beginnings(s) : p >= (L + 1) - n => Done(p)}
  <1>2. 0 \in Good
    <2>1. ASSUME NEW p \in Beginnings(s), p >= (L + 1) - 0
          PROVE  Done(p)
      <3>1. p = L + 1 /\ p > Len(s)
        BY <1>0, <2>1
      <3>2. PiecesFrom(s, p) = {} /\ w[p] = <<>>
        BY <1>1, <3>1, PiecesSplit
      <3> QED
        BY <3>2, ServesNone
    <2>2. 0 \in 0..L
      BY <1>0
    <2> HIDE DEF Done
    <2> QED
      BY <2>1, <2>2
  <1>3. ASSUME NEW n \in 0..(L - 1), n \in Good
        PROVE  n + 1 \in Good
    <2>1. ASSUME NEW p \in Beginnings(s), p >= (L + 1) - (n + 1)
          PROVE  Done(p)
      <3>1. CASE p >= (L + 1) - n
        <4> HIDE DEF Done
        <4> QED
          BY <1>3, <3>1
      <3>2. CASE ~(p >= (L + 1) - n)
        <4>1. p = L - n /\ p \in 1..L /\ p <= Len(s)
          BY <1>0, <2>1, <3>2
        <4> DEFINE sub == Taken(s, p)
                   places == IF AndFrom(s, p) = 0 THEN {}
                                                  ELSE PiecesFrom(s, AndFrom(s, p) + 2)
                   rest == IF AndFrom(s, p) = 0 THEN <<>> ELSE w[AndFrom(s, p) + 2]
        <4>2. /\ PieceInk(s, p) = {} => sub = <<>>
              /\ PieceInk(s, p) # {} => sub = Command(s, p) /\ sub # <<>>
              /\ sub \in Seq(Characters)
          BY <4>1, PieceTaken
        <4>3. w[p] = Prefixed(sub, rest)
          BY <1>1, <4>1
        <4>4. Serves(s, places, rest) /\ \A b \in places : b \in Int /\ p < b
          <5>1. CASE AndFrom(s, p) = 0
            BY <5>1, ServesNone
          <5>2. CASE AndFrom(s, p) # 0
            <6> DEFINE r == AndFrom(s, p) + 2
            <6>1. r \in Beginnings(s) /\ r > p
              BY <5>2, PiecesSplit
            <6> HIDE DEF r
            <6>2. r >= (L + 1) - n
              BY <1>0, <4>1, <6>1
            <6>3. Done(r)
              <7> HIDE DEF Done
              <7> QED
                BY <1>3, <6>1, <6>2
            <6>4. \A b \in PiecesFrom(s, r) : b \in Int /\ p < b
              <7>1. \A b \in PiecesFrom(s, r) : b \in Beginnings(s) /\ b >= r
                BY DEF PiecesFrom
              <7>2. r \in Int /\ p \in Int /\ \A b \in Beginnings(s) : b \in Int
                BY <1>0, <6>1
              <7> TAKE b \in PiecesFrom(s, r)
              <7>3. b \in Int /\ b >= r
                BY <7>1, <7>2
              <7> QED
                BY <6>1, <7>2, <7>3
            <6>5. places = PiecesFrom(s, r) /\ rest = w[r]
              BY <5>2 DEF r
            <6> QED
              BY <6>3, <6>4, <6>5
          <5> QED
            BY <5>1, <5>2
        <4>5. PiecesFrom(s, p) = (IF PieceInk(s, p) = {} THEN {} ELSE {p}) \cup places
          <5>1. CASE AndFrom(s, p) = 0
            BY <5>1, PiecesSplit
          <5>2. CASE AndFrom(s, p) # 0
            BY <5>2, PiecesSplit
          <5> QED
            BY <5>1, <5>2
        <4> HIDE DEF sub, places, rest
        <4>6. CASE PieceInk(s, p) = {}
          <5>1. w[p] = rest /\ PiecesFrom(s, p) = places
            BY <4>2, <4>3, <4>5, <4>6 DEF Prefixed
          <5> QED
            BY <4>4, <5>1
        <4>7. CASE PieceInk(s, p) # {}
          <5>1. w[p] = <<Command(s, p)>> \o rest /\ PiecesFrom(s, p) = {p} \cup places
            BY <4>2, <4>3, <4>5, <4>7, Zenon DEF Prefixed
          <5>2. Command(s, p) \in Seq(Characters) /\ p \in Int
            BY <4>1, <4>2, <4>7
          <5>3. Serves(s, {p} \cup places, <<Command(s, p)>> \o rest)
            BY <4>4, <5>2, ServesMore
          <5> QED
            BY <5>1, <5>3
        <4> QED
          BY <4>6, <4>7
      <3> QED
        BY <3>1, <3>2
    <2>2. n + 1 \in 0..L
      BY <1>0
    <2> HIDE DEF Done
    <2> QED
      BY <2>1, <2>2
  <1>4. Serves(s, PiecesFrom(s, 1), handle_line(s))
    <2>1. L \in Good
      <3> HIDE DEF Good
      <3>1. \A n \in 0..L : n \in Good
        BY <1>0, <1>2, <1>3, CountUp
      <3> QED
        BY <1>0, <3>1
    <2>2. 1 \in Beginnings(s) /\ 1 >= (L + 1) - L
      BY <1>0 DEF Beginnings
    <2>3. Done(1)
      <3> HIDE DEF Done
      <3> QED
        BY <2>1, <2>2
    <2> QED
      BY <1>1, <2>3
  <1>5. PiecesFrom(s, 1) = {b \in Beginnings(s) : PieceInk(s, b) # {}}
    <2>1. \A b \in Beginnings(s) : b >= 1
      BY <1>0
    <2> QED
      BY <2>1 DEF PiecesFrom
  <1> QED
    BY <1>4, <1>5, Zenon DEF Serves, Command, CommandsAsTyped

-----------------------------------------------------------------------------
(* The words of a command                                                  *)

Begins(s) == {k \in Inked(s) : k - 1 \notin Inked(s)}

(* What tokenize has found when it has read n characters: W words from     *)
(* at[i] to ends[i], and whether the last one is still open.               *)
Words(s, n, W, at, ends, inside) ==
    /\ W \in 0..MAX_ARGS
    /\ at \in [1..W -> Begins(s)]
    /\ ends \in [1..W -> 1..n]
    /\ inside \in BOOLEAN
    /\ \A i \in 1..W : at[i] <= ends[i]
    /\ \A i, j \in 1..W : i < j => at[i] < at[j]
    /\ \A p \in Begins(s) : p <= n => \/ \E i \in 1..W : at[i] = p
                                      \/ W = MAX_ARGS /\ at[MAX_ARGS] < p
    /\ \A i \in 1..W : IF i = MAX_ARGS THEN ends[i] = n
                       ELSE /\ at[i]..ends[i] \subseteq Inked(s)
                            /\ ends[i] < n => ends[i] + 1 \notin Inked(s)
    /\ W < MAX_ARGS => (inside <=> n \in Inked(s))
    /\ W < MAX_ARGS /\ inside => W > 0 /\ ends[W] = n

Found(s, W, at, ends, inside) ==
    [argv |-> [i \in 1..W |-> SubSeq(s, at[i], ends[i])], inside |-> inside]

LEMMA InkAt ==
    ASSUME NEW s \in Seq(Characters)
    PROVE  /\ \A k : k \in Inked(s) <=> k \in 1..Len(s) /\ s[k] \notin Blanks
           /\ \A k \in Begins(s) : k \in 1..Len(s) /\ k \in Inked(s) /\ k - 1 \notin Inked(s)
           /\ Len(s) \in Nat
  BY DEF Inked, Begins

LEMMA WordsNone ==
    ASSUME NEW s \in Seq(Characters), NEW none, none = [i \in 1..0 |-> 0]
    PROVE  /\ Words(s, 0, 0, none, none, FALSE)
           /\ Found(s, 0, none, none, FALSE) = [argv |-> <<>>, inside |-> FALSE]
  <1>1. 1..0 = {} /\ ~(0 \in Inked(s)) /\ MAX_ARGS \in Nat /\ MAX_ARGS >= 2
    BY InkAt, CmdLineAssumption
  <1>2. \A p \in Begins(s) : ~(p <= 0)
    BY InkAt
  <1>3. none \in [1..0 -> Begins(s)] /\ none \in [1..0 -> 1..0]
    BY <1>1
  <1>4. [i \in 1..0 |-> SubSeq(s, none[i], none[i])] = <<>>
    BY <1>1
  <1> QED
    BY <1>1, <1>2, <1>3, <1>4 DEF Words, Found

(* A character is added to the last word.                                  *)
LEMMA WordGrows ==
    ASSUME NEW s \in Seq(Characters), NEW n \in 0..(Len(s) - 1),
           NEW W, NEW at, NEW ends, NEW inside, Words(s, n, W, at, ends, inside),
           W = MAX_ARGS \/ (inside /\ s[n + 1] \notin Blanks),
           NEW longer, longer = [i \in 1..W |-> IF i = W THEN n + 1 ELSE ends[i]]
    PROVE  /\ Words(s, n + 1, W, at, longer, inside)
           /\ TakeCharacter(Found(s, W, at, ends, inside), s[n + 1])
                = Found(s, W, at, longer, inside)
  <1>0. /\ W \in 0..MAX_ARGS /\ W \in Nat /\ MAX_ARGS \in Nat /\ MAX_ARGS >= 2
        /\ at \in [1..W -> Begins(s)] /\ ends \in [1..W -> 1..n] /\ inside \in BOOLEAN
        /\ n \in Nat /\ n + 1 \in 1..Len(s)
    BY CmdLineAssumption DEF Words
  <1>1. W \in 1..W /\ ends[W] = n /\ n >= 1
    <2>1. CASE W = MAX_ARGS
      <3>1. W \in 1..W
        BY <1>0, <2>1
      <3>2. ends[W] = n
        BY <2>1, <3>1 DEF Words
      <3> QED
        BY <1>0, <3>1, <3>2
    <2>2. CASE W # MAX_ARGS
      <3>1. W < MAX_ARGS /\ inside
        BY <1>0, <2>2
      <3>2. W > 0 /\ ends[W] = n
        BY <3>1 DEF Words
      <3> QED
        BY <1>0, <3>2
    <2> QED
      BY <2>1, <2>2
  <1>2. /\ longer[W] = n + 1 /\ \A i \in 1..W : i # W => longer[i] = ends[i]
        /\ longer \in [1..W -> 1..(n + 1)]
    BY <1>0, <1>1
  <1>3. \A i \in 1..W : at[i] \in 1..Len(s) /\ at[i] <= ends[i] /\ ends[i] \in 1..n
                        /\ at[i] \in Inked(s)
    BY <1>0, InkAt DEF Words
  <1>4. \A i \in 1..W : at[i] <= longer[i]
    BY <1>0, <1>1, <1>2, <1>3
  <1>5. \A i, j \in 1..W : i < j => at[i] < at[j]
    BY DEF Words
  <1>6. ASSUME NEW p \in Begins(s), p <= n + 1
        PROVE  (\E i \in 1..W : at[i] = p) \/ (W = MAX_ARGS /\ at[MAX_ARGS] < p)
    <2>1. p \in 1..Len(s) /\ p \in Inked(s) /\ p - 1 \notin Inked(s)
      BY InkAt
    <2>2. CASE p <= n
      BY <2>2 DEF Words
    <2>3. CASE ~(p <= n)
      <3>1. p = n + 1 /\ p - 1 = n
        BY <1>0, <1>6, <2>1, <2>3
      <3>2. CASE W = MAX_ARGS
        BY <1>0, <1>1, <1>3, <3>1, <3>2
      <3>3. CASE W # MAX_ARGS
        <4>1. n \in Inked(s)
          BY <1>0, <3>3 DEF Words
        <4> QED
          BY <2>1, <3>1, <4>1
      <3> QED
        BY <3>2, <3>3
    <2> QED
      BY <2>2, <2>3
  <1>7. ASSUME NEW i \in 1..W
        PROVE  IF i = MAX_ARGS THEN longer[i] = n + 1
               ELSE /\ at[i]..longer[i] \subseteq Inked(s)
                    /\ longer[i] < n + 1 => longer[i] + 1 \notin Inked(s)
    <2>1. CASE i = MAX_ARGS
      BY <1>0, <1>2, <2>1
    <2>2. CASE i # MAX_ARGS /\ i = W
      <3>1. n + 1 \in Inked(s)
        BY <1>0, <2>2, InkAt
      <3>2. at[i]..n \subseteq Inked(s)
        BY <1>1, <2>2 DEF Words
      <3>3. \A k \in at[i]..(n + 1) : k = n + 1 \/ k \in at[i]..n
        BY <1>0, <1>3
      <3> QED
        BY <1>0, <1>2, <2>2, <3>1, <3>2, <3>3
    <2>3. CASE i # MAX_ARGS /\ i # W
      <3>1. longer[i] = ends[i] /\ ends[i] \in 1..n
        BY <1>2, <1>3, <2>3
      <3>2. at[i]..ends[i] \subseteq Inked(s) /\ (ends[i] < n => ends[i] + 1 \notin Inked(s))
        BY <2>3 DEF Words
      <3>3. ends[i] < n
        <4>1. i < W /\ at[i] < at[W] /\ at[W] <= n /\ at[W] - 1 \notin Inked(s)
          BY <1>0, <1>1, <1>3, <1>5, <2>3, InkAt
        <4>2. ends[i] = n => at[W] - 1 \in at[i]..ends[i]
          BY <1>1, <1>3, <4>1
        <4> QED
          BY <1>3, <3>2, <4>1, <4>2
      <3> QED
        BY <2>3, <3>1, <3>2, <3>3
    <2> QED
      BY <2>1, <2>2, <2>3
  <1>8. W < MAX_ARGS => (inside <=> n + 1 \in Inked(s)) /\ W > 0 /\ longer[W] = n + 1
    BY <1>0, <1>1, <1>2, InkAt
  <1>9. Words(s, n + 1, W, at, longer, inside)
    BY <1>0, <1>2, <1>4, <1>5, <1>6, <1>7, <1>8 DEF Words
  <1>10. TakeCharacter(Found(s, W, at, ends, inside), s[n + 1])
           = Found(s, W, at, longer, inside)
    <2> DEFINE argv == [i \in 1..W |-> SubSeq(s, at[i], ends[i])]
               new == [i \in 1..W |-> SubSeq(s, at[i], longer[i])]
               acc == Found(s, W, at, ends, inside)
    <2>1. acc = [argv |-> argv, inside |-> inside] /\ Len(argv) = W
      BY <1>0 DEF Found
    <2> HIDE DEF acc, argv
    <2>2. TakeCharacter(acc, s[n + 1])
            = [acc EXCEPT !.argv = ReplaceAt(argv, W, Append(Last(argv), s[n + 1]))]
      BY <2>1 DEF TakeCharacter
    <2>3. Append(SubSeq(s, at[W], n), s[n + 1]) = SubSeq(s, at[W], n + 1)
      <3>1. at[W] \in 1..Len(s) /\ n + 1 \in at[W]..Len(s) /\ at[W] <= n
        BY <1>0, <1>1, <1>3
      <3>2. SubSeq(s, at[W], n + 1) = SubSeq(s, at[W], (n + 1) - 1) \o <<s[n + 1]>>
        BY <3>1, SubSeqRecursiveSecond
      <3>3. (n + 1) - 1 = n
        BY <1>0
      <3>4. SubSeq(s, at[W], n) \in Seq(Characters)
        <4>1. \A k \in at[W]..n : s[k] \in Characters
          BY <1>0, <3>1
        <4> QED
          BY <1>0, <3>1, <4>1, SubSeqProperties
      <3>5. s[n + 1] \in Characters
        BY <1>0
      <3>6. Append(SubSeq(s, at[W], n), s[n + 1]) = SubSeq(s, at[W], n) \o <<s[n + 1]>>
        BY <3>4, <3>5, AppendIsConcat
      <3> QED
        BY <3>2, <3>3, <3>6
    <2>4. /\ argv = [i \in DOMAIN argv |-> argv[i]]
          /\ new = [i \in DOMAIN argv |-> IF i = W THEN Append(argv[i], s[n + 1]) ELSE argv[i]]
      <3>1. argv[W] = SubSeq(s, at[W], n)
        BY <1>1 DEF argv
      <3>2. new[W] = SubSeq(s, at[W], n + 1)
        BY <1>1, <1>2
      <3>3. \A i \in 1..W : i # W => new[i] = argv[i]
        BY <1>2 DEF argv
      <3>4. DOMAIN argv = 1..W /\ argv = [i \in 1..W |-> argv[i]] /\ new = [i \in 1..W |-> new[i]]
        BY DEF argv
      <3> HIDE DEF new
      <3>5. \A i \in 1..W : new[i] = IF i = W THEN Append(argv[i], s[n + 1]) ELSE argv[i]
        BY <2>3, <3>1, <3>2, <3>3
      <3> QED
        BY <3>4, <3>5
    <2> HIDE DEF new
    <2>5. ReplaceAt(argv, W, Append(Last(argv), s[n + 1])) = new
      BY <1>1, <2>1, <2>4 DEF ReplaceAt, Last
    <2>6. TakeCharacter(acc, s[n + 1]) = [acc EXCEPT !.argv = new]
      BY <2>2, <2>5, Zenon
    <2>7. [acc EXCEPT !.argv = new] = [argv |-> new, inside |-> inside]
      BY <2>1
    <2>8. Found(s, W, at, longer, inside) = [argv |-> new, inside |-> inside]
      BY DEF Found, new
    <2> QED
      BY <2>6, <2>7, <2>8 DEF acc
  <1> QED
    BY <1>9, <1>10

(* A blank closes the last word.                                           *)
LEMMA WordEnds ==
    ASSUME NEW s \in Seq(Characters), NEW n \in 0..(Len(s) - 1),
           NEW W, NEW at, NEW ends, NEW inside, Words(s, n, W, at, ends, inside),
           W # MAX_ARGS, s[n + 1] \in Blanks
    PROVE  /\ Words(s, n + 1, W, at, ends, FALSE)
           /\ TakeCharacter(Found(s, W, at, ends, inside), s[n + 1])
                = Found(s, W, at, ends, FALSE)
  <1>0. /\ W \in 0..MAX_ARGS /\ W \in Nat /\ MAX_ARGS \in Nat /\ MAX_ARGS >= 2
        /\ at \in [1..W -> Begins(s)] /\ ends \in [1..W -> 1..n] /\ inside \in BOOLEAN
        /\ n \in Nat /\ n + 1 \in 1..Len(s)
    BY CmdLineAssumption DEF Words
  <1>1. n + 1 \notin Inked(s)
    BY InkAt
  <1>2. ASSUME NEW p \in Begins(s), p <= n + 1
        PROVE  \E i \in 1..W : at[i] = p
    <2>1. p \in Nat /\ p # n + 1
      BY <1>1, InkAt
    <2>2. p <= n
      BY <1>0, <1>2, <2>1
    <2> QED
      BY <2>2 DEF Words
  <1>3. ASSUME NEW i \in 1..W
        PROVE  /\ i # MAX_ARGS /\ at[i]..ends[i] \subseteq Inked(s)
               /\ ends[i] < n + 1 => ends[i] + 1 \notin Inked(s)
    <2>1. i # MAX_ARGS
      BY <1>0
    <2>2. at[i]..ends[i] \subseteq Inked(s) /\ (ends[i] < n => ends[i] + 1 \notin Inked(s))
      BY <2>1 DEF Words
    <2>3. ends[i] \in 1..n
      BY <1>0
    <2>4. ends[i] < n \/ ends[i] = n
      BY <1>0, <2>3
    <2> QED
      BY <1>1, <2>1, <2>2, <2>4
  <1>4. ends \in [1..W -> 1..(n + 1)]
    BY <1>0
  <1>5. \A i \in 1..W : at[i] <= ends[i]
    BY DEF Words
  <1>6. \A i, j \in 1..W : i < j => at[i] < at[j]
    BY DEF Words
  <1>7. Words(s, n + 1, W, at, ends, FALSE)
    BY <1>0, <1>1, <1>2, <1>3, <1>4, <1>5, <1>6 DEF Words
  <1>8. TakeCharacter(Found(s, W, at, ends, inside), s[n + 1]) = Found(s, W, at, ends, FALSE)
    <2> DEFINE argv == [i \in 1..W |-> SubSeq(s, at[i], ends[i])]
    <2>1. Len(argv) = W
      BY <1>0
    <2> HIDE DEF argv
    <2>2. TakeCharacter([argv |-> argv, inside |-> inside], s[n + 1])
            = [argv |-> argv, inside |-> FALSE]
      BY <2>1 DEF TakeCharacter
    <2> QED
      BY <2>2 DEF Found, argv
  <1> QED
    BY <1>7, <1>8

(* The first character behind a blank begins a word.                       *)
OneMore(f, W, place) == [i \in 1..(W + 1) |-> IF i = W + 1 THEN place ELSE f[i]]

LEMMA WordStarts ==
    ASSUME NEW s \in Seq(Characters), NEW n \in 0..(Len(s) - 1),
           NEW W, NEW at, NEW ends, Words(s, n, W, at, ends, FALSE),
           W # MAX_ARGS, s[n + 1] \notin Blanks
    PROVE  /\ Words(s, n + 1, W + 1, OneMore(at, W, n + 1), OneMore(ends, W, n + 1), TRUE)
           /\ TakeCharacter(Found(s, W, at, ends, FALSE), s[n + 1])
                = Found(s, W + 1, OneMore(at, W, n + 1), OneMore(ends, W, n + 1), TRUE)
  <1> DEFINE at2 == OneMore(at, W, n + 1)
             ends2 == OneMore(ends, W, n + 1)
  <1>0. /\ W \in 0..MAX_ARGS /\ W \in Nat /\ MAX_ARGS \in Nat /\ MAX_ARGS >= 2
        /\ at \in [1..W -> Begins(s)] /\ ends \in [1..W -> 1..n]
        /\ n \in Nat /\ n + 1 \in 1..Len(s) /\ W + 1 \in 0..MAX_ARGS
    BY CmdLineAssumption DEF Words
  <1>1. n + 1 \in Inked(s) /\ n \notin Inked(s) /\ n + 1 \in Begins(s)
    <2>1. n + 1 \in Inked(s)
      BY <1>0, InkAt
    <2>2. n \notin Inked(s)
      BY <1>0 DEF Words
    <2> QED
      BY <1>0, <2>1, <2>2 DEF Begins
  <1>2. /\ \A i \in 1..W : at2[i] = at[i] /\ ends2[i] = ends[i] /\ i \in 1..(W + 1)
        /\ W + 1 \in 1..(W + 1) /\ at2[W + 1] = n + 1 /\ ends2[W + 1] = n + 1
        /\ \A i \in 1..(W + 1) : i = W + 1 \/ i \in 1..W
    BY <1>0 DEF OneMore
  <1>3. \A i \in 1..W : /\ at[i] \in 1..Len(s) /\ at[i] <= ends[i] /\ ends[i] \in 1..n
                        /\ i # MAX_ARGS
    BY <1>0, InkAt DEF Words
  <1>4. at2 \in [1..(W + 1) -> Begins(s)]
    BY <1>0, <1>1 DEF OneMore
  <1>5. ends2 \in [1..(W + 1) -> 1..(n + 1)]
    BY <1>0 DEF OneMore
  <1>6. \A i \in 1..(W + 1) : at2[i] <= ends2[i]
    BY <1>0, <1>2, <1>3
  <1>7. ASSUME NEW i \in 1..(W + 1), NEW j \in 1..(W + 1), i < j
        PROVE  at2[i] < at2[j]
    <2>1. i \in 1..W
      BY <1>0, <1>7
    <2>2. CASE j = W + 1
      BY <1>0, <1>2, <1>3, <2>1, <2>2
    <2>3. CASE j # W + 1
      <3>1. j \in 1..W
        BY <1>2, <2>3
      <3>2. at[i] < at[j]
        BY <1>7, <2>1, <3>1 DEF Words
      <3> QED
        BY <1>2, <2>1, <3>1, <3>2
    <2> QED
      BY <2>2, <2>3
  <1>8. ASSUME NEW p \in Begins(s), p <= n + 1
        PROVE  \E i \in 1..(W + 1) : at2[i] = p
    <2>1. CASE p = n + 1
      BY <1>2, <2>1
    <2>2. CASE p # n + 1
      <3>1. p <= n
        BY <1>0, <1>8, <2>2, InkAt
      <3>2. PICK i \in 1..W : at[i] = p
        BY <3>1 DEF Words
      <3> QED
        BY <1>2, <3>2
    <2> QED
      BY <2>1, <2>2
  <1>9. ASSUME NEW i \in 1..(W + 1)
        PROVE  /\ at2[i]..ends2[i] \subseteq Inked(s)
               /\ ends2[i] < n + 1 => ends2[i] + 1 \notin Inked(s)
               /\ i = MAX_ARGS => ends2[i] = n + 1
    <2>1. CASE i = W + 1
      <3>1. \A k \in (n + 1)..(n + 1) : k = n + 1
        BY <1>0
      <3> QED
        BY <1>0, <1>1, <1>2, <2>1, <3>1
    <2>2. CASE i # W + 1
      <3>1. i \in 1..W /\ i # MAX_ARGS /\ at2[i] = at[i] /\ ends2[i] = ends[i]
        BY <1>2, <1>3, <2>2
      <3>2. at[i]..ends[i] \subseteq Inked(s) /\ (ends[i] < n => ends[i] + 1 \notin Inked(s))
        BY <3>1 DEF Words
      <3>3. ends[i] \in at[i]..ends[i] /\ ends[i] \in 1..n
        BY <1>3, <3>1
      <3>4. ends[i] < n
        BY <1>0, <1>1, <3>2, <3>3
      <3> QED
        BY <3>1, <3>2, <3>4
    <2> QED
      BY <2>1, <2>2
  <1>10. Words(s, n + 1, W + 1, at2, ends2, TRUE)
    BY <1>0, <1>1, <1>2, <1>4, <1>5, <1>6, <1>7, <1>8, <1>9 DEF Words
  <1>11. TakeCharacter(Found(s, W, at, ends, FALSE), s[n + 1])
           = Found(s, W + 1, at2, ends2, TRUE)
    <2> DEFINE argv == [i \in 1..W |-> SubSeq(s, at[i], ends[i])]
               new == [i \in 1..(W + 1) |-> SubSeq(s, at2[i], ends2[i])]
    <2>1. Len(argv) = W
      BY <1>0
    <2>2. SubSeq(s, n + 1, n + 1) = <<s[n + 1]>>
      BY <1>0, OneCharacter
    <2>3. \A i \in 1..W : SubSeq(s, at[i], ends[i]) \in Seq(Characters)
      <3> TAKE i \in 1..W
      <3>1. at[i] \in Int /\ ends[i] \in Int /\ \A k \in at[i]..ends[i] : s[k] \in Characters
        BY <1>0, <1>3
      <3> QED
        BY <3>1, SubSeqProperties
    <2>4. argv \in Seq(Seq(Characters)) /\ <<s[n + 1]>> \in Seq(Characters)
      BY <1>0, <2>3
    <2>5. Append(argv, <<s[n + 1]>>) = new
      <3> HIDE DEF argv
      <3>0. ASSUME NEW one \in Seq(Characters)
            PROVE  /\ Append(argv, one) \in Seq(Seq(Characters))
                   /\ Len(Append(argv, one)) = W + 1
                   /\ \A i \in 1..W : Append(argv, one)[i] = argv[i]
                   /\ Append(argv, one)[W + 1] = one
        BY <2>1, <2>4, AppendProperties
      <3>1. /\ Append(argv, <<s[n + 1]>>) \in Seq(Seq(Characters))
            /\ Len(Append(argv, <<s[n + 1]>>)) = W + 1
            /\ \A i \in 1..W : Append(argv, <<s[n + 1]>>)[i] = argv[i]
            /\ Append(argv, <<s[n + 1]>>)[W + 1] = <<s[n + 1]>>
        BY <2>4, <3>0
      <3>2. \A i \in 1..W : new[i] = argv[i]
        BY <1>2 DEF argv
      <3>3. new[W + 1] = <<s[n + 1]>>
        BY <1>2, <2>2
      <3> DEFINE app == Append(argv, <<s[n + 1]>>)
      <3>4. app = [i \in 1..(W + 1) |-> app[i]]
        BY <3>1
      <3>5. new = [i \in 1..(W + 1) |-> new[i]]
        OBVIOUS
      <3> HIDE DEF argv, new
      <3>6. \A i \in 1..(W + 1) : app[i] = new[i]
        BY <1>2, <3>1, <3>2, <3>3
      <3> HIDE DEF app
      <3>7. app = new
        BY <3>4, <3>5, <3>6
      <3> QED
        BY <3>7 DEF app
    <2> HIDE DEF argv, new
    <2>6. TakeCharacter([argv |-> argv, inside |-> FALSE], s[n + 1])
            = [argv |-> Append(argv, <<s[n + 1]>>), inside |-> TRUE]
      BY <2>1 DEF TakeCharacter
    <2> QED
      BY <1>0, <2>5, <2>6 DEF Found, argv, new
  <1> QED
    BY <1>10, <1>11

LEMMA WordsServed ==
    ASSUME NEW s \in Seq(Characters)
    PROVE  WordsAre(tokenize(s), s) /\ tokenize(s) \in Seq(Seq(Characters))
  <1> DEFINE L == Len(s)
  <1>0. L \in Nat
    OBVIOUS
  <1>1. PICK m : /\ m[0] = [argv |-> <<>>, inside |-> FALSE]
                 /\ \A n \in 1..L : m[n] = TakeCharacter(m[n - 1], s[n])
                 /\ tokenize(s) = m[L].argv
    BY <1>0, TokenWalk
  <1> DEFINE Known(n) == \E W, at, ends, inside : /\ Words(s, n, W, at, ends, inside)
                                                  /\ m[n] = Found(s, W, at, ends, inside)
             Good == {n \in 0..L : Known(n)}
  <1>2. 0 \in Good
    <2> DEFINE none == [i \in 1..0 |-> 0]
    <2>1. /\ Words(s, 0, 0, none, none, FALSE)
          /\ Found(s, 0, none, none, FALSE) = [argv |-> <<>>, inside |-> FALSE]
      BY WordsNone
    <2> HIDE DEF none
    <2>2. m[0] = Found(s, 0, none, none, FALSE)
      BY <1>1, <2>1
    <2>3. Known(0)
      BY <2>1, <2>2
    <2> HIDE DEF Known
    <2> QED
      BY <1>0, <2>3
  <1>3. ASSUME NEW n \in 0..(L - 1), n \in Good
        PROVE  n + 1 \in Good
    <2>1. n \in 0..(Len(s) - 1) /\ n + 1 \in 1..L /\ (n + 1) - 1 = n /\ n + 1 \in 0..L
      BY <1>0
    <2>2. PICK W, at, ends, inside : /\ Words(s, n, W, at, ends, inside)
                                     /\ m[n] = Found(s, W, at, ends, inside)
      BY <1>3
    <2>3. m[n + 1] = TakeCharacter(Found(s, W, at, ends, inside), s[n + 1])
      BY <1>1, <2>1, <2>2
    <2>4. Known(n + 1)
      <3>1. CASE W = MAX_ARGS \/ (inside /\ s[n + 1] \notin Blanks)
        <4> DEFINE longer == [i \in 1..W |-> IF i = W THEN n + 1 ELSE ends[i]]
        <4>1. /\ Words(s, n + 1, W, at, longer, inside)
              /\ TakeCharacter(Found(s, W, at, ends, inside), s[n + 1])
                   = Found(s, W, at, longer, inside)
          BY <2>1, <2>2, <3>1, WordGrows
        <4> HIDE DEF longer
        <4> QED
          BY <2>3, <4>1
      <3>2. CASE W # MAX_ARGS /\ s[n + 1] \in Blanks
        <4>1. /\ Words(s, n + 1, W, at, ends, FALSE)
              /\ TakeCharacter(Found(s, W, at, ends, inside), s[n + 1])
                   = Found(s, W, at, ends, FALSE)
          BY <2>1, <2>2, <3>2, WordEnds
        <4> QED
          BY <2>3, <4>1
      <3>3. CASE W # MAX_ARGS /\ ~inside /\ s[n + 1] \notin Blanks
        <4> DEFINE at2 == OneMore(at, W, n + 1)
                   ends2 == OneMore(ends, W, n + 1)
        <4>1. inside = FALSE
          BY <2>2, <3>3 DEF Words
        <4>2. /\ Words(s, n, W, at, ends, FALSE)
              /\ m[n + 1] = TakeCharacter(Found(s, W, at, ends, FALSE), s[n + 1])
          BY <2>2, <2>3, <4>1, Zenon
        <4>3. /\ Words(s, n + 1, W + 1, at2, ends2, TRUE)
              /\ TakeCharacter(Found(s, W, at, ends, FALSE), s[n + 1])
                   = Found(s, W + 1, at2, ends2, TRUE)
          BY <2>1, <3>3, <4>2, WordStarts
        <4> HIDE DEF at2, ends2
        <4> QED
          BY <4>2, <4>3, Zenon
      <3> QED
        BY <3>1, <3>2, <3>3
    <2> HIDE DEF Known
    <2> QED
      BY <2>1, <2>4
  <1>4. Known(L)
    <2> HIDE DEF Good
    <2>1. \A n \in 0..L : n \in Good
      BY <1>0, <1>2, <1>3, CountUp
    <2>2. L \in Good
      BY <1>0, <2>1
    <2> QED
      BY <2>2 DEF Good
  <1>5. PICK W, at, ends, inside : /\ Words(s, L, W, at, ends, inside)
                                   /\ m[L] = Found(s, W, at, ends, inside)
    BY <1>4
  <1> DEFINE argv == tokenize(s)
  <1>6. argv = [i \in 1..W |-> SubSeq(s, at[i], ends[i])]
    BY <1>1, <1>5 DEF Found
  <1> HIDE DEF argv
  <1>7. /\ W \in 0..MAX_ARGS /\ W \in Nat /\ MAX_ARGS \in Nat
        /\ at \in [1..W -> Begins(s)] /\ ends \in [1..W -> 1..L]
        /\ \A i, j \in 1..W : i < j => at[i] < at[j]
    BY <1>5, CmdLineAssumption DEF Words
  <1>8. ASSUME NEW i \in 1..W
        PROVE  /\ at[i] \in 1..L /\ ends[i] \in 1..L /\ at[i] <= ends[i]
               /\ argv[i] \in Seq(Characters)
               /\ Len(argv[i]) = ends[i] - at[i] + 1
               /\ at[i] + Len(argv[i]) - 1 = ends[i]
               /\ argv[i] = SubSeq(s, at[i], ends[i])
    <2>1. at[i] \in 1..L /\ ends[i] \in 1..L /\ at[i] <= ends[i]
      BY <1>5, <1>7, InkAt DEF Words
    <2>2. \A k \in at[i]..ends[i] : s[k] \in Characters
      BY <2>1
    <2>3. /\ SubSeq(s, at[i], ends[i]) \in Seq(Characters)
          /\ Len(SubSeq(s, at[i], ends[i])) = ends[i] - at[i] + 1
      BY <2>1, <2>2, SubSeqProperties
    <2>4. argv[i] = SubSeq(s, at[i], ends[i])
      BY <1>6
    <2>5. Len(argv[i]) = ends[i] - at[i] + 1
      BY <2>3, <2>4
    <2>6. at[i] + Len(argv[i]) - 1 = ends[i]
      BY <2>1, <2>5
    <2> QED
      BY <2>1, <2>3, <2>4, <2>5, <2>6
  <1>9. argv \in Seq(Seq(Characters)) /\ Len(argv) = W /\ DOMAIN argv = 1..W
    BY <1>6, <1>7, <1>8
  <1>10. ASSUME NEW i \in 1..W
         PROVE  IF i = MAX_ARGS THEN ends[i] = L
                ELSE at[i]..ends[i] \subseteq Inked(s) /\ ends[i] + 1 \notin Inked(s)
    <2>1. IF i = MAX_ARGS THEN ends[i] = L
          ELSE at[i]..ends[i] \subseteq Inked(s) /\ (ends[i] < L => ends[i] + 1 \notin Inked(s))
      BY <1>5 DEF Words
    <2>2. ends[i] \in 1..L
      BY <1>8
    <2>3. ~(ends[i] < L) => ends[i] + 1 \notin Inked(s)
      BY <1>0, <2>2, InkAt
    <2> QED
      BY <2>1, <2>3
  <1> DEFINE taken == {p \in Begins(s) : W = MAX_ARGS => p <= at[MAX_ARGS]}
  <1>11. Lists(at, taken)
    <2>1. ASSUME NEW p \in taken PROVE \E i \in 1..W : at[i] = p
      <3>1. p \in 1..L /\ p \in Begins(s) /\ p <= L
        BY InkAt
      <3>2. (\E i \in 1..W : at[i] = p) \/ (W = MAX_ARGS /\ at[MAX_ARGS] < p)
        BY <1>5, <3>1 DEF Words
      <3>3. ASSUME W = MAX_ARGS, at[MAX_ARGS] < p PROVE \E i \in 1..W : at[i] = p
        <4>1. W \in 1..W
          BY <1>7, <3>3, CmdLineAssumption
        <4>2. at[MAX_ARGS] \in 1..L
          BY <1>8, <3>3, <4>1
        <4>3. p <= at[MAX_ARGS]
          BY <3>3
        <4> QED
          BY <3>1, <3>3, <4>2, <4>3
      <3> QED
        BY <3>2, <3>3
    <2>2. DOMAIN at = 1..W
      BY <1>7
    <2> HIDE DEF taken
    <2> QED
      BY <1>7, <2>1, <2>2 DEF Lists
  <1>12. WordsAre(argv, s)
    <2> DEFINE begins == {k \in Inked(s) : k - 1 \notin Inked(s)}
               kept(a) == {p \in begins : Len(argv) = MAX_ARGS => p <= a[MAX_ARGS]}
               end(a, n) == a[n] + Len(argv[n]) - 1
    <2>1. Len(argv) <= MAX_ARGS
      BY <1>7, <1>9
    <2>2. begins = Begins(s) /\ at \in [DOMAIN argv -> begins] /\ kept(at) = taken
      BY <1>7, <1>9 DEF Begins
    <2>3. Lists(at, kept(at))
      BY <1>11, <2>2
    <2>4. ASSUME NEW n \in DOMAIN argv
          PROVE  /\ argv[n] = SubSeq(s, at[n], end(at, n))
                 /\ IF n = MAX_ARGS THEN end(at, n) = Len(s)
                    ELSE /\ at[n]..end(at, n) \subseteq Inked(s)
                         /\ end(at, n) + 1 \notin Inked(s)
      <3>1. n \in 1..W
        BY <1>9
      <3>2. end(at, n) = ends[n] /\ argv[n] = SubSeq(s, at[n], ends[n])
        BY <1>8, <3>1
      <3> HIDE DEF end
      <3> QED
        BY <1>10, <3>1, <3>2
    <2> HIDE DEF begins, kept, end
    <2>5. /\ Len(argv) <= MAX_ARGS
          /\ \E a \in [DOMAIN argv -> begins] :
               /\ Lists(a, kept(a))
               /\ \A n \in DOMAIN argv :
                    /\ argv[n] = SubSeq(s, a[n], end(a, n))
                    /\ IF n = MAX_ARGS THEN end(a, n) = Len(s)
                       ELSE /\ a[n]..end(a, n) \subseteq Inked(s)
                            /\ end(a, n) + 1 \notin Inked(s)
      BY <2>1, <2>2, <2>3, <2>4
    <2> QED
      BY <2>5, Zenon DEF WordsAre, begins, kept, end
  <1> QED
    BY <1>9, <1>12 DEF argv

-----------------------------------------------------------------------------
(* What a command is taken for                                             *)

LEMMA RedirIs ==
    ASSUME NEW c \in Seq(Characters), NEW cuts, cuts = {k \in 1..Len(c) : c[k] = ">"}
    PROVE  /\ cuts = {} => Redir(c) = 0
           /\ cuts # {} => /\ Redir(c) = Min(cuts) /\ Min(cuts) \in cuts
                           /\ \A k \in cuts : Min(cuts) <= k
  <1>1. Redir(c) = IF cuts # {} THEN Min(cuts) ELSE 0
    BY Zenon DEF Redir, SelectInSeq
  <1>2. cuts \subseteq Nat
    OBVIOUS
  <1> QED
    BY <1>1, <1>2, LeastPlace

LEMMA TailOfPart ==
    ASSUME NEW s \in Seq(Characters), NEW a \in 1..Len(s), NEW b \in a..Len(s)
    PROVE  Tail(SubSeq(s, a, b)) = SubSeq(s, a + 1, b)
  <1> DEFINE t == SubSeq(s, a, b)
             u == SubSeq(s, a + 1, b)
  <1>0. a \in Nat /\ b \in Nat /\ a <= b /\ b <= Len(s) /\ a >= 1 /\ Len(s) \in Nat
    OBVIOUS
  <1>1. \A k \in a..b : s[k] \in Characters
    BY <1>0
  <1>2. /\ t \in Seq(Characters) /\ Len(t) = b - a + 1
        /\ \A i \in 1..(b - a + 1) : t[i] = s[a + i - 1]
    BY <1>0, <1>1, SubSeqProperties
  <1>3. /\ u \in Seq(Characters) /\ Len(u) = b - a
        /\ \A i \in 1..(b - a) : u[i] = s[a + i]
    <2>1. a + 1 \in Int /\ \A k \in (a + 1)..b : s[k] \in Characters
      BY <1>0, <1>1
    <2>2. /\ u \in Seq(Characters)
          /\ Len(u) = IF a + 1 <= b THEN b - (a + 1) + 1 ELSE 0
          /\ \A i \in 1..(b - (a + 1) + 1) : u[i] = s[(a + 1) + i - 1]
      BY <1>0, <2>1, SubSeqProperties
    <2> HIDE DEF u
    <2>3. Len(u) = b - a
      BY <1>0, <2>2
    <2>4. \A i \in 1..(b - a) : u[i] = s[a + i]
      <3> TAKE i \in 1..(b - a)
      <3>1. i \in 1..(b - (a + 1) + 1) /\ (a + 1) + i - 1 = a + i
        BY <1>0
      <3> QED
        BY <2>2, <3>1
    <2> QED
      BY <2>2, <2>3, <2>4
  <1> HIDE DEF t, u
  <1>4. t # <<>>
    BY <1>0, <1>2
  <1>5. /\ Tail(t) \in Seq(Characters) /\ Len(Tail(t)) = b - a
        /\ \A i \in 1..(b - a) : Tail(t)[i] = s[a + i]
    <2>1. /\ Tail(t) \in Seq(Characters) /\ Len(Tail(t)) = Len(t) - 1
          /\ \A i \in 1..Len(Tail(t)) : Tail(t)[i] = t[i + 1]
      BY <1>2, <1>4, HeadTailProperties
    <2>2. Len(Tail(t)) = b - a
      BY <1>0, <1>2, <2>1
    <2>3. \A i \in 1..(b - a) : Tail(t)[i] = s[a + i]
      <3> TAKE i \in 1..(b - a)
      <3>1. i + 1 \in 1..(b - a + 1) /\ a + (i + 1) - 1 = a + i
        BY <1>0
      <3> QED
        BY <1>2, <2>1, <2>2, <3>1
    <2> QED
      BY <2>1, <2>2, <2>3
  <1> DEFINE v == Tail(t)
  <1> HIDE DEF v
  <1>6. v \in Seq(Characters) /\ Len(v) = Len(u) /\ \A i \in 1..Len(u) : v[i] = u[i]
    BY <1>3, <1>5 DEF v
  <1>7. v = u
    BY <1>3, <1>6, SeqEqual
  <1> QED
    BY <1>7 DEF v, t, u

InkOf(s, p, e) == {k \in Inked(s) : p <= k /\ k <= e}

LEMMA SpannedPart ==
    ASSUME NEW s \in Seq(Characters), NEW p \in 1..(Len(s) + 1), NEW e \in (p - 1)..Len(s),
           NEW ink, ink = InkOf(s, p, e)
    PROVE  /\ Trim(SubSeq(s, p, e)) = Spanned(s, ink)
           /\ Trim(SubSeq(s, p, e)) \in Seq(Characters)
           /\ ink # {} => /\ Trim(SubSeq(s, p, e)) # <<>>
                          /\ Min(ink) \in ink /\ Max(ink) \in ink
                          /\ \A k \in ink : Min(ink) <= k /\ k <= Max(ink)
  <1>1. /\ ink = {} => Trim(SubSeq(s, p, e)) = <<>>
        /\ ink # {} => /\ Trim(SubSeq(s, p, e)) = SubSeq(s, Min(ink), Max(ink))
                       /\ Trim(SubSeq(s, p, e)) # <<>>
                       /\ Min(ink) \in ink /\ Max(ink) \in ink
        /\ Trim(SubSeq(s, p, e)) \in Seq(Characters)
    <2>1. ink = {k \in Inked(s) : p <= k /\ k <= e}
      BY DEF InkOf
    <2> QED
      BY <2>1, TrimmedPart
  <1>2. Len(s) \in Nat /\ ink \subseteq Nat /\ ink \subseteq 0..Len(s)
    BY InkInside DEF InkOf
  <1>3. ink # {} => \A k \in ink : Min(ink) <= k /\ k <= Max(ink)
    BY <1>2, LeastPlace, GreatestPlace
  <1> QED
    BY <1>1, <1>3, Zenon DEF Spanned

LEMMA RunServed ==
    ASSUME NEW c \in Seq(Characters)
    PROVE  RunAsTyped(c)
  <1> DEFINE L == Len(c)
             run == handle_single_command(c)
             cuts == {k \in DOMAIN c : c[k] = ">"}
             cut == Min(cuts \cup {L + 1})
             front == {k \in Inked(c) : k < cut}
             behind == {k \in Inked(c) : k > cut}
             first == Min(front \cup {cut})
             echoes == /\ cuts # {} /\ front # {}
                       /\ c[first] = "echo" /\ first + 1 \notin front
             echoed == front \ {first}
             left == Trim(SubSeq(c, 1, Redir(c) - 1))
             target == Trim(SubSeq(c, Redir(c) + 1, Len(c)))
  <1>0. L \in Nat /\ DOMAIN c = 1..Len(c)
    OBVIOUS
  <1>1. /\ cuts = {} => Redir(c) = 0
        /\ cuts # {} => /\ Redir(c) = Min(cuts) /\ Min(cuts) \in cuts
                        /\ \A k \in cuts : Min(cuts) <= k
    <2>1. cuts = {k \in 1..Len(c) : c[k] = ">"}
      BY <1>0
    <2> HIDE DEF cuts
    <2> QED
      BY <2>1, RedirIs
  <1>2. CASE cuts = {}
    <2>1. run = [kind |-> "run", argv |-> tokenize(c)]
      BY <1>1, <1>2 DEF handle_single_command
    <2>2. WordsAre(tokenize(c), c)
      BY WordsServed
    <2>3. ~echoes /\ run.kind = "run" /\ run.argv = tokenize(c)
      BY <1>2, <2>1
    <2> HIDE DEF run, cut, front, behind, first, echoed, left, target
    <2> QED
      BY <1>2, <2>2, <2>3, Zenon
         DEF RunAsTyped, run, cuts, cut, front, behind, first, echoes, echoed
  <1>3. CASE cuts # {}
    <2> DEFINE d == Min(cuts)
    <2>1. d \in 1..L /\ d \in cuts /\ Redir(c) = d /\ \A k \in cuts : d <= k
      BY <1>0, <1>1, <1>3
    <2>2. cut = d
      <3>1. cuts \cup {L + 1} \subseteq Nat
        BY <1>0
      <3>2. \A k \in cuts \cup {L + 1} : d <= k
        BY <1>0, <2>1
      <3> HIDE DEF cuts, d
      <3> QED
        BY <2>1, <3>1, <3>2, LeastIs
    <2>3. /\ front = {k \in Inked(c) : 1 <= k /\ k <= d - 1}
          /\ behind = {k \in Inked(c) : d + 1 <= k /\ k <= L}
      <3>1. \A k \in Inked(c) : k \in 1..L
        BY InkInside
      <3> HIDE DEF cut, d
      <3> QED
        BY <1>0, <2>1, <2>2, <3>1
    <2>30. front = InkOf(c, 1, d - 1) /\ behind = InkOf(c, d + 1, Len(c))
      BY <2>3 DEF InkOf
    <2>4. d - 1 \in (1 - 1)..Len(c) /\ 1 \in 1..(Len(c) + 1)
          /\ d + 1 \in 1..(Len(c) + 1) /\ Len(c) \in ((d + 1) - 1)..Len(c)
      BY <1>0, <2>1
    <2> HIDE DEF cuts, cut, front, behind, d
    <2>5. /\ left = Spanned(c, front) /\ left \in Seq(Characters)
          /\ front # {} => /\ left # <<>> /\ Min(front) \in front /\ Max(front) \in front
                           /\ \A k \in front : Min(front) <= k /\ k <= Max(front)
      <3>1. left = Trim(SubSeq(c, 1, d - 1))
        BY <2>1
      <3> HIDE DEF left
      <3> QED
        BY <2>30, <2>4, <3>1, SpannedPart
    <2>6. target = Spanned(c, behind) /\ (behind # {} => target # <<>>)
      <3>1. target = Trim(SubSeq(c, d + 1, Len(c)))
        BY <2>1
      <3> HIDE DEF target
      <3> QED
        BY <2>30, <2>4, <3>1, SpannedPart
    <2>7. behind = {} => target = <<>>
      BY <2>6 DEF Spanned
    <2>8. front = {} => left = <<>>
      BY <2>5 DEF Spanned
    <2> DEFINE taken == left # <<>> /\ left[1] = "echo" /\ (Len(left) = 1 \/ left[2] \in Blanks)
               text == Unquote(Trim(Tail(left)))
    <2>9. run = IF target = <<>> THEN [kind |-> "syntax error"]
                ELSE IF taken THEN [kind |-> "redirect", target |-> target, text |-> text]
                ELSE [kind |-> "run", argv |-> tokenize(left)]
      <3>1. Redir(c) # 0
        BY <1>0, <2>1
      <3> QED
        BY <3>1, Zenon DEF handle_single_command
    <2> HIDE DEF run, left, target
    <2>10. ASSUME front # {}
           PROVE  /\ first = Min(front) /\ first \in 1..L
                  /\ taken <=> c[first] = "echo" /\ first + 1 \notin front
                  /\ Trim(Tail(left)) = Spanned(c, echoed)
                  /\ echoed # {} => /\ Trim(Tail(left)) # <<>>
                                    /\ Trim(Tail(left))[1] = c[Min(echoed)]
      <3> DEFINE a == Min(front)
                 b == Max(front)
      <3>1. /\ a \in front /\ b \in front /\ \A k \in front : a <= k /\ k <= b
            /\ left = SubSeq(c, a, b) /\ left # <<>>
        BY <2>5, <2>10 DEF Spanned
      <3>2. \A k : k \in front <=> k \in 1..L /\ c[k] \notin Blanks /\ k <= d - 1
        BY <2>3, InkAt
      <3>3. a \in 1..L /\ b \in a..L /\ b <= d - 1 /\ a \in Nat /\ b \in Nat
        BY <1>0, <2>1, <3>1, <3>2
      <3>4. first = a
        <4>1. front \cup {cut} \subseteq Nat /\ a \in front \cup {cut}
          BY <1>0, <2>1, <2>2, <3>1, <3>2
        <4>2. \A k \in front \cup {cut} : a <= k
          BY <1>0, <2>1, <2>2, <3>1, <3>3
        <4> HIDE DEF a
        <4> QED
          BY <4>1, <4>2, LeastIs
      <3> HIDE DEF a, b
      <3>5. /\ Len(left) = b - a + 1
            /\ \A i \in 1..(b - a + 1) : left[i] = c[a + i - 1]
        <4>1. \A k \in a..b : c[k] \in Characters
          BY <1>0, <3>3
        <4> QED
          BY <3>1, <3>3, <4>1, SubSeqProperties
      <3>6. left[1] = c[a]
        <4>1. 1 \in 1..(b - a + 1) /\ a + 1 - 1 = a
          BY <3>3
        <4> QED
          BY <3>5, <4>1
      <3>7. (Len(left) = 1 \/ left[2] \in Blanks) <=> a + 1 \notin front
        <4>1. CASE b = a
          BY <3>1, <3>3, <3>5, <4>1
        <4>2. CASE b # a
          <5>1. 2 \in 1..(b - a + 1) /\ a + 2 - 1 = a + 1 /\ a + 1 \in 1..L /\ a + 1 <= d - 1
                /\ b - a + 1 # 1
            BY <1>0, <2>1, <3>3, <4>2
          <5>2. left[2] = c[a + 1]
            BY <3>5, <5>1
          <5> QED
            BY <3>2, <3>5, <5>1, <5>2
        <4> QED
          BY <4>1, <4>2
      <3>8. Tail(left) = SubSeq(c, a + 1, b)
        BY <3>1, <3>3, TailOfPart
      <3>9. echoed = {k \in Inked(c) : a + 1 <= k /\ k <= b}
        <4>1. \A k \in echoed : k \in Inked(c) /\ a + 1 <= k /\ k <= b
          BY <2>3, <3>1, <3>2, <3>3, <3>4
        <4>2. \A k \in Inked(c) : a + 1 <= k /\ k <= b => k \in echoed
          <5> TAKE k \in Inked(c)
          <5>1. k \in 1..L /\ c[k] \notin Blanks
            BY InkAt
          <5>2. a + 1 <= k /\ k <= b => k \in front /\ k # a
            BY <1>0, <2>1, <3>2, <3>3, <5>1
          <5> QED
            BY <3>4, <5>2
        <4> HIDE DEF echoed
        <4> QED
          BY <4>1, <4>2
      <3> HIDE DEF echoed, first
      <3>10. /\ Trim(Tail(left)) = Spanned(c, echoed)
             /\ echoed # {} => /\ Trim(Tail(left)) # <<>>
                               /\ Min(echoed) \in echoed /\ Max(echoed) \in echoed
                               /\ \A k \in echoed : Min(echoed) <= k /\ k <= Max(echoed)
        <4>1. a + 1 \in 1..(Len(c) + 1) /\ b \in ((a + 1) - 1)..Len(c)
          BY <3>3
        <4>2. echoed = InkOf(c, a + 1, b)
          BY <3>9 DEF InkOf
        <4> QED
          BY <3>8, <4>1, <4>2, SpannedPart
      <3>11. ASSUME echoed # {}
             PROVE  Trim(Tail(left))[1] = c[Min(echoed)]
        <4> DEFINE m == Min(echoed)
                   n == Max(echoed)
        <4>1. m \in echoed /\ n \in echoed /\ m <= n /\ Trim(Tail(left)) = SubSeq(c, m, n)
          BY <3>10, <3>11 DEF Spanned
        <4>2. m \in 1..L /\ n \in m..L
          BY <1>0, <3>3, <3>9, <4>1, InkAt
        <4> HIDE DEF m, n
        <4>3. \A k \in m..n : c[k] \in Characters
          BY <1>0, <4>2
        <4>4. \A i \in 1..(n - m + 1) : SubSeq(c, m, n)[i] = c[m + i - 1]
          BY <4>2, <4>3, SubSeqProperties
        <4>5. 1 \in 1..(n - m + 1) /\ m + 1 - 1 = m
          BY <4>2
        <4> QED
          BY <4>1, <4>4, <4>5 DEF m
      <3>12. taken <=> c[first] = "echo" /\ first + 1 \notin front
        BY <3>1, <3>4, <3>6, <3>7
      <3> HIDE DEF taken
      <3> QED
        BY <3>3, <3>4, <3>10, <3>11, <3>12 DEF a
    <2>11. taken <=> echoes
      BY <1>3, <2>8, <2>10
    <2>12. ASSUME echoes, echoed = {} \/ c[Min(echoed)] \notin Quotes
           PROVE  text = Spanned(c, echoed)
      <3>1. front # {}
        BY <2>12
      <3> HIDE DEF echoes, taken, echoed, first
      <3>2. CASE echoed = {}
        <4>1. Trim(Tail(left)) = <<>>
          BY <2>10, <3>1, <3>2 DEF Spanned
        <4> QED
          BY <2>10, <3>1, <4>1 DEF Unquote
      <3>3. CASE echoed # {}
        <4>1. Trim(Tail(left))[1] \notin Quotes
          BY <2>10, <2>12, <3>1, <3>3
        <4> QED
          BY <2>10, <3>1, <4>1 DEF Unquote
      <3> QED
        BY <3>2, <3>3
    <2>13. WordsAre(tokenize(left), Spanned(c, front))
      BY <2>5, WordsServed
    <2> HIDE DEF taken, text
    <2>14. CASE behind = {}
      <3>1. run = [kind |-> "syntax error"]
        BY <2>7, <2>9, <2>14
      <3> HIDE DEF first, echoes, echoed
      <3> QED
        BY <1>3, <2>14, <3>1, Zenon
           DEF RunAsTyped, run, cuts, cut, front, behind, first, echoes, echoed
    <2>15. CASE behind # {} /\ echoes
      <3>1. run = [kind |-> "redirect", target |-> target, text |-> text]
        BY <2>6, <2>9, <2>11, <2>15
      <3>2. run.kind = "redirect" /\ run.target = Spanned(c, behind) /\ run.text = text
        BY <2>6, <3>1
      <3> HIDE DEF first, echoes, echoed
      <3>3. echoed = {} \/ c[Min(echoed)] \notin Quotes => run.text = Spanned(c, echoed)
        BY <2>12, <2>15, <3>2
      <3> QED
        BY <2>15, <3>2, <3>3, Zenon
           DEF RunAsTyped, run, cuts, cut, front, behind, first, echoes, echoed
    <2>16. CASE behind # {} /\ ~echoes
      <3>1. run = [kind |-> "run", argv |-> tokenize(left)]
        BY <2>6, <2>9, <2>11, <2>16
      <3>2. run.kind = "run" /\ run.argv = tokenize(left)
        BY <3>1
      <3> HIDE DEF first, echoes, echoed
      <3>3. WordsAre(run.argv, IF cuts = {} THEN c ELSE Spanned(c, front))
        BY <1>3, <2>13, <3>2, Zenon
      <3> QED
        BY <2>16, <3>2, <3>3, Zenon
           DEF RunAsTyped, run, cuts, cut, front, behind, first, echoes, echoed
    <2> QED
      BY <2>14, <2>15, <2>16
  <1> QED
    BY <1>2, <1>3

-----------------------------------------------------------------------------
(* The text of an echo                                                     *)

Echoed(text) == <<"echo", " ", "'">> \o text \o <<"'", " ", ">", " ", "f">>

LEMMA EchoedParts ==
    ASSUME NEW text \in Seq(Characters)
    PROVE  /\ Echoed(text) \in Seq(Characters) /\ Len(Echoed(text)) = Len(text) + 8
           /\ Echoed(text)[1] = "echo" /\ Echoed(text)[2] = " " /\ Echoed(text)[3] = "'"
           /\ \A k \in 1..Len(text) : Echoed(text)[k + 3] = text[k]
           /\ Echoed(text)[Len(text) + 4] = "'" /\ Echoed(text)[Len(text) + 5] = " "
           /\ Echoed(text)[Len(text) + 6] = ">" /\ Echoed(text)[Len(text) + 7] = " "
           /\ Echoed(text)[Len(text) + 8] = "f"
  <1> DEFINE a == <<"echo", " ", "'">>
             b == <<"'", " ", ">", " ", "f">>
             L == Len(text)
             u == a \o text
             s == u \o b
  <1>0. L \in Nat
    OBVIOUS
  <1>1. a \in Seq(Characters) /\ Len(a) = 3
    <2>1. "echo" \in Characters /\ " " \in Characters /\ "'" \in Characters
      BY DEF Characters
    <2>2. \A x, y, z \in Characters : <<x, y, z>> \in Seq(Characters) /\ Len(<<x, y, z>>) = 3
      OBVIOUS
    <2> QED
      BY <2>1, <2>2, Zenon
  <1>11. a[1] = "echo" /\ a[2] = " " /\ a[3] = "'"
    OBVIOUS
  <1>2. b \in Seq(Characters) /\ Len(b) = 5
    <2>1. "'" \in Characters /\ " " \in Characters /\ ">" \in Characters /\ "f" \in Characters
      BY DEF Characters
    <2>2. \A v, w, x, y, z \in Characters :
             <<v, w, x, y, z>> \in Seq(Characters) /\ Len(<<v, w, x, y, z>>) = 5
      OBVIOUS
    <2> QED
      BY <2>1, <2>2, Zenon
  <1>12. b[1] = "'" /\ b[2] = " " /\ b[3] = ">" /\ b[4] = " " /\ b[5] = "f"
    OBVIOUS
  <1>13. L = Len(text)
    OBVIOUS
  <1> HIDE DEF a, b, L
  <1>3. /\ u \in Seq(Characters) /\ Len(u) = L + 3
        /\ \A i \in 1..(L + 3) : u[i] = IF i <= 3 THEN a[i] ELSE text[i - 3]
    <2>1. /\ u \in Seq(Characters) /\ Len(u) = Len(a) + Len(text)
          /\ \A i \in 1..(Len(a) + Len(text)) :
                u[i] = IF i <= Len(a) THEN a[i] ELSE text[i - Len(a)]
      BY <1>1, ConcatProperties
    <2> HIDE DEF u
    <2>2. Len(a) = 3 /\ Len(a) + Len(text) = L + 3
      BY <1>0, <1>1, <1>13
    <2> QED
      BY <2>1, <2>2
  <1>31. Len(u) = L + 3
    BY <1>3
  <1> HIDE DEF u
  <1>4. /\ s \in Seq(Characters) /\ Len(s) = L + 8
        /\ \A i \in 1..(L + 8) : s[i] = IF i <= L + 3 THEN u[i] ELSE b[i - (L + 3)]
    <2>1. /\ s \in Seq(Characters) /\ Len(s) = Len(u) + Len(b)
          /\ \A i \in 1..(Len(u) + Len(b)) :
                s[i] = IF i <= Len(u) THEN u[i] ELSE b[i - Len(u)]
      BY <1>2, <1>3, ConcatProperties
    <2> HIDE DEF s
    <2>2. Len(b) = 5
      BY <1>2
    <2>3. Len(u) + Len(b) = L + 8
      BY <1>0, <1>31, <2>2
    <2> QED
      BY <1>31, <2>1, <2>3
  <1>5. Echoed(text) = s
    BY DEF Echoed, s, u, a, b
  <1> HIDE DEF s
  <1>6. s[1] = "echo" /\ s[2] = " " /\ s[3] = "'"
    <2>1. ASSUME NEW k \in 1..3 PROVE s[k] = a[k]
      <3>1. k \in 1..(L + 8) /\ k \in 1..(L + 3) /\ k <= L + 3 /\ k <= 3
        BY <1>0
      <3> QED
        BY <1>3, <1>4, <3>1
    <2>2. 1 \in 1..3 /\ 2 \in 1..3 /\ 3 \in 1..3
      OBVIOUS
    <2> QED
      BY <1>11, <2>1, <2>2
  <1>7. ASSUME NEW k \in 1..L PROVE s[k + 3] = text[k]
    <2>1. /\ k + 3 \in 1..(L + 8) /\ k + 3 \in 1..(L + 3) /\ k + 3 <= L + 3
          /\ ~(k + 3 <= 3) /\ (k + 3) - 3 = k
      BY <1>0
    <2> QED
      BY <1>3, <1>4, <2>1
  <1>8. \A j \in 1..5 : s[L + 3 + j] = b[j]
    <2> TAKE j \in 1..5
    <2>1. L + 3 + j \in 1..(L + 8) /\ ~(L + 3 + j <= L + 3) /\ (L + 3 + j) - (L + 3) = j
      BY <1>0
    <2> QED
      BY <1>4, <2>1
  <1>9. /\ s[L + 4] = "'" /\ s[L + 5] = " " /\ s[L + 6] = ">" /\ s[L + 7] = " "
        /\ s[L + 8] = "f"
    <2>1. /\ L + 3 + 1 = L + 4 /\ L + 3 + 2 = L + 5 /\ L + 3 + 3 = L + 6
          /\ L + 3 + 4 = L + 7 /\ L + 3 + 5 = L + 8
      BY <1>0
    <2>2. 1 \in 1..5 /\ 2 \in 1..5 /\ 3 \in 1..5 /\ 4 \in 1..5 /\ 5 \in 1..5
      OBVIOUS
    <2> QED
      BY <1>8, <1>12, <2>1, <2>2
  <1> QED
    BY <1>4, <1>5, <1>6, <1>7, <1>9 DEF L

(* A line that begins and ends with a character that is not blank.         *)
LEMMA TrimKeeps ==
    ASSUME NEW s \in Seq(Characters), Len(s) > 0, s[1] \notin Blanks, s[Len(s)] \notin Blanks
    PROVE  Trim(s) = s
  <1>1. /\ Len(s) \in Nat /\ 1 \in Inked(s) /\ Len(s) \in Inked(s)
        /\ \A k \in Inked(s) : 1 <= k /\ k <= Len(s)
        /\ Inked(s) \subseteq Nat /\ Inked(s) \subseteq 0..Len(s)
    BY InkAt
  <1>2. Min(Inked(s)) = 1
    BY <1>1, LeastIs
  <1>3. Max(Inked(s)) = Len(s)
    BY <1>1, GreatestIs
  <1>4. Inked(s) # {}
    BY <1>1
  <1>5. Trim(s) = SubSeq(s, 1, Len(s))
    BY <1>2, <1>3, <1>4, TrimToInk
  <1> QED
    BY <1>5, SubSeqFull

(* The part of a line from p to e, between two characters i and j that are *)
(* not blank and with nothing but blanks around them.                      *)
LEMMA TrimBetween ==
    ASSUME NEW s \in Seq(Characters), NEW p \in 1..Len(s), NEW e \in p..Len(s),
           NEW i \in p..e, NEW j \in i..e,
           s[i] \notin Blanks, s[j] \notin Blanks,
           \A k \in p..e : k < i \/ k > j => s[k] \in Blanks
    PROVE  Trim(SubSeq(s, p, e)) = SubSeq(s, i, j)
  <1> DEFINE ink == {k \in Inked(s) : p <= k /\ k <= e}
  <1>0. Len(s) \in Nat /\ p \in 1..(Len(s) + 1) /\ e \in (p - 1)..Len(s)
    OBVIOUS
  <1>1. i \in ink /\ j \in ink
    BY InkAt
  <1>2. ASSUME NEW k \in ink PROVE i <= k /\ k <= j /\ k \in 0..Len(s)
    <2>1. k \in 1..Len(s) /\ s[k] \notin Blanks /\ k \in p..e
      BY InkAt
    <2> QED
      BY <2>1
  <1>3. ink \subseteq Nat /\ ink \subseteq 0..Len(s)
    BY <1>2
  <1> HIDE DEF ink
  <1>4. Min(ink) = i
    BY <1>1, <1>2, <1>3, LeastIs
  <1>5. Max(ink) = j
    BY <1>0, <1>1, <1>2, <1>3, GreatestIs
  <1>6. ink # {}
    BY <1>1
  <1>7. Trim(SubSeq(s, p, e)) = SubSeq(s, Min(ink), Max(ink))
    <2>1. ink = {k \in Inked(s) : p <= k /\ k <= e}
      BY DEF ink
    <2> QED
      BY <1>0, <1>6, <2>1, TrimmedPart
  <1> QED
    BY <1>4, <1>5, <1>7

(* A line without && is one command.                                       *)
LEMMA OneCommand ==
    ASSUME NEW s \in Seq(Characters), Len(s) > 0, s[1] \notin Blanks, s[Len(s)] \notin Blanks,
           Separators(s) = {}
    PROVE  handle_line(s) = <<s>>
  <1>1. PICK w : /\ \A p \in 1..Len(s) :
                      w[p] = Prefixed(Taken(s, p), IF AndFrom(s, p) = 0 THEN <<>>
                                                   ELSE w[AndFrom(s, p) + 2])
                 /\ handle_line(s) = w[1]
    BY SplitWalk
  <1>2. 1 \in 1..Len(s) /\ 1 \in Beginnings(s) /\ s # <<>>
    BY DEF Beginnings
  <1>3. AndFrom(s, 1) = 0
    BY <1>2, BeginningsEven, SeparatorsFrom
  <1>4. Taken(s, 1) = s
    <2>1. Taken(s, 1) = Trim(SubSeq(s, 1, Len(s)))
      BY <1>3 DEF Taken, PartEnd
    <2> QED
      BY <2>1, SubSeqFull, TrimKeeps
  <1>5. handle_line(s) = Prefixed(s, <<>>)
    BY <1>1, <1>2, <1>3, <1>4
  <1>6. Prefixed(s, <<>>) = <<s>> \o <<>>
    BY <1>2, Zenon DEF Prefixed
  <1>7. <<s>> \o <<>> = <<s>>
    BY ConcatEmptySeq
  <1> QED
    BY <1>5, <1>6, <1>7

(* The quotation marks around a text go, those inside it stay.             *)
LEMMA Unquoted ==
    ASSUME NEW text \in Seq(Characters), NEW q \in Seq(Characters),
           Len(q) = Len(text) + 2, q[1] = "'", q[Len(text) + 2] = "'",
           \A k \in 1..Len(text) : q[k + 1] = text[k]
    PROVE  Unquote(q) = text
  <1> DEFINE L == Len(text)
             rest == Tail(q)
  <1>0. L \in Nat /\ q # <<>> /\ q[1] \in Quotes
    BY DEF Quotes
  <1>1. /\ rest \in Seq(Characters) /\ Len(rest) = L + 1
        /\ \A i \in 1..(L + 1) : rest[i] = q[i + 1]
    <2>1. /\ rest \in Seq(Characters) /\ Len(rest) = Len(q) - 1
          /\ \A i \in 1..Len(rest) : rest[i] = q[i + 1]
      BY <1>0, HeadTailProperties
    <2>2. Len(q) - 1 = L + 1
      BY <1>0
    <2> HIDE DEF rest, L
    <2> QED
      BY <2>1, <2>2
  <1> HIDE DEF rest
  <1>2. rest # <<>> /\ Last(rest) = q[1]
    <2>1. L + 1 \in 1..(L + 1) /\ (L + 1) + 1 = L + 2
      BY <1>0
    <2>2. rest[L + 1] = q[L + 2]
      BY <1>1, <2>1
    <2>3. Last(rest) = rest[L + 1]
      BY <1>1 DEF Last
    <2> QED
      BY <1>0, <1>1, <2>2, <2>3
  <1>3. Front(rest) = text
    <2>1. Front(rest) = SubSeq(rest, 1, L)
      BY <1>0, <1>1 DEF Front
    <2>2. \A i \in 1..L : rest[i] = text[i] /\ rest[i] \in Characters
      BY <1>0, <1>1
    <2>3. /\ SubSeq(rest, 1, L) \in Seq(Characters) /\ Len(SubSeq(rest, 1, L)) = L
          /\ \A i \in 1..L : SubSeq(rest, 1, L)[i] = rest[i]
      <3>1. /\ SubSeq(rest, 1, L) \in Seq(Characters)
            /\ Len(SubSeq(rest, 1, L)) = IF 1 <= L THEN L - 1 + 1 ELSE 0
            /\ \A i \in 1..(L - 1 + 1) : SubSeq(rest, 1, L)[i] = rest[1 + i - 1]
        BY <1>0, <2>2, SubSeqProperties
      <3> DEFINE part == SubSeq(rest, 1, L)
      <3> HIDE DEF part
      <3>2. Len(part) = L
        BY <1>0, <3>1 DEF part
      <3>3. \A i \in 1..L : i \in 1..(L - 1 + 1) /\ 1 + i - 1 = i
        BY <1>0
      <3>4. \A i \in 1..L : part[i] = rest[i]
        BY <3>1, <3>3 DEF part
      <3> QED
        BY <3>1, <3>2, <3>4 DEF part
    <2> DEFINE part == SubSeq(rest, 1, L)
    <2>4. \A i \in 1..L : part[i] = text[i]
      BY <2>2, <2>3
    <2>5. part \in Seq(Characters) /\ Len(part) = Len(text)
      BY <2>3
    <2> HIDE DEF part
    <2>6. part = text
      BY <2>4, <2>5, SeqEqual
    <2> QED
      BY <2>1, <2>6 DEF part
  <1> QED
    BY <1>0, <1>2, <1>3 DEF Unquote, rest

LEMMA EchoServed ==
    ASSUME NEW text \in Seq(Characters), \A k \in 1..Len(text) : text[k] # ">"
    PROVE  EchoAsTyped(text)
  <1> DEFINE s == Echoed(text)
             L == Len(text)
  <1>0. L \in Nat
    OBVIOUS
  <1>1. /\ s \in Seq(Characters) /\ Len(s) = L + 8
        /\ s[1] = "echo" /\ s[2] = " " /\ s[3] = "'"
        /\ \A k \in 1..L : s[k + 3] = text[k]
        /\ s[L + 4] = "'" /\ s[L + 5] = " " /\ s[L + 6] = ">" /\ s[L + 7] = " "
        /\ s[L + 8] = "f"
    BY EchoedParts
  <1> HIDE DEF s
  <1>20. s \in Seq(Characters) /\ Len(s) = L + 8
    BY <1>1
  <1>21. s[1] = "echo" /\ s[2] = " " /\ s[3] = "'"
    BY <1>1
  <1>22. \A k \in 1..L : s[k + 3] = text[k]
    BY <1>1
  <1>23. s[L + 4] = "'" /\ s[L + 5] = " "
    BY <1>1
  <1>24. s[L + 6] = ">"
    BY <1>1
  <1>25. s[L + 7] = " " /\ s[L + 8] = "f"
    BY <1>1
  <1>26. "echo" \notin Blanks /\ "'" \notin Blanks /\ "f" \notin Blanks /\ " " \in Blanks
    BY DEF Blanks
  <1>2. ASSUME Separators(s) = {}
        PROVE  handle_line(s) = <<s>>
    <2>1. Len(s) > 0
      BY <1>0, <1>20
    <2>2. s[1] \notin Blanks /\ s[Len(s)] \notin Blanks
      BY <1>20, <1>21, <1>25, <1>26
    <2> QED
      BY <1>2, <1>20, <2>1, <2>2, OneCommand
  <1> DEFINE left == Trim(SubSeq(s, 1, (L + 6) - 1))
             target == Trim(SubSeq(s, (L + 6) + 1, Len(s)))
             q == SubSeq(s, 3, L + 4)
  <1>3. Redir(s) = L + 6
    <2> DEFINE I == {i \in 1..Len(s) : s[i] = ">"}
    <2>1. L + 6 \in I /\ I \subseteq Nat
      <3>1. L + 6 \in 1..Len(s)
        BY <1>0, <1>20
      <3> QED
        BY <1>24, <3>1
    <2>2. ASSUME NEW i \in I, ~(L + 6 <= i) PROVE FALSE
      <3>0. i \in 1..(L + 8) /\ s[i] = ">"
        BY <1>20
      <3>1. i = 1 \/ i = 2 \/ i = 3 \/ i \in 4..(L + 3) \/ i = L + 4 \/ i = L + 5
        BY <1>0, <2>2, <3>0
      <3>2. i # 1 /\ i # 2 /\ i # 3
        BY <1>21, <3>0
      <3>3. CASE i \in 4..(L + 3)
        <4>1. i - 3 \in 1..L /\ (i - 3) + 3 = i
          BY <1>0, <3>3
        <4>2. s[i] = text[i - 3]
          BY <1>22, <4>1
        <4>3. text[i - 3] # ">"
          BY <4>1
        <4> QED
          BY <3>0, <4>2, <4>3
      <3>4. i # L + 4 /\ i # L + 5
        BY <1>23, <3>0
      <3> QED
        BY <3>1, <3>2, <3>3, <3>4
    <2> HIDE DEF I
    <2>3. Min(I) = L + 6 /\ I # {}
      BY <2>1, <2>2, LeastIs
    <2> QED
      BY <2>3 DEF Redir, SelectInSeq, I
  <1>4. left = SubSeq(s, 1, L + 4)
    <2>1. (L + 6) - 1 = L + 5
      BY <1>0
    <2>2. 1 \in 1..Len(s) /\ L + 5 \in 1..Len(s) /\ 1 \in 1..(L + 5) /\ L + 4 \in 1..(L + 5)
      BY <1>0, <1>20
    <2>3. s[1] \notin Blanks /\ s[L + 4] \notin Blanks
      BY <1>21, <1>23, <1>26
    <2>4. \A k \in 1..(L + 5) : k < 1 \/ k > L + 4 => s[k] \in Blanks
      <3> TAKE k \in 1..(L + 5)
      <3>1. k < 1 \/ k > L + 4 => k = L + 5
        BY <1>0
      <3>2. s[L + 5] \in Blanks
        BY <1>23, <1>26
      <3> QED
        BY <3>1, <3>2
    <2>5. Trim(SubSeq(s, 1, L + 5)) = SubSeq(s, 1, L + 4)
      BY <1>20, <2>2, <2>3, <2>4, TrimBetween
    <2> QED
      BY <2>1, <2>5
  <1>5. target = <<"f">>
    <2>1. (L + 6) + 1 = L + 7 /\ L + 8 = Len(s)
      BY <1>0, <1>20
    <2>2. /\ L + 7 \in 1..Len(s) /\ L + 8 \in (L + 7)..Len(s)
          /\ L + 8 \in (L + 7)..(L + 8) /\ L + 8 \in (L + 8)..(L + 8)
      BY <1>0, <1>20
    <2>3. s[L + 8] \notin Blanks
      BY <1>25, <1>26
    <2>4. \A k \in (L + 7)..(L + 8) : k < L + 8 \/ k > L + 8 => s[k] \in Blanks
      <3> TAKE k \in (L + 7)..(L + 8)
      <3>1. k < L + 8 \/ k > L + 8 => k = L + 7
        BY <1>0
      <3>2. s[L + 7] \in Blanks
        BY <1>25, <1>26
      <3> QED
        BY <3>1, <3>2
    <2>5. Trim(SubSeq(s, L + 7, L + 8)) = SubSeq(s, L + 8, L + 8)
      BY <1>20, <2>2, <2>3, <2>4, TrimBetween
    <2>6. SubSeq(s, L + 8, L + 8) = <<s[L + 8]>>
      BY <1>20, <2>2, OneCharacter
    <2> QED
      BY <1>25, <2>1, <2>5, <2>6
  <1>6. /\ left \in Seq(Characters) /\ Len(left) = L + 4
        /\ \A k \in 1..(L + 4) : left[k] = s[k]
    <2> DEFINE part == SubSeq(s, 1, L + 4)
    <2>1. \A k \in 1..(L + 4) : s[k] \in Characters
      BY <1>0, <1>20
    <2>2. /\ part \in Seq(Characters)
          /\ Len(part) = IF 1 <= L + 4 THEN (L + 4) - 1 + 1 ELSE 0
          /\ \A k \in 1..((L + 4) - 1 + 1) : part[k] = s[1 + k - 1]
      BY <1>0, <2>1, SubSeqProperties
    <2> HIDE DEF part
    <2>3. (L + 4) - 1 + 1 = L + 4 /\ 1 <= L + 4 /\ \A k \in 1..(L + 4) : 1 + k - 1 = k
      BY <1>0
    <2>4. /\ part \in Seq(Characters) /\ Len(part) = L + 4
          /\ \A k \in 1..(L + 4) : part[k] = s[k]
      BY <2>2, <2>3
    <2>5. left = part
      BY <1>4 DEF part
    <2> HIDE DEF left
    <2> QED
      BY <2>4, <2>5
  <1> HIDE DEF left, target
  <1>7. left # <<>> /\ left[1] = "echo" /\ left[2] \in Blanks
    <2>1. left[1] = s[1] /\ left[2] = s[2] /\ Len(left) # 0
      BY <1>0, <1>6
    <2>2. left # <<>>
      BY <2>1
    <2> QED
      BY <1>21, <1>26, <2>1, <2>2
  <1>8. Trim(Tail(left)) = SubSeq(left, 3, L + 4)
    <2>1. Tail(left) = SubSeq(left, 2, L + 4)
      BY <1>6, <1>7, TailIsSubSeq
    <2>2. /\ 2 \in 1..Len(left) /\ L + 4 \in 2..Len(left)
          /\ 3 \in 2..(L + 4) /\ L + 4 \in 3..(L + 4) /\ 3 \in 1..(L + 4) /\ L + 4 \in 1..(L + 4)
      BY <1>0, <1>6
    <2>3. left[3] \notin Blanks /\ left[L + 4] \notin Blanks
      BY <1>6, <1>21, <1>23, <1>26, <2>2
    <2>4. \A k \in 2..(L + 4) : k < 3 \/ k > L + 4 => left[k] \in Blanks
      <3> TAKE k \in 2..(L + 4)
      <3>1. k < 3 \/ k > L + 4 => k = 2
        BY <1>0
      <3> QED
        BY <1>7, <3>1
    <2>5. Trim(SubSeq(left, 2, L + 4)) = SubSeq(left, 3, L + 4)
      BY <1>6, <2>2, <2>3, <2>4, TrimBetween
    <2> QED
      BY <2>1, <2>5
  <1>9. Unquote(Trim(Tail(left))) = text
    <2> DEFINE r == SubSeq(left, 3, L + 4)
    <2>1. \A k \in 3..(L + 4) : left[k] \in Characters
      BY <1>0, <1>6
    <2>2. /\ r \in Seq(Characters)
          /\ Len(r) = IF 3 <= L + 4 THEN (L + 4) - 3 + 1 ELSE 0
          /\ \A k \in 1..((L + 4) - 3 + 1) : r[k] = left[3 + k - 1]
      BY <1>0, <2>1, SubSeqProperties
    <2> HIDE DEF r
    <2>3. (L + 4) - 3 + 1 = L + 2 /\ 3 <= L + 4 /\ \A k \in 1..(L + 2) : 3 + k - 1 = k + 2
      BY <1>0
    <2>4. /\ r \in Seq(Characters) /\ Len(r) = L + 2
          /\ \A k \in 1..(L + 2) : r[k] = left[k + 2]
      BY <2>2, <2>3
    <2>5. \A k \in 1..(L + 2) : r[k] = s[k + 2]
      <3> TAKE k \in 1..(L + 2)
      <3>1. k + 2 \in 1..(L + 4)
        BY <1>0
      <3> QED
        BY <1>6, <2>4, <3>1
    <2>6. r[1] = "'" /\ r[L + 2] = "'"
      <3>1. 1 \in 1..(L + 2) /\ L + 2 \in 1..(L + 2) /\ 1 + 2 = 3 /\ (L + 2) + 2 = L + 4
        BY <1>0
      <3> QED
        BY <1>21, <1>23, <2>5, <3>1
    <2>7. \A k \in 1..L : r[k + 1] = text[k]
      <3> TAKE k \in 1..L
      <3>1. k + 1 \in 1..(L + 2) /\ (k + 1) + 2 = k + 3
        BY <1>0
      <3> QED
        BY <1>22, <2>5, <3>1
    <2>8. Unquote(r) = text
      BY <2>4, <2>6, <2>7, Unquoted
    <2> QED
      BY <1>8, <2>8 DEF r
  <1>10. handle_single_command(s)
           = [kind |-> "redirect", target |-> <<"f">>, text |-> text]
    <2>1. <<"f">> # <<>> /\ L + 6 # 0
      BY <1>0
    <2> QED
      BY <1>3, <1>5, <1>7, <1>9, <2>1, Zenon DEF handle_single_command, left, target
  <1>11. s = Echoed(text)
    BY DEF s
  <1> HIDE DEF L
  <1> QED
    BY <1>2, <1>10, <1>11, Zenon DEF EchoAsTyped, Echoed

-----------------------------------------------------------------------------
(* The bytes of asm                                                        *)

LEMMA PairsType ==
    ASSUME NEW tok \in Seq(Characters)
    PROVE  Pairs(tok) \in Seq(Seq(Characters))
  <1> DEFINE digits == IF HexPrefix(tok, 1) THEN SubSeq(tok, 3, Len(tok)) ELSE tok
             N == (Len(digits) + 1) \div 2
             part(k) == SubSeq(digits, 2 * k - 1, IF 2 * k <= Len(digits) THEN 2 * k
                                                                          ELSE 2 * k - 1)
  <1>1. digits \in Seq(Characters)
    <2>1. \A k \in 3..Len(tok) : tok[k] \in Characters
      OBVIOUS
    <2>2. SubSeq(tok, 3, Len(tok)) \in Seq(Characters)
      BY <2>1, SubSeqProperties
    <2> QED
      BY <2>2
  <1>2. Pairs(tok) = [k \in 1..N |-> part(k)]
    BY DEF Pairs
  <1> HIDE DEF digits
  <1>3. Len(digits) \in Nat /\ N \in Nat
    BY <1>1
  <1>4. ASSUME NEW k \in 1..N PROVE part(k) \in Seq(Characters)
    <2> DEFINE last == IF 2 * k <= Len(digits) THEN 2 * k ELSE 2 * k - 1
    <2>1. /\ 2 * k - 1 \in Int /\ last \in Int /\ 2 * k - 1 >= 1 /\ last <= Len(digits)
      BY <1>3
    <2>2. \A i \in (2 * k - 1)..last : digits[i] \in Characters
      <3> HIDE DEF last
      <3> TAKE i \in (2 * k - 1)..last
      <3>1. i \in 1..Len(digits)
        BY <1>3, <2>1
      <3> QED
        BY <1>1, <3>1
    <2> HIDE DEF last
    <2>3. SubSeq(digits, 2 * k - 1, last) \in Seq(Characters)
      BY <2>1, <2>2, SubSeqProperties
    <2> QED
      BY <2>3 DEF last
  <1> HIDE DEF N, part
  <1> QED
    BY <1>2, <1>3, <1>4

LEMMA ConcatAt ==
    ASSUME NEW x \in Seq(Seq(Characters)), NEW y \in Seq(Seq(Characters))
    PROVE  LET z == x \o y
               k == Len(x)
               m == k + Len(y)
           IN  /\ z \in Seq(Seq(Characters)) /\ Len(z) = m
               /\ \A i \in 1..m : z[i] = IF i <= k THEN x[i] ELSE y[i - k]
  <1>1. /\ x \o y \in Seq(Seq(Characters)) /\ Len(x \o y) = Len(x) + Len(y)
        /\ \A i \in 1..(Len(x) + Len(y)) :
             (x \o y)[i] = IF i <= Len(x) THEN x[i] ELSE y[i - Len(x)]
    BY ConcatProperties
  <1> QED
    BY <1>1

(* The bytes are the pairs of the arguments in their order.                *)
LEMMA BytesCounted ==
    ASSUME NEW args \in Seq(Seq(Characters))
    PROVE  /\ TypedBytes(args) \in Seq(Seq(Characters))
           /\ Len(TypedBytes(args)) = PairsTyped(args, Len(args))
           /\ \A n \in 1..Len(args) : \A j \in 1..Len(Pairs(args[n])) :
                /\ PairsTyped(args, n - 1) + j \in 1..Len(TypedBytes(args))
                /\ TypedBytes(args)[PairsTyped(args, n - 1) + j] = Pairs(args[n])[j]
  <1> DEFINE L == Len(args)
  <1>0. L \in Nat /\ \A n \in 1..L : args[n] \in Seq(Characters)
    OBVIOUS
  <1>1. PICK b : /\ b[0] = <<>>
                 /\ \A n \in 1..L : b[n] = b[n - 1] \o Pairs(args[n])
                 /\ TypedBytes(args) = b[L]
    BY <1>0, BytesWalk
  <1>2. PICK m : /\ m[0] = 0
                 /\ \A n \in 1..L : m[n] = m[n - 1] + Len(Pairs(args[n]))
                 /\ \A n \in 0..L : PairsTyped(args, n) = m[n]
    BY <1>0, CountWalk
  <1> DEFINE Here(n, k) == \A j \in 1..Len(Pairs(args[k])) :
                             /\ m[k - 1] + j \in 1..Len(b[n])
                             /\ b[n][m[k - 1] + j] = Pairs(args[k])[j]
             Same(n) == /\ b[n] \in Seq(Seq(Characters)) /\ Len(b[n]) = m[n] /\ m[n] \in Nat
                        /\ \A k \in 1..n : Here(n, k)
             Good == {n \in 0..L : Same(n)}
  <1>3. 0 \in Good
    <2>1. <<>> \in Seq(Seq(Characters)) /\ Len(<<>>) = 0 /\ 1..0 = {}
      OBVIOUS
    <2> HIDE DEF Here
    <2>2. Same(0)
      BY <1>1, <1>2, <2>1
    <2> HIDE DEF Same
    <2> QED
      BY <1>0, <2>2
  <1>4. ASSUME NEW n \in 0..(L - 1), n \in Good
        PROVE  n + 1 \in Good
    <2>1. n + 1 \in 1..L /\ (n + 1) - 1 = n /\ n + 1 \in 0..L
      BY <1>0
    <2> DEFINE more == Pairs(args[n + 1])
    <2>2. more \in Seq(Seq(Characters)) /\ Len(more) \in Nat
      BY <1>0, <2>1, PairsType
    <2>3. b[n + 1] = b[n] \o more /\ m[n + 1] = m[n] + Len(more)
      BY <1>1, <1>2, <2>1
    <2>30. Same(n)
      BY <1>4
    <2> HIDE DEF more, Here
    <2>4. b[n] \in Seq(Seq(Characters)) /\ Len(b[n]) = m[n] /\ m[n] \in Nat
      BY <2>30
    <2>5. /\ m[n] \in Nat /\ Len(more) \in Nat /\ m[n + 1] = m[n] + Len(more)
          /\ m[n + 1] \in Nat
      BY <2>2, <2>3, <2>4
    <2>6. /\ b[n + 1] \in Seq(Seq(Characters)) /\ Len(b[n + 1]) = m[n + 1]
          /\ \A i \in 1..m[n + 1] :
               b[n + 1][i] = IF i <= m[n] THEN b[n][i] ELSE more[i - m[n]]
      <3> DEFINE x == b[n]
                 z == b[n + 1]
                 k == m[n]
                 sum == m[n + 1]
      <3>1. x \in Seq(Seq(Characters)) /\ Len(x) = k /\ z = x \o more /\ sum = k + Len(more)
        BY <2>3, <2>4
      <3> HIDE DEF x, z, k, sum
      <3>2. LET w == x \o more
            IN  /\ w \in Seq(Seq(Characters)) /\ Len(w) = Len(x) + Len(more)
                /\ \A i \in 1..(Len(x) + Len(more)) :
                     w[i] = IF i <= Len(x) THEN x[i] ELSE more[i - Len(x)]
        BY <2>2, <3>1, ConcatAt, Zenon
      <3>3. Len(x) = k /\ x \o more = z /\ Len(x) + Len(more) = sum
        BY <3>1
      <3>4. /\ z \in Seq(Seq(Characters)) /\ Len(z) = sum
            /\ \A i \in 1..sum : z[i] = IF i <= k THEN x[i] ELSE more[i - k]
        BY <3>2, <3>3, Zenon
      <3> QED
        BY <3>4 DEF x, z, k, sum
    <2>7. ASSUME NEW k \in 1..(n + 1)
          PROVE  Here(n + 1, k)
      <3>1. ASSUME NEW j \in 1..Len(Pairs(args[k]))
            PROVE  /\ m[k - 1] + j \in 1..Len(b[n + 1])
                   /\ b[n + 1][m[k - 1] + j] = Pairs(args[k])[j]
        <4>1. CASE k = n + 1
          <5>1. j \in 1..Len(more) /\ k - 1 = n /\ more[j] = Pairs(args[k])[j]
            BY <2>1, <3>1, <4>1 DEF more
          <5>2. m[n] + j \in 1..m[n + 1] /\ ~(m[n] + j <= m[n]) /\ (m[n] + j) - m[n] = j
            <6> DEFINE x == m[n]
                       y == m[n + 1]
                       r == Len(more)
            <6>1. x \in Nat /\ r \in Nat /\ y = x + r /\ j \in 1..r
              BY <2>5, <5>1
            <6> HIDE DEF x, y, r
            <6>2. x + j \in 1..y /\ ~(x + j <= x) /\ (x + j) - x = j
              BY <6>1
            <6> QED
              BY <6>2 DEF x, y
          <5> QED
            BY <2>6, <5>1, <5>2
        <4>2. CASE k # n + 1
          <5>1. k \in 1..n
            BY <2>1, <4>2
          <5>2. m[k - 1] + j \in 1..Len(b[n]) /\ b[n][m[k - 1] + j] = Pairs(args[k])[j]
            BY <2>30, <3>1, <5>1 DEF Here
          <5> DEFINE i == m[k - 1] + j
          <5> HIDE DEF i
          <5>3. i \in 1..m[n] /\ b[n][i] = Pairs(args[k])[j]
            BY <2>4, <5>2 DEF i
          <5>4. i \in 1..m[n + 1] /\ i <= m[n]
            BY <2>5, <5>3
          <5>5. i \in 1..Len(b[n + 1]) /\ b[n + 1][i] = Pairs(args[k])[j]
            BY <2>6, <5>3, <5>4
          <5> QED
            BY <5>5 DEF i
        <4> QED
          BY <4>1, <4>2
      <3> QED
        BY <3>1 DEF Here
    <2>8. Same(n + 1)
      BY <2>5, <2>6, <2>7
    <2> HIDE DEF Same
    <2> QED
      BY <2>1, <2>8
  <1>5. Same(L)
    <2> HIDE DEF Good
    <2>1. \A n \in 0..L : n \in Good
      BY <1>0, <1>3, <1>4, CountUp
    <2>2. L \in Good
      BY <1>0, <2>1
    <2> QED
      BY <2>2 DEF Good
  <1>6. Len(TypedBytes(args)) = PairsTyped(args, Len(args))
    <2>1. L \in 0..L
      BY <1>0
    <2> HIDE DEF Here
    <2> QED
      BY <1>1, <1>2, <1>5, <2>1
  <1>7. ASSUME NEW n \in 1..L, NEW j \in 1..Len(Pairs(args[n]))
        PROVE  /\ PairsTyped(args, n - 1) + j \in 1..Len(TypedBytes(args))
               /\ TypedBytes(args)[PairsTyped(args, n - 1) + j] = Pairs(args[n])[j]
    <2>1. n - 1 \in 0..L
      BY <1>0
    <2>2. PairsTyped(args, n - 1) = m[n - 1]
      BY <1>2, <2>1
    <2>3. Here(L, n)
      BY <1>5
    <2> QED
      BY <1>1, <2>2, <2>3
  <1> QED
    BY <1>1, <1>5, <1>6, <1>7

(* No byte that fits is lost, and the code ends with a return.             *)
LEMMA PayloadReturns ==
    ASSUME NEW bytes \in Seq(Seq(Characters)), NEW room \in Nat \ {0}
    PROVE  /\ Len(Payload(bytes, room)) \in Nat
           /\ Len(Payload(bytes, room)) \in {Least(Len(bytes), room),
                                             Least(Len(bytes), room) + 1}
           /\ Len(bytes) > 0 => Last(Payload(bytes, room)) = RET
           /\ \A k \in 1..Least(Len(bytes), room) :
                Payload(bytes, room)[k] = parse_num(bytes[k]) % 256
  <1> DEFINE M == IF Len(bytes) > room THEN room ELSE Len(bytes)
             code == [k \in 1..M |-> parse_num(bytes[k]) % 256]
             T == {code[k] : k \in 1..M} \cup {RET}
             out2 == Payload(bytes, room)
  <1>0. Len(bytes) \in Nat /\ M \in Nat /\ M <= room /\ room >= 1
        /\ (Len(bytes) > 0 => M > 0) /\ M = Least(Len(bytes), room)
    BY DEF Least
  <1>1. out2 = IF code # <<>> /\ Last(code) # RET THEN Append(code, RET) ELSE code
    BY Zenon DEF Payload
  <1>2. code = [k \in 1..M |-> code[k]] /\ \A k \in 1..M : code[k] \in T
    OBVIOUS
  <1>20. \A k \in 1..M : code[k] = parse_num(bytes[k]) % 256
    OBVIOUS
  <1> HIDE DEF M, code
  <1>3. RET \in T
    OBVIOUS
  <1> HIDE DEF T
  <1>4. code \in Seq(T) /\ Len(code) = M
    BY <1>0, <1>2
  <1> HIDE DEF out2
  <1>5. CASE code # <<>> /\ Last(code) # RET
    <2>1. out2 = Append(code, RET)
      BY <1>1, <1>5
    <2>2. Append(code, RET) \in Seq(T) /\ Len(Append(code, RET)) = Len(code) + 1
          /\ Append(code, RET)[Len(code) + 1] = RET
          /\ \A k \in 1..Len(code) : Append(code, RET)[k] = code[k]
      BY <1>3, <1>4, AppendProperties
    <2>3. Len(out2) = M + 1 /\ out2[M + 1] = RET
      BY <1>4, <2>1, <2>2
    <2>4. Last(out2) = RET
      BY <2>3 DEF Last
    <2>5. \A k \in 1..M : out2[k] = code[k]
      BY <1>4, <2>1, <2>2
    <2> QED
      BY <1>0, <1>20, <2>3, <2>4, <2>5 DEF out2
  <1>6. CASE ~(code # <<>> /\ Last(code) # RET)
    <2>1. out2 = code
      BY <1>1, <1>6
    <2>2. Len(bytes) > 0 => code # <<>>
      <3>1. Len(<<>>) = 0
        OBVIOUS
      <3> QED
        BY <1>0, <1>4, <3>1
    <2>3. Len(bytes) > 0 => Last(out2) = RET
      BY <1>6, <2>1, <2>2, Zenon
    <2> QED
      BY <1>0, <1>20, <1>4, <2>1, <2>3 DEF out2
  <1> QED
    BY <1>5, <1>6

(* Accumulate over no, one and two characters.                             *)
LEMMA AccumulateFew ==
    ASSUME NEW s, Len(s) \in 0..2, NEW base
    PROVE  LET next(v, k) == (v * base + DigitValue(s[k])) % 2^CALC_BITS
           IN  /\ Len(s) = 0 => Accumulate(s, base) = 0
               /\ Len(s) = 1 => Accumulate(s, base) = next(0, 1)
               /\ Len(s) = 2 => Accumulate(s, base) = next(next(0, 1), 2)
  <1> DEFINE L == Len(s)
             next(v, k) == (v * base + DigitValue(s[k])) % 2^CALC_BITS
             Is(m) == m = [n \in 0..L |-> IF n = 0 THEN 0
                                          ELSE (m[n - 1] * base + DigitValue(s[n])) % 2^CALC_BITS]
             w == [n \in 0..L |-> IF n = 0 THEN 0
                                  ELSE IF n = 1 THEN next(0, 1) ELSE next(next(0, 1), 2)]
             made == CHOOSE m : Is(m)
  <1>1. Is(w)
    <2>1. ASSUME NEW n \in 0..L
          PROVE  w[n] = IF n = 0 THEN 0 ELSE next(w[n - 1], n)
      <3>1. n = 0 \/ n = 1 \/ n = 2
        OBVIOUS
      <3>2. CASE n = 0
        BY <3>2
      <3>3. CASE n = 1
        <4>1. w[1] = next(0, 1) /\ w[0] = 0 /\ 1 - 1 = 0
          BY <3>3
        <4> HIDE DEF next, w
        <4> QED
          BY <3>3, <4>1
      <3>4. CASE n = 2
        <4>1. w[2] = next(next(0, 1), 2) /\ w[1] = next(0, 1) /\ 2 - 1 = 1
          BY <3>4
        <4> HIDE DEF next, w
        <4> QED
          BY <3>4, <4>1
      <3> HIDE DEF next, w
      <3> QED
        BY <3>1, <3>2, <3>3, <3>4
    <2>2. w = [n \in 0..L |-> w[n]]
      OBVIOUS
    <2> HIDE DEF w
    <2> QED
      BY <2>1, <2>2
  <1> HIDE DEF w
  <1>2. Is(made)
    BY <1>1, Zenon
  <1>3. Accumulate(s, base) = made[L]
    BY DEF Accumulate
  <1> HIDE DEF made
  <1>4. \A n \in 0..L : made[n] = IF n = 0 THEN 0 ELSE next(made[n - 1], n)
    BY <1>2
  <1> HIDE DEF next
  <1>5. made[0] = 0
    BY <1>4
  <1>6. L \in {1, 2} => made[1] = next(0, 1)
    <2>1. 1 - 1 = 0
      OBVIOUS
    <2> QED
      BY <1>4, <1>5, <2>1
  <1>7. L = 2 => made[2] = next(made[1], 2)
    <2>1. 2 - 1 = 1
      OBVIOUS
    <2> QED
      BY <1>4, <2>1
  <1> QED
    BY <1>3, <1>5, <1>6, <1>7 DEF next

LEMMA DigitRange ==
    /\ \A ch : IsDigit(ch) => DigitValue(ch) \in 0..15
    /\ IsDigit("0") /\ DigitValue("0") = 0
    /\ ~IsDigit("x") /\ ~IsDigit("X") /\ ~IsDigit("nul")
  <1>1. ASSUME NEW ch, IsDigit(ch) PROVE DigitValue(ch) \in 0..15
    <2>1. \E n \in 0..15 : HexDigits[n + 1] = ch
      <3>1. PICK i \in 1..10 : Digits[i] = ch
        BY <1>1 DEF IsDigit, Digits
      <3>2. i - 1 \in 0..15 /\ (i - 1) + 1 = i /\ HexDigits[i] = Digits[i]
        BY DEF HexDigits, Digits
      <3> QED
        BY <3>1, <3>2
    <2> QED
      BY <2>1 DEF DigitValue
  <1>2. \A n \in 0..15 : HexDigits[n + 1] = "0" <=> n = 0
    BY DEF HexDigits
  <1>3. DigitValue("0") = 0
    BY <1>2 DEF DigitValue
  <1>4. IsDigit("0") /\ ~IsDigit("x") /\ ~IsDigit("X") /\ ~IsDigit("nul")
    BY DEF IsDigit, Digits
  <1> QED
    BY <1>1, <1>3, <1>4

(* A register of eight bits or more holds what two digits denote.          *)
WideEnough == 2^CALC_BITS \in Nat /\ 2^CALC_BITS >= 256

LEMMA Remains ==
    ASSUME NEW P \in Nat, NEW x \in Nat, x < P
    PROVE  x % P = x
  <1>1. x = 0 * P + x /\ 0 <= x /\ x < P
    OBVIOUS
  <1> QED
    BY <1>1

DigitsEnd(s, p) == EndOf(s, p, IsDigit)

LEMMA EndIs ==
    ASSUME NEW s, Len(s) \in Nat, NEW p \in Nat, NEW q \in p..(Len(s) + 1),
           q = Len(s) + 1 \/ ~IsDigit(s[q]),
           \A k \in p..(q - 1) : IsDigit(s[k])
    PROVE  DigitsEnd(s, p) = q
  <1> DEFINE Ends(r) == /\ r = Len(s) + 1 \/ ~IsDigit(s[r])
                        /\ \A k \in p..(r - 1) : IsDigit(s[k])
  <1>1. DigitsEnd(s, p) = CHOOSE r \in p..(Len(s) + 1) : Ends(r)
    BY DEF EndOf, DigitsEnd
  <1>2. Ends(q)
    OBVIOUS
  <1>3. ASSUME NEW r \in p..(Len(s) + 1), Ends(r)
        PROVE  r = q
    <2>1. r < q => r \in p..(q - 1) /\ r # Len(s) + 1
      OBVIOUS
    <2>2. q < r => q \in p..(r - 1) /\ q # Len(s) + 1
      OBVIOUS
    <2>3. ~(r < q) /\ ~(q < r)
      BY <1>2, <1>3, <2>1, <2>2
    <2> QED
      BY <2>3
  <1> HIDE DEF Ends
  <1> QED
    BY <1>1, <1>2, <1>3

LEMMA ShortNumber ==
    ASSUME WideEnough, NEW s \in Seq(Characters), Len(s) \in {1, 2}
    PROVE  /\ ~IsDigit(s[1]) => parse_num(s) = 0
           /\ IsDigit(s[1]) /\ ~IsDigit(At(s, 2)) => parse_num(s) = DigitValue(s[1])
           /\ IsDigit(s[1]) /\ IsDigit(At(s, 2)) =>
                parse_num(s) = 10 * DigitValue(s[1]) + DigitValue(s[2])
  <1> DEFINE P == 2^CALC_BITS
             a == DigitValue(s[1])
             b == DigitValue(s[2])
  <1>0. P \in Nat /\ P >= 256
    BY DEF WideEnough
  <1> HIDE DEF P
  <1>1. /\ At(s, 1) = s[1] /\ (Len(s) = 2 => At(s, 2) = s[2])
        /\ (Len(s) = 1 => ~IsDigit(At(s, 2)))
    BY DigitRange DEF At
  <1>2. CASE HexPrefix(s, 1)
    <2>1. s[1] = "0" /\ At(s, 2) \in {"x", "X"}
      <3>1. 1 + 1 = 2
        OBVIOUS
      <3> QED
        BY <1>1, <1>2, <3>1 DEF HexPrefix
    <2>2. Len(s) = 2
      <3>1. Len(s) = 1 => At(s, 2) = "nul"
        BY DEF At
      <3> QED
        BY <2>1, <3>1
    <2>3. EndOf(s, 3, IsHexDigit) = 3
      BY <2>2 DEF EndOf
    <2>4. SubSeq(s, 3, 3 - 1) = <<>> /\ Len(<<>>) = 0
      <3>1. 3 - 1 < 3
        OBVIOUS
      <3> QED
        BY <3>1, SubSeqEmpty
    <2>5. Accumulate(<<>>, 16) = 0
      BY <2>4, AccumulateFew
    <2>6. ~(3 <= Len(s))
      BY <2>2
    <2>7. parse_num(s) = 0
      BY <1>2, <2>3, <2>4, <2>5, <2>6, Zenon DEF parse_num
    <2>8. IsDigit(s[1]) /\ a = 0 /\ ~IsDigit(At(s, 2))
      BY <2>1, DigitRange
    <2> QED
      BY <2>7, <2>8
  <1>3. CASE ~HexPrefix(s, 1)
    <2>0. parse_num(s) = Accumulate(SubSeq(s, 1, DigitsEnd(s, 1) - 1), 10)
      BY <1>3, Zenon DEF parse_num, DigitsEnd
    <2>1. ASSUME ~IsDigit(s[1]) PROVE parse_num(s) = 0
      <3>1. DigitsEnd(s, 1) = 1
        BY <2>1, EndIs
      <3>2. SubSeq(s, 1, 1 - 1) = <<>> /\ Len(<<>>) = 0
        BY SubSeqEmpty
      <3>3. Accumulate(<<>>, 10) = 0
        BY <3>2, AccumulateFew
      <3> QED
        BY <2>0, <3>1, <3>2, <3>3
    <2>2. ASSUME IsDigit(s[1]), ~IsDigit(At(s, 2)) PROVE parse_num(s) = a
      <3>1. DigitsEnd(s, 1) = 2
        <4>1. 2 \in 1..(Len(s) + 1) /\ \A k \in 1..(2 - 1) : k = 1
          OBVIOUS
        <4>2. 2 = Len(s) + 1 \/ ~IsDigit(s[2])
          BY <1>1, <2>2
        <4> QED
          BY <2>2, <4>1, <4>2, EndIs
      <3>2. SubSeq(s, 1, 2 - 1) = <<s[1]>> /\ Len(<<s[1]>>) = 1 /\ <<s[1]>>[1] = s[1]
        <4>1. 2 - 1 = 1 /\ 1 \in 1..Len(s)
          OBVIOUS
        <4> QED
          BY <4>1, OneCharacter
      <3>3. a \in 0..15
        BY <2>2, DigitRange
      <3>4. Accumulate(<<s[1]>>, 10) = (0 * 10 + a) % P
        BY <3>2, AccumulateFew DEF P
      <3>5. 0 * 10 + a = a /\ a \in Nat /\ a < P
        BY <1>0, <3>3
      <3>6. a % P = a
        BY <1>0, <3>5, Remains
      <3> QED
        BY <2>0, <3>1, <3>2, <3>4, <3>5, <3>6
    <2>3. ASSUME IsDigit(s[1]), IsDigit(At(s, 2)) PROVE parse_num(s) = 10 * a + b
      <3>0. Len(s) = 2 /\ IsDigit(s[2])
        BY <1>1, <2>3
      <3>1. DigitsEnd(s, 1) = 3
        <4>1. 3 \in 1..(Len(s) + 1) /\ 3 = Len(s) + 1 /\ \A k \in 1..(3 - 1) : k = 1 \/ k = 2
          BY <3>0
        <4> QED
          BY <2>3, <3>0, <4>1, EndIs
      <3>2. SubSeq(s, 1, 3 - 1) = s
        <4>1. 3 - 1 = Len(s)
          BY <3>0
        <4> QED
          BY <4>1, SubSeqFull
      <3>3. a \in 0..15 /\ b \in 0..15
        BY <2>3, <3>0, DigitRange
      <3>4. Accumulate(s, 10) = (((0 * 10 + a) % P) * 10 + b) % P
        BY <3>0, AccumulateFew DEF P
      <3>5. 0 * 10 + a = a /\ a \in Nat /\ a < P
        BY <1>0, <3>3
      <3>6. a % P = a
        BY <1>0, <3>5, Remains
      <3>7. a * 10 + b = 10 * a + b /\ 10 * a + b \in Nat /\ 10 * a + b < P
        <4> HIDE DEF a, b
        <4> QED
          BY <1>0, <3>3
      <3>8. (10 * a + b) % P = 10 * a + b
        BY <1>0, <3>7, Remains
      <3> QED
        BY <2>0, <3>1, <3>2, <3>4, <3>5, <3>6, <3>7, <3>8
    <2> QED
      BY <2>1, <2>2, <2>3
  <1> QED
    BY <1>2, <1>3

LEMMA PairPlaces ==
    ASSUME NEW D \in Nat, NEW j \in 1..((D + 1) \div 2),
           NEW last, last = IF 2 * j <= D THEN 2 * j ELSE 2 * j - 1
    PROVE  /\ 2 * j - 1 \in 1..D /\ last \in (2 * j - 1)..D
           /\ last = 2 * j - 1 \/ last = 2 * j
           /\ last = 2 * j - 1 => D = 2 * j - 1
  OBVIOUS

LEMMA PairRead ==
    ASSUME WideEnough, NEW tok \in Seq(Characters), NEW j \in 1..Len(Pairs(tok)),
           NEW prefix, prefix = IF HexPrefix(tok, 1) THEN 2 ELSE 0
    PROVE  parse_num(Pairs(tok)[j]) % 256 = DecimalPair(tok, prefix + 2 * j - 1)
  <1> DEFINE digits == IF HexPrefix(tok, 1) THEN SubSeq(tok, 3, Len(tok)) ELSE tok
             N == (Len(digits) + 1) \div 2
             last == IF 2 * j <= Len(digits) THEN 2 * j ELSE 2 * j - 1
             pair == SubSeq(digits, 2 * j - 1, last)
             k == prefix + 2 * j - 1
             P == 2^CALC_BITS
  <1>0. P \in Nat /\ P >= 256
    BY DEF WideEnough
  <1> HIDE DEF P
  <1>1. /\ digits \in Seq(Characters) /\ Len(tok) \in Nat /\ prefix \in {0, 2}
        /\ Len(digits) = Len(tok) - prefix
        /\ \A i \in 1..Len(digits) : digits[i] = tok[prefix + i]
    <2>1. CASE HexPrefix(tok, 1)
      <3> DEFINE rest == SubSeq(tok, 3, Len(tok))
      <3>1. Len(tok) >= 2
        <4>1. At(tok, 1 + 1) \in {"x", "X"}
          BY <2>1 DEF HexPrefix
        <4>2. ~(1 + 1 <= Len(tok)) => At(tok, 1 + 1) = "nul"
          BY DEF At
        <4> QED
          BY <4>1, <4>2
      <3>2. \A i \in 3..Len(tok) : tok[i] \in Characters
        OBVIOUS
      <3>3. /\ rest \in Seq(Characters)
            /\ Len(rest) = IF 3 <= Len(tok) THEN Len(tok) - 3 + 1 ELSE 0
            /\ \A i \in 1..(Len(tok) - 3 + 1) : rest[i] = tok[3 + i - 1]
        BY <3>2, SubSeqProperties
      <3> HIDE DEF rest
      <3>4. Len(rest) = Len(tok) - 2 /\ \A i \in 1..Len(rest) : rest[i] = tok[2 + i]
        <4>0. Len(rest) = IF 3 <= Len(tok) THEN Len(tok) - 3 + 1 ELSE 0
          BY <3>3
        <4>1. Len(rest) = Len(tok) - 2
          <5> DEFINE x == Len(rest)
                     y == Len(tok)
          <5>1. y \in Nat /\ y >= 2 /\ x = IF 3 <= y THEN y - 3 + 1 ELSE 0
            BY <3>1, <4>0
          <5> HIDE DEF x, y
          <5>2. x = y - 2
            BY <5>1
          <5> QED
            BY <5>2 DEF x, y
        <4>2. ASSUME NEW i \in 1..Len(rest) PROVE rest[i] = tok[2 + i]
          <5>1. i \in 1..(Len(tok) - 3 + 1) /\ 3 + i - 1 = 2 + i
            BY <4>1
          <5> QED
            BY <3>3, <5>1
        <4> QED
          BY <4>1, <4>2
      <3>5. digits = rest /\ prefix = 2
        BY <2>1 DEF rest
      <3> HIDE DEF digits
      <3> QED
        BY <3>1, <3>3, <3>4, <3>5
    <2>2. CASE ~HexPrefix(tok, 1)
      <3>1. digits = tok /\ prefix = 0
        BY <2>2
      <3> HIDE DEF digits
      <3>2. \A i \in 1..Len(digits) : 0 + i = i
        BY <3>1
      <3> QED
        BY <3>1, <3>2
    <2> QED
      BY <2>1, <2>2
  <1>2. Pairs(tok) = [i \in 1..N |-> SubSeq(digits, 2 * i - 1,
                                            IF 2 * i <= Len(digits) THEN 2 * i ELSE 2 * i - 1)]
    BY DEF Pairs
  <1> HIDE DEF digits
  <1>3. N \in Nat /\ j \in 1..N
    <2>1. N \in Nat
      BY <1>1
    <2> HIDE DEF N
    <2>2. Len(Pairs(tok)) = N
      BY <1>2, <2>1
    <2> QED
      BY <2>1, <2>2
  <1>4. Pairs(tok)[j] = pair
    BY <1>2, <1>3
  <1>5. /\ 2 * j - 1 \in 1..Len(digits) /\ last \in (2 * j - 1)..Len(digits)
        /\ last = 2 * j - 1 \/ last = 2 * j
        /\ last = 2 * j - 1 => Len(digits) = 2 * j - 1
        /\ Len(digits) \in Nat /\ last \in Nat
    <2>1. Len(digits) \in Nat /\ j \in 1..((Len(digits) + 1) \div 2)
      BY <1>1, <1>3
    <2> QED
      BY <2>1, PairPlaces
  <1>51. /\ Len(tok) \in Nat /\ prefix \in {0, 2} /\ Len(digits) = Len(tok) - prefix
    BY <1>1
  <1> HIDE DEF last, N
  <1>6. /\ pair \in Seq(Characters) /\ Len(pair) = last - (2 * j - 1) + 1
        /\ \A i \in 1..(last - (2 * j - 1) + 1) : pair[i] = digits[(2 * j - 1) + i - 1]
    <2>1. \A i \in (2 * j - 1)..last : digits[i] \in Characters
      BY <1>1, <1>5
    <2> QED
      BY <1>5, <2>1, SubSeqProperties
  <1> HIDE DEF pair
  <1>61. Len(pair) = last - (2 * j - 1) + 1
    BY <1>6
  <1>7. Len(pair) \in {1, 2} /\ pair[1] = tok[k]
    <2>1. Len(pair) \in {1, 2}
      BY <1>5, <1>61
    <2>2. 1 \in 1..(last - (2 * j - 1) + 1) /\ (2 * j - 1) + 1 - 1 = 2 * j - 1
          /\ prefix + (2 * j - 1) = prefix + 2 * j - 1
      BY <1>5, <1>51
    <2>3. pair[1] = digits[2 * j - 1]
      BY <1>6, <2>2
    <2>4. digits[2 * j - 1] = tok[prefix + (2 * j - 1)]
      BY <1>1, <1>5
    <2> QED
      BY <2>1, <2>2, <2>3, <2>4
  <1>8. At(pair, 2) = At(tok, k + 1) /\ (Len(pair) = 2 => pair[2] = tok[k + 1])
    <2>1. CASE last = 2 * j
      <3>1. Len(pair) = 2 /\ 2 \in 1..(last - (2 * j - 1) + 1) /\ (2 * j - 1) + 2 - 1 = 2 * j
            /\ 2 * j \in 1..Len(digits) /\ prefix + 2 * j = k + 1 /\ k + 1 <= Len(tok)
        BY <1>5, <1>51, <1>61, <2>1
      <3>2. pair[2] = tok[k + 1]
        <4>1. pair[2] = digits[2 * j]
          BY <1>6, <3>1
        <4>2. digits[2 * j] = tok[prefix + 2 * j]
          BY <1>1, <3>1
        <4> QED
          BY <3>1, <4>1, <4>2
      <3> QED
        BY <3>1, <3>2 DEF At
    <2>2. CASE last # 2 * j
      <3>1. Len(pair) = 1 /\ ~(k + 1 <= Len(tok))
        BY <1>5, <1>51, <1>61, <2>2
      <3> QED
        BY <3>1 DEF At
    <2> QED
      BY <2>1, <2>2
  <1> HIDE DEF k
  <1> DEFINE a == DigitValue(pair[1])
             b == DigitValue(pair[2])
  <1>9. CASE ~IsDigit(pair[1])
    <2>1. parse_num(pair) = 0 /\ DecimalPair(tok, k) = 0
      BY <1>6, <1>7, <1>9, ShortNumber DEF DecimalPair
    <2>2. 0 % 256 = 0
      OBVIOUS
    <2> QED
      BY <1>4, <2>1, <2>2 DEF k
  <1>10. CASE IsDigit(pair[1]) /\ ~IsDigit(At(pair, 2))
    <2>1. parse_num(pair) = a /\ DecimalPair(tok, k) = a
      BY <1>6, <1>7, <1>8, <1>10, ShortNumber DEF DecimalPair
    <2>2. a \in 0..15
      BY <1>10, DigitRange
    <2> HIDE DEF a
    <2>3. a % 256 = a
      BY <2>2
    <2> QED
      BY <1>4, <2>1, <2>3 DEF k
  <1>11. CASE IsDigit(pair[1]) /\ IsDigit(At(pair, 2))
    <2>1. Len(pair) = 2 /\ pair[2] = tok[k + 1] /\ At(pair, 2) = pair[2]
      <3>1. Len(pair) = 1 => At(pair, 2) = "nul"
        BY DEF At
      <3>2. Len(pair) = 2
        BY <1>7, <1>11, <3>1, DigitRange
      <3> QED
        BY <1>8, <3>2 DEF At
    <2>2. a \in 0..15 /\ b \in 0..15
      BY <1>11, <2>1, DigitRange
    <2>3. parse_num(pair) = 10 * a + b
      BY <1>6, <1>7, <1>11, ShortNumber
    <2>4. DecimalPair(tok, k) = (10 * a + b) % P
      BY <1>7, <1>8, <1>11, <2>1, Zenon DEF DecimalPair, P
    <2> HIDE DEF a, b
    <2>5. 10 * a + b \in Nat /\ 10 * a + b < P /\ (10 * a + b) % 256 = 10 * a + b
      BY <1>0, <2>2
    <2>6. (10 * a + b) % P = 10 * a + b
      BY <1>0, <2>5, Remains
    <2> QED
      BY <1>4, <2>3, <2>4, <2>5, <2>6 DEF k
  <1> QED
    BY <1>9, <1>10, <1>11

LEMMA AsmServed ==
    ASSUME WideEnough, NEW args \in Seq(Seq(Characters))
    PROVE  AsmAsTyped(args)
  <1> DEFINE bytes == TypedBytes(args)
             room == ASM_SIZE - 2
             payload == Payload(bytes, room)
             all == PairsTyped(args, Len(args))
             prefix(n) == IF HexPrefix(args[n], 1) THEN 2 ELSE 0
  <1>1. /\ bytes \in Seq(Seq(Characters)) /\ Len(bytes) = all /\ Len(bytes) \in Nat
        /\ \A n \in 1..Len(args) : \A j \in 1..Len(Pairs(args[n])) :
             /\ PairsTyped(args, n - 1) + j \in 1..Len(bytes)
             /\ bytes[PairsTyped(args, n - 1) + j] = Pairs(args[n])[j]
    <2>1. bytes \in Seq(Seq(Characters)) /\ Len(bytes) = all
      BY BytesCounted
    <2>2. \A n \in 1..Len(args) : \A j \in 1..Len(Pairs(args[n])) :
             /\ PairsTyped(args, n - 1) + j \in 1..Len(bytes)
             /\ bytes[PairsTyped(args, n - 1) + j] = Pairs(args[n])[j]
      BY BytesCounted, Zenon
    <2> HIDE DEF bytes, all
    <2>3. Len(bytes) \in Nat
      BY <2>1
    <2> QED
      BY <2>1, <2>2, <2>3
  <1>10. all \in Nat
    BY <1>1
  <1>2. room \in Nat \ {0} /\ room + 2 = ASM_SIZE /\ ASM_SIZE \in Nat
    BY CmdLineAssumption
  <1>3. asm_payload(args) = payload
    BY DEF asm_payload
  <1> HIDE DEF bytes, room, all
  <1>4. /\ Len(payload) \in {Least(all, room), Least(all, room) + 1}
        /\ all > 0 => Last(payload) = RET
        /\ \A k \in 1..Least(all, room) : payload[k] = parse_num(bytes[k]) % 256
    <2>1. bytes \in Seq(Seq(Characters)) /\ Len(bytes) = all /\ room \in Nat \ {0}
      BY <1>1, <1>2
    <2>2. /\ Len(Payload(bytes, room)) \in {Least(Len(bytes), room),
                                            Least(Len(bytes), room) + 1}
          /\ Len(bytes) > 0 => Last(Payload(bytes, room)) = RET
          /\ \A k \in 1..Least(Len(bytes), room) :
               Payload(bytes, room)[k] = parse_num(bytes[k]) % 256
      BY <2>1, PayloadReturns, Zenon
    <2> QED
      BY <2>1, <2>2, Zenon
  <1> HIDE DEF payload
  <1>5. Len(payload) <= ASM_SIZE
    <2>1. Len(payload) \in {Least(all, room), Least(all, room) + 1}
      BY <1>4
    <2>2. Least(all, room) \in Nat /\ Least(all, room) <= room
      BY <1>2, <1>10 DEF Least
    <2> QED
      BY <1>2, <2>1, <2>2
  <1>6. ASSUME NEW n \in DOMAIN args, NEW j \in 1..Len(Pairs(args[n])),
               PairsTyped(args, n - 1) + j <= room
        PROVE  payload[PairsTyped(args, n - 1) + j]
                 = DecimalPair(args[n], prefix(n) + 2 * j - 1)
    <2> DEFINE k == PairsTyped(args, n - 1) + j
    <2>1. n \in 1..Len(args) /\ args[n] \in Seq(Characters)
      OBVIOUS
    <2>2. k \in 1..Len(bytes) /\ bytes[k] = Pairs(args[n])[j] /\ k <= room
      BY <1>1, <1>6, <2>1
    <2> HIDE DEF k
    <2>3. k \in 1..Least(all, room)
      BY <1>1, <1>2, <2>2 DEF Least
    <2>4. payload[k] = parse_num(Pairs(args[n])[j]) % 256
      BY <1>4, <2>2, <2>3
    <2>5. parse_num(Pairs(args[n])[j]) % 256 = DecimalPair(args[n], prefix(n) + 2 * j - 1)
      BY <2>1, PairRead
    <2> QED
      BY <2>4, <2>5 DEF k
  <1> HIDE DEF prefix
  <1> QED
    BY <1>3, <1>4, <1>5, <1>6, Zenon DEF AsmAsTyped, all, room, prefix

-----------------------------------------------------------------------------
(* What is typed is a text over the characters of its kind.                *)
TypedOK == mode \in DOMAIN Alphabet => typed \in Seq(Alphabet[mode])

LEMMA TypedInductive ==
    /\ Init => TypedOK
    /\ TypedOK /\ [Next]_vars => TypedOK'
  <1>1. ASSUME Init PROVE TypedOK
    <2>1. typed = <<>>
      BY <1>1 DEF Init
    <2>2. \A S : <<>> \in Seq(S)
      OBVIOUS
    <2> QED
      BY <2>1, <2>2 DEF TypedOK
  <1>2. ASSUME TypedOK, [Next]_vars PROVE TypedOK'
    <2>1. CASE Type
      <3>1. PICK ch \in Alphabet[mode] : typed' = Append(typed, ch)
        BY <2>1 DEF Type
      <3>2. mode \in DOMAIN Alphabet /\ mode' = mode
        BY <2>1 DEF Type
      <3>3. typed \in Seq(Alphabet[mode])
        BY <1>2, <3>2 DEF TypedOK
      <3>4. typed' \in Seq(Alphabet[mode])
        BY <3>1, <3>3, AppendProperties
      <3> QED
        BY <3>2, <3>4 DEF TypedOK
    <2>2. CASE Enter
      <3>1. typed' = <<>>
        BY <2>2 DEF Enter
      <3>2. \A S : <<>> \in Seq(S)
        OBVIOUS
      <3> QED
        BY <3>1, <3>2 DEF TypedOK
    <2>3. CASE Resolve \/ Cd \/ TurnPage \/ UNCHANGED vars
      BY <1>2, <2>3 DEF Resolve, Cd, TurnPage, vars, TypedOK
    <2> QED
      BY <1>2, <2>1, <2>2, <2>3 DEF Next
  <1> QED
    BY <1>1, <1>2

LEMMA TypedSuffices ==
    ASSUME WideEnough, TypedOK
    PROVE  LineAsTyped
  <1>0. \A kind \in DOMAIN Alphabet : Alphabet[kind] \subseteq Characters
    BY TypedTextAssumption DEF Characters
  <1>1. ASSUME mode = "line"
        PROVE  /\ CommandsAsTyped(typed) /\ RunAsTyped(typed)
               /\ \A n \in DOMAIN handle_line(typed) : RunAsTyped(handle_line(typed)[n])
               /\ EchoAsTyped(typed)
    <2>1. "line" \in DOMAIN Alphabet
      BY TypedTextAssumption
    <2>2. typed \in Seq(Alphabet["line"]) /\ Alphabet["line"] \subseteq Characters
      BY <1>0, <1>1, <2>1 DEF TypedOK
    <2>3. typed \in Seq(Characters)
      BY <2>2, SeqMonotonic
    <2>5. CommandsAsTyped(typed) /\ handle_line(typed) \in Seq(Seq(Characters))
      BY <2>3, CommandsServed
    <2>6. ASSUME NEW n \in DOMAIN handle_line(typed)
          PROVE  RunAsTyped(handle_line(typed)[n])
      <3>1. handle_line(typed)[n] \in Seq(Characters)
        BY <2>5
      <3> QED
        BY <3>1, RunServed
    <2>7. RunAsTyped(typed)
      BY <2>3, RunServed
    <2>8. EchoAsTyped(typed)
      <3>1. CASE \A k \in 1..Len(typed) : typed[k] # ">"
        BY <2>3, <3>1, EchoServed
      <3>2. CASE ~ \A k \in DOMAIN typed : typed[k] # ">"
        BY <3>2, Zenon DEF EchoAsTyped
      <3>3. DOMAIN typed = 1..Len(typed)
        BY <2>3
      <3> QED
        BY <3>1, <3>2, <3>3
    <2> QED
      BY <2>5, <2>6, <2>7, <2>8
  <1>2. ASSUME mode = "asm"
        PROVE  AsmAsTyped(tokenize(typed))
    <2>1. "asm" \in DOMAIN Alphabet
      BY TypedTextAssumption
    <2>2. typed \in Seq(Alphabet["asm"]) /\ Alphabet["asm"] \subseteq Characters
      BY <1>0, <1>2, <2>1 DEF TypedOK
    <2>3. typed \in Seq(Characters)
      BY <2>2, SeqMonotonic
    <2>4. tokenize(typed) \in Seq(Seq(Characters))
      BY <2>3, WordsServed
    <2> QED
      BY <2>4, AsmServed
  <1> QED
    BY <1>1, <1>2 DEF LineAsTyped

(* Whatever is typed, of whatever length: the commands of the line are its *)
(* pieces between the &&; the words run are the runs of characters in      *)
(* front of a > or, without one, all of them; an echo in front of a > is   *)
(* written to the file behind it, its text as it is between quotation      *)
(* marks; and every pair of characters behind asm there is room for is     *)
(* called, in order and read in decimal, with a return behind the last.    *)
(* The numbers are as wide as in the program, or at least a byte.          *)
THEOREM LinesAsTyped ==
    ASSUME WideEnough
    PROVE  Spec => []LineAsTyped
  <1>1. Init => TypedOK
    BY TypedInductive
  <1>2. TypedOK /\ [Next]_vars => TypedOK'
    BY TypedInductive
  <1>3. TypedOK => LineAsTyped
    BY TypedSuffices
  <1> QED
    BY <1>1, <1>2, <1>3, PTL DEF Spec

-----------------------------------------------------------------------------
(* The pages of the manual                                                 *)

LEMMA Percent ==
    ASSUME NEW n \in Nat \ {0}, NEW b \in 0..n
    PROVE  (b * 100) \div n \in 0..100
  OBVIOUS

(* Of every page its word, its length and the length of its name.          *)
LEMMA Entries ==
    /\ DOMAIN wdid_entries = 1..26 /\ Len(wdid_entries) = 26
    /\ \A k \in 1..26 : wdid_entries[k].line_count \in 1..101
    /\ \A k \in 1..26 : wdid_entries[k].name_len \in 1..8
    /\ \A k \in 1..26 : \/ wdid_entries[k].line_count < 100
                        \/ wdid_entries[k].name_len = 4
  BY DEF wdid_entries, Page

(* The aliases of the pages but the last, where they have one.             *)
PageAliases == <<
    "man", "none", "cls", "color", "keyboard", "none", "memrep",
    "poweroff", "restart", "malloc", "math", "hexdump", "registers",
    "bytecode", "ps", "ls", "none", "mkdir", "audit", "edit", "none",
    "none", "none", "del", "find" >>

(* The manual is opened by the names of its pages, the page of && by its   *)
(* alias, for && cuts a line.                                              *)
LEMMA EntryWords ==
    /\ wdid_entries[1].name = <<PageWords[1]>>
    /\ wdid_entries[2].name = <<PageWords[2]>>
    /\ wdid_entries[3].name = <<PageWords[3]>>
    /\ wdid_entries[4].name = <<PageWords[4]>>
    /\ wdid_entries[5].name = <<PageWords[5]>>
    /\ wdid_entries[6].name = <<PageWords[6]>>
    /\ wdid_entries[7].name = <<PageWords[7]>>
    /\ wdid_entries[8].name = <<PageWords[8]>>
    /\ wdid_entries[9].name = <<PageWords[9]>>
    /\ wdid_entries[10].name = <<PageWords[10]>>
    /\ wdid_entries[11].name = <<PageWords[11]>>
    /\ wdid_entries[12].name = <<PageWords[12]>>
    /\ wdid_entries[13].name = <<PageWords[13]>>
    /\ wdid_entries[14].name = <<PageWords[14]>>
    /\ wdid_entries[15].name = <<PageWords[15]>>
    /\ wdid_entries[16].name = <<PageWords[16]>>
    /\ wdid_entries[17].name = <<PageWords[17]>>
    /\ wdid_entries[18].name = <<PageWords[18]>>
    /\ wdid_entries[19].name = <<PageWords[19]>>
    /\ wdid_entries[20].name = <<PageWords[20]>>
    /\ wdid_entries[21].name = <<PageWords[21]>>
    /\ wdid_entries[22].name = <<PageWords[22]>>
    /\ wdid_entries[23].name = <<PageWords[23]>>
    /\ wdid_entries[24].name = <<PageWords[24]>>
    /\ wdid_entries[25].name = <<PageWords[25]>>
    /\ wdid_entries[26].alias = <<PageWords[26]>>
  BY DEF wdid_entries, Page, PageWords

Aliased(j) == \/ wdid_entries[j].alias = <<>>
              \/ wdid_entries[j].alias = <<PageAliases[j]>>

LEMMA EntryAliases ==
    /\ Aliased(1) /\ Aliased(2) /\ Aliased(3) /\ Aliased(4) /\ Aliased(5)
    /\ Aliased(6) /\ Aliased(7) /\ Aliased(8) /\ Aliased(9) /\ Aliased(10)
    /\ Aliased(11) /\ Aliased(12) /\ Aliased(13) /\ Aliased(14) /\ Aliased(15)
    /\ Aliased(16) /\ Aliased(17) /\ Aliased(18) /\ Aliased(19) /\ Aliased(20)
    /\ Aliased(21) /\ Aliased(22) /\ Aliased(23) /\ Aliased(24) /\ Aliased(25)
  BY DEF wdid_entries, Page, PageAliases, Aliased

LEMMA SameWord ==
    ASSUME NEW x, NEW y, <<x>> = <<y>>
    PROVE  x = y
  OBVIOUS

LEMMA WordsApart ==
    \A k \in 1..26 : \A j \in 1..25 :
        /\ PageWords[j] = PageWords[k] => j = k
        /\ PageAliases[j] # PageWords[k]
  BY DEF PageWords, PageAliases

Plain(word) == word # " " /\ word # "tab" /\ word # "&"

LEMMA WordsPlain ==
    \A k \in 1..26 : Plain(PageWords[k])
  <1>1. /\ Plain(PageWords[1]) /\ Plain(PageWords[2]) /\ Plain(PageWords[3])
        /\ Plain(PageWords[4]) /\ Plain(PageWords[5]) /\ Plain(PageWords[6])
        /\ Plain(PageWords[7]) /\ Plain(PageWords[8]) /\ Plain(PageWords[9])
        /\ Plain(PageWords[10]) /\ Plain(PageWords[11]) /\ Plain(PageWords[12])
        /\ Plain(PageWords[13]) /\ Plain(PageWords[14]) /\ Plain(PageWords[15])
        /\ Plain(PageWords[16]) /\ Plain(PageWords[17]) /\ Plain(PageWords[18])
        /\ Plain(PageWords[19]) /\ Plain(PageWords[20]) /\ Plain(PageWords[21])
        /\ Plain(PageWords[22]) /\ Plain(PageWords[23]) /\ Plain(PageWords[24])
        /\ Plain(PageWords[25]) /\ Plain(PageWords[26])
    BY DEF PageWords, Plain
  <1> QED
    BY <1>1

(* No page is opened by the word of a later one.                           *)
LEMMA WordOpens ==
    ASSUME NEW k \in 1..26
    PROVE  /\ wdid_entries[k].name = <<PageWords[k]>> \/ wdid_entries[k].alias = <<PageWords[k]>>
           /\ \A j \in 1..(k - 1) : /\ wdid_entries[j].name # <<PageWords[k]>>
                                    /\ wdid_entries[j].alias # <<PageWords[k]>>
  <1>1. \A j \in 1..25 : wdid_entries[j].name = <<PageWords[j]>>
    BY EntryWords
  <1>2. \A j \in 1..25 : wdid_entries[j].alias = <<>> \/ wdid_entries[j].alias = <<PageAliases[j]>>
    <2>1. \A j \in 1..25 : Aliased(j)
      BY EntryAliases
    <2> QED
      BY <2>1 DEF Aliased
  <1>3. wdid_entries[k].name = <<PageWords[k]>> \/ wdid_entries[k].alias = <<PageWords[k]>>
    <2>1. k = 26 \/ k \in 1..25
      OBVIOUS
    <2> QED
      BY <1>1, <2>1, EntryWords
  <1>4. ASSUME NEW j \in 1..(k - 1)
        PROVE  /\ wdid_entries[j].name # <<PageWords[k]>>
               /\ wdid_entries[j].alias # <<PageWords[k]>>
    <2>1. j \in 1..25 /\ j # k
      OBVIOUS
    <2>2. PageWords[j] # PageWords[k] /\ PageAliases[j] # PageWords[k]
      BY <2>1, WordsApart
    <2>3. <<PageWords[j]>> # <<PageWords[k]>> /\ <<PageAliases[j]>> # <<PageWords[k]>>
      BY <2>2, SameWord
    <2>4. <<>> # <<PageWords[k]>>
      OBVIOUS
    <2> QED
      BY <1>1, <1>2, <2>1, <2>3, <2>4
  <1> QED
    BY <1>3, <1>4

LEMMA ThreeWords ==
    ASSUME NEW S, NEW x \in S, NEW y \in S, NEW z \in S, NEW s, s = <<x, y>> \o <<z>>
    PROVE  s \in Seq(S) /\ Len(s) = 3 /\ s[1] = x /\ s[2] = y /\ s[3] = z
  <1> DEFINE a == <<x, y>>
             b == <<z>>
  <1>1. a \in Seq(S) /\ Len(a) = 2 /\ a[1] = x /\ a[2] = y
    OBVIOUS
  <1>2. b \in Seq(S) /\ Len(b) = 1 /\ b[1] = z
    OBVIOUS
  <1>3. s = a \o b
    OBVIOUS
  <1> HIDE DEF a, b
  <1>4. /\ s \in Seq(S) /\ Len(s) = Len(a) + Len(b)
        /\ \A i \in 1..(Len(a) + Len(b)) : s[i] = IF i <= Len(a) THEN a[i] ELSE b[i - Len(a)]
    BY <1>1, <1>2, <1>3, ConcatProperties
  <1> QED
    BY <1>1, <1>2, <1>4

(* The word behind wdid is the second argument, and it is looked for.      *)
LEMMA Opened ==
    ASSUME NEW k \in 1..26
    PROVE  Opens(<<PageWords[k]>>) = wdid_find(<<PageWords[k]>>)
  <1> DEFINE w == PageWords[k]
             s == <<"wdid", " ">> \o <<w>>
  <1>0. w \in Characters /\ Plain(w)
    BY WordsPlain DEF Characters
  <1> HIDE DEF w
  <1>1. s \in Seq(Characters) /\ Len(s) = 3 /\ s[1] = "wdid" /\ s[2] = " " /\ s[3] = w
    <2>1. "wdid" \in Characters /\ " " \in Characters
      BY DEF Characters
    <2>2. s = <<"wdid", " ">> \o <<w>>
      OBVIOUS
    <2> HIDE DEF s
    <2>3. \A x, y \in Characters : s = <<x, y>> \o <<w>> =>
             s \in Seq(Characters) /\ Len(s) = 3 /\ s[1] = x /\ s[2] = y /\ s[3] = w
      BY <1>0, ThreeWords
    <2> QED
      BY <2>1, <2>2, <2>3, Zenon
  <1> HIDE DEF s
  <1>14. s \in Seq(Characters) /\ Len(s) = 3
    BY <1>1
  <1>15. s[1] = "wdid"
    BY <1>1
  <1>16. s[2] = " "
    BY <1>1
  <1>2. s[1] \notin Blanks /\ s[2] \in Blanks /\ s[3] \notin Blanks
    <2>1. "wdid" \notin Blanks /\ " " \in Blanks
      BY DEF Blanks
    <2>2. w \notin Blanks
      BY <1>0, Zenon DEF Blanks, Plain
    <2> QED
      BY <1>1, <2>1, <2>2
  <1>3. Separators(s) = {}
    <2>1. \A j \in 1..(Len(s) - 1) : s[j] # "&"
      <3> TAKE j \in 1..(Len(s) - 1)
      <3>1. j = 1 \/ j = 2
        BY <1>14
      <3>2. "wdid" # "&" /\ " " # "&"
        OBVIOUS
      <3> QED
        BY <1>15, <1>16, <3>1, <3>2
    <2> QED
      BY <2>1 DEF Separators
  <1>4. handle_line(s) = <<s>>
    <2>1. Len(s) > 0 /\ s[Len(s)] \notin Blanks
      BY <1>2, <1>14
    <2> QED
      BY <1>2, <1>3, <1>14, <2>1, OneCommand
  <1>5. PICK m : /\ m[0] = [argv |-> <<>>, inside |-> FALSE]
                 /\ \A n \in 1..3 : m[n] = TakeCharacter(m[n - 1], s[n])
                 /\ tokenize(s) = m[3].argv
    <2>1. Len(s) = 3 /\ Len(s) \in Nat
      BY <1>14
    <2> QED
      BY <2>1, TokenWalk
  <1> DEFINE a1 == Append(<<>>, <<s[1]>>)
             a2 == Append(a1, <<s[3]>>)
  <1>6. /\ a1 \in Seq(Seq(Characters)) /\ Len(a1) = 1
        /\ a2 \in Seq(Seq(Characters)) /\ Len(a2) = 2 /\ a2[2] = <<s[3]>>
    <2>1. <<s[1]>> \in Seq(Characters) /\ <<s[3]>> \in Seq(Characters)
      <3>1. s[1] \in Characters /\ s[3] \in Characters
        BY <1>14
      <3> QED
        BY <3>1
    <2>2. <<>> \in Seq(Seq(Characters)) /\ Len(<<>>) = 0
      OBVIOUS
    <2>3. a1 \in Seq(Seq(Characters)) /\ Len(a1) = 1
      BY <2>1, <2>2, AppendProperties
    <2> HIDE DEF a1
    <2>4. a2 \in Seq(Seq(Characters)) /\ Len(a2) = 2 /\ a2[1 + 1] = <<s[3]>>
      <3>1. \A x \in Seq(Characters) : /\ Append(a1, x) \in Seq(Seq(Characters))
                                       /\ Len(Append(a1, x)) = Len(a1) + 1
                                       /\ Append(a1, x)[Len(a1) + 1] = x
        BY <2>3, AppendProperties
      <3>2. Len(a1) + 1 = 2 /\ Len(a1) = 1
        BY <2>3
      <3> QED
        BY <2>1, <3>1, <3>2
    <2> HIDE DEF a2
    <2>5. 1 + 1 = 2
      OBVIOUS
    <2> QED
      BY <2>3, <2>4, <2>5
  <1>7. m[1] = [argv |-> a1, inside |-> TRUE]
    <2>1. m[1] = TakeCharacter(m[0], s[1])
      BY <1>5
    <2>2. Len(<<>>) # MAX_ARGS
      BY CmdLineAssumption
    <2>3. TakeCharacter([argv |-> <<>>, inside |-> FALSE], s[1]) = [argv |-> a1, inside |-> TRUE]
      BY <1>2, <2>2 DEF TakeCharacter
    <2> QED
      BY <1>5, <2>1, <2>3
  <1> HIDE DEF a1
  <1>8. Len(a1) # MAX_ARGS
    BY <1>6, CmdLineAssumption
  <1>9. m[2] = [argv |-> a1, inside |-> FALSE]
    <2>1. m[2] = TakeCharacter(m[1], s[2])
      BY <1>5
    <2>2. TakeCharacter([argv |-> a1, inside |-> TRUE], s[2]) = [argv |-> a1, inside |-> FALSE]
      BY <1>2, <1>8 DEF TakeCharacter
    <2> QED
      BY <1>7, <2>1, <2>2
  <1>10. m[3] = [argv |-> a2, inside |-> TRUE]
    <2>1. m[3] = TakeCharacter(m[2], s[3])
      BY <1>5
    <2>2. TakeCharacter([argv |-> a1, inside |-> FALSE], s[3]) = [argv |-> a2, inside |-> TRUE]
      BY <1>2, <1>8 DEF TakeCharacter
    <2> QED
      BY <1>9, <2>1, <2>2
  <1>11. Len(tokenize(s)) = 2 /\ tokenize(s)[2] = <<w>>
    <2>1. tokenize(s) = a2
      BY <1>5, <1>10
    <2> QED
      BY <1>1, <1>6, <2>1
  <1>12. Opens(<<w>>) = wdid_find(<<w>>)
    <2>1. <<s>>[1] = s
      OBVIOUS
    <2>2. Opens(<<w>>) = IF Len(tokenize(s)) > 1 THEN wdid_find(tokenize(s)[2]) ELSE 1
      BY <1>4, <2>1, Zenon DEF Opens, s
    <2> QED
      BY <1>11, <2>2
  <1> QED
    BY <1>12 DEF w

LEMMA PageOpens ==
    ASSUME NEW k \in 1..26
    PROVE  /\ Opens(<<PageWords[k]>>) = k
           /\ <<PageWords[k]>> \in {wdid_entries[k].name, wdid_entries[k].alias}
  <1> DEFINE name == <<PageWords[k]>>
             I == {i \in 1..26 : wdid_entries[i].name = name \/ wdid_entries[i].alias = name}
  <1>1. /\ wdid_entries[k].name = name \/ wdid_entries[k].alias = name
        /\ \A j \in 1..(k - 1) : wdid_entries[j].name # name /\ wdid_entries[j].alias # name
    BY WordOpens
  <1>2. name # <<>>
    OBVIOUS
  <1> HIDE DEF name
  <1>3. k \in I /\ I \subseteq Nat
    BY <1>1
  <1>4. ASSUME NEW i \in I PROVE k <= i
    <2>1. i \notin 1..(k - 1)
      BY <1>1
    <2> QED
      BY <2>1
  <1>5. Min(I) = k /\ I # {}
    <2> HIDE DEF I
    <2> QED
      BY <1>3, <1>4, LeastIs
  <1>6. wdid_find(name) = k
    BY <1>2, <1>5, Entries, Zenon DEF wdid_find, SelectInSeq, I
  <1>7. Opens(name) = wdid_find(name)
    BY Opened DEF name
  <1> QED
    BY <1>1, <1>6, <1>7 DEF name

(* The numbers of the status line have as many digits as there is room     *)
(* for, and no part of a page is more than the whole.                      *)
LEMMA NumbersShort ==
    \A n \in Nat : /\ NumberLength(n) \in 1..4
                   /\ n < 100 => NumberLength(n) <= 2
                   /\ n < 1000 => NumberLength(n) <= 3
  BY DEF NumberLength

LEMMA StatusFits ==
    ASSUME NEW count \in 1..101, NEW name_len \in 1..8, count < 100 \/ name_len = 4,
           NEW t \in Nat, t <= MaxTop(count)
    PROVE  StatusLength(name_len, count, t) < 80
  <1> DEFINE first == t + 1
             last == Least(t + PAGER_TEXT_ROWS, count)
             percent == (last * 100) \div count
  <1>1. first \in 1..count /\ last \in 1..count
    BY WdidAssumption DEF MaxTop, Below, Least
  <1>2. percent \in 0..100
    <2>1. count \in Nat \ {0} /\ last \in 0..count
      BY <1>1
    <2> HIDE DEF last
    <2> QED
      BY <2>1, Percent
  <1>3. StatusLength(name_len, count, t)
          = 61 + name_len + NumberLength(first) + NumberLength(last)
               + NumberLength(count) + NumberLength(percent)
    BY DEF StatusLength, render_status_bar
  <1> HIDE DEF first, last, percent
  <1>4. first \in Nat /\ last \in Nat /\ count \in Nat /\ percent \in Nat
        /\ first < 1000 /\ last < 1000 /\ count < 1000 /\ percent < 1000
    BY <1>1, <1>2
  <1>5. /\ NumberLength(first) \in 1..3 /\ NumberLength(last) \in 1..3
        /\ NumberLength(count) \in 1..3 /\ NumberLength(percent) \in 1..3
    BY <1>4, NumbersShort
  <1>6. CASE count < 100
    <2>1. first < 100 /\ last < 100
      BY <1>1, <1>6
    <2>2. /\ NumberLength(first) <= 2 /\ NumberLength(last) <= 2
          /\ NumberLength(count) <= 2
      BY <1>4, <1>6, <2>1, NumbersShort
    <2> QED
      BY <1>3, <1>5, <2>2
  <1>7. CASE name_len = 4
    BY <1>3, <1>5, <1>7
  <1> QED
    BY <1>6, <1>7

(* The pager stays within the page it shows.                               *)
PagerOK == mode = "page" => /\ page \in 1..26
                            /\ top \in Nat /\ top <= MaxTop(wdid_entries[page].line_count)

LEMMA PagerInductive ==
    /\ Init => PagerOK
    /\ PagerOK /\ [Next]_vars => PagerOK'
  <1>0. \A count \in 1..101 : MaxTop(count) \in Nat
    BY WdidAssumption DEF MaxTop, Below
  <1>1. ASSUME Init PROVE PagerOK
    <2>1. ASSUME mode = "page"
          PROVE  page \in 1..26 /\ top \in Nat /\ top <= MaxTop(wdid_entries[page].line_count)
      <3>1. page \in 1..26 /\ top = 0
        BY <1>1, <2>1, Entries DEF Init
      <3>2. wdid_entries[page].line_count \in 1..101
        BY <3>1, Entries
      <3>3. MaxTop(wdid_entries[page].line_count) \in Nat
        BY <1>0, <3>2
      <3> QED
        BY <3>1, <3>3
    <2> QED
      BY <2>1 DEF PagerOK
  <1>2. ASSUME PagerOK, [Next]_vars PROVE PagerOK'
    <2>1. CASE TurnPage
      <3>1. /\ mode = "page" /\ mode' = mode /\ page' = page
            /\ top' \in {0, Least(top + 1, MaxTop(wdid_entries[page].line_count))}
        BY <2>1 DEF TurnPage
      <3>2. page \in 1..26 /\ top \in Nat
        BY <1>2, <3>1 DEF PagerOK
      <3>3. wdid_entries[page].line_count \in 1..101
        BY <3>2, Entries
      <3> DEFINE last == MaxTop(wdid_entries[page].line_count)
      <3>4. last \in Nat
        BY <1>0, <3>3
      <3> HIDE DEF last
      <3>5. top' \in Nat /\ top' <= last
        <4>1. top' \in {0, Least(top + 1, last)}
          BY <3>1 DEF last
        <4> QED
          BY <3>2, <3>4, <4>1 DEF Least
      <3> QED
        BY <3>1, <3>2, <3>5 DEF PagerOK, last
    <2>2. CASE Type \/ Enter \/ Resolve \/ Cd \/ UNCHANGED vars
      BY <1>2, <2>2 DEF Type, Enter, Resolve, Cd, vars, PagerOK
    <2> QED
      BY <1>2, <2>1, <2>2 DEF Next
  <1> QED
    BY <1>1, <1>2

(* Every page of the manual can be opened, and its status line fits at     *)
(* every place in it, whatever the size of the screen.                     *)
THEOREM PagesServed == Spec => []PageServed
  <1>1. Init => PagerOK
    BY PagerInductive
  <1>2. PagerOK /\ [Next]_vars => PagerOK'
    BY PagerInductive
  <1>3. ASSUME PagerOK PROVE PageServed
    <2>1. ASSUME mode = "page"
          PROVE  /\ \E name \in {wdid_entries[page].name, wdid_entries[page].alias} :
                        Opens(name) = page
                 /\ StatusLength(wdid_entries[page].name_len,
                                 wdid_entries[page].line_count, top) < 80
      <3>1. /\ page \in 1..26 /\ top \in Nat
            /\ top <= MaxTop(wdid_entries[page].line_count)
        BY <1>3, <2>1 DEF PagerOK
      <3>2. /\ Opens(<<PageWords[page]>>) = page
            /\ <<PageWords[page]>> \in {wdid_entries[page].name, wdid_entries[page].alias}
        BY <3>1, PageOpens
      <3>3. /\ wdid_entries[page].line_count \in 1..101
            /\ wdid_entries[page].name_len \in 1..8
            /\ wdid_entries[page].line_count < 100 \/ wdid_entries[page].name_len = 4
        BY <3>1, Entries
      <3>4. StatusLength(wdid_entries[page].name_len,
                         wdid_entries[page].line_count, top) < 80
        BY <3>1, <3>3, StatusFits
      <3> QED
        BY <3>2, <3>4
    <2> QED
      BY <2>1 DEF PageServed
  <1> QED
    BY <1>1, <1>2, <1>3, PTL DEF Spec
=============================================================================
