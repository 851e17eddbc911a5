-------------------------- MODULE TextFilesProofs --------------------------
(***************************************************************************)
(* Theorems of TextFiles, for any shells, paths, directories that cannot   *)
(* be created, and documents.                                              *)
(***************************************************************************)
EXTENDS TextFiles, SequenceTheorems, WellFoundedInduction, TLAPS

(***************************************************************************)
(* Induction over numbers, as a fact about sets: a set that has 0 and the  *)
(* successor of each of its members has every number.                      *)
(***************************************************************************)
LEMMA Smallest ==
  ASSUME NEW S \in SUBSET Nat, S # {} PROVE \E x \in S : \A y \in S : x <= y
<1> DEFINE R == {ss \in Nat \X Nat : ss[1] < ss[2]}
<1>1. IsWellFoundedOn(R, Nat)
  BY NatLessThanWellFounded DEF OpToRel
<1>2. PICK x \in S : \A y \in S : <<y, x>> \notin R
  <2> HIDE DEF R
  <2> QED BY <1>1, WFMin
<1>3. ASSUME NEW y \in S PROVE x <= y
  <2>1. x \in Nat /\ y \in Nat /\ <<y, x>> \notin R
    BY <1>2
  <2> QED BY <2>1
<1> QED BY <1>3

LEMMA Induction ==
  ASSUME NEW S, 0 \in S, \A k \in Nat : k \in S => k + 1 \in S
  PROVE  Nat \subseteq S
<1> DEFINE Rest == {k \in Nat : k \notin S}
<1> SUFFICES ASSUME Rest # {} PROVE FALSE
  OBVIOUS
<1>1. PICK x \in Rest : \A y \in Rest : x <= y
  BY Smallest
<1>2. x \in Nat /\ x # 0 /\ x \notin S
  BY <1>1
<1>3. x - 1 \in Nat /\ (x - 1) + 1 = x
  BY <1>2
<1>4. x - 1 \notin Rest
  BY <1>1, <1>3
<1>5. x - 1 \in S
  BY <1>3, <1>4
<1> QED BY <1>2, <1>3, <1>5

(***************************************************************************)
(* Directories.  The recursive function that drops the dots of a path      *)
(* exists, has the value that its definition says, and is a sequence.      *)
(***************************************************************************)
OneName(path, f, j) ==
  IF j = 0 THEN <<>> ELSE IF path[j] = "." THEN f[j - 1] ELSE Append(f[j - 1], path[j])

LEMMA DirectoryExists ==
  ASSUME NEW path, NEW m \in Nat
  PROVE  \E f : f = [j \in 0..m |-> OneName(path, f, j)]
<1> DEFINE S == {k \in Nat : \E f : f = [j \in 0..k |-> OneName(path, f, j)]}
<1>1. 0 \in S
  <2> DEFINE f == [j \in 0..0 |-> <<>>]
  <2>1. f = [j \in 0..0 |-> OneName(path, f, j)]
    BY DEF OneName
  <2> HIDE DEF f
  <2> QED BY <2>1
<1>2. ASSUME NEW k \in Nat, k \in S PROVE k + 1 \in S
  <2>1. PICK f : f = [j \in 0..k |-> OneName(path, f, j)]
    BY <1>2
  <2> DEFINE g == [j \in 0..k + 1 |-> IF j = k + 1 THEN OneName(path, f, j) ELSE f[j]]
  <2>2. \A j \in 0..k + 1 : g[j] = OneName(path, g, j)
    <3> TAKE j \in 0..k + 1
    <3>1. CASE j = 0
      <4>1. g[0] = f[0] /\ f[0] = <<>>
        BY <2>1 DEF OneName
      <4> QED BY <3>1, <4>1 DEF OneName
    <3>2. CASE j # 0
      <4>1. j - 1 \in 0..k /\ g[j - 1] = f[j - 1]
        BY <3>2
      <4>2. OneName(path, f, j) = OneName(path, g, j)
        <5> HIDE DEF g
        <5> QED BY <4>1 DEF OneName
      <4>3. g[j] = OneName(path, f, j)
        BY <2>1
      <4> QED BY <4>2, <4>3
    <3> QED BY <3>1, <3>2
  <2>3. DOMAIN g = 0..k + 1 /\ g = [j \in 0..k + 1 |-> g[j]]
    OBVIOUS
  <2>4. g = [j \in 0..k + 1 |-> OneName(path, g, j)]
    <3> HIDE DEF g
    <3> QED BY <2>2, <2>3
  <2> HIDE DEF g
  <2> QED BY <2>4
<1> HIDE DEF S
<1>3. Nat \subseteq S
  BY <1>1, <1>2, Induction
<1> QED BY <1>3 DEF S

LEMMA DirectoryRecursion ==
  ASSUME NEW Names, NEW path \in Seq(Names), NEW k \in 0..Len(path)
  PROVE  Directory(path, k) =
           IF k = 0 THEN <<>>
           ELSE IF path[k] = "." THEN Directory(path, k - 1)
           ELSE Append(Directory(path, k - 1), path[k])
<1> DEFINE dir == CHOOSE f : f = [j \in 0..Len(path) |->
                    IF j = 0 THEN <<>>
                    ELSE IF path[j] = "." THEN f[j - 1] ELSE Append(f[j - 1], path[j])]
<1>1. Len(path) \in Nat
  BY LenProperties
<1>2. \E f : f = [j \in 0..Len(path) |->
                    IF j = 0 THEN <<>>
                    ELSE IF path[j] = "." THEN f[j - 1] ELSE Append(f[j - 1], path[j])]
  BY <1>1, DirectoryExists DEF OneName
<1>3. dir = [j \in 0..Len(path) |->
                    IF j = 0 THEN <<>>
                    ELSE IF path[j] = "." THEN dir[j - 1] ELSE Append(dir[j - 1], path[j])]
  BY <1>2, Zenon
<1>4. \A j : Directory(path, j) = dir[j]
  BY Zenon DEF Directory
<1> HIDE DEF dir
<1>5. dir[k] = IF k = 0 THEN <<>>
               ELSE IF path[k] = "." THEN dir[k - 1] ELSE Append(dir[k - 1], path[k])
  BY <1>3
<1>6. Directory(path, k) = dir[k] /\ Directory(path, k - 1) = dir[k - 1]
  BY <1>4, Zenon
<1> QED BY <1>5, <1>6, Zenon

LEMMA DirectoryTyped ==
  ASSUME NEW Names, NEW path \in Seq(Names)
  PROVE  \A k \in 0..Len(path) : Directory(path, k) \in Seq(Names)
<1> DEFINE S == {k \in Nat : k \in 0..Len(path) => Directory(path, k) \in Seq(Names)}
<1>1. Len(path) \in Nat
  BY LenProperties
<1>2. 0 \in S
  BY <1>1, DirectoryRecursion, EmptySeq
<1>3. ASSUME NEW k \in Nat, k \in S PROVE k + 1 \in S
  <2> SUFFICES ASSUME k + 1 \in 0..Len(path) PROVE Directory(path, k + 1) \in Seq(Names)
    OBVIOUS
  <2>1. Directory(path, k) \in Seq(Names)
    BY <1>1, <1>3
  <2>2. path[k + 1] \in Names
    BY <1>1, ElementOfSeq
  <2>3. Append(Directory(path, k), path[k + 1]) \in Seq(Names)
    BY <2>1, <2>2, AppendProperties
  <2>4. k + 1 # 0 /\ (k + 1) - 1 = k
    OBVIOUS
  <2>5. Directory(path, k + 1) = Directory(path, k)
        \/ Directory(path, k + 1) = Append(Directory(path, k), path[k + 1])
    BY <2>4, DirectoryRecursion
  <2> QED BY <2>1, <2>3, <2>5
<1> HIDE DEF S
<1>4. Nat \subseteq S
  BY <1>2, <1>3, Induction
<1> QED BY <1>1, <1>4 DEF S

LEMMA FrontOfAppend ==
  ASSUME NEW Names, NEW s \in Seq(Names), NEW e \in Names
  PROVE  Front(Append(s, e)) = s /\ Append(s, e) # <<>>
<1>1. /\ Append(s, e) \in Seq(Names) /\ Len(Append(s, e)) = Len(s) + 1 /\ Len(s) \in Nat
      /\ \A j \in 1..Len(s) : Append(s, e)[j] = s[j] /\ s[j] \in Names
      /\ Append(s, e) # <<>>
  BY AppendProperties, LenProperties, ElementOfSeq
<1> DEFINE t == Append(s, e)
           f == SubSeq(t, 1, Len(s))
<1> HIDE DEF t
<1>2. \A j \in 1..Len(s) : t[j] \in Names
  BY <1>1 DEF t
<1>3. /\ f \in Seq(Names) /\ Len(f) = Len(s)
      /\ \A j \in 1..Len(s) : f[j] = t[j]
  BY <1>1, <1>2, SubSeqProperties
<1>4. f = s
  <2> HIDE DEF f
  <2>1. \A j \in 1..Len(f) : f[j] = s[j]
    BY <1>1, <1>3 DEF t
  <2> QED BY <1>3, <2>1, SeqEqual
<1> QED BY <1>1, <1>4 DEF Front, t

\* The directory that the next name denotes: the one before, or one right below it.
LEMMA NextDirectory ==
  ASSUME NEW s \in Shells, NEW k \in 1..Len(DirectoryOf[s])
  PROVE  LET d == Directory(DirectoryOf[s], k)
             above == Directory(DirectoryOf[s], k - 1)
         IN  d = above \/ (d # <<>> /\ Front(d) = above)
<1> DEFINE path == DirectoryOf[s]
<1>1. path \in Seq(STRING) /\ Len(path) \in Nat
  BY TextAssumption, LenProperties
<1> HIDE DEF path
<1>2. k - 1 \in 0..Len(path) /\ k # 0 /\ k \in 0..Len(path) /\ path[k] \in STRING
  BY <1>1, ElementOfSeq DEF path
<1>3. Directory(path, k - 1) \in Seq(STRING)
  BY <1>1, <1>2, DirectoryTyped
<1>4. Directory(path, k) = Directory(path, k - 1)
      \/ Directory(path, k) = Append(Directory(path, k - 1), path[k])
  BY <1>1, <1>2, DirectoryRecursion
<1>5. Front(Append(Directory(path, k - 1), path[k])) = Directory(path, k - 1)
      /\ Append(Directory(path, k - 1), path[k]) # <<>>
  BY <1>2, <1>3, FrontOfAppend, Zenon
<1>6. Directory(path, k) = Directory(path, k - 1)
      \/ (Directory(path, k) # <<>> /\ Front(Directory(path, k)) = Directory(path, k - 1))
  BY <1>4, <1>5, Zenon
<1> QED BY <1>6, Zenon DEF path

(***************************************************************************)
(* Directories that several shells make.  What a shell has passed is there *)
(* and stays, so that the next name can fail only for itself.              *)
(***************************************************************************)
PassedOver(s) == \A k \in 0..n[s] - 1 : Directory(DirectoryOf[s], k) \in dirs

MadeInv ==
  /\ pc \in [Shells -> {"mkdir", "made", "failed", "write", "search", "value", "items", "report", "done"}]
  /\ n \in [Shells -> Nat \ {0}] /\ <<>> \in dirs
  /\ \A s \in Shells :
       /\ n[s] <= Len(DirectoryOf[s]) + 1 /\ PassedOver(s)
       /\ pc[s] \notin {"mkdir", "failed"} => n[s] = Len(DirectoryOf[s]) + 1
       /\ pc[s] = "failed" => Above(DirectoryOf[s]) \cap Denied # {}

LEMMA MadeAtFirst == Init => MadeInv
<1> SUFFICES ASSUME Init PROVE MadeInv
  OBVIOUS
<1>1. pc = [s \in Shells |-> "mkdir"] /\ n = [s \in Shells |-> 1] /\ dirs = {<<>>}
  BY DEF Init
<1>2. ASSUME NEW s \in Shells PROVE n[s] <= Len(DirectoryOf[s]) + 1 /\ PassedOver(s)
  <2>1. DirectoryOf[s] \in Seq(STRING) /\ Len(DirectoryOf[s]) \in Nat /\ n[s] = 1
    BY <1>1, TextAssumption, LenProperties
  <2>2. Directory(DirectoryOf[s], 0) = <<>>
    BY <2>1, DirectoryRecursion
  <2> QED BY <1>1, <2>1, <2>2 DEF PassedOver
<1> QED BY <1>1, <1>2 DEF MadeInv

LEMMA MadeByOne ==
  ASSUME MadeInv, NEW s \in Shells, EnsureDirectory(s) PROVE MadeInv'
<1> DEFINE path == DirectoryOf[s]
           d == Directory(path, n[s])
           result == CreateDirectory(d)
<1>1. /\ pc[s] = "mkdir" /\ n[s] <= Len(path)
      /\ IF d = <<>> \/ Accepted(result)
         THEN n' = [n EXCEPT ![s] = @ + 1] /\ pc' = pc
         ELSE Goto(s, "failed") /\ n' = n
      /\ dirs' = IF d # <<>> /\ result = "created" THEN dirs \cup {d} ELSE dirs
  BY Zenon DEF EnsureDirectory
<1>2. /\ n[s] \in Nat /\ n[s] >= 1 /\ path \in Seq(STRING) /\ Len(path) \in Nat
      /\ n[s] \in 1..Len(path) /\ n[s] - 1 \in 0..n[s] - 1
  BY <1>1, TextAssumption, LenProperties DEF MadeInv
<1>3. Directory(path, n[s] - 1) \in dirs
  BY <1>2 DEF MadeInv, PassedOver
<1>4. d = Directory(path, n[s] - 1) \/ (d # <<>> /\ Front(d) = Directory(path, n[s] - 1))
  BY <1>2, NextDirectory
<1>5. dirs \subseteq dirs' /\ <<>> \in dirs'
  BY <1>1 DEF MadeInv
<1>6. ASSUME NEW u \in Shells, PassedOver(u), n'[u] = n[u] PROVE PassedOver(u)'
  BY <1>5, <1>6 DEF PassedOver
<1>7. CASE d = <<>> \/ Accepted(result)
  <2>1. n' = [n EXCEPT ![s] = n[s] + 1] /\ pc' = pc
    BY <1>1, <1>7
  <2>2. d \in dirs'
    BY <1>1, <1>5, <1>7 DEF Accepted, CreateDirectory
  <2>3. n'[s] = n[s] + 1 /\ \A u \in Shells \ {s} : n'[u] = n[u]
    BY <2>1 DEF MadeInv
  <2>4. PassedOver(s)'
    <3>1. \A k \in 0..n[s] - 1 : Directory(path, k) \in dirs'
      BY <1>5 DEF MadeInv, PassedOver
    <3>2. \A k \in 0..n'[s] - 1 : k \in 0..n[s] - 1 \/ k = n[s]
      BY <1>2, <2>3
    <3> QED BY <2>2, <3>1, <3>2 DEF PassedOver
  <2>5. \A u \in Shells : PassedOver(u)'
    BY <1>6, <2>3, <2>4 DEF MadeInv
  <2>6. n' \in [Shells -> Nat \ {0}]
    BY <1>2, <2>1 DEF MadeInv
  <2>7. \A u \in Shells : n'[u] <= Len(DirectoryOf[u]) + 1
    BY <1>2, <2>3 DEF MadeInv
  <2>8. \A u \in Shells : pc'[u] \notin {"mkdir", "failed"} => n'[u] = Len(DirectoryOf[u]) + 1
    BY <1>1, <2>1, <2>3 DEF MadeInv
  <2> QED BY <1>5, <2>1, <2>5, <2>6, <2>7, <2>8 DEF MadeInv
<1>8. CASE ~(d = <<>> \/ Accepted(result))
  <2>1. pc' = [pc EXCEPT ![s] = "failed"] /\ n' = n
    BY <1>1, <1>8 DEF Goto
  <2>2. d \notin dirs /\ (Front(d) \notin dirs \/ d \in Denied)
    BY <1>8 DEF Accepted, CreateDirectory
  <2>3. d \in Denied
    BY <1>3, <1>4, <2>2
  <2>4. d \in Above(path)
    BY <1>2 DEF Above
  <2>5. \A u \in Shells : PassedOver(u)'
    BY <1>6, <2>1 DEF MadeInv
  <2>6. pc' \in [Shells -> {"mkdir", "made", "failed", "write", "search", "value", "items", "report", "done"}]
    BY <2>1 DEF MadeInv
  <2>7. pc'[s] = "failed" /\ \A u \in Shells \ {s} : pc'[u] = pc[u]
    BY <2>1 DEF MadeInv
  <2>8. \A u \in Shells :
          /\ pc'[u] \notin {"mkdir", "failed"} => n[u] = Len(DirectoryOf[u]) + 1
          /\ pc'[u] = "failed" => Above(DirectoryOf[u]) \cap Denied # {}
    BY <2>3, <2>4, <2>7 DEF MadeInv
  <2> QED BY <1>5, <2>1, <2>5, <2>6, <2>8 DEF MadeInv
<1> QED BY <1>7, <1>8

\* Every other step leaves the directories, and only moves a shell that has its own.
Later == {"made", "write", "search", "value", "items", "report", "done"}

LEMMA OtherSteps ==
  ASSUME MadeInv,
         (\E s \in Shells : DirectoryThere(s)) \/ WriteTextFile \/ Read \/ UNCHANGED vars
  PROVE  /\ dirs' = dirs /\ n' = n
         /\ \/ pc' = pc
            \/ \E s \in Shells, to \in Later :
                 n[s] = Len(DirectoryOf[s]) + 1 /\ pc' = [pc EXCEPT ![s] = to]
<1>1. CASE \E s \in Shells : DirectoryThere(s)
  <2>1. PICK s \in Shells : DirectoryThere(s)
    BY <1>1
  <2>2. n[s] = Len(DirectoryOf[s]) + 1
    <3>1. n[s] > Len(DirectoryOf[s]) /\ n[s] <= Len(DirectoryOf[s]) + 1
      BY <2>1 DEF DirectoryThere, MadeInv
    <3>2. n[s] \in Nat /\ Len(DirectoryOf[s]) \in Nat
      BY TextAssumption, LenProperties DEF MadeInv
    <3> QED BY <3>1, <3>2
  <2> QED BY <2>1, <2>2 DEF DirectoryThere, Goto, Later
<1>2. ASSUME pc[Saver] \in Later PROVE Saver \in Shells /\ n[Saver] = Len(DirectoryOf[Saver]) + 1
  BY <1>2, TextAssumption DEF MadeInv, Later
<1>3. CASE WriteTextFile
  <2>1. pc[Saver] \in Later /\ dirs' = dirs /\ n' = n
    BY <1>3 DEF WriteTextFile, Later
  <2> QED BY <1>2, <1>3, <2>1 DEF WriteTextFile, Goto, Later
<1>4. CASE Read
  <2>1. dirs' = dirs /\ n' = n
    BY <1>4 DEF Read, FindKeyValue, KeyMissing, FindString, OpenArray, ReadElement, NextFingerprint
  <2>2. pc[Saver] \in Later
    BY <1>4 DEF Read, FindKeyValue, KeyMissing, FindString, OpenArray, ReadElement,
                NextFingerprint, Search, Later
  <2>3. pc' = pc \/ \E to \in Later : pc' = [pc EXCEPT ![Saver] = to]
    <3>1. CASE FindKeyValue
      BY <3>1, Zenon DEF FindKeyValue, Goto, Later
    <3>2. CASE KeyMissing
      BY <3>2 DEF KeyMissing, GoOn, Goto, Later
    <3>3. CASE FindString
      BY <3>3 DEF FindString, GoOn, Goto, Later
    <3>4. CASE OpenArray
      BY <3>4 DEF OpenArray, Goto, Later
    <3>5. CASE ReadElement
      BY <3>5, Zenon DEF ReadElement, Goto, Later
    <3>6. CASE NextFingerprint
      BY <3>6 DEF NextFingerprint, Goto, Later
    <3> QED BY <1>4, <3>1, <3>2, <3>3, <3>4, <3>5, <3>6 DEF Read
  <2> QED BY <1>2, <2>1, <2>2, <2>3
<1>5. CASE UNCHANGED vars
  BY <1>5 DEF vars
<1> QED BY <1>1, <1>3, <1>4, <1>5

LEMMA MadeStays == ASSUME MadeInv, [Next]_vars PROVE MadeInv'
<1>1. CASE \E s \in Shells : EnsureDirectory(s)
  BY <1>1, MadeByOne
<1>2. CASE (\E s \in Shells : DirectoryThere(s)) \/ WriteTextFile \/ Read \/ UNCHANGED vars
  <2>1. /\ dirs' = dirs /\ n' = n
        /\ \/ pc' = pc
           \/ \E s \in Shells, to \in Later :
                n[s] = Len(DirectoryOf[s]) + 1 /\ pc' = [pc EXCEPT ![s] = to]
    BY <1>2, OtherSteps
  <2>2. \A s \in Shells : PassedOver(s)'
    BY <2>1 DEF MadeInv, PassedOver
  <2>3. CASE pc' = pc
    BY <2>1, <2>2, <2>3 DEF MadeInv
  <2>4. CASE \E s \in Shells, to \in Later :
               n[s] = Len(DirectoryOf[s]) + 1 /\ pc' = [pc EXCEPT ![s] = to]
    <3>1. PICK s \in Shells, to \in Later :
               n[s] = Len(DirectoryOf[s]) + 1 /\ pc' = [pc EXCEPT ![s] = to]
      BY <2>4
    <3>2. pc'[s] = to /\ to # "failed" /\ \A u \in Shells \ {s} : pc'[u] = pc[u]
      BY <3>1 DEF MadeInv, Later
    <3>3. pc' \in [Shells -> {"mkdir", "made", "failed", "write", "search", "value", "items",
                              "report", "done"}]
      BY <3>1 DEF MadeInv, Later
    <3> QED BY <2>1, <2>2, <3>1, <3>2, <3>3 DEF MadeInv
  <2> QED BY <2>1, <2>3, <2>4
<1> QED BY <1>1, <1>2 DEF Next

\* Shells that create one tree at the same time do not disturb each other, whatever their
\* paths: none fails but for a directory that cannot be created, and the directory of
\* one that goes on is there (json.cpp:190-235).
THEOREM TreeShared == Spec => []DirectoriesShared
<1>1. MadeInv => DirectoriesShared
  <2> SUFFICES ASSUME MadeInv, NEW s \in Shells, pc[s] \notin {"mkdir", "failed"}
               PROVE  Above(DirectoryOf[s]) \subseteq dirs
    BY DEF MadeInv, DirectoriesShared
  <2>1. n[s] = Len(DirectoryOf[s]) + 1 /\ Len(DirectoryOf[s]) \in Nat
    BY TextAssumption, LenProperties DEF MadeInv
  <2>2. \A k \in 0..Len(DirectoryOf[s]) : k \in 0..n[s] - 1
    BY <2>1
  <2> QED BY <2>2 DEF MadeInv, PassedOver, Above
<1>2. MadeInv /\ [Next]_vars => MadeInv'
  BY MadeStays
<1> QED BY MadeAtFirst, <1>1, <1>2, PTL DEF Spec

(***************************************************************************)
(* The texts that are written are sequences of characters.                 *)
(***************************************************************************)
OneMore(seqs, f, k) == IF k = 1 THEN seqs[k] ELSE f[k - 1] \o seqs[k]

LEMMA FlattenExists ==
  ASSUME NEW seqs, NEW m \in Nat
  PROVE  \E f : f = [k \in 1..m |-> OneMore(seqs, f, k)]
<1> DEFINE S == {j \in Nat : \E f : f = [k \in 1..j |-> OneMore(seqs, f, k)]}
<1>1. 0 \in S
  <2> DEFINE f == [k \in 1..0 |-> 0]
  <2>1. f = [k \in 1..0 |-> OneMore(seqs, f, k)]
    OBVIOUS
  <2> HIDE DEF f
  <2> QED BY <2>1
<1>2. ASSUME NEW j \in Nat, j \in S PROVE j + 1 \in S
  <2>1. PICK f : f = [k \in 1..j |-> OneMore(seqs, f, k)]
    BY <1>2
  <2> DEFINE g == [k \in 1..j + 1 |-> IF k = j + 1 THEN OneMore(seqs, f, k) ELSE f[k]]
  <2>2. \A k \in 1..j + 1 : g[k] = OneMore(seqs, g, k)
    <3> TAKE k \in 1..j + 1
    <3>1. g[k] = OneMore(seqs, f, k)
      BY <2>1
    <3>2. k # 1 => k - 1 \in 1..j /\ g[k - 1] = f[k - 1]
      OBVIOUS
    <3> HIDE DEF g
    <3> QED BY <3>1, <3>2 DEF OneMore
  <2>3. g = [k \in 1..j + 1 |-> g[k]]
    OBVIOUS
  <2>4. g = [k \in 1..j + 1 |-> OneMore(seqs, g, k)]
    <3> HIDE DEF g
    <3> QED BY <2>2, <2>3
  <2> HIDE DEF g
  <2> QED BY <2>4
<1> HIDE DEF S
<1>3. Nat \subseteq S
  BY <1>1, <1>2, Induction
<1> QED BY <1>3 DEF S

LEMMA FlattenIs ==
  ASSUME NEW X, NEW seqs \in Seq(Seq(X))
  PROVE  \E flat : /\ flat = [k \in 1..Len(seqs) |-> OneMore(seqs, flat, k)]
                  /\ FlattenSeq(seqs) = IF Len(seqs) = 0 THEN <<>> ELSE flat[Len(seqs)]
<1>1. Len(seqs) \in Nat
  BY LenProperties
<1> DEFINE flat == CHOOSE f : f = [k \in 1..Len(seqs) |->
                     IF k = 1 THEN seqs[k] ELSE f[k - 1] \o seqs[k]]
<1>2. \E f : f = [k \in 1..Len(seqs) |-> IF k = 1 THEN seqs[k] ELSE f[k - 1] \o seqs[k]]
  BY <1>1, FlattenExists DEF OneMore
<1>3. flat = [k \in 1..Len(seqs) |-> IF k = 1 THEN seqs[k] ELSE flat[k - 1] \o seqs[k]]
  BY <1>2, Zenon
<1>4. FlattenSeq(seqs) = IF Len(seqs) = 0 THEN seqs ELSE flat[Len(seqs)]
  BY Zenon DEF FlattenSeq
<1> HIDE DEF flat
<1>5. Len(seqs) = 0 => seqs = <<>>
  BY EmptySeq
<1>6. flat = [k \in 1..Len(seqs) |-> OneMore(seqs, flat, k)]
  BY <1>3 DEF OneMore
<1> QED BY <1>4, <1>5, <1>6

LEMMA FlattenTyped ==
  ASSUME NEW X, NEW seqs \in Seq(Seq(X)) PROVE FlattenSeq(seqs) \in Seq(X)
<1>1. Len(seqs) \in Nat /\ \A k \in 1..Len(seqs) : seqs[k] \in Seq(X)
  BY LenProperties, ElementOfSeq
<1>2. PICK flat : /\ flat = [k \in 1..Len(seqs) |-> OneMore(seqs, flat, k)]
                  /\ FlattenSeq(seqs) = IF Len(seqs) = 0 THEN <<>> ELSE flat[Len(seqs)]
  BY FlattenIs
<1> DEFINE S == {k \in Nat : k + 1 \in 1..Len(seqs) => flat[k + 1] \in Seq(X)}
<1>3. 0 \in S
  BY <1>1, <1>2 DEF OneMore
<1>4. ASSUME NEW k \in Nat, k \in S PROVE k + 1 \in S
  <2> SUFFICES ASSUME (k + 1) + 1 \in 1..Len(seqs) PROVE flat[(k + 1) + 1] \in Seq(X)
    OBVIOUS
  <2>1. flat[k + 1] \in Seq(X) /\ seqs[(k + 1) + 1] \in Seq(X)
    BY <1>1, <1>4
  <2>2. flat[(k + 1) + 1] = flat[k + 1] \o seqs[(k + 1) + 1]
    <3>1. (k + 1) + 1 # 1 /\ ((k + 1) + 1) - 1 = k + 1
      OBVIOUS
    <3> QED BY <1>2, <3>1 DEF OneMore
  <2> QED BY <2>1, <2>2, ConcatProperties
<1> HIDE DEF S
<1>5. Nat \subseteq S
  BY <1>3, <1>4, Induction
<1>6. Len(seqs) # 0 => flat[Len(seqs)] \in Seq(X)
  <2>1. Len(seqs) # 0 => Len(seqs) - 1 \in S
    BY <1>1, <1>5
  <2> QED BY <1>1, <2>1 DEF S
<1> QED BY <1>2, <1>6, EmptySeq

\* The characters of a text; those that the writer and the reader name are listed, since
\* the provers do not know that a literal is a string.
Character ==
  STRING \cup {Quote, Backslash, Blank, Control, Surrogate, Replacement, "newline", "tab", "n", "t",
    "u", "0", "1", "f", "{", "}", "[", "]", ",", ":", "?", "end", "schema_version", "app", "allowed",
    "process", "import_names", "fingerprint", "items"}
Text == Seq(Character)

LEMMA StringIsText == Seq(STRING) \subseteq Text
  BY SeqMonotonic DEF Text, Character

LEMMA Concat == ASSUME NEW a \in Text, NEW b \in Text PROVE a \o b \in Text
  BY ConcatProperties DEF Text

LEMMA SmallTexts ==
  /\ <<>> \in Text
  /\ \A a \in Character : <<a>> \in Text
  /\ \A a, b \in Character : <<a, b>> \in Text
  /\ \A a, b, c, d, e, f \in Character : <<a, b, c, d, e, f>> \in Text
  /\ \A a, b, c, d, e \in Character : <<a, b, c, d, e>> \in Text
  BY DEF Text

LEMMA EscapeTyped == ASSUME NEW c \in Character PROVE EscapeChar(ToUtf8(c)) \in Text
<1>1. ToUtf8(c) \in Character
  BY DEF ToUtf8, Character
<1>2. \A u \in Character : EscapeChar(u) \in Text
  <2> TAKE u \in Character
  <2>1. u \in DOMAIN Named => Named[u] \in Character
    <3>1. "n" \in Character /\ "t" \in Character
      BY Zenon DEF Character
    <3>2. DOMAIN Named = {"newline", "tab"} /\ Named["newline"] = "n" /\ Named["tab"] = "t"
      BY DEF Named
    <3> QED BY <3>1, <3>2
  <2>2. /\ Backslash \in Character /\ "u" \in Character /\ "0" \in Character /\ "1" \in Character
        /\ "f" \in Character
    BY Zenon DEF Character
  <2>3. /\ <<Backslash, u>> \in Text /\ <<u>> \in Text
        /\ u \in DOMAIN Named => <<Backslash, Named[u]>> \in Text
        /\ <<Backslash, "u", "0", "0", "1", "f">> \in Text
    BY <2>1, <2>2, SmallTexts, Zenon
  <2> QED BY <2>3, Zenon DEF EscapeChar
<1> QED BY <1>1, <1>2

\* A function that gives a text for each member of a sequence, put together.
LEMMA FlattenTexts ==
  ASSUME NEW X, NEW s \in Seq(X), NEW f, f \in [DOMAIN s -> Text] PROVE FlattenSeq(f) \in Text
<1>1. DOMAIN s = 1..Len(s) /\ Len(s) \in Nat
  BY LenProperties
<1>2. f \in Seq(Text)
  BY <1>1, SeqDef
<1> QED BY <1>2, FlattenTyped DEF Text

LEMMA JsonStringTyped == ASSUME NEW s \in Text PROVE JsonString(s) \in Text
<1> DEFINE f == [k \in DOMAIN s |-> EscapeChar(ToUtf8(s[k]))]
<1>1. \A k \in DOMAIN s : s[k] \in Character
  BY LenProperties, ElementOfSeq DEF Text
<1>2. f \in [DOMAIN s -> Text]
  BY <1>1, EscapeTyped
<1>3. FlattenSeq(f) \in Text
  <2> HIDE DEF f
  <2> QED BY <1>2, FlattenTexts DEF Text
<1>4. Escape(s) \in Text
  BY <1>3, Zenon DEF Escape
<1> QED BY <1>4, Concat, SmallTexts DEF JsonString, Character

LEMMA KeyTyped == ASSUME NEW k \in Character PROVE Key(k) \in Text
  BY SmallTexts DEF Key, Character

LEMMA ElementsTyped ==
  ASSUME NEW X, NEW s \in Seq(X), NEW es, es \in [DOMAIN s -> Text] PROVE Elements(es) \in Text
<1> DEFINE f == [k \in DOMAIN es |-> <<Blank>> \o es[k] \o (IF k < Len(es) THEN <<",">> ELSE <<>>)]
<1>1. \A k \in DOMAIN s : <<Blank>> \o es[k] \o (IF k < Len(es) THEN <<",">> ELSE <<>>) \in Text
  <2> TAKE k \in DOMAIN s
  <2>1. <<Blank>> \in Text /\ es[k] \in Text /\ (IF k < Len(es) THEN <<",">> ELSE <<>>) \in Text
    BY SmallTexts DEF Character
  <2> QED BY <2>1, Concat
<1>2. f \in [DOMAIN s -> Text]
  BY <1>1
<1>3. FlattenSeq(f) \in Text
  <2> HIDE DEF f
  <2> QED BY <1>2, FlattenTexts
<1> QED BY <1>3, Zenon DEF Elements

LEMMA DocumentIs ==
  ASSUME NEW d \in Documents
  PROVE  /\ d.app \in Text /\ d.items \in Seq(Item)
         /\ Len(d.items) \in Nat /\ DOMAIN d.items = 1..Len(d.items)
         /\ \A k \in 1..Len(d.items) :
              d.items[k].process \in Text /\ d.items[k].fingerprint \in Text
<1>1. d.app \in Text /\ d.items \in Seq(Item)
  BY TextAssumption, StringIsText
<1>2. Len(d.items) \in Nat /\ DOMAIN d.items = 1..Len(d.items)
  BY <1>1, LenProperties
<1>3. ASSUME NEW k \in 1..Len(d.items)
      PROVE  d.items[k].process \in Text /\ d.items[k].fingerprint \in Text
  <2>1. d.items[k] \in Item
    BY <1>1, <1>2, ElementOfSeq
  <2>2. d.items[k].process \in Seq(STRING) /\ d.items[k].fingerprint \in Seq(STRING)
    BY <2>1 DEF Item
  <2> QED BY <2>2, StringIsText
<1> QED BY <1>1, <1>2, <1>3

\* The texts between the keys and strings of a document.
LEMMA BetweenTexts ==
  /\ <<"{">> \in Text /\ <<"1", ",">> \in Text /\ <<",">> \in Text /\ <<"[">> \in Text
  /\ <<"]", ",">> \in Text /\ <<Blank, "}">> \in Text /\ <<Blank, "]", Blank, "}", Blank>> \in Text
  /\ \A k \in {"schema_version", "app", "allowed", "process", "import_names", "fingerprint", "items"} :
       Key(k) \in Text /\ Len(Key(k)) = 6 /\ k \notin {Quote, Backslash, Blank, ":"}
<1>1. /\ "{" \in Character /\ "1" \in Character /\ "," \in Character /\ "[" \in Character
      /\ "]" \in Character /\ Blank \in Character /\ "}" \in Character
  BY Zenon DEF Character
<1>2. <<"{">> \in Text /\ <<",">> \in Text /\ <<"[">> \in Text
  BY <1>1, SmallTexts, Zenon
<1>3. <<"1", ",">> \in Text /\ <<"]", ",">> \in Text /\ <<Blank, "}">> \in Text
  BY <1>1, SmallTexts, Zenon
<1>4. <<Blank, "]", Blank, "}", Blank>> \in Text
  BY <1>1, SmallTexts, Zenon
<1>5. ASSUME NEW k \in {"schema_version", "app", "allowed", "process", "import_names", "fingerprint", "items"}
      PROVE  Key(k) \in Text /\ Len(Key(k)) = 6 /\ k \notin {Quote, Backslash, Blank, ":"}
  <2>1. k \in Character
    BY <1>5 DEF Character
  <2>2. Key(k) \in Text
    BY <2>1, KeyTyped
  <2>3. Len(Key(k)) = 6
    BY DEF Key
  <2>4. k \notin {Quote, Backslash, Blank, ":"}
    BY <1>5 DEF Quote, Backslash, Blank
  <2> QED BY <2>2, <2>3, <2>4
<1> QED BY <1>2, <1>3, <1>4, <1>5

LEMMA ItemTyped ==
  ASSUME NEW item, item.process \in Text, item.fingerprint \in Text PROVE ItemText(item) \in Text
<1>1. JsonString(item.process) \in Text /\ JsonString(item.fingerprint) \in Text
  BY JsonStringTyped
<1>2. /\ <<"{">> \in Text /\ <<",">> \in Text /\ <<"[">> \in Text
      /\ <<"]", ",">> \in Text /\ <<Blank, "}">> \in Text
      /\ Key("process") \in Text /\ Key("import_names") \in Text /\ Key("fingerprint") \in Text
  BY BetweenTexts, Zenon
<1>3. <<"{">> \o Key("process") \o JsonString(item.process) \o <<",">> \in Text
  BY <1>1, <1>2, Concat
<1>4. <<"{">> \o Key("process") \o JsonString(item.process) \o <<",">>
      \o Key("import_names") \o <<"[">> \o JsonString(item.process) \in Text
  BY <1>1, <1>2, <1>3, Concat
<1> QED BY <1>1, <1>2, <1>4, Concat DEF ItemText

LEMMA DocumentTyped == ASSUME NEW d \in Documents PROVE TextOf(d) \in Text
<1>1. d.app \in Text /\ d.items \in Seq(Item) /\ DOMAIN d.items = 1..Len(d.items)
  BY DocumentIs
<1>2. \A k \in DOMAIN d.items : d.items[k].process \in Text /\ d.items[k].fingerprint \in Text
  BY <1>1, DocumentIs
<1>3. <<"{">> \in Text /\ <<"1", ",">> \in Text /\ <<",">> \in Text /\ <<"[">> \in Text
      /\ <<"]", ",">> \in Text /\ <<Blank, "}">> \in Text /\ <<Blank, "]", Blank, "}", Blank>> \in Text
  BY BetweenTexts, Zenon
<1>4. /\ Key("schema_version") \in Text /\ Key("app") \in Text /\ Key("allowed") \in Text
      /\ Key("process") \in Text /\ Key("import_names") \in Text /\ Key("fingerprint") \in Text
      /\ Key("items") \in Text
  BY BetweenTexts, Zenon
<1>5. BaselineText(d) \in Text
  <2> DEFINE es == [k \in DOMAIN d.items |-> JsonString(d.items[k].fingerprint)]
  <2>1. es \in [DOMAIN d.items -> Text]
    BY <1>2, JsonStringTyped
  <2> HIDE DEF es
  <2>2. Elements(es) \in Text /\ JsonString(d.app) \in Text
    BY <1>1, <2>1, ElementsTyped, JsonStringTyped
  <2>3. <<"{">> \o Key("schema_version") \in Text
    BY <1>3, <1>4, Concat
  <2>4. <<"{">> \o Key("schema_version") \o <<"1", ",">> \o Key("app") \in Text
    BY <1>3, <1>4, <2>3, Concat
  <2>5. <<"{">> \o Key("schema_version") \o <<"1", ",">> \o Key("app") \o JsonString(d.app) \o <<",">> \in Text
    BY <1>3, <2>2, <2>4, Concat
  <2>6. <<"{">> \o Key("schema_version") \o <<"1", ",">> \o Key("app") \o JsonString(d.app) \o <<",">>
        \o Key("allowed") \o <<"[">> \o Elements(es) \in Text
    BY <1>3, <1>4, <2>2, <2>5, Concat
  <2> QED BY <1>3, <2>6, Concat DEF BaselineText, es
<1>6. ReportText(d) \in Text
  <2> DEFINE es == [k \in DOMAIN d.items |-> ItemText(d.items[k])]
  <2>1. es \in [DOMAIN d.items -> Text]
    BY <1>2, ItemTyped
  <2> HIDE DEF es
  <2>2. Elements(es) \in Text
    BY <1>1, <2>1, ElementsTyped
  <2>3. <<"{">> \o Key("items") \o <<"[">> \in Text
    BY <1>3, <1>4, Concat
  <2> QED BY <1>3, <2>2, <2>3, Concat DEF ReportText, es
<1> QED BY <1>5, <1>6 DEF TextOf

(***************************************************************************)
(* The reader of a string.  The recursive function that reads the rest of  *)
(* it goes forward, so that it has a value, and ends in the text.          *)
(***************************************************************************)
OneUnit(f, p) ==
  IF ~There(p) \/ Unit(p) = {} THEN Failed
  ELSE IF text[p] = Quote THEN [ok |-> TRUE, pos |-> p + 1, out |-> <<>>]
  ELSE LET u == CHOOSE x \in Unit(p) : TRUE
           r == f[p + u.size]
       IN  IF r.ok THEN [r EXCEPT !.out = <<u.out>> \o @] ELSE Failed

LEMMA UnitInside ==
  ASSUME Len(text) \in Nat, NEW p \in Int, There(p), NEW u \in Unit(p)
  PROVE  u.size \in Nat /\ u.size >= 1 /\ p + u.size <= Len(text) + 1
<1>1. CASE CharAt(p) # Backslash
  <2>1. u.size = 1
    BY <1>1 DEF Unit
  <2> QED BY <2>1 DEF There
<1>2. CASE CharAt(p) = Backslash /\ CharAt(p + 1) \in DOMAIN Unescaped
  <2>1. u.size = 2
    BY <1>2 DEF Unit
  <2>2. "end" \notin DOMAIN Unescaped
    BY DEF Unescaped, Quote, Backslash
  <2>3. There(p + 1)
    BY <1>2, <2>2, Zenon DEF CharAt
  <2> QED BY <2>1, <2>3 DEF There
<1>3. CASE CharAt(p) = Backslash /\ CharAt(p + 1) \notin DOMAIN Unescaped
  <2>1. u.size = 6 /\ There(p + 5)
    BY <1>3 DEF Unit
  <2> QED BY <2>1 DEF There
<1> QED BY <1>1, <1>2, <1>3

LEMMA RestExists ==
  ASSUME Len(text) \in Nat
  PROVE  \E f : f = [p \in 1..Len(text) + 1 |-> OneUnit(f, p)]
<1> DEFINE L == Len(text)
           From(j) == L + 1 - j .. L + 1
           S == {j \in Nat : \E f : f = [p \in From(j) |-> OneUnit(f, p)]}
<1>1. 0 \in S
  <2> DEFINE f == [p \in From(0) |-> Failed]
  <2>1. \A p \in From(0) : OneUnit(f, p) = Failed
    <3> HIDE DEF f
    <3> QED BY DEF OneUnit, There
  <2>2. f = [p \in From(0) |-> OneUnit(f, p)]
    BY <2>1
  <2> HIDE DEF f
  <2> QED BY <2>2
<1>2. ASSUME NEW j \in Nat, j \in S PROVE j + 1 \in S
  <2>1. PICK f : f = [p \in From(j) |-> OneUnit(f, p)]
    BY <1>2
  <2> DEFINE g == [p \in From(j + 1) |-> IF p = L + 1 - (j + 1) THEN OneUnit(f, p) ELSE f[p]]
  <2>2. \A p \in From(j) : g[p] = f[p]
    OBVIOUS
  <2>3. \A p \in From(j + 1) : OneUnit(f, p) = OneUnit(g, p)
    <3> TAKE p \in From(j + 1)
    <3> HIDE DEF g
    <3>1. CASE ~There(p) \/ Unit(p) = {}
      BY <3>1, Zenon DEF OneUnit
    <3>2. CASE There(p) /\ Unit(p) # {}
      <4> DEFINE u == CHOOSE x \in Unit(p) : TRUE
      <4>1. u \in Unit(p)
        BY <3>2, Zenon
      <4> HIDE DEF u
      <4>2. u.size \in Nat /\ u.size >= 1 /\ p + u.size <= L + 1
        BY <3>2, <4>1, UnitInside
      <4>3. p + u.size \in From(j)
        BY <4>2
      <4>4. g[p + u.size] = f[p + u.size]
        BY <2>2, <4>3
      <4> QED BY <4>4, Zenon DEF OneUnit, u
    <3> QED BY <3>1, <3>2
  <2>4. \A p \in From(j + 1) : g[p] = OneUnit(f, p)
    <3> TAKE p \in From(j + 1)
    <3>1. CASE p = L + 1 - (j + 1)
      BY <3>1
    <3>2. CASE p # L + 1 - (j + 1)
      <4>1. p \in From(j)
        BY <3>2
      <4>2. f[p] = OneUnit(f, p)
        <5> HIDE DEF From
        <5> QED BY <2>1, <4>1
      <4> QED BY <2>2, <4>1, <4>2
    <3> QED BY <3>1, <3>2
  <2>5. g = [p \in From(j + 1) |-> g[p]]
    OBVIOUS
  <2>6. g = [p \in From(j + 1) |-> OneUnit(g, p)]
    <3> HIDE DEF g, From
    <3> QED BY <2>3, <2>4, <2>5
  <2> HIDE DEF g, From
  <2> QED BY <2>6
<1>3. Nat \subseteq S
  <2> HIDE DEF S
  <2> QED BY <1>1, <1>2, Induction
<1>4. L \in S
  <2> HIDE DEF S
  <2> QED BY <1>3
<1>5. From(L) = 1..Len(text) + 1
  OBVIOUS
<1> HIDE DEF From, L
<1> QED BY <1>4, <1>5

Rest == CHOOSE f : f = [p \in 1..Len(text) + 1 |-> OneUnit(f, p)]

LEMMA RestIs ==
  ASSUME Len(text) \in Nat
  PROVE  /\ Rest = [p \in 1..Len(text) + 1 |-> OneUnit(Rest, p)]
         /\ \A start : ParseJsonString(start) =
              IF CharAt(SkipWs(start)) = Quote THEN Rest[SkipWs(start) + 1] ELSE Failed
<1>1. Rest = [p \in 1..Len(text) + 1 |-> OneUnit(Rest, p)]
  BY RestExists, Zenon DEF Rest
<1>2. \A start : ParseJsonString(start) =
        IF CharAt(SkipWs(start)) = Quote THEN Rest[SkipWs(start) + 1] ELSE Failed
  BY Zenon DEF ParseJsonString, Rest, OneUnit
<1> QED BY <1>1, <1>2

\* A string that is read ends in the text, behind its two quotes.
LEMMA StringInside ==
  ASSUME Len(text) \in Nat, NEW start \in 1..Len(text) + 1, ParseJsonString(start).ok
  PROVE  ParseJsonString(start).pos \in 3..Len(text) + 1
<1> DEFINE L == Len(text)
           rest == Rest
<1>1. rest = [p \in 1..Len(text) + 1 |-> OneUnit(rest, p)]
  BY RestIs
<1>2. ParseJsonString(start) = IF CharAt(SkipWs(start)) = Quote THEN rest[SkipWs(start) + 1] ELSE Failed
  BY RestIs, Zenon
<1> HIDE DEF rest
<1> DEFINE Read1(r) == r = Failed \/ \E q \in 3..L + 1 : \E o : r = [ok |-> TRUE, pos |-> q, out |-> o]
           S == {j \in Nat : \A k \in 0..j : L + 1 - k \in 2..L + 1 => Read1(rest[L + 1 - k])}
<1>3. \A p \in 2..L + 1 : rest[p] = OneUnit(rest, p)
  BY <1>1
<1>4. 0 \in S
  <2>1. ~There(L + 1)
    BY DEF There
  <2>2. L + 1 \in 2..L + 1 => rest[L + 1] = Failed
    BY <1>3, <2>1 DEF OneUnit
  <2> QED BY <2>2
<1>5. ASSUME NEW j \in Nat, j \in S PROVE j + 1 \in S
  <2> DEFINE p == L + 1 - (j + 1)
  <2> SUFFICES ASSUME p \in 2..L + 1 PROVE Read1(rest[p])
    <3>1. \A k \in 0..j + 1 : k \in 0..j \/ k = j + 1
      OBVIOUS
    <3> HIDE DEF Read1
    <3> QED BY <1>5, <3>1
  <2>1. \A q \in p + 1..L + 1 : Read1(rest[q])
    <3> TAKE q \in p + 1..L + 1
    <3>1. L + 1 - q \in 0..j /\ L + 1 - (L + 1 - q) = q /\ q \in 2..L + 1
      OBVIOUS
    <3> HIDE DEF Read1
    <3> QED BY <1>5, <3>1
  <2>2. rest[p] = OneUnit(rest, p)
    BY <1>3
  <2>3. There(p) /\ p + 1 \in 3..L + 1
    BY DEF There
  <2> HIDE DEF p
  <2>4. CASE Unit(p) = {}
    BY <2>2, <2>4, Zenon DEF OneUnit
  <2>5. CASE Unit(p) # {} /\ text[p] = Quote
    <3>1. rest[p] = [ok |-> TRUE, pos |-> p + 1, out |-> <<>>]
      BY <2>2, <2>3, <2>5 DEF OneUnit
    <3> QED BY <2>3, <3>1
  <2>6. CASE Unit(p) # {} /\ text[p] # Quote
    <3> DEFINE u == CHOOSE x \in Unit(p) : TRUE
               r == rest[p + u.size]
    <3>1. u \in Unit(p)
      BY <2>6, Zenon
    <3>2. rest[p] = IF r.ok THEN [r EXCEPT !.out = <<u.out>> \o @] ELSE Failed
      BY <2>2, <2>3, <2>6, Zenon DEF OneUnit
    <3> HIDE DEF u
    <3>3. u.size \in Nat /\ u.size >= 1 /\ p + u.size <= L + 1
      BY <2>3, <3>1, UnitInside DEF p
    <3>4. p + u.size \in p + 1..L + 1
      BY <3>3 DEF p
    <3>5. Read1(r)
      <4> HIDE DEF Read1
      <4> QED BY <2>1, <3>4
    <3> HIDE DEF r
    <3>6. CASE r = Failed
      BY <3>2, <3>6 DEF Failed
    <3>7. CASE r # Failed
      <4>1. PICK q \in 3..L + 1 : \E o : r = [ok |-> TRUE, pos |-> q, out |-> o]
        BY <3>5, <3>7
      <4>2. PICK o : r = [ok |-> TRUE, pos |-> q, out |-> o]
        BY <4>1
      <4>3. rest[p] = [ok |-> TRUE, pos |-> q, out |-> <<u.out>> \o o]
        BY <3>2, <4>2
      <4> QED BY <4>3
    <3> QED BY <3>6, <3>7
  <2> QED BY <2>4, <2>5, <2>6
<1>6. Nat \subseteq S
  <2> HIDE DEF S
  <2> QED BY <1>4, <1>5, Induction
<1>7. \A p \in 2..L + 1 : Read1(rest[p])
  <2> TAKE p \in 2..L + 1
  <2>1. L + 1 - p \in Nat /\ L + 1 - p \in 0..L + 1 - p /\ L + 1 - (L + 1 - p) = p
    OBVIOUS
  <2>2. L + 1 - p \in S
    <3> HIDE DEF S
    <3> QED BY <1>6, <2>1
  <2> HIDE DEF Read1
  <2> QED BY <2>1, <2>2
<1>8. CharAt(SkipWs(start)) = Quote /\ ParseJsonString(start) = rest[SkipWs(start) + 1]
  BY <1>2 DEF Failed
<1>9. SkipWs(start) + 1 \in 2..L + 1
  <2>1. There(SkipWs(start))
    BY <1>8 DEF CharAt, Quote
  <2>2. SkipWs(start) \in {start, start + 1}
    BY DEF SkipWs
  <2> QED BY <2>1, <2>2 DEF There
<1>10. Read1(ParseJsonString(start))
  <2> HIDE DEF Read1
  <2> QED BY <1>7, <1>8, <1>9
<1> QED BY <1>10 DEF Failed

(***************************************************************************)
(* Types.  The places that the reader keeps are in the text: a place moves *)
(* only behind a character that is there, a string that was read whole, or *)
(* a word that was found.                                                  *)
(***************************************************************************)
Early == {"mkdir", "failed", "made", "write"}

TextInv ==
  /\ doc \in Documents /\ text \in Text /\ IsPrefix(text, TextOf(doc))
  /\ key \in {"app", "allowed", "fingerprint"} /\ pos \in 1..Len(text) + 1 /\ mark \in 0..Len(text)
  /\ key = "fingerprint" => mark \in 1..Len(text) - 2
  /\ pc[Saver] \in Early => pos = 1 /\ mark = 0 /\ key = "app"

DirsInv == dirs \subseteq UNION {Above(DirectoryOf[s]) : s \in Shells}

LEMMA TypedAtFirst == Init => TextInv /\ DirsInv
<1> SUFFICES ASSUME Init PROVE TextInv /\ DirsInv
  OBVIOUS
<1>1. doc \in Documents /\ text = <<>> /\ pos = 1 /\ mark = 0 /\ key = "app" /\ dirs = {<<>>}
  BY DEF Init
<1>2. text \in Text /\ Len(text) = 0
  BY <1>1, SmallTexts
<1>3. IsPrefix(text, TextOf(doc))
  <2>1. TextOf(doc) \in Text /\ Len(TextOf(doc)) \in Nat
    BY <1>1, DocumentTyped, LenProperties DEF Text
  <2> DEFINE whole == TextOf(doc)
  <2> HIDE DEF whole
  <2>2. SubSeq(whole, 1, 0) = <<>>
    BY <2>1 DEF whole, Text
  <2> QED BY <1>1, <1>2, <2>1, <2>2 DEF IsPrefix, whole
<1>4. DirsInv
  <2>1. Saver \in Shells /\ DirectoryOf[Saver] \in Seq(STRING) /\ Len(DirectoryOf[Saver]) \in Nat
    BY TextAssumption, LenProperties
  <2>2. Directory(DirectoryOf[Saver], 0) = <<>>
    BY <2>1, DirectoryRecursion
  <2>3. <<>> \in Above(DirectoryOf[Saver])
    BY <2>1, <2>2 DEF Above
  <2> QED BY <1>1, <2>1, <2>3 DEF DirsInv
<1> QED BY <1>1, <1>2, <1>3, <1>4 DEF TextInv

LEMMA DirsStay == ASSUME MadeInv, DirsInv, [Next]_vars PROVE DirsInv'
<1>1. CASE \E s \in Shells : EnsureDirectory(s)
  <2>1. PICK s \in Shells : EnsureDirectory(s)
    BY <1>1
  <2> DEFINE d == Directory(DirectoryOf[s], n[s])
  <2>2. n[s] <= Len(DirectoryOf[s]) /\ dirs' \subseteq dirs \cup {d}
    BY <2>1, Zenon DEF EnsureDirectory
  <2>3. d \in Above(DirectoryOf[s])
    BY <2>2, TextAssumption, LenProperties DEF MadeInv, Above
  <2> HIDE DEF d
  <2> QED BY <2>2, <2>3 DEF DirsInv
<1>2. CASE (\E s \in Shells : DirectoryThere(s)) \/ WriteTextFile \/ Read \/ UNCHANGED vars
  BY <1>2, OtherSteps DEF DirsInv
<1> QED BY <1>1, <1>2 DEF Next

\* Behind a character that is there, and behind the blanks after it, the text goes on or ends.
LEMMA PlaceInside ==
  ASSUME Len(text) \in Nat, NEW p \in 1..Len(text) + 1
  PROVE  /\ SkipWs(p) \in 1..Len(text) + 1
         /\ CharAt(p) # "end" => p \in 1..Len(text)
<1>1. CharAt(p) # "end" => There(p)
  BY Zenon DEF CharAt
<1>2. CharAt(p) = Blank => p \in 1..Len(text)
  <2>1. Blank # "end"
    BY DEF Blank
  <2> QED BY <1>1, <2>1 DEF There
<1> QED BY <1>1, <1>2 DEF SkipWs, There

\* What a step of the reader does to the places.
LEMMA ReadInside ==
  ASSUME TextInv, MadeInv, Read
  PROVE  /\ doc' = doc /\ text' = text
         /\ key' \in {"app", "allowed", "fingerprint"} /\ pos' \in 1..Len(text) + 1
         /\ mark' \in 0..Len(text)
         /\ key' = "fingerprint" => mark' \in 1..Len(text) - 2
         /\ pc'[Saver] \notin Early
<1>1. /\ Len(text) \in Nat /\ pos \in 1..Len(text) + 1 /\ mark \in 0..Len(text)
      /\ key \in {"app", "allowed", "fingerprint"}
      /\ key = "fingerprint" => mark \in 1..Len(text) - 2
  BY LenProperties DEF TextInv, Text
<1>2. Saver \in Shells /\ \A to : Goto(Saver, to) => pc'[Saver] = to
  BY TextAssumption DEF MadeInv, Goto
<1>3. ASSUME GoOn, mark' = mark
      PROVE  /\ key' \in {"app", "allowed", "fingerprint"} /\ pos' \in 1..Len(text) + 1
             /\ mark' \in 0..Len(text)
             /\ key' = "fingerprint" => mark' \in 1..Len(text) - 2
             /\ pc'[Saver] \notin Early
  <2>1. pc'[Saver] \notin Early
    BY <1>2, <1>3 DEF GoOn, Early
  <2>2. CASE key = "app"
    <3>1. key' = "allowed" /\ pos' = 1
      BY <1>3, <2>2 DEF GoOn
    <3> QED BY <1>1, <1>3, <2>1, <3>1
  <2>3. CASE key # "app"
    <3>1. key' = key /\ pos' = IF key = "fingerprint" THEN mark + 3 ELSE pos
      BY <1>3, <2>3 DEF GoOn, BehindMark
    <3> QED BY <1>1, <1>3, <2>1, <3>1
  <2> QED BY <2>2, <2>3
<1>4. CASE FindKeyValue
  <2>1. doc' = doc /\ text' = text /\ key' = key /\ mark' = mark /\ Search
    BY <1>4 DEF FindKeyValue
  <2>2. PICK p \in NextQuote :
       LET string == ParseJsonString(p)
           colon == SkipWs(string.pos)
       IN
       /\ string.ok
       /\ \/ CharAt(colon) # ":" /\ pos' = Resume(p) /\ UNCHANGED pc
          \/ CharAt(colon) = ":" /\ string.out # <<key>> /\ pos' = colon + 1 /\ UNCHANGED pc
          \/ CharAt(colon) = ":" /\ string.out = <<key>> /\ pos' = SkipWs(colon + 1) /\ Goto(Saver, "value")
    BY <1>4, Zenon DEF FindKeyValue
  <2> DEFINE colon == SkipWs(ParseJsonString(p).pos)
  <2>3. p \in 1..Len(text)
    BY <1>1 DEF NextQuote
  <2>4. ParseJsonString(p).ok
    BY <2>2, Zenon
  <2>5. ParseJsonString(p).pos \in 1..Len(text) + 1
    BY <1>1, <2>3, <2>4, StringInside
  <2>6. colon \in 1..Len(text) + 1
    BY <1>1, <2>5, PlaceInside
  <2>7. \/ pos' = p + 1 /\ pc' = pc
        \/ CharAt(colon) = ":" /\ pos' = colon + 1 /\ pc' = pc
        \/ CharAt(colon) = ":" /\ pos' = SkipWs(colon + 1) /\ Goto(Saver, "value")
    BY <2>2, Zenon DEF Resume
  <2> HIDE DEF colon
  <2>8. CharAt(colon) = ":" => colon + 1 \in 1..Len(text) + 1
    BY <1>1, <2>6, PlaceInside
  <2>9. pos' \in 1..Len(text) + 1
    <3>1. p + 1 \in 1..Len(text) + 1
      BY <1>1, <2>3
    <3>2. CharAt(colon) = ":" => SkipWs(colon + 1) \in 1..Len(text) + 1
      BY <1>1, <2>8, PlaceInside, Zenon
    <3> QED BY <2>7, <2>8, <3>1, <3>2, Zenon
  <2>10. pc'[Saver] \notin Early
    BY <1>2, <2>1, <2>7 DEF Search, Early
  <2> QED BY <1>1, <2>1, <2>9, <2>10
<1>5. CASE KeyMissing
  BY <1>3, <1>5 DEF KeyMissing
<1>6. CASE FindString
  BY <1>3, <1>6 DEF FindString
<1>7. CASE OpenArray
  <2>1. doc' = doc /\ text' = text /\ key' = key /\ mark' = mark
    BY <1>7 DEF OpenArray
  <2>2. CASE CharAt(pos) = "["
    <3>1. pos' = pos + 1 /\ pc'[Saver] = "items"
      BY <1>2, <1>7, <2>2 DEF OpenArray
    <3>2. pos \in 1..Len(text)
      BY <1>1, <2>2, PlaceInside
    <3> QED BY <1>1, <2>1, <3>1, <3>2 DEF Early
  <2>3. CASE CharAt(pos) # "["
    BY <1>1, <1>2, <1>7, <2>1, <2>3 DEF OpenArray, Early
  <2> QED BY <2>2, <2>3
<1>8. CASE ReadElement
  <2>1. doc' = doc /\ text' = text /\ key' = key /\ mark' = mark /\ pc[Saver] = "items"
    BY <1>8 DEF ReadElement
  <2> DEFINE at == SkipWs(pos)
             string == ParseJsonString(at)
             behind == SkipWs(string.pos)
  <2>2. \/ pos' = pos /\ Goto(Saver, "done")
        \/ /\ string.ok /\ CharAt(behind) \in {",", "]"} /\ pos' = behind + 1
           /\ pc' = pc \/ Goto(Saver, "done")
    BY <1>8, Zenon DEF ReadElement
  <2>3. pc'[Saver] \notin Early
    BY <1>2, <2>1, <2>2 DEF Early
  <2>4. CASE pos' = pos
    BY <1>1, <2>1, <2>3, <2>4
  <2>5. CASE string.ok /\ CharAt(behind) \in {",", "]"} /\ pos' = behind + 1
    <3>1. at \in 1..Len(text) + 1
      BY <1>1, PlaceInside
    <3> HIDE DEF at
    <3>2. string.pos \in 1..Len(text) + 1
      <4>1. ParseJsonString(at).ok
        BY <2>5
      <4> QED BY <1>1, <3>1, <4>1, StringInside
    <3>3. behind \in 1..Len(text) + 1
      BY <1>1, <3>2, PlaceInside
    <3> HIDE DEF behind
    <3>4. behind \in 1..Len(text)
      BY <1>1, <2>5, <3>3, PlaceInside
    <3>5. pos' \in 1..Len(text) + 1
      <4>1. pos' = behind + 1
        BY <2>5, Zenon
      <4> QED BY <1>1, <3>4, <4>1
    <3> QED BY <1>1, <2>1, <2>3, <3>5
  <2> QED BY <2>2, <2>4, <2>5
<1>9. CASE NextFingerprint
  <2>1. doc' = doc /\ text' = text
    BY <1>9 DEF NextFingerprint
  <2>2. CASE Marks = {}
    <3>1. Goto(Saver, "done") /\ key' = key /\ pos' = pos /\ mark' = mark
      BY <1>9, <2>2 DEF NextFingerprint
    <3> QED BY <1>1, <1>2, <2>1, <3>1 DEF Early
  <2>3. CASE Marks # {}
    <3>1. /\ \E p \in Marks : mark' = p /\ pos' = p
          /\ key' = "fingerprint" /\ Goto(Saver, "search")
      BY <1>9, <2>3, Zenon DEF NextFingerprint
    <3>2. mark' \in 1..Len(text) - 2 /\ pos' = mark'
      BY <1>1, <3>1 DEF Marks
    <3> QED BY <1>1, <1>2, <2>1, <3>1, <3>2 DEF Early
  <2> QED BY <2>2, <2>3
<1> QED BY <1>4, <1>5, <1>6, <1>7, <1>8, <1>9 DEF Read, FindKeyValue, KeyMissing, FindString

LEMMA TextStays == ASSUME MadeInv, TextInv, [Next]_vars PROVE TextInv'
<1>1. Saver \in Shells /\ pc \in [Shells -> {"mkdir", "made", "failed", "write", "search", "value",
                                             "items", "report", "done"}]
  BY TextAssumption DEF MadeInv
<1>2. CASE (\E s \in Shells : EnsureDirectory(s) \/ DirectoryThere(s)) \/ UNCHANGED vars
  <2>1. doc' = doc /\ text' = text /\ reader' = reader
    BY <1>2 DEF EnsureDirectory, DirectoryThere, vars, reader
  <2>2. pc'[Saver] = pc[Saver] \/ pc[Saver] \in Early
    <3>1. CASE \E s \in Shells : EnsureDirectory(s)
      <4>1. PICK s \in Shells : EnsureDirectory(s)
        BY <3>1
      <4>2. pc[s] = "mkdir" /\ (pc' = pc \/ Goto(s, "failed"))
        BY <4>1, Zenon DEF EnsureDirectory
      <4> QED BY <1>1, <4>2 DEF Goto, Early
    <3>2. CASE \E s \in Shells : DirectoryThere(s)
      BY <1>1, <3>2 DEF DirectoryThere, Goto, Early
    <3>3. CASE UNCHANGED vars
      BY <3>3 DEF vars
    <3> QED BY <1>2, <3>1, <3>2, <3>3
  <2> QED BY <2>1, <2>2 DEF TextInv, reader
<1>3. CASE WriteTextFile
  <2> DEFINE whole == TextOf(doc)
  <2>1. /\ pc[Saver] = "write" /\ doc' = doc /\ reader' = reader
        /\ \E k \in 0..Len(whole) : text' = SubSeq(whole, 1, k)
    BY <1>3, Zenon DEF WriteTextFile
  <2>2. key' = "app" /\ pos' = 1 /\ mark' = 0
    BY <2>1 DEF TextInv, Early, reader
  <2>3. whole \in Text
    BY DocumentTyped DEF TextInv
  <2> HIDE DEF whole
  <2>4. PICK k \in 0..Len(whole) : text' = SubSeq(whole, 1, k)
    BY <2>1
  <2>5. whole \in Seq(Character) /\ Len(whole) \in Nat
    BY <2>3, LenProperties DEF Text
  <2>6. text' \in Seq(Character) /\ Len(text') = k
    BY <2>4, <2>5
  <2>7. SubSeq(text', 1, k) = text'
    BY <2>6
  <2>8. IsPrefix(text', whole)
    BY <2>4, <2>5, <2>6, <2>7 DEF IsPrefix
  <2>9. TextOf(doc') = whole
    BY <2>1 DEF whole
  <2> QED BY <2>1, <2>2, <2>6, <2>8, <2>9 DEF TextInv, Text
<1>4. CASE Read
  BY <1>4, ReadInside DEF TextInv
<1> QED BY <1>2, <1>3, <1>4 DEF Next

\* The type of every variable, whatever the documents and the paths: only directories of a
\* path are made, and the reader stays in the text, or right behind it, wherever the
\* text was cut off (json.cpp:69-94, 190-235, 257-285, main.cpp:120-130).
THEOREM TypeCorrect == Spec => []TypeOK
<1>1. Init => MadeInv /\ TextInv /\ DirsInv
  BY MadeAtFirst, TypedAtFirst
<1>2. MadeInv /\ TextInv /\ DirsInv /\ [Next]_vars => (MadeInv /\ TextInv /\ DirsInv)'
  BY MadeStays, TextStays, DirsStay
<1>3. MadeInv /\ TextInv /\ DirsInv => TypeOK
  BY DEF MadeInv, TextInv, DirsInv, TypeOK
<1> QED BY <1>1, <1>2, <1>3, PTL DEF Spec
=============================================================================
