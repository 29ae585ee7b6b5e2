---------------------------- MODULE StorageProofs ----------------------------
(***************************************************************************)
(* For any dinos, folders, commands and sessions: the two threads exclude  *)
(* each other once the mutex exists, the table follows the map exactly by  *)
(* what is queued, and a session that ends or dies leaves the folders of   *)
(* one moment.                                                             *)
(***************************************************************************)
EXTENDS Storage, ProofFacts

-----------------------------------------------------------------------------
(* The folds: what they go through, one value for each prefix of the list.  *)

\* What Without has kept of the first k rows.
KeptPath(rows, folder, p) ==
  /\ p[0] = << >>
  /\ \A k \in 1 .. Len(rows) :
       p[k] = IF rows[k] = folder THEN p[k - 1] ELSE Append(p[k - 1], rows[k])

\* Every list of rows has such a path.
LEMMA KeptPathExists ==
  ASSUME NEW rows \in Seq(Folder), NEW folder
  PROVE  \E p \in [0 .. Len(rows) -> Seq(Folder)] : KeptPath(rows, folder, p)
<1> DEFINE G == [tr \in Seq(Folder) \X Folder |->
                   IF tr[2] = folder THEN tr[1] ELSE Append(tr[1], tr[2])]
<1>1. G \in [Seq(Folder) \X Folder -> Seq(Folder)]
  BY AppendProperties
<1>2. << >> \in Seq(Folder) /\ \A k \in 1 .. Len(rows) : rows[k] \in Folder
  BY EmptySeq, ElementOfSeq
<1>3. PICK p \in [0 .. Len(rows) -> Seq(Folder)] : Path(G, << >>, rows, p)
  <2> HIDE DEF G
  <2> QED
    BY <1>1, <1>2, PathExists
<1>4. ASSUME NEW k \in 1 .. Len(rows)
      PROVE  p[k] = IF rows[k] = folder THEN p[k - 1] ELSE Append(p[k - 1], rows[k])
  <2>1. k - 1 \in 0 .. Len(rows)
    BY LenProperties
  <2>2. <<p[k - 1], rows[k]>> \in Seq(Folder) \X Folder
    BY <1>2, <2>1
  <2> QED
    BY <1>3, <2>2 DEF Path
<1> QED
  BY <1>3, <1>4 DEF KeptPath, Path

\* Without returns the last value of the path.
LEMMA WithoutIsPath ==
  ASSUME NEW rows \in Seq(Folder), NEW folder,
         NEW p \in [0 .. Len(rows) -> Seq(Folder)], KeptPath(rows, folder, p)
  PROVE  Without(rows, folder) = p[Len(rows)]
<1> DEFINE G == [tr \in Seq(Folder) \X Folder |->
                   IF tr[2] = folder THEN tr[1] ELSE Append(tr[1], tr[2])]
           Step(iter, s) == IF s = {} THEN << >>
                            ELSE IF rows[Greatest(s)] = folder THEN iter[s \ {Greatest(s)}]
                            ELSE Append(iter[s \ {Greatest(s)}], rows[Greatest(s)])
           F == CHOOSE iter : iter = [s \in SUBSET (DOMAIN rows) |-> Step(iter, s)]
<1>1. DOMAIN rows = 1 .. Len(rows) /\ Len(rows) \in Nat
      /\ \A k \in 1 .. Len(rows) : rows[k] \in Folder
  BY LenProperties, ElementOfSeq
<1>2. Without(rows, folder) = F[DOMAIN rows]
  BY Zenon DEF Without, FoldLeft, MapThenFoldSet, Max, Greatest
<1>3. \E f : f = [s \in SUBSET (DOMAIN rows) |-> Step(f, s)]
  <2>1. G \in [Seq(Folder) \X Folder -> Seq(Folder)] /\ << >> \in Seq(Folder)
    BY AppendProperties, EmptySeq
  <2>2. PICK f \in [SUBSET (1 .. Len(rows)) -> Seq(Folder)] :
          Folds(G, << >>, rows, Len(rows), f)
    <3> HIDE DEF G
    <3> QED
      BY <2>1, FoldExists
  <2>3. ASSUME NEW s \in SUBSET (1 .. Len(rows)) PROVE f[s] = Step(f, s)
    <3>1. CASE s = {}
      BY <2>2, <3>1 DEF Folds
    <3>2. CASE s # {}
      <4>1. Greatest(s) \in 1 .. Len(rows) /\ s \ {Greatest(s)} \in SUBSET (1 .. Len(rows))
        BY <1>1, <3>2, GreatestOf
      <4>2. <<f[s \ {Greatest(s)}], rows[Greatest(s)]>> \in Seq(Folder) \X Folder
        BY <1>1, <4>1
      <4>3. f[s] = G[<<f[s \ {Greatest(s)}], rows[Greatest(s)]>>]
        BY <2>2, <3>2 DEF Folds
      <4> QED
        BY <3>2, <4>2, <4>3
    <3> QED
      BY <3>1, <3>2
  <2>4. f = [s \in SUBSET (DOMAIN rows) |-> Step(f, s)]
    <3> HIDE DEF Step
    <3> QED
      BY <1>1, <2>3
  <2> QED
    BY <2>4
<1>4. F = [s \in SUBSET (DOMAIN rows) |-> Step(F, s)]
  <2> HIDE DEF Step
  <2> QED
    BY <1>3
<1>5. \A s \in SUBSET (1 .. Len(rows)) : F[s] = Step(F, s)
  <2> HIDE DEF Step, F
  <2> QED
    BY <1>1, <1>4
<1>6. F[{}] = p[0]
  <2>1. F[{}] = Step(F, {})
    BY <1>5
  <2> HIDE DEF F
  <2> QED
    BY <2>1 DEF KeptPath
<1>7. ASSUME NEW k \in 1 .. Len(rows), F[1 .. (k - 1)] = p[k - 1]
      PROVE  F[1 .. k] = p[k]
  <2>1. Greatest(1 .. k) = k /\ (1 .. k) \ {k} = 1 .. (k - 1) /\ 1 .. k # {}
    BY <1>1, GreatestUpTo
  <2>2. F[1 .. k] = Step(F, 1 .. k)
    <3> HIDE DEF F, Step
    <3> QED
      BY <1>1, <1>5
  <2> HIDE DEF F
  <2>3. F[1 .. k] = IF rows[k] = folder THEN F[1 .. (k - 1)]
                    ELSE Append(F[1 .. (k - 1)], rows[k])
    BY <2>1, <2>2
  <2> QED
    BY <1>7, <2>3 DEF KeptPath
<1>8. F[1 .. Len(rows)] = p[Len(rows)]
  <2> HIDE DEF F
  <2>1. Follows(F, p, Len(rows))
    BY <1>6, <1>7 DEF Follows
  <2>2. Len(rows) \in Nat
    BY <1>1
  <2> QED
    BY ONLY <2>1, <2>2, FoldIsPath
<1> QED
  BY <1>1, <1>2, <1>8

\* Without returns folders.
LEMMA WithoutType ==
  ASSUME NEW rows \in Seq(Folder), NEW folder
  PROVE  Without(rows, folder) \in Seq(Folder)
<1>1. PICK p \in [0 .. Len(rows) -> Seq(Folder)] : KeptPath(rows, folder, p)
  BY KeptPathExists
<1>2. Without(rows, folder) = p[Len(rows)] /\ Len(rows) \in 0 .. Len(rows)
  BY <1>1, WithoutIsPath, LenProperties
<1> QED
  BY <1>2

\* A command leaves a table.
LEMMA WriteType ==
  ASSUME NEW table \in Table, NEW c \in Command
  PROVE  Write2Storage(table, c) \in Table
<1>1. c.did \in Dino /\ c.op \in {"AddFolder", "DelFolder", "DinoDie"}
      /\ (c.op # "DinoDie" => c.folder \in Folder) /\ table[c.did] \in Seq(Folder)
  BY DEF Command, Table
<1> DEFINE rows == table[c.did]
           new == CASE c.op = "AddFolder" -> Append(rows, c.folder)
                    [] c.op = "DelFolder" -> Without(rows, c.folder)
                    [] c.op = "DinoDie" -> << >>
<1>2. new \in Seq(Folder)
  <2>1. CASE c.op = "AddFolder"
    BY <1>1, <2>1, AppendProperties
  <2>2. CASE c.op = "DelFolder"
    BY <1>1, <2>2, WithoutType
  <2>3. CASE c.op = "DinoDie"
    BY <2>3, EmptySeq
  <2> QED
    BY <1>1, <2>1, <2>2, <2>3
<1>3. Write2Storage(table, c) = [table EXCEPT ![c.did] = new]
  BY DEF Write2Storage
<1> HIDE DEF new
<1> QED
  BY <1>2, <1>3 DEF Table

\* The tables that the commands of a list lead to, one after another.
ReplayPath(table, list, p) ==
  /\ p[0] = table
  /\ \A k \in 1 .. Len(list) : p[k] = Write2Storage(p[k - 1], list[k])

\* Every list of commands has such a path.
LEMMA ReplayPathExists ==
  ASSUME NEW table \in Table, NEW list \in Seq(Command)
  PROVE  \E p \in [0 .. Len(list) -> Table] : ReplayPath(table, list, p)
<1> DEFINE G == [tc \in Table \X Command |-> Write2Storage(tc[1], tc[2])]
<1>1. G \in [Table \X Command -> Table]
  BY WriteType
<1>2. PICK p \in [0 .. Len(list) -> Table] : Path(G, table, list, p)
  <2> HIDE DEF G
  <2> QED
    BY <1>1, PathExists
<1>3. ASSUME NEW k \in 1 .. Len(list) PROVE p[k] = Write2Storage(p[k - 1], list[k])
  <2>1. k - 1 \in 0 .. Len(list) /\ list[k] \in Command
    BY LenProperties, ElementOfSeq
  <2>2. <<p[k - 1], list[k]>> \in Table \X Command
    BY <2>1
  <2> QED
    BY <1>2, <2>2 DEF Path
<1> QED
  BY <1>2, <1>3 DEF Path, ReplayPath

\* Replay returns the last table of the path.
LEMMA ReplayIsPath ==
  ASSUME NEW table \in Table, NEW list \in Seq(Command),
         NEW p \in [0 .. Len(list) -> Table], ReplayPath(table, list, p)
  PROVE  Replay(table, list) = p[Len(list)]
<1> DEFINE G == [tc \in Table \X Command |-> Write2Storage(tc[1], tc[2])]
           Step(iter, s) == IF s = {} THEN table
                            ELSE Write2Storage(iter[s \ {Greatest(s)}], list[Greatest(s)])
           F == CHOOSE iter : iter = [s \in SUBSET (DOMAIN list) |-> Step(iter, s)]
<1>1. DOMAIN list = 1 .. Len(list) /\ Len(list) \in Nat
      /\ \A k \in 1 .. Len(list) : list[k] \in Command
  BY LenProperties, ElementOfSeq
<1>2. Replay(table, list) = F[DOMAIN list]
  BY Zenon DEF Replay, FoldLeft, MapThenFoldSet, Max, Greatest
<1>3. \E f : f = [s \in SUBSET (DOMAIN list) |-> Step(f, s)]
  <2>1. G \in [Table \X Command -> Table]
    BY WriteType
  <2>2. PICK f \in [SUBSET (1 .. Len(list)) -> Table] : Folds(G, table, list, Len(list), f)
    <3> HIDE DEF G
    <3> QED
      BY <2>1, FoldExists
  <2>3. ASSUME NEW s \in SUBSET (1 .. Len(list)) PROVE f[s] = Step(f, s)
    <3>1. CASE s = {}
      BY <2>2, <3>1 DEF Folds
    <3>2. CASE s # {}
      <4>1. Greatest(s) \in 1 .. Len(list) /\ s \ {Greatest(s)} \in SUBSET (1 .. Len(list))
        BY <1>1, <3>2, GreatestOf
      <4>2. <<f[s \ {Greatest(s)}], list[Greatest(s)]>> \in Table \X Command
        BY <1>1, <4>1
      <4>3. f[s] = G[<<f[s \ {Greatest(s)}], list[Greatest(s)]>>]
        BY <2>2, <3>2 DEF Folds
      <4> QED
        BY <3>2, <4>2, <4>3
    <3> QED
      BY <3>1, <3>2
  <2>4. f = [s \in SUBSET (DOMAIN list) |-> Step(f, s)]
    <3> HIDE DEF Step
    <3> QED
      BY <1>1, <2>3
  <2> QED
    BY <2>4
<1>4. F = [s \in SUBSET (DOMAIN list) |-> Step(F, s)]
  <2> HIDE DEF Step
  <2> QED
    BY <1>3
<1>5. \A s \in SUBSET (1 .. Len(list)) : F[s] = Step(F, s)
  <2> HIDE DEF Step, F
  <2> QED
    BY <1>1, <1>4
<1>6. F[{}] = p[0]
  <2>1. F[{}] = Step(F, {})
    BY <1>5
  <2> HIDE DEF F
  <2> QED
    BY <2>1 DEF ReplayPath
<1>7. ASSUME NEW k \in 1 .. Len(list), F[1 .. (k - 1)] = p[k - 1]
      PROVE  F[1 .. k] = p[k]
  <2>1. Greatest(1 .. k) = k /\ (1 .. k) \ {k} = 1 .. (k - 1) /\ 1 .. k # {}
    BY <1>1, GreatestUpTo
  <2>2. F[1 .. k] = Step(F, 1 .. k)
    <3> HIDE DEF F, Step
    <3> QED
      BY <1>1, <1>5
  <2> HIDE DEF F
  <2>3. F[1 .. k] = Write2Storage(F[1 .. (k - 1)], list[k])
    BY <2>1, <2>2
  <2> QED
    BY <1>7, <2>3 DEF ReplayPath
<1>8. F[1 .. Len(list)] = p[Len(list)]
  <2> HIDE DEF F
  <2>1. Follows(F, p, Len(list))
    BY <1>6, <1>7 DEF Follows
  <2>2. Len(list) \in Nat
    BY <1>1
  <2> QED
    BY ONLY <2>1, <2>2, FoldIsPath
<1> QED
  BY <1>1, <1>2, <1>8

-----------------------------------------------------------------------------
(* What the proofs use of Replay.                                           *)

\* No commands leave the table as it is.
LEMMA ReplayNone ==
  ASSUME NEW table \in Table
  PROVE  Replay(table, << >>) = table
<1>1. << >> \in Seq(Command) /\ Len(<< >>) = 0
  BY EmptySeq
<1>2. PICK p \in [0 .. Len(<< >>) -> Table] : ReplayPath(table, << >>, p)
  BY <1>1, ReplayPathExists
<1>3. Replay(table, << >>) = p[Len(<< >>)]
  BY <1>1, <1>2, ReplayIsPath
<1> QED
  BY <1>1, <1>2, <1>3 DEF ReplayPath

\* One more command, at the end.
LEMMA ReplayAppend ==
  ASSUME NEW table \in Table, NEW list \in Seq(Command), NEW c \in Command
  PROVE  /\ Replay(table, list) \in Table
         /\ Replay(table, Append(list, c)) = Write2Storage(Replay(table, list), c)
<1>1. PICK p \in [0 .. Len(list) -> Table] : ReplayPath(table, list, p)
  BY ReplayPathExists
<1>2. Replay(table, list) = p[Len(list)] /\ Len(list) \in Nat
  BY <1>1, ReplayIsPath, LenProperties
<1>3. /\ Append(list, c) \in Seq(Command) /\ Len(Append(list, c)) = Len(list) + 1
      /\ Append(list, c)[Len(list) + 1] = c
      /\ \A k \in 1 .. Len(list) : Append(list, c)[k] = list[k]
  BY AppendProperties
<1>4. Replay(table, list) \in Table
  BY <1>2
<1> DEFINE q == [k \in 0 .. Len(list) + 1 |->
                   IF k = Len(list) + 1 THEN Write2Storage(p[Len(list)], c) ELSE p[k]]
<1>5. q \in [0 .. Len(list) + 1 -> Table]
  BY <1>2, <1>4, WriteType
<1>6. ReplayPath(table, Append(list, c), q)
  <2>1. q[0] = table
    BY <1>1, <1>2 DEF ReplayPath
  <2>2. ASSUME NEW k \in 1 .. Len(list) + 1
        PROVE  q[k] = Write2Storage(q[k - 1], Append(list, c)[k])
    <3>1. CASE k = Len(list) + 1
      <4>1. q[k] = Write2Storage(p[Len(list)], c) /\ q[k - 1] = p[Len(list)]
        BY <1>2, <3>1
      <4> QED
        BY <1>3, <3>1, <4>1
    <3>2. CASE k # Len(list) + 1
      <4>1. k \in 1 .. Len(list) /\ q[k] = p[k] /\ q[k - 1] = p[k - 1]
        BY <1>2, <3>2
      <4> QED
        BY <1>1, <1>3, <4>1 DEF ReplayPath
    <3> QED
      BY <3>1, <3>2
  <2> HIDE DEF q
  <2> QED
    BY <1>3, <2>1, <2>2 DEF ReplayPath
<1>7. Replay(table, Append(list, c)) = q[Len(list) + 1]
  <2> HIDE DEF q
  <2> QED
    BY <1>3, <1>5, <1>6, ReplayIsPath
<1> QED
  BY <1>2, <1>4, <1>7

\* The first command, carried out.
LEMMA ReplayHead ==
  ASSUME NEW table \in Table, NEW list \in Seq(Command), list # << >>
  PROVE  /\ Write2Storage(table, Head(list)) \in Table
         /\ Replay(Write2Storage(table, Head(list)), Tail(list)) = Replay(table, list)
<1>1. PICK p \in [0 .. Len(list) -> Table] : ReplayPath(table, list, p)
  BY ReplayPathExists
<1>2. /\ Len(list) \in Nat \ {0} /\ Head(list) = list[1] /\ Head(list) \in Command
      /\ Tail(list) \in Seq(Command) /\ Len(Tail(list)) = Len(list) - 1
      /\ \A k \in 1 .. Len(list) - 1 : Tail(list)[k] = list[k + 1]
  BY HeadTailProperties, LenProperties, EmptySeq
<1>3. Write2Storage(table, Head(list)) \in Table
  BY <1>2, WriteType
<1> DEFINE q == [k \in 0 .. Len(list) - 1 |-> p[k + 1]]
<1>4. q \in [0 .. Len(list) - 1 -> Table]
  BY <1>2
<1>5. ReplayPath(Write2Storage(table, Head(list)), Tail(list), q)
  <2>1. q[0] = Write2Storage(table, Head(list))
    <3>1. p[1] = Write2Storage(p[0], list[1]) /\ p[0] = table
      BY <1>1, <1>2 DEF ReplayPath
    <3> QED
      BY <1>2, <3>1
  <2>2. ASSUME NEW k \in 1 .. Len(list) - 1
        PROVE  q[k] = Write2Storage(q[k - 1], Tail(list)[k])
    <3>1. k + 1 \in 1 .. Len(list) /\ k + 1 - 1 = k
      BY <1>2
    <3>2. p[k + 1] = Write2Storage(p[k], list[k + 1])
      BY <1>1, <3>1 DEF ReplayPath
    <3>3. q[k] = p[k + 1] /\ q[k - 1] = p[k]
      BY <1>2
    <3> QED
      BY <1>2, <3>2, <3>3
  <2> HIDE DEF q
  <2> QED
    BY <1>2, <2>1, <2>2 DEF ReplayPath
<1>6. Replay(Write2Storage(table, Head(list)), Tail(list)) = q[Len(list) - 1]
  <2> HIDE DEF q
  <2> QED
    BY <1>2, <1>3, <1>4, <1>5, ReplayIsPath
<1>7. Replay(table, list) = p[Len(list)]
  BY <1>1, ReplayIsPath
<1> QED
  BY <1>2, <1>3, <1>6, <1>7

-----------------------------------------------------------------------------
(* The two deletions.                                                       *)

\* Of a folder that is there the map loses the first entry.
LEMMA FirstRemoved ==
  ASSUME NEW t \in Seq(Folder), NEW folder, Contains(t, folder)
  PROVE  \E r \in 1 .. Len(t) :
           /\ t[r] = folder
           /\ RemoveFirst(t, folder) \in Seq(Folder)
           /\ Len(RemoveFirst(t, folder)) = Len(t) - 1
           /\ \A j \in 1 .. Len(t) - 1 :
                RemoveFirst(t, folder)[j] = IF j < r THEN t[j] ELSE t[j + 1]
<1> DEFINE I == {i \in 1 .. Len(t) : t[i] = folder}
           r == Min(I)
           a == SubSeq(t, 1, r - 1)
           b == SubSeq(t, r + 1, Len(t))
<1>1. Len(t) \in Nat /\ \A i \in 1 .. Len(t) : t[i] \in Folder
  BY LenProperties, ElementOfSeq
<1>2. I # {} /\ I \in SUBSET Nat
  BY DEF Contains
<1>3. r \in I
  <2>1. \E m \in I : \A k \in I : m <= k
    <3> HIDE DEF I
    <3> QED
      BY <1>2, Smallest
  <2> HIDE DEF I
  <2> QED
    BY <2>1 DEF Min
<1>4. RemoveFirst(t, folder) = a \o b
  BY <1>2 DEF RemoveFirst, RemoveAt, SelectInSeq
<1> HIDE DEF r
<1>5. r \in 1 .. Len(t) /\ t[r] = folder
  BY <1>3
<1>6. /\ a \in Seq(Folder) /\ Len(a) = r - 1 /\ \A i \in 1 .. r - 1 : a[i] = t[i]
  <2>1. r - 1 \in 0 .. Len(t)
    BY <1>1, <1>5
  <2> QED
    BY <2>1, PrefixOf
<1>7. /\ b \in Seq(Folder) /\ Len(b) = Len(t) - r
      /\ \A i \in 1 .. Len(t) - r : b[i] = t[r + i]
  <2>1. r + 1 \in Int /\ Len(t) \in Int /\ \A i \in r + 1 .. Len(t) : t[i] \in Folder
    BY <1>1, <1>5
  <2>2. /\ b \in Seq(Folder)
        /\ Len(b) = IF r + 1 <= Len(t) THEN Len(t) - (r + 1) + 1 ELSE 0
        /\ \A i \in 1 .. Len(t) - (r + 1) + 1 : b[i] = t[r + 1 + i - 1]
    BY <2>1, SubSeqProperties
  <2> HIDE DEF b
  <2>3. Len(b) = Len(t) - r
    BY <1>1, <1>5, <2>2
  <2>4. ASSUME NEW i \in 1 .. Len(t) - r PROVE b[i] = t[r + i]
    <3>1. i \in 1 .. Len(t) - (r + 1) + 1 /\ r + 1 + i - 1 = r + i
      BY <1>1, <1>5
    <3> QED
      BY <2>2, <3>1
  <2> QED
    BY <2>2, <2>3, <2>4
<1> HIDE DEF a, b
<1>8. /\ a \o b \in Seq(Folder) /\ Len(a \o b) = Len(a) + Len(b)
      /\ \A i \in 1 .. Len(a) + Len(b) :
           (a \o b)[i] = IF i <= Len(a) THEN a[i] ELSE b[i - Len(a)]
  BY <1>6, <1>7, ConcatProperties
<1>9. ASSUME NEW j \in 1 .. Len(t) - 1
      PROVE  (a \o b)[j] = IF j < r THEN t[j] ELSE t[j + 1]
  <2>1. (a \o b)[j] = IF j <= r - 1 THEN a[j] ELSE b[j - (r - 1)]
    BY <1>1, <1>5, <1>6, <1>7, <1>8
  <2>2. CASE j < r
    BY <1>1, <1>5, <1>6, <2>1, <2>2
  <2>3. CASE ~(j < r)
    <3>1. j - (r - 1) \in 1 .. Len(t) - r /\ r + (j - (r - 1)) = j + 1
      BY <1>1, <1>5, <2>3
    <3>2. b[j - (r - 1)] = t[j + 1]
      BY <1>7, <3>1
    <3> QED
      BY <1>1, <1>5, <2>1, <2>3, <3>2
  <2> QED
    BY <2>2, <2>3
<1>10. Len(a \o b) = Len(t) - 1
  BY <1>1, <1>5, <1>6, <1>7, <1>8
<1> QED
  BY <1>4, <1>5, <1>8, <1>9, <1>10

\* If no folder is twice in the rows, the table's deletion is the map's.
LEMMA DeletionsAgree ==
  ASSUME NEW rows \in Seq(Folder), NEW folder, IsInjective(rows)
  PROVE  Without(rows, folder) =
           IF Contains(rows, folder) THEN RemoveFirst(rows, folder) ELSE rows
<1>1. Len(rows) \in Nat /\ DOMAIN rows = 1 .. Len(rows)
      /\ \A i \in 1 .. Len(rows) : rows[i] \in Folder
  BY LenProperties, ElementOfSeq
<1>2. CASE ~Contains(rows, folder)
  <2> DEFINE p == [k \in 0 .. Len(rows) |-> SubSeq(rows, 1, k)]
  <2>1. p \in [0 .. Len(rows) -> Seq(Folder)]
    BY PrefixOf
  <2>2. KeptPath(rows, folder, p)
    <3>1. p[0] = << >>
      BY <1>1, SubSeqEmpty
    <3>2. ASSUME NEW k \in 1 .. Len(rows)
          PROVE  /\ rows[k] # folder
                 /\ p[k] = Append(p[k - 1], rows[k])
      <4>1. rows[k] # folder
        BY <1>2 DEF Contains
      <4>2. p[k] = SubSeq(rows, 1, k) /\ p[k - 1] = SubSeq(rows, 1, k - 1)
        BY <1>1
      <4> QED
        BY <4>1, <4>2, PrefixGrows
    <3> HIDE DEF p
    <3> QED
      BY <3>1, <3>2 DEF KeptPath
  <2>3. p[Len(rows)] = rows
    BY <1>1, SubSeqFull
  <2> HIDE DEF p
  <2> QED
    BY <1>2, <2>1, <2>2, <2>3, WithoutIsPath
<1>3. CASE Contains(rows, folder)
  <2> DEFINE u == RemoveFirst(rows, folder)
             p == [k \in 0 .. Len(rows) |->
                     IF \E i \in 1 .. k : rows[i] = folder THEN SubSeq(u, 1, k - 1)
                     ELSE SubSeq(rows, 1, k)]
  <2>1. PICK r \in 1 .. Len(rows) :
          /\ rows[r] = folder
          /\ u \in Seq(Folder) /\ Len(u) = Len(rows) - 1
          /\ \A j \in 1 .. Len(rows) - 1 : u[j] = IF j < r THEN rows[j] ELSE rows[j + 1]
    BY <1>3, FirstRemoved
  <2> HIDE DEF u
  <2>2. ASSUME NEW i \in 1 .. Len(rows) PROVE rows[i] = folder <=> i = r
    BY <1>1, <2>1 DEF IsInjective
  <2>3. /\ \A k \in 0 .. Len(rows) : r <= k => p[k] = SubSeq(u, 1, k - 1)
        /\ \A k \in 0 .. Len(rows) : k < r => p[k] = SubSeq(rows, 1, k)
    <3> SUFFICES ASSUME NEW k \in 0 .. Len(rows)
                 PROVE  /\ r <= k => p[k] = SubSeq(u, 1, k - 1)
                        /\ k < r => p[k] = SubSeq(rows, 1, k)
      BY Zenon
    <3>1. (\E i \in 1 .. k : rows[i] = folder) <=> r <= k
      BY <1>1, <2>1, <2>2
    <3>2. ~(r <= k /\ k < r)
      BY <1>1
    <3> QED
      BY <3>1, <3>2
  <2>4. p = [k \in 0 .. Len(rows) |-> p[k]]
    OBVIOUS
  <2> HIDE DEF p
  <2>5. p \in [0 .. Len(rows) -> Seq(Folder)]
    <3>1. ASSUME NEW k \in 0 .. Len(rows) PROVE p[k] \in Seq(Folder)
      <4>1. CASE r <= k
        <5>1. k - 1 \in 0 .. Len(u)
          BY <1>1, <2>1, <4>1
        <5> QED
          BY <2>1, <2>3, <4>1, <5>1, PrefixOf
      <4>2. CASE k < r
        BY <2>3, <4>2, PrefixOf
      <4> QED
        BY <1>1, <4>1, <4>2
    <3> QED
      BY <2>4, <3>1
  <2>6. KeptPath(rows, folder, p)
    <3>1. p[0] = << >>
      <4>1. 0 \in 0 .. Len(rows) /\ 0 < r
        BY <1>1
      <4> QED
        BY <2>3, <4>1, SubSeqEmpty
    <3>2. ASSUME NEW k \in 1 .. Len(rows)
          PROVE  p[k] = IF rows[k] = folder THEN p[k - 1] ELSE Append(p[k - 1], rows[k])
      <4>1. k \in 0 .. Len(rows) /\ k - 1 \in 0 .. Len(rows)
        BY <1>1
      <4>2. CASE k < r
        <5>1. p[k] = SubSeq(rows, 1, k) /\ p[k - 1] = SubSeq(rows, 1, k - 1)
          BY <1>1, <2>3, <4>1, <4>2
        <5> QED
          BY <1>1, <2>2, <4>2, <5>1, PrefixGrows
      <4>3. CASE k = r
        <5>1. p[k] = SubSeq(u, 1, r - 1) /\ p[k - 1] = SubSeq(rows, 1, r - 1)
          BY <1>1, <2>3, <4>1, <4>3
        <5>2. r - 1 \in 0 .. Len(rows) /\ r - 1 \in 0 .. Len(u)
          BY <1>1, <2>1
        <5>3. /\ SubSeq(u, 1, r - 1) \in Seq(Folder) /\ Len(SubSeq(u, 1, r - 1)) = r - 1
              /\ \A i \in 1 .. r - 1 : SubSeq(u, 1, r - 1)[i] = u[i]
          BY <2>1, <5>2, PrefixOf
        <5>4. /\ SubSeq(rows, 1, r - 1) \in Seq(Folder)
              /\ Len(SubSeq(rows, 1, r - 1)) = r - 1
              /\ \A i \in 1 .. r - 1 : SubSeq(rows, 1, r - 1)[i] = rows[i]
          BY <5>2, PrefixOf
        <5>5. \A i \in 1 .. r - 1 : SubSeq(u, 1, r - 1)[i] = SubSeq(rows, 1, r - 1)[i]
          BY <1>1, <2>1, <5>3, <5>4
        <5>6. SubSeq(u, 1, r - 1) = SubSeq(rows, 1, r - 1)
          BY <5>3, <5>4, <5>5, SeqEqual
        <5> QED
          BY <2>2, <4>3, <5>1, <5>6
      <4>4. CASE k > r
        <5>1. p[k] = SubSeq(u, 1, k - 1) /\ p[k - 1] = SubSeq(u, 1, k - 1 - 1)
          BY <1>1, <2>3, <4>1, <4>4
        <5>2. k - 1 \in 1 .. Len(u) /\ k - 1 \in 1 .. Len(rows) - 1 /\ ~(k - 1 < r)
              /\ k - 1 + 1 = k
          BY <1>1, <2>1, <4>4
        <5>3. u[k - 1] = rows[k]
          BY <2>1, <5>2
        <5>4. Append(SubSeq(u, 1, k - 1 - 1), u[k - 1]) = SubSeq(u, 1, k - 1)
          BY <2>1, <5>2, PrefixGrows
        <5> QED
          BY <1>1, <2>2, <4>4, <5>1, <5>3, <5>4
      <4> QED
        BY <1>1, <4>2, <4>3, <4>4
    <3> QED
      BY <3>1, <3>2 DEF KeptPath
  <2>7. p[Len(rows)] = u
    <3>1. p[Len(rows)] = SubSeq(u, 1, Len(u))
      BY <1>1, <2>1, <2>3
    <3> QED
      BY <2>1, <3>1, SubSeqFull
  <2>8. Without(rows, folder) = u
    BY <2>5, <2>6, <2>7, WithoutIsPath
  <2> QED
    BY <1>3, <2>8 DEF u
<1> QED
  BY <1>2, <1>3

-----------------------------------------------------------------------------
(* Rows that are left out stay left out.                                    *)

\* Are kept, of the first k rows, just those of other folders, in their order?
KeptOf(kept, rows, folder, k) ==
  \E sel \in [1 .. Len(kept) -> 1 .. k] :
    /\ \A i, j \in 1 .. Len(kept) : i < j => sel[i] < sel[j]
    /\ \A i \in 1 .. Len(kept) : kept[i] = rows[sel[i]] /\ kept[i] # folder
    /\ \A r \in 1 .. k : rows[r] # folder => \E i \in 1 .. Len(kept) : sel[i] = r

\* Without keeps just the rows of other folders, in their order.
LEMMA WithoutKeeps ==
  ASSUME NEW rows \in Seq(Folder), NEW folder
  PROVE  KeptOf(Without(rows, folder), rows, folder, Len(rows))
<1>1. Len(rows) \in Nat /\ \A i \in 1 .. Len(rows) : rows[i] \in Folder
  BY LenProperties, ElementOfSeq
<1>2. PICK p \in [0 .. Len(rows) -> Seq(Folder)] : KeptPath(rows, folder, p)
  BY KeptPathExists
<1> DEFINE P == {k \in 0 .. Len(rows) : KeptOf(p[k], rows, folder, k)}
<1>3. 0 \in P
  <2>1. p[0] = << >> /\ Len(<< >>) = 0 /\ 0 \in 0 .. Len(rows)
    BY <1>1, <1>2 DEF KeptPath
  <2>2. [i \in 1 .. 0 |-> 1] \in [1 .. 0 -> 1 .. 0]
    OBVIOUS
  <2>3. KeptOf(<< >>, rows, folder, 0)
    BY <2>1, <2>2 DEF KeptOf
  <2> QED
    BY <2>1, <2>3
<1>4. ASSUME NEW k \in 0 .. Len(rows) - 1, k \in P PROVE k + 1 \in P
  <2> DEFINE m == Len(p[k])
  <2>1. /\ k + 1 \in 1 .. Len(rows) /\ k + 1 \in 0 .. Len(rows) /\ k \in 0 .. Len(rows)
        /\ k + 1 - 1 = k /\ k \in Nat
    BY <1>1
  <2>2. PICK sel \in [1 .. m -> 1 .. k] :
          /\ \A i, j \in 1 .. m : i < j => sel[i] < sel[j]
          /\ \A i \in 1 .. m : p[k][i] = rows[sel[i]] /\ p[k][i] # folder
          /\ \A r \in 1 .. k : rows[r] # folder => \E i \in 1 .. m : sel[i] = r
    BY <1>4 DEF KeptOf
  <2>3. p[k + 1] = IF rows[k + 1] = folder THEN p[k] ELSE Append(p[k], rows[k + 1])
    BY <1>2, <2>1 DEF KeptPath
  <2>4. p[k] \in Seq(Folder) /\ m \in Nat
    BY <2>1, LenProperties
  <2> HIDE DEF m
  <2>5. \A i \in 1 .. m : sel[i] \in 1 .. k
    BY <2>2
  <2>6. CASE rows[k + 1] = folder
    <3>1. sel \in [1 .. m -> 1 .. k + 1]
      BY <2>1, <2>2, <2>5
    <3>2. p[k + 1] = p[k]
      BY <2>3, <2>6
    <3>3. \A r \in 1 .. k + 1 : rows[r] # folder => \E i \in 1 .. m : sel[i] = r
      BY <2>1, <2>2, <2>6
    <3>4. KeptOf(p[k], rows, folder, k + 1)
      BY <2>2, <3>1, <3>3 DEF KeptOf, m
    <3> QED
      BY <2>1, <3>2, <3>4
  <2>7. CASE rows[k + 1] # folder
    <3> DEFINE sel2 == [i \in 1 .. m + 1 |-> IF i = m + 1 THEN k + 1 ELSE sel[i]]
               q == Append(p[k], rows[k + 1])
    <3>1. /\ Len(q) = m + 1 /\ q[m + 1] = rows[k + 1]
          /\ \A i \in 1 .. m : q[i] = p[k][i]
      BY <1>1, <2>1, <2>4, AppendProperties DEF m
    <3>2. sel2 \in [1 .. m + 1 -> 1 .. k + 1]
      BY <2>1, <2>2, <2>4, <2>5
    <3>3. /\ sel2[m + 1] = k + 1 /\ \A i \in 1 .. m : sel2[i] = sel[i]
          /\ \A i \in 1 .. m + 1 : i = m + 1 \/ i \in 1 .. m
      BY <2>4
    <3> HIDE DEF sel2, q
    <3>4. ASSUME NEW i \in 1 .. m + 1, NEW j \in 1 .. m + 1, i < j PROVE sel2[i] < sel2[j]
      <4>1. i \in 1 .. m /\ sel2[i] = sel[i] /\ sel[i] \in 1 .. k
        BY <2>4, <2>5, <3>3, <3>4
      <4>2. CASE j = m + 1
        BY <2>1, <3>3, <4>1, <4>2
      <4>3. CASE j \in 1 .. m
        BY <2>2, <3>3, <3>4, <4>1, <4>3
      <4> QED
        BY <3>3, <4>2, <4>3
    <3>5. \A i \in 1 .. m + 1 : q[i] = rows[sel2[i]] /\ q[i] # folder
      BY <2>2, <2>7, <3>1, <3>3
    <3>6. ASSUME NEW r \in 1 .. k + 1, rows[r] # folder
          PROVE  \E i \in 1 .. m + 1 : sel2[i] = r
      <4>1. CASE r = k + 1
        BY <2>4, <3>3, <4>1
      <4>2. CASE r \in 1 .. k
        <5>1. PICK i \in 1 .. m : sel[i] = r
          BY <2>2, <3>6, <4>2
        <5>2. i \in 1 .. m + 1 /\ sel2[i] = r
          BY <2>4, <3>3, <5>1
        <5> QED
          BY <5>2
      <4> QED
        BY <2>1, <4>1, <4>2
    <3>7. /\ \A i, j \in 1 .. m + 1 : i < j => sel2[i] < sel2[j]
          /\ \A i \in 1 .. m + 1 : q[i] = rows[sel2[i]] /\ q[i] # folder
          /\ \A r \in 1 .. k + 1 : rows[r] # folder => \E i \in 1 .. m + 1 : sel2[i] = r
      BY <3>4, <3>5, <3>6
    <3>8. Len(q) = m + 1
      BY <3>1
    <3>9. KeptOf(q, rows, folder, k + 1)
      <4>1. /\ sel2 \in [1 .. Len(q) -> 1 .. k + 1]
            /\ \A i, j \in 1 .. Len(q) : i < j => sel2[i] < sel2[j]
            /\ \A i \in 1 .. Len(q) : q[i] = rows[sel2[i]] /\ q[i] # folder
            /\ \A r \in 1 .. k + 1 :
                 rows[r] # folder => \E i \in 1 .. Len(q) : sel2[i] = r
        BY <3>2, <3>7, <3>8
      <4> QED
        BY ONLY <4>1, Zenon DEF KeptOf
    <3> QED
      BY <2>1, <2>3, <2>7, <3>9 DEF q
  <2> QED
    BY <2>6, <2>7
<1>5. Len(rows) \in P
  <2> HIDE DEF P
  <2>1. \A k \in 0 .. Len(rows) : k \in P
    BY <1>1, <1>3, <1>4, Stepwise
  <2> QED
    BY <1>1, <2>1
<1> QED
  BY <1>2, <1>5, WithoutIsPath

\* A list is what remains of itself.
LEMMA SubsequenceSelf ==
  ASSUME NEW s \in Seq(Folder)
  PROVE  SubsequenceOf(s, s)
<1>1. DOMAIN s = 1 .. Len(s) /\ Len(s) \in Nat
  BY LenProperties
<1>2. [i \in DOMAIN s |-> i] \in [DOMAIN s -> DOMAIN s]
  OBVIOUS
<1> QED
  BY <1>1, <1>2 DEF SubsequenceOf

\* The same folder added to both lists keeps the order.
LEMMA SubsequenceAppend ==
  ASSUME NEW s \in Seq(Folder), NEW t \in Seq(Folder), NEW e \in Folder, SubsequenceOf(s, t)
  PROVE  SubsequenceOf(Append(s, e), Append(t, e))
<1> DEFINE m == Len(s) n == Len(t)
<1>1. m \in Nat /\ n \in Nat /\ DOMAIN s = 1 .. m /\ DOMAIN t = 1 .. n
  BY LenProperties
<1>2. PICK at \in [1 .. m -> 1 .. n] :
        /\ \A i, j \in 1 .. m : i < j => at[i] < at[j]
        /\ \A i \in 1 .. m : s[i] = t[at[i]]
  BY <1>1 DEF SubsequenceOf
<1>3. /\ Append(s, e) \in Seq(Folder) /\ Len(Append(s, e)) = m + 1
      /\ Append(s, e)[m + 1] = e /\ \A i \in 1 .. m : Append(s, e)[i] = s[i]
      /\ Append(t, e) \in Seq(Folder) /\ Len(Append(t, e)) = n + 1
      /\ Append(t, e)[n + 1] = e /\ \A i \in 1 .. n : Append(t, e)[i] = t[i]
  BY AppendProperties
<1>4. DOMAIN Append(s, e) = 1 .. m + 1 /\ DOMAIN Append(t, e) = 1 .. n + 1
  BY <1>3, LenProperties
<1> DEFINE at2 == [i \in 1 .. m + 1 |-> IF i = m + 1 THEN n + 1 ELSE at[i]]
<1> HIDE DEF m, n
<1>5. \A i \in 1 .. m : at[i] \in 1 .. n
  BY <1>2
<1>6. at2 \in [1 .. m + 1 -> 1 .. n + 1]
  BY <1>1, <1>5
<1>7. /\ at2[m + 1] = n + 1 /\ \A i \in 1 .. m : at2[i] = at[i]
      /\ \A i \in 1 .. m + 1 : i = m + 1 \/ i \in 1 .. m
  BY <1>1
<1> HIDE DEF at2
<1>8. ASSUME NEW i \in 1 .. m + 1, NEW j \in 1 .. m + 1, i < j PROVE at2[i] < at2[j]
  <2>1. i \in 1 .. m /\ at2[i] = at[i] /\ at[i] \in 1 .. n
    BY <1>1, <1>5, <1>7, <1>8
  <2>2. CASE j = m + 1
    BY <1>1, <1>7, <2>1, <2>2
  <2>3. CASE j \in 1 .. m
    BY <1>2, <1>7, <1>8, <2>1, <2>3
  <2> QED
    BY <1>7, <2>2, <2>3
<1>9. \A i \in 1 .. m + 1 : Append(s, e)[i] = Append(t, e)[at2[i]]
  <2> TAKE i \in 1 .. m + 1
  <2>1. CASE i = m + 1
    BY <1>3, <1>7, <2>1
  <2>2. CASE i \in 1 .. m
    <3>1. at2[i] = at[i] /\ at[i] \in 1 .. n
      BY <1>5, <1>7, <2>2
    <3> QED
      BY <1>2, <1>3, <2>2, <3>1
  <2> QED
    BY <1>7, <2>1, <2>2
<1> QED
  BY <1>4, <1>6, <1>8, <1>9 DEF SubsequenceOf

\* What the table keeps, the map keeps: it loses one entry of the folder at most.
LEMMA SubsequenceDelete ==
  ASSUME NEW s \in Seq(Folder), NEW t \in Seq(Folder), NEW folder, SubsequenceOf(s, t)
  PROVE  SubsequenceOf(Without(s, folder),
                       IF Contains(t, folder) THEN RemoveFirst(t, folder) ELSE t)
<1> DEFINE w == Without(s, folder)
           m == Len(w)
           n == Len(t)
<1>1. w \in Seq(Folder) /\ m \in Nat /\ n \in Nat /\ DOMAIN w = 1 .. m /\ DOMAIN t = 1 .. n
      /\ DOMAIN s = 1 .. Len(s) /\ Len(s) \in Nat
  BY WithoutType, LenProperties
<1>2. PICK at \in [1 .. Len(s) -> 1 .. n] :
        /\ \A i, j \in 1 .. Len(s) : i < j => at[i] < at[j]
        /\ \A i \in 1 .. Len(s) : s[i] = t[at[i]]
  BY <1>1 DEF SubsequenceOf
<1>0. KeptOf(w, s, folder, Len(s))
  BY WithoutKeeps
<1>3. PICK sel \in [1 .. m -> 1 .. Len(s)] :
        /\ \A i, j \in 1 .. m : i < j => sel[i] < sel[j]
        /\ \A i \in 1 .. m : w[i] = s[sel[i]] /\ w[i] # folder
  BY ONLY <1>0 DEF KeptOf
<1> HIDE DEF w, m, n
<1> DEFINE both == [i \in 1 .. m |-> at[sel[i]]]
<1>4. \A i \in 1 .. m : sel[i] \in 1 .. Len(s) /\ at[sel[i]] \in 1 .. n
  BY <1>2, <1>3
<1>5. both \in [1 .. m -> 1 .. n]
  BY <1>4
<1>6. \A i, j \in 1 .. m : i < j => both[i] < both[j]
  BY <1>2, <1>3, <1>4
<1>7. \A i \in 1 .. m : both[i] \in 1 .. n /\ w[i] = t[both[i]] /\ w[i] # folder
  BY <1>2, <1>3, <1>4
<1> HIDE DEF both
<1>8. CASE ~Contains(t, folder)
  <2>1. SubsequenceOf(w, t)
    BY <1>1, <1>5, <1>6, <1>7 DEF SubsequenceOf
  <2> QED
    BY <1>8, <2>1 DEF w
<1>9. CASE Contains(t, folder)
  <2> DEFINE u == RemoveFirst(t, folder)
  <2>1. PICK r \in 1 .. n :
          /\ t[r] = folder
          /\ u \in Seq(Folder) /\ Len(u) = n - 1
          /\ \A j \in 1 .. n - 1 : u[j] = IF j < r THEN t[j] ELSE t[j + 1]
    BY <1>9, FirstRemoved DEF n
  <2>2. DOMAIN u = 1 .. n - 1
    BY <2>1, LenProperties
  <2> HIDE DEF u
  <2> DEFINE at2 == [i \in 1 .. m |-> IF both[i] < r THEN both[i] ELSE both[i] - 1]
  <2>3. \A i \in 1 .. m : both[i] # r
    BY <1>7, <2>1
  <2>4. /\ at2 \in [1 .. m -> 1 .. n - 1]
        /\ \A i \in 1 .. m : /\ both[i] < r => at2[i] = both[i]
                             /\ r < both[i] => at2[i] = both[i] - 1
                             /\ both[i] < r \/ r < both[i]
    <3>1. ASSUME NEW i \in 1 .. m
          PROVE  /\ both[i] < r => at2[i] = both[i] /\ both[i] \in 1 .. n - 1
                 /\ r < both[i] => at2[i] = both[i] - 1 /\ both[i] - 1 \in 1 .. n - 1
                 /\ both[i] < r \/ r < both[i]
                 /\ at2[i] \in 1 .. n - 1
      <4>1. both[i] \in 1 .. n /\ both[i] # r /\ r \in 1 .. n /\ n \in Nat
        BY <1>1, <1>7, <2>3
      <4>2. at2[i] = IF both[i] < r THEN both[i] ELSE both[i] - 1
        OBVIOUS
      <4> HIDE DEF at2
      <4> QED
        BY ONLY <4>1, <4>2
    <3>2. at2 = [i \in 1 .. m |-> at2[i]]
      OBVIOUS
    <3> HIDE DEF at2
    <3> QED
      BY <3>1, <3>2
  <2> HIDE DEF at2
  <2>5. ASSUME NEW i \in 1 .. m, NEW j \in 1 .. m, i < j PROVE at2[i] < at2[j]
    <3>1. /\ both[i] < both[j] /\ both[i] \in 1 .. n /\ both[j] \in 1 .. n /\ r \in 1 .. n
          /\ n \in Nat
      BY <1>1, <1>6, <1>7, <2>5
    <3>2. /\ both[i] < r => at2[i] = both[i]
          /\ r < both[i] => at2[i] = both[i] - 1
          /\ both[i] < r \/ r < both[i]
          /\ both[j] < r => at2[j] = both[j]
          /\ r < both[j] => at2[j] = both[j] - 1
          /\ both[j] < r \/ r < both[j]
      BY <2>4
    <3> QED
      BY ONLY <3>1, <3>2
  <2>6. ASSUME NEW i \in 1 .. m PROVE w[i] = u[at2[i]]
    <3>1. w[i] = t[both[i]] /\ both[i] \in 1 .. n /\ at2[i] \in 1 .. n - 1
      BY <1>7, <2>4
    <3>2. u[at2[i]] = IF at2[i] < r THEN t[at2[i]] ELSE t[at2[i] + 1]
      BY <2>1, <3>1
    <3>3. CASE both[i] < r
      BY <2>4, <3>1, <3>2, <3>3
    <3>4. CASE r < both[i]
      <4>1. at2[i] = both[i] - 1
        BY <2>4, <3>4
      <4>2. r \in 1 .. n /\ n \in Nat
        BY <1>1
      <4>3. ~(at2[i] < r) /\ at2[i] + 1 = both[i]
        BY ONLY <3>1, <3>4, <4>1, <4>2
      <4> QED
        BY <3>1, <3>2, <4>3
    <3> QED
      BY <2>4, <3>3, <3>4
  <2>7. SubsequenceOf(w, u)
    BY <1>1, <2>2, <2>4, <2>5, <2>6 DEF SubsequenceOf
  <2> QED
    BY <1>9, <2>7 DEF w, u
<1> QED
  BY <1>8, <1>9

\* A deletion of all its rows from both lists keeps the order too.
LEMMA SubsequenceWithout ==
  ASSUME NEW s \in Seq(Folder), NEW t \in Seq(Folder), NEW folder, SubsequenceOf(s, t)
  PROVE  SubsequenceOf(Without(s, folder), Without(t, folder))
<1> DEFINE v == Without(s, folder)
           w == Without(t, folder)
           m == Len(v)
           n == Len(w)
<1>1. /\ v \in Seq(Folder) /\ w \in Seq(Folder)
      /\ DOMAIN v = 1 .. m /\ DOMAIN w = 1 .. n /\ m \in Nat /\ n \in Nat
      /\ DOMAIN s = 1 .. Len(s) /\ Len(s) \in Nat /\ DOMAIN t = 1 .. Len(t) /\ Len(t) \in Nat
  BY WithoutType, LenProperties
<1>2. PICK at \in [1 .. Len(s) -> 1 .. Len(t)] :
        /\ \A i, j \in 1 .. Len(s) : i < j => at[i] < at[j]
        /\ \A i \in 1 .. Len(s) : s[i] = t[at[i]]
  BY <1>1 DEF SubsequenceOf
<1>0. KeptOf(v, s, folder, Len(s)) /\ KeptOf(w, t, folder, Len(t))
  BY WithoutKeeps
<1>3. PICK sel \in [1 .. m -> 1 .. Len(s)] :
        /\ \A i, j \in 1 .. m : i < j => sel[i] < sel[j]
        /\ \A i \in 1 .. m : v[i] = s[sel[i]] /\ v[i] # folder
  BY ONLY <1>0 DEF KeptOf
<1>4. PICK sel2 \in [1 .. n -> 1 .. Len(t)] :
        /\ \A i, j \in 1 .. n : i < j => sel2[i] < sel2[j]
        /\ \A i \in 1 .. n : w[i] = t[sel2[i]] /\ w[i] # folder
        /\ \A r \in 1 .. Len(t) : t[r] # folder => \E i \in 1 .. n : sel2[i] = r
  BY ONLY <1>0 DEF KeptOf
<1> HIDE DEF v, w, m, n
<1>5. \A i \in 1 .. m : /\ sel[i] \in 1 .. Len(s) /\ at[sel[i]] \in 1 .. Len(t)
                        /\ v[i] = t[at[sel[i]]] /\ t[at[sel[i]]] # folder
  BY <1>2, <1>3
<1> DEFINE to == [i \in 1 .. m |-> CHOOSE k \in 1 .. n : sel2[k] = at[sel[i]]]
<1>6. \A i \in 1 .. m : to[i] \in 1 .. n /\ sel2[to[i]] = at[sel[i]]
  BY <1>4, <1>5
<1>7. to \in [1 .. m -> 1 .. n]
  <2>1. to = [i \in 1 .. m |-> to[i]]
    OBVIOUS
  <2> HIDE DEF to
  <2> QED
    BY <1>6, <2>1
<1> HIDE DEF to
<1>8. ASSUME NEW i \in 1 .. m, NEW j \in 1 .. m, i < j PROVE to[i] < to[j]
  <2>1. sel2[to[i]] < sel2[to[j]]
    BY <1>2, <1>3, <1>5, <1>6, <1>8
  <2>2. to[i] \in 1 .. n /\ to[j] \in 1 .. n
    BY <1>6
  <2>3. sel2[to[i]] \in Nat /\ sel2[to[j]] \in Nat
    <3>1. sel2[to[i]] \in 1 .. Len(t) /\ sel2[to[j]] \in 1 .. Len(t)
      BY <2>2
    <3>2. Len(t) \in Nat
      BY <1>1
    <3> QED
      BY ONLY <3>1, <3>2
  <2>4. to[j] < to[i] => sel2[to[j]] < sel2[to[i]]
    BY <1>4, <2>2
  <2>5. to[i] \in Nat /\ to[j] \in Nat
    <3>1. n \in Nat
      BY <1>1
    <3> QED
      BY ONLY <2>2, <3>1
  <2>6. to[i] = to[j] => sel2[to[i]] = sel2[to[j]]
    OBVIOUS
  <2> QED
    BY ONLY <2>1, <2>3, <2>4, <2>5, <2>6
<1>9. \A i \in 1 .. m : v[i] = w[to[i]]
  BY <1>4, <1>5, <1>6
<1>10. SubsequenceOf(v, w)
  BY <1>1, <1>7, <1>8, <1>9 DEF SubsequenceOf
<1> QED
  BY <1>10 DEF v, w

\* A beginning of a list is what remains of it.
LEMMA SubsequencePrefix ==
  ASSUME NEW s \in Seq(Folder), NEW n \in 0 .. Len(s)
  PROVE  /\ SubsequenceOf(SubSeq(s, 1, n), s)
         /\ IsInjective(s) => IsInjective(SubSeq(s, 1, n))
<1>1. /\ SubSeq(s, 1, n) \in Seq(Folder) /\ Len(SubSeq(s, 1, n)) = n
      /\ \A i \in 1 .. n : SubSeq(s, 1, n)[i] = s[i]
  BY PrefixOf
<1>2. DOMAIN SubSeq(s, 1, n) = 1 .. n /\ DOMAIN s = 1 .. Len(s) /\ Len(s) \in Nat
  BY <1>1, LenProperties
<1>3. [i \in 1 .. n |-> i] \in [1 .. n -> 1 .. Len(s)]
  BY <1>2
<1>4. SubsequenceOf(SubSeq(s, 1, n), s)
  <2> DEFINE at == [i \in 1 .. n |-> i]
  <2>1. /\ \A i, j \in 1 .. n : i < j => at[i] < at[j]
        /\ \A i \in 1 .. n : SubSeq(s, 1, n)[i] = s[at[i]]
    BY <1>1
  <2> HIDE DEF at
  <2>2. at \in [1 .. n -> 1 .. Len(s)]
    BY <1>3 DEF at
  <2> QED
    BY ONLY <1>2, <2>1, <2>2 DEF SubsequenceOf
<1>5. IsInjective(s) => IsInjective(SubSeq(s, 1, n))
  BY <1>1, <1>2 DEF IsInjective
<1> QED
  BY <1>4, <1>5

\* The rows that a beginning leaves out: none only if it is the whole list.
LEMMA LeftOut ==
  ASSUME NEW s \in Seq(Folder), NEW n \in 0 .. Len(s)
  PROVE  /\ Left(s, SubSeq(s, 1, n)) \in SUBSET Folder
         /\ ToSet(s) \subseteq ToSet(SubSeq(s, 1, n)) \cup Left(s, SubSeq(s, 1, n))
         /\ Left(s, SubSeq(s, 1, n)) = {} => SubSeq(s, 1, n) = s
<1> DEFINE a == SubSeq(s, 1, n)
           b == SubSeq(s, n + 1, Len(s))
<1>1. /\ Len(s) \in Nat /\ n \in Nat /\ DOMAIN s = 1 .. Len(s)
      /\ \A i \in 1 .. Len(s) : s[i] \in Folder
  BY LenProperties, ElementOfSeq
<1>2. /\ a \in Seq(Folder) /\ Len(a) = n /\ \A i \in 1 .. n : a[i] = s[i]
  BY PrefixOf
<1>3. /\ b \in Seq(Folder)
      /\ Len(b) = Len(s) - n
      /\ \A i \in 1 .. Len(s) - n : b[i] = s[n + i]
  <2>1. n + 1 \in Int /\ Len(s) \in Int /\ \A i \in n + 1 .. Len(s) : s[i] \in Folder
    BY <1>1
  <2>2. /\ b \in Seq(Folder)
        /\ Len(b) = IF n + 1 <= Len(s) THEN Len(s) - (n + 1) + 1 ELSE 0
        /\ \A i \in 1 .. Len(s) - (n + 1) + 1 : b[i] = s[n + 1 + i - 1]
    BY <2>1, SubSeqProperties
  <2> HIDE DEF b
  <2>3. Len(b) = Len(s) - n
    <3>1. n \in 0 .. Len(s) /\ Len(s) \in Nat
      BY <1>1
    <3>2. Len(b) = IF n + 1 <= Len(s) THEN Len(s) - (n + 1) + 1 ELSE 0
      BY <2>2
    <3> QED
      BY ONLY <3>1, <3>2
  <2>4. ASSUME NEW i \in 1 .. Len(s) - n PROVE b[i] = s[n + i]
    <3>1. i \in 1 .. Len(s) - (n + 1) + 1 /\ n + 1 + i - 1 = n + i
      BY <1>1
    <3> QED
      BY <2>2, <3>1
  <2> QED
    BY <2>2, <2>3, <2>4
<1>4. Left(s, a) = ToSet(b)
  BY <1>2 DEF Left
<1>5. DOMAIN a = 1 .. n /\ DOMAIN b = 1 .. Len(s) - n
  BY <1>2, <1>3, LenProperties
<1>6. ASSUME NEW i \in 1 .. Len(s) - n PROVE n + i \in 1 .. Len(s) /\ b[i] \in Folder
  <2>1. n + i \in 1 .. Len(s)
    BY ONLY <1>1
  <2> QED
    BY <1>1, <1>3, <2>1
<1>7. Len(a) = Len(s) => a = s
  BY <1>1, <1>2, SubSeqFull
<1> HIDE DEF a, b
<1>8. ToSet(b) \in SUBSET Folder
  BY <1>5, <1>6 DEF ToSet
<1>9. ASSUME NEW i \in 1 .. Len(s) PROVE s[i] \in ToSet(a) \cup ToSet(b)
  <2>1. CASE i <= n
    BY <1>1, <1>2, <1>5, <2>1 DEF ToSet
  <2>2. CASE ~(i <= n)
    <3>1. i - n \in 1 .. Len(s) - n /\ n + (i - n) = i
      BY <1>1, <2>2
    <3>2. b[i - n] = s[i]
      BY <1>3, <3>1
    <3> QED
      BY <1>5, <3>1, <3>2 DEF ToSet
  <2> QED
    BY <2>1, <2>2
<1>10. ToSet(s) \subseteq ToSet(a) \cup ToSet(b)
  BY <1>1, <1>9 DEF ToSet
<1>11. ASSUME ToSet(b) = {} PROVE a = s
  <2>1. ~(1 \in 1 .. Len(s) - n)
    BY <1>5, <1>11 DEF ToSet
  <2>2. Len(a) = Len(s)
    <3>1. n \in 0 .. Len(s) /\ Len(s) \in Nat /\ Len(a) = n
      BY <1>1, <1>2
    <3> QED
      BY ONLY <2>1, <3>1
  <2> QED
    BY <1>7, <2>2
<1> QED
  BY <1>4, <1>8, <1>10, <1>11 DEF a

\* The same folder added to both lists, or deleted from them, keeps the rest of what the
\* one has and the other has not.
LEMMA OutsideKept ==
  ASSUME NEW s \in Seq(Folder), NEW t \in Seq(Folder), NEW U,
         ToSet(s) \subseteq ToSet(t) \cup U
  PROVE  /\ \A e \in Folder : ToSet(Append(s, e)) \subseteq ToSet(Append(t, e)) \cup U
         /\ \A e : ToSet(Without(s, e)) \subseteq
                     ToSet(IF Contains(t, e) THEN RemoveFirst(t, e) ELSE t) \cup U
<1>1. DOMAIN s = 1 .. Len(s) /\ Len(s) \in Nat /\ DOMAIN t = 1 .. Len(t) /\ Len(t) \in Nat
  BY LenProperties
<1>2. ASSUME NEW e \in Folder
      PROVE  ToSet(Append(s, e)) \subseteq ToSet(Append(t, e)) \cup U
  <2>1. /\ Append(s, e) \in Seq(Folder) /\ Len(Append(s, e)) = Len(s) + 1
        /\ Append(s, e)[Len(s) + 1] = e
        /\ \A i \in 1 .. Len(s) : Append(s, e)[i] = s[i]
        /\ Append(t, e) \in Seq(Folder) /\ Len(Append(t, e)) = Len(t) + 1
        /\ Append(t, e)[Len(t) + 1] = e
        /\ \A i \in 1 .. Len(t) : Append(t, e)[i] = t[i]
    BY AppendProperties
  <2>2. DOMAIN Append(s, e) = 1 .. Len(s) + 1 /\ DOMAIN Append(t, e) = 1 .. Len(t) + 1
    BY <2>1, LenProperties
  <2>3. ToSet(t) \cup {e} \subseteq ToSet(Append(t, e))
    BY <1>1, <2>1, <2>2 DEF ToSet
  <2>4. ToSet(Append(s, e)) \subseteq ToSet(s) \cup {e}
    BY <1>1, <2>1, <2>2 DEF ToSet
  <2> QED
    BY <2>3, <2>4
<1>3. ASSUME NEW e
      PROVE  ToSet(Without(s, e)) \subseteq
               ToSet(IF Contains(t, e) THEN RemoveFirst(t, e) ELSE t) \cup U
  <2>1. PICK sel \in [1 .. Len(Without(s, e)) -> 1 .. Len(s)] :
          \A i \in 1 .. Len(Without(s, e)) : Without(s, e)[i] = s[sel[i]] /\ Without(s, e)[i] # e
    BY WithoutKeeps DEF KeptOf
  <2>2. DOMAIN Without(s, e) = 1 .. Len(Without(s, e))
    BY WithoutType, LenProperties
  <2>3. ToSet(Without(s, e)) \subseteq ToSet(s) \ {e}
    BY <1>1, <2>1, <2>2 DEF ToSet
  <2>4. CASE ~Contains(t, e)
    BY <2>3, <2>4
  <2>5. CASE Contains(t, e)
    <3> DEFINE u == RemoveFirst(t, e)
    <3>1. PICK r \in 1 .. Len(t) :
            /\ t[r] = e
            /\ u \in Seq(Folder) /\ Len(u) = Len(t) - 1
            /\ \A j \in 1 .. Len(t) - 1 : u[j] = IF j < r THEN t[j] ELSE t[j + 1]
      BY <2>5, FirstRemoved
    <3>2. DOMAIN u = 1 .. Len(t) - 1
      BY <3>1, LenProperties
    <3> HIDE DEF u
    <3>3. ASSUME NEW i \in 1 .. Len(t), t[i] # e PROVE t[i] \in ToSet(u)
      <4>1. CASE i < r
        <5>1. i \in 1 .. Len(t) - 1 /\ u[i] = t[i]
          BY <1>1, <3>1, <4>1
        <5> QED
          BY <3>2, <5>1 DEF ToSet
      <4>2. CASE r < i
        <5>1. i - 1 \in 1 .. Len(t) - 1 /\ ~(i - 1 < r) /\ i - 1 + 1 = i
          BY <1>1, <4>2
        <5>2. u[i - 1] = t[i]
          BY <3>1, <5>1
        <5> QED
          BY <3>2, <5>1, <5>2 DEF ToSet
      <4> QED
        BY <1>1, <3>1, <3>3, <4>1, <4>2
    <3>4. ToSet(t) \ {e} \subseteq ToSet(u)
      BY <1>1, <3>3 DEF ToSet
    <3> QED
      BY <2>3, <2>5, <3>4 DEF u
  <2> QED
    BY <2>4, <2>5
<1> QED
  BY <1>2, <1>3

-----------------------------------------------------------------------------
(* The invariant.                                                           *)

HandInv == gpc \notin {"wait", "pushing"} => inHand = << >>

\* Who holds the mutex: the thread that drains the queue, and a push that found it.
MutexInv ==
  /\ wpc = "unstarted" => mutex = "none"
  /\ wpc = "drain" => mutex = "writer"
  /\ gpc = "pushing" /\ ~unlocked => mutex = "game"

\* What StorageWriter waits for is set as long as its thread runs.
RunInv == wpc \in {"top", "wait", "drain", "sleep", "exit"} => running

\* A map that has never had a folder twice had none at any moment.
PastInv ==
  Loaded =>
    /\ dinoFolder \in past
    /\ ~doubled => \A t \in past : \A d \in Dino : IsInjective(t[d])

\* Of the dinos whose rows were all read, the table has what the map has.
Same(table, map) == \A d \in Dino : unread[d] = {} => table[d] = map[d]

\* Wherever the queue is cut off, the table is the map of some moment.
LagInv ==
  Loaded /\ ~dropped /\ ~doubled =>
    \A k \in 0 .. Len(Pending) : \E map \in past : Same(Replay(db, SubSeq(Pending, 1, k)), map)

IInv == TypeOK /\ HandInv /\ MutexInv /\ RunInv /\ PastInv /\ LagInv /\ Mirror

-----------------------------------------------------------------------------
(* One command, on the table and on the map.                                *)

\* What a command consists of.
LEMMA CommandParts ==
  ASSUME NEW c \in Command
  PROVE  /\ c.did \in Dino /\ c.op \in {"AddFolder", "DelFolder", "DinoDie"}
         /\ c.op # "DinoDie" => c.folder \in Folder
BY DEF Command

\* What a command does to the rows and to the entries of its dino; the others keep theirs.
LEMMA WriteOne ==
  ASSUME NEW table \in Table, NEW c \in Command, NEW d \in Dino
  PROVE  /\ d # c.did => /\ Write2Storage(table, c)[d] = table[d]
                         /\ Write2Memory(table, c)[d] = table[d]
         /\ d = c.did =>
              /\ c.op = "AddFolder" =>
                   /\ Write2Storage(table, c)[d] = Append(table[d], c.folder)
                   /\ Write2Memory(table, c)[d] = Append(table[d], c.folder)
              /\ c.op = "DelFolder" =>
                   /\ Write2Storage(table, c)[d] = Without(table[d], c.folder)
                   /\ Write2Memory(table, c)[d] =
                        IF Contains(table[d], c.folder)
                        THEN RemoveFirst(table[d], c.folder) ELSE table[d]
              /\ c.op = "DinoDie" => /\ Write2Storage(table, c)[d] = << >>
                                     /\ Write2Memory(table, c)[d] = << >>
BY CommandParts DEF Table, Write2Storage, Write2Memory

\* A command leaves a map.
LEMMA MemoryType ==
  ASSUME NEW map \in Table, NEW c \in Command
  PROVE  Write2Memory(map, c) \in Table
<1>1. ASSUME NEW d \in Dino PROVE Write2Memory(map, c)[d] \in Seq(Folder)
  <2>1. map[d] \in Seq(Folder)
    BY DEF Table
  <2>2. CASE d # c.did
    BY <2>1, <2>2, WriteOne
  <2>3. CASE d = c.did /\ c.op = "AddFolder"
    <3>1. Write2Memory(map, c)[d] = Append(map[d], c.folder)
      BY <2>3, WriteOne
    <3>2. c.folder \in Folder
      BY <2>3, CommandParts
    <3> QED
      BY <2>1, <3>1, <3>2, AppendProperties
  <2>4. CASE d = c.did /\ c.op = "DelFolder"
    <3>1. CASE Contains(map[d], c.folder)
      BY <2>1, <2>4, <3>1, WriteOne, FirstRemoved
    <3> QED
      BY <2>1, <2>4, <3>1, WriteOne
  <2>5. CASE d = c.did /\ c.op = "DinoDie"
    <3>1. Write2Memory(map, c)[d] = << >>
      BY <2>5, WriteOne
    <3> QED
      BY <3>1, EmptySeq
  <2> QED
    BY <2>2, <2>3, <2>4, <2>5, CommandParts
<1>2. \E w : Write2Memory(map, c) = [map EXCEPT ![c.did] = w]
  BY DEF Write2Memory
<1>3. Write2Memory(map, c) = [d \in Dino |-> Write2Memory(map, c)[d]]
  BY <1>2 DEF Table
<1> QED
  BY <1>1, <1>3 DEF Table

\* A folder that was not there yet does not make one appear twice.
LEMMA InjectiveAppend ==
  ASSUME NEW s \in Seq(Folder), NEW e \in Folder, IsInjective(s), ~Contains(s, e)
  PROVE  IsInjective(Append(s, e))
<1>1. Len(s) \in Nat /\ DOMAIN s = 1 .. Len(s)
  BY LenProperties
<1>2. /\ Append(s, e) \in Seq(Folder) /\ Len(Append(s, e)) = Len(s) + 1
      /\ Append(s, e)[Len(s) + 1] = e /\ \A i \in 1 .. Len(s) : Append(s, e)[i] = s[i]
  BY AppendProperties
<1>3. DOMAIN Append(s, e) = 1 .. Len(s) + 1
  BY <1>2, LenProperties
<1>4. \A i \in 1 .. Len(s) + 1 : i = Len(s) + 1 \/ i \in 1 .. Len(s)
  BY <1>1
<1>5. \A i \in 1 .. Len(s) : s[i] # e
  BY DEF Contains
<1>6. \A i, j \in 1 .. Len(s) : s[i] = s[j] => i = j
  BY <1>1 DEF IsInjective
<1> QED
  BY <1>2, <1>3, <1>4, <1>5, <1>6 DEF IsInjective

\* Nor does the removal of an entry.
LEMMA InjectiveRemove ==
  ASSUME NEW s \in Seq(Folder), NEW e, IsInjective(s), Contains(s, e)
  PROVE  IsInjective(RemoveFirst(s, e))
<1> DEFINE u == RemoveFirst(s, e)
<1>1. Len(s) \in Nat /\ DOMAIN s = 1 .. Len(s)
  BY LenProperties
<1>2. PICK r \in 1 .. Len(s) :
        /\ u \in Seq(Folder) /\ Len(u) = Len(s) - 1
        /\ \A j \in 1 .. Len(s) - 1 : u[j] = IF j < r THEN s[j] ELSE s[j + 1]
  BY FirstRemoved
<1>3. DOMAIN u = 1 .. Len(s) - 1
  BY <1>2, LenProperties
<1> HIDE DEF u
<1>4. ASSUME NEW i \in 1 .. Len(s) - 1, NEW j \in 1 .. Len(s) - 1, u[i] = u[j] PROVE i = j
  <2> DEFINE a == IF i < r THEN i ELSE i + 1
             b == IF j < r THEN j ELSE j + 1
  <2>1. a \in 1 .. Len(s) /\ b \in 1 .. Len(s) /\ (a = b => i = j)
    BY <1>1
  <2>2. u[i] = s[a] /\ u[j] = s[b]
    BY <1>2
  <2> HIDE DEF a, b
  <2> QED
    BY <1>1, <1>4, <2>1, <2>2 DEF IsInjective
<1> QED
  BY <1>3, <1>4 DEF IsInjective, u

\* With no folder twice, and none given twice, table and map are changed alike.
LEMMA WriteAlike ==
  ASSUME NEW map \in Table, NEW c \in Command, \A d \in Dino : IsInjective(map[d]),
         ~(c.op = "AddFolder" /\ Contains(map[c.did], c.folder))
  PROVE  /\ Write2Storage(map, c) = Write2Memory(map, c)
         /\ \A d \in Dino : IsInjective(Write2Memory(map, c)[d])
<1>1. ASSUME NEW d \in Dino
      PROVE  /\ Write2Storage(map, c)[d] = Write2Memory(map, c)[d]
             /\ IsInjective(Write2Memory(map, c)[d])
  <2>1. map[d] \in Seq(Folder) /\ IsInjective(map[d])
    BY DEF Table
  <2>2. CASE d # c.did
    BY <2>1, <2>2, WriteOne
  <2>3. CASE d = c.did /\ c.op = "AddFolder"
    <3>1. /\ Write2Storage(map, c)[d] = Append(map[d], c.folder)
          /\ Write2Memory(map, c)[d] = Append(map[d], c.folder)
      BY <2>3, WriteOne
    <3>2. c.folder \in Folder /\ ~Contains(map[d], c.folder)
      BY <2>3, CommandParts
    <3> QED
      BY <2>1, <3>1, <3>2, InjectiveAppend
  <2>4. CASE d = c.did /\ c.op = "DelFolder"
    <3>1. Write2Storage(map, c)[d] = Write2Memory(map, c)[d]
      BY <2>1, <2>4, WriteOne, DeletionsAgree
    <3>2. IsInjective(Write2Memory(map, c)[d])
      <4>1. CASE Contains(map[d], c.folder)
        BY <2>1, <2>4, <4>1, WriteOne, InjectiveRemove
      <4> QED
        BY <2>1, <2>4, <4>1, WriteOne
    <3> QED
      BY <3>1, <3>2
  <2>5. CASE d = c.did /\ c.op = "DinoDie"
    <3>1. IsInjective(<< >>)
      BY DEF IsInjective
    <3> QED
      BY <2>5, <3>1, WriteOne
  <2> QED
    BY <2>2, <2>3, <2>4, <2>5, CommandParts
<1>2. Write2Storage(map, c) \in Table /\ Write2Memory(map, c) \in Table
  BY WriteType, MemoryType
<1> QED
  BY <1>1, <1>2 DEF Table

\* A command that both carry out leaves the table following the map.
LEMMA WriteMatches ==
  ASSUME NEW table \in Table, NEW map \in Table, NEW c \in Command, NEW left,
         NEW before \in BOOLEAN, NEW after \in BOOLEAN, before => after,
         Matches(table, map, left, before),
         ~after => /\ \A d \in Dino : IsInjective(map[d])
                   /\ ~(c.op = "AddFolder" /\ Contains(map[c.did], c.folder))
  PROVE  Matches(Write2Storage(table, c), Write2Memory(map, c), left, after)
<1> SUFFICES ASSUME NEW d \in Dino
             PROVE  IF left[d] = {}
                    THEN /\ SubsequenceOf(Write2Storage(table, c)[d], Write2Memory(map, c)[d])
                         /\ ~after => Write2Storage(table, c)[d] = Write2Memory(map, c)[d]
                    ELSE /\ ToSet(Write2Storage(table, c)[d]) \subseteq
                              ToSet(Write2Memory(map, c)[d]) \cup left[d]
                         /\ ~after =>
                              SubsequenceOf(Write2Memory(map, c)[d], Write2Storage(table, c)[d])
  BY DEF Matches
<1> DEFINE s == table[d] t == map[d]
<1>1. /\ s \in Seq(Folder) /\ t \in Seq(Folder)
      /\ left[d] = {} => SubsequenceOf(s, t) /\ (~after => s = t)
      /\ left[d] # {} => /\ ToSet(s) \subseteq ToSet(t) \cup left[d]
                         /\ ~after => SubsequenceOf(t, s)
      /\ ~after => IsInjective(t)
  <2>1. s \in Seq(Folder) /\ t \in Seq(Folder)
    BY DEF Table
  <2>2. left[d] = {} => SubsequenceOf(s, t) /\ (~after => s = t)
    BY DEF Matches
  <2>3. left[d] # {} => /\ ToSet(s) \subseteq ToSet(t) \cup left[d]
                        /\ ~after => SubsequenceOf(t, s)
    BY DEF Matches
  <2>4. ~after => IsInjective(t)
    OBVIOUS
  <2> HIDE DEF s, t
  <2> QED
    BY <2>1, <2>2, <2>3, <2>4
<1>2. CASE d # c.did
  <2>1. Write2Storage(table, c)[d] = s /\ Write2Memory(map, c)[d] = t
    BY <1>2, WriteOne
  <2> HIDE DEF s, t
  <2> QED
    BY <1>1, <2>1
<1>3. CASE d = c.did /\ c.op = "AddFolder"
  <2>1. /\ Write2Storage(table, c)[d] = Append(s, c.folder)
        /\ Write2Memory(map, c)[d] = Append(t, c.folder)
    BY <1>3, WriteOne
  <2>2. c.folder \in Folder
    BY <1>3, CommandParts
  <2> HIDE DEF s, t
  <2>3. /\ SubsequenceOf(s, t) => SubsequenceOf(Append(s, c.folder), Append(t, c.folder))
        /\ SubsequenceOf(t, s) => SubsequenceOf(Append(t, c.folder), Append(s, c.folder))
    BY <1>1, <2>2, SubsequenceAppend
  <2>4. ToSet(s) \subseteq ToSet(t) \cup left[d] =>
          ToSet(Append(s, c.folder)) \subseteq ToSet(Append(t, c.folder)) \cup left[d]
    BY <1>1, <2>2, OutsideKept
  <2> QED
    BY <1>1, <2>1, <2>3, <2>4
<1>4. CASE d = c.did /\ c.op = "DelFolder"
  <2> DEFINE e == c.folder
             w == Without(s, e)
             u == IF Contains(t, e) THEN RemoveFirst(t, e) ELSE t
  <2>1. Write2Storage(table, c)[d] = w /\ Write2Memory(map, c)[d] = u
    BY <1>4, WriteOne
  <2> HIDE DEF s, t, e
  <2>2. ~after => u = Without(t, e)
    BY <1>1, DeletionsAgree
  <2>3. SubsequenceOf(s, t) => SubsequenceOf(w, u)
    BY <1>1, SubsequenceDelete
  <2>4. ToSet(s) \subseteq ToSet(t) \cup left[d] => ToSet(w) \subseteq ToSet(u) \cup left[d]
    BY <1>1, OutsideKept
  <2>5. SubsequenceOf(t, s) => SubsequenceOf(Without(t, e), w)
    BY <1>1, SubsequenceWithout
  <2>6. ~after /\ s = t => w = u
    BY <2>2
  <2> HIDE DEF w, u
  <2> QED
    BY <1>1, <2>1, <2>2, <2>3, <2>4, <2>5, <2>6
<1>5. CASE d = c.did /\ c.op = "DinoDie"
  <2>1. Write2Storage(table, c)[d] = << >> /\ Write2Memory(map, c)[d] = << >>
    BY <1>5, WriteOne
  <2>2. SubsequenceOf(<< >>, << >>)
    BY SubsequenceSelf, EmptySeq
  <2> QED
    BY <2>1, <2>2
<1> QED
  BY <1>2, <1>3, <1>4, <1>5, CommandParts

-----------------------------------------------------------------------------
(* Every step keeps the invariant.                                          *)

\* The table with no rows.
LEMMA EmptyTable == Empty \in Table
BY EmptySeq DEF Empty, Table

\* It holds before the first session.
LEMMA InitInvariant == Init => IInv
<1> SUFFICES ASSUME Init PROVE IInv
  OBVIOUS
<1>1. TypeOK
  <2>1. Empty \in Table /\ << >> \in Seq(Command)
    BY EmptyTable, EmptySeq
  <2>2. 0 \in Nat /\ 0 \in 0 .. MaxCommands /\ 0 \in 0 .. MaxSessions
    BY StorageAssumption
  <2> QED
    BY <2>1, <2>2 DEF Init, TypeOK
<1>2. ~Loaded
  BY DEF Init, Loaded
<1> QED
  BY <1>1, <1>2 DEF Init, IInv, HandInv, MutexInv, RunInv, PastInv, LagInv, Mirror

\* What is queued and in hand is a list of commands.
LEMMA PendingType == TypeOK => Pending \in Seq(Command) /\ Len(Pending) \in Nat
<1> SUFFICES ASSUME TypeOK PROVE Pending \in Seq(Command)
  BY LenProperties
<1> QED
  BY ConcatProperties DEF TypeOK, Pending

\* What is queued and in hand, and what it leads to, is what it was.
LEMMA SameLag ==
  ASSUME IInv, UNCHANGED <<db, dinoFolder, past, doubled, unread>>, Pending' = Pending,
         Loaded' => Loaded, dropped => dropped'
  PROVE  PastInv' /\ LagInv' /\ Mirror'
<1>1. PastInv'
  BY DEF IInv, PastInv
<1>2. LagInv'
  BY DEF IInv, LagInv, Same
<1>3. Mirror'
  BY DEF IInv, Mirror, Matches
<1> QED
  BY <1>1, <1>2, <1>3

\* With no session there is nothing to follow.
LEMMA NotLoaded == ~Loaded' => PastInv' /\ LagInv' /\ Mirror'
BY DEF PastInv, LagInv, Mirror

\* What a load takes over: of each dino a beginning of its rows.
LEMMA LoadedPart ==
  ASSUME IInv, Load \/ LoadCutOff
  PROVE  \E map \in Table :
           /\ LoadMap(map)
           /\ \A d \in Dino : \E n \in 0 .. Len(db[d]) : map[d] = SubSeq(db[d], 1, n)
<1>1. /\ db \in Table
      /\ \A d \in Dino : /\ db[d] \in Seq(Folder) /\ Len(db[d]) \in Nat
                          /\ SubSeq(db[d], 1, Len(db[d])) = db[d] /\ SubSeq(db[d], 1, 0) = << >>
                          /\ 0 \in 0 .. Len(db[d]) /\ Len(db[d]) \in 0 .. Len(db[d])
  BY SubSeqFull, SubSeqEmpty, LenProperties DEF IInv, TypeOK, Table
<1>2. CASE Load
  <2>1. LoadMap(db) /\ \A d \in Dino : \E n \in 0 .. Len(db[d]) : db[d] = SubSeq(db[d], 1, n)
    BY <1>1, <1>2 DEF Load
  <2> QED
    BY <1>1, <2>1
<1>3. CASE LoadCutOff
  <2>1. PICK before \in SUBSET Dino, e \in Dino : \E n \in 0 .. Len(db[e]) :
          LoadMap([x \in Dino |-> IF x = e THEN SubSeq(db[x], 1, n)
                                 ELSE IF x \in before THEN db[x] ELSE << >>])
    BY <1>3 DEF LoadCutOff
  <2>2. PICK n \in 0 .. Len(db[e]) :
          LoadMap([x \in Dino |-> IF x = e THEN SubSeq(db[x], 1, n)
                                 ELSE IF x \in before THEN db[x] ELSE << >>])
    BY <2>1
  <2> DEFINE map == [x \in Dino |-> IF x = e THEN SubSeq(db[x], 1, n)
                                   ELSE IF x \in before THEN db[x] ELSE << >>]
  <2>3. ASSUME NEW d \in Dino
        PROVE  \E k \in 0 .. Len(db[d]) : map[d] = SubSeq(db[d], 1, k)
    <3>1. map[d] = IF d = e THEN SubSeq(db[d], 1, n)
                   ELSE IF d \in before THEN db[d] ELSE << >>
      OBVIOUS
    <3> HIDE DEF map
    <3> QED
      BY <1>1, <3>1
  <2>4. \A d \in Dino : map[d] \in Seq(Folder)
    <3> HIDE DEF map
    <3> QED
      BY <1>1, <2>3, PrefixOf
  <2>5. map \in Table
    <3>1. map = [d \in Dino |-> map[d]]
      OBVIOUS
    <3> HIDE DEF map
    <3> QED
      BY <2>4, <3>1 DEF Table
  <2>6. LoadMap(map)
    BY <2>2
  <2> HIDE DEF map
  <2> QED
    BY <2>3, <2>5, <2>6
<1> QED
  BY <1>2, <1>3

\* A new session starts with the map that it read, and an empty queue.
LEMMA LoadInvariant == IInv /\ (Load \/ LoadCutOff) => IInv'
<1> SUFFICES ASSUME IInv, Load \/ LoadCutOff PROVE IInv'
  OBVIOUS
<1>0. PICK map \in Table :
        /\ LoadMap(map)
        /\ \A d \in Dino : \E n \in 0 .. Len(db[d]) : map[d] = SubSeq(db[d], 1, n)
  BY LoadedPart
<1>1. db \in Table /\ \A d \in Dino : db[d] \in Seq(Folder)
  BY DEF IInv, TypeOK, Table
<1>2. ASSUME NEW d \in Dino
      PROVE  /\ Left(db[d], map[d]) \in SUBSET Folder
             /\ ToSet(db[d]) \subseteq ToSet(map[d]) \cup Left(db[d], map[d])
             /\ Left(db[d], map[d]) = {} => map[d] = db[d]
             /\ SubsequenceOf(map[d], db[d])
             /\ IsInjective(db[d]) => IsInjective(map[d])
  <2>1. PICK n \in 0 .. Len(db[d]) : map[d] = SubSeq(db[d], 1, n)
    BY <1>0
  <2>2. db[d] \in Seq(Folder)
    BY <1>1
  <2>3. /\ Left(db[d], SubSeq(db[d], 1, n)) \in SUBSET Folder
        /\ ToSet(db[d]) \subseteq ToSet(SubSeq(db[d], 1, n)) \cup Left(db[d], SubSeq(db[d], 1, n))
        /\ Left(db[d], SubSeq(db[d], 1, n)) = {} => SubSeq(db[d], 1, n) = db[d]
    BY <2>2, LeftOut
  <2>4. /\ SubsequenceOf(SubSeq(db[d], 1, n), db[d])
        /\ IsInjective(db[d]) => IsInjective(SubSeq(db[d], 1, n))
    BY <2>2, SubsequencePrefix
  <2> QED
    BY <2>1, <2>3, <2>4
<1>3. /\ db' = db /\ dinoFolder' = map /\ past' = {map} /\ cmds' = << >> /\ inHand' = << >>
      /\ unread' = [d \in Dino |-> Left(db[d], map[d])]
      /\ doubled' = (doubled \/ \E d \in Dino : ~IsInjective(db[d]))
  BY <1>0 DEF LoadMap
<1>4. TypeOK'
  <2>1. << >> \in Seq(Command) /\ db' \in Table /\ past' \subseteq Table /\ dinoFolder' \in Table
    BY <1>1, <1>3, EmptySeq
  <2>2. queueSize' \in Nat /\ sessions' \in 0 .. MaxSessions /\ issued' \in 0 .. MaxCommands
    BY <1>0, StorageAssumption DEF IInv, TypeOK, LoadMap
  <2>3. unread' \in [Dino -> SUBSET Folder]
    BY <1>2, <1>3
  <2> QED
    BY <1>0, <1>3, <2>1, <2>2, <2>3 DEF LoadMap, TypeOK
<1>5. HandInv' /\ MutexInv' /\ RunInv'
  BY <1>0 DEF LoadMap, HandInv, MutexInv, RunInv
<1>6. PastInv'
  <2>1. ~doubled' => \A d \in Dino : IsInjective(map[d])
    BY <1>2, <1>3
  <2> QED
    BY <1>3, <2>1 DEF PastInv
<1>7. Pending' = << >> /\ Len(<< >>) = 0 /\ << >> \in Seq(Command)
  <2>1. << >> \in Seq(Command) /\ Len(<< >>) = 0
    BY EmptySeq
  <2>2. << >> \o << >> = << >>
    BY <2>1, ConcatEmptySeq
  <2> QED
    BY <1>3, <2>1, <2>2 DEF Pending
<1>8. Replay(db, << >>) = db
  BY <1>1, ReplayNone
<1>9. \A d \in Dino : unread'[d] = Left(db[d], map[d])
  BY <1>3
<1>10. LagInv'
  <2>1. ASSUME NEW k \in 0 .. Len(Pending')
        PROVE  \E m \in past' : \A d \in Dino :
                 unread'[d] = {} => Replay(db', SubSeq(Pending', 1, k))[d] = m[d]
    <3>1. k \in 0 .. 0
      BY <1>7
    <3>2. SubSeq(Pending', 1, k) = << >>
      BY <1>7, <3>1, SubSeqEmpty
    <3>3. Replay(db', SubSeq(Pending', 1, k)) = db
      BY <1>3, <1>8, <3>2
    <3> QED
      BY <1>2, <1>3, <1>9, <3>3
  <2> QED
    BY <2>1 DEF LagInv, Same
<1>11. Mirror'
  <2>1. ASSUME NEW d \in Dino
        PROVE  IF unread'[d] = {}
               THEN /\ SubsequenceOf(db[d], map[d])
                    /\ ~doubled' => db[d] = map[d]
               ELSE /\ ToSet(db[d]) \subseteq ToSet(map[d]) \cup unread'[d]
                    /\ ~doubled' => SubsequenceOf(map[d], db[d])
    BY <1>2, <1>9
  <2> QED
    BY <1>3, <1>7, <1>8, <2>1 DEF Mirror, Matches
<1> QED
  BY <1>4, <1>5, <1>6, <1>10, <1>11 DEF IInv

\* A push adds one map to the past, and one command to what leads to it.
LEMMA PushInvariant ==
  ASSUME IInv, NEW c \in Command, Push(c)
  PROVE  IInv'
<1>1. /\ gpc = "idle" /\ db' = db /\ cmds' = cmds
      /\ dinoFolder' = Write2Memory(dinoFolder, c) /\ past' = past \cup {dinoFolder'}
      /\ doubled' = (doubled \/ (c.op = "AddFolder" /\ Contains(dinoFolder[c.did], c.folder)))
      /\ UNCHANGED <<mutex, exitFlag, running, queueSize, wpc, sessions, unlocked, timedOut,
                     unread>>
  BY DEF Push, flagVars
<1>2. \/ exitFlag /\ dropped' = TRUE /\ UNCHANGED <<inHand, gpc>>
      \/ ~exitFlag /\ inHand' = <<c>> /\ gpc' = "wait" /\ dropped' = dropped
  BY DEF Push
<1>3. db \in Table /\ dinoFolder \in Table /\ dinoFolder' \in Table
  BY <1>1, MemoryType DEF IInv, TypeOK
<1>4. TypeOK'
  <2>1. <<c>> \in Seq(Command)
    OBVIOUS
  <2>2. issued' \in 0 .. MaxCommands
    BY StorageAssumption DEF IInv, TypeOK, Push
  <2> QED
    BY <1>1, <1>2, <1>3, <2>1, <2>2 DEF IInv, TypeOK
<1>5. HandInv' /\ MutexInv' /\ RunInv'
  BY <1>1, <1>2 DEF IInv, HandInv, MutexInv, RunInv
<1>6. Loaded /\ inHand = << >>
  BY <1>1 DEF Loaded, IInv, HandInv
<1>7. PastInv'
  <2>1. ASSUME ~doubled' PROVE \A d \in Dino : IsInjective(dinoFolder'[d])
    <3>1. ~doubled /\ ~(c.op = "AddFolder" /\ Contains(dinoFolder[c.did], c.folder))
      BY <1>1, <2>1 DEF IInv, TypeOK
    <3>2. \A d \in Dino : IsInjective(dinoFolder[d])
      BY <1>6, <3>1 DEF IInv, PastInv
    <3> QED
      BY <1>1, <1>3, <3>1, <3>2, WriteAlike
  <2>2. ~doubled' => ~doubled
    BY <1>1
  <2> QED
    BY <1>1, <1>6, <2>1, <2>2 DEF IInv, PastInv
<1>8. LagInv' /\ Mirror'
  <2>1. CASE dropped'
    BY <2>1 DEF LagInv, Mirror
  <2>2. CASE ~dropped'
    <3>1. ~dropped /\ inHand' = <<c>>
      BY <1>2, <2>2
    <3>2. Pending \in Seq(Command) /\ Len(Pending) \in Nat
      BY PendingType DEF IInv
    <3>3. Pending' = Append(Pending, c)
      <4>1. cmds \in Seq(Command) /\ << >> \in Seq(Command)
        BY EmptySeq DEF IInv, TypeOK
      <4>2. Pending = cmds
        BY <1>6, <4>1, ConcatEmptySeq DEF Pending
      <4>3. cmds \o <<c>> = Append(cmds, c)
        BY <4>1, AppendIsConcat
      <4> QED
        BY <1>1, <3>1, <4>2, <4>3 DEF Pending
    <3>4. /\ Replay(db, Pending) \in Table
          /\ Replay(db, Append(Pending, c)) = Write2Storage(Replay(db, Pending), c)
      BY <1>3, <3>2, ReplayAppend
    <3>5. Matches(Replay(db, Append(Pending, c)), dinoFolder', unread, doubled')
      <4>1. Matches(Replay(db, Pending), dinoFolder, unread, doubled)
        BY <1>6, <3>1 DEF IInv, Mirror, Matches
      <4>2. ASSUME ~doubled'
            PROVE  /\ \A d \in Dino : IsInjective(dinoFolder[d])
                   /\ ~(c.op = "AddFolder" /\ Contains(dinoFolder[c.did], c.folder))
        <5>1. ~doubled
          BY <1>1, <4>2 DEF IInv, TypeOK
        <5> QED
          BY <1>1, <1>6, <4>2, <5>1 DEF IInv, PastInv
      <4>3. (doubled => doubled') /\ doubled \in BOOLEAN /\ doubled' \in BOOLEAN
        BY <1>1, <1>4 DEF IInv, TypeOK
      <4> QED
        BY <1>1, <1>3, <3>4, <4>1, <4>2, <4>3, WriteMatches
    <3>6. Mirror'
      BY <1>1, <3>3, <3>5 DEF Mirror, Matches
    <3>7. LagInv'
      <4> SUFFICES ASSUME ~doubled', NEW k \in 0 .. Len(Append(Pending, c))
                   PROVE  \E m \in past' :
                            Same(Replay(db, SubSeq(Append(Pending, c), 1, k)), m)
        BY <1>1, <3>3 DEF LagInv, Same
      <4>1. Len(Append(Pending, c)) = Len(Pending) + 1 /\ Append(Pending, c) \in Seq(Command)
        BY <3>2, AppendProperties
      <4>2. CASE k = Len(Pending) + 1
        <5>1. SubSeq(Append(Pending, c), 1, k) = Append(Pending, c)
          BY <4>1, <4>2, SubSeqFull
        <5>2. Same(Replay(db, Append(Pending, c)), dinoFolder')
          BY <1>1, <3>5 DEF Matches, Same
        <5> QED
          BY <1>1, <5>1, <5>2
      <4>3. CASE k \in 0 .. Len(Pending)
        <5>1. SubSeq(Append(Pending, c), 1, k) = SubSeq(Pending, 1, k)
          BY <3>2, <4>3, PrefixOfAppend
        <5>2. ~doubled
          BY <1>1 DEF IInv, TypeOK
        <5>3. \E m \in past : Same(Replay(db, SubSeq(Pending, 1, k)), m)
          BY <1>6, <3>1, <4>3, <5>2 DEF IInv, LagInv
        <5> QED
          BY <1>1, <5>1, <5>3
      <4> QED
        BY <3>2, <4>1, <4>2, <4>3
    <3> QED
      BY <3>6, <3>7
  <2> QED
    BY <2>1, <2>2
<1> QED
  BY <1>4, <1>5, <1>7, <1>8 DEF IInv

\* The command goes from the hand to the queue, or is lost and counted as dropped.
LEMMA PushReleaseInvariant == IInv /\ PushRelease => IInv'
<1> SUFFICES ASSUME IInv, PushRelease PROVE IInv'
  OBVIOUS
<1>1. Pending \in Seq(Command)
  BY PendingType DEF IInv
<1>2. TypeOK'
  BY <1>1, EmptySeq DEF IInv, TypeOK, PushRelease, flagVars
<1>3. HandInv' /\ MutexInv' /\ RunInv'
  BY DEF IInv, HandInv, MutexInv, RunInv, PushRelease, flagVars
<1>4. PastInv'
  BY DEF IInv, PastInv, PushRelease, Loaded
<1>5. CASE dropped'
  BY <1>2, <1>3, <1>4, <1>5 DEF IInv, LagInv, Mirror
<1>6. CASE ~dropped'
  <2>1. cmds' = Pending /\ inHand' = << >> /\ dropped' = dropped
    BY <1>6 DEF PushRelease
  <2>2. Pending' = Pending
    BY <1>1, <2>1, ConcatEmptySeq DEF Pending
  <2>3. UNCHANGED <<db, dinoFolder, past, doubled, unread>> /\ (Loaded' => Loaded)
    BY DEF PushRelease, Loaded
  <2>4. PastInv' /\ LagInv' /\ Mirror'
    BY <2>1, <2>2, <2>3, SameLag
  <2> QED
    BY <1>2, <1>3, <2>4 DEF IInv
<1> QED
  BY <1>5, <1>6

\* The writer moves one command from the queue to the table.
LEMMA ApplyInvariant == IInv /\ Apply => IInv'
<1> SUFFICES ASSUME IInv, Apply PROVE IInv'
  OBVIOUS
<1>1. /\ wpc = "drain" /\ cmds # << >> /\ db' = Write2Storage(db, Head(cmds))
      /\ cmds' = Tail(cmds)
      /\ UNCHANGED <<dinoFolder, inHand, mutex, flagVars, gpc, wpc, history>>
  BY DEF Apply
<1>2. /\ cmds \in Seq(Command) /\ inHand \in Seq(Command) /\ db \in Table
      /\ Head(cmds) \in Command /\ Tail(cmds) \in Seq(Command)
  BY <1>1, HeadTailProperties DEF IInv, TypeOK
<1>3. TypeOK'
  BY <1>1, <1>2, WriteType DEF IInv, TypeOK, flagVars, history
<1>4. HandInv' /\ MutexInv' /\ RunInv' /\ PastInv'
  BY <1>1 DEF IInv, HandInv, MutexInv, RunInv, PastInv, Loaded, flagVars, history
<1>5. Pending \in Seq(Command) /\ Pending # << >> /\ Head(Pending) = Head(cmds)
      /\ Pending' = Tail(Pending) /\ Len(Pending) \in Nat
  <2>1. /\ Pending \in Seq(Command) /\ Len(Pending) = Len(cmds) + Len(inHand)
        /\ \A i \in 1 .. Len(cmds) + Len(inHand) :
             Pending[i] = IF i <= Len(cmds) THEN cmds[i] ELSE inHand[i - Len(cmds)]
    BY <1>2, ConcatProperties DEF Pending
  <2>2. Len(cmds) \in Nat \ {0} /\ Len(inHand) \in Nat
    BY <1>1, <1>2, EmptySeq, LenProperties
  <2>3. Pending # << >> /\ Head(Pending) = Head(cmds)
    <3>1. Len(Pending) # 0 /\ Pending[1] = cmds[1]
      BY <2>1, <2>2
    <3>2. Pending # << >>
      BY <3>1, EmptySeq
    <3> QED
      BY <1>1, <1>2, <2>1, <3>1, <3>2
  <2>4. /\ Tail(Pending) \in Seq(Command) /\ Len(Tail(Pending)) = Len(Pending) - 1
        /\ \A i \in 1 .. Len(Tail(Pending)) : Tail(Pending)[i] = Pending[i + 1]
    BY <2>1, <2>3, HeadTailProperties
  <2>5. /\ Len(Tail(cmds)) = Len(cmds) - 1
        /\ \A i \in 1 .. Len(Tail(cmds)) : Tail(cmds)[i] = cmds[i + 1]
    BY <1>1, <1>2, HeadTailProperties
  <2>6. /\ Tail(cmds) \o inHand \in Seq(Command)
        /\ Len(Tail(cmds) \o inHand) = Len(Tail(cmds)) + Len(inHand)
        /\ \A i \in 1 .. Len(Tail(cmds)) + Len(inHand) :
             (Tail(cmds) \o inHand)[i] =
               IF i <= Len(Tail(cmds)) THEN Tail(cmds)[i] ELSE inHand[i - Len(Tail(cmds))]
    BY <1>2, ConcatProperties
  <2>7. Len(Tail(cmds) \o inHand) = Len(Tail(Pending))
    BY <2>1, <2>2, <2>4, <2>5, <2>6
  <2>8. ASSUME NEW i \in 1 .. Len(Tail(cmds) \o inHand)
        PROVE  (Tail(cmds) \o inHand)[i] = Tail(Pending)[i]
    <3> DEFINE m == Len(cmds) n == Len(inHand)
    <3>1. i \in 1 .. m - 1 + n /\ m \in Nat \ {0} /\ n \in Nat
      BY <2>2, <2>5, <2>6
    <3>2. Tail(Pending)[i] = IF i + 1 <= m THEN cmds[i + 1] ELSE inHand[i + 1 - m]
      <4>1. i \in 1 .. Len(Tail(Pending)) /\ i + 1 \in 1 .. m + n
        BY <2>7, <3>1
      <4> QED
        BY <2>1, <2>4, <4>1
    <3>3. (Tail(cmds) \o inHand)[i] = IF i <= m - 1 THEN cmds[i + 1] ELSE inHand[i - (m - 1)]
      <4>1. i \in 1 .. Len(Tail(cmds)) + Len(inHand) /\ Len(Tail(cmds)) = m - 1
        BY <2>5, <2>6
      <4>2. (Tail(cmds) \o inHand)[i] =
              IF i <= Len(Tail(cmds)) THEN Tail(cmds)[i] ELSE inHand[i - Len(Tail(cmds))]
        BY <2>6, <4>1
      <4>3. i <= m - 1 => Tail(cmds)[i] = cmds[i + 1]
        <5>1. i <= m - 1 => i \in 1 .. Len(Tail(cmds))
          BY <3>1, <4>1
        <5> QED
          BY <2>5, <5>1
      <4> QED
        BY <4>1, <4>2, <4>3
    <3>4. (i <= m - 1 <=> i + 1 <= m) /\ i + 1 - m = i - (m - 1)
      BY ONLY <3>1
    <3> HIDE DEF m, n
    <3>5. CASE i <= m - 1
      BY <3>2, <3>3, <3>4, <3>5
    <3>6. CASE ~(i <= m - 1)
      BY <3>2, <3>3, <3>4, <3>6
    <3> QED
      BY <3>5, <3>6
  <2>9. Tail(cmds) \o inHand = Tail(Pending)
    BY <2>4, <2>6, <2>7, <2>8, SeqEqual
  <2> QED
    BY <1>1, <2>1, <2>2, <2>3, <2>9 DEF Pending
<1>6. /\ Write2Storage(db, Head(Pending)) \in Table
      /\ Replay(db', Pending') = Replay(db, Pending)
  BY <1>1, <1>2, <1>5, ReplayHead
<1>7. Mirror'
  BY <1>1, <1>6 DEF IInv, Mirror, Matches, Loaded, history
<1>8. LagInv'
  <2> SUFFICES ASSUME Loaded, ~dropped, ~doubled, NEW k \in 0 .. Len(Tail(Pending))
               PROVE  \E m \in past : Same(Replay(db', SubSeq(Tail(Pending), 1, k)), m)
    BY <1>1, <1>5 DEF LagInv, Same, Loaded, history
  <2>1. k \in 0 .. Len(Pending) - 1 /\ k + 1 \in 0 .. Len(Pending)
    BY <1>5, HeadTailProperties
  <2>2. /\ SubSeq(Pending, 1, k + 1) \in Seq(Command) /\ SubSeq(Pending, 1, k + 1) # << >>
        /\ Head(SubSeq(Pending, 1, k + 1)) = Head(Pending)
        /\ Tail(SubSeq(Pending, 1, k + 1)) = SubSeq(Tail(Pending), 1, k)
    BY <1>5, <2>1, PrefixOfTail
  <2>3. Replay(db', SubSeq(Tail(Pending), 1, k)) = Replay(db, SubSeq(Pending, 1, k + 1))
    <3> DEFINE it == SubSeq(Pending, 1, k + 1)
    <3>1. it \in Seq(Command) /\ it # << >> /\ Head(it) = Head(cmds)
          /\ Tail(it) = SubSeq(Tail(Pending), 1, k)
      BY <1>5, <2>2
    <3> HIDE DEF it
    <3>2. Replay(Write2Storage(db, Head(it)), Tail(it)) = Replay(db, it)
      BY <1>2, <3>1, ReplayHead
    <3>3. Replay(db', SubSeq(Tail(Pending), 1, k)) = Replay(db, it)
      BY <1>1, <3>1, <3>2
    <3> QED
      BY <3>3 DEF it
  <2> QED
    BY <2>1, <2>3 DEF IInv, LagInv
<1> QED
  BY <1>3, <1>4, <1>7, <1>8 DEF IInv

\* The steps that leave the queue and what it leads to alone.
LEMMA ControlInvariant ==
  IInv /\ (PushAcquire \/ StopBegin \/ Start \/ CheckExit \/ Acquire \/ AcquireFails \/ Release
           \/ Wake \/ Exit) => IInv'
<1> SUFFICES ASSUME IInv, PushAcquire \/ StopBegin \/ Start \/ CheckExit \/ Acquire
                          \/ AcquireFails \/ Release \/ Wake \/ Exit
             PROVE  IInv'
  OBVIOUS
<1> USE DEF PushAcquire, StopBegin, Start, CheckExit, Acquire, AcquireFails, Release, Wake, Exit,
            queueVars, flagVars, history
<1>1. TypeOK'
  <2>1. UNCHANGED <<db, dinoFolder, cmds, inHand, issued, sessions, dropped, doubled, timedOut,
                    unread, past>>
    OBVIOUS
  <2>2. mutex' \in {"none", "free", "game", "writer"} /\ queueSize' \in Nat
    BY DEF IInv, TypeOK
  <2>3. exitFlag' \in BOOLEAN /\ running' \in BOOLEAN
    BY DEF IInv, TypeOK
  <2>4. unlocked' \in BOOLEAN
    BY DEF IInv, TypeOK
  <2>5. gpc' \in {"unloaded", "idle", "wait", "pushing", "stopping", "gone"}
    BY DEF IInv, TypeOK
  <2>6. wpc' \in {"none", "unstarted", "top", "wait", "drain", "sleep", "exit", "stopped"}
    BY DEF IInv, TypeOK
  <2>7. TypeOK
    BY DEF IInv
  <2> QED
    BY ONLY <2>1, <2>2, <2>3, <2>4, <2>5, <2>6, <2>7 DEF TypeOK
<1>2. HandInv'
  BY DEF IInv, HandInv
<1>3. MutexInv'
  BY DEF IInv, MutexInv
<1>4. RunInv'
  BY DEF IInv, RunInv
<1>5. UNCHANGED <<db, dinoFolder, cmds, inHand, past, dropped, doubled, unread>>
      /\ (Loaded' => Loaded)
  BY DEF Loaded
<1>6. Pending' = Pending
  BY <1>5 DEF Pending
<1>7. PastInv' /\ LagInv' /\ Mirror'
  BY <1>5, <1>6, SameLag
<1> QED
  BY <1>1, <1>2, <1>3, <1>4, <1>7 DEF IInv

\* The steps after which no session is left.
LEMMA EndInvariant == IInv /\ (StopEnd \/ Unloaded \/ Crash) => IInv'
<1> SUFFICES ASSUME IInv, StopEnd \/ Unloaded \/ Crash PROVE IInv'
  OBVIOUS
<1> USE DEF StopEnd, Unloaded, Crash, queueVars, flagVars
<1>1. TypeOK'
  <2>1. TypeOK /\ Empty \in Table /\ << >> \in Seq(Command) /\ {} \subseteq Table
    BY EmptyTable, EmptySeq DEF IInv
  <2>2. CASE StopEnd
    BY <2>1, <2>2 DEF TypeOK
  <2>3. CASE Unloaded
    BY <2>1, <2>3 DEF TypeOK
  <2>4. CASE Crash
    BY <2>1, <2>4 DEF TypeOK
  <2> QED
    BY <2>2, <2>3, <2>4
<1>2. HandInv' /\ MutexInv' /\ RunInv'
  BY DEF IInv, HandInv, MutexInv, RunInv
<1>3. ~Loaded'
  BY DEF Loaded
<1> QED
  BY <1>1, <1>2, <1>3, NotLoaded DEF IInv

\* A command that fails is counted as dropped.
LEMMA ApplyFailsInvariant == IInv /\ ApplyFails => IInv'
<1> SUFFICES ASSUME IInv, ApplyFails PROVE IInv'
  OBVIOUS
<1>1. TypeOK'
  BY HeadTailProperties DEF IInv, TypeOK, ApplyFails, flagVars
<1>2. HandInv' /\ MutexInv' /\ RunInv' /\ PastInv'
  BY DEF IInv, HandInv, MutexInv, RunInv, PastInv, Loaded, ApplyFails, flagVars
<1>3. LagInv' /\ Mirror'
  BY DEF ApplyFails, LagInv, Mirror
<1> QED
  BY <1>1, <1>2, <1>3 DEF IInv

\* Every step keeps the invariant.
LEMMA StepInvariant == IInv /\ [Next]_vars => IInv'
<1> SUFFICES ASSUME IInv, [Next]_vars PROVE IInv'
  OBVIOUS
<1>1. CASE Load \/ LoadCutOff
  BY <1>1, LoadInvariant
<1>2. CASE \E c \in Command : Push(c)
  BY <1>2, PushInvariant
<1>3. CASE PushRelease
  BY <1>3, PushReleaseInvariant
<1>4. CASE Apply \/ ApplyFails
  BY <1>4, ApplyInvariant, ApplyFailsInvariant
<1>5. CASE PushAcquire \/ StopBegin \/ Start \/ CheckExit \/ Acquire \/ AcquireFails \/ Release
           \/ Wake \/ Exit
  BY <1>5, ControlInvariant
<1>6. CASE StopEnd \/ Unloaded \/ Crash
  BY <1>6, EndInvariant
<1>7. CASE UNCHANGED vars
  <2>1. UNCHANGED <<db, dinoFolder, cmds, inHand, past, dropped, doubled, unread>>
        /\ Loaded' = Loaded
    BY <1>7 DEF vars, queueVars, history, Loaded
  <2>2. PastInv' /\ LagInv' /\ Mirror'
    BY <2>1, SameLag DEF Pending
  <2> QED
    BY <1>7, <2>2 DEF vars, queueVars, flagVars, history, IInv, TypeOK, HandInv, MutexInv, RunInv
<1> QED
  BY <1>1, <1>2, <1>3, <1>4, <1>5, <1>6, <1>7 DEF Next, Game, Writer, Done

\* The invariant holds always.
LEMMA Invariance == Spec => []IInv
BY InitInvariant, StepInvariant, PTL DEF Spec

\* The types of Storage, and that the push and the thread are in the queue at once only if
\* the push found no mutex: afterwards they exclude each other (M_storage.cpp 144-330).
THEOREM StorageInvariant == Spec => []Inv
<1>1. IInv => Inv
  BY DEF IInv, MutexInv, Inv, RaceOnlyAtStart
<1> QED
  BY <1>1, Invariance, PTL

\* The table lags behind the map by exactly the commands that are queued, and whenever the
\* process dies it has the folders of one moment; of the dinos of which a load that failed
\* has left rows unread, it has these folders besides (M_storage.cpp 147-160, 259-330).
THEOREM TableFollows == Spec => []TableTrue
<1>1. IInv => PointInTime
  <2> SUFFICES ASSUME IInv, Loaded, ~dropped, ~doubled PROVE \E map \in past : Same(db, map)
    BY DEF PointInTime, Same
  <2>1. Len(Pending) \in Nat /\ SubSeq(Pending, 1, 0) = << >>
    BY PendingType, SubSeqEmpty DEF IInv
  <2>2. Replay(db, << >>) = db
    BY ReplayNone DEF IInv, TypeOK
  <2>3. 0 \in 0 .. Len(Pending)
    BY <2>1
  <2> QED
    BY <2>1, <2>2, <2>3 DEF IInv, LagInv
<1>2. IInv => Mirror
  BY DEF IInv
<1> QED
  BY <1>1, <1>2, Invariance, PTL DEF TableTrue

-----------------------------------------------------------------------------
(* Stopping.                                                                *)

\* What the destructor leaves behind.
AllApplied ==
  gpc = "gone" /\ ~timedOut /\ ~dropped => Matches(db, dinoFolder, unread, doubled)

\* What remains true of session n once it has: the thread does not end before it has
\* emptied the queue, to which nothing is added.
Emptying(n) ==
  \/ /\ sessions = n /\ gpc = "stopping"
     /\ \/ wpc \in {"wait", "drain"}
        \/ wpc \in {"sleep", "top", "exit", "stopped"} /\ cmds = << >>
  \/ sessions = n /\ gpc = "gone" /\ AllApplied
  \/ sessions = n /\ gpc = "unloaded"
  \/ sessions > n

\* No step puts an end to that.
LEMMA EmptyingKept ==
  ASSUME NEW n \in Nat, IInv, Emptying(n), [Next]_vars
  PROVE  Emptying(n)'
<1>1. sessions \in Nat
  BY StorageAssumption DEF IInv, TypeOK
<1>2. sessions' = sessions \/ Load \/ LoadCutOff
  BY DEF Next, Game, Writer, Done, vars, Push, PushAcquire, PushRelease, StopBegin, StopEnd,
         Unloaded, Crash, Start, CheckExit, Acquire, AcquireFails, Apply, ApplyFails, Release,
         Wake, Exit, history
<1>3. CASE sessions > n \/ Load \/ LoadCutOff
  <2>1. Load \/ LoadCutOff => sessions' = sessions + 1 /\ gpc = "unloaded"
    BY DEF Load, LoadCutOff, LoadMap
  <2>2. sessions' > n
    BY <1>1, <1>2, <1>3, <2>1 DEF Emptying
  <2> QED
    BY <2>2 DEF Emptying
<1>4. CASE sessions' = sessions /\ sessions = n /\ gpc = "unloaded"
  <2>1. gpc' = gpc \/ Load \/ LoadCutOff
    BY <1>4 DEF Next, Game, Writer, Done, vars, Push, PushAcquire, PushRelease, StopBegin,
         StopEnd, Unloaded, Crash, Start, CheckExit, Acquire, AcquireFails, Apply, ApplyFails,
         Release, Wake, Exit, history
  <2> QED
    BY <1>3, <1>4, <2>1 DEF Emptying
<1>5. CASE sessions' = sessions /\ sessions = n /\ gpc = "gone" /\ AllApplied
  <2>1. \/ gpc' = "unloaded"
        \/ UNCHANGED <<gpc, db, dinoFolder, dropped, doubled, timedOut, unread>>
    BY <1>5 DEF Next, Game, Writer, Done, vars, Load, LoadCutOff, LoadMap, Push,
         PushAcquire, PushRelease, StopBegin,
         StopEnd, Unloaded, Crash, Start, CheckExit, Acquire, AcquireFails, Apply, ApplyFails,
         Release, Wake, Exit, history, Freed, flagVars, queueVars
  <2> QED
    BY <1>5, <2>1 DEF Emptying, AllApplied
<1>6. CASE /\ sessions' = sessions /\ sessions = n /\ gpc = "stopping"
           /\ \/ wpc \in {"wait", "drain"}
              \/ wpc \in {"sleep", "top", "exit", "stopped"} /\ cmds = << >>
  <2>1. CASE StopEnd
    <3>1. AllApplied'
      <4> SUFFICES ASSUME ~timedOut', ~dropped'
                   PROVE  Matches(db', dinoFolder', unread', doubled')
        BY DEF AllApplied
      <4>1. ~running /\ ~dropped /\ UNCHANGED <<db, dinoFolder, unread, doubled>>
        BY <2>1 DEF StopEnd, IInv, TypeOK
      <4>2. cmds = << >> /\ inHand = << >>
        BY <1>6, <4>1 DEF IInv, RunInv, HandInv
      <4>3. Pending = << >>
        BY <4>2, EmptySeq, ConcatEmptySeq DEF Pending
      <4>4. Replay(db, << >>) = db
        BY ReplayNone DEF IInv, TypeOK
      <4>5. Matches(db, dinoFolder, unread, doubled)
        BY <1>6, <4>1, <4>3, <4>4 DEF IInv, Mirror, Loaded, Matches
      <4> QED
        BY <4>1, <4>5
    <3> QED
      BY <1>6, <2>1, <3>1 DEF Emptying, StopEnd
  <2>2. CASE Crash
    BY <1>6, <2>2 DEF Emptying, Crash
  <2>3. CASE ~StopEnd /\ ~Crash
    <3>1. gpc' = "stopping" /\ (cmds = << >> => cmds' = << >>)
      BY <1>6, <2>3 DEF Next, Game, Writer, Done, vars, Load, LoadCutOff, LoadMap, Push,
         PushAcquire, PushRelease,
         StopBegin, Unloaded, Start, CheckExit, Acquire, AcquireFails, Apply, ApplyFails,
         Release, Wake, Exit, history, flagVars, queueVars
    <3>2. \/ wpc' \in {"wait", "drain"}
          \/ wpc' \in {"sleep", "top", "exit", "stopped"} /\ cmds' = << >>
      BY <1>6, <2>3 DEF Next, Game, Writer, Done, vars, Load, LoadCutOff, LoadMap, Push,
         PushAcquire, PushRelease,
         StopBegin, Unloaded, Start, CheckExit, Acquire, AcquireFails, Apply, ApplyFails,
         Release, Wake, Exit, history, flagVars, queueVars
    <3> QED
      BY <1>6, <3>1, <3>2 DEF Emptying
  <2> QED
    BY <2>1, <2>2, <2>3
<1> QED
  BY <1>2, <1>3, <1>4, <1>5, <1>6 DEF Emptying

\* If the destructor finds the thread about to look at the queue, and does not give up
\* waiting for it, then all commands are in the table when it is done (M_storage.cpp 144-257).
THEOREM AwakeExit == Spec => AwakeExitApplies
<1>1. ASSUME NEW n \in 1 .. MaxSessions
      PROVE  Spec => [](sessions = n /\ gpc = "stopping" /\ wpc \in {"wait", "drain"} =>
                         [](/\ sessions = n /\ gpc = "gone"
                            /\ ~timedOut /\ ~dropped
                            => Matches(db, dinoFolder, unread, doubled)))
  <2>1. sessions = n /\ gpc = "stopping" /\ wpc \in {"wait", "drain"} => Emptying(n)
    BY DEF Emptying
  <2>2. IInv /\ Emptying(n) /\ [Next]_vars => Emptying(n)'
    BY EmptyingKept
  <2>3. Emptying(n) => (/\ sessions = n /\ gpc = "gone"
                        /\ ~timedOut /\ ~dropped
                        => Matches(db, dinoFolder, unread, doubled))
    BY DEF Emptying, AllApplied, Matches
  <2>4. Spec => []IInv /\ [][Next]_vars
    BY Invariance, PTL DEF Spec
  <2> QED
    BY <2>1, <2>2, <2>3, <2>4, PTL
<1> QED
  BY <1>1 DEF AwakeExitApplies
=============================================================================
