---------------------------- MODULE PathsProofs ----------------------------
(***************************************************************************)
(* Theorems about Paths, for any names, any size of the table and paths    *)
(* of any length.  Walk, path_resolve, path_to_id and id_to_path are       *)
(* recursive functions in Paths: the first part shows that they exist,     *)
(* which gives their equations, and the rest uses the equations only.      *)
(***************************************************************************)
EXTENDS Paths, SequenceTheorems, WellFoundedInduction, TLAPS

(* Induction over numbers, as a fact about sets of them. *)
Less == {ss \in Nat \X Nat : ss[1] < ss[2]}

LEMMA LessIsWellFounded == IsWellFoundedOn(Less, Nat)
  BY NatLessThanWellFounded DEF Less, OpToRel

(* A set that holds a number whenever it holds the smaller ones holds all. *)
LEMMA Below ==
  ASSUME NEW T,
         \A n \in Nat : (\A m \in Nat : m < n => m \in T) => n \in T
  PROVE  \A n \in Nat : n \in T
  <1> SUFFICES ASSUME ~ \A n \in Nat : n \in T
               PROVE  FALSE
    OBVIOUS
  <1> DEFINE B == {n \in Nat : n \notin T}
  <1>1. B \subseteq Nat /\ B # {}
    OBVIOUS
  <1>2. PICK n \in B : \A m \in B : <<m, n>> \notin Less
    <2> HIDE DEF B
    <2> QED BY <1>1, LessIsWellFounded, WFMin
  <1>3. \A m \in Nat : m < n => m \in T
    BY <1>2 DEF Less
  <1> QED
    BY <1>2, <1>3

(* The same by steps of one, as far as N. *)
LEMMA UpTo ==
  ASSUME NEW N \in Nat, NEW T, 0 \in T,
         \A n \in Nat : n < N /\ n \in T => n + 1 \in T
  PROVE  \A n \in 0 .. N : n \in T
  <1> DEFINE U == {n \in Nat : n <= N => n \in T}
  <1>1. ASSUME NEW n \in Nat, \A m \in Nat : m < n => m \in U
        PROVE  n \in U
    <2>1. CASE n = 0
      BY <2>1
    <2>2. CASE n # 0
      <3>1. n - 1 \in Nat /\ n - 1 < n
        BY <2>2
      <3>2. n - 1 \in U
        BY <3>1, <1>1
      <3>3. n - 1 <= N => n - 1 \in T
        BY <3>2
      <3>4. n <= N => n - 1 < N
        OBVIOUS
      <3>5. n - 1 < N /\ n - 1 \in T => (n - 1) + 1 \in T
        BY <3>1
      <3>6. (n - 1) + 1 = n
        OBVIOUS
      <3> QED
        BY <3>1, <3>3, <3>4, <3>5, <3>6
    <2> QED
      BY <2>1, <2>2
  <1>2. \A n \in Nat : n \in U
    <2> HIDE DEF U
    <2> QED BY <1>1, Below
  <1> QED
    BY <1>2

-----------------------------------------------------------------------------
(* The table. *)

Words == Names \cup {".", ".."}
Ids   == {NotFound} \cup 0 .. MaxId
Entries == [id : Nat, name : Names \cup {NoName}, parent : Nat, type : {File, Dir, NoName}]

(* The types of whole entries are missing in TypeOK. *)
PathsInv == TypeOK /\ table \in [Slots -> Entries]

(* The lowest of some slots is one of them. *)
LEMMA FirstIs ==
  ASSUME NEW S, S \subseteq Slots, S # {}
  PROVE  First(S) \in S
  <1>1. S \subseteq Nat
    BY DEF Slots
  <1>2. PICK s \in S : \A t \in S : <<t, s>> \notin Less
    BY <1>1, LessIsWellFounded, WFMin
  <1>3. ASSUME NEW t \in S
        PROVE  s <= t
    <2>1. <<t, s>> \notin Less /\ t \in Nat /\ s \in Nat
      BY <1>1, <1>2
    <2> QED BY <2>1 DEF Less
  <1> QED
    BY <1>3 DEF First

(* A path of one more name is a lookup in the entry before; what is found  *)
(* has that name and hangs under that entry.                               *)
LEMMA LookupIs ==
  ASSUME PathsInv, NEW x, NEW n
  PROVE  /\ Lookup(x, n) \in {NotFound} \cup 1 .. MaxId
         /\ Lookup(x, n) # NotFound =>
              \E s \in Live : /\ table[s].id = Lookup(x, n)
                              /\ table[s].name = n /\ table[s].parent = x
         /\ Lookup(x, n) = NotFound =>
              \A s \in Live : ~(table[s].name = n /\ table[s].parent = x)
  <1> DEFINE S == {s \in Live : table[s].name = n /\ table[s].parent = x}
  <1>1. CASE S = {}
    <2>1. Lookup(x, n) = NotFound
      BY <1>1 DEF Lookup
    <2> QED
      BY <1>1, <2>1
  <1>2. CASE S # {}
    <2>1. S \subseteq Slots
      BY DEF Live
    <2>2. First(S) \in S
      <3> HIDE DEF S
      <3> QED BY <1>2, <2>1, FirstIs
    <2>3. Lookup(x, n) = table[First(S)].id
      BY <1>2 DEF Lookup
    <2>4. table[First(S)].id \in 1 .. MaxId
      BY <2>2 DEF PathsInv, TypeOK
    <2>5. Lookup(x, n) # NotFound
      BY <2>3, <2>4 DEF NotFound
    <2> QED
      BY <2>2, <2>3, <2>4, <2>5
  <1> QED
    BY <1>1, <1>2

(* An id is that of one entry, and no entry has the id of the root. *)
LEMMA EntryIs ==
  ASSUME PathsInv
  PROVE  /\ \A s \in Live : Holders(table[s].id) = {s} /\ Entry(table[s].id) = table[s]
         /\ \A i : Holders(i) # {} => \E s \in Live : table[s].id = i /\ Entry(i) = table[s]
         /\ Holders(0) = {}
  <1>1. ASSUME NEW s \in Live
        PROVE  Holders(table[s].id) = {s} /\ Entry(table[s].id) = table[s]
    <2>1. Holders(table[s].id) = {s}
      BY DEF PathsInv, TypeOK, Holders
    <2>2. First({s}) = s
      <3>1. {s} \subseteq Slots /\ {s} # {}
        BY DEF Live
      <3> QED
        BY <3>1, FirstIs
    <2> QED
      BY <2>1, <2>2 DEF Entry
  <1>2. \A i : Holders(i) # {} => \E s \in Live : table[s].id = i
    BY DEF Holders
  <1>3. Holders(0) = {}
    BY DEF Holders, Live
  <1> QED
    BY <1>1, <1>2, <1>3

-----------------------------------------------------------------------------
(* What the recursive functions compute, as equations. *)

(* A function that is given by its value at 0 and by a step from an        *)
(* earlier value: i comes from D[i], by G[_][i].                           *)
Back(D, N) == \A i \in 1 .. N : D[i] \in 0 .. i - 1
StepsIn(G, N, V) == \A x \in V, i \in 1 .. N : G[x][i] \in V
Iterates(f, a, G, D, N, V) ==
  f \in [0 .. N -> V] /\ f[0] = a /\ \A i \in 1 .. N : f[i] = G[f[D[i]]][i]

(* Such a function exists: it grows by one value at a time. *)
LEMMA Iterated ==
  ASSUME NEW V, NEW a \in V, NEW N \in Nat, NEW G, NEW D, StepsIn(G, N, V), Back(D, N)
  PROVE  \E f : Iterates(f, a, G, D, N, V)
  <1> DEFINE Is(f, n) ==
        f = [i \in 0 .. n |-> IF i = 0 THEN a ELSE G[f[D[i]]][i]]
  <1> DEFINE T == {n \in Nat : \E f : Is(f, n)}
  <1>1. 0 \in T
    <2>1. Is([i \in 0 .. 0 |-> a], 0)
      OBVIOUS
    <2> QED
      BY <2>1
  <1>2. ASSUME NEW n \in Nat, n < N, n \in T
        PROVE  n + 1 \in T
    <2>1. PICK f : Is(f, n)
      BY <1>2
    <2> DEFINE g == [i \in 0 .. n + 1 |-> IF i = n + 1 THEN G[f[D[n + 1]]][n + 1] ELSE f[i]]
    <2>2. ASSUME NEW i \in 0 .. n + 1
          PROVE  g[i] = IF i = 0 THEN a ELSE G[g[D[i]]][i]
      <3>0. i # 0 => D[i] \in 0 .. i - 1
        BY <1>2 DEF Back
      <3>1. i # 0 => g[D[i]] = f[D[i]]
        BY <3>0
      <3>2. CASE i = n + 1
        BY <3>1, <3>2
      <3>3. CASE i # n + 1
        <4>1. g[i] = f[i]
          BY <3>3
        <4>2. f[i] = IF i = 0 THEN a ELSE G[f[D[i]]][i]
          BY <2>1, <3>3
        <4> HIDE DEF g
        <4> QED BY <3>1, <4>1, <4>2
      <3> QED
        BY <3>2, <3>3
    <2>3. g = [i \in 0 .. n + 1 |-> g[i]]
      OBVIOUS
    <2>4. Is(g, n + 1)
      <3> HIDE DEF g
      <3> QED BY <2>2, <2>3
    <2>5. \E h : Is(h, n + 1)
      <3> HIDE DEF g, Is
      <3> QED BY <2>4
    <2> HIDE DEF Is
    <2> QED
      BY <2>5
  <1>3. PICK f : Is(f, N)
    <2>1. \A n \in 0 .. N : n \in T
      <3> HIDE DEF T
      <3> QED BY <1>1, <1>2, UpTo
    <2>2. N \in T
      <3> HIDE DEF T
      <3> QED BY <2>1
    <2> QED
      BY <2>2
  <1>4. f[0] = a /\ \A i \in 1 .. N : f[i] = G[f[D[i]]][i]
    BY <1>3
  <1>5. \A i \in 0 .. N : f[i] \in V
    <2> DEFINE U == {i \in Nat : i <= N => f[i] \in V}
    <2>1. ASSUME NEW i \in Nat, \A j \in Nat : j < i => j \in U
          PROVE  i \in U
      <3>1. CASE i = 0
        BY <1>4, <3>1
      <3>2. CASE i \in 1 .. N
        <4>1. D[i] \in Nat /\ D[i] < i /\ D[i] <= N
          BY <3>2 DEF Back
        <4>2. f[D[i]] \in V
          BY <2>1, <4>1
        <4>3. G[f[D[i]]][i] \in V
          BY <3>2, <4>2 DEF StepsIn
        <4> QED
          BY <1>4, <3>2, <4>3
      <3> QED
        BY <3>1, <3>2
    <2>2. \A i \in Nat : i \in U
      <3> HIDE DEF U
      <3> QED BY <2>1, Below
    <2> QED
      BY <2>2
  <1>6. f \in [0 .. N -> V]
    BY <1>3, <1>5
  <1> QED
    BY <1>4, <1>6 DEF Iterates

(* path_to_id looks one name up after the other. *)
LEMMA IdIs ==
  ASSUME PathsInv, NEW parts, Len(parts) \in Nat
  PROVE  \E f : /\ f[0] = 0
                /\ \A i \in 1 .. Len(parts) : f[i] = Lookup(f[i - 1], parts[i])
                /\ PathToId(parts) = f[Len(parts)]
  <1> DEFINE N == Len(parts)
             G == [x \in Ids |-> [i \in 1 .. N |-> Lookup(x, parts[i])]]
             D == [i \in 1 .. N |-> i - 1]
  <1>1. /\ 0 \in Ids /\ N \in Nat
        /\ \A x \in Ids, i \in 1 .. N : G[x][i] = Lookup(x, parts[i]) /\ G[x][i] \in Ids
    BY LookupIs, MaxIdAssumption DEF Ids
  <1>2. StepsIn(G, N, Ids)
    BY <1>1 DEF StepsIn
  <1>3. Back(D, N)
    BY DEF Back
  <1>4. PICK f : Iterates(f, 0, G, D, N, Ids)
    <2> HIDE DEF G, D, N
    <2> QED BY <1>1, <1>2, <1>3, Iterated
  <1>5. f = [i \in 0 .. N |-> IF i = 0 THEN 0 ELSE Lookup(f[i - 1], parts[i])]
    <2>1. f = [i \in 0 .. N |-> f[i]] /\ f[0] = 0
      BY <1>4 DEF Iterates
    <2>2. ASSUME NEW i \in 1 .. N
          PROVE  f[i] = Lookup(f[i - 1], parts[i])
      <3>1. D[i] = i - 1
        OBVIOUS
      <3> HIDE DEF G, D
      <3>2. f[i - 1] \in Ids /\ f[i] = G[f[i - 1]][i]
        BY <1>4, <3>1 DEF Iterates
      <3> QED BY <1>1, <3>2
    <2> HIDE DEF G, D
    <2> QED BY <2>1, <2>2
  <1> DEFINE Id[i \in 0 .. Len(parts)] == IF i = 0 THEN 0 ELSE Lookup(Id[i - 1], parts[i])
  <1>6. Id = [i \in 0 .. N |-> IF i = 0 THEN 0 ELSE Lookup(Id[i - 1], parts[i])]
    BY <1>5
  <1>7. PathToId(parts) = Id[N]
    BY DEF PathToId
  <1> HIDE DEF Id
  <1>8. Id[0] = 0 /\ \A i \in 1 .. N : Id[i] = Lookup(Id[i - 1], parts[i])
    BY <1>1, <1>6
  <1> QED
    BY <1>7, <1>8

(* The names that are left form a path of names. *)
LEMMA PushType ==
  ASSUME NEW q \in Seq(Names), NEW w \in Words
  PROVE  Push(q, w) \in Seq(Names)
  <1>1. CASE w = "."
    BY <1>1 DEF Push
  <1>2. CASE w = ".."
    <2>1. w # "."
      BY <1>2
    <2>2. CASE q = <<>>
      BY <1>2, <2>1, <2>2 DEF Push
    <2>3. CASE q # <<>>
      <3>1. \A i \in 1 .. Len(q) - 1 : q[i] \in Names
        BY ElementOfSeq, LenProperties
      <3>2. Len(q) \in Nat
        BY LenProperties
      <3>3. Front(q) \in Seq(Names)
        BY <3>1, <3>2, SubSeqProperties DEF Front
      <3> QED
        BY <1>2, <2>1, <2>3, <3>3 DEF Push
    <2> QED
      BY <2>2, <2>3
  <1>3. CASE w \in Names
    <2>1. w # "." /\ w # ".."
      BY <1>3, NameAssumption
    <2> QED
      BY <1>3, <2>1, AppendProperties DEF Push
  <1> QED
    BY <1>1, <1>2, <1>3 DEF Words

(* path_resolve takes one word after the other. *)
LEMMA StackIs ==
  ASSUME NEW parts \in Seq(Words)
  PROVE  \E f : /\ f \in [0 .. Len(parts) -> Seq(Names)]
                /\ f[0] = <<>>
                /\ \A i \in 1 .. Len(parts) : f[i] = Push(f[i - 1], parts[i])
                /\ Resolve(parts) = f[Len(parts)]
  <1> DEFINE N == Len(parts)
             V == Seq(Names)
             G == [x \in V |-> [i \in 1 .. N |-> Push(x, parts[i])]]
             D == [i \in 1 .. N |-> i - 1]
  <1>1. /\ <<>> \in V /\ N \in Nat
        /\ \A x \in V, i \in 1 .. N : G[x][i] = Push(x, parts[i]) /\ G[x][i] \in V
    <2>1. \A i \in 1 .. N : parts[i] \in Words
      BY ElementOfSeq
    <2> QED
      BY <2>1, PushType, LenProperties, EmptySeq
  <1>2. StepsIn(G, N, V)
    BY <1>1 DEF StepsIn
  <1>3. Back(D, N)
    BY <1>1 DEF Back
  <1>4. PICK f : Iterates(f, <<>>, G, D, N, V)
    <2> HIDE DEF G, D, N, V
    <2> QED BY <1>1, <1>2, <1>3, Iterated
  <1>5. f = [i \in 0 .. N |-> IF i = 0 THEN <<>> ELSE Push(f[i - 1], parts[i])]
    <2>1. f = [i \in 0 .. N |-> f[i]] /\ f[0] = <<>>
      BY <1>4 DEF Iterates
    <2>2. ASSUME NEW i \in 1 .. N
          PROVE  f[i] = Push(f[i - 1], parts[i])
      <3>1. D[i] = i - 1
        OBVIOUS
      <3> HIDE DEF G, D
      <3>2. f[i - 1] \in V /\ f[i] = G[f[i - 1]][i]
        BY <1>1, <1>4, <3>1 DEF Iterates
      <3> QED BY <1>1, <3>2
    <2> HIDE DEF G, D
    <2> QED BY <2>1, <2>2
  <1> DEFINE Stack[i \in 0 .. Len(parts)] == IF i = 0 THEN <<>> ELSE Push(Stack[i - 1], parts[i])
  <1>6. Stack = [i \in 0 .. N |-> IF i = 0 THEN <<>> ELSE Push(Stack[i - 1], parts[i])]
    BY <1>5
  <1>7. Resolve(parts) = Stack[N]
    BY DEF Resolve
  <1> HIDE DEF Stack
  <1>8. Stack[0] = <<>> /\ \A i \in 1 .. N : Stack[i] = Push(Stack[i - 1], parts[i])
    BY <1>1, <1>6
  <1>9. Stack \in [0 .. N -> V]
    <2> DEFINE T == {i \in Nat : i <= N => Stack[i] \in V}
    <2>1. 0 \in T
      BY <1>1, <1>8
    <2>2. ASSUME NEW i \in Nat, i < N, i \in T
          PROVE  i + 1 \in T
      <3>1. Stack[i] \in V /\ i + 1 \in 1 .. N /\ parts[i + 1] \in Words
        BY <1>1, <2>2, ElementOfSeq
      <3>2. Stack[i + 1] = Push(Stack[i], parts[i + 1])
        BY <1>8, <3>1
      <3>3. Stack[i + 1] \in V
        BY <3>1, <3>2, PushType
      <3> QED
        BY <3>3
    <2>3. \A i \in 0 .. N : i \in T
      <3> HIDE DEF T, N
      <3> QED BY <1>1, <2>1, <2>2, UpTo
    <2> QED
      BY <1>6, <2>3
  <1> QED
    BY <1>7, <1>8, <1>9

(* A walk takes one step after the other. *)
LEMMA WalkIs ==
  ASSUME PathsInv, NEW p \in Paths
  PROVE  \E f : /\ f[0] = IF p.abs THEN 0 ELSE current_dir_id
                /\ \A i \in 1 .. Len(p.parts) : f[i] = Step(f[i - 1], p.parts[i])
                /\ Walk(p) = f[Len(p.parts)]
  <1> DEFINE N == Len(p.parts)
             a == IF p.abs THEN 0 ELSE current_dir_id
             G == [x \in Ids |-> [i \in 1 .. N |-> Step(x, p.parts[i])]]
             D == [i \in 1 .. N |-> i - 1]
  <1>0. \A x \in Ids : \A w : Step(x, w) \in Ids
    <2> SUFFICES ASSUME NEW x \in Ids, NEW w
                 PROVE  Step(x, w) \in Ids
      OBVIOUS
    <2>1. Above(x) \in Ids
      <3>1. CASE Holders(x) = {}
        BY <3>1, MaxIdAssumption DEF Above, Ids
      <3>2. CASE Holders(x) # {}
        <4>1. PICK s \in Live : table[s].id = x /\ Entry(x) = table[s]
          BY <3>2, EntryIs
        <4>2. table[s].id \in 1 .. MaxId /\ table[s].parent \in 0 .. table[s].id - 1
          BY DEF PathsInv, TypeOK
        <4>3. table[s].parent \in 0 .. MaxId
          BY <4>2, MaxIdAssumption
        <4> QED
          BY <3>2, <4>1, <4>3 DEF Above, Ids
      <3> QED
        BY <3>1, <3>2
    <2>2. Lookup(x, w) \in Ids /\ NotFound \in Ids
      BY LookupIs DEF Ids
    <2> QED
      BY <2>1, <2>2 DEF Step
  <1>1. /\ a \in Ids /\ N \in Nat
        /\ \A x \in Ids, i \in 1 .. N : G[x][i] = Step(x, p.parts[i]) /\ G[x][i] \in Ids
    <2>1. a \in Ids
      BY MaxIdAssumption DEF Ids, PathsInv, TypeOK
    <2>2. N \in Nat
      BY PathAssumption, LenProperties
    <2> QED
      BY <1>0, <2>1, <2>2
  <1>2. StepsIn(G, N, Ids)
    BY <1>1 DEF StepsIn
  <1>3. Back(D, N)
    BY <1>1 DEF Back
  <1>4. PICK f : Iterates(f, a, G, D, N, Ids)
    <2> HIDE DEF G, D, N, a
    <2> QED BY <1>1, <1>2, <1>3, Iterated
  <1>5. f = [i \in 0 .. N |-> IF i = 0 THEN a ELSE Step(f[i - 1], p.parts[i])]
    <2> HIDE DEF a
    <2>1. f = [i \in 0 .. N |-> f[i]] /\ f[0] = a
      BY <1>4 DEF Iterates
    <2>2. ASSUME NEW i \in 1 .. N
          PROVE  f[i] = Step(f[i - 1], p.parts[i])
      <3>1. D[i] = i - 1
        OBVIOUS
      <3> HIDE DEF G, D
      <3>2. f[i - 1] \in Ids /\ f[i] = G[f[i - 1]][i]
        BY <1>1, <1>4, <3>1 DEF Iterates
      <3> QED BY <1>1, <3>2
    <2> HIDE DEF G, D
    <2> QED BY <2>1, <2>2
  <1> DEFINE At[i \in 0 .. Len(p.parts)] ==
        IF i = 0 THEN (IF p.abs THEN 0 ELSE current_dir_id)
        ELSE Step(At[i - 1], p.parts[i])
  <1>6. At = [i \in 0 .. N |-> IF i = 0 THEN a ELSE Step(At[i - 1], p.parts[i])]
    BY <1>5
  <1>7. Walk(p) = At[N]
    BY DEF Walk
  <1> HIDE DEF At
  <1>8. At[0] = a /\ \A i \in 1 .. N : At[i] = Step(At[i - 1], p.parts[i])
    BY <1>1, <1>6
  <1> QED
    BY <1>7, <1>8

(* The entry above is an earlier one. *)
LEMMA ParentIs ==
  ASSUME PathsInv, NEW i \in 1 .. MaxId, Holders(i) # {}
  PROVE  /\ Entry(i).parent \in 0 .. i - 1
         /\ Component(Entry(i)) \in Seq(Names)
         /\ Entry(i).name \in Names \cup {NoName}
  <1>1. PICK s \in Live : table[s].id = i /\ Entry(i) = table[s]
    BY EntryIs
  <1>2. table[s].parent \in 0 .. i - 1 /\ table[s].name \in Names \cup {NoName}
    BY <1>1 DEF PathsInv, TypeOK
  <1>3. Component(Entry(i)) \in Seq(Names)
    <2>1. CASE Entry(i).name = NoName
      BY <2>1, EmptySeq DEF Component
    <2>2. CASE Entry(i).name \in Names
      BY <2>2, <1>1, <1>2, NameAssumption, EmptySeq DEF Component
    <2> QED
      BY <1>1, <1>2, <2>1, <2>2
  <1> QED
    BY <1>1, <1>2, <1>3

(* id_to_path adds the name of an entry to the path of its parent. *)
LEMMA NameIs ==
  ASSUME PathsInv
  PROVE  /\ IdToPath(0) = <<>>
         /\ \A id \in 0 .. MaxId : IdToPath(id) \in Seq(Names)
         /\ \A id \in 1 .. MaxId :
              IdToPath(id) = IF Holders(id) = {} THEN <<>>
                             ELSE IdToPath(Entry(id).parent) \o Component(Entry(id))
  <1> DEFINE V == Seq(Names)
             Put(x, i) == IF Holders(i) = {} THEN <<>>
                          ELSE (IF Entry(i).parent = 0 THEN <<>> ELSE x) \o Component(Entry(i))
             G == [x \in V |-> [i \in 1 .. MaxId |-> Put(x, i)]]
             D == [i \in 1 .. MaxId |-> IF Holders(i) = {} THEN 0 ELSE Entry(i).parent]
  <1>0. ASSUME NEW x \in V, NEW i \in 1 .. MaxId
        PROVE  Put(x, i) \in V
    <2>1. CASE Holders(i) = {}
      BY <2>1, EmptySeq
    <2>2. CASE Holders(i) # {}
      <3>1. Component(Entry(i)) \in V /\ (IF Entry(i).parent = 0 THEN <<>> ELSE x) \in V
        BY <2>2, ParentIs, EmptySeq
      <3>2. (IF Entry(i).parent = 0 THEN <<>> ELSE x) \o Component(Entry(i)) \in V
        BY <3>1, ConcatProperties
      <3> QED
        BY <2>2, <3>2
    <2> QED
      BY <2>1, <2>2
  <1>1. /\ <<>> \in V
        /\ \A x \in V, i \in 1 .. MaxId : G[x][i] = Put(x, i) /\ G[x][i] \in V
    <2> HIDE DEF Put
    <2> QED BY <1>0, EmptySeq
  <1>2. StepsIn(G, MaxId, V)
    BY <1>1 DEF StepsIn
  <1>3. Back(D, MaxId)
    BY ParentIs DEF Back
  <1>4. PICK f : Iterates(f, <<>>, G, D, MaxId, V)
    <2> HIDE DEF G, D, V
    <2> QED BY <1>1, <1>2, <1>3, MaxIdAssumption, Iterated
  <1>5. f \in [0 .. MaxId -> V] /\ f[0] = <<>>
    BY <1>4 DEF Iterates
  <1>6. ASSUME NEW i \in 1 .. MaxId
        PROVE  f[i] = IF Holders(i) = {} THEN <<>>
                      ELSE (IF Entry(i).parent = 0 THEN <<>> ELSE f[Entry(i).parent])
                              \o Component(Entry(i))
    <2>1. f[D[i]] \in V /\ f[i] = G[f[D[i]]][i]
      <3>1. D[i] \in 0 .. MaxId
        BY <1>3, MaxIdAssumption DEF Back
      <3> HIDE DEF G, D
      <3> QED BY <1>4, <1>5, <3>1 DEF Iterates
    <2>2. f[i] = Put(f[D[i]], i)
      <3> HIDE DEF Put, D, G
      <3> QED BY <1>1, <2>1
    <2>3. Holders(i) # {} => D[i] = Entry(i).parent
      OBVIOUS
    <2> HIDE DEF D
    <2> QED
      BY <2>2, <2>3
  <1>7. f = [i \in 0 .. MaxId |->
               IF Holders(i) = {} THEN <<>>
               ELSE (IF Entry(i).parent = 0 THEN <<>> ELSE f[Entry(i).parent])
                       \o Component(Entry(i))]
    <2>1. Holders(0) = {}
      BY EntryIs
    <2>2. f = [i \in 0 .. MaxId |-> f[i]]
      BY <1>5
    <2>3. ASSUME NEW i \in 0 .. MaxId
          PROVE  f[i] = IF Holders(i) = {} THEN <<>>
                        ELSE (IF Entry(i).parent = 0 THEN <<>> ELSE f[Entry(i).parent])
                                \o Component(Entry(i))
      <3>1. i = 0 \/ i \in 1 .. MaxId
        OBVIOUS
      <3> QED BY <1>5, <1>6, <2>1, <3>1
    <2> QED
      BY <2>2, <2>3
  <1> DEFINE Up[i \in 0 .. MaxId] ==
        IF Holders(i) = {} THEN <<>>
        ELSE (IF Entry(i).parent = 0 THEN <<>> ELSE Up[Entry(i).parent])
                \o Component(Entry(i))
  <1>8. Up = [i \in 0 .. MaxId |->
                IF Holders(i) = {} THEN <<>>
                ELSE (IF Entry(i).parent = 0 THEN <<>> ELSE Up[Entry(i).parent])
                        \o Component(Entry(i))]
    BY <1>7
  <1>9. \A id : IdToPath(id) = Up[id]
    BY DEF IdToPath
  <1> HIDE DEF Up
  <1>10. Up[0] = <<>>
    BY <1>8, EntryIs, MaxIdAssumption
  <1>11. \A i \in 1 .. MaxId :
           Up[i] = IF Holders(i) = {} THEN <<>> ELSE Up[Entry(i).parent] \o Component(Entry(i))
    <2> SUFFICES ASSUME NEW i \in 1 .. MaxId
                 PROVE  Up[i] = IF Holders(i) = {} THEN <<>>
                                ELSE Up[Entry(i).parent] \o Component(Entry(i))
      OBVIOUS
    <2>1. i \in 0 .. MaxId
      OBVIOUS
    <2>2. Up[i] = IF Holders(i) = {} THEN <<>>
                  ELSE (IF Entry(i).parent = 0 THEN <<>> ELSE Up[Entry(i).parent])
                          \o Component(Entry(i))
      BY <1>8, <2>1
    <2> QED
      BY <1>10, <2>2
  <1>12. \A i \in 0 .. MaxId : Up[i] \in V
    <2> DEFINE T == {i \in Nat : i <= MaxId => Up[i] \in V}
    <2>1. ASSUME NEW i \in Nat, \A j \in Nat : j < i => j \in T
          PROVE  i \in T
      <3>1. CASE i = 0
        BY <1>1, <1>10, <3>1
      <3>2. CASE i \in 1 .. MaxId /\ Holders(i) = {}
        BY <1>1, <1>11, <3>2
      <3>3. CASE i \in 1 .. MaxId /\ Holders(i) # {}
        <4>1. Entry(i).parent \in Nat /\ Entry(i).parent < i /\ Entry(i).parent <= MaxId
              /\ Component(Entry(i)) \in Seq(Names)
          BY <3>3, ParentIs, MaxIdAssumption
        <4>2. Up[Entry(i).parent] \in Seq(Names)
          BY <2>1, <4>1
        <4>3. Up[Entry(i).parent] \o Component(Entry(i)) \in Seq(Names)
          BY <4>1, <4>2, ConcatProperties
        <4> QED
          BY <1>11, <3>3, <4>3
      <3> QED
        BY <3>1, <3>2, <3>3
    <2>2. \A i \in Nat : i \in T
      <3> HIDE DEF T
      <3> QED BY <2>1, Below
    <2> QED
      BY <2>2
  <1> QED
    BY <1>9, <1>10, <1>11, <1>12

(* An entry is reached when it has a name and its parent is reached. *)
LEMMA ReachIs ==
  ASSUME PathsInv
  PROVE  /\ Reached(0)
         /\ \A id \in 1 .. MaxId :
              Reached(id) <=> Holders(id) # {} /\ Entry(id).name # NoName
                              /\ Reached(Entry(id).parent)
  <1> DEFINE Put(x, i) == Holders(i) # {} /\ Entry(i).name # NoName /\ x
             G == [x \in BOOLEAN |-> [i \in 1 .. MaxId |-> Put(x, i)]]
             D == [i \in 1 .. MaxId |-> IF Holders(i) = {} THEN 0 ELSE Entry(i).parent]
  <1>1. \A x \in BOOLEAN, i \in 1 .. MaxId : G[x][i] = Put(x, i) /\ G[x][i] \in BOOLEAN
    <2>1. \A x \in BOOLEAN : \A i : Put(x, i) \in BOOLEAN
      OBVIOUS
    <2> HIDE DEF Put
    <2> QED BY <2>1
  <1>2. StepsIn(G, MaxId, BOOLEAN)
    BY <1>1 DEF StepsIn
  <1>3. Back(D, MaxId)
    BY ParentIs DEF Back
  <1>4. PICK f : Iterates(f, TRUE, G, D, MaxId, BOOLEAN)
    <2> HIDE DEF G, D
    <2> QED BY <1>1, <1>2, <1>3, MaxIdAssumption, Iterated
  <1>5. f \in [0 .. MaxId -> BOOLEAN] /\ f[0] = TRUE
    BY <1>4 DEF Iterates
  <1>6. ASSUME NEW i \in 1 .. MaxId
        PROVE  f[i] = (Holders(i) # {} /\ Entry(i).name # NoName /\ f[Entry(i).parent])
    <2>1. f[D[i]] \in BOOLEAN /\ f[i] = G[f[D[i]]][i]
      <3>1. D[i] \in 0 .. MaxId
        BY <1>3, MaxIdAssumption DEF Back
      <3> HIDE DEF G, D
      <3> QED BY <1>4, <1>5, <3>1 DEF Iterates
    <2>2. f[i] = Put(f[D[i]], i)
      <3> HIDE DEF Put, D, G
      <3> QED BY <1>1, <2>1
    <2>3. Holders(i) # {} => D[i] = Entry(i).parent
      OBVIOUS
    <2> HIDE DEF D
    <2> QED
      BY <2>2, <2>3
  <1>7. f = [i \in 0 .. MaxId |->
               i = 0 \/ (Holders(i) # {} /\ Entry(i).name # NoName /\ f[Entry(i).parent])]
    <2>2. f = [i \in 0 .. MaxId |-> f[i]]
      BY <1>5
    <2>3. ASSUME NEW i \in 0 .. MaxId
          PROVE  f[i] = (i = 0 \/ (Holders(i) # {} /\ Entry(i).name # NoName
                                   /\ f[Entry(i).parent]))
      <3>1. i = 0 \/ i \in 1 .. MaxId
        OBVIOUS
      <3> QED BY <1>5, <1>6, <3>1
    <2> QED
      BY <2>2, <2>3
  <1> DEFINE R[i \in 0 .. MaxId] ==
        i = 0 \/ (Holders(i) # {} /\ Entry(i).name # NoName /\ R[Entry(i).parent])
  <1>8. R = [i \in 0 .. MaxId |->
               i = 0 \/ (Holders(i) # {} /\ Entry(i).name # NoName /\ R[Entry(i).parent])]
    BY <1>7
  <1>9. \A id : Reached(id) = R[id]
    BY DEF Reached
  <1> HIDE DEF R
  <1>12. ASSUME NEW i \in 0 .. MaxId
        PROVE  R[i] = (i = 0 \/ (Holders(i) # {} /\ Entry(i).name # NoName
                                 /\ R[Entry(i).parent]))
    BY <1>8, Zenon
  <1>10. R[0]
    <2>1. 0 \in 0 .. MaxId
      BY MaxIdAssumption
    <2>2. R[0] = (0 = 0 \/ (Holders(0) # {} /\ Entry(0).name # NoName
                            /\ R[Entry(0).parent]))
      BY <1>12, <2>1, Zenon
    <2> QED
      BY <2>2, Zenon
  <1>11. \A i \in 1 .. MaxId :
           R[i] = (Holders(i) # {} /\ Entry(i).name # NoName /\ R[Entry(i).parent])
    <2> SUFFICES ASSUME NEW i \in 1 .. MaxId
                 PROVE  R[i] = (Holders(i) # {} /\ Entry(i).name # NoName
                                /\ R[Entry(i).parent])
      OBVIOUS
    <2>1. i \in 0 .. MaxId /\ i # 0
      OBVIOUS
    <2>2. R[i] = (i = 0 \/ (Holders(i) # {} /\ Entry(i).name # NoName
                            /\ R[Entry(i).parent]))
      BY <1>12, <2>1, Zenon
    <2> QED
      BY <2>1, <2>2, Zenon
  <1> QED
    BY <1>9, <1>10, <1>11

-----------------------------------------------------------------------------
(* Paths that grow by a word. *)

(* The path without words is that of the root; a name more is a lookup     *)
(* more.                                                                   *)
LEMMA IdOfEmpty ==
  ASSUME PathsInv
  PROVE  PathToId(<<>>) = 0
  <1>1. Len(<<>>) = 0
    OBVIOUS
  <1> QED
    BY <1>1, IdIs

LEMMA IdOfAppend ==
  ASSUME PathsInv, NEW q \in Seq(Names), NEW n \in Names
  PROVE  PathToId(Append(q, n)) = Lookup(PathToId(q), n)
  <1> DEFINE r == Append(q, n)
             N == Len(q)
  <1>1. /\ N \in Nat /\ Len(r) = N + 1 /\ r[N + 1] = n
        /\ \A i \in 1 .. N : r[i] = q[i]
    BY LenProperties, AppendProperties
  <1> HIDE DEF r
  <1>2. PICK f : /\ f[0] = 0 /\ \A i \in 1 .. N : f[i] = Lookup(f[i - 1], q[i])
                 /\ PathToId(q) = f[N]
    BY <1>1, IdIs
  <1>3. PICK g : /\ g[0] = 0 /\ \A i \in 1 .. N + 1 : g[i] = Lookup(g[i - 1], r[i])
                 /\ PathToId(r) = g[N + 1]
    <2>1. Len(r) \in Nat
      BY <1>1
    <2>2. PICK g : /\ g[0] = 0 /\ \A i \in 1 .. Len(r) : g[i] = Lookup(g[i - 1], r[i])
                   /\ PathToId(r) = g[Len(r)]
      BY <2>1, IdIs
    <2> QED BY <1>1, <2>2
  <1>4. f[N] = g[N]
    <2> DEFINE T == {i \in Nat : i <= N => f[i] = g[i]}
    <2>1. 0 \in T
      BY <1>2, <1>3
    <2>2. ASSUME NEW i \in Nat, i < N, i \in T
          PROVE  i + 1 \in T
      <3>1. f[i] = g[i] /\ i + 1 \in 1 .. N /\ i + 1 \in 1 .. N + 1 /\ (i + 1) - 1 = i
        BY <1>1, <2>2
      <3>2. f[i + 1] = Lookup(f[i], q[i + 1])
        BY <1>2, <3>1
      <3>3. g[i + 1] = Lookup(g[i], r[i + 1])
        BY <1>3, <3>1
      <3> QED
        BY <1>1, <3>1, <3>2, <3>3
    <2>3. \A i \in 0 .. N : i \in T
      <3> HIDE DEF T, N
      <3> QED BY <1>1, <2>1, <2>2, UpTo
    <2> QED
      BY <1>1, <2>3
  <1>5. g[N + 1] = Lookup(g[N], n)
    BY <1>1, <1>3
  <1> QED
    BY <1>2, <1>3, <1>4, <1>5 DEF r

(* path_resolve, a word at a time. *)
LEMMA ResolveOfEmpty == Resolve(<<>>) = <<>>
  <1>1. <<>> \in Seq(Words) /\ Len(<<>>) = 0
    BY EmptySeq
  <1> QED
    BY <1>1, StackIs

LEMMA ResolveType ==
  ASSUME NEW q \in Seq(Words)
  PROVE  Resolve(q) \in Seq(Names)
  <1>1. PICK f \in [0 .. Len(q) -> Seq(Names)] : Resolve(q) = f[Len(q)]
    BY StackIs
  <1>2. Len(q) \in 0 .. Len(q)
    BY LenProperties
  <1> QED
    BY <1>1, <1>2

LEMMA ResolveAppend ==
  ASSUME NEW q \in Seq(Words), NEW w \in Words
  PROVE  Resolve(Append(q, w)) = Push(Resolve(q), w)
  <1> DEFINE r == Append(q, w)
             N == Len(q)
  <1>1. /\ N \in Nat /\ Len(r) = N + 1 /\ r[N + 1] = w /\ r \in Seq(Words)
        /\ \A i \in 1 .. N : r[i] = q[i]
    BY LenProperties, AppendProperties
  <1> HIDE DEF r
  <1>2. PICK f : /\ f[0] = <<>> /\ \A i \in 1 .. N : f[i] = Push(f[i - 1], q[i])
                 /\ Resolve(q) = f[N]
    BY <1>1, StackIs
  <1>3. PICK g : /\ g[0] = <<>> /\ \A i \in 1 .. N + 1 : g[i] = Push(g[i - 1], r[i])
                 /\ Resolve(r) = g[N + 1]
    <2>2. PICK g : /\ g[0] = <<>> /\ \A i \in 1 .. Len(r) : g[i] = Push(g[i - 1], r[i])
                   /\ Resolve(r) = g[Len(r)]
      BY <1>1, StackIs
    <2> QED BY <1>1, <2>2
  <1>4. f[N] = g[N]
    <2> DEFINE T == {i \in Nat : i <= N => f[i] = g[i]}
    <2>1. 0 \in T
      BY <1>2, <1>3
    <2>2. ASSUME NEW i \in Nat, i < N, i \in T
          PROVE  i + 1 \in T
      <3>1. f[i] = g[i] /\ i + 1 \in 1 .. N /\ i + 1 \in 1 .. N + 1 /\ (i + 1) - 1 = i
        BY <1>1, <2>2
      <3>2. f[i + 1] = Push(f[i], q[i + 1])
        BY <1>2, <3>1
      <3>3. g[i + 1] = Push(g[i], r[i + 1])
        BY <1>3, <3>1
      <3> QED
        BY <1>1, <3>1, <3>2, <3>3
    <2>3. \A i \in 0 .. N : i \in T
      <3> HIDE DEF T, N
      <3> QED BY <1>1, <2>1, <2>2, UpTo
    <2> QED
      BY <1>1, <2>3
  <1>5. g[N + 1] = Push(g[N], w)
    BY <1>1, <1>3
  <1> QED
    BY <1>2, <1>3, <1>4, <1>5 DEF r

(* A path of names is resolved already. *)
LEMMA ResolveNames ==
  ASSUME NEW q \in Seq(Names)
  PROVE  Resolve(q) = q
  <1> DEFINE T == {k \in Nat : \A r \in Seq(Names) : Len(r) = k => Resolve(r) = r}
  <1>1. ASSUME NEW k \in Nat, \A j \in Nat : j < k => j \in T
        PROVE  k \in T
    <2> SUFFICES ASSUME NEW r \in Seq(Names), Len(r) = k
                 PROVE  Resolve(r) = r
      OBVIOUS
    <2>1. CASE r = <<>>
      BY <2>1, ResolveOfEmpty
    <2>2. CASE r # <<>>
      <3>1. PICK s \in Seq(Names), n \in Names : r = Append(s, n)
        BY <2>2, SequenceEmptyOrAppend
      <3>2. Len(s) \in Nat /\ Len(r) = Len(s) + 1
        BY <3>1, LenProperties, AppendProperties
      <3>3. Len(s) \in T
        BY <1>1, <3>2
      <3>4. Resolve(s) = s
        BY <3>3
      <3>5. s \in Seq(Words) /\ n \in Words
        BY SeqMonotonic DEF Words
      <3>6. Push(s, n) = Append(s, n)
        <4>1. n # "." /\ n # ".."
          BY NameAssumption
        <4> QED BY <4>1 DEF Push
      <3> QED
        BY <3>1, <3>4, <3>5, <3>6, ResolveAppend
    <2> QED
      BY <2>1, <2>2
  <1>2. \A k \in Nat : k \in T
    <2> HIDE DEF T
    <2> QED BY <1>1, Below
  <1>3. Len(q) \in Nat
    BY LenProperties
  <1> QED
    BY <1>2, <1>3

(* The last name of a path and what is before it. *)
LEMMA FrontIs ==
  ASSUME NEW s \in Seq(Names), NEW n \in Names
  PROVE  Front(Append(s, n)) = s /\ Last(Append(s, n)) = n
  <1> DEFINE r == Append(s, n)
  <1>1. r \in Seq(Names) /\ Len(r) = Len(s) + 1 /\ r[Len(s) + 1] = n /\ Len(s) \in Nat
        /\ \A i \in 1 .. Len(s) : r[i] = s[i]
    BY AppendProperties, LenProperties
  <1> HIDE DEF r
  <1>2. Front(r) = SubSeq(r, 1, Len(s))
    BY <1>1 DEF Front
  <1>3. \A i \in 1 .. Len(s) : r[i] \in Names
    BY <1>1, ElementOfSeq
  <1>4. /\ Front(r) \in Seq(Names) /\ Len(Front(r)) = Len(s)
        /\ \A i \in 1 .. Len(s) : Front(r)[i] = s[i]
    <2>1. /\ SubSeq(r, 1, Len(s)) \in Seq(Names)
          /\ Len(SubSeq(r, 1, Len(s))) = IF 1 <= Len(s) THEN Len(s) - 1 + 1 ELSE 0
          /\ \A i \in 1 .. Len(s) - 1 + 1 : SubSeq(r, 1, Len(s))[i] = r[1 + i - 1]
      BY <1>1, <1>3, SubSeqProperties
    <2>2. Len(SubSeq(r, 1, Len(s))) = Len(s)
      BY <1>1, <2>1
    <2>3. ASSUME NEW i \in 1 .. Len(s)
          PROVE  SubSeq(r, 1, Len(s))[i] = s[i]
      <3>1. 1 + i - 1 = i /\ Len(s) - 1 + 1 = Len(s)
        BY <1>1
      <3> QED BY <1>1, <2>1, <3>1
    <2> QED
      BY <1>2, <2>1, <2>2, <2>3
  <1>5. Front(r) = s
    BY <1>4, SeqEqual
  <1>6. Last(r) = n
    BY <1>1 DEF Last
  <1> QED
    BY <1>5, <1>6 DEF r

-----------------------------------------------------------------------------
(* The path of an entry leads to it. *)

(* With different names in every place a lookup finds the entry itself. *)
LEMMA LookupUnique ==
  ASSUME PathsInv, Unique, NEW s \in Live
  PROVE  Lookup(table[s].parent, table[s].name) = table[s].id
  <1>1. Lookup(table[s].parent, table[s].name) # NotFound
    BY LookupIs
  <1> QED
    BY <1>1, LookupIs DEF Unique

(* What is found under an entry that the names reach is reached by one     *)
(* more name.                                                              *)
LEMMA FoundIsReached ==
  ASSUME PathsInv, NEW x \in 0 .. MaxId, Reached(x), NEW n \in Names,
         Lookup(x, n) # NotFound
  PROVE  /\ Lookup(x, n) \in 1 .. MaxId
         /\ Reached(Lookup(x, n))
         /\ IdToPath(Lookup(x, n)) = Append(IdToPath(x), n)
  <1> DEFINE y == Lookup(x, n)
  <1>1. y \in 1 .. MaxId /\ y # NotFound
    BY LookupIs
  <1>2. PICK s \in Live : table[s].id = y /\ table[s].name = n /\ table[s].parent = x
    BY LookupIs
  <1>3. Holders(y) # {} /\ Entry(y) = table[s]
    BY <1>2, EntryIs
  <1> HIDE DEF y
  <1>4. Entry(y).name = n /\ Entry(y).parent = x /\ n # NoName
    BY <1>2, <1>3, NameAssumption
  <1>5. Reached(y)
    BY <1>1, <1>3, <1>4, ReachIs
  <1>6. IdToPath(y) = IdToPath(x) \o <<n>>
    BY <1>1, <1>3, <1>4, NameIs DEF Component
  <1>7. IdToPath(x) \in Seq(Names)
    BY NameIs
  <1>8. IdToPath(y) = Append(IdToPath(x), n)
    BY <1>6, <1>7, AppendIsConcat
  <1> QED
    BY <1>1, <1>5, <1>8 DEF y

(* A reached entry has a name, its parent is reached, and its path is that *)
(* of its parent and its name.                                             *)
LEMMA ReachedFrom ==
  ASSUME PathsInv, NEW i \in 1 .. MaxId, Reached(i)
  PROVE  \E s \in Live :
           /\ table[s].id = i /\ Entry(i) = table[s] /\ Holders(i) # {}
           /\ table[s].parent \in 0 .. i - 1 /\ table[s].name \in Names
           /\ Reached(table[s].parent)
           /\ IdToPath(table[s].parent) \in Seq(Names)
           /\ IdToPath(i) = Append(IdToPath(table[s].parent), table[s].name)
  <1>1. Holders(i) # {} /\ Entry(i).name # NoName /\ Reached(Entry(i).parent)
    BY ReachIs
  <1>2. PICK s \in Live : table[s].id = i /\ Entry(i) = table[s]
    BY <1>1, EntryIs
  <1>3. table[s].parent \in 0 .. i - 1 /\ table[s].name \in Names
    BY <1>1, <1>2, ParentIs
  <1>4. IdToPath(table[s].parent) \in Seq(Names)
    BY <1>3, NameIs, MaxIdAssumption
  <1>5. IdToPath(i) = IdToPath(table[s].parent) \o <<table[s].name>>
    BY <1>1, <1>2, NameIs DEF Component
  <1>6. IdToPath(i) = Append(IdToPath(table[s].parent), table[s].name)
    BY <1>3, <1>4, <1>5, AppendIsConcat
  <1> QED
    BY <1>1, <1>2, <1>3, <1>4, <1>6

(* The path that id_to_path gives is looked up to the same id. *)
LEMMA NamesLeadBack ==
  ASSUME PathsInv, Unique, NEW id \in 0 .. MaxId, Reached(id)
  PROVE  PathToId(IdToPath(id)) = id
  <1> DEFINE T == {i \in Nat : i <= MaxId /\ Reached(i) => PathToId(IdToPath(i)) = i}
  <1>1. ASSUME NEW i \in Nat, \A j \in Nat : j < i => j \in T
        PROVE  i \in T
    <2> SUFFICES ASSUME i <= MaxId, Reached(i)
                 PROVE  PathToId(IdToPath(i)) = i
      OBVIOUS
    <2>1. CASE i = 0
      BY <2>1, NameIs, IdOfEmpty
    <2>2. CASE i # 0
      <3>1. i \in 1 .. MaxId
        BY <2>2, MaxIdAssumption
      <3>2. PICK s \in Live :
              /\ table[s].id = i
              /\ table[s].parent \in 0 .. i - 1 /\ table[s].name \in Names
              /\ Reached(table[s].parent)
              /\ IdToPath(table[s].parent) \in Seq(Names)
              /\ IdToPath(i) = Append(IdToPath(table[s].parent), table[s].name)
        BY <3>1, ReachedFrom
      <3>3. table[s].parent \in Nat /\ table[s].parent < i /\ table[s].parent <= MaxId
        BY <3>1, <3>2, MaxIdAssumption
      <3>4. table[s].parent \in T
        BY <1>1, <3>3
      <3>5. PathToId(IdToPath(table[s].parent)) = table[s].parent
        BY <3>2, <3>3, <3>4
      <3> QED
        BY <3>2, <3>5, IdOfAppend, LookupUnique
    <2> QED
      BY <2>1, <2>2
  <1>2. \A i \in Nat : i \in T
    <2> HIDE DEF T
    <2> QED BY <1>1, Below
  <1> QED
    BY <1>2

-----------------------------------------------------------------------------
(* Resolving and walking. *)

(* One word of a path: the walk and the stack of names stay together.      *)
LEMMA StepTogether ==
  ASSUME PathsInv, NEW x \in 0 .. MaxId, Reached(x), NEW w \in Words,
         Step(x, w) # NotFound
  PROVE  /\ Step(x, w) \in 0 .. MaxId
         /\ Reached(Step(x, w))
         /\ IdToPath(Step(x, w)) = Push(IdToPath(x), w)
  <1>0. x # NotFound
    BY DEF NotFound
  <1>1. CASE w = "."
    BY <1>0, <1>1 DEF Step, Push
  <1>2. CASE w = ".."
    <2>0. w # "."
      BY <1>2
    <2>1. Step(x, w) = Above(x)
      BY <1>0, <1>2, <2>0 DEF Step
    <2>2. CASE x = 0
      <3>1. Above(x) = 0
        BY <2>2, EntryIs DEF Above
      <3>2. IdToPath(x) = <<>>
        BY <2>2, NameIs
      <3>3. Push(IdToPath(x), w) = <<>>
        BY <1>2, <2>0, <3>2 DEF Push
      <3> QED
        BY <2>1, <2>2, <3>1, <3>2, <3>3
    <2>3. CASE x # 0
      <3>1. x \in 1 .. MaxId
        BY <2>3
      <3>2. PICK s \in Live :
              /\ Entry(x) = table[s] /\ Holders(x) # {}
              /\ table[s].parent \in 0 .. x - 1 /\ table[s].name \in Names
              /\ Reached(table[s].parent)
              /\ IdToPath(table[s].parent) \in Seq(Names)
              /\ IdToPath(x) = Append(IdToPath(table[s].parent), table[s].name)
        BY <3>1, ReachedFrom
      <3>3. Above(x) = table[s].parent
        BY <3>2 DEF Above
      <3>4. IdToPath(x) # <<>>
        BY <3>2, AppendProperties
      <3>5. Push(IdToPath(x), w) = Front(IdToPath(x))
        BY <1>2, <2>0, <3>4 DEF Push
      <3>6. Front(IdToPath(x)) = IdToPath(table[s].parent)
        BY <3>2, FrontIs
      <3>7. table[s].parent \in 0 .. MaxId
        BY <3>1, <3>2, MaxIdAssumption
      <3> QED
        BY <2>1, <3>2, <3>3, <3>5, <3>6, <3>7
    <2> QED
      BY <2>2, <2>3
  <1>3. CASE w \in Names
    <2>1. w # "." /\ w # ".."
      BY <1>3, NameAssumption
    <2>2. Step(x, w) = Lookup(x, w)
      BY <1>0, <2>1 DEF Step
    <2>3. Push(IdToPath(x), w) = Append(IdToPath(x), w)
      BY <2>1 DEF Push
    <2>4. /\ Lookup(x, w) \in 1 .. MaxId /\ Reached(Lookup(x, w))
          /\ IdToPath(Lookup(x, w)) = Append(IdToPath(x), w)
      BY <1>3, <2>2, FoundIsReached
    <2> QED
      BY <2>2, <2>3, <2>4
  <1> QED
    BY <1>1, <1>2, <1>3 DEF Words

(* After every word, what is resolved so far is the path of the entry that *)
(* the walk has come to.                                                   *)
LEMMA WalkResolves ==
  ASSUME PathsInv, Reached(current_dir_id), NEW p \in Paths, Walk(p) # NotFound
  PROVE  /\ Walk(p) \in 0 .. MaxId
         /\ Reached(Walk(p))
         /\ Resolved(p) = IdToPath(Walk(p))
  <1> DEFINE N == Len(p.parts)
             base == IF p.abs THEN <<>> ELSE IdToPath(current_dir_id)
             Upto(i) == base \o SubSeq(p.parts, 1, i)
  <1>1. p.parts \in Seq(Words) /\ N \in Nat /\ \A i \in 1 .. N : p.parts[i] \in Words
    BY PathAssumption, LenProperties, ElementOfSeq DEF Words
  <1>2. base \in Seq(Names) /\ base \in Seq(Words)
    <2>1. base \in Seq(Names)
      BY NameIs, EmptySeq DEF PathsInv, TypeOK
    <2> HIDE DEF base
    <2> QED
      BY <2>1, SeqMonotonic DEF Words
  <1>3. PICK f : /\ f[0] = IF p.abs THEN 0 ELSE current_dir_id
                 /\ \A i \in 1 .. N : f[i] = Step(f[i - 1], p.parts[i])
                 /\ Walk(p) = f[N]
    BY WalkIs
  <1>4. \A i \in 0 .. N : SubSeq(p.parts, 1, i) \in Seq(Words)
    BY <1>1, SubSeqProperties
  <1>5. ASSUME NEW i \in 0 .. N, i < N
        PROVE  Upto(i + 1) = Append(Upto(i), p.parts[i + 1])
    <2>0. i + 1 \in 1 .. N /\ (i + 1) - 1 = i /\ 1 \in 1 .. N
      BY <1>1, <1>5
    <2>1. SubSeq(p.parts, 1, i + 1) = SubSeq(p.parts, 1, i) \o <<p.parts[i + 1]>>
      <3>1. SubSeq(p.parts, 1, i + 1) = SubSeq(p.parts, 1, (i + 1) - 1) \o <<p.parts[i + 1]>>
        BY <1>1, <2>0, SubSeqRecursiveSecond
      <3> QED BY <2>0, <3>1
    <2>2. <<p.parts[i + 1]>> \in Seq(Words) /\ p.parts[i + 1] \in Words
      BY <1>1, <2>0
    <2> HIDE DEF base
    <2>3. Upto(i) \in Seq(Words)
      BY <1>2, <1>4, ConcatProperties
    <2>4. Upto(i + 1) = Upto(i) \o <<p.parts[i + 1]>>
      BY <1>2, <1>4, <2>1, <2>2, ConcatAssociative
    <2> QED
      BY <2>2, <2>3, <2>4, AppendIsConcat
  <1>6. \A i \in 0 .. N : Upto(i) \in Seq(Words)
    <2> HIDE DEF base
    <2> QED BY <1>2, <1>4, ConcatProperties
  <1> HIDE DEF Upto
  <1> DEFINE T == {i \in Nat : i <= N =>
                     \/ f[i] = NotFound
                     \/ /\ f[i] \in 0 .. MaxId /\ Reached(f[i])
                        /\ Resolve(Upto(i)) = IdToPath(f[i])}
  <1>7. 0 \in T
    <2>1. Upto(0) = base
      <3>1. SubSeq(p.parts, 1, 0) = <<>>
        BY SubSeqEmpty
      <3> HIDE DEF base
      <3> QED BY <1>2, <3>1, ConcatEmptySeq DEF Upto
    <2>2. Resolve(Upto(0)) = base
      <3> HIDE DEF base
      <3> QED BY <1>2, <2>1, ResolveNames
    <2>3. f[0] \in 0 .. MaxId /\ Reached(f[0]) /\ base = IdToPath(f[0])
      BY <1>3, NameIs, ReachIs, MaxIdAssumption DEF PathsInv, TypeOK
    <2> QED
      BY <2>2, <2>3
  <1>8. ASSUME NEW i \in Nat, i < N, i \in T
        PROVE  i + 1 \in T
    <2>0. i \in 0 .. N /\ i + 1 \in 1 .. N /\ (i + 1) - 1 = i
      BY <1>1, <1>8
    <2>1. f[i + 1] = Step(f[i], p.parts[i + 1])
      BY <1>3, <2>0
    <2>2. CASE f[i] = NotFound
      <3>1. f[i + 1] = NotFound
        BY <2>1, <2>2 DEF Step
      <3> QED BY <3>1
    <2>3. CASE f[i + 1] # NotFound /\ f[i] # NotFound
      <3>1. f[i] \in 0 .. MaxId /\ Reached(f[i]) /\ Resolve(Upto(i)) = IdToPath(f[i])
        BY <1>8, <2>3
      <3>2. p.parts[i + 1] \in Words
        BY <1>1, <2>0
      <3>3. /\ f[i + 1] \in 0 .. MaxId /\ Reached(f[i + 1])
            /\ IdToPath(f[i + 1]) = Push(IdToPath(f[i]), p.parts[i + 1])
        BY <2>1, <2>3, <3>1, <3>2, StepTogether
      <3>4. Resolve(Upto(i + 1)) = Push(Resolve(Upto(i)), p.parts[i + 1])
        BY <1>5, <1>6, <1>8, <2>0, <3>2, ResolveAppend
      <3>5. Resolve(Upto(i + 1)) = IdToPath(f[i + 1])
        BY <3>1, <3>3, <3>4
      <3> QED
        BY <3>3, <3>5
    <2>4. CASE f[i + 1] = NotFound
      BY <2>4
    <2> QED
      BY <2>2, <2>3, <2>4
  <1>9. N \in T
    <2>1. \A i \in 0 .. N : i \in T
      <3> HIDE DEF T, N
      <3> QED BY <1>1, <1>7, <1>8, UpTo
    <2> HIDE DEF T
    <2> QED BY <1>1, <2>1
  <1>10. Upto(N) = PathToAbs(p)
    <2>1. SubSeq(p.parts, 1, N) = p.parts
      BY <1>1, SubSeqFull
    <2>2. p.abs => <<>> \o p.parts = p.parts
      BY <1>1, ConcatEmptySeq
    <2> QED
      BY <2>1, <2>2 DEF Upto, PathToAbs
  <1> QED
    BY <1>3, <1>9, <1>10 DEF Resolved

-----------------------------------------------------------------------------
(* The table stays well formed. *)

(* LastId bounds the ids in use. *)
LEMMA LastIdIs ==
  ASSUME PathsInv
  PROVE  LastId \in 0 .. MaxId /\ \A s \in Live : table[s].id \in 1 .. LastId
  <1> DEFINE S == {table[s].id : s \in Live}
             C == {MaxId - x : x \in S}
  <1>1. CASE Live = {}
    BY <1>1, MaxIdAssumption DEF LastId
  <1>2. CASE Live # {}
    <2>1. S \subseteq 1 .. MaxId /\ S # {}
      BY <1>2 DEF PathsInv, TypeOK
    <2> HIDE DEF S
    <2>2. C \subseteq Nat /\ C # {}
      <3>1. ASSUME NEW x \in S
            PROVE  MaxId - x \in Nat
        <4>1. x \in 1 .. MaxId
          BY <2>1
        <4> QED BY <4>1, MaxIdAssumption
      <3>2. PICK x \in S : TRUE
        BY <2>1
      <3>3. MaxId - x \in C
        OBVIOUS
      <3> QED BY <3>1, <3>3
    <2>3. PICK c \in C : \A d \in C : <<d, c>> \notin Less
      <3> HIDE DEF C
      <3> QED BY <2>2, LessIsWellFounded, WFMin
    <2>4. PICK x \in S : c = MaxId - x
      OBVIOUS
    <2>5. ASSUME NEW y \in S
          PROVE  x >= y
      <3>1. MaxId - y \in C
        OBVIOUS
      <3>2. ~(MaxId - y < c)
        BY <2>2, <2>3, <3>1 DEF Less
      <3> QED
        BY <2>1, <2>4, <3>2, MaxIdAssumption
    <2>6. Max(S) \in S /\ \A y \in S : Max(S) >= y
      BY <2>5 DEF Max
    <2>7. LastId = Max(S)
      BY <1>2 DEF LastId, S
    <2>8. \A s \in Live : table[s].id \in S
      BY DEF S
    <2>9. Max(S) \in 1 .. MaxId
      BY <2>1, <2>6
    <2>10. ASSUME NEW s \in Live
           PROVE  table[s].id \in 1 .. LastId
      <3>1. table[s].id \in S /\ table[s].id \in 1 .. MaxId
        BY <2>1, <2>8
      <3>2. Max(S) >= table[s].id
        BY <2>6, <3>1
      <3> QED
        BY <2>7, <2>9, <3>1, <3>2, MaxIdAssumption
    <2> QED
      BY <2>7, <2>9, <2>10, MaxIdAssumption
  <1> QED
    BY <1>1, <1>2

(* What a command resolves consists of names. *)
LEMMA ResolvedType ==
  ASSUME PathsInv, NEW p \in Paths
  PROVE  Resolved(p) \in Seq(Names)
  <1>1. p.parts \in Seq(Words)
    BY PathAssumption DEF Words
  <1>2. IdToPath(current_dir_id) \in Seq(Names)
    BY NameIs DEF PathsInv, TypeOK
  <1>3. IdToPath(current_dir_id) \in Seq(Words)
    BY <1>2, SeqMonotonic DEF Words
  <1>4. IdToPath(current_dir_id) \o p.parts \in Seq(Words)
    BY <1>1, <1>3, ConcatProperties
  <1>5. PathToAbs(p) \in Seq(Words)
    BY <1>1, <1>4 DEF PathToAbs
  <1> QED
    BY <1>5, ResolveType DEF Resolved

(* A path means nothing, the root or an entry. *)
LEMMA IdRange ==
  ASSUME PathsInv, NEW q \in Seq(Names)
  PROVE  PathToId(q) \in {NotFound} \cup 0 .. LastId
  <1>1. CASE q = <<>>
    BY <1>1, IdOfEmpty, LastIdIs
  <1>2. CASE q # <<>>
    <2>1. PICK t \in Seq(Names), n \in Names : q = Append(t, n)
      BY <1>2, SequenceEmptyOrAppend
    <2>2. PathToId(q) = Lookup(PathToId(t), n)
      BY <2>1, IdOfAppend
    <2>3. CASE PathToId(q) # NotFound
      <3>1. PICK s \in Live : table[s].id = PathToId(q)
        BY <2>2, <2>3, LookupIs
      <3> QED
        BY <3>1, LastIdIs
    <2> QED
      BY <2>3
  <1> QED
    BY <1>1, <1>2

(* Where a new entry goes: under the entry of the names before its own. *)
LEMMA ParentRange ==
  ASSUME PathsInv, NEW q \in Seq(Names), ParentOf(q) # NotFound
  PROVE  /\ ParentOf(q) \in 0 .. LastId
         /\ NameOf(q) \in Names \cup {NoName}
         /\ q # <<>> => \E t \in Seq(Names), n \in Names :
              q = Append(t, n) /\ NameOf(q) = n /\ ParentOf(q) = PathToId(t)
  <1>1. CASE q = <<>>
    <2>1. Len(q) < 2
      BY <1>1
    <2> QED
      BY <1>1, <2>1, LastIdIs DEF ParentOf, NameOf
  <1>2. CASE q # <<>>
    <2>1. PICK t \in Seq(Names), n \in Names : q = Append(t, n)
      BY <1>2, SequenceEmptyOrAppend
    <2>2. Front(q) = t /\ Last(q) = n /\ Len(q) = Len(t) + 1 /\ Len(t) \in Nat
      BY <2>1, FrontIs, AppendProperties, LenProperties
    <2>3. ParentOf(q) = PathToId(t)
      <3>1. CASE Len(t) = 0
        <4>1. t = <<>>
          BY <3>1, EmptySeq
        <4> QED
          BY <2>2, <3>1, <4>1, IdOfEmpty DEF ParentOf
      <3>2. CASE Len(t) # 0
        BY <2>2, <3>2 DEF ParentOf
      <3> QED
        BY <3>1, <3>2
    <2>4. NameOf(q) = n
      BY <1>2, <2>2 DEF NameOf
    <2>5. ParentOf(q) \in 0 .. LastId
      BY <2>3, IdRange
    <2> QED
      BY <2>1, <2>3, <2>4, <2>5
  <1> QED
    BY <1>1, <1>2

(* PathsInv is inductive. *)
LEMMA PathsInit == Init => PathsInv
  <1> SUFFICES ASSUME Init
               PROVE  PathsInv
    OBVIOUS
  <1>1. Empty \in Entries
    BY DEF Empty, Entries
  <1>2. table \in [Slots -> Entries] /\ \A s \in Slots : table[s] = Empty
    BY <1>1 DEF Init
  <1>3. Live = {}
    BY <1>2 DEF Live, Empty
  <1>4. current_dir_id \in 0 .. MaxId
    BY MaxIdAssumption DEF Init
  <1> QED
    BY <1>2, <1>3, <1>4 DEF PathsInv, TypeOK

(* What Make writes, and where. *)
LEMMA MakeWrites ==
  ASSUME PathsInv, NEW p \in Paths, NEW type \in {File, Dir}, Make(p, type)
  PROVE  \E s \in Slots \ Live, e \in Entries :
           /\ table' = [table EXCEPT ![s] = e]
           /\ e.id = LastId + 1 /\ e.id \in 1 .. MaxId
           /\ e.name = NameOf(Resolved(p)) /\ e.name \in Names \cup {NoName}
           /\ e.parent = ParentOf(Resolved(p)) /\ e.parent \in 0 .. LastId
           /\ e.type = type
           /\ Live' = Live \cup {s}
           /\ current_dir_id' = current_dir_id
  <1> DEFINE s == First(Slots \ Live)
             e == [id |-> LastId + 1, name |-> NameOf(Resolved(p)),
                   parent |-> ParentOf(Resolved(p)), type |-> type]
  <1>1. s \in Slots \ Live
    <2>1. Slots \ Live # {} /\ Slots \ Live \subseteq Slots
      BY DEF Make, Live
    <2>2. First(Slots \ Live) \in Slots \ Live
      BY <2>1, FirstIs
    <2> QED BY <2>2
  <1>2. ParentOf(Resolved(p)) # NotFound /\ table' = [table EXCEPT ![s] = e]
    BY DEF Make
  <1>3. LastId \in 0 .. MaxId /\ LastId + 1 \in 1 .. MaxId
    BY LastIdIs, MaxIdAssumption DEF Make
  <1>4. ParentOf(Resolved(p)) \in 0 .. LastId /\ NameOf(Resolved(p)) \in Names \cup {NoName}
    BY <1>2, ResolvedType, ParentRange
  <1>5. e \in Entries
    BY <1>3, <1>4 DEF Entries
  <1>6. e.id # 0
    BY <1>3
  <1>7. e.id = LastId + 1 /\ e.name = NameOf(Resolved(p))
        /\ e.parent = ParentOf(Resolved(p)) /\ e.type = type
    OBVIOUS
  <1> HIDE DEF s, e
  <1>8. Live' = Live \cup {s}
    BY <1>1, <1>2, <1>6 DEF Live, PathsInv
  <1>9. current_dir_id' = current_dir_id
    BY DEF Make
  <1> QED
    BY <1>1, <1>2, <1>3, <1>4, <1>5, <1>7, <1>8, <1>9

LEMMA PathsStep == PathsInv /\ [Next]_vars => PathsInv'
  <1> SUFFICES ASSUME PathsInv, [Next]_vars
               PROVE  PathsInv'
    OBVIOUS
  <1>1. ASSUME NEW p \in Paths, NEW type \in {File, Dir}, Make(p, type)
        PROVE  PathsInv'
    <2>1. PICK s \in Slots \ Live, e \in Entries :
           /\ table' = [table EXCEPT ![s] = e]
           /\ e.id = LastId + 1 /\ e.id \in 1 .. MaxId
           /\ e.name \in Names \cup {NoName}
           /\ e.parent \in 0 .. LastId
           /\ e.type = type
           /\ Live' = Live \cup {s}
           /\ current_dir_id' = current_dir_id
      BY <1>1, MakeWrites
    <2>2. table \in [Slots -> Entries] /\ TypeOK
      BY DEF PathsInv
    <2>3. table'[s] = e /\ \A t \in Slots : t # s => table'[t] = table[t]
      BY <2>1, <2>2
    <2>4. LastId \in Nat /\ \A t \in Live : table[t].id \in 1 .. LastId
      BY LastIdIs
    <2>5. e.parent \in 0 .. e.id - 1
      BY <2>1, <2>4
    <2>6. ASSUME NEW t \in Live'
          PROVE  /\ table'[t].id \in 1 .. MaxId /\ table'[t].parent \in 0 .. table'[t].id - 1
                 /\ table'[t].name \in Names \cup {NoName} /\ table'[t].type \in {File, Dir}
                 /\ \A u \in Live' : table'[t].id = table'[u].id => t = u
      <3>1. CASE t = s
        <4>1. \A u \in Live : table'[u].id = table[u].id /\ table[u].id # e.id
          BY <2>1, <2>3, <2>4 DEF Live
        <4> QED
          BY <2>1, <2>3, <2>5, <3>1, <4>1
      <3>2. CASE t \in Live
        <4>1. table'[t] = table[t] /\ table[t].id # e.id
          BY <2>1, <2>3, <2>4, <3>2 DEF Live
        <4>2. \A u \in Live : table'[u] = table[u]
          BY <2>1, <2>3 DEF Live
        <4>3. \A u \in Live' : table'[t].id = table'[u].id => t = u
          BY <2>1, <2>2, <2>3, <3>2, <4>1, <4>2 DEF TypeOK
        <4> QED
          BY <2>2, <3>2, <4>1, <4>3 DEF TypeOK
      <3> QED
        BY <2>1, <3>1, <3>2
    <2>7. \A t \in Slots \ Live' : table'[t] = Empty
      BY <2>1, <2>2, <2>3 DEF TypeOK
    <2>8. table' \in [Slots -> Entries]
      BY <2>1, <2>2
    <2> QED
      BY <2>1, <2>2, <2>6, <2>7, <2>8 DEF PathsInv, TypeOK
  <1>2. ASSUME NEW p \in Paths, NEW type \in {File, Dir}, Unlink(p, type)
        PROVE  PathsInv'
    <2>1. PICK s \in Live : table' = [table EXCEPT ![s] = Empty]
      BY <1>2 DEF Unlink
    <2>2. table \in [Slots -> Entries] /\ TypeOK /\ s \in Slots /\ Empty \in Entries
      BY DEF PathsInv, Live, Empty, Entries
    <2>3. table'[s] = Empty /\ \A t \in Slots : t # s => table'[t] = table[t]
      BY <2>1, <2>2
    <2>4. Live' = Live \ {s}
      BY <2>2, <2>3 DEF Live, Empty
    <2>5. \A t \in Live' : t \in Live /\ table'[t] = table[t]
      BY <2>3, <2>4 DEF Live
    <2>6. \A t \in Slots \ Live' : table'[t] = Empty
      BY <2>2, <2>3, <2>4 DEF TypeOK
    <2>7. table' \in [Slots -> Entries]
      BY <2>1, <2>2
    <2>8. current_dir_id' = current_dir_id
      BY <1>2 DEF Unlink
    <2> QED
      BY <2>2, <2>5, <2>6, <2>7, <2>8 DEF PathsInv, TypeOK
  <1>3. ASSUME NEW p \in Paths, Cd(p)
        PROVE  PathsInv'
    <2>1. Target(p) \in 0 .. LastId /\ LastId \in 0 .. MaxId
      BY <1>3, ResolvedType, IdRange, LastIdIs DEF Cd, Target
    <2>2. current_dir_id' \in 0 .. MaxId /\ table' = table
      BY <1>3, <2>1, MaxIdAssumption DEF Cd
    <2> QED
      BY <2>2 DEF PathsInv, TypeOK, Live
  <1>4. CASE UNCHANGED vars
    BY <1>4 DEF vars, PathsInv, TypeOK, Live
  <1> QED
    BY <1>1, <1>2, <1>3, <1>4 DEF Next, Command

(* Ids in use differ and are within bounds, a parent is older than what    *)
(* hangs under it, and the working directory keeps a number in range: mk,  *)
(* mkdir, rm, rmdir and cd leave it so in any order.                       *)
THEOREM PathsTypeCorrect == Spec => []TypeOK
  <1>1. PathsInv => TypeOK
    BY DEF PathsInv
  <1> QED
    BY <1>1, PathsInit, PathsStep, PTL DEF Spec

(* The path that id_to_path gives for pwd leads path_to_id back to the     *)
(* entry, at any depth.                                                    *)
THEOREM PwdIsRight == Spec => []PwdLeadsBack
  <1>1. PathsInv => PwdLeadsBack
    <2> SUFFICES ASSUME PathsInv, Unique, NEW s \in Live, Reached(table[s].id)
                 PROVE  PathToId(IdToPath(table[s].id)) = table[s].id
      BY DEF PwdLeadsBack
    <2>1. table[s].id \in 0 .. MaxId
      BY DEF PathsInv, TypeOK
    <2> QED
      BY <2>1, NamesLeadBack
  <1> QED
    BY <1>1, PathsInit, PathsStep, PTL DEF Spec

(* path_to_abs and path_resolve work on words; path_to_id then finds what  *)
(* a walk through the table from entry to entry finds, for every path.     *)
THEOREM ResolvingIsWalking == Spec => []ResolveIsWalk
  <1>1. PathsInv => ResolveIsWalk
    <2> SUFFICES ASSUME PathsInv, Unique, Reached(current_dir_id),
                        NEW p \in Paths, Walk(p) # NotFound
                 PROVE  Target(p) = Walk(p)
      BY DEF ResolveIsWalk
    <2>1. Walk(p) \in 0 .. MaxId /\ Reached(Walk(p)) /\ Resolved(p) = IdToPath(Walk(p))
      BY WalkResolves
    <2> QED
      BY <2>1, NamesLeadBack DEF Target
  <1> QED
    BY <1>1, PathsInit, PathsStep, PTL DEF Spec

-----------------------------------------------------------------------------
(* What is made is found: the equations above, also in the next state.     *)

IdGrows ==
  /\ PathToId(<<>>) = 0
  /\ \A q \in Seq(Names), n \in Names : \A c :
       c = PathToId(q) => PathToId(Append(q, n)) = Lookup(c, n)
NameGrows ==
  /\ IdToPath(0) = <<>>
  /\ \A id \in 1 .. MaxId : \A d :
       /\ Holders(id) = {} => IdToPath(id) = <<>>
       /\ Holders(id) # {} /\ d = Entry(id) =>
            IdToPath(id) = IdToPath(d.parent) \o Component(d)

(* They hold wherever PathsInv does, before a step and after it. *)
LEMMA Grows == PathsInv => IdGrows /\ NameGrows
  BY IdOfEmpty, IdOfAppend, NameIs DEF IdGrows, NameGrows

LEMMA GrowsNext == PathsInv' => IdGrows' /\ NameGrows'
  BY Grows, PTL

(* A new entry changes the one lookup that it is for. *)
LEMMA LookupAfter ==
  ASSUME PathsInv, NEW s \in Slots \ Live, NEW e \in Entries,
         table' = [table EXCEPT ![s] = e], Live' = Live \cup {s},
         Lookup(e.parent, e.name) = NotFound
  PROVE  /\ Lookup(e.parent, e.name)' = e.id
         /\ \A x, n : <<x, n>> # <<e.parent, e.name>> => Lookup(x, n)' = Lookup(x, n)
  <1>1. table'[s] = e /\ \A t \in Live : table'[t] = table[t]
    BY DEF PathsInv, Live
  <1>2. Lookup(e.parent, e.name)' = e.id
    <2>1. {t \in Live' : table'[t].name = e.name /\ table'[t].parent = e.parent} = {s}
      BY <1>1, LookupIs
    <2>2. First({s}) = s
      <3>1. {s} \subseteq Slots /\ {s} # {}
        OBVIOUS
      <3> QED BY <3>1, FirstIs
    <2> QED
      BY <1>1, <2>1, <2>2 DEF Lookup
  <1>3. ASSUME NEW x, NEW n, <<x, n>> # <<e.parent, e.name>>
        PROVE  Lookup(x, n)' = Lookup(x, n)
    <2> DEFINE S == {t \in Live : table[t].name = n /\ table[t].parent = x}
    <2>1. {t \in Live' : table'[t].name = n /\ table'[t].parent = x} = S
      BY <1>1, <1>3
    <2>2. CASE S = {}
      BY <2>1, <2>2 DEF Lookup
    <2>3. CASE S # {}
      <3>1. First(S) \in S
        <4>1. S \subseteq Slots
          BY DEF Live
        <4> HIDE DEF S
        <4> QED BY <2>3, <4>1, FirstIs
      <3>2. table'[First(S)] = table[First(S)]
        BY <1>1, <3>1
      <3>3. Lookup(x, n) = table[First(S)].id
        BY <2>3 DEF Lookup
      <3>4. Lookup(x, n)' = table'[First(S)].id
        BY <2>1, <2>3 DEF Lookup
      <3> QED
        BY <3>2, <3>3, <3>4
    <2> QED
      BY <2>2, <2>3
  <1> QED
    BY <1>2, <1>3

(* Other paths that mean something keep their meaning, *)
LEMMA IdAfter ==
  ASSUME PathsInv, IdGrows', NEW s \in Slots \ Live, NEW e \in Entries,
         table' = [table EXCEPT ![s] = e], Live' = Live \cup {s},
         Lookup(e.parent, e.name) = NotFound,
         NEW q \in Seq(Names), PathToId(q) # NotFound
  PROVE  PathToId(q)' = PathToId(q)
  <1> DEFINE T == {k \in Nat : \A r \in Seq(Names) :
                     Len(r) = k /\ PathToId(r) # NotFound => PathToId(r)' = PathToId(r)}
  <1>1. ASSUME NEW k \in Nat, \A j \in Nat : j < k => j \in T
        PROVE  k \in T
    <2> SUFFICES ASSUME NEW r \in Seq(Names), Len(r) = k, PathToId(r) # NotFound
                 PROVE  PathToId(r)' = PathToId(r)
      OBVIOUS
    <2>1. CASE r = <<>>
      BY <2>1, Grows DEF IdGrows
    <2>2. CASE r # <<>>
      <3>1. PICK t \in Seq(Names), n \in Names : r = Append(t, n)
        BY <2>2, SequenceEmptyOrAppend
      <3>2. Len(t) \in Nat /\ Len(r) = Len(t) + 1
        BY <3>1, LenProperties, AppendProperties
      <3>3. PathToId(r) = Lookup(PathToId(t), n)
        BY <3>1, IdOfAppend
      <3>4. PathToId(t) # NotFound
        <4>1. PICK u \in Live : table[u].parent = PathToId(t)
          BY <3>3, LookupIs
        <4>2. table[u].parent \in Nat
          BY DEF PathsInv, Live, Entries
        <4> QED
          BY <4>1, <4>2 DEF NotFound
      <3>5. PathToId(t)' = PathToId(t)
        <4>1. Len(t) \in T
          BY <1>1, <3>2
        <4> QED
          BY <3>4, <4>1
      <3>6. PICK c : c = PathToId(t)
        OBVIOUS
      <3>7. PathToId(r)' = Lookup(c, n)'
        BY <3>1, <3>5, <3>6 DEF IdGrows
      <3>8. <<c, n>> # <<e.parent, e.name>>
        BY <3>3, <3>6
      <3>9. Lookup(c, n)' = Lookup(c, n)
        BY <3>8, LookupAfter
      <3> QED
        BY <3>3, <3>6, <3>7, <3>9
    <2> QED
      BY <2>1, <2>2
  <1>2. \A k \in Nat : k \in T
    <2> HIDE DEF T
    <2> QED BY <1>1, Below
  <1>3. Len(q) \in Nat
    BY LenProperties
  <1> QED
    BY <1>2, <1>3

(* and the entries that were there keep their paths. *)
LEMMA NameAfter ==
  ASSUME PathsInv, NameGrows', NEW s \in Slots \ Live, NEW e \in Entries,
         table' = [table EXCEPT ![s] = e], Live' = Live \cup {s},
         e.id = LastId + 1, NEW id \in 0 .. LastId
  PROVE  IdToPath(id)' = IdToPath(id)
  <1>0. LastId \in Nat /\ LastId <= MaxId
    BY LastIdIs, MaxIdAssumption
  <1>1. table'[s] = e /\ \A t \in Live : table'[t] = table[t]
    BY DEF PathsInv, Live
  <1>2. ASSUME NEW i \in 1 .. LastId
        PROVE  /\ Holders(i)' = Holders(i)
               /\ Holders(i) # {} => Entry(i)' = Entry(i) /\ Entry(i).parent \in 0 .. i - 1
    <2>1. Holders(i)' = Holders(i)
      <3>1. i # LastId + 1
        BY <1>0
      <3> QED
        BY <1>1, <3>1 DEF Holders
    <2>2. ASSUME Holders(i) # {}
          PROVE  Entry(i)' = Entry(i)
      <3>1. Holders(i) \subseteq Slots
        BY DEF Holders, Live
      <3>2. First(Holders(i)) \in Holders(i)
        BY <2>2, <3>1, FirstIs
      <3>3. First(Holders(i)) \in Live
        BY <3>2 DEF Holders
      <3> QED
        BY <1>1, <2>1, <3>3 DEF Entry
    <2>3. i \in 1 .. MaxId
      BY <1>0, MaxIdAssumption
    <2> QED
      BY <2>1, <2>2, <2>3, ParentIs
  <1> DEFINE T == {i \in Nat : i <= LastId => IdToPath(i)' = IdToPath(i)}
  <1>3. ASSUME NEW i \in Nat, \A j \in Nat : j < i => j \in T
        PROVE  i \in T
    <2> SUFFICES ASSUME i <= LastId
                 PROVE  IdToPath(i)' = IdToPath(i)
      OBVIOUS
    <2>1. CASE i = 0
      BY <2>1, Grows DEF NameGrows
    <2>2. CASE i # 0
      <3>1. i \in 1 .. LastId /\ i \in 1 .. MaxId
        BY <1>0, <2>2, MaxIdAssumption
      <3>2. \A d : /\ Holders(i) = {} => IdToPath(i) = <<>>
                   /\ Holders(i) # {} /\ d = Entry(i) =>
                        IdToPath(i) = IdToPath(d.parent) \o Component(d)
        BY <3>1, Grows DEF NameGrows
      <3>3. CASE Holders(i) = {}
        <4>1. Holders(i)' = {}
          BY <1>2, <3>1, <3>3
        <4>2. IdToPath(i)' = <<>>
          BY <3>1, <4>1 DEF NameGrows
        <4> QED BY <3>2, <3>3, <4>2
      <3>4. CASE Holders(i) # {}
        <4>1. PICK d : d = Entry(i) /\ d = (Entry(i))'
          BY <1>2, <3>1, <3>4
        <4>2. Holders(i)' # {} /\ d.parent \in 0 .. i - 1
          BY <1>2, <3>1, <3>4, <4>1
        <4>3. IdToPath(i)' = IdToPath(d.parent)' \o Component(d)
          BY <3>1, <4>1, <4>2 DEF NameGrows
        <4>4. IdToPath(i) = IdToPath(d.parent) \o Component(d)
          BY <3>2, <3>4, <4>1
        <4>5. d.parent \in T /\ d.parent <= LastId
          BY <1>0, <1>3, <3>1, <4>2
        <4>6. IdToPath(d.parent)' = IdToPath(d.parent)
          BY <4>5
        <4> QED BY <4>3, <4>4, <4>6
      <3> QED
        BY <3>3, <3>4
    <2> QED
      BY <2>1, <2>2
  <1>4. \A i \in Nat : i \in T
    <2> HIDE DEF T
    <2> QED BY <1>3, Below
  <1> QED
    BY <1>0, <1>4

(* So the path that made the entry is resolved as before and finds it. *)
LEMMA MakeIsFound ==
  ASSUME PathsInv, Reached(current_dir_id), NEW p \in Paths, NEW type \in {File, Dir},
         Make(p, type), Target(p) = NotFound
  PROVE  Target(p)' = LastId + 1
  <1>0. PathsInv'
    BY PathsStep DEF Next, Command
  <1>1. PICK s \in Slots \ Live, e \in Entries :
           /\ table' = [table EXCEPT ![s] = e]
           /\ e.id = LastId + 1
           /\ e.name = NameOf(Resolved(p))
           /\ e.parent = ParentOf(Resolved(p))
           /\ Live' = Live \cup {s}
           /\ current_dir_id' = current_dir_id
    BY MakeWrites
  <1>2. PICK r \in Seq(Names) : r = Resolved(p)
    BY ResolvedType
  <1>3. PathToId(r) = NotFound
    BY <1>2 DEF Target
  <1>4. r # <<>>
    BY <1>3, IdOfEmpty DEF NotFound
  <1>5. ParentOf(r) # NotFound
    BY <1>2 DEF Make
  <1>6. PICK t \in Seq(Names), n \in Names :
           r = Append(t, n) /\ NameOf(r) = n /\ ParentOf(r) = PathToId(t)
    BY <1>4, <1>5, ParentRange
  <1>7. e.name = n /\ e.parent = PathToId(t) /\ PathToId(t) # NotFound
    BY <1>1, <1>2, <1>5, <1>6
  <1>8. Lookup(e.parent, e.name) = NotFound
    BY <1>3, <1>6, <1>7, IdOfAppend
  <1>9. PathToId(t)' = e.parent
    BY <1>0, <1>1, <1>7, <1>8, IdAfter, GrowsNext
  <1>10. PathToId(r)' = e.id
    <2>1. PICK c : c = e.parent
      OBVIOUS
    <2>2. PathToId(r)' = Lookup(c, n)'
      BY <1>0, <1>6, <1>9, <2>1, GrowsNext DEF IdGrows
    <2>3. Lookup(e.parent, e.name)' = e.id
      BY <1>1, <1>8, LookupAfter
    <2> QED
      BY <1>7, <2>1, <2>2, <2>3
  <1>11. Resolved(p)' = r
    <2>1. PICK d : d = current_dir_id /\ current_dir_id' = d
      BY <1>1
    <2>2. d \in 0 .. LastId
      <3>1. d \in 0 .. MaxId
        BY <2>1 DEF PathsInv, TypeOK
      <3>2. CASE d = 0
        BY <3>2, LastIdIs
      <3>3. CASE d \in 1 .. MaxId
        <4>1. \E u \in Live : table[u].id = d
          BY <2>1, <3>3, ReachedFrom
        <4> QED
          BY <4>1, LastIdIs
      <3> QED
        BY <3>1, <3>2, <3>3
    <2>3. IdToPath(d)' = IdToPath(d)
      BY <1>0, <1>1, <2>2, NameAfter, GrowsNext
    <2>4. PathToAbs(p)' = PathToAbs(p)
      BY <2>1, <2>3 DEF PathToAbs
    <2> QED
      BY <1>2, <2>4 DEF Resolved
  <1>12. Target(p)' = PathToId(r)'
    BY <1>11 DEF Target
  <1> QED
    BY <1>1, <1>10, <1>12

(* What mk or mkdir made under a free name is found by the next command    *)
(* that is given the same path.                                            *)
THEOREM MadeFilesAreFound == Spec => MadeIsFound
  <1>1. PathsInv /\ [Next]_vars =>
          [(\E s \in Slots \ Live : table'[s] # Empty) /\ Reached(current_dir_id) =>
             \A p \in Paths, type \in {File, Dir} :
               Make(p, type) /\ Target(p) = NotFound => Target(p)' = LastId + 1]_vars
    BY MakeIsFound
  <1> QED
    BY <1>1, PathsInit, PathsStep, PTL DEF Spec, MadeIsFound
=============================================================================
