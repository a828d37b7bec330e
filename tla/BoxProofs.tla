----------------------------- MODULE BoxProofs -----------------------------
(***************************************************************************)
(* Trees of boxes are soundly owned, and values, for any number of         *)
(* variables and cells and trees of any size, as long as the program is    *)
(* Careful.                                                                *)
(*                                                                         *)
(* An assignment deletes one tree and then reads another.  So the proof is *)
(* about where a cell can be: with single owners, it is in one variable's  *)
(* tree at one path (UniquePath), and in the tree at a named place only if *)
(* the name is the beginning of that path (BelowName).  Trees at places of *)
(* which neither is inside the other are therefore apart (TreesApart).     *)
(* The second half is about what a step makes of the variables' trees:     *)
(* they are cut and grafted (Grafting) as the values are written.          *)
(***************************************************************************)
EXTENDS Box, SequenceTheorems, FiniteSetTheorems, WellFoundedInduction, TLAPS

(***************************************************************************)
(* Neither of the two ways in which an assignment goes wrong: its argument *)
(* is not inside its target or around it, and a copy that throws was to be *)
(* assigned to an empty Box.                                               *)
(***************************************************************************)
Careful == Aliased = FALSE /\ MayThrow \subseteq {"null"}

(* What is pointed at, and what is being assigned, is in no cell still free. *)
FreeIsUntouched ==
  /\ \A p \in Place : ptr[p] \in Cell => heap[ptr[p]] # "free"
  /\ \A c \in Cell : heap[c] = "free" => \A f \in Field : ptr[<<c, f>>] = Null
  /\ ~Idle => \A p \in {assigning.to, assigning.from} \ Slot : heap[p[1]] # "free"

(* Every Box there is has a value, and will have one. *)
BoxesHaveValues ==
  /\ \A s \in Slot : ptr[s] # Absent => value[s] \in SUBSET Seq(Field)
  /\ ~Idle => \A s \in Slot : ptr[s] # Absent => assigning.due[s] \in SUBSET Seq(Field)

NotToItself == ~Idle => assigning.to # assigning.from /\ HasBox(assigning.to)

IInv ==
  /\ TypeOK
  /\ FreeIsUntouched
  /\ SingleOwner
  /\ NoDangling
  /\ BoxesHaveValues
  /\ NotToItself

-----------------------------------------------------------------------------
(* A set of naturals has a least element: {1 .. n : n \in T} has one. *)
LEMMA LeastNatural ==
  ASSUME NEW T, T \subseteq Nat, T # {}
  PROVE  \E x \in T : \A y \in T : x <= y
<1> DEFINE R == StrictSubsetOrdering(Nat)
           F == FiniteSubsetsOf(Nat)
           D == {1 .. n : n \in T}
<1>1. IsWellFoundedOn(R, F)
  BY FS_StrictSubsetOrderingWellFounded
<1>2. \A n \in T : 1 .. n \in FiniteSubsetsOf(Nat)
  <2> SUFFICES ASSUME NEW n \in T PROVE 1 .. n \in FiniteSubsetsOf(Nat)
    OBVIOUS
  <2>1. n \in Int /\ 1 .. n \subseteq Nat
    OBVIOUS
  <2>2. QED
    BY <2>1, FS_Interval DEF FiniteSubsetsOf
<1>3. D \subseteq F /\ D # {}
  BY <1>2
<1>4. PICK d \in D : \A e \in D : ~(<<e, d>> \in R)
  <2> HIDE DEF R, F, D
  <2>1. QED
    BY <1>1, <1>3, WFMin
<1>5. PICK x \in T : d = 1 .. x
  OBVIOUS
<1>6. ASSUME NEW y \in T, y < x PROVE FALSE
  <2>1. x \in 1 .. x /\ x \notin 1 .. y
    BY <1>6
  <2>2. 1 .. y \subseteq 1 .. x
    BY <1>6
  <2>3. 1 .. y \subseteq Nat /\ 1 .. x \subseteq Nat /\ 1 .. y # 1 .. x
    BY <2>1
  <2>4. <<1 .. y, 1 .. x>> \in R
    BY <2>2, <2>3 DEF StrictSubsetOrdering
  <2>5. QED
    BY <1>4, <1>5, <2>4
<1>7. QED
  BY <1>5, <1>6

(* Induction, for a set of naturals rather than a predicate. *)
LEMMA Inductive ==
  ASSUME NEW S, 0 \in S, \A n \in Nat : n \in S => n + 1 \in S
  PROVE  \A n \in Nat : n \in S
<1> DEFINE T == {n \in Nat : n \notin S}
<1> SUFFICES ASSUME T # {} PROVE FALSE
  OBVIOUS
<1>1. PICK n \in T : \A m \in T : n <= m
  BY LeastNatural
<1>2. n - 1 \in Nat /\ n - 1 \notin T
  BY <1>1
<1>3. (n - 1) + 1 \in S
  BY <1>2
<1>4. QED
  BY <1>3

-----------------------------------------------------------------------------
(* The nodes of a tree *)

AllChildren(nodes) == UNION {Children(node) : node \in nodes}

(* level[n] is the nodes of the tree at p that are n steps down, up to k. *)
Levels(level, p, k) ==
  level = [n \in 0 .. k |-> IF n = 0 THEN Root(p) ELSE AllChildren(level[n - 1])]

(* There are such sets, however many levels are asked for. *)
LEMMA LevelsExist ==
  ASSUME NEW p, NEW K \in Nat
  PROVE  \E level : Levels(level, p, K)
<1> DEFINE S == {m \in Nat : \E g : Levels(g, p, m)}
<1>1. \E g : Levels(g, p, 0)
  <2>1. Levels([n \in 0 .. 0 |-> Root(p)], p, 0)
    BY DEF Levels
  <2>2. QED
    BY <2>1
<1>2. ASSUME NEW m \in Nat, NEW g, Levels(g, p, m)
      PROVE  \E h : Levels(h, p, m + 1)
  <2> DEFINE h == [n \in 0 .. m + 1 |-> IF n = m + 1 THEN AllChildren(g[m]) ELSE g[n]]
  <2>1. \A n \in 0 .. m : h[n] = g[n]
    OBVIOUS
  <2>2. h[m + 1] = AllChildren(g[m]) /\ h[m] = g[m]
    OBVIOUS
  <2>3. ASSUME NEW n \in 0 .. m + 1
        PROVE  h[n] = IF n = 0 THEN Root(p) ELSE AllChildren(h[n - 1])
    <3>1. CASE n = m + 1
      BY <2>2, <3>1
    <3>2. CASE n # m + 1
      <4>1. n \in 0 .. m /\ g[n] = IF n = 0 THEN Root(p) ELSE AllChildren(g[n - 1])
        BY <1>2, <3>2 DEF Levels
      <4>2. n # 0 => h[n - 1] = g[n - 1]
        BY <2>1, <4>1
      <4>3. QED
        BY <2>1, <4>1, <4>2
    <3>3. QED
      BY <3>1, <3>2
  <2>4. Levels(h, p, m + 1)
    BY <2>3 DEF Levels
  <2>5. QED
    BY <2>4
<1>3. \A m \in Nat : m \in S
  <2>1. 0 \in S /\ \A m \in Nat : m \in S => m + 1 \in S
    BY <1>1, <1>2
  <2> HIDE DEF S
  <2>2. QED
    BY <2>1, Inductive
<1>4. QED
  BY <1>3

LEMMA NodesByLevel ==
  ASSUME NEW p
  PROVE  \E level : /\ Levels(level, p, Cardinality(Cell))
                    /\ Nodes(p) = UNION {level[n] : n \in 0 .. Cardinality(Cell)}
<1>1. Cardinality(Cell) \in Nat
  BY BoxAssumption, FS_CardinalityType
<1> DEFINE level[n \in 0 .. Cardinality(Cell)] ==
             IF n = 0 THEN Root(p) ELSE UNION {Children(node) : node \in level[n - 1]}
<1>2. \E l : Levels(l, p, Cardinality(Cell))
  BY <1>1, LevelsExist
<1>3. \E l : l = [n \in 0 .. Cardinality(Cell) |->
                    IF n = 0 THEN Root(p) ELSE UNION {Children(node) : node \in l[n - 1]}]
  BY <1>2, Zenon DEF Levels, AllChildren
<1>4. Levels(level, p, Cardinality(Cell))
  BY <1>3, Zenon DEF Levels, AllChildren
<1>5. Nodes(p) = UNION {level[n] : n \in 0 .. Cardinality(Cell)}
  BY DEF Nodes
<1>6. QED
  BY <1>4, <1>5

LEMMA PlacesApart ==
  /\ \A s \in Slot : s \in Place /\ s \notin Cell \X Field
  /\ \A c \in Cell, f \in Field : <<c, f>> \in Place /\ <<c, f>> \notin Slot
  /\ \A p \in Place : p \in Slot \/ \E c \in Cell, f \in Field : p = <<c, f>>
  BY BoxAssumption DEF Place

LEMMA LevelsHoldNodes ==
  ASSUME TypeOK, NEW p \in Place, NEW k \in Nat, NEW level, Levels(level, p, k)
  PROVE  \A n \in 0 .. k : \A x \in level[n] : x \in Seq(Field) \X Cell /\ Len(x[1]) = n
<1> DEFINE S == {n \in Nat : n \in 0 .. k =>
                    \A x \in level[n] : x \in Seq(Field) \X Cell /\ Len(x[1]) = n}
<1>1. 0 \in S
  <2>1. level[0] = Root(p)
    BY DEF Levels
  <2>2. \A x \in Root(p) : x = <<<<>>, ptr[p]>> /\ ptr[p] \in Cell
    BY DEF Root
  <2>3. <<>> \in Seq(Field) /\ Len(<<>>) = 0
    OBVIOUS
  <2>4. \A x \in Root(p) : x \in Seq(Field) \X Cell /\ Len(x[1]) = 0
    <3> SUFFICES ASSUME NEW x \in Root(p)
                 PROVE  x \in Seq(Field) \X Cell /\ Len(x[1]) = 0
      OBVIOUS
    <3>1. x = <<<<>>, ptr[p]>> /\ ptr[p] \in Cell
      BY <2>2
    <3>2. x[1] = <<>>
      BY <3>1
    <3>3. x \in Seq(Field) \X Cell
      BY <2>3, <3>1
    <3>4. Len(x[1]) = 0
      BY <2>3, <3>2, Zenon
    <3>5. QED
      BY <3>3, <3>4
  <2>5. \A x \in level[0] : x \in Seq(Field) \X Cell /\ Len(x[1]) = 0
    BY <2>1, <2>4
  <2>6. QED
    BY <2>5
<1>2. ASSUME NEW n \in Nat, n \in S PROVE n + 1 \in S
  <2> SUFFICES ASSUME n + 1 \in 0 .. k, NEW x \in level[n + 1]
               PROVE  x \in Seq(Field) \X Cell /\ Len(x[1]) = n + 1
    OBVIOUS
  <2>1. n \in 0 .. k /\ level[n + 1] = AllChildren(level[n])
    BY DEF Levels
  <2>2. PICK y \in level[n] : x \in Children(y)
    BY <2>1 DEF AllChildren
  <2>3. y \in Seq(Field) \X Cell /\ Len(y[1]) = n
    BY <1>2, <2>1
  <2>4. PICK f \in Field : ptr[<<y[2], f>>] # Null /\ x = <<Append(y[1], f), ptr[<<y[2], f>>]>>
    BY <2>2 DEF Children
  <2>5. ptr[<<y[2], f>>] \in Cell
    BY <2>3, <2>4, PlacesApart DEF TypeOK
  <2>6. Append(y[1], f) \in Seq(Field) /\ Len(Append(y[1], f)) = n + 1
    BY <2>3
  <2>7. QED
    BY <2>4, <2>5, <2>6
<1>3. \A n \in Nat : n \in S
  BY <1>1, <1>2, Inductive
<1>4. QED
  BY <1>3

(* A node at the end of path q holds c by way of a field of the node above it. *)
Above(p, q, c) ==
  \E r \in Seq(Field), f \in Field, d \in Cell :
     /\ q = Append(r, f) /\ Len(q) = Len(r) + 1
     /\ <<r, d>> \in Nodes(p)
     /\ c = ptr[<<d, f>>]

(* A node is the root, or the child of a node one step above it. *)
LEMMA NodeFacts ==
  ASSUME TypeOK, NEW p \in Place
  PROVE  /\ Nodes(p) \subseteq Seq(Field) \X Cell
         /\ \A c : <<<<>>, c>> \in Nodes(p) <=> c = ptr[p] /\ c \in Cell
         /\ \A q \in Seq(Field), c \in Cell : <<q, c>> \in Nodes(p) /\ q # <<>> => Above(p, q, c)
<1> DEFINE K == Cardinality(Cell)
<1>0. K \in Nat
  BY BoxAssumption, FS_CardinalityType
<1>1. PICK level : Levels(level, p, K) /\ Nodes(p) = UNION {level[n] : n \in 0 .. K}
  BY NodesByLevel
<1> HIDE DEF K
<1>2. \A n \in 0 .. K : \A x \in level[n] : x \in Seq(Field) \X Cell /\ Len(x[1]) = n
  BY <1>0, <1>1, LevelsHoldNodes
<1>3. Nodes(p) \subseteq Seq(Field) \X Cell
  BY <1>1, <1>2
<1>4. ASSUME NEW c PROVE <<<<>>, c>> \in Nodes(p) <=> c = ptr[p] /\ c \in Cell
  <2>1. level[0] = Root(p) /\ 0 \in 0 .. K
    BY <1>0, <1>1 DEF Levels
  <2>2. ASSUME <<<<>>, c>> \in Nodes(p) PROVE c = ptr[p] /\ c \in Cell
    <3>1. PICK n \in 0 .. K : <<<<>>, c>> \in level[n]
      BY <1>1, <2>2
    <3>2. n = 0
      BY <1>2, <3>1
    <3>3. QED
      BY <2>1, <3>1, <3>2 DEF Root
  <2>3. ASSUME c = ptr[p], c \in Cell PROVE <<<<>>, c>> \in Nodes(p)
    <3>1. <<<<>>, c>> \in Root(p)
      BY <2>3 DEF Root
    <3>2. QED
      BY <1>1, <2>1, <3>1
  <2>4. QED
    BY <2>2, <2>3
<1>5. ASSUME NEW q \in Seq(Field), NEW c \in Cell, <<q, c>> \in Nodes(p), q # <<>>
      PROVE  Above(p, q, c)
  <2>1. PICK n \in 0 .. K : <<q, c>> \in level[n]
    BY <1>1, <1>5
  <2>2. q \in Seq(Field) /\ Len(q) = n
    BY <1>2, <2>1
  <2>3. n # 0 /\ n - 1 \in 0 .. K
    BY <1>0, <1>5, <2>2
  <2>4. level[n] = AllChildren(level[n - 1])
    BY <1>1, <2>3 DEF Levels
  <2>5. PICK y \in level[n - 1] : <<q, c>> \in Children(y)
    BY <2>1, <2>4 DEF AllChildren
  <2>6. y \in Seq(Field) \X Cell /\ Len(y[1]) = n - 1
    BY <1>2, <2>3
  <2>7. PICK f \in Field : q = Append(y[1], f) /\ c = ptr[<<y[2], f>>]
    BY <2>5 DEF Children
  <2>8. <<y[1], y[2]>> \in Nodes(p) /\ Len(q) = Len(y[1]) + 1
    <3>1. y \in Nodes(p)
      BY <1>1, <2>3
    <3>2. y = <<y[1], y[2]>>
      BY <2>6
    <3>3. Len(q) = Len(y[1]) + 1
      BY <2>2, <2>3, <2>6
    <3>4. QED
      BY <3>1, <3>2, <3>3
  <2>9. y[1] \in Seq(Field) /\ y[2] \in Cell
    BY <2>6
  <2>10. QED
    BY <2>7, <2>8, <2>9, Zenon DEF Above
<1>6. QED
  BY <1>3, <1>4, <1>5

(* The root of a tree. *)
LEMMA NodeRoot ==
  ASSUME TypeOK, NEW p \in Place, NEW c
  PROVE  <<<<>>, c>> \in Nodes(p) <=> c = ptr[p] /\ c \in Cell
  BY NodeFacts

(* Any other node is the child of one. *)
LEMMA NodeAbove ==
  ASSUME TypeOK, NEW p \in Place, NEW q \in Seq(Field), NEW c \in Cell,
         <<q, c>> \in Nodes(p), q # <<>>
  PROVE  Above(p, q, c)
  BY NodeFacts

(* In a set of pairs it has, a path of a tree leads to one of its nodes. *)
LEMMA TreeFacts ==
  ASSUME TypeOK, NEW p \in Place
  PROVE  /\ Tree(p) \subseteq Seq(Field)
         /\ CellsOf(p) \subseteq Cell
         /\ \A q \in Tree(p) : \E c \in Cell : <<q, c>> \in Nodes(p)
         /\ \A c \in CellsOf(p) : \E q \in Seq(Field) : <<q, c>> \in Nodes(p)
         /\ \A q, c : <<q, c>> \in Nodes(p) => q \in Tree(p) /\ c \in CellsOf(p)
<1>1. Nodes(p) \subseteq Seq(Field) \X Cell
  BY NodeFacts
<1>2. \A x \in Nodes(p) : x = <<x[1], x[2]>> /\ x[1] \in Seq(Field) /\ x[2] \in Cell
  BY <1>1
<1>3. \A q \in Tree(p) : \E c \in Cell : <<q, c>> \in Nodes(p)
  BY <1>2 DEF Tree
<1>4. \A c \in CellsOf(p) : \E q \in Seq(Field) : <<q, c>> \in Nodes(p)
  BY <1>2 DEF CellsOf
<1>5. ASSUME NEW q, NEW c, <<q, c>> \in Nodes(p) PROVE q \in Tree(p) /\ c \in CellsOf(p)
  <2>1. <<q, c>>[1] = q /\ <<q, c>>[2] = c
    OBVIOUS
  <2>2. QED
    BY <1>5, <2>1, Zenon DEF Tree, CellsOf
<1>6. QED
  BY <1>2, <1>3, <1>4, <1>5 DEF Tree, CellsOf

LEMMA EndsOfAppend ==
  ASSUME NEW S, NEW q \in Seq(S), NEW f \in S
  PROVE  Append(q, f) \in Seq(S) /\ Append(q, f) # <<>>
         /\ Front(Append(q, f)) = q /\ Last(Append(q, f)) = f
  BY DEF Front, Last

(* The path from s, of whose tree nodes are the nodes, leads to the place t. *)
Leads(nodes, s, path, t) ==
  \/ path = <<>> /\ t = s
  \/ \E q \in Seq(Field), c \in Cell, f \in Field :
       path = Append(q, f) /\ <<q, c>> \in nodes /\ t = <<c, f>>

(* A name from a variable is of a place: of the variable, or of a field of a node of its tree. *)
LEMMA NamesPlaces ==
  ASSUME TypeOK, NEW s \in Slot, NEW path \in Names(s)
  PROVE  /\ ptr[s] # Absent
         /\ path \in Seq(Field)
         /\ Leads(Nodes(s), s, path, At(s, path))
         /\ At(s, path) \in Place
<1>1. s \in Place
  BY PlacesApart
<1>2. CASE path = <<>>
  BY <1>1, <1>2 DEF At, Names, Leads
<1>3. CASE path # <<>>
  <2>1. PICK q \in Tree(s), f \in Field : path = Append(q, f)
    BY <1>3 DEF Names
  <2>2. q \in Seq(Field) /\ \E c \in Cell : <<q, c>> \in Nodes(s)
    <3>1. Tree(s) \subseteq Seq(Field) /\ \A r \in Tree(s) : \E c \in Cell : <<r, c>> \in Nodes(s)
      BY <1>1, TreeFacts
    <3>2. QED
      BY <3>1
  <2>3. path \in Seq(Field) /\ Front(path) = q /\ Last(path) = f
    BY <2>1, <2>2, EndsOfAppend
  <2> DEFINE c == CHOOSE d \in Cell : <<q, d>> \in Nodes(s)
  <2>4. c \in Cell /\ <<q, c>> \in Nodes(s)
    BY <2>2
  <2>5. At(s, path) = <<c, f>>
    BY <1>3, <2>3, Zenon DEF At
  <2> HIDE DEF c
  <2>6. At(s, path) \in Place
    BY <2>4, <2>5 DEF Place
  <2>7. QED
    <3>1. ptr[s] # Absent
      BY DEF Names
    <3>2. Leads(Nodes(s), s, path, At(s, path))
      BY <2>1, <2>2, <2>4, <2>5, Zenon DEF Leads
    <3>3. QED
      BY <2>3, <2>6, <3>1, <3>2
<1>4. QED
  BY <1>2, <1>3

(* No Box dangles, and a whole tree is live, as long as nothing is being assigned. *)
LEMMA LiveNodes ==
  ASSUME TypeOK, NoDangling, Idle, NEW p \in Place, HasBox(p)
  PROVE  \A c \in CellsOf(p) : heap[c] = "live"
<1> DEFINE S == {n \in Nat : \A q \in Seq(Field), c \in Cell :
                               Len(q) = n /\ <<q, c>> \in Nodes(p) => heap[c] = "live"}
<1>1. \A x \in Place : HasBox(x) /\ ptr[x] \in Cell => heap[ptr[x]] = "live"
  BY DEF NoDangling
<1>2. 0 \in S
  <2> SUFFICES ASSUME NEW q \in Seq(Field), NEW c \in Cell, Len(q) = 0, <<q, c>> \in Nodes(p)
               PROVE  heap[c] = "live"
    OBVIOUS
  <2>1. q = <<>>
    OBVIOUS
  <2>2. c = ptr[p]
    BY <2>1, NodeRoot
  <2>3. QED
    BY <1>1, <2>2
<1>3. ASSUME NEW n \in Nat, n \in S PROVE n + 1 \in S
  <2> SUFFICES ASSUME NEW q \in Seq(Field), NEW c \in Cell, Len(q) = n + 1, <<q, c>> \in Nodes(p)
               PROVE  heap[c] = "live"
    OBVIOUS
  <2>1. q # <<>>
    OBVIOUS
  <2>2. PICK r \in Seq(Field), f \in Field, d \in Cell :
          Len(q) = Len(r) + 1 /\ <<r, d>> \in Nodes(p) /\ c = ptr[<<d, f>>]
    <3>1. Above(p, q, c)
      BY <2>1, NodeAbove
    <3>2. QED
      BY <3>1, Zenon DEF Above
  <2>3. heap[d] = "live"
    BY <1>3, <2>2
  <2>4. <<d, f>> \in Place /\ HasBox(<<d, f>>)
    BY <2>2, <2>3, PlacesApart DEF HasBox
  <2>5. QED
    BY <1>1, <2>2, <2>4
<1>4. \A n \in Nat : n \in S
  <2> HIDE DEF S
  <2>1. QED
    BY <1>2, <1>3, Inductive
<1>5. ASSUME NEW c \in CellsOf(p) PROVE heap[c] = "live"
  <2>1. PICK q \in Seq(Field) : <<q, c>> \in Nodes(p)
    BY TreeFacts
  <2>2. c \in Cell /\ Len(q) \in Nat
    BY TreeFacts
  <2>3. QED
    BY <1>4, <2>1, <2>2
<1>6. QED
  BY <1>5

(* A cell of the tree at p is the one p points to, or a field of another of its cells points to it. *)
LEMMA OwnerInTree ==
  ASSUME TypeOK, NEW p \in Place, NEW c \in CellsOf(p)
  PROVE  \/ c = ptr[p]
         \/ \E d \in CellsOf(p), f \in Field : c = ptr[<<d, f>>]
<1>1. PICK q \in Seq(Field) : <<q, c>> \in Nodes(p)
  BY TreeFacts
<1>2. CASE q = <<>>
  BY <1>1, <1>2, NodeRoot
<1>3. CASE q # <<>>
  <2>1. \E r \in Seq(Field), f \in Field, d \in Cell : <<r, d>> \in Nodes(p) /\ c = ptr[<<d, f>>]
    <3>1. c \in Cell
      BY TreeFacts
    <3>2. Above(p, q, c)
      BY <1>1, <1>3, <3>1, NodeAbove
    <3>3. QED
      BY <3>2, Zenon DEF Above
  <2>2. QED
    BY <2>1, TreeFacts
<1>4. QED
  BY <1>2, <1>3

(* What a name leads to is a Box. *)
LEMMA NamedBoxes ==
  ASSUME TypeOK, NoDangling, Idle, NEW s \in Slot, NEW path \in Names(s)
  PROVE  HasBox(s) /\ HasBox(At(s, path))
<1>1. s \in Place /\ HasBox(s)
  BY PlacesApart, NamesPlaces DEF HasBox
<1>2. CASE At(s, path) = s
  BY <1>1, <1>2
<1>3. CASE At(s, path) # s
  <2>0. Leads(Nodes(s), s, path, At(s, path))
    BY NamesPlaces
  <2>1. PICK q \in Seq(Field), c \in Cell, f \in Field :
          <<q, c>> \in Nodes(s) /\ At(s, path) = <<c, f>>
    BY <1>3, <2>0, Zenon DEF Leads
  <2>2. heap[c] = "live"
    BY <1>1, <2>1, LiveNodes, TreeFacts
  <2>3. QED
    BY <1>1, <2>1, <2>2, PlacesApart DEF HasBox
<1>4. QED
  BY <1>2, <1>3

-----------------------------------------------------------------------------
(* Trees do not meet *)

AtRest == TypeOK /\ SingleOwner /\ NoDangling /\ Idle

(* A field of a node in a tree is a Box. *)
LEMMA FieldBoxes ==
  ASSUME AtRest, NEW p \in Place, HasBox(p), NEW c \in CellsOf(p), NEW f \in Field
  PROVE  c \in Cell /\ heap[c] = "live" /\ <<c, f>> \in Place /\ HasBox(<<c, f>>)
<1>1. c \in Cell /\ heap[c] = "live"
  BY LiveNodes, TreeFacts DEF AtRest
<1>2. <<c, f>> \in Place /\ <<c, f>> \notin Slot /\ <<c, f>>[1] = c
  BY <1>1, PlacesApart
<1>3. QED
  BY <1>1, <1>2, Zenon DEF HasBox

LEMMA EqualAppends ==
  ASSUME NEW S, NEW q \in Seq(S), NEW r \in Seq(S), NEW f \in S
  PROVE  q = r => Append(q, f) = Append(r, f)
  OBVIOUS

(* A cell is in one variable's tree, at one path. *)
LEMMA UniquePath ==
  ASSUME AtRest, NEW s \in Slot, NEW o \in Slot, HasBox(s), HasBox(o)
  PROVE  \A u, w \in Seq(Field), c \in Cell :
            <<u, c>> \in Nodes(s) /\ <<w, c>> \in Nodes(o) => s = o /\ u = w
<1> DEFINE S == {n \in Nat : \A u, w \in Seq(Field), c \in Cell :
                    Len(u) = n /\ <<u, c>> \in Nodes(s) /\ <<w, c>> \in Nodes(o) => s = o /\ u = w}
<1>0. TypeOK /\ s \in Place /\ o \in Place
  BY PlacesApart DEF AtRest
<1>1. \A x, y \in Place : HasBox(x) /\ HasBox(y) /\ ptr[x] \in Cell /\ ptr[x] = ptr[y] => x = y
  BY DEF AtRest, SingleOwner
<1>2. 0 \in S
  <2> SUFFICES ASSUME NEW u \in Seq(Field), NEW w \in Seq(Field), NEW c \in Cell,
                      Len(u) = 0, <<u, c>> \in Nodes(s), <<w, c>> \in Nodes(o)
               PROVE  s = o /\ u = w
    OBVIOUS
  <2>1. u = <<>>
    OBVIOUS
  <2>2. c = ptr[s]
    BY <1>0, <2>1, NodeRoot
  <2>3. CASE w = <<>>
    <3>1. c = ptr[o]
      BY <1>0, <2>3, NodeRoot
    <3>2. QED
      BY <1>0, <1>1, <2>1, <2>2, <2>3, <3>1
  <2>4. CASE w # <<>>
    <3>1. Above(o, w, c)
      BY <1>0, <2>4, NodeAbove
    <3>2. PICK r \in Seq(Field), f \in Field, d \in Cell : <<r, d>> \in Nodes(o) /\ c = ptr[<<d, f>>]
      BY <3>1, Zenon DEF Above
    <3>3. d \in CellsOf(o)
      BY <1>0, <3>2, TreeFacts
    <3>4. <<d, f>> \in Place /\ HasBox(<<d, f>>) /\ <<d, f>> \notin Slot
      BY <1>0, <3>3, FieldBoxes, PlacesApart
    <3>5. QED
      BY <1>0, <1>1, <2>2, <3>2, <3>4
  <2>5. QED
    BY <2>3, <2>4
<1>3. ASSUME NEW n \in Nat, n \in S PROVE n + 1 \in S
  <2> SUFFICES ASSUME NEW u \in Seq(Field), NEW w \in Seq(Field), NEW c \in Cell,
                      Len(u) = n + 1, <<u, c>> \in Nodes(s), <<w, c>> \in Nodes(o)
               PROVE  s = o /\ u = w
    OBVIOUS
  <2>1. u # <<>>
    OBVIOUS
  <2>2. Above(s, u, c)
    BY <1>0, <2>1, NodeAbove
  <2>3. PICK r \in Seq(Field), f \in Field, d \in Cell :
          /\ u = Append(r, f) /\ Len(u) = Len(r) + 1
          /\ <<r, d>> \in Nodes(s) /\ c = ptr[<<d, f>>]
    BY <2>2, Zenon DEF Above
  <2>4. d \in CellsOf(s)
    BY <1>0, <2>3, TreeFacts
  <2>5. <<d, f>> \in Place /\ HasBox(<<d, f>>) /\ <<d, f>> \notin Slot
    BY <1>0, <2>4, FieldBoxes, PlacesApart
  <2>6. CASE w = <<>>
    <3>1. c = ptr[o]
      BY <1>0, <2>6, NodeRoot
    <3>2. QED
      BY <1>0, <1>1, <2>3, <2>5, <3>1
  <2>7. CASE w # <<>>
    <3>1. Above(o, w, c)
      BY <1>0, <2>7, NodeAbove
    <3>2. PICK t \in Seq(Field), g \in Field, e \in Cell :
            w = Append(t, g) /\ <<t, e>> \in Nodes(o) /\ c = ptr[<<e, g>>]
      BY <3>1, Zenon DEF Above
    <3>3. e \in CellsOf(o)
      BY <1>0, <3>2, TreeFacts
    <3>4. <<e, g>> \in Place /\ HasBox(<<e, g>>)
      BY <1>0, <3>3, FieldBoxes
    <3>5. <<d, f>> = <<e, g>>
      BY <1>1, <2>3, <2>5, <3>2, <3>4, Zenon
    <3>6. d = e /\ f = g
      BY <3>5
    <3>7. Len(r) = n
      BY <2>3
    <3>8. s = o /\ r = t
      BY <1>3, <2>3, <3>2, <3>6, <3>7
    <3>9. QED
      BY <2>3, <3>2, <3>6, <3>8
  <2>8. QED
    BY <2>6, <2>7
<1>4. \A n \in Nat : n \in S
  <2> HIDE DEF S
  <2>1. QED
    BY <1>2, <1>3, Inductive
<1>5. ASSUME NEW u \in Seq(Field), NEW w \in Seq(Field), NEW c \in Cell,
             <<u, c>> \in Nodes(s), <<w, c>> \in Nodes(o)
      PROVE  s = o /\ u = w
  <2>1. Len(u) \in S
    BY <1>4
  <2>2. QED
    BY <1>5, <2>1
<1>6. QED
  BY <1>5

LEMMA EmptyIsPrefix ==
  ASSUME NEW S, NEW q \in Seq(S)
  PROVE  IsPrefix(<<>>, q)
<1>1. Len(<<>>) = 0 /\ Len(q) \in Nat
  OBVIOUS
<1>2. SubSeq(<<>>, 1, 0) = <<>> /\ SubSeq(q, 1, 0) = <<>>
  OBVIOUS
<1>3. QED
  BY <1>1, <1>2 DEF IsPrefix

LEMMA PrefixSelf ==
  ASSUME NEW S, NEW q \in Seq(S)
  PROVE  IsPrefix(q, q)
  BY DEF IsPrefix

LEMMA PrefixAppend ==
  ASSUME NEW S, NEW p \in Seq(S), NEW q \in Seq(S), NEW f \in S, IsPrefix(p, q)
  PROVE  IsPrefix(p, Append(q, f)) /\ Append(q, f) # p
<1>1. Len(p) <= Len(q) /\ SubSeq(p, 1, Len(p)) = SubSeq(q, 1, Len(p))
  BY DEF IsPrefix
<1>2. Len(Append(q, f)) = Len(q) + 1 /\ Len(p) \in Nat /\ Len(q) \in Nat
  OBVIOUS
<1>3. SubSeq(Append(q, f), 1, Len(p)) = SubSeq(q, 1, Len(p))
  BY <1>1, <1>2
<1>4. QED
  BY <1>1, <1>2, <1>3 DEF IsPrefix

(***************************************************************************)
(* A cell of the tree at a named place is in one variable's tree: of the   *)
(* variable that the name starts from, further along the name's path.      *)
(***************************************************************************)
LEMMA BelowName ==
  ASSUME AtRest, NEW s \in Slot, NEW o \in Slot, HasBox(s), HasBox(o), NEW path \in Names(s)
  PROVE  \A r, u \in Seq(Field), c \in Cell :
            <<r, c>> \in Nodes(At(s, path)) /\ <<u, c>> \in Nodes(o) => s = o /\ IsPrefix(path, u)
<1> DEFINE t == At(s, path)
           S == {n \in Nat : \A r, u \in Seq(Field), c \in Cell :
                    Len(r) = n /\ <<r, c>> \in Nodes(t) /\ <<u, c>> \in Nodes(o) =>
                      s = o /\ IsPrefix(path, u)}
<1>0. TypeOK /\ NoDangling /\ Idle /\ s \in Place /\ o \in Place
  BY PlacesApart DEF AtRest
<1>1. t \in Place /\ HasBox(t) /\ path \in Seq(Field)
  BY <1>0, NamesPlaces, NamedBoxes
<1>2. \A x, y \in Place : HasBox(x) /\ HasBox(y) /\ ptr[x] \in Cell /\ ptr[x] = ptr[y] => x = y
  BY DEF AtRest, SingleOwner
<1>3. \A u, w \in Seq(Field), c \in Cell :
         <<u, c>> \in Nodes(s) /\ <<w, c>> \in Nodes(o) => s = o /\ u = w
  BY UniquePath
<1>4. Leads(Nodes(s), s, path, t)
  BY <1>0, NamesPlaces
<1> HIDE DEF t
<1>5. path = <<>> => t = s
  <2>1. \A q \in Seq(Field), f \in Field : Append(q, f) # <<>>
    BY EndsOfAppend
  <2>2. QED
    BY <1>4, <2>1, Zenon DEF Leads
<1>6. 0 \in S
  <2> SUFFICES ASSUME NEW r \in Seq(Field), NEW u \in Seq(Field), NEW c \in Cell,
                      Len(r) = 0, <<r, c>> \in Nodes(t), <<u, c>> \in Nodes(o)
               PROVE  s = o /\ IsPrefix(path, u)
    OBVIOUS
  <2>1. r = <<>>
    OBVIOUS
  <2>2. c = ptr[t]
    BY <1>0, <1>1, <2>1, NodeRoot
  <2>3. CASE path = <<>>
    <3>1. <<r, c>> \in Nodes(s)
      BY <1>5, <2>3
    <3>2. s = o
      BY <1>3, <3>1
    <3>3. QED
      BY <2>3, <3>2, EmptyIsPrefix
  <2>4. CASE path # <<>>
    <3>1. PICK q \in Seq(Field), d \in Cell, f \in Field :
            path = Append(q, f) /\ <<q, d>> \in Nodes(s) /\ t = <<d, f>>
      BY <1>4, <2>4, Zenon DEF Leads
    <3>2. CASE u = <<>>
      <4>1. c = ptr[o]
        BY <1>0, <3>2, NodeRoot
      <4>2. o = t
        BY <1>0, <1>1, <1>2, <2>2, <4>1
      <4>3. t \notin Slot
        BY <3>1, PlacesApart
      <4>4. QED
        BY <4>2, <4>3
    <3>3. CASE u # <<>>
      <4>1. Above(o, u, c)
        BY <1>0, <3>3, NodeAbove
      <4>2. PICK v \in Seq(Field), g \in Field, e \in Cell :
              u = Append(v, g) /\ <<v, e>> \in Nodes(o) /\ c = ptr[<<e, g>>]
        BY <4>1, Zenon DEF Above
      <4>3. e \in CellsOf(o)
        BY <1>0, <4>2, TreeFacts
      <4>4. <<e, g>> \in Place /\ HasBox(<<e, g>>)
        BY <1>0, <4>3, FieldBoxes
      <4>5. <<e, g>> = <<d, f>>
        BY <1>1, <1>2, <2>2, <3>1, <4>2, <4>4, Zenon
      <4>6. e = d /\ g = f
        BY <4>5
      <4>7. s = o /\ q = v
        BY <1>3, <3>1, <4>2, <4>6
      <4>8. path = u
        BY <3>1, <4>2, <4>6, <4>7
      <4>9. QED
        BY <4>7, <4>8, PrefixSelf
    <3>4. QED
      BY <3>2, <3>3
  <2>5. QED
    BY <2>3, <2>4
<1>7. ASSUME NEW n \in Nat, n \in S PROVE n + 1 \in S
  <2> SUFFICES ASSUME NEW r \in Seq(Field), NEW u \in Seq(Field), NEW c \in Cell,
                      Len(r) = n + 1, <<r, c>> \in Nodes(t), <<u, c>> \in Nodes(o)
               PROVE  s = o /\ IsPrefix(path, u)
    OBVIOUS
  <2>1. r # <<>>
    OBVIOUS
  <2>2. Above(t, r, c)
    BY <1>0, <1>1, <2>1, NodeAbove
  <2>3. PICK v \in Seq(Field), f \in Field, d \in Cell :
          /\ r = Append(v, f) /\ Len(r) = Len(v) + 1
          /\ <<v, d>> \in Nodes(t) /\ c = ptr[<<d, f>>]
    BY <2>2, Zenon DEF Above
  <2>4. d \in CellsOf(t)
    BY <1>0, <1>1, <2>3, TreeFacts
  <2>5. <<d, f>> \in Place /\ HasBox(<<d, f>>) /\ <<d, f>> \notin Slot
    BY <1>1, <2>4, FieldBoxes, PlacesApart
  <2>6. CASE u = <<>>
    <3>1. c = ptr[o]
      BY <1>0, <2>6, NodeRoot
    <3>2. QED
      BY <1>0, <1>2, <2>3, <2>5, <3>1
  <2>7. CASE u # <<>>
    <3>1. Above(o, u, c)
      BY <1>0, <2>7, NodeAbove
    <3>2. PICK w \in Seq(Field), g \in Field, e \in Cell :
            u = Append(w, g) /\ <<w, e>> \in Nodes(o) /\ c = ptr[<<e, g>>]
      BY <3>1, Zenon DEF Above
    <3>3. e \in CellsOf(o)
      BY <1>0, <3>2, TreeFacts
    <3>4. <<e, g>> \in Place /\ HasBox(<<e, g>>)
      BY <1>0, <3>3, FieldBoxes
    <3>5. <<d, f>> = <<e, g>>
      BY <1>2, <2>3, <2>5, <3>2, <3>4, Zenon
    <3>6. d = e
      BY <3>5
    <3>7. Len(v) = n
      BY <2>3
    <3>8. s = o /\ IsPrefix(path, w)
      BY <1>7, <2>3, <3>2, <3>6, <3>7
    <3>9. QED
      BY <1>1, <3>2, <3>8, PrefixAppend
  <2>8. QED
    BY <2>6, <2>7
<1>8. \A n \in Nat : n \in S
  <2> HIDE DEF S
  <2>1. QED
    BY <1>6, <1>7, Inductive
<1>9. ASSUME NEW r \in Seq(Field), NEW u \in Seq(Field), NEW c \in Cell,
             <<r, c>> \in Nodes(t), <<u, c>> \in Nodes(o)
      PROVE  s = o /\ IsPrefix(path, u)
  <2>1. Len(r) \in S
    BY <1>8
  <2>2. QED
    BY <1>9, <2>1
<1>10. QED
  BY <1>9 DEF t

(* A named place that is a field of the tree at another is named by way of that other. *)
LEMMA NamedBelow ==
  ASSUME AtRest, NEW s \in Slot, NEW path \in Names(s), NEW o \in Slot, NEW q \in Names(o),
         NEW c \in CellsOf(At(s, path)), NEW f \in Field, At(o, q) = <<c, f>>
  PROVE  s = o /\ q # path /\ IsPrefix(path, q)
<1> DEFINE t == At(s, path)
<1>0. TypeOK /\ NoDangling /\ Idle
  BY DEF AtRest
<1>1. /\ t \in Place /\ HasBox(t) /\ path \in Seq(Field) /\ HasBox(s) /\ HasBox(o)
      /\ c \in CellsOf(t)
  BY <1>0, NamesPlaces, NamedBoxes
<1>2. \A r, u \in Seq(Field), d \in Cell :
         <<r, d>> \in Nodes(t) /\ <<u, d>> \in Nodes(o) => s = o /\ IsPrefix(path, u)
  BY <1>1, BelowName
<1> HIDE DEF t
<1>3. c \in Cell /\ \E r \in Seq(Field) : <<r, c>> \in Nodes(t)
  <2>1. CellsOf(t) \subseteq Cell /\ \A d \in CellsOf(t) : \E r \in Seq(Field) : <<r, d>> \in Nodes(t)
    BY <1>0, <1>1, TreeFacts
  <2>2. QED
    BY <1>1, <2>1
<1>4. Leads(Nodes(o), o, q, At(o, q)) /\ At(o, q) # o
  <2>1. Leads(Nodes(o), o, q, At(o, q))
    BY <1>0, NamesPlaces
  <2>2. <<c, f>> \notin Slot
    BY <1>3, PlacesApart
  <2>3. QED
    BY <2>1, <2>2
<1>5. PICK v \in Seq(Field), d \in Cell, g \in Field :
        q = Append(v, g) /\ <<v, d>> \in Nodes(o) /\ At(o, q) = <<d, g>>
  BY <1>4, Zenon DEF Leads
<1>6. d = c
  BY <1>5
<1>7. s = o /\ IsPrefix(path, v)
  BY <1>2, <1>3, <1>5, <1>6
<1>8. QED
  BY <1>1, <1>5, <1>7, PrefixAppend

(* The trees at two places neither of which is inside what the other points to. *)
LEMMA TreesApart ==
  ASSUME AtRest, NEW s \in Slot, NEW path \in Names(s), NEW o \in Slot, NEW q \in Names(o),
         At(s, path) # At(o, q), ~Overlap(s, path, o, q)
  PROVE  /\ \A c \in CellsOf(At(s, path)), f \in Field : At(o, q) # <<c, f>>
         /\ \A c \in CellsOf(At(s, path)) : c \notin CellsOf(At(o, q))
<1> DEFINE t == At(s, path)
           y == At(o, q)
           S == {n \in Nat : \A r \in Seq(Field), c \in Cell :
                    Len(r) = n /\ <<r, c>> \in Nodes(t) => c \notin CellsOf(y)}
<1>0. TypeOK /\ NoDangling /\ Idle
  BY DEF AtRest
<1>1. t \in Place /\ HasBox(t) /\ y \in Place /\ HasBox(y)
  BY <1>0, NamesPlaces, NamedBoxes
<1>2. ASSUME NEW c \in CellsOf(t), NEW f \in Field PROVE y # <<c, f>>
  BY NamedBelow DEF Overlap
<1>3. ASSUME NEW c \in CellsOf(y), NEW f \in Field PROVE t # <<c, f>>
  BY NamedBelow DEF Overlap
<1>4. \A x, z \in Place : HasBox(x) /\ HasBox(z) /\ ptr[x] \in Cell /\ ptr[x] = ptr[z] => x = z
  BY DEF AtRest, SingleOwner
<1>5. t # y
  OBVIOUS
<1> HIDE DEF t, y
<1>6. 0 \in S
  <2> SUFFICES ASSUME NEW r \in Seq(Field), NEW c \in Cell,
                      Len(r) = 0, <<r, c>> \in Nodes(t), c \in CellsOf(y)
               PROVE  FALSE
    OBVIOUS
  <2>1. r = <<>>
    OBVIOUS
  <2>2. c = ptr[t]
    BY <1>0, <1>1, <2>1, NodeRoot
  <2>3. c # ptr[y]
    BY <1>1, <1>4, <1>5, <2>2
  <2>4. PICK d \in CellsOf(y), f \in Field : c = ptr[<<d, f>>]
    BY <1>0, <1>1, <2>3, OwnerInTree
  <2>5. <<d, f>> \in Place /\ HasBox(<<d, f>>)
    BY <1>1, FieldBoxes
  <2>6. t = <<d, f>>
    BY <1>1, <1>4, <2>2, <2>4, <2>5, Zenon
  <2>7. QED
    BY <1>3, <2>6
<1>7. ASSUME NEW n \in Nat, n \in S PROVE n + 1 \in S
  <2> SUFFICES ASSUME NEW r \in Seq(Field), NEW c \in Cell,
                      Len(r) = n + 1, <<r, c>> \in Nodes(t), c \in CellsOf(y)
               PROVE  FALSE
    OBVIOUS
  <2>1. r # <<>>
    OBVIOUS
  <2>2. Above(t, r, c)
    BY <1>0, <1>1, <2>1, NodeAbove
  <2>3. PICK v \in Seq(Field), f \in Field, d \in Cell :
          Len(r) = Len(v) + 1 /\ <<v, d>> \in Nodes(t) /\ c = ptr[<<d, f>>]
    BY <2>2, Zenon DEF Above
  <2>4. d \in CellsOf(t)
    BY <1>0, <1>1, <2>3, TreeFacts
  <2>5. <<d, f>> \in Place /\ HasBox(<<d, f>>)
    BY <1>1, <2>4, FieldBoxes
  <2>6. c # ptr[y]
    BY <1>1, <1>2, <1>4, <2>3, <2>4, <2>5
  <2>7. PICK e \in CellsOf(y), g \in Field : c = ptr[<<e, g>>]
    BY <1>0, <1>1, <2>6, OwnerInTree
  <2>8. <<e, g>> \in Place /\ HasBox(<<e, g>>)
    BY <1>1, FieldBoxes
  <2>9. <<d, f>> = <<e, g>>
    BY <1>4, <2>3, <2>5, <2>7, <2>8, Zenon
  <2>10. d = e
    BY <2>9
  <2>11. Len(v) = n
    BY <2>3
  <2>12. d \notin CellsOf(y)
    BY <1>7, <2>3, <2>11
  <2>13. QED
    BY <2>10, <2>12
<1>8. \A n \in Nat : n \in S
  <2> HIDE DEF S
  <2>1. QED
    BY <1>6, <1>7, Inductive
<1>9. ASSUME NEW c \in CellsOf(t) PROVE c \notin CellsOf(y)
  <2>1. PICK r \in Seq(Field) : <<r, c>> \in Nodes(t)
    BY <1>0, <1>1, TreeFacts
  <2>2. c \in Cell /\ Len(r) \in S
    BY <1>0, <1>1, <1>8, TreeFacts
  <2>3. QED
    BY <2>1, <2>2
<1>10. QED
  BY <1>2, <1>9 DEF t, y

(* No named place is inside the tree it holds. *)
LEMMA NotInsideItself ==
  ASSUME AtRest, NEW s \in Slot, NEW path \in Names(s)
  PROVE  \A c \in CellsOf(At(s, path)), f \in Field : At(s, path) # <<c, f>>
  BY NamedBelow

(* Who else points to a cell of a tree is a field of the tree. *)
LEMMA PointersIntoTree ==
  ASSUME AtRest, NEW t \in Place, HasBox(t), NEW x \in Place, HasBox(x), x # t,
         ptr[x] \in CellsOf(t)
  PROVE  \E d \in CellsOf(t), f \in Field : x = <<d, f>>
<1>0. TypeOK /\ ptr[x] \in Cell
  BY TreeFacts DEF AtRest
<1>1. \A u, v \in Place : HasBox(u) /\ HasBox(v) /\ ptr[u] \in Cell /\ ptr[u] = ptr[v] => u = v
  BY DEF AtRest, SingleOwner
<1>2. ptr[x] # ptr[t]
  BY <1>0, <1>1
<1>3. PICK d \in CellsOf(t), f \in Field : ptr[x] = ptr[<<d, f>>]
  BY <1>0, <1>2, OwnerInTree
<1>4. <<d, f>> \in Place /\ HasBox(<<d, f>>)
  BY FieldBoxes
<1>5. x = <<d, f>>
  BY <1>0, <1>1, <1>3, <1>4, Zenon
<1>6. QED
  BY <1>5

-----------------------------------------------------------------------------
(* What reading and writing a value gives *)

LEMMA PathsAreSequences == Path \subseteq Seq(Field)
<1>1. Cardinality(Cell) \in Nat
  BY BoxAssumption, FS_CardinalityType
<1>2. ASSUME NEW n \in 0 .. Cardinality(Cell), NEW q \in [1 .. n -> Field] PROVE q \in Seq(Field)
  <2>1. n \in Nat
    BY <1>1
  <2>2. QED
    BY <2>1
<1>3. QED
  BY <1>2 DEF Path

LEMMA ReadGives ==
  ASSUME NEW v, NEW path
  PROVE  Read(v, path) \subseteq Seq(Field)
  BY PathsAreSequences DEF Read

LEMMA WriteGives ==
  ASSUME NEW v \in SUBSET Seq(Field), NEW path \in Seq(Field), NEW w \in SUBSET Seq(Field)
  PROVE  Write(v, path, w) \subseteq Seq(Field)
<1>1. ASSUME NEW q \in w PROVE path \o q \in Seq(Field)
  OBVIOUS
<1>2. QED
  BY <1>1 DEF Write

-----------------------------------------------------------------------------
(* Each step preserves the invariant *)

LEMMA InitSafe == Init => IInv
<1> SUFFICES ASSUME Init PROVE IInv
  OBVIOUS
<1>1. Idle
  BY DEF Init, Idle
<1>2. \A p \in Place : ptr[p] \notin Cell /\ (p \in Slot => ptr[p] = Absent)
  BY BoxAssumption, PlacesApart DEF Init
<1>3. TypeOK
  BY PlacesApart, BoxAssumption DEF Init, TypeOK, Assignment, Value
<1>4. FreeIsUntouched
  BY <1>1, <1>2, PlacesApart DEF Init, FreeIsUntouched
<1>5. SingleOwner
  BY <1>2 DEF SingleOwner
<1>6. NoDangling
  BY <1>1, <1>2 DEF NoDangling
<1>7. BoxesHaveValues
  BY <1>1, <1>2, PlacesApart DEF BoxesHaveValues
<1>8. NotToItself
  BY <1>1 DEF NotToItself
<1>9. QED
  BY <1>3, <1>4, <1>5, <1>6, <1>7, <1>8 DEF IInv

(* What is left to show, of a step after which nothing is being assigned. *)
LEMMA DefaultConstructSafe ==
  ASSUME IInv, NEW s \in Slot, DefaultConstruct(s)
  PROVE  IInv'
<1>1. Idle /\ Idle'
  BY DEF DefaultConstruct, Idle
<1>2. s \in Place /\ ptr[s] = Absent
  BY PlacesApart DEF DefaultConstruct
<1>3. \A x \in Place : ptr'[x] = IF x = s THEN Null ELSE ptr[x]
  BY <1>2 DEF DefaultConstruct, IInv, TypeOK
<1>4. \A x \in Place : HasBox(x)' <=> x = s \/ HasBox(x)
  BY <1>2, <1>3, BoxAssumption DEF DefaultConstruct, HasBox
<1>5. TypeOK'
  <2>1. ptr' \in [Place -> Cell \cup {Null, Absent}] /\ \A p \in Cell \X Field : ptr'[p] # Absent
    BY <1>2, BoxAssumption DEF DefaultConstruct, IInv, TypeOK, Place
  <2>2. value' \in [Slot -> Value]
    BY DEF DefaultConstruct, IInv, TypeOK, Value
  <2>3. QED
    BY <2>1, <2>2 DEF DefaultConstruct, IInv, TypeOK
<1>6. FreeIsUntouched'
  BY <1>1, <1>2, <1>3, PlacesApart, BoxAssumption DEF DefaultConstruct, IInv, FreeIsUntouched
<1>7. SingleOwner'
  BY <1>1, <1>3, <1>4, BoxAssumption DEF IInv, SingleOwner
<1>8. NoDangling'
  BY <1>1, <1>3, <1>4, BoxAssumption DEF DefaultConstruct, IInv, NoDangling
<1>9. BoxesHaveValues'
  BY <1>1, <1>2, <1>3, PlacesApart DEF DefaultConstruct, IInv, TypeOK, BoxesHaveValues
<1>10. NotToItself'
  BY <1>1 DEF NotToItself
<1>11. QED
  BY <1>5, <1>6, <1>7, <1>8, <1>9, <1>10 DEF IInv

LEMMA MakeBoxSafe ==
  ASSUME IInv, NEW s \in Slot, NEW c \in Cell, MakeBox(s, c)
  PROVE  IInv'
<1>1. Idle /\ Idle'
  BY DEF MakeBox, Idle
<1>2. s \in Place /\ ptr[s] = Absent /\ heap[c] = "free"
  BY PlacesApart DEF MakeBox, Free
<1>3. \A x \in Place : ptr'[x] = IF x = s THEN c ELSE ptr[x]
  BY <1>2 DEF MakeBox, IInv, TypeOK
<1>4. \A d \in Cell : heap'[d] = IF d = c THEN "live" ELSE heap[d]
  BY DEF MakeBox, IInv, TypeOK
<1>5. \A x \in Place : ptr[x] # c
  BY <1>2 DEF IInv, FreeIsUntouched
<1>6. \A f \in Field : ptr[<<c, f>>] = Null
  BY <1>2 DEF IInv, FreeIsUntouched
<1>7. \A x \in Place : HasBox(x)' <=> x = s \/ HasBox(x) \/ \E f \in Field : x = <<c, f>>
  <2> SUFFICES ASSUME NEW x \in Place
               PROVE  HasBox(x)' <=> x = s \/ HasBox(x) \/ \E f \in Field : x = <<c, f>>
    OBVIOUS
  <2>1. CASE x \in Slot
    BY <1>2, <1>3, <2>1, PlacesApart, BoxAssumption DEF HasBox
  <2>2. CASE x \notin Slot
    <3>1. PICK d \in Cell, f \in Field : x = <<d, f>>
      BY <2>2, PlacesApart
    <3>2. x[1] = d
      BY <3>1
    <3>3. HasBox(x) <=> heap[d] = "live"
      BY <2>2, <3>2 DEF HasBox
    <3>4. HasBox(x)' <=> heap'[d] = "live"
      BY <2>2, <3>2 DEF HasBox
    <3>5. QED
      BY <1>4, <2>2, <3>1, <3>3, <3>4
  <2>3. QED
    BY <2>1, <2>2
<1>8. TypeOK'
  <2>1. ptr' \in [Place -> Cell \cup {Null, Absent}] /\ \A p \in Cell \X Field : ptr'[p] # Absent
    BY <1>2, BoxAssumption DEF MakeBox, IInv, TypeOK, Place
  <2>2. {<<>>} \in Value
    BY DEF Value
  <2>3. value' \in [Slot -> Value]
    BY <2>2 DEF MakeBox, IInv, TypeOK
  <2>4. heap' \in [Cell -> {"free", "live", "deleted"}]
    BY DEF MakeBox, IInv, TypeOK
  <2>5. QED
    BY <2>1, <2>3, <2>4 DEF MakeBox, IInv, TypeOK
<1>9. FreeIsUntouched'
  BY <1>1, <1>2, <1>3, <1>4, PlacesApart DEF IInv, FreeIsUntouched
<1>10. SingleOwner'
  BY <1>3, <1>5, <1>6, <1>7, PlacesApart, BoxAssumption DEF IInv, SingleOwner
<1>11. NoDangling'
  BY <1>1, <1>3, <1>4, <1>5, <1>6, <1>7, PlacesApart, BoxAssumption DEF IInv, NoDangling
<1>12. BoxesHaveValues'
  <2>1. {<<>>} \in SUBSET Seq(Field)
    OBVIOUS
  <2>2. QED
    BY <1>1, <1>2, <1>3, <2>1, PlacesApart DEF MakeBox, IInv, TypeOK, BoxesHaveValues
<1>13. NotToItself'
  BY <1>1 DEF NotToItself
<1>14. QED
  BY <1>8, <1>9, <1>10, <1>11, <1>12, <1>13 DEF IInv

(* Deleting a tree leaves its fields no Boxes, and no other Box points into it. *)
LEMMA DeletedTree ==
  ASSUME IInv, Idle, NEW t \in Place, HasBox(t), heap' = Deleted(t)
  PROVE  /\ \A c \in Cell : heap'[c] = IF c \in CellsOf(t) THEN "deleted" ELSE heap[c]
         /\ heap' \in [Cell -> {"free", "live", "deleted"}]
         /\ \A x \in Place : /\ HasBox(x) /\ x # t
                             /\ \A c \in CellsOf(t), f \in Field : x # <<c, f>>
                             => ptr[x] \notin CellsOf(t)
<1>1. \A c \in Cell : heap'[c] = IF c \in CellsOf(t) THEN "deleted" ELSE heap[c]
  BY DEF Deleted
<1>2. heap' \in [Cell -> {"free", "live", "deleted"}]
  BY DEF Deleted, IInv, TypeOK
<1>3. AtRest
  BY DEF AtRest, IInv
<1>4. QED
  BY <1>1, <1>2, <1>3, PointersIntoTree

LEMMA DestroySafe ==
  ASSUME IInv, NEW s \in Slot, Destroy(s)
  PROVE  IInv'
<1>1. Idle /\ Idle'
  BY DEF Destroy, Idle
<1>2. s \in Place /\ HasBox(s)
  BY PlacesApart DEF Destroy, HasBox
<1>3. \A x \in Place : ptr'[x] = IF x = s THEN Absent ELSE ptr[x]
  BY <1>2 DEF Destroy, IInv, TypeOK
<1>4. /\ \A c \in Cell : heap'[c] = IF c \in CellsOf(s) THEN "deleted" ELSE heap[c]
      /\ heap' \in [Cell -> {"free", "live", "deleted"}]
      /\ \A x \in Place : /\ HasBox(x) /\ x # s
                          /\ \A c \in CellsOf(s), f \in Field : x # <<c, f>>
                          => ptr[x] \notin CellsOf(s)
  BY <1>1, <1>2, DeletedTree DEF Destroy
<1>5. ASSUME NEW x \in Place, HasBox(x)'
      PROVE  HasBox(x) /\ x # s /\ \A c \in CellsOf(s), f \in Field : x # <<c, f>>
  <2>1. CASE x \in Slot
    BY <1>3, <1>5, <2>1, PlacesApart, TreeFacts DEF HasBox, IInv
  <2>2. CASE x \notin Slot
    <3>1. PICK d \in Cell, f \in Field : x = <<d, f>>
      BY <2>2, PlacesApart
    <3>2. x[1] = d
      BY <3>1
    <3>3. heap'[d] = "live"
      BY <1>5, <2>2, <3>2 DEF HasBox
    <3>4. d \notin CellsOf(s) /\ heap[d] = "live"
      BY <1>4, <3>3
    <3>5. HasBox(x)
      BY <2>2, <3>2, <3>4 DEF HasBox
    <3>6. QED
      BY <2>2, <3>1, <3>4, <3>5
  <2>3. QED
    BY <2>1, <2>2
<1>6. TypeOK'
  <2>1. ptr' \in [Place -> Cell \cup {Null, Absent}] /\ \A p \in Cell \X Field : ptr'[p] # Absent
    BY <1>2, BoxAssumption DEF Destroy, IInv, TypeOK, Place
  <2>2. value' \in [Slot -> Value]
    BY DEF Destroy, IInv, TypeOK, Value
  <2>3. QED
    BY <1>4, <2>1, <2>2 DEF Destroy, IInv, TypeOK
<1>7. FreeIsUntouched'
  <2>1. \A p \in Place : ptr'[p] \in Cell => heap'[ptr'[p]] # "free"
    BY <1>3, <1>4, BoxAssumption DEF IInv, FreeIsUntouched
  <2>2. \A c \in Cell : heap'[c] = "free" => \A f \in Field : ptr'[<<c, f>>] = Null
    BY <1>3, <1>4, PlacesApart DEF IInv, FreeIsUntouched
  <2>3. QED
    BY <1>1, <2>1, <2>2 DEF FreeIsUntouched
<1>8. SingleOwner'
  BY <1>3, <1>5, BoxAssumption DEF IInv, SingleOwner
<1>9. NoDangling'
  <2>1. ASSUME NEW x \in Place, HasBox(x)', ptr'[x] \in Cell PROVE heap'[ptr'[x]] = "live"
    <3>1. HasBox(x) /\ x # s /\ ptr'[x] = ptr[x]
      BY <1>3, <1>5, <2>1
    <3>2. heap[ptr[x]] = "live"
      BY <1>1, <2>1, <3>1 DEF IInv, NoDangling
    <3>3. ptr[x] \notin CellsOf(s)
      BY <1>4, <1>5, <2>1
    <3>4. QED
      BY <1>4, <2>1, <3>1, <3>2, <3>3
  <2>2. QED
    BY <1>1, <2>1 DEF NoDangling
<1>10. BoxesHaveValues'
  BY <1>1, <1>2, <1>3, PlacesApart DEF Destroy, IInv, TypeOK, BoxesHaveValues
<1>11. NotToItself'
  BY <1>1 DEF NotToItself
<1>12. QED
  BY <1>6, <1>7, <1>8, <1>9, <1>10, <1>11 DEF IInv

LEMMA MoveConstructSafe ==
  ASSUME IInv, NEW s \in Slot, NEW o \in Slot, NEW path \in Names(o), MoveConstruct(s, o, path)
  PROVE  IInv'
<1> DEFINE t == At(o, path)
<1>1. Idle /\ Idle'
  BY DEF MoveConstruct, Idle
<1>2. s \in Place /\ ptr[s] = Absent /\ ~HasBox(s) /\ s # o
  BY PlacesApart, NamesPlaces DEF MoveConstruct, HasBox, IInv
<1>3. t \in Place /\ HasBox(t) /\ t # s /\ path \in Seq(Field) /\ ptr[o] # Absent
  BY <1>1, <1>2, NamesPlaces, NamedBoxes DEF IInv
<1>4. ptr' = [ptr EXCEPT ![s] = ptr[t], ![t] = Null] /\ UNCHANGED heap
  BY DEF MoveConstruct
<1>5. value' = [value EXCEPT ![s] = Read(value[o], path), ![o] = Write(@, path, {})]
  BY DEF MoveConstruct
<1> HIDE DEF t
<1>6. \A x \in Place : ptr'[x] = IF x = t THEN Null ELSE IF x = s THEN ptr[t] ELSE ptr[x]
  BY <1>2, <1>3, <1>4 DEF IInv, TypeOK
<1>7. ptr[t] \in Cell \cup {Null}
  <2>1. ptr[t] # Absent
    BY <1>3, PlacesApart DEF HasBox, IInv, TypeOK
  <2>2. QED
    BY <1>3, <2>1 DEF IInv, TypeOK
<1>8. \A x \in Place : HasBox(x)' <=> x = s \/ HasBox(x)
  <2> SUFFICES ASSUME NEW x \in Place PROVE HasBox(x)' <=> x = s \/ HasBox(x)
    OBVIOUS
  <2>1. CASE x \in Slot
    BY <1>3, <1>6, <1>7, <2>1, BoxAssumption DEF HasBox
  <2>2. CASE x \notin Slot
    BY <1>4, <2>2 DEF HasBox
  <2>3. QED
    BY <2>1, <2>2
<1>9. TypeOK'
  <2>1. ptr' \in [Place -> Cell \cup {Null, Absent}]
    BY <1>4, <1>7 DEF IInv, TypeOK
  <2>2. \A p \in Cell \X Field : ptr'[p] # Absent
    BY <1>2, <1>6, PlacesApart, BoxAssumption DEF IInv, TypeOK, Place
  <2>3. Read(value[o], path) \subseteq Seq(Field) /\ Write(value[o], path, {}) \subseteq Seq(Field)
    BY <1>3, ReadGives, WriteGives DEF IInv, BoxesHaveValues
  <2>4. value' \in [Slot -> Value]
    BY <1>2, <1>5, <2>3 DEF IInv, TypeOK, Value
  <2>5. QED
    <3>1. heap' \in [Cell -> {"free", "live", "deleted"}] /\ assigning' \in Assignment
      BY <1>1, <1>4 DEF IInv, TypeOK, Idle, Assignment
    <3>2. QED
      BY <2>1, <2>2, <2>4, <3>1 DEF TypeOK
<1>10. FreeIsUntouched'
  <2>1. \A x \in Place : ptr'[x] \in Cell => heap'[ptr'[x]] # "free"
    <3>1. \A x \in Place : ptr[x] \in Cell => heap[ptr[x]] # "free"
      BY DEF IInv, FreeIsUntouched
    <3>2. \A x \in Place : ptr'[x] \in Cell => ptr'[x] = ptr[x] \/ ptr'[x] = ptr[t]
      BY <1>6, BoxAssumption
    <3>3. QED
      BY <1>3, <1>4, <3>1, <3>2
  <2>2. \A c \in Cell : heap'[c] = "free" => \A f \in Field : ptr'[<<c, f>>] = Null
    <3> SUFFICES ASSUME NEW c \in Cell, heap[c] = "free", NEW f \in Field
                 PROVE  ptr'[<<c, f>>] = Null
      BY <1>4
    <3>1. ptr[<<c, f>>] = Null
      BY DEF IInv, FreeIsUntouched
    <3>2. <<c, f>> \in Place /\ <<c, f>> # s
      BY PlacesApart
    <3>3. QED
      BY <1>6, <3>1, <3>2
  <2>3. QED
    BY <1>1, <2>1, <2>2 DEF FreeIsUntouched
<1>11. SingleOwner'
  BY <1>2, <1>3, <1>6, <1>8, BoxAssumption DEF IInv, SingleOwner
<1>12. NoDangling'
  <2>1. ASSUME NEW x \in Place, HasBox(x)', ptr'[x] \in Cell PROVE heap[ptr'[x]] = "live"
    <3>1. \A y \in Place : HasBox(y) /\ ptr[y] \in Cell => heap[ptr[y]] = "live"
      BY <1>1 DEF IInv, NoDangling
    <3>2. x # t
      BY <1>3, <1>6, <2>1, BoxAssumption
    <3>3. CASE x = s
      BY <1>3, <1>6, <2>1, <3>1, <3>2, <3>3
    <3>4. CASE x # s
      BY <1>6, <1>8, <2>1, <3>1, <3>2, <3>4
    <3>5. QED
      BY <3>3, <3>4
  <2>2. QED
    BY <1>1, <1>4, <2>1 DEF NoDangling
<1>13. BoxesHaveValues'
  <2>1. Read(value[o], path) \subseteq Seq(Field) /\ Write(value[o], path, {}) \subseteq Seq(Field)
    BY <1>3, ReadGives, WriteGives DEF IInv, BoxesHaveValues
  <2>2. \A x \in Slot : value'[x] = IF x = s THEN Read(value[o], path)
                                    ELSE IF x = o THEN Write(value[o], path, {}) ELSE value[x]
    BY <1>2, <1>5 DEF IInv, TypeOK
  <2>3. ASSUME NEW x \in Slot, ptr'[x] # Absent PROVE value'[x] \in SUBSET Seq(Field)
    <3>1. x = s \/ ptr[x] # Absent
      BY <1>3, <1>6, <2>3, PlacesApart DEF HasBox
    <3>2. QED
      BY <2>1, <2>2, <3>1 DEF IInv, BoxesHaveValues
  <2>4. QED
    BY <1>1, <2>3 DEF BoxesHaveValues
<1>14. NotToItself'
  BY <1>1 DEF NotToItself
<1>15. QED
  BY <1>9, <1>10, <1>11, <1>12, <1>13, <1>14 DEF IInv

(* x is one of the fields of the copy's cells, or the place that is given the copy. *)
Fresh(x, p, o, g) == x = p \/ \E q \in Tree(o), f \in Field : x = <<g[q], f>>

(* x is given the copy of the node at the end of path a. *)
Links(x, a, p, o, g) ==
  \/ x = p /\ a = <<>>
  \/ \E q \in Tree(o), f \in Field : x = <<g[q], f>> /\ a = Append(q, f)

(* What a copy changes: its own fields and where it is put, each to a part of it or to null. *)
LEMMA CopiedPointers ==
  ASSUME IInv, NEW p \in Place, NEW o \in Place, NEW g \in Injection(Tree(o), Free),
         ptr' = Copied(p, o, g), heap' = Allocated(g)
  PROVE  /\ \A a \in Tree(o) : g[a] \in Cell /\ heap[g[a]] = "free" /\ heap'[g[a]] = "live"
         /\ \A a, b \in Tree(o) : g[a] = g[b] => a = b
         /\ \A c \in Cell : heap'[c] = heap[c] \/ \E q \in Tree(o) : c = g[q]
         /\ \A x \in Place : ~Fresh(x, p, o, g) => ptr'[x] = ptr[x]
         /\ \A x \in Place : Fresh(x, p, o, g) =>
              ptr'[x] = Null \/ \E a \in Tree(o) : ptr'[x] = g[a] /\ Links(x, a, p, o, g)
<1>1. g \in [Tree(o) -> Free] /\ \A a, b \in Tree(o) : g[a] = g[b] => a = b
  BY DEF Injection, IsInjective
<1>2. \A a \in Tree(o) : g[a] \in Cell /\ heap[g[a]] = "free"
  BY <1>1 DEF Free
<1>3. \A c \in Cell : heap'[c] = IF \E q \in Tree(o) : c = g[q] THEN "live" ELSE heap[c]
  BY <1>1 DEF Allocated, Range
<1> DEFINE Link(q) == IF q \in Tree(o) THEN g[q] ELSE Null
<1>4. \A x \in Place :
         ptr'[x] = IF x = p THEN Link(<<>>)
                   ELSE IF \E q \in Tree(o), f \in Field : x = <<g[q], f>>
                     THEN Link(Append(CHOOSE q \in Tree(o) : g[q] = x[1], x[2]))
                     ELSE ptr[x]
  BY Zenon DEF Copied
<1>5. ASSUME NEW x \in Place, ~Fresh(x, p, o, g) PROVE ptr'[x] = ptr[x]
  BY <1>4, <1>5, Zenon DEF Fresh
<1>6. ASSUME NEW x \in Place, Fresh(x, p, o, g)
      PROVE  ptr'[x] = Null \/ \E a \in Tree(o) : ptr'[x] = g[a] /\ Links(x, a, p, o, g)
  <2>1. CASE x = p
    BY <1>4, <2>1, Zenon DEF Links
  <2>2. CASE x # p
    <3>1. PICK q \in Tree(o), f \in Field : x = <<g[q], f>>
      BY <1>6, <2>2, Zenon DEF Fresh
    <3>2. x[1] = g[q] /\ x[2] = f
      BY <3>1
    <3> DEFINE r == CHOOSE r \in Tree(o) : g[r] = x[1]
    <3>3. r \in Tree(o) /\ g[r] = x[1]
      BY <3>2
    <3>4. r = q
      BY <1>1, <3>2, <3>3
    <3>5. ptr'[x] = Link(Append(r, x[2]))
      BY <1>4, <2>2, <3>1, Zenon
    <3>6. ptr'[x] = Link(Append(q, f))
      BY <3>2, <3>4, <3>5, Zenon
    <3>7. QED
      BY <3>1, <3>6, Zenon DEF Links
  <2>3. QED
    BY <2>1, <2>2
<1>7. QED
  BY <1>1, <1>2, <1>3, <1>5, <1>6, Zenon

LEMMA CopySafe ==
  ASSUME IInv, NEW p \in Place, NEW o \in Place, NEW g \in Injection(Tree(o), Free),
         p \in Slot \/ heap[p[1]] # "free",
         \A x \in Place : HasBox(x) /\ x # p /\ ptr[x] \in Cell => heap[ptr[x]] = "live",
         ptr' = Copied(p, o, g), heap' = Allocated(g)
  PROVE  /\ ptr' \in [Place -> Cell \cup {Null, Absent}]
         /\ \A x \in Cell \X Field : ptr'[x] # Absent
         /\ heap' \in [Cell -> {"free", "live", "deleted"}]
         /\ SingleOwner'
         /\ \A x \in Place : HasBox(x)' /\ ptr'[x] \in Cell => heap'[ptr'[x]] = "live"
         /\ \A x \in Place : ptr'[x] \in Cell => heap'[ptr'[x]] # "free"
         /\ \A c \in Cell : heap'[c] = "free" => \A f \in Field : ptr'[<<c, f>>] = Null
         /\ \A x \in Slot : x # p => ptr'[x] = ptr[x]
         /\ ptr'[p] # Absent
<1>0. TypeOK /\ FreeIsUntouched /\ SingleOwner
  BY DEF IInv
<1>1. /\ \A a \in Tree(o) : g[a] \in Cell /\ heap[g[a]] = "free" /\ heap'[g[a]] = "live"
      /\ \A a, b \in Tree(o) : g[a] = g[b] => a = b
      /\ \A c \in Cell : heap'[c] = heap[c] \/ \E q \in Tree(o) : c = g[q]
      /\ \A x \in Place : ~Fresh(x, p, o, g) => ptr'[x] = ptr[x]
      /\ \A x \in Place : Fresh(x, p, o, g) =>
           ptr'[x] = Null \/ \E a \in Tree(o) : ptr'[x] = g[a] /\ Links(x, a, p, o, g)
  BY CopiedPointers
<1>2. \A x \in Slot : x # p => ~Fresh(x, p, o, g)
  <2> SUFFICES ASSUME NEW x \in Slot, x # p, NEW q \in Tree(o), NEW f \in Field, x = <<g[q], f>>
               PROVE  FALSE
    BY Zenon DEF Fresh
  <2>1. g[q] \in Cell
    BY <1>1
  <2>2. QED
    BY <2>1, PlacesApart
<1>3. \A x \in Slot : x # p => ptr'[x] = ptr[x]
  BY <1>1, <1>2, PlacesApart
<1>4. \A x \in Place : Fresh(x, p, o, g) => ptr'[x] \in Cell \cup {Null}
  BY <1>1
<1>5. ptr' \in [Place -> Cell \cup {Null, Absent}]
  <2>1. \A x \in Place : ptr'[x] \in Cell \cup {Null, Absent}
    BY <1>0, <1>1, <1>4 DEF TypeOK
  <2>2. ptr' = [x \in Place |-> ptr'[x]]
    BY DEF Copied
  <2>3. QED
    BY <2>1, <2>2
<1>6. \A x \in Cell \X Field : ptr'[x] # Absent
  BY <1>0, <1>1, <1>4, BoxAssumption DEF TypeOK, Place
<1>7. heap' \in [Cell -> {"free", "live", "deleted"}]
  BY <1>0 DEF Allocated, TypeOK
<1>8. ptr'[p] # Absent
  BY <1>4, BoxAssumption DEF Fresh
(* A Box was there before, unless it is a part of the copy. *)
<1>9. \A x \in Place : HasBox(x)' /\ ~Fresh(x, p, o, g) => HasBox(x) /\ x # p
  <2> SUFFICES ASSUME NEW x \in Place, HasBox(x)', ~Fresh(x, p, o, g) PROVE HasBox(x) /\ x # p
    OBVIOUS
  <2>1. x # p /\ ptr'[x] = ptr[x]
    BY <1>1 DEF Fresh
  <2>2. CASE x \in Slot
    BY <2>1, <2>2 DEF HasBox
  <2>3. CASE x \notin Slot
    <3>1. PICK c \in Cell, f \in Field : x = <<c, f>>
      BY <2>3, PlacesApart
    <3>2. x[1] = c
      BY <3>1
    <3>3. heap'[c] = "live"
      BY <2>3, <3>2 DEF HasBox
    <3>4. ~\E q \in Tree(o) : c = g[q]
      BY <3>1, Zenon DEF Fresh
    <3>5. heap[c] = "live"
      BY <1>1, <3>3, <3>4
    <3>6. QED
      BY <2>1, <2>3, <3>2, <3>5 DEF HasBox
  <2>4. QED
    BY <2>2, <2>3
<1>10. SingleOwner'
  <2> SUFFICES ASSUME NEW x \in Place, NEW y \in Place, HasBox(x)', HasBox(y)',
                      ptr'[x] \in Cell, ptr'[x] = ptr'[y]
               PROVE  x = y
    BY DEF SingleOwner
  <2>1. ASSUME NEW u \in Place, NEW v \in Place, Fresh(u, p, o, g), ~Fresh(v, p, o, g),
               ptr'[u] \in Cell
        PROVE  ptr'[u] # ptr'[v]
    <3>1. PICK a \in Tree(o) : ptr'[u] = g[a]
      BY <1>1, <2>1, BoxAssumption
    <3>2. heap[ptr'[u]] = "free"
      BY <1>1, <3>1
    <3>3. ptr'[v] = ptr[v]
      BY <1>1, <2>1
    <3>4. QED
      BY <1>0, <2>1, <3>2, <3>3 DEF FreeIsUntouched
  <2>2. CASE ~Fresh(x, p, o, g) /\ ~Fresh(y, p, o, g)
    BY <1>0, <1>1, <1>9, <2>2 DEF SingleOwner
  <2>3. CASE Fresh(x, p, o, g) /\ Fresh(y, p, o, g)
    <3>1. PICK a \in Tree(o) : ptr'[x] = g[a] /\ Links(x, a, p, o, g)
      BY <1>1, <2>3, BoxAssumption
    <3>2. PICK b \in Tree(o) : ptr'[y] = g[b] /\ Links(y, b, p, o, g)
      BY <1>1, <2>3, BoxAssumption
    <3>3. a = b
      <4>1. \A u, v \in Tree(o) : g[u] = g[v] => u = v
        BY <1>1
      <4>2. g[a] = g[b]
        BY <3>1, <3>2
      <4>3. QED
        BY <4>1, <4>2
    <3>4. Tree(o) \subseteq Seq(Field)
      BY <1>0, TreeFacts
    <3>5. CASE x = p /\ a = <<>>
      <4>1. \A q \in Tree(o), f \in Field : b # Append(q, f)
        BY <3>3, <3>4, <3>5, EndsOfAppend
      <4>2. QED
        BY <3>2, <3>5, <4>1, Zenon DEF Links
    <3>6. CASE y = p /\ b = <<>>
      <4>1. \A q \in Tree(o), f \in Field : a # Append(q, f)
        BY <3>3, <3>4, <3>6, EndsOfAppend
      <4>2. QED
        BY <3>1, <3>6, <4>1, Zenon DEF Links
    <3>7. CASE /\ \E q \in Tree(o), f \in Field : x = <<g[q], f>> /\ a = Append(q, f)
               /\ \E q \in Tree(o), f \in Field : y = <<g[q], f>> /\ b = Append(q, f)
      <4>1. PICK q \in Tree(o), f \in Field : x = <<g[q], f>> /\ a = Append(q, f)
        BY <3>7, Zenon
      <4>2. PICK r \in Tree(o), h \in Field : y = <<g[r], h>> /\ b = Append(r, h)
        BY <3>7, Zenon
      <4>3. q = r /\ f = h
        <5>1. q \in Seq(Field) /\ r \in Seq(Field)
          BY <3>4
        <5>2. Front(a) = q /\ Last(a) = f /\ Front(b) = r /\ Last(b) = h
          BY <4>1, <4>2, <5>1, EndsOfAppend
        <5>3. QED
          BY <3>3, <5>2
      <4>4. QED
        BY <4>1, <4>2, <4>3
    <3>8. QED
      BY <3>1, <3>2, <3>5, <3>6, <3>7, Zenon DEF Links
  <2>4. QED
    BY <2>1, <2>2, <2>3
<1>11. \A x \in Place : HasBox(x)' /\ ptr'[x] \in Cell => heap'[ptr'[x]] = "live"
  <2> SUFFICES ASSUME NEW x \in Place, HasBox(x)', ptr'[x] \in Cell PROVE heap'[ptr'[x]] = "live"
    OBVIOUS
  <2>1. CASE Fresh(x, p, o, g)
    BY <1>1, <2>1, BoxAssumption
  <2>2. CASE ~Fresh(x, p, o, g)
    <3>1. ptr'[x] = ptr[x] /\ heap[ptr[x]] = "live"
      BY <1>1, <1>9, <2>2
    <3>2. QED
      BY <1>1, <3>1
  <2>3. QED
    BY <2>1, <2>2
<1>12. \A x \in Place : ptr'[x] \in Cell => heap'[ptr'[x]] # "free"
  <2> SUFFICES ASSUME NEW x \in Place, ptr'[x] \in Cell PROVE heap'[ptr'[x]] # "free"
    OBVIOUS
  <2>1. CASE Fresh(x, p, o, g)
    BY <1>1, <2>1, BoxAssumption
  <2>2. CASE ~Fresh(x, p, o, g)
    <3>1. ptr'[x] = ptr[x] /\ heap[ptr[x]] # "free"
      BY <1>0, <1>1, <2>2 DEF FreeIsUntouched
    <3>2. QED
      BY <1>1, <3>1
  <2>3. QED
    BY <2>1, <2>2
<1>13. \A c \in Cell : heap'[c] = "free" => \A f \in Field : ptr'[<<c, f>>] = Null
  <2> SUFFICES ASSUME NEW c \in Cell, heap'[c] = "free", NEW f \in Field
               PROVE  ptr'[<<c, f>>] = Null
    OBVIOUS
  <2>1. heap[c] = "free" /\ \A q \in Tree(o) : c # g[q]
    BY <1>1
  <2>2. <<c, f>> \in Place /\ <<c, f>> \notin Slot /\ <<c, f>>[1] = c
    BY PlacesApart
  <2>3. <<c, f>> # p
    BY <2>1, <2>2
  <2>4. \A q \in Tree(o), h \in Field : <<c, f>> # <<g[q], h>>
    BY <2>1
  <2>5. ~Fresh(<<c, f>>, p, o, g)
    BY <2>3, <2>4, Zenon DEF Fresh
  <2>6. QED
    BY <1>0, <1>1, <2>1, <2>2, <2>5 DEF FreeIsUntouched
<1>14. QED
  BY <1>3, <1>5, <1>6, <1>7, <1>8, <1>10, <1>11, <1>12, <1>13

LEMMA CopyConstructSafe ==
  ASSUME IInv, NEW s \in Slot, NEW o \in Slot, NEW path \in Names(o), CopyConstruct(s, o, path)
  PROVE  IInv'
<1>1. Idle /\ Idle'
  BY DEF CopyConstruct, Idle
<1>2. s \in Place /\ ptr[s] = Absent
  BY PlacesApart DEF CopyConstruct
<1>3. At(o, path) \in Place
  BY NamesPlaces DEF IInv
<1>4. \A x \in Place : HasBox(x) /\ ptr[x] \in Cell => heap[ptr[x]] = "live"
  BY <1>1 DEF IInv, NoDangling
<1>5. PICK g \in Injection(Tree(At(o, path)), Free) :
        ptr' = Copied(s, At(o, path), g) /\ heap' = Allocated(g)
  BY DEF CopyConstruct
<1>6. /\ ptr' \in [Place -> Cell \cup {Null, Absent}]
      /\ \A x \in Cell \X Field : ptr'[x] # Absent
      /\ heap' \in [Cell -> {"free", "live", "deleted"}]
      /\ SingleOwner'
      /\ \A x \in Place : HasBox(x)' /\ ptr'[x] \in Cell => heap'[ptr'[x]] = "live"
      /\ \A x \in Place : ptr'[x] \in Cell => heap'[ptr'[x]] # "free"
      /\ \A c \in Cell : heap'[c] = "free" => \A f \in Field : ptr'[<<c, f>>] = Null
      /\ \A x \in Slot : x # s => ptr'[x] = ptr[x]
  BY <1>2, <1>3, <1>4, <1>5, CopySafe
<1>7. value' = [value EXCEPT ![s] = Read(value[o], path)] /\ Read(value[o], path) \subseteq Seq(Field)
  BY ReadGives DEF CopyConstruct
<1>8. TypeOK'
  <2>1. value' \in [Slot -> Value]
    BY <1>7 DEF IInv, TypeOK, Value
  <2>2. QED
    BY <1>6, <2>1 DEF IInv, TypeOK, CopyConstruct
<1>9. FreeIsUntouched'
  BY <1>1, <1>6 DEF FreeIsUntouched
<1>10. NoDangling'
  BY <1>1, <1>6 DEF NoDangling
<1>11. BoxesHaveValues'
  BY <1>1, <1>6, <1>7 DEF IInv, TypeOK, BoxesHaveValues
<1>12. NotToItself'
  BY <1>1 DEF NotToItself
<1>13. QED
  BY <1>6, <1>8, <1>9, <1>10, <1>11, <1>12 DEF IInv

LEMMA AssignedValues ==
  ASSUME IInv, NEW kind, NEW s \in Slot, NEW o \in Slot, NEW p \in Seq(Field), NEW q \in Seq(Field),
         ptr[s] # Absent, ptr[o] # Absent
  PROVE  /\ Assigned(kind, s, p, o, q) \in [Slot -> Value]
         /\ \A x \in Slot : ptr[x] # Absent => Assigned(kind, s, p, o, q)[x] \in SUBSET Seq(Field)
<1>1. value \in [Slot -> Value] /\ \A x \in Slot : ptr[x] # Absent => value[x] \in SUBSET Seq(Field)
  BY DEF IInv, TypeOK, BoxesHaveValues
<1> DEFINE r == Read(value[o], q)
           emptied == IF kind = "copy" THEN value ELSE [value EXCEPT ![o] = Write(@, q, {})]
<1>2. r \subseteq Seq(Field)
  BY ReadGives
<1>3. Write(value[o], q, {}) \subseteq Seq(Field)
  BY <1>1, WriteGives
<1>4. /\ emptied \in [Slot -> Value]
      /\ \A x \in Slot : ptr[x] # Absent => emptied[x] \in SUBSET Seq(Field)
  BY <1>1, <1>3 DEF Value
<1>5. Assigned(kind, s, p, o, q) = [emptied EXCEPT ![s] = Write(emptied[s], p, r)]
  BY <1>4 DEF Assigned
<1> HIDE DEF emptied, r
<1>6. Write(emptied[s], p, r) \subseteq Seq(Field)
  BY <1>2, <1>4, WriteGives
<1>7. QED
  BY <1>4, <1>5, <1>6 DEF Value

(* Only the trees of unchanged pointers are asked about in the state after a step. *)
LEMMA SameTree ==
  ASSUME NEW p, ptr' = ptr
  PROVE  CellsOf(p)' = CellsOf(p)
  BY DEF CellsOf, Nodes, Root, Children

LEMMA AssignSafe ==
  ASSUME IInv, Careful, NEW kind \in {"copy", "move"}, NEW s \in Slot, NEW o \in Slot,
         NEW p \in Names(s), NEW q \in Names(o), Assign(kind, s, p, o, q)
  PROVE  IInv'
<1>1. PICK t \in Place : t = At(s, p)
  BY NamesPlaces DEF IInv
<1>2. PICK y \in Place : y = At(o, q)
  BY NamesPlaces DEF IInv
<1>3. PICK d : d = Assigned(kind, s, p, o, q)
  OBVIOUS
<1>4. /\ Idle /\ t # y
      /\ heap' = Deleted(t)
      /\ assigning' = [kind |-> kind, to |-> t, from |-> y, due |-> d]
      /\ ptr' = ptr /\ value' = value
  BY <1>1, <1>2, <1>3, Zenon DEF Assign, Assignable
<1>5. AtRest /\ TypeOK /\ NoDangling
  BY <1>4 DEF AtRest, IInv
<1>6. ~Overlap(s, p, o, q)
  BY DEF Assign, Assignable, Careful
<1>7. HasBox(t) /\ HasBox(y)
  BY <1>1, <1>2, <1>4, <1>5, NamedBoxes
<1>8. /\ \A c \in CellsOf(t), f \in Field : t # <<c, f>> /\ y # <<c, f>>
      /\ \A c \in CellsOf(t) : c \notin CellsOf(y)
  BY <1>1, <1>2, <1>4, <1>5, <1>6, NotInsideItself, TreesApart
<1>9. /\ \A c \in Cell : heap'[c] = IF c \in CellsOf(t) THEN "deleted" ELSE heap[c]
      /\ heap' \in [Cell -> {"free", "live", "deleted"}]
      /\ \A x \in Place : /\ HasBox(x) /\ x # t
                          /\ \A c \in CellsOf(t), f \in Field : x # <<c, f>>
                          => ptr[x] \notin CellsOf(t)
  BY <1>4, <1>7, DeletedTree
<1>10. \A x \in Place : HasBox(x)' <=> HasBox(x) /\ \A c \in CellsOf(t), f \in Field : x # <<c, f>>
  <2> SUFFICES ASSUME NEW x \in Place
               PROVE  HasBox(x)' <=> HasBox(x) /\ \A c \in CellsOf(t), f \in Field : x # <<c, f>>
    OBVIOUS
  <2>1. CellsOf(t) \subseteq Cell
    BY <1>5, TreeFacts
  <2>2. CASE x \in Slot
    BY <1>4, <2>1, <2>2, PlacesApart DEF HasBox
  <2>3. CASE x \notin Slot
    <3>1. PICK c \in Cell, f \in Field : x = <<c, f>>
      BY <2>3, PlacesApart
    <3>2. x[1] = c
      BY <3>1
    <3>3. (HasBox(x)' <=> heap'[c] = "live") /\ (HasBox(x) <=> heap[c] = "live")
      BY <2>3, <3>2 DEF HasBox
    <3>4. (\A e \in CellsOf(t), h \in Field : x # <<e, h>>) <=> c \notin CellsOf(t)
      BY <2>1, <3>1
    <3>5. QED
      BY <1>9, <3>3, <3>4
  <2>4. QED
    BY <2>2, <2>3
<1>11. ~Idle' /\ assigning'.to = t /\ assigning'.from = y /\ assigning'.due = d
  BY <1>4 DEF Idle, Nothing
<1>12. d \in [Slot -> Value] /\ \A x \in Slot : ptr[x] # Absent => d[x] \in SUBSET Seq(Field)
  BY <1>3, <1>5, NamesPlaces, AssignedValues
<1>13. TypeOK'
  <2>1. assigning' \in Assignment
    BY <1>4, <1>12 DEF Assignment
  <2>2. QED
    BY <1>4, <1>5, <1>9, <2>1 DEF TypeOK
<1>14. FreeIsUntouched'
  <2>1. \A x \in Place : ptr'[x] \in Cell => heap'[ptr'[x]] # "free"
    BY <1>4, <1>9 DEF IInv, FreeIsUntouched
  <2>2. \A c \in Cell : heap'[c] = "free" => \A f \in Field : ptr'[<<c, f>>] = Null
    BY <1>4, <1>9 DEF IInv, FreeIsUntouched
  <2>3. ASSUME NEW x \in Place \ Slot, HasBox(x) PROVE heap'[x[1]] # "free"
    <3>1. x[1] \in Cell /\ heap[x[1]] = "live"
      BY <2>3, PlacesApart DEF HasBox
    <3>2. QED
      BY <1>9, <3>1
  <2>4. QED
    BY <1>7, <1>11, <2>1, <2>2, <2>3 DEF FreeIsUntouched
<1>15. SingleOwner'
  BY <1>4, <1>10 DEF IInv, SingleOwner
<1>16. NoDangling'
  <2>1. \A x \in Place : HasBox(x) /\ ptr[x] \in Cell => heap[ptr[x]] = "live"
    BY <1>4, <1>5 DEF NoDangling
  <2>2. ASSUME NEW x \in Place, HasBox(x)', ptr'[x] \in Cell, x # t PROVE heap'[ptr'[x]] = "live"
    <3>1. ptr'[x] = ptr[x] /\ ptr[x] \notin CellsOf(t)
      BY <1>4, <1>9, <1>10, <2>2
    <3>2. QED
      BY <1>9, <1>10, <2>1, <2>2, <3>1
  <2>3. HasBox(y)'
    BY <1>7, <1>8, <1>10
  <2>4. \A c \in CellsOf(y) : c \in Cell /\ heap[c] = "live"
    BY <1>4, <1>5, <1>7, LiveNodes, TreeFacts
  <2>5. \A c \in CellsOf(y) : heap'[c] = "live"
    BY <1>8, <1>9, <2>4
  <2>6. CellsOf(y)' = CellsOf(y)
    BY <1>4, SameTree
  <2>7. QED
    BY <1>11, <2>2, <2>3, <2>5, <2>6 DEF NoDangling
<1>17. BoxesHaveValues'
  BY <1>4, <1>11, <1>12 DEF IInv, BoxesHaveValues
<1>18. NotToItself'
  BY <1>4, <1>7, <1>8, <1>10, <1>11 DEF NotToItself
<1>19. QED
  BY <1>13, <1>14, <1>15, <1>16, <1>17, <1>18 DEF IInv

(* What is known in the middle of an assignment. *)
LEMMA HalfAssigned ==
  ASSUME IInv, assigning.kind \in {"copy", "move"}
  PROVE  /\ ~Idle
         /\ assigning.to \in Place /\ assigning.from \in Place
         /\ assigning.due \in [Slot -> Value]
         /\ assigning.to # assigning.from
         /\ HasBox(assigning.to) /\ HasBox(assigning.from)
         /\ ptr[assigning.to] # Absent /\ ptr[assigning.from] # Absent
         /\ \A x \in Place : HasBox(x) /\ ptr[x] \in Cell /\ x # assigning.to => heap[ptr[x]] = "live"
         /\ \A x \in Slot : ptr[x] # Absent => assigning.due[x] \in SUBSET Seq(Field)
<1>1. ~Idle
  BY DEF Idle, Nothing
<1>2. assigning.to \in Place /\ assigning.from \in Place /\ assigning.due \in [Slot -> Value]
  BY <1>1 DEF Idle, IInv, TypeOK, Assignment
<1>3. assigning.to # assigning.from /\ HasBox(assigning.to) /\ HasBox(assigning.from)
  BY <1>1 DEF IInv, NotToItself, NoDangling
<1>4. \A x \in Place : HasBox(x) => ptr[x] # Absent
  BY PlacesApart DEF HasBox, IInv, TypeOK
<1>5. QED
  BY <1>1, <1>2, <1>3, <1>4 DEF IInv, NoDangling, BoxesHaveValues

LEMMA FinishMoveSafe ==
  ASSUME IInv, FinishMove
  PROVE  IInv'
<1> DEFINE t == assigning.to
           y == assigning.from
<1>1. /\ t \in Place /\ y \in Place /\ assigning.due \in [Slot -> Value]
      /\ t # y /\ HasBox(t) /\ HasBox(y) /\ ptr[t] # Absent /\ ptr[y] # Absent
      /\ \A x \in Place : HasBox(x) /\ ptr[x] \in Cell /\ x # t => heap[ptr[x]] = "live"
      /\ \A x \in Slot : ptr[x] # Absent => assigning.due[x] \in SUBSET Seq(Field)
  BY HalfAssigned DEF FinishMove
<1>2. /\ ptr' = [ptr EXCEPT ![t] = ptr[y], ![y] = Null]
      /\ value' = assigning.due /\ assigning' = Nothing /\ heap' = heap
  BY DEF FinishMove
<1>3. Idle'
  BY <1>2 DEF Idle
<1> HIDE DEF t, y
<1>4. \A x \in Place : ptr'[x] = IF x = y THEN Null ELSE IF x = t THEN ptr[y] ELSE ptr[x]
  BY <1>1, <1>2 DEF IInv, TypeOK
<1>5. ptr[y] \in Cell \cup {Null}
  BY <1>1 DEF IInv, TypeOK
<1>6. \A x \in Place : ptr'[x] = Absent <=> ptr[x] = Absent
  BY <1>1, <1>4, <1>5, BoxAssumption
<1>7. \A x \in Place : HasBox(x)' <=> HasBox(x)
  BY <1>2, <1>6 DEF HasBox
<1>8. TypeOK'
  <2>1. ptr' \in [Place -> Cell \cup {Null, Absent}]
    BY <1>2, <1>5 DEF IInv, TypeOK
  <2>2. \A x \in Cell \X Field : ptr'[x] # Absent
    BY <1>6 DEF IInv, TypeOK, Place
  <2>3. QED
    BY <1>1, <1>2, <2>1, <2>2 DEF IInv, TypeOK, Assignment
<1>9. FreeIsUntouched'
  <2>1. \A x \in Place : ptr'[x] \in Cell => heap'[ptr'[x]] # "free"
    <3>1. \A x \in Place : ptr[x] \in Cell => heap[ptr[x]] # "free"
      BY DEF IInv, FreeIsUntouched
    <3>2. \A x \in Place : ptr'[x] \in Cell => ptr'[x] = ptr[x] \/ ptr'[x] = ptr[y]
      BY <1>4, BoxAssumption
    <3>3. QED
      BY <1>1, <1>2, <3>1, <3>2
  <2>2. ASSUME NEW c \in Cell, heap[c] = "free", NEW f \in Field PROVE ptr'[<<c, f>>] = Null
    <3>1. <<c, f>> \in Place /\ <<c, f>> \notin Slot /\ <<c, f>>[1] = c
      BY PlacesApart
    <3>2. ~HasBox(<<c, f>>)
      BY <2>2, <3>1 DEF HasBox
    <3>3. <<c, f>> # t /\ <<c, f>> # y
      BY <1>1, <3>2
    <3>4. QED
      BY <1>4, <2>2, <3>1, <3>3 DEF IInv, FreeIsUntouched
  <2>3. QED
    BY <1>2, <1>3, <2>1, <2>2 DEF FreeIsUntouched
<1>10. SingleOwner'
  BY <1>1, <1>4, <1>7, BoxAssumption DEF IInv, SingleOwner
<1>11. NoDangling'
  <2>1. ASSUME NEW x \in Place, HasBox(x)', ptr'[x] \in Cell PROVE heap[ptr'[x]] = "live"
    <3>1. x # y
      BY <1>4, <2>1, BoxAssumption
    <3>2. CASE x = t
      BY <1>1, <1>4, <2>1, <3>1, <3>2
    <3>3. CASE x # t
      BY <1>1, <1>4, <1>7, <2>1, <3>1, <3>3
    <3>4. QED
      BY <3>2, <3>3
  <2>2. QED
    BY <1>2, <1>3, <2>1 DEF NoDangling
<1>12. BoxesHaveValues'
  BY <1>1, <1>2, <1>3, <1>6, PlacesApart DEF BoxesHaveValues
<1>13. NotToItself'
  BY <1>3 DEF NotToItself
<1>14. QED
  BY <1>8, <1>9, <1>10, <1>11, <1>12, <1>13 DEF IInv

LEMMA FinishCopySafe ==
  ASSUME IInv, FinishCopy
  PROVE  IInv'
<1>1. /\ assigning.to \in Place /\ assigning.from \in Place /\ ptr[assigning.to] # Absent
      /\ assigning.due \in [Slot -> Value] /\ HasBox(assigning.to)
      /\ \A x \in Place : HasBox(x) /\ x # assigning.to /\ ptr[x] \in Cell => heap[ptr[x]] = "live"
      /\ \A x \in Slot : ptr[x] # Absent => assigning.due[x] \in SUBSET Seq(Field)
  BY HalfAssigned DEF FinishCopy
<1>2. PICK g \in Injection(Tree(assigning.from), Free) :
        ptr' = Copied(assigning.to, assigning.from, g) /\ heap' = Allocated(g)
  BY DEF FinishCopy
<1>3. value' = assigning.due /\ assigning' = Nothing /\ Idle'
  BY DEF FinishCopy, Idle
<1>4. assigning.to \in Slot \/ heap[assigning.to[1]] # "free"
  BY <1>1 DEF HasBox
<1>5. /\ ptr' \in [Place -> Cell \cup {Null, Absent}]
      /\ \A x \in Cell \X Field : ptr'[x] # Absent
      /\ heap' \in [Cell -> {"free", "live", "deleted"}]
      /\ SingleOwner'
      /\ \A x \in Place : HasBox(x)' /\ ptr'[x] \in Cell => heap'[ptr'[x]] = "live"
      /\ \A x \in Place : ptr'[x] \in Cell => heap'[ptr'[x]] # "free"
      /\ \A c \in Cell : heap'[c] = "free" => \A f \in Field : ptr'[<<c, f>>] = Null
      /\ \A x \in Slot : x # assigning.to => ptr'[x] = ptr[x]
  BY <1>1, <1>2, <1>4, CopySafe
<1>6. TypeOK'
  BY <1>1, <1>3, <1>5 DEF TypeOK, Assignment
<1>7. FreeIsUntouched'
  BY <1>3, <1>5 DEF FreeIsUntouched
<1>8. NoDangling'
  BY <1>3, <1>5 DEF NoDangling
<1>9. BoxesHaveValues'
  <2>1. \A x \in Slot : ptr'[x] # Absent => ptr[x] # Absent
    BY <1>1, <1>5
  <2>2. QED
    BY <1>1, <1>3, <2>1 DEF BoxesHaveValues
<1>10. NotToItself'
  BY <1>3 DEF NotToItself
<1>11. QED
  BY <1>5, <1>6, <1>7, <1>8, <1>9, <1>10 DEF IInv

(* The only copies that may throw are to an empty Box, which is left as it was. *)
LEMMA CopyThrowsSafe ==
  ASSUME IInv, Careful, CopyThrows
  PROVE  IInv'
<1>1. ptr[assigning.to] = Null
  BY DEF CopyThrows, Careful
<1>2. \A x \in Place : HasBox(x) /\ ptr[x] \in Cell /\ x # assigning.to => heap[ptr[x]] = "live"
  BY HalfAssigned DEF CopyThrows
<1>3. assigning' = Nothing /\ ptr' = ptr /\ heap' = heap /\ value' = value /\ Idle'
  BY DEF CopyThrows, Idle
<1>4. \A x \in Place : HasBox(x)' <=> HasBox(x)
  BY <1>3 DEF HasBox
<1>5. TypeOK'
  BY <1>3 DEF IInv, TypeOK, Assignment
<1>6. FreeIsUntouched'
  BY <1>3 DEF IInv, FreeIsUntouched
<1>7. SingleOwner'
  BY <1>3, <1>4 DEF IInv, SingleOwner
<1>8. NoDangling'
  BY <1>1, <1>2, <1>3, <1>4, BoxAssumption DEF NoDangling
<1>9. BoxesHaveValues'
  BY <1>3 DEF IInv, BoxesHaveValues
<1>10. NotToItself'
  BY <1>3 DEF NotToItself
<1>11. QED
  BY <1>5, <1>6, <1>7, <1>8, <1>9, <1>10 DEF IInv

LEMMA StepSafe == Careful /\ IInv /\ [Next]_vars => IInv'
<1> SUFFICES ASSUME Careful, IInv, [Next]_vars PROVE IInv'
  OBVIOUS
<1>1. CASE \E s \in Slot : DefaultConstruct(s)
  BY <1>1, DefaultConstructSafe
<1>2. CASE \E s \in Slot : Destroy(s)
  BY <1>2, DestroySafe
<1>3. CASE \E s \in Slot, c \in Cell : MakeBox(s, c)
  BY <1>3, MakeBoxSafe
<1>4. CASE \E s, o \in Slot : \E q \in Names(o) : CopyConstruct(s, o, q)
  BY <1>4, CopyConstructSafe
<1>5. CASE \E s, o \in Slot : \E q \in Names(o) : MoveConstruct(s, o, q)
  BY <1>5, MoveConstructSafe
<1>6. CASE \E kind \in {"copy", "move"}, s, o \in Slot :
             \E p \in Names(s), q \in Names(o) : Assign(kind, s, p, o, q)
  <2>1. PICK kind \in {"copy", "move"}, s \in Slot, o \in Slot :
          \E p \in Names(s), q \in Names(o) : Assign(kind, s, p, o, q)
    BY <1>6
  <2>2. PICK p \in Names(s), q \in Names(o) : Assign(kind, s, p, o, q)
    BY <2>1
  <2>3. QED
    BY <2>2, AssignSafe
<1>7. CASE FinishMove
  BY <1>7, FinishMoveSafe
<1>8. CASE FinishCopy
  BY <1>8, FinishCopySafe
<1>9. CASE CopyThrows
  BY <1>9, CopyThrowsSafe
<1>10. CASE UNCHANGED vars
  <2>1. ptr' = ptr /\ heap' = heap /\ assigning' = assigning /\ value' = value
    BY <1>10 DEF vars
  <2>2. \A x \in Place : HasBox(x)' <=> HasBox(x)
    BY <2>1 DEF HasBox
  <2>3. NoDangling'
    <3>1. PICK y : y = assigning.from /\ y = assigning'.from
      BY <2>1
    <3>2. CellsOf(y)' = CellsOf(y)
      BY <2>1, SameTree
    <3>3. HasBox(y)' <=> HasBox(y)
      BY <2>1 DEF HasBox
    <3>4. Idle' <=> Idle
      BY <2>1 DEF Idle
    <3>5. QED
      BY <2>1, <2>2, <3>1, <3>2, <3>3, <3>4 DEF IInv, NoDangling
  <2>4. SingleOwner' /\ NotToItself'
    BY <2>1, <2>2 DEF IInv, SingleOwner, NotToItself, HasBox, Idle
  <2>5. QED
    BY <2>1, <2>3, <2>4 DEF IInv, TypeOK, FreeIsUntouched, BoxesHaveValues, Idle
<1>11. QED
  BY <1>1, <1>2, <1>3, <1>4, <1>5, <1>6, <1>7, <1>8, <1>9, <1>10 DEF Next

LEMMA Safe == Careful => (Spec => []IInv)
<1>1. Init => IInv
  BY InitSafe
<1>2. Careful /\ IInv /\ [Next]_vars => IInv'
  BY StepSafe
<1>3. ASSUME Careful PROVE Spec => []IInv
  <2>1. IInv /\ [Next]_vars => IInv'
    BY <1>2, <1>3
  <2>2. QED
    BY <1>1, <2>1, PTL DEF Spec
<1>4. QED
  BY <1>3

-----------------------------------------------------------------------------
(***************************************************************************)
(* box.hpp:20-53: a constructor leaves every variable and field of a live  *)
(* cell with a Box in it, and an assignment that is under way knows what   *)
(* it is to write and where.                                               *)
(***************************************************************************)
THEOREM TypeCorrect == Careful => (Spec => []TypeOK)
<1>1. IInv => TypeOK
  BY DEF IInv
<1>2. QED
  BY <1>1, Safe, PTL

(***************************************************************************)
(* box.hpp:10: no two boxes own one cell, whatever was copied, moved or    *)
(* assigned, for trees of any size and any number of variables.            *)
(***************************************************************************)
THEOREM OwnersAreSingle == Careful => (Spec => []SingleOwner)
<1>1. IInv => SingleOwner
  BY DEF IInv
<1>2. QED
  BY <1>1, Safe, PTL

(***************************************************************************)
(* box.hpp:10: no Box points to a deleted cell, but for the target of an   *)
(* assignment between its two halves, and what that assignment is about to *)
(* read has not been deleted with the target.                              *)
(***************************************************************************)
THEOREM NothingDangles == Careful => (Spec => []NoDangling)
<1>1. IInv => NoDangling
  BY DEF IInv
<1>2. QED
  BY <1>1, Safe, PTL

-----------------------------------------------------------------------------
(***************************************************************************)
(* Values and leaks.  What a step does to the tree of a variable is put in *)
(* terms of what Hangs from it: the nodes are decided by the pointers, so  *)
(* a tree cut off at a path and hung up at another (Grafting) is known as  *)
(* soon as its nodes are.  Writing to a value is the same change to the    *)
(* paths.                                                                  *)
(***************************************************************************)

(* A node at the end of Append(q, f) is what field f of a node at the end of q points to. *)
ChildOf(X, P, q, f, c) == \E d \in Cell : <<q, d>> \in X /\ c = P[<<d, f>>]

(* X is the nodes, all of them, of the tree that hangs from p by the pointers P. *)
Hangs(X, P, p) ==
  /\ X \subseteq Seq(Field) \X Cell
  /\ \A c \in Cell : <<<<>>, c>> \in X <=> c = P[p]
  /\ \A q \in Seq(Field), f \in Field, c \in Cell :
       <<Append(q, f), c>> \in X <=> ChildOf(X, P, q, f, c)

(* A path that is not empty is one step longer than another. *)
LEMMA LastStep ==
  ASSUME NEW S, NEW q \in Seq(S), q # <<>>
  PROVE  \E r \in Seq(S), f \in S : q = Append(r, f) /\ Len(q) = Len(r) + 1
<1>1. PICK r \in Seq(S), f \in S : q = Append(r, f)
  BY SequenceEmptyOrAppend
<1>2. Len(Append(r, f)) = Len(r) + 1
  BY AppendProperties
<1>3. QED
  BY <1>1, <1>2

LEMMA LongerPath ==
  ASSUME NEW S, NEW p \in Seq(S), NEW a \in Seq(S), NEW f \in S
  PROVE  /\ p \o a \in Seq(S) /\ Len(p \o a) = Len(p) + Len(a) /\ p \o <<>> = p
         /\ p \o Append(a, f) = Append(p \o a, f)
<1>1. p \o a \in Seq(S) /\ Len(p \o a) = Len(p) + Len(a) /\ p \o <<>> = p
  BY ConcatProperties, ConcatEmptySeq
<1>2. <<f>> \in Seq(S)
  OBVIOUS
<1>3. Append(a, f) = a \o <<f>> /\ Append(p \o a, f) = (p \o a) \o <<f>>
  BY <1>1, AppendIsConcat
<1>4. (p \o a) \o <<f>> = p \o (a \o <<f>>)
  BY <1>2, ConcatAssociative
<1>5. QED
  BY <1>1, <1>3, <1>4

LEMMA SameRest ==
  ASSUME NEW S, NEW p \in Seq(S), NEW a \in Seq(S), NEW b \in Seq(S), p \o a = p \o b
  PROVE  a = b
<1>1. /\ Len(p) \in Nat /\ Len(a) \in Nat /\ Len(b) \in Nat
      /\ Len(p \o a) = Len(p) + Len(a) /\ Len(p \o b) = Len(p) + Len(b)
  BY ConcatProperties, LenProperties
<1>2. Len(a) = Len(b)
  BY <1>1
<1>3. ASSUME NEW i \in 1 .. Len(a) PROVE a[i] = b[i]
  <2>1. Len(p) + i \in 1 .. Len(p) + Len(a) /\ ~(Len(p) + i <= Len(p)) /\ (Len(p) + i) - Len(p) = i
    BY <1>1
  <2>2. (p \o a)[Len(p) + i] = a[i]
    BY <2>1, ConcatProperties
  <2>3. (p \o b)[Len(p) + i] = b[i]
    BY <1>2, <2>1, ConcatProperties
  <2>4. QED
    BY <2>2, <2>3
<1>4. QED
  BY <1>2, <1>3, SeqEqual

(* To begin with p is to be p and the rest of the way. *)
LEMMA PrefixAndRest ==
  ASSUME NEW S, NEW p \in Seq(S), NEW u \in Seq(S)
  PROVE  IsPrefix(p, u) <=> \E a \in Seq(S) : u = p \o a
<1>1. Len(p) \in Nat /\ Len(u) \in Nat
  BY LenProperties
<1>2. SubSeq(p, 1, Len(p)) = p
  BY SubSeqFull
<1>3. ASSUME IsPrefix(p, u) PROVE \E a \in Seq(S) : u = p \o a
  <2>1. Len(p) <= Len(u) /\ p = SubSeq(u, 1, Len(p))
    BY <1>2, <1>3 DEF IsPrefix
  <2>2. SubSeq(u, 1, Len(p)) \o SubSeq(u, Len(p) + 1, Len(u)) = SubSeq(u, 1, Len(u))
    <3>1. 1 \in 1 .. Len(u) + 1 /\ Len(p) \in 1 - 1 .. Len(u) /\ Len(u) \in Len(p) .. Len(u)
      BY <1>1, <2>1
    <3>2. QED
      BY <3>1, ConcatAdjacentSubSeq
  <2>3. SubSeq(u, Len(p) + 1, Len(u)) \in Seq(S)
    <3>1. \A i \in Len(p) + 1 .. Len(u) : u[i] \in S
      BY <1>1, ElementOfSeq
    <3>2. Len(p) + 1 \in Int /\ Len(u) \in Int
      BY <1>1
    <3>3. QED
      BY <3>1, <3>2, SubSeqProperties
  <2>4. u = p \o SubSeq(u, Len(p) + 1, Len(u))
    BY <2>1, <2>2, SubSeqFull
  <2>5. QED
    BY <2>3, <2>4
<1>4. ASSUME NEW a \in Seq(S), u = p \o a PROVE IsPrefix(p, u)
  <2>1. Len(u) = Len(p) + Len(a) /\ Len(a) \in Nat
    BY <1>4, ConcatProperties, LenProperties
  <2>2. Len(p) <= Len(u)
    BY <1>1, <2>1
  <2>3. SubSeq(u, 1, Len(p)) = SubSeq(p, 1, Len(p))
    <3>1. CASE Len(p) = 0
      <4>1. SubSeq(u, 1, 0) = <<>> /\ SubSeq(p, 1, 0) = <<>>
        BY SubSeqEmpty
      <4>2. QED
        BY <3>1, <4>1
    <3>2. CASE Len(p) # 0
      <4>1. 1 \in 1 .. Len(p) /\ Len(p) \in 1 .. Len(p)
        BY <1>1, <3>2
      <4>2. QED
        BY <1>4, <4>1, SubSeqOfConcat1
    <3>3. QED
      BY <3>1, <3>2
  <2>4. QED
    BY <2>2, <2>3 DEF IsPrefix
<1>5. QED
  BY <1>3, <1>4

(* What begins a path one step longer begins the path, or is all of it. *)
LEMMA PrefixOfAppend ==
  ASSUME NEW S, NEW p \in Seq(S), NEW q \in Seq(S), NEW f \in S
  PROVE  IsPrefix(p, Append(q, f)) <=> IsPrefix(p, q) \/ p = Append(q, f)
<1>1. Append(q, f) \in Seq(S)
  BY AppendProperties
<1>2. ASSUME IsPrefix(p, Append(q, f)), p # Append(q, f) PROVE IsPrefix(p, q)
  <2>1. PICK a \in Seq(S) : Append(q, f) = p \o a
    BY <1>1, <1>2, PrefixAndRest
  <2>2. a # <<>>
    BY <1>2, <2>1, ConcatEmptySeq
  <2>3. PICK b \in Seq(S), g \in S : a = Append(b, g)
    BY <2>2, SequenceEmptyOrAppend
  <2>4. p \o b \in Seq(S) /\ p \o a = Append(p \o b, g)
    BY <2>3, LongerPath
  <2>5. PICK r \in Seq(S) : r = p \o b
    BY <2>4
  <2>6. Append(q, f) = Append(r, g)
    BY <2>1, <2>4, <2>5
  <2>7. q = r
    BY <2>6, AppendInjective
  <2>8. QED
    BY <2>5, <2>7, PrefixAndRest
<1>3. QED
  BY <1>1, <1>2, PrefixAppend, PrefixSelf

(* Pointers decide what hangs from a place. *)
LEMMA HangsOnce ==
  ASSUME NEW X, NEW Y, NEW P, NEW p, Hangs(X, P, p), Hangs(Y, P, p)
  PROVE  X = Y
<1> DEFINE S == {n \in Nat : \A q \in Seq(Field), c \in Cell :
                    Len(q) = n => (<<q, c>> \in X <=> <<q, c>> \in Y)}
<1>1. 0 \in S
  <2>1. \A q \in Seq(Field) : Len(q) = 0 => q = <<>>
    OBVIOUS
  <2>2. QED
    BY <2>1 DEF Hangs
<1>2. ASSUME NEW n \in Nat, n \in S PROVE n + 1 \in S
  <2> SUFFICES ASSUME NEW q \in Seq(Field), NEW c \in Cell, Len(q) = n + 1
               PROVE  <<q, c>> \in X <=> <<q, c>> \in Y
    OBVIOUS
  <2>1. PICK r \in Seq(Field), f \in Field : q = Append(r, f) /\ Len(q) = Len(r) + 1
    <3>1. q # <<>>
      OBVIOUS
    <3>2. QED
      BY <3>1, LastStep
  <2>2. Len(r) = n
    BY <2>1
  <2>3. \A d \in Cell : <<r, d>> \in X <=> <<r, d>> \in Y
    BY <1>2, <2>2
  <2>4. ChildOf(X, P, r, f, c) <=> ChildOf(Y, P, r, f, c)
    BY <2>3, Zenon DEF ChildOf
  <2>5. QED
    BY <2>1, <2>4 DEF Hangs
<1>3. \A n \in Nat : n \in S
  <2> HIDE DEF S
  <2>1. QED
    BY <1>1, <1>2, Inductive
<1>4. \A q \in Seq(Field), c \in Cell : <<q, c>> \in X <=> <<q, c>> \in Y
  <2> SUFFICES ASSUME NEW q \in Seq(Field), NEW c \in Cell PROVE <<q, c>> \in X <=> <<q, c>> \in Y
    OBVIOUS
  <2>1. Len(q) \in S
    BY <1>3
  <2>2. QED
    BY <2>1
<1>5. X \subseteq Seq(Field) \X Cell /\ Y \subseteq Seq(Field) \X Cell
  BY DEF Hangs
<1>6. \A x : x \in X <=> x \in Y
  BY <1>4, <1>5
<1>7. QED
  BY <1>6

(* A path leads to one cell. *)
LEMMA OneCell ==
  ASSUME NEW X, NEW P, NEW p, Hangs(X, P, p)
  PROVE  \A q \in Seq(Field), c, d \in Cell : <<q, c>> \in X /\ <<q, d>> \in X => c = d
<1> DEFINE S == {n \in Nat : \A q \in Seq(Field), c, d \in Cell :
                    Len(q) = n /\ <<q, c>> \in X /\ <<q, d>> \in X => c = d}
<1>1. 0 \in S
  <2>1. \A q \in Seq(Field) : Len(q) = 0 => q = <<>>
    OBVIOUS
  <2>2. QED
    BY <2>1 DEF Hangs
<1>2. ASSUME NEW n \in Nat, n \in S PROVE n + 1 \in S
  <2> SUFFICES ASSUME NEW q \in Seq(Field), NEW c \in Cell, NEW d \in Cell, Len(q) = n + 1,
                      <<q, c>> \in X, <<q, d>> \in X
               PROVE  c = d
    OBVIOUS
  <2>1. PICK r \in Seq(Field), f \in Field : q = Append(r, f) /\ Len(q) = Len(r) + 1
    <3>1. q # <<>>
      OBVIOUS
    <3>2. QED
      BY <3>1, LastStep
  <2>2. Len(r) = n
    BY <2>1
  <2>3. ChildOf(X, P, r, f, c) /\ ChildOf(X, P, r, f, d)
    BY <2>1 DEF Hangs
  <2>4. PICK x \in Cell : <<r, x>> \in X /\ c = P[<<x, f>>]
    BY <2>3, Zenon DEF ChildOf
  <2>5. PICK y \in Cell : <<r, y>> \in X /\ d = P[<<y, f>>]
    BY <2>3, Zenon DEF ChildOf
  <2>6. x = y
    BY <1>2, <2>2, <2>4, <2>5
  <2>7. QED
    BY <2>4, <2>5, <2>6
<1>3. \A n \in Nat : n \in S
  <2> HIDE DEF S
  <2>1. QED
    BY <1>1, <1>2, Inductive
<1>4. ASSUME NEW q \in Seq(Field), NEW c \in Cell, NEW d \in Cell, <<q, c>> \in X, <<q, d>> \in X
      PROVE  c = d
  <2>1. Len(q) \in S
    BY <1>3
  <2>2. QED
    BY <1>4, <2>1
<1>5. QED
  BY <1>4

-----------------------------------------------------------------------------
(* There are as many cells in the tree at p as there are steps to a node, and one more. *)
ManyCells(p, n) ==
  \E A \in SUBSET Cell :
     /\ Cardinality(A) = n + 1
     /\ \A a \in A : \E w \in Seq(Field) : Len(w) <= n /\ <<w, a>> \in Nodes(p)

(* A cell is at the end of one path only. *)
OnePath(p) ==
  \A u, w \in Seq(Field), c \in Cell : <<u, c>> \in Nodes(p) /\ <<w, c>> \in Nodes(p) => u = w

(* Then no path is as long as there are cells, and the levels of Nodes are enough. *)
LEMMA PathsAreShort ==
  ASSUME TypeOK, NEW p \in Place, OnePath(p)
  PROVE  \A q \in Seq(Field), c \in Cell : <<q, c>> \in Nodes(p) => Len(q) < Cardinality(Cell)
<1> DEFINE S == {n \in Nat : \A q \in Seq(Field), c \in Cell :
                    Len(q) = n /\ <<q, c>> \in Nodes(p) => ManyCells(p, n)}
<1>1. 0 \in S
  <2> SUFFICES ASSUME NEW q \in Seq(Field), NEW c \in Cell, Len(q) = 0, <<q, c>> \in Nodes(p)
               PROVE  ManyCells(p, 0)
    OBVIOUS
  <2>1. {c} \in SUBSET Cell /\ Cardinality({c}) = 0 + 1
    <3>1. Cardinality({c}) = 1
      BY FS_Singleton
    <3>2. QED
      BY <3>1
  <2>2. ASSUME NEW a \in {c}
        PROVE  \E w \in Seq(Field) : Len(w) <= 0 /\ <<w, a>> \in Nodes(p)
    <3>1. a = c /\ Len(q) <= 0
      OBVIOUS
    <3>2. QED
      BY <3>1, Zenon
  <2>3. QED
    BY <2>1, <2>2, Zenon DEF ManyCells
<1>2. ASSUME NEW n \in Nat, n \in S PROVE n + 1 \in S
  <2> SUFFICES ASSUME NEW q \in Seq(Field), NEW c \in Cell, Len(q) = n + 1, <<q, c>> \in Nodes(p)
               PROVE  ManyCells(p, n + 1)
    OBVIOUS
  <2>1. PICK r \in Seq(Field), f \in Field, d \in Cell :
          Len(q) = Len(r) + 1 /\ <<r, d>> \in Nodes(p)
    <3>1. q # <<>>
      OBVIOUS
    <3>2. Above(p, q, c)
      BY <3>1, NodeAbove
    <3>3. QED
      BY <3>2, Zenon DEF Above
  <2>2. Len(r) = n
    BY <2>1
  <2>3. ManyCells(p, n)
    BY <1>2, <2>1, <2>2
  <2>4. PICK A \in SUBSET Cell :
          /\ Cardinality(A) = n + 1
          /\ \A a \in A : \E w \in Seq(Field) : Len(w) <= n /\ <<w, a>> \in Nodes(p)
    BY <2>3, Zenon DEF ManyCells
  <2>5. c \notin A
    <3>1. SUFFICES ASSUME c \in A PROVE FALSE
      OBVIOUS
    <3>2. PICK w \in Seq(Field) : Len(w) <= n /\ <<w, c>> \in Nodes(p)
      BY <2>4, <3>1
    <3>3. w = q
      BY <3>2 DEF OnePath
    <3>4. QED
      BY <3>2, <3>3
  <2>6. IsFiniteSet(A)
    BY BoxAssumption, FS_Subset
  <2>7. A \cup {c} \in SUBSET Cell /\ Cardinality(A \cup {c}) = (n + 1) + 1
    BY <2>4, <2>5, <2>6, FS_AddElement
  <2>8. ASSUME NEW a \in A \cup {c}
        PROVE  \E w \in Seq(Field) : Len(w) <= n + 1 /\ <<w, a>> \in Nodes(p)
    <3>1. CASE a \in A
      <4>1. PICK w \in Seq(Field) : Len(w) <= n /\ <<w, a>> \in Nodes(p)
        BY <2>4, <3>1
      <4>2. Len(w) <= n + 1
        BY <4>1
      <4>3. QED
        BY <4>1, <4>2
    <3>2. CASE a = c
      <4>1. Len(q) <= n + 1
        OBVIOUS
      <4>2. QED
        BY <3>2, <4>1, Zenon
    <3>3. QED
      BY <3>1, <3>2
  <2>9. QED
    BY <2>7, <2>8, Zenon DEF ManyCells
<1>3. \A n \in Nat : n \in S
  <2> HIDE DEF S
  <2>1. QED
    BY <1>1, <1>2, Inductive
<1>4. ASSUME NEW q \in Seq(Field), NEW c \in Cell, <<q, c>> \in Nodes(p)
      PROVE  Len(q) < Cardinality(Cell)
  <2>1. Len(q) \in Nat /\ ManyCells(p, Len(q))
    BY <1>3, <1>4
  <2>2. PICK A \in SUBSET Cell : Cardinality(A) = Len(q) + 1
    BY <2>1, Zenon DEF ManyCells
  <2>3. Cardinality(A) <= Cardinality(Cell) /\ Cardinality(Cell) \in Nat
    BY BoxAssumption, FS_Subset, FS_CardinalityType
  <2>4. QED
    BY <2>1, <2>2, <2>3
<1>5. QED
  BY <1>4

(* All the nodes are there. *)
LEMMA NodesHang ==
  ASSUME TypeOK, NEW p \in Place, OnePath(p)
  PROVE  Hangs(Nodes(p), ptr, p)
<1>1. Nodes(p) \subseteq Seq(Field) \X Cell
  BY NodeFacts
<1>2. \A c \in Cell : <<<<>>, c>> \in Nodes(p) <=> c = ptr[p]
  BY NodeRoot
<1>3. ASSUME NEW q \in Seq(Field), NEW f \in Field, NEW c \in Cell,
             <<Append(q, f), c>> \in Nodes(p)
      PROVE  ChildOf(Nodes(p), ptr, q, f, c)
  <2>1. Append(q, f) \in Seq(Field) /\ Append(q, f) # <<>>
    BY EndsOfAppend
  <2>2. Above(p, Append(q, f), c)
    BY <1>3, <2>1, NodeAbove
  <2>3. PICK r \in Seq(Field), g \in Field, d \in Cell :
          Append(q, f) = Append(r, g) /\ <<r, d>> \in Nodes(p) /\ c = ptr[<<d, g>>]
    BY <2>2, Zenon DEF Above
  <2>4. q = r /\ f = g
    BY <2>3, AppendInjective
  <2>5. QED
    BY <2>3, <2>4, Zenon DEF ChildOf
<1>4. ASSUME NEW q \in Seq(Field), NEW f \in Field, NEW c \in Cell,
             ChildOf(Nodes(p), ptr, q, f, c)
      PROVE  <<Append(q, f), c>> \in Nodes(p)
  <2> DEFINE K == Cardinality(Cell)
  <2>1. PICK d \in Cell : <<q, d>> \in Nodes(p) /\ c = ptr[<<d, f>>]
    BY <1>4, Zenon DEF ChildOf
  <2>2. PICK level : Levels(level, p, K) /\ Nodes(p) = UNION {level[n] : n \in 0 .. K}
    BY NodesByLevel
  <2>3. K \in Nat /\ Len(q) \in Nat /\ Len(q) < K
    BY <2>1, PathsAreShort, BoxAssumption, FS_CardinalityType
  <2> HIDE DEF K
  <2>4. PICK n \in 0 .. K : <<q, d>> \in level[n]
    BY <2>1, <2>2
  <2>5. Len(q) = n
    <3>1. \A x \in level[n] : Len(x[1]) = n
      BY <2>2, <2>3, LevelsHoldNodes
    <3>2. QED
      BY <2>4, <3>1
  <2>6. n + 1 \in 0 .. K /\ level[n + 1] = AllChildren(level[n])
    BY <2>2, <2>3, <2>5 DEF Levels
  <2>7. ptr[<<d, f>>] # Null
    BY <2>1, BoxAssumption
  <2>8. <<Append(q, f), c>> \in Children(<<q, d>>)
    BY <2>1, <2>7 DEF Children
  <2>9. <<Append(q, f), c>> \in level[n + 1]
    BY <2>4, <2>6, <2>8 DEF AllChildren
  <2>10. QED
    BY <2>2, <2>6, <2>9
<1>5. QED
  BY <1>1, <1>2, <1>3, <1>4, Zenon DEF Hangs

-----------------------------------------------------------------------------
(* The trees of the variables are trees: what hangs from each, and no cell is at two places. *)
Forest ==
  /\ \A s \in Slot : Hangs(Nodes(s), ptr, s)
  /\ \A s, o \in Slot : \A u, w \in Seq(Field), c \in Cell :
       <<u, c>> \in Nodes(s) /\ <<w, c>> \in Nodes(o) => s = o /\ u = w

(* Nothing hangs from a place that points to no cell. *)
LEMMA Rooted ==
  ASSUME TypeOK, NEW p \in Place
  PROVE  \A q \in Seq(Field), c \in Cell : <<q, c>> \in Nodes(p) => ptr[p] \in Cell
<1> DEFINE S == {n \in Nat : \A q \in Seq(Field), c \in Cell :
                    Len(q) = n /\ <<q, c>> \in Nodes(p) => ptr[p] \in Cell}
<1>1. 0 \in S
  <2>1. \A q \in Seq(Field) : Len(q) = 0 => q = <<>>
    OBVIOUS
  <2>2. \A c : <<<<>>, c>> \in Nodes(p) => ptr[p] \in Cell
    BY NodeRoot
  <2>3. QED
    BY <2>1, <2>2
<1>2. ASSUME NEW n \in Nat, n \in S PROVE n + 1 \in S
  <2> SUFFICES ASSUME NEW q \in Seq(Field), NEW c \in Cell, Len(q) = n + 1, <<q, c>> \in Nodes(p)
               PROVE  ptr[p] \in Cell
    OBVIOUS
  <2>1. PICK r \in Seq(Field), f \in Field, d \in Cell :
          Len(q) = Len(r) + 1 /\ <<r, d>> \in Nodes(p)
    <3>1. q # <<>>
      OBVIOUS
    <3>2. Above(p, q, c)
      BY <3>1, NodeAbove
    <3>3. QED
      BY <3>2, Zenon DEF Above
  <2>2. Len(r) = n
    BY <2>1
  <2>3. QED
    BY <1>2, <2>1, <2>2
<1>3. \A n \in Nat : n \in S
  <2> HIDE DEF S
  <2>1. QED
    BY <1>1, <1>2, Inductive
<1>4. ASSUME NEW q \in Seq(Field), NEW c \in Cell, <<q, c>> \in Nodes(p) PROVE ptr[p] \in Cell
  <2>1. Len(q) \in S
    BY <1>3
  <2>2. QED
    BY <1>4, <2>1
<1>5. QED
  BY <1>4

LEMMA ForestAtRest == AtRest => Forest
<1> SUFFICES ASSUME AtRest PROVE Forest
  OBVIOUS
<1>1. TypeOK /\ \A s \in Slot : s \in Place
  BY PlacesApart DEF AtRest
<1>2. ASSUME NEW s \in Slot, NEW o \in Slot, NEW u \in Seq(Field), NEW w \in Seq(Field),
             NEW c \in Cell, <<u, c>> \in Nodes(s), <<w, c>> \in Nodes(o)
      PROVE  s = o /\ u = w
  <2>1. ptr[s] \in Cell /\ ptr[o] \in Cell
    BY <1>1, <1>2, Rooted
  <2>2. HasBox(s) /\ HasBox(o)
    BY <2>1, BoxAssumption DEF HasBox
  <2>3. QED
    BY <1>2, <2>2, UniquePath
<1>3. ASSUME NEW s \in Slot PROVE Hangs(Nodes(s), ptr, s)
  <2>1. OnePath(s)
    BY <1>2 DEF OnePath
  <2>2. QED
    BY <1>1, <2>1, NodesHang
<1>4. QED
  BY <1>2, <1>3 DEF Forest

(* The tree at a place inside another is the rest of the paths that go by the place. *)
LEMMA SubTree ==
  ASSUME TypeOK, Forest, NEW o \in Slot, NEW q \in Seq(Field), NEW y \in Place,
         Leads(Nodes(o), o, q, y)
  PROVE  /\ \A a \in Seq(Field), c \in Cell : <<a, c>> \in Nodes(y) <=> <<q \o a, c>> \in Nodes(o)
         /\ Hangs(Nodes(y), ptr, y)
<1>1. Hangs(Nodes(o), ptr, o)
  BY DEF Forest
<1>2. \A a \in Seq(Field) : q \o a \in Seq(Field)
  BY LongerPath
<1>3. ASSUME NEW c \in Cell PROVE <<q, c>> \in Nodes(o) <=> c = ptr[y]
  <2>1. CASE q = <<>> /\ y = o
    BY <1>1, <2>1 DEF Hangs
  <2>2. CASE \E r \in Seq(Field), d \in Cell, f \in Field :
               q = Append(r, f) /\ <<r, d>> \in Nodes(o) /\ y = <<d, f>>
    <3>1. PICK r \in Seq(Field), d \in Cell, f \in Field :
            q = Append(r, f) /\ <<r, d>> \in Nodes(o) /\ y = <<d, f>>
      BY <2>2, Zenon
    <3>2. <<q, c>> \in Nodes(o) <=> ChildOf(Nodes(o), ptr, r, f, c)
      BY <1>1, <3>1 DEF Hangs
    <3>3. \A e \in Cell : <<r, e>> \in Nodes(o) => e = d
      BY <1>1, <3>1, OneCell
    <3>4. QED
      BY <3>1, <3>2, <3>3, Zenon DEF ChildOf
  <2>3. QED
    BY <2>1, <2>2, Zenon DEF Leads
<1> DEFINE Down(n) == \A a \in Seq(Field), c \in Cell :
                        Len(a) = n /\ <<a, c>> \in Nodes(y) => <<q \o a, c>> \in Nodes(o)
           Up(n) == \A a \in Seq(Field), c \in Cell :
                      Len(a) = n /\ <<q \o a, c>> \in Nodes(o) => <<a, c>> \in Nodes(y)
           S == {n \in Nat : Down(n)}
           T == {n \in Nat : Up(n)}
<1>4. \A a \in Seq(Field) : Len(a) = 0 => a = <<>> /\ q \o a = q
  BY LongerPath
<1>5. Down(0)
  <2> SUFFICES ASSUME NEW a \in Seq(Field), NEW c \in Cell, Len(a) = 0, <<a, c>> \in Nodes(y)
               PROVE  <<q \o a, c>> \in Nodes(o)
    OBVIOUS
  <2>1. a = <<>> /\ q \o a = q
    BY <1>4
  <2>2. c = ptr[y]
    BY <2>1, NodeRoot
  <2>3. <<q, c>> \in Nodes(o)
    BY <1>3, <2>2
  <2>4. QED
    BY <2>1, <2>3, Zenon
<1>6. ASSUME NEW n \in Nat, Down(n) PROVE Down(n + 1)
  <2> SUFFICES ASSUME NEW a \in Seq(Field), NEW c \in Cell, Len(a) = n + 1, <<a, c>> \in Nodes(y)
               PROVE  <<q \o a, c>> \in Nodes(o)
    OBVIOUS
  <2>1. PICK b \in Seq(Field), f \in Field, d \in Cell :
          a = Append(b, f) /\ Len(a) = Len(b) + 1 /\ <<b, d>> \in Nodes(y) /\ c = ptr[<<d, f>>]
    <3>1. a # <<>>
      OBVIOUS
    <3>2. Above(y, a, c)
      BY <3>1, NodeAbove
    <3>3. QED
      BY <3>2, Zenon DEF Above
  <2>2. Len(b) = n
    BY <2>1
  <2>3. <<q \o b, d>> \in Nodes(o)
    BY <1>6, <2>1, <2>2
  <2>4. ChildOf(Nodes(o), ptr, q \o b, f, c)
    BY <2>1, <2>3, Zenon DEF ChildOf
  <2>5. <<Append(q \o b, f), c>> \in Nodes(o)
    BY <1>1, <1>2, <2>4 DEF Hangs
  <2>6. q \o a = Append(q \o b, f)
    BY <2>1, LongerPath
  <2>7. QED
    BY <2>5, <2>6, Zenon
<1>7. \A n \in Nat : Down(n)
  <2> HIDE DEF Down
  <2>1. 0 \in S /\ \A n \in Nat : n \in S => n + 1 \in S
    BY <1>5, <1>6
  <2>2. \A n \in Nat : n \in S
    <3> HIDE DEF S
    <3>1. QED
      BY <2>1, Inductive
  <2>3. QED
    BY <2>2
<1>8. ASSUME NEW a \in Seq(Field), NEW c \in Cell, <<a, c>> \in Nodes(y)
      PROVE  <<q \o a, c>> \in Nodes(o)
  <2>1. Len(a) \in Nat
    OBVIOUS
  <2>2. Down(Len(a))
    BY <1>7, <2>1
  <2>3. QED
    BY <1>8, <2>2
<1>9. Hangs(Nodes(y), ptr, y)
  <2>1. ASSUME NEW u \in Seq(Field), NEW w \in Seq(Field), NEW c \in Cell,
               <<u, c>> \in Nodes(y), <<w, c>> \in Nodes(y)
        PROVE  u = w
    <3>1. <<q \o u, c>> \in Nodes(o) /\ <<q \o w, c>> \in Nodes(o)
      BY <1>8, <2>1
    <3>2. q \o u = q \o w
      BY <1>2, <3>1 DEF Forest
    <3>3. QED
      BY <3>2, SameRest
  <2>2. QED
    BY <2>1, NodesHang DEF OnePath
<1>10. Up(0)
  <2> SUFFICES ASSUME NEW a \in Seq(Field), NEW c \in Cell, Len(a) = 0, <<q \o a, c>> \in Nodes(o)
               PROVE  <<a, c>> \in Nodes(y)
    OBVIOUS
  <2>1. a = <<>> /\ q \o a = q
    BY <1>4
  <2>2. c = ptr[y]
    BY <1>3, <2>1
  <2>3. QED
    BY <2>1, <2>2, NodeRoot
<1>11. ASSUME NEW n \in Nat, Up(n) PROVE Up(n + 1)
  <2> SUFFICES ASSUME NEW a \in Seq(Field), NEW c \in Cell, Len(a) = n + 1,
                      <<q \o a, c>> \in Nodes(o)
               PROVE  <<a, c>> \in Nodes(y)
    OBVIOUS
  <2>1. PICK b \in Seq(Field), f \in Field : a = Append(b, f) /\ Len(a) = Len(b) + 1
    <3>1. a # <<>>
      OBVIOUS
    <3>2. QED
      BY <3>1, LastStep
  <2>2. Len(b) = n
    BY <2>1
  <2>3. q \o a = Append(q \o b, f) /\ q \o b \in Seq(Field)
    BY <2>1, LongerPath
  <2>4. ChildOf(Nodes(o), ptr, q \o b, f, c)
    BY <1>1, <2>3 DEF Hangs
  <2>5. PICK d \in Cell : <<q \o b, d>> \in Nodes(o) /\ c = ptr[<<d, f>>]
    BY <2>4, Zenon DEF ChildOf
  <2>6. <<b, d>> \in Nodes(y)
    BY <1>11, <2>2, <2>5
  <2>7. ChildOf(Nodes(y), ptr, b, f, c)
    BY <2>5, <2>6, Zenon DEF ChildOf
  <2>8. QED
    BY <1>9, <2>1, <2>7 DEF Hangs
<1>12. \A n \in Nat : Up(n)
  <2> HIDE DEF Up
  <2>1. 0 \in T /\ \A n \in Nat : n \in T => n + 1 \in T
    BY <1>10, <1>11
  <2>2. \A n \in Nat : n \in T
    <3> HIDE DEF T
    <3>1. QED
      BY <2>1, Inductive
  <2>3. QED
    BY <2>2
<1>13. ASSUME NEW a \in Seq(Field), NEW c \in Cell, <<q \o a, c>> \in Nodes(o)
       PROVE  <<a, c>> \in Nodes(y)
  <2>1. Len(a) \in Nat
    OBVIOUS
  <2>2. Up(Len(a))
    BY <1>12, <2>1
  <2>3. QED
    BY <1>13, <2>2
<1>14. QED
  BY <1>8, <1>9, <1>13

-----------------------------------------------------------------------------
(* Cutting trees off and hanging them up *)

(* The nodes that are not at the path or past it, and nodes moved there. *)
Rest(X, path) == {n \in X : ~IsPrefix(path, n[1])}
Under(path, G) == {<<path \o n[1], n[2]>> : n \in G}
Grafted(X, path, G) == Rest(X, path) \cup Under(path, G)

LEMMA NodesOfGrafted ==
  ASSUME NEW X \in SUBSET (Seq(Field) \X Cell), NEW G \in SUBSET (Seq(Field) \X Cell),
         NEW p \in Seq(Field)
  PROVE  /\ Grafted(X, p, G) \subseteq Seq(Field) \X Cell
         /\ \A u \in Seq(Field), c \in Cell :
              ~IsPrefix(p, u) => (<<u, c>> \in Grafted(X, p, G) <=> <<u, c>> \in X)
         /\ \A a \in Seq(Field), c \in Cell :
              <<p \o a, c>> \in Grafted(X, p, G) <=> <<a, c>> \in G
<1>1. \A n \in X \cup G : n = <<n[1], n[2]>> /\ n[1] \in Seq(Field) /\ n[2] \in Cell
  OBVIOUS
<1>2. ASSUME NEW a \in Seq(Field) PROVE p \o a \in Seq(Field) /\ IsPrefix(p, p \o a)
  <2>1. PICK r \in Seq(Field) : r = p \o a
    BY ConcatProperties
  <2>2. IsPrefix(p, r)
    BY <2>1, PrefixAndRest
  <2>3. QED
    BY <2>1, <2>2
<1>3. ASSUME NEW n \in G PROVE <<p \o n[1], n[2]>> \in Seq(Field) \X Cell
  <2>1. p \o n[1] \in Seq(Field) /\ n[2] \in Cell
    BY <1>1, <1>2
  <2>2. QED
    BY <2>1
<1>4. Grafted(X, p, G) \subseteq Seq(Field) \X Cell
  BY <1>3, Zenon DEF Grafted, Rest, Under
<1>5. ASSUME NEW u \in Seq(Field), NEW c \in Cell, ~IsPrefix(p, u)
      PROVE  <<u, c>> \in Grafted(X, p, G) <=> <<u, c>> \in X
  <2>1. <<u, c>>[1] = u
    OBVIOUS
  <2>2. <<u, c>> \in Rest(X, p) <=> <<u, c>> \in X
    BY <1>5, <2>1, Zenon DEF Rest
  <2>3. ASSUME NEW n \in G, <<u, c>> = <<p \o n[1], n[2]>> PROVE FALSE
    <3>1. u = p \o n[1]
      BY <2>3
    <3>2. QED
      BY <1>1, <1>2, <1>5, <3>1, Zenon
  <2>4. <<u, c>> \notin Under(p, G)
    BY <2>3, Zenon DEF Under
  <2>5. QED
    BY <2>2, <2>4, Zenon DEF Grafted
<1>6. ASSUME NEW a \in Seq(Field), NEW c \in Cell
      PROVE  <<p \o a, c>> \in Grafted(X, p, G) <=> <<a, c>> \in G
  <2>1. <<p \o a, c>>[1] = p \o a /\ IsPrefix(p, p \o a)
    BY <1>2
  <2>2. <<p \o a, c>> \notin Rest(X, p)
    BY <2>1, Zenon DEF Rest
  <2>3. ASSUME NEW n \in G, <<p \o a, c>> = <<p \o n[1], n[2]>> PROVE <<a, c>> = n
    <3>1. p \o a = p \o n[1] /\ c = n[2]
      BY <2>3
    <3>2. a = n[1]
      BY <1>1, <3>1, SameRest
    <3>3. QED
      BY <1>1, <3>1, <3>2
  <2>4. <<a, c>> \in G => <<p \o a, c>> \in Under(p, G)
    <3>1. <<a, c>>[1] = a /\ <<a, c>>[2] = c
      OBVIOUS
    <3>2. QED
      BY <3>1, Zenon DEF Under
  <2>5. <<p \o a, c>> \in Under(p, G) => <<a, c>> \in G
    BY <2>3, Zenon DEF Under
  <2>6. QED
    BY <2>2, <2>4, <2>5, Zenon DEF Grafted
<1>7. QED
  BY <1>4, <1>5, <1>6

(* What hangs from a place hangs from any other that has its pointer, if its own are as they were. *)
LEMMA Rehung ==
  ASSUME NEW X, NEW P, NEW Q, NEW x, NEW z, Hangs(X, P, x), Q[z] = P[x],
         \A u \in Seq(Field), d \in Cell, f \in Field : <<u, d>> \in X => Q[<<d, f>>] = P[<<d, f>>]
  PROVE  Hangs(X, Q, z)
<1>1. X \subseteq Seq(Field) \X Cell /\ \A c \in Cell : <<<<>>, c>> \in X <=> c = Q[z]
  BY DEF Hangs
<1>2. ASSUME NEW q \in Seq(Field), NEW f \in Field, NEW c \in Cell
      PROVE  <<Append(q, f), c>> \in X <=> ChildOf(X, Q, q, f, c)
  <2>1. <<Append(q, f), c>> \in X <=> ChildOf(X, P, q, f, c)
    BY DEF Hangs
  <2>2. ChildOf(X, P, q, f, c) <=> ChildOf(X, Q, q, f, c)
    BY Zenon DEF ChildOf
  <2>3. QED
    BY <2>1, <2>2
<1>3. QED
  BY <1>1, <1>2, Zenon DEF Hangs

(* Where a path leads, the nodes of a tree under another pointer. *)
LEMMA Grafting ==
  ASSUME NEW X, NEW G, NEW P, NEW Q, NEW s, NEW t, NEW p \in Seq(Field),
         Hangs(X, P, s), Hangs(G, Q, t), Leads(X, s, p, t),
         \A u, w \in Seq(Field), c \in Cell : <<u, c>> \in X /\ <<w, c>> \in X => u = w,
         s \notin Cell \X Field,
         s # t => Q[s] = P[s],
         \A u \in Seq(Field), d \in Cell, f \in Field :
            <<u, d>> \in X /\ <<d, f>> # t => Q[<<d, f>>] = P[<<d, f>>]
  PROVE  Hangs(Grafted(X, p, G), Q, s)
<1> DEFINE Z == Grafted(X, p, G)
<1>1. /\ Z \subseteq Seq(Field) \X Cell
      /\ \A u \in Seq(Field), c \in Cell : ~IsPrefix(p, u) => (<<u, c>> \in Z <=> <<u, c>> \in X)
      /\ \A a \in Seq(Field), c \in Cell : <<p \o a, c>> \in Z <=> <<a, c>> \in G
  BY NodesOfGrafted DEF Hangs
<1> HIDE DEF Z
<1>2. ASSUME NEW c \in Cell PROVE <<<<>>, c>> \in Z <=> c = Q[s]
  <2>1. CASE p = <<>>
    <3>1. t = s
      <4>1. \A q \in Seq(Field), f \in Field : Append(q, f) # <<>>
        BY EndsOfAppend
      <4>2. QED
        BY <2>1, <4>1, Zenon DEF Leads
    <3>2. <<>> \in Seq(Field) /\ p \o <<>> = <<>>
      BY <2>1, LongerPath
    <3>3. <<<<>>, c>> \in Z <=> <<<<>>, c>> \in G
      BY <1>1, <3>2, Zenon
    <3>4. QED
      BY <3>1, <3>3 DEF Hangs
  <2>2. CASE p # <<>>
    <3>1. PICK d \in Cell, f \in Field : t = <<d, f>>
      BY <2>2, Zenon DEF Leads
    <3>2. s # t
      <4>1. t \in Cell \X Field
        BY <3>1
      <4>2. QED
        BY <4>1
    <3>3. <<>> \in Seq(Field) /\ ~IsPrefix(p, <<>>)
      <4>1. Len(p) \in Nat \ {0} /\ <<>> \in Seq(Field) /\ Len(<<>>) = 0
        BY <2>2, EmptySeq
      <4>2. ~(Len(p) <= Len(<<>>))
        BY <4>1
      <4>3. QED
        BY <4>1, <4>2, Zenon DEF IsPrefix
    <3>4. <<<<>>, c>> \in Z <=> <<<<>>, c>> \in X
      BY <1>1, <3>3, Zenon
    <3>5. QED
      BY <3>2, <3>4 DEF Hangs
  <2>3. QED
    BY <2>1, <2>2
<1>3. ASSUME NEW r \in Seq(Field), NEW f \in Field, NEW c \in Cell
      PROVE  <<Append(r, f), c>> \in Z <=> ChildOf(Z, Q, r, f, c)
  <2>0. Append(r, f) \in Seq(Field)
    BY EndsOfAppend
  <2>1. CASE IsPrefix(p, r)
    <3>1. PICK b \in Seq(Field) : r = p \o b
      <4>1. IsPrefix(p, r) <=> \E a \in Seq(Field) : r = p \o a
        BY PrefixAndRest, SMTT(60)
      <4>2. QED
        BY <2>1, <4>1, Zenon
    <3>2. Append(b, f) \in Seq(Field) /\ Append(r, f) = p \o Append(b, f)
      <4>1. Append(b, f) \in Seq(Field)
        BY EndsOfAppend
      <4>2. p \o Append(b, f) = Append(p \o b, f)
        BY LongerPath
      <4>3. QED
        BY <3>1, <4>1, <4>2, Zenon
    <3>3. <<Append(r, f), c>> \in Z <=> <<Append(b, f), c>> \in G
      BY <1>1, <3>2, Zenon
    <3>4. <<Append(b, f), c>> \in G <=> ChildOf(G, Q, b, f, c)
      BY DEF Hangs
    <3>5. \A d \in Cell : <<r, d>> \in Z <=> <<b, d>> \in G
      BY <1>1, <3>1, Zenon
    <3>6. ChildOf(G, Q, b, f, c) <=> ChildOf(Z, Q, r, f, c)
      BY <3>5, Zenon DEF ChildOf
    <3>7. QED
      BY <3>3, <3>4, <3>6
  <2>2. CASE ~IsPrefix(p, r)
    <3>1. \A d \in Cell : <<r, d>> \in Z <=> <<r, d>> \in X
      BY <1>1, <2>2
    <3>2. p # <<>>
      BY <2>2, EmptyIsPrefix
    <3>3. PICK v \in Seq(Field), d \in Cell, g \in Field :
            p = Append(v, g) /\ <<v, d>> \in X /\ t = <<d, g>>
      BY <3>2, Zenon DEF Leads
    <3>4. CASE p = Append(r, f)
      <4>1. v = r /\ g = f
        <5>1. Append(v, g) = Append(r, f)
          BY <3>3, <3>4
        <5>2. QED
          BY <5>1, AppendInjective
      <4>2. <<Append(r, f), c>> \in Z <=> <<<<>>, c>> \in G
        <5>1. <<>> \in Seq(Field) /\ p \o <<>> = Append(r, f)
          BY <3>4, LongerPath
        <5>2. QED
          BY <1>1, <5>1, Zenon
      <4>3. <<<<>>, c>> \in G <=> c = Q[<<d, f>>]
        BY <3>3, <4>1 DEF Hangs
      <4>4. \A e \in Cell : <<r, e>> \in X <=> e = d
        BY <3>3, <4>1, OneCell
      <4>5. ChildOf(Z, Q, r, f, c) <=> c = Q[<<d, f>>]
        BY <3>1, <4>4, Zenon DEF ChildOf
      <4>6. QED
        BY <4>2, <4>3, <4>5
    <3>5. CASE p # Append(r, f)
      <4>1. ~IsPrefix(p, Append(r, f))
        BY <2>2, <3>5, PrefixOfAppend
      <4>2. <<Append(r, f), c>> \in Z <=> ChildOf(X, P, r, f, c)
        BY <1>1, <2>0, <4>1 DEF Hangs
      <4>3. ASSUME NEW e \in Cell, <<r, e>> \in X PROVE Q[<<e, f>>] = P[<<e, f>>]
        <5>1. ASSUME <<e, f>> = t PROVE FALSE
          <6>1. e = d /\ f = g
            BY <3>3, <5>1
          <6>2. r = v
            BY <3>3, <4>3, <6>1
          <6>3. QED
            BY <3>3, <3>5, <6>1, <6>2
        <5>2. QED
          BY <4>3, <5>1
      <4>4. ChildOf(X, P, r, f, c) <=> ChildOf(Z, Q, r, f, c)
        BY <3>1, <4>3, Zenon DEF ChildOf
      <4>5. QED
        BY <4>2, <4>4
    <3>6. QED
      BY <3>4, <3>5
  <2>3. QED
    BY <2>1, <2>2
<1>4. Hangs(Z, Q, s)
  BY <1>1, <1>2, <1>3, Zenon DEF Hangs
<1>5. QED
  BY <1>4 DEF Z

(* The paths of what a tree becomes are what writing to its value makes of it. *)
LEMMA PathsOfGrafted ==
  ASSUME NEW X \in SUBSET (Seq(Field) \X Cell), NEW G \in SUBSET (Seq(Field) \X Cell),
         NEW p \in Seq(Field)
  PROVE  {n[1] : n \in Grafted(X, p, G)} = Write({n[1] : n \in X}, p, {n[1] : n \in G})
<1> DEFINE V == {n[1] : n \in X}
           W == {n[1] : n \in G}
           L == {n[1] : n \in Grafted(X, p, G)}
<1>1. ASSUME NEW n \in Rest(X, p) PROVE n[1] \in Write(V, p, W)
  BY Zenon DEF Rest, Write
<1>2. ASSUME NEW n \in G PROVE p \o n[1] \in Write(V, p, W) /\ <<p \o n[1], n[2]>>[1] = p \o n[1]
  <2>1. p \o n[1] \in Write(V, p, W)
    BY Zenon DEF Write
  <2>2. QED
    BY <2>1
<1>3. L \subseteq Write(V, p, W)
  BY <1>1, <1>2, Zenon DEF Grafted, Under
<1>4. ASSUME NEW n \in X, ~IsPrefix(p, n[1]) PROVE n[1] \in L
  BY <1>4, Zenon DEF Grafted, Rest
<1>5. ASSUME NEW n \in G PROVE p \o n[1] \in L
  <2>1. <<p \o n[1], n[2]>> \in Grafted(X, p, G) /\ <<p \o n[1], n[2]>>[1] = p \o n[1]
    BY <1>2, Zenon DEF Grafted, Under
  <2>2. QED
    BY <2>1, Zenon
<1>6. Write(V, p, W) \subseteq L
  BY <1>4, <1>5, Zenon DEF Write
<1>7. QED
  BY <1>3, <1>6, Zenon

-----------------------------------------------------------------------------
(* What the steps do to the trees of the variables *)

(* A cell of a variable's tree has a field that is the place a path leads to, only if the path goes by it. *)
LEMMA FieldsOnTheWay ==
  ASSUME TypeOK, Forest, NEW o \in Slot, NEW q \in Seq(Field), NEW y, Leads(Nodes(o), o, q, y),
         NEW x \in Slot, NEW u \in Seq(Field), NEW d \in Cell, NEW f \in Field,
         <<u, d>> \in Nodes(x), y = <<d, f>>
  PROVE  x = o /\ q = Append(u, f)
<1>1. y # o
  BY PlacesApart
<1>2. PICK r \in Seq(Field), e \in Cell, g \in Field :
        q = Append(r, g) /\ <<r, e>> \in Nodes(o) /\ y = <<e, g>>
  BY <1>1, Zenon DEF Leads
<1>3. e = d /\ g = f
  BY <1>2
<1>4. x = o /\ r = u
  BY <1>2, <1>3 DEF Forest
<1>5. QED
  BY <1>2, <1>3, <1>4

(* A path leads to one place. *)
LEMMA LeadsOnce ==
  ASSUME TypeOK, Forest, NEW o \in Slot, NEW q \in Seq(Field), NEW t, NEW y,
         Leads(Nodes(o), o, q, t), Leads(Nodes(o), o, q, y)
  PROVE  t = y
<1>1. CASE q = <<>>
  <2>1. \A r \in Seq(Field), f \in Field : Append(r, f) # <<>>
    BY EndsOfAppend
  <2>2. QED
    BY <1>1, <2>1, Zenon DEF Leads
<1>2. CASE q # <<>>
  <2>1. PICK r \in Seq(Field), d \in Cell, f \in Field :
          q = Append(r, f) /\ <<r, d>> \in Nodes(o) /\ t = <<d, f>>
    BY <1>2, Zenon DEF Leads
  <2>2. PICK v \in Seq(Field), e \in Cell, g \in Field :
          q = Append(v, g) /\ <<v, e>> \in Nodes(o) /\ y = <<e, g>>
    BY <1>2, Zenon DEF Leads
  <2>3. r = v /\ f = g
    <3>1. Append(r, f) = Append(v, g)
      BY <2>1, <2>2
    <3>2. QED
      BY <3>1, AppendInjective
  <2>4. d = e
    BY <2>1, <2>2, <2>3, OneCell DEF Forest
  <2>5. QED
    BY <2>1, <2>2, <2>3, <2>4
<1>3. QED
  BY <1>1, <1>2

LEMMA LeadsSomewhere ==
  ASSUME NEW o \in Slot, NEW q \in Seq(Field), NEW y, Leads(Nodes(o), o, q, y)
  PROVE  y \in Place /\ (y \in Slot => y = o /\ q = <<>>)
<1>1. CASE q = <<>> /\ y = o
  BY <1>1, PlacesApart
<1>2. CASE \E r \in Seq(Field), d \in Cell, f \in Field :
             q = Append(r, f) /\ <<r, d>> \in Nodes(o) /\ y = <<d, f>>
  BY <1>2, PlacesApart
<1>3. QED
  BY <1>1, <1>2, Zenon DEF Leads

(* What is left of the tree of x when the tree at path q in that of o has been taken away. *)
Taken(x, o, q) == IF x = o THEN Rest(Nodes(x), q) ELSE Nodes(x)

(* The Box at t takes the pointer of the one at y. *)
Moved(t, y) == ptr' = [ptr EXCEPT ![t] = ptr[y], ![y] = Null]

LEMMA MovedTrees ==
  ASSUME TypeOK, Forest, Forest', NEW s \in Slot, NEW o \in Slot,
         NEW p \in Seq(Field), NEW q \in Seq(Field), NEW t, NEW y,
         Leads(Nodes(s), s, p, t), Leads(Nodes(o), o, q, y),
         t # y, ~Overlap(s, p, o, q),
         Moved(t, y)
  PROVE  \A x \in Slot : Nodes(x)' = IF x = s THEN Grafted(Taken(x, o, q), p, Nodes(y))
                                              ELSE Taken(x, o, q)
<1>0. \A x \in Slot : x \in Place /\ x \notin Cell \X Field /\ \A d, f : x = <<d, f>> => d \notin Cell \/ f \notin Field
  BY PlacesApart
<1>1. t \in Place /\ y \in Place /\ (t \in Slot => t = s) /\ (y \in Slot => y = o)
  BY LeadsSomewhere
<1>2. s = o => ~IsPrefix(q, p) /\ ~IsPrefix(p, q)
  <2>1. s = o => p # q
    BY LeadsOnce
  <2>2. QED
    BY <2>1 DEF Overlap
<1>3. PICK P : P = [ptr EXCEPT ![y] = Null]
  OBVIOUS
<1>4. \A x \in Place : P[x] = IF x = y THEN Null ELSE ptr[x]
  BY <1>1, <1>3 DEF TypeOK
<1>5. PICK Q : Q = ptr'
  OBVIOUS
<1>6. \A x \in Place : Q[x] = IF x = y THEN Null ELSE IF x = t THEN ptr[y] ELSE ptr[x]
  BY <1>1, <1>5 DEF TypeOK, Moved
<1>7. \A x \in Slot : Nodes(x) \subseteq Seq(Field) \X Cell /\ Hangs(Nodes(x), ptr, x)
  BY DEF Forest, Hangs
(* First the tree is taken away. *)
<1>8. \A x \in Slot : Hangs(Taken(x, o, q), P, x)
  <2> SUFFICES ASSUME NEW x \in Slot PROVE Hangs(Taken(x, o, q), P, x)
    OBVIOUS
  <2>1. CASE x = o
    <3>1. Hangs({}, P, y)
      <4>1. \A c \in Cell : c # P[y]
        BY <1>1, <1>4, BoxAssumption
      <4>2. QED
        BY <4>1, Zenon DEF Hangs, ChildOf
    <3>2. o # y => P[o] = ptr[o]
      BY <1>0, <1>4
    <3>3. \A u \in Seq(Field), d \in Cell, f \in Field :
            <<u, d>> \in Nodes(o) /\ <<d, f>> # y => P[<<d, f>>] = ptr[<<d, f>>]
      BY <1>4, PlacesApart
    <3>4. Hangs(Grafted(Nodes(o), q, {}), P, o)
      <4>1. \A u, w \in Seq(Field), c \in Cell : <<u, c>> \in Nodes(o) /\ <<w, c>> \in Nodes(o) => u = w
        BY DEF Forest
      <4>2. QED
        BY <1>0, <1>7, <3>1, <3>2, <3>3, <4>1, Grafting
    <3>5. Grafted(Nodes(o), q, {}) = Rest(Nodes(o), q)
      BY DEF Grafted, Under
    <3>6. QED
      BY <2>1, <3>4, <3>5 DEF Taken
  <2>2. CASE x # o
    <3>1. P[x] = ptr[x]
      BY <1>0, <1>1, <1>4, <2>2
    <3>2. ASSUME NEW u \in Seq(Field), NEW d \in Cell, NEW f \in Field, <<u, d>> \in Nodes(x)
          PROVE  P[<<d, f>>] = ptr[<<d, f>>]
      <4>1. <<d, f>> # y
        BY <2>2, <3>2, FieldsOnTheWay
      <4>2. QED
        BY <1>4, <4>1, PlacesApart
    <3>3. Hangs(Nodes(x), P, x)
      BY <1>7, <3>1, <3>2, Rehung
    <3>4. QED
      BY <2>2, <3>3 DEF Taken
  <2>3. QED
    BY <2>1, <2>2
<1>9. \A x \in Slot : Taken(x, o, q) \subseteq Nodes(x)
  BY DEF Taken, Rest
(* It hangs from t as it did from y. *)
<1>10. Hangs(Nodes(y), Q, t)
  <2>1. /\ Hangs(Nodes(y), ptr, y)
        /\ \A a \in Seq(Field), c \in Cell : <<a, c>> \in Nodes(y) => <<q \o a, c>> \in Nodes(o)
    BY <1>1, SubTree
  <2>2. Q[t] = ptr[y]
    BY <1>1, <1>6
  <2>3. ASSUME NEW a \in Seq(Field), NEW d \in Cell, NEW f \in Field, <<a, d>> \in Nodes(y)
        PROVE  Q[<<d, f>>] = ptr[<<d, f>>]
    <3>1. PICK u \in Seq(Field) : u = q \o a
      BY ConcatProperties
    <3>2. <<u, d>> \in Nodes(o) /\ Append(u, f) \in Seq(Field)
      BY <2>1, <2>3, <3>1, EndsOfAppend
    <3>3. IsPrefix(q, Append(u, f)) /\ Append(u, f) # q
      BY <3>1, PrefixAndRest, PrefixAppend
    <3>4. <<d, f>> # t
      <4>1. SUFFICES ASSUME t = <<d, f>> PROVE FALSE
        OBVIOUS
      <4>2. o = s /\ p = Append(u, f)
        BY <3>2, <4>1, FieldsOnTheWay
      <4>3. QED
        BY <1>2, <3>3, <4>2
    <3>5. <<d, f>> # y
      <4>1. SUFFICES ASSUME y = <<d, f>> PROVE FALSE
        OBVIOUS
      <4>2. q = Append(u, f)
        BY <3>2, <4>1, FieldsOnTheWay
      <4>3. QED
        BY <3>3, <4>2
    <3>6. QED
      BY <1>6, <3>4, <3>5, PlacesApart
  <2>4. QED
    BY <2>1, <2>2, <2>3, Rehung
(* Then it is hung up there. *)
<1>11. Hangs(Grafted(Taken(s, o, q), p, Nodes(y)), Q, s)
  <2>1. Leads(Taken(s, o, q), s, p, t)
    <3>1. CASE p = <<>> /\ t = s
      BY <3>1, Zenon DEF Leads
    <3>2. CASE \E r \in Seq(Field), d \in Cell, f \in Field :
                 p = Append(r, f) /\ <<r, d>> \in Nodes(s) /\ t = <<d, f>>
      <4>1. PICK r \in Seq(Field), d \in Cell, f \in Field :
              p = Append(r, f) /\ <<r, d>> \in Nodes(s) /\ t = <<d, f>>
        BY <3>2, Zenon
      <4>2. s = o => ~IsPrefix(q, r)
        BY <1>2, <4>1, PrefixAppend
      <4>3. <<r, d>>[1] = r
        OBVIOUS
      <4>4. <<r, d>> \in Taken(s, o, q)
        BY <4>1, <4>2, <4>3, Zenon DEF Taken, Rest
      <4>5. QED
        BY <4>1, <4>4, Zenon DEF Leads
    <3>3. QED
      BY <3>1, <3>2, Zenon DEF Leads
  <2>2. \A u, w \in Seq(Field), c \in Cell :
          <<u, c>> \in Taken(s, o, q) /\ <<w, c>> \in Taken(s, o, q) => u = w
    BY <1>9 DEF Forest
  <2>3. s # t => Q[s] = P[s]
    BY <1>0, <1>4, <1>6
  <2>4. \A u \in Seq(Field), d \in Cell, f \in Field :
          <<u, d>> \in Taken(s, o, q) /\ <<d, f>> # t => Q[<<d, f>>] = P[<<d, f>>]
    BY <1>4, <1>6, PlacesApart
  <2>5. Hangs(Taken(s, o, q), P, s)
    BY <1>8
  <2>6. QED
    BY <1>0, <1>10, <2>1, <2>2, <2>3, <2>4, <2>5, Grafting
<1>12. ASSUME NEW x \in Slot, x # s PROVE Hangs(Taken(x, o, q), Q, x)
  <2>1. Q[x] = P[x]
    BY <1>0, <1>1, <1>4, <1>6, <1>12
  <2>2. ASSUME NEW u \in Seq(Field), NEW d \in Cell, NEW f \in Field, <<u, d>> \in Taken(x, o, q)
        PROVE  Q[<<d, f>>] = P[<<d, f>>]
    <3>1. <<u, d>> \in Nodes(x)
      BY <1>9, <2>2
    <3>2. <<d, f>> # t
      BY <1>12, <3>1, FieldsOnTheWay
    <3>3. QED
      BY <1>4, <1>6, <3>2, PlacesApart
  <2>3. Hangs(Taken(x, o, q), P, x)
    BY <1>8
  <2>4. QED
    BY <2>1, <2>2, <2>3, Rehung
<1>13. \A x \in Slot : Hangs(Nodes(x)', Q, x)
  BY <1>5 DEF Forest
<1>14. QED
  BY <1>11, <1>12, <1>13, HangsOnce

(* The copies of the nodes at y, in the cells g. *)
Copies(y, g) == {<<a, g[a]>> : a \in Tree(y)}

LEMMA CopiesOf ==
  ASSUME TypeOK, NEW y \in Place, NEW g \in Injection(Tree(y), Free)
  PROVE  /\ Copies(y, g) \subseteq Seq(Field) \X Cell
         /\ \A a \in Seq(Field), c \in Cell : <<a, c>> \in Copies(y, g) <=> a \in Tree(y) /\ c = g[a]
         /\ {n[1] : n \in Copies(y, g)} = Tree(y)
<1>1. \A a \in Tree(y) : a \in Seq(Field) /\ g[a] \in Cell
  BY TreeFacts DEF Injection, IsInjective, Free
<1>2. \A a \in Tree(y) : <<a, g[a]>>[1] = a
  OBVIOUS
<1>3. {n[1] : n \in Copies(y, g)} = Tree(y)
  BY <1>2, Zenon DEF Copies
<1>4. \A a \in Seq(Field), c \in Cell : <<a, c>> \in Copies(y, g) <=> a \in Tree(y) /\ c = g[a]
  BY DEF Copies
<1>5. QED
  BY <1>1, <1>3, <1>4 DEF Copies

(* A part of a tree that is there has a part above it that is there. *)
LEMMA TreesHaveStems ==
  ASSUME TypeOK, NEW y \in Place, NEW a \in Seq(Field), NEW f \in Field, Append(a, f) \in Tree(y)
  PROVE  a \in Tree(y)
<1>1. Append(a, f) \in Seq(Field) /\ Append(a, f) # <<>>
  BY EndsOfAppend
<1>2. PICK c \in Cell : <<Append(a, f), c>> \in Nodes(y)
  BY TreeFacts
<1>3. Above(y, Append(a, f), c)
  BY <1>1, <1>2, NodeAbove
<1>4. PICK r \in Seq(Field), h \in Field, d \in Cell : Append(a, f) = Append(r, h) /\ <<r, d>> \in Nodes(y)
  BY <1>3, Zenon DEF Above
<1>5. a = r
  BY <1>4, AppendInjective
<1>6. QED
  BY <1>4, <1>5, TreeFacts

(* The copy hangs from the place it is given to. *)
LEMMA CopyHangs ==
  ASSUME TypeOK, NEW t \in Place, NEW y \in Place, NEW g \in Injection(Tree(y), Free),
         t \in Slot \/ heap[t[1]] # "free",
         NEW Q, Q = Copied(t, y, g)
  PROVE  /\ Hangs(Copies(y, g), Q, t)
         /\ \A x \in Place : x # t /\ (x \in Slot \/ heap[x[1]] # "free") => Q[x] = ptr[x]
<1>1. g \in [Tree(y) -> Free] /\ \A a, b \in Tree(y) : g[a] = g[b] => a = b
  BY DEF Injection, IsInjective
<1>2. \A a \in Tree(y) : a \in Seq(Field) /\ g[a] \in Cell /\ heap[g[a]] = "free"
  BY <1>1, TreeFacts DEF Free
<1> DEFINE Link(a) == IF a \in Tree(y) THEN g[a] ELSE Null
<1>3. \A x \in Place :
         Q[x] = IF x = t THEN Link(<<>>)
                ELSE IF \E a \in Tree(y), f \in Field : x = <<g[a], f>>
                  THEN Link(Append(CHOOSE a \in Tree(y) : g[a] = x[1], x[2]))
                  ELSE ptr[x]
  BY Zenon DEF Copied
<1>4. Q[t] = Link(<<>>)
  BY <1>3, Zenon
<1>5. ASSUME NEW a \in Tree(y), NEW f \in Field
      PROVE  Q[<<g[a], f>>] = Link(Append(a, f))
  <2> DEFINE x == <<g[a], f>>
  <2>1. x \in Place /\ x \notin Slot /\ x[1] = g[a] /\ x[2] = f
    BY <1>2, PlacesApart
  <2>2. x # t
    BY <1>2, <2>1
  <2> DEFINE r == CHOOSE b \in Tree(y) : g[b] = x[1]
  <2>3. r \in Tree(y) /\ g[r] = x[1]
    BY <2>1
  <2>4. r = a
    BY <1>1, <2>1, <2>3
  <2>5. \E b \in Tree(y), h \in Field : x = <<g[b], h>>
    OBVIOUS
  <2>6. Q[x] = Link(Append(r, x[2]))
    BY <1>3, <2>1, <2>2, <2>5, Zenon
  <2>7. QED
    BY <2>1, <2>4, <2>6, Zenon
<1>6. ASSUME NEW x \in Place, x # t, x \in Slot \/ heap[x[1]] # "free"
      PROVE  Q[x] = ptr[x]
  <2>1. ~\E a \in Tree(y), f \in Field : x = <<g[a], f>>
    <3>1. SUFFICES ASSUME NEW a \in Tree(y), NEW f \in Field, x = <<g[a], f>> PROVE FALSE
      OBVIOUS
    <3>2. x \notin Slot /\ x[1] = g[a]
      BY <1>2, <3>1, PlacesApart
    <3>3. QED
      BY <1>2, <1>6, <3>2
  <2>2. QED
    BY <1>3, <1>6, <2>1, Zenon
<1>7. /\ Copies(y, g) \subseteq Seq(Field) \X Cell
      /\ \A a \in Seq(Field), c \in Cell : <<a, c>> \in Copies(y, g) <=> a \in Tree(y) /\ c = g[a]
  BY CopiesOf
<1>8. \A c \in Cell : <<<<>>, c>> \in Copies(y, g) <=> c = Q[t]
  <2>1. <<>> \in Seq(Field)
    OBVIOUS
  <2>2. \A c \in Cell : <<<<>>, c>> \in Copies(y, g) <=> <<>> \in Tree(y) /\ c = g[<<>>]
    BY <1>7, <2>1, Zenon
  <2>3. QED
    BY <1>4, <2>2, BoxAssumption
<1>9. ASSUME NEW a \in Seq(Field), NEW f \in Field, NEW c \in Cell
      PROVE  <<Append(a, f), c>> \in Copies(y, g) <=> ChildOf(Copies(y, g), Q, a, f, c)
  <2>0. Append(a, f) \in Seq(Field)
    BY EndsOfAppend
  <2>1. <<Append(a, f), c>> \in Copies(y, g) <=> Append(a, f) \in Tree(y) /\ c = g[Append(a, f)]
    BY <1>7, <2>0
  <2>2. CASE a \in Tree(y)
    <3>1. \A d \in Cell : <<a, d>> \in Copies(y, g) <=> d = g[a]
      BY <1>7, <2>2
    <3>2. ChildOf(Copies(y, g), Q, a, f, c) <=> c = Q[<<g[a], f>>]
      BY <1>2, <2>2, <3>1, Zenon DEF ChildOf
    <3>3. c = Q[<<g[a], f>>] <=> Append(a, f) \in Tree(y) /\ c = g[Append(a, f)]
      BY <1>5, <2>2, BoxAssumption
    <3>4. QED
      BY <2>1, <3>2, <3>3
  <2>3. CASE a \notin Tree(y)
    <3>1. \A d \in Cell : <<a, d>> \notin Copies(y, g)
      BY <1>7, <2>3
    <3>2. ~ChildOf(Copies(y, g), Q, a, f, c)
      BY <3>1, Zenon DEF ChildOf
    <3>3. Append(a, f) \notin Tree(y)
      BY <2>3, TreesHaveStems
    <3>4. QED
      BY <2>1, <3>2, <3>3
  <2>4. QED
    BY <2>2, <2>3
<1>10. Hangs(Copies(y, g), Q, t)
  BY <1>7, <1>8, <1>9, Zenon DEF Hangs
<1>11. QED
  BY <1>6, <1>10

(* A cell that is in a tree is not free. *)
LEMMA NodesAreNotFree ==
  ASSUME TypeOK, FreeIsUntouched, NEW x \in Place
  PROVE  \A u \in Seq(Field), d \in Cell : <<u, d>> \in Nodes(x) => heap[d] # "free"
<1> SUFFICES ASSUME NEW u \in Seq(Field), NEW d \in Cell, <<u, d>> \in Nodes(x)
             PROVE  heap[d] # "free"
  OBVIOUS
<1>1. \E z \in Place : d = ptr[z]
  <2>1. CASE u = <<>>
    BY <2>1, NodeRoot
  <2>2. CASE u # <<>>
    <3>1. Above(x, u, d)
      BY <2>2, NodeAbove
    <3>2. PICK e \in Cell, f \in Field : d = ptr[<<e, f>>]
      BY <3>1, Zenon DEF Above
    <3>3. QED
      BY <3>2, PlacesApart
  <2>3. QED
    BY <2>1, <2>2
<1>2. QED
  BY <1>1 DEF FreeIsUntouched

LEMMA CopiedTrees ==
  ASSUME TypeOK, FreeIsUntouched, Forest, Forest', NEW s \in Slot, NEW p \in Seq(Field), NEW t,
         Leads(Nodes(s), s, p, t),
         NEW y \in Place, NEW g \in Injection(Tree(y), Free),
         ptr' = Copied(t, y, g)
  PROVE  \A x \in Slot : Nodes(x)' = IF x = s THEN Grafted(Nodes(x), p, Copies(y, g)) ELSE Nodes(x)
<1>0. \A x \in Slot : x \in Place /\ x \notin Cell \X Field
  BY PlacesApart
<1>1. t \in Place /\ (t \in Slot => t = s)
  BY LeadsSomewhere
<1>2. \A x \in Slot, u \in Seq(Field), d \in Cell : <<u, d>> \in Nodes(x) => heap[d] # "free"
  BY <1>0, NodesAreNotFree
<1>3. t \in Slot \/ heap[t[1]] # "free"
  <2>1. CASE t = s
    BY <2>1
  <2>2. CASE t # s
    <3>1. PICK r \in Seq(Field), d \in Cell, f \in Field : <<r, d>> \in Nodes(s) /\ t = <<d, f>>
      BY <2>2, Zenon DEF Leads
    <3>2. t[1] = d
      BY <3>1
    <3>3. QED
      BY <1>2, <3>1, <3>2
  <2>3. QED
    BY <2>1, <2>2
<1>4. PICK Q : Q = ptr'
  OBVIOUS
<1>5. /\ Hangs(Copies(y, g), Q, t)
      /\ \A x \in Place : x # t /\ (x \in Slot \/ heap[x[1]] # "free") => Q[x] = ptr[x]
  BY <1>1, <1>3, <1>4, CopyHangs
<1>6. ASSUME NEW x \in Slot, NEW u \in Seq(Field), NEW d \in Cell, NEW f \in Field,
             <<u, d>> \in Nodes(x), <<d, f>> # t
      PROVE  Q[<<d, f>>] = ptr[<<d, f>>]
  <2>1. <<d, f>> \in Place /\ <<d, f>>[1] = d /\ heap[d] # "free"
    BY <1>2, <1>6, PlacesApart
  <2>2. QED
    BY <1>5, <1>6, <2>1
<1>7. Hangs(Grafted(Nodes(s), p, Copies(y, g)), Q, s)
  <2>1. Hangs(Nodes(s), ptr, s) /\
        \A u, w \in Seq(Field), c \in Cell : <<u, c>> \in Nodes(s) /\ <<w, c>> \in Nodes(s) => u = w
    BY DEF Forest
  <2>2. s # t => Q[s] = ptr[s]
    BY <1>0, <1>5
  <2>3. QED
    BY <1>0, <1>5, <1>6, <2>1, <2>2, Grafting
<1>8. ASSUME NEW x \in Slot, x # s PROVE Hangs(Nodes(x), Q, x)
  <2>1. Q[x] = ptr[x]
    BY <1>0, <1>1, <1>5, <1>8
  <2>2. ASSUME NEW u \in Seq(Field), NEW d \in Cell, NEW f \in Field, <<u, d>> \in Nodes(x)
        PROVE  Q[<<d, f>>] = ptr[<<d, f>>]
    <3>1. <<d, f>> # t
      BY <1>8, <2>2, FieldsOnTheWay
    <3>2. QED
      BY <1>6, <2>2, <3>1
  <2>3. Hangs(Nodes(x), ptr, x)
    BY DEF Forest
  <2>4. QED
    BY <2>1, <2>2, <2>3, Rehung
<1>9. \A x \in Slot : Hangs(Nodes(x)', Q, x)
  BY <1>4 DEF Forest
<1>10. QED
  BY <1>7, <1>8, <1>9, HangsOnce

-----------------------------------------------------------------------------
(* The values the variables have *)

(* Reading a value at a path gives the tree that is there. *)
LEMMA ReadTree ==
  ASSUME TypeOK, Forest, NEW o \in Slot, NEW q \in Seq(Field), NEW y, Leads(Nodes(o), o, q, y)
  PROVE  Read(Tree(o), q) = Tree(y)
<1>1. o \in Place /\ y \in Place
  BY PlacesApart, LeadsSomewhere
<1>2. \A a \in Seq(Field), c \in Cell : <<a, c>> \in Nodes(y) <=> <<q \o a, c>> \in Nodes(o)
  BY <1>1, SubTree
<1>3. OnePath(o)
  BY DEF Forest, OnePath
<1>4. ASSUME NEW a \in Tree(y) PROVE a \in Read(Tree(o), q)
  <2>1. PICK c \in Cell : <<a, c>> \in Nodes(y)
    BY <1>1, TreeFacts
  <2>2. a \in Seq(Field)
    BY <1>1, TreeFacts
  <2>3. PICK u \in Seq(Field) : u = q \o a /\ Len(u) = Len(q) + Len(a)
    BY <2>2, ConcatProperties
  <2>4. <<u, c>> \in Nodes(o)
    BY <1>2, <2>1, <2>2, <2>3
  <2>5. Len(u) < Cardinality(Cell) /\ u \in Tree(o)
    BY <1>1, <1>3, <2>4, PathsAreShort, TreeFacts
  <2>6. Len(a) \in Nat /\ Len(q) \in Nat /\ Cardinality(Cell) \in Nat
    BY <2>2, LenProperties, BoxAssumption, FS_CardinalityType
  <2>7. Len(a) \in 0 .. Cardinality(Cell)
    BY <2>3, <2>5, <2>6
  <2>8. a \in [1 .. Len(a) -> Field]
    BY <2>2, LenProperties
  <2>9. a \in Path
    BY <2>7, <2>8, Zenon DEF Path
  <2>10. QED
    BY <2>3, <2>5, <2>9, Zenon DEF Read
<1>5. ASSUME NEW a \in Read(Tree(o), q) PROVE a \in Tree(y)
  <2>1. a \in Path /\ q \o a \in Tree(o)
    BY Zenon DEF Read
  <2>2. a \in Seq(Field)
    BY <2>1, PathsAreSequences
  <2>3. PICK c \in Cell : <<q \o a, c>> \in Nodes(o)
    BY <1>1, <2>1, TreeFacts
  <2>4. <<a, c>> \in Nodes(y)
    BY <1>2, <2>2, <2>3
  <2>5. QED
    BY <1>1, <2>4, TreeFacts
<1>6. QED
  BY <1>4, <1>5, Zenon

(* The value each variable was given is its tree. *)
ValuesHeld == \A s \in Slot : value[s] = IF ptr[s] = Absent THEN Absent ELSE Tree(s)

(* What writing a tree at a path makes of a variable's tree. *)
LEMMA TreeOfGrafted ==
  ASSUME NEW X \in SUBSET (Seq(Field) \X Cell), NEW G \in SUBSET (Seq(Field) \X Cell),
         NEW p \in Seq(Field), NEW x, Nodes(x)' = Grafted(X, p, G)
  PROVE  Tree(x)' = Write({n[1] : n \in X}, p, {n[1] : n \in G})
<1>1. Tree(x)' = {n[1] : n \in Nodes(x)'}
  BY DEF Tree
<1>2. QED
  BY <1>1, PathsOfGrafted

LEMMA TreeOfRest ==
  ASSUME NEW X \in SUBSET (Seq(Field) \X Cell), NEW q \in Seq(Field)
  PROVE  {n[1] : n \in Rest(X, q)} = Write({n[1] : n \in X}, q, {})
<1>1. Grafted(X, q, {}) = Rest(X, q)
  BY DEF Grafted, Under
<1>2. PICK G : G = {}
  OBVIOUS
<1>3. {n[1] : n \in Grafted(X, q, G)} = Write({n[1] : n \in X}, q, {n[1] : n \in G})
  <2>1. G \in SUBSET (Seq(Field) \X Cell)
    BY <1>2
  <2>2. QED
    BY <2>1, PathsOfGrafted
<1>4. {n[1] : n \in G} = {}
  BY <1>2
<1>5. QED
  BY <1>1, <1>2, <1>3, <1>4, Zenon

(* Writing somewhere in nothing, or at the root, gives what is written. *)
LEMMA WriteRoot ==
  ASSUME NEW w \in SUBSET Seq(Field)
  PROVE  Write({}, <<>>, w) = w
<1>1. \A a \in w : <<>> \o a = a
  BY ConcatEmptySeq
<1>2. QED
  BY <1>1, Zenon DEF Write

LEMMA MovedValues ==
  ASSUME TypeOK, Forest, Forest', ValuesHeld, NEW s \in Slot, NEW o \in Slot,
         NEW p \in Seq(Field), NEW q \in Seq(Field), NEW t, NEW y,
         Leads(Nodes(s), s, p, t), Leads(Nodes(o), o, q, y),
         t # y, ~Overlap(s, p, o, q),
         Moved(t, y)
  PROVE  \A x \in Slot :
            Tree(x)' = LET rest == IF x = o THEN Write(Tree(x), q, {}) ELSE Tree(x)
                       IN  IF x = s THEN Write(rest, p, Read(Tree(o), q)) ELSE rest
<1>1. \A x \in Slot : Nodes(x)' = IF x = s THEN Grafted(Taken(x, o, q), p, Nodes(y))
                                            ELSE Taken(x, o, q)
  BY MovedTrees
<1>2. y \in Place /\ \A x \in Slot : x \in Place
  BY LeadsSomewhere, PlacesApart
<1>3. Nodes(y) \in SUBSET (Seq(Field) \X Cell) /\ \A x \in Slot : Nodes(x) \in SUBSET (Seq(Field) \X Cell)
  BY <1>2, NodeFacts
<1>4. ASSUME NEW x \in Slot
      PROVE  /\ Taken(x, o, q) \in SUBSET (Seq(Field) \X Cell)
             /\ {n[1] : n \in Taken(x, o, q)} = IF x = o THEN Write(Tree(x), q, {}) ELSE Tree(x)
  <2>1. CASE x = o
    <3>1. Taken(x, o, q) = Rest(Nodes(x), q) /\ Rest(Nodes(x), q) \subseteq Nodes(x)
      BY <2>1 DEF Taken, Rest
    <3>2. {n[1] : n \in Rest(Nodes(x), q)} = Write(Tree(x), q, {})
      BY <1>3, TreeOfRest DEF Tree
    <3>3. QED
      BY <1>3, <2>1, <3>1, <3>2
  <2>2. CASE x # o
    BY <1>3, <2>2 DEF Taken, Tree
  <2>3. QED
    BY <2>1, <2>2
<1>5. {n[1] : n \in Nodes(y)} = Read(Tree(o), q)
  BY ReadTree DEF Tree
<1>6. ASSUME NEW x \in Slot
      PROVE  Tree(x)' = LET rest == IF x = o THEN Write(Tree(x), q, {}) ELSE Tree(x)
                        IN  IF x = s THEN Write(rest, p, Read(Tree(o), q)) ELSE rest
  <2>1. CASE x = s
    <3>1. Tree(x)' = Write({n[1] : n \in Taken(x, o, q)}, p, {n[1] : n \in Nodes(y)})
      <4>1. Nodes(x)' = Grafted(Taken(x, o, q), p, Nodes(y))
        BY <1>1, <2>1
      <4>2. Taken(x, o, q) \in SUBSET (Seq(Field) \X Cell)
        BY <1>4
      <4>3. QED
        BY <1>3, <4>1, <4>2, TreeOfGrafted, ZenonT(60)
    <3>2. QED
      BY <1>4, <1>5, <2>1, <3>1, Zenon
  <2>2. CASE x # s
    <3>1. Tree(x)' = {n[1] : n \in Nodes(x)'}
      BY DEF Tree
    <3>2. Nodes(x)' = Taken(x, o, q)
      BY <1>1, <2>2
    <3>3. QED
      BY <1>4, <2>2, <3>1, <3>2
  <2>3. QED
    BY <2>1, <2>2
<1>7. QED
  BY <1>6

LEMMA CopiedValues ==
  ASSUME TypeOK, FreeIsUntouched, Forest, Forest', NEW s \in Slot, NEW o \in Slot,
         NEW p \in Seq(Field), NEW q \in Seq(Field), NEW t, NEW y,
         Leads(Nodes(s), s, p, t), Leads(Nodes(o), o, q, y),
         NEW g \in Injection(Tree(y), Free), ptr' = Copied(t, y, g)
  PROVE  \A x \in Slot : Tree(x)' = IF x = s THEN Write(Tree(x), p, Read(Tree(o), q)) ELSE Tree(x)
<1>1. y \in Place /\ \A x \in Slot : x \in Place
  BY LeadsSomewhere, PlacesApart
<1>2. \A x \in Slot : Nodes(x)' = IF x = s THEN Grafted(Nodes(x), p, Copies(y, g)) ELSE Nodes(x)
  BY <1>1, CopiedTrees
<1>3. Copies(y, g) \in SUBSET (Seq(Field) \X Cell) /\ {n[1] : n \in Copies(y, g)} = Tree(y)
  BY <1>1, CopiesOf
<1>4. ASSUME NEW x \in Slot
      PROVE  Tree(x)' = IF x = s THEN Write(Tree(x), p, Read(Tree(o), q)) ELSE Tree(x)
  <2>1. CASE x = s
    <3>1. Nodes(x) \in SUBSET (Seq(Field) \X Cell)
      BY <1>1, NodeFacts
    <3>2. Tree(x)' = Write({n[1] : n \in Nodes(x)}, p, {n[1] : n \in Copies(y, g)})
      BY <1>2, <1>3, <2>1, <3>1, TreeOfGrafted
    <3>3. QED
      BY <1>3, <2>1, <3>2, ReadTree DEF Tree
  <2>2. CASE x # s
    <3>1. Nodes(x)' = Nodes(x)
      BY <1>2, <2>2
    <3>2. QED
      BY <2>2, <3>1 DEF Tree
  <2>3. QED
    BY <2>1, <2>2
<1>5. QED
  BY <1>4

-----------------------------------------------------------------------------
(* Each step keeps the values and owners of the cells *)

(* The places that an assignment under way is from and to. *)
HalfWay(s, p, o, q) ==
  /\ ptr[s] # Absent /\ ptr[o] # Absent
  /\ Leads(Nodes(s), s, p, assigning.to) /\ Leads(Nodes(o), o, q, assigning.from)
  /\ ~Overlap(s, p, o, q)
  /\ assigning.due = Assigned(assigning.kind, s, p, o, q)
  /\ \A c \in CellsOf(assigning.to) : heap[c] # "live"

Midway == ~Idle => \E s, o \in Slot : \E p, q \in Seq(Field) : HalfWay(s, p, o, q)

Held == Forest /\ ValuesHeld /\ NoLeak /\ Midway

LEMMA ForestAfter ==
  ASSUME IInv', Idle'
  PROVE  Forest'
<1>1. (AtRest => Forest)'
  BY ForestAtRest, PTL
<1>2. AtRest'
  BY DEF AtRest, IInv
<1>3. QED
  BY <1>1, <1>2

LEMMA InCells ==
  ASSUME NEW x, NEW u, NEW c, <<u, c>> \in Nodes(x)'
  PROVE  c \in CellsOf(x)'
<1>1. <<u, c>>[2] = c
  OBVIOUS
<1>2. QED
  BY <1>1, Zenon DEF CellsOf

LEMMA LiveIsReached ==
  ASSUME TypeOK, NoLeak, NEW c \in Cell, heap[c] = "live"
  PROVE  \E x \in Slot, u \in Seq(Field) : <<u, c>> \in Nodes(x)
<1>1. PICK x \in Slot : c \in CellsOf(x)
  BY DEF NoLeak
<1>2. x \in Place
  BY PlacesApart
<1>3. QED
  BY <1>1, <1>2, TreeFacts

(* Without a Box there is no tree. *)
LEMMA NoTree ==
  ASSUME TypeOK, NEW s \in Place, ptr[s] \notin Cell
  PROVE  Nodes(s) = {} /\ Tree(s) = {} /\ CellsOf(s) = {}
<1>1. Nodes(s) \subseteq Seq(Field) \X Cell
  BY NodeFacts
<1>2. \A q \in Seq(Field), c \in Cell : <<q, c>> \notin Nodes(s)
  BY Rooted
<1>3. Nodes(s) = {}
  BY <1>1, <1>2
<1>4. QED
  BY <1>3 DEF Tree, CellsOf

(* The trees of the variables when the pointer of one that had none is set. *)
LEMMA OtherTrees ==
  ASSUME TypeOK, Forest, Forest', NEW s \in Slot, \A x \in Place : x # s => ptr'[x] = ptr[x]
  PROVE  /\ \A x \in Slot : x # s => Nodes(x)' = Nodes(x)
         /\ ptr'[s] \notin Cell => Nodes(s)' = {}
<1>1. PICK Q : Q = ptr'
  OBVIOUS
<1>2. \A x \in Slot : Hangs(Nodes(x)', Q, x)
  BY <1>1 DEF Forest
<1>3. ASSUME NEW x \in Slot, x # s PROVE Nodes(x)' = Nodes(x)
  <2>1. Q[x] = ptr[x] /\ \A d \in Cell, f \in Field : Q[<<d, f>>] = ptr[<<d, f>>]
    BY <1>1, <1>3, PlacesApart
  <2>2. Hangs(Nodes(x), ptr, x)
    BY DEF Forest
  <2>3. Hangs(Nodes(x), Q, x)
    BY <2>1, <2>2, Rehung
  <2>4. QED
    BY <1>2, <2>3, HangsOnce
<1>4. ASSUME ptr'[s] \notin Cell PROVE Nodes(s)' = {}
  <2>1. Hangs({}, Q, s)
    <3>1. \A c \in Cell : c # Q[s]
      BY <1>1, <1>4
    <3>2. QED
      BY <3>1, Zenon DEF Hangs, ChildOf
  <2>2. QED
    BY <1>2, <2>1, HangsOnce
<1>5. QED
  BY <1>3, <1>4

LEMMA DefaultConstructKeeps ==
  ASSUME IInv, Held, IInv', NEW s \in Slot, DefaultConstruct(s)
  PROVE  Held'
<1>0. TypeOK /\ Forest /\ ValuesHeld /\ NoLeak
  BY DEF IInv, Held
<1>1. Idle' /\ s \in Place /\ ptr[s] = Absent /\ heap' = heap
  BY PlacesApart DEF DefaultConstruct, Idle
<1>2. Forest'
  BY <1>1, ForestAfter
<1>3. \A x \in Place : ptr'[x] = IF x = s THEN Null ELSE ptr[x]
  BY <1>0, <1>1 DEF DefaultConstruct, TypeOK
<1>4. \A x \in Slot : Nodes(x)' = Nodes(x)
  <2>1. Nodes(s) = {}
    BY <1>0, <1>1, NoTree, BoxAssumption
  <2>2. ptr'[s] \notin Cell
    BY <1>1, <1>3, BoxAssumption
  <2>3. QED
    BY <1>0, <1>2, <1>3, <2>1, <2>2, OtherTrees
<1>5. ValuesHeld'
  <2>1. \A x \in Slot : Tree(x)' = Tree(x)
    BY <1>4 DEF Tree
  <2>2. Tree(s) = {}
    BY <1>0, <1>1, NoTree, BoxAssumption
  <2>3. \A x \in Slot : value'[x] = IF x = s THEN {} ELSE value[x]
    BY <1>0 DEF DefaultConstruct, TypeOK
  <2>4. QED
    BY <1>0, <1>1, <1>3, <2>1, <2>2, <2>3, PlacesApart, BoxAssumption DEF ValuesHeld
<1>6. NoLeak'
  BY <1>0, <1>1, <1>4 DEF NoLeak, CellsOf
<1>7. QED
  BY <1>1, <1>2, <1>5, <1>6 DEF Held, Midway

LEMMA MakeBoxKeeps ==
  ASSUME IInv, Held, IInv', NEW s \in Slot, NEW c \in Cell, MakeBox(s, c)
  PROVE  Held'
<1>0. TypeOK /\ Forest /\ ValuesHeld /\ NoLeak
  BY DEF IInv, Held
<1>1. Idle' /\ s \in Place /\ ptr[s] = Absent /\ heap[c] = "free"
  BY PlacesApart DEF MakeBox, Idle, Free
<1>2. Forest'
  BY <1>1, ForestAfter
<1>3. \A x \in Place : ptr'[x] = IF x = s THEN c ELSE ptr[x]
  BY <1>0, <1>1 DEF MakeBox, TypeOK
<1>4. \A x \in Slot : x # s => Nodes(x)' = Nodes(x)
  BY <1>0, <1>2, <1>3, OtherTrees
<1>5. Nodes(s)' = {<<<<>>, c>>}
  <2>1. PICK Q : Q = ptr'
    OBVIOUS
  <2>2. Hangs({<<<<>>, c>>}, Q, s)
    <3>1. {<<<<>>, c>>} \subseteq Seq(Field) \X Cell
      <4>1. <<>> \in Seq(Field)
        BY EmptySeq
      <4>2. <<<<>>, c>> \in Seq(Field) \X Cell
        BY <4>1
      <4>3. QED
        BY <4>2, Zenon
    <3>2. \A d \in Cell : <<<<>>, d>> \in {<<<<>>, c>>} <=> d = Q[s]
      BY <1>1, <1>3, <2>1
    <3>3. ASSUME NEW q \in Seq(Field), NEW f \in Field, NEW d \in Cell
          PROVE  <<Append(q, f), d>> \in {<<<<>>, c>>} <=> ChildOf({<<<<>>, c>>}, Q, q, f, d)
      <4>1. Append(q, f) # <<>>
        BY EndsOfAppend
      <4>2. Q[<<c, f>>] = Null
        <5>1. ptr[<<c, f>>] = Null
          BY <1>1 DEF IInv, FreeIsUntouched
        <5>2. QED
          BY <1>3, <2>1, <5>1, PlacesApart
      <4>3. \A e \in Cell : <<q, e>> \in {<<<<>>, c>>} => e = c
        OBVIOUS
      <4>4. ~ChildOf({<<<<>>, c>>}, Q, q, f, d)
        BY <4>2, <4>3, BoxAssumption DEF ChildOf
      <4>5. <<Append(q, f), d>> \notin {<<<<>>, c>>}
        BY <4>1
      <4>6. QED
        BY <4>4, <4>5
    <3>4. QED
      BY <3>1, <3>2, <3>3, Zenon DEF Hangs
  <2>3. Hangs(Nodes(s)', Q, s)
    BY <1>2, <2>1 DEF Forest
  <2>4. QED
    BY <2>2, <2>3, HangsOnce
<1>6. ValuesHeld'
  <2>1. \A x \in Slot : x # s => Tree(x)' = Tree(x)
    BY <1>4 DEF Tree
  <2>2. Tree(s)' = {<<>>}
    BY <1>5 DEF Tree
  <2>3. \A x \in Slot : value'[x] = IF x = s THEN {<<>>} ELSE value[x]
    BY <1>0 DEF MakeBox, TypeOK
  <2>4. QED
    BY <1>0, <1>1, <1>3, <2>1, <2>2, <2>3, PlacesApart, BoxAssumption DEF ValuesHeld
<1>7. NoLeak'
  <2>1. \A x \in Slot : x # s => CellsOf(x)' = CellsOf(x)
    BY <1>4 DEF CellsOf
  <2>2. CellsOf(s) = {} /\ c \in CellsOf(s)'
    BY <1>0, <1>1, <1>5, NoTree, InCells, BoxAssumption
  <2>3. \A d \in Cell : heap'[d] = "live" => d = c \/ heap[d] = "live"
    BY <1>0 DEF MakeBox, TypeOK
  <2>4. QED
    BY <1>0, <2>1, <2>2, <2>3 DEF NoLeak
<1>8. QED
  BY <1>1, <1>2, <1>6, <1>7 DEF Held, Midway

LEMMA DestroyKeeps ==
  ASSUME IInv, Held, IInv', NEW s \in Slot, Destroy(s)
  PROVE  Held'
<1>0. TypeOK /\ Forest /\ ValuesHeld /\ NoLeak
  BY DEF IInv, Held
<1>1. Idle' /\ s \in Place
  BY PlacesApart DEF Destroy, Idle
<1>2. Forest'
  BY <1>1, ForestAfter
<1>3. \A x \in Place : ptr'[x] = IF x = s THEN Absent ELSE ptr[x]
  BY <1>0, <1>1 DEF Destroy, TypeOK
<1>4. \A x \in Slot : x # s => Nodes(x)' = Nodes(x)
  BY <1>0, <1>2, <1>3, OtherTrees
<1>5. ValuesHeld'
  <2>1. \A x \in Slot : x # s => Tree(x)' = Tree(x)
    BY <1>4 DEF Tree
  <2>2. \A x \in Slot : value'[x] = IF x = s THEN Absent ELSE value[x]
    BY <1>0 DEF Destroy, TypeOK
  <2>3. QED
    BY <1>0, <1>1, <1>3, <2>1, <2>2, PlacesApart DEF ValuesHeld
<1>6. NoLeak'
  <2>1. \A x \in Slot : x # s => CellsOf(x)' = CellsOf(x)
    BY <1>4 DEF CellsOf
  <2>2. \A d \in Cell : heap'[d] = "live" => d \notin CellsOf(s) /\ heap[d] = "live"
    BY DEF Destroy, Deleted
  <2>3. QED
    BY <1>0, <2>1, <2>2 DEF NoLeak
<1>7. QED
  BY <1>1, <1>2, <1>5, <1>6 DEF Held, Midway

(* What an assignment makes of the values. *)
LEMMA AssignedIs ==
  ASSUME value \in [Slot -> Value], NEW kind, NEW s \in Slot, NEW o \in Slot, NEW p, NEW q
  PROVE  \A x \in Slot :
           Assigned(kind, s, p, o, q)[x] =
             LET rest == IF kind # "copy" /\ x = o THEN Write(value[x], q, {}) ELSE value[x]
             IN  IF x = s THEN Write(rest, p, Read(value[o], q)) ELSE rest
  BY DEF Assigned

(* A tree that is moved is still somebody's, and what it takes the place of was nobody's. *)
LEMMA MovedOwners ==
  ASSUME TypeOK, Forest, Forest', NoLeak, NEW s \in Slot, NEW o \in Slot,
         NEW p \in Seq(Field), NEW q \in Seq(Field), NEW t, NEW y,
         Leads(Nodes(s), s, p, t), Leads(Nodes(o), o, q, y),
         t # y, ~Overlap(s, p, o, q), Moved(t, y), heap' = heap,
         \A c \in CellsOf(t) : heap[c] # "live"
  PROVE  NoLeak'
<1>1. \A x \in Slot : Nodes(x)' = IF x = s THEN Grafted(Taken(x, o, q), p, Nodes(y))
                                            ELSE Taken(x, o, q)
  BY MovedTrees
<1>2. t \in Place /\ y \in Place /\ \A x \in Slot : x \in Place
  BY LeadsSomewhere, PlacesApart
<1>3. /\ \A a \in Seq(Field), c \in Cell : <<a, c>> \in Nodes(t) <=> <<p \o a, c>> \in Nodes(s)
      /\ \A a \in Seq(Field), c \in Cell : <<a, c>> \in Nodes(y) <=> <<q \o a, c>> \in Nodes(o)
  BY <1>2, SubTree
<1>4. Nodes(y) \in SUBSET (Seq(Field) \X Cell) /\ Taken(s, o, q) \in SUBSET (Seq(Field) \X Cell)
  BY <1>2, NodeFacts DEF Taken, Rest
<1>5. PICK Z : Z = Grafted(Taken(s, o, q), p, Nodes(y))
  OBVIOUS
<1>6. /\ \A u \in Seq(Field), c \in Cell :
            ~IsPrefix(p, u) => (<<u, c>> \in Z <=> <<u, c>> \in Taken(s, o, q))
      /\ \A a \in Seq(Field), c \in Cell : <<p \o a, c>> \in Z <=> <<a, c>> \in Nodes(y)
  BY <1>4, <1>5, NodesOfGrafted
<1>7. ASSUME NEW c \in Cell, heap[c] = "live"
      PROVE  \E x \in Slot : c \in CellsOf(x)'
  <2>1. PICK x \in Slot, u \in Seq(Field) : <<u, c>> \in Nodes(x)
    BY <1>7, LiveIsReached
  <2>2. CASE x = o /\ IsPrefix(q, u)
    <3>1. PICK a \in Seq(Field) : u = q \o a
      BY <2>2, PrefixAndRest
    <3>2. <<a, c>> \in Nodes(y)
      BY <1>3, <2>1, <2>2, <3>1
    <3>3. <<p \o a, c>> \in Z
      BY <1>6, <3>2
    <3>4. <<p \o a, c>> \in Nodes(s)'
      BY <1>1, <1>5, <3>3
    <3>5. QED
      BY <3>4, InCells
  <2>3. CASE ~(x = o /\ IsPrefix(q, u))
    <3>1. <<u, c>> \in Taken(x, o, q)
      <4>1. <<u, c>>[1] = u
        OBVIOUS
      <4>2. QED
        BY <2>1, <2>3, <4>1, Zenon DEF Taken, Rest
    <3>2. CASE x # s
      <4>1. <<u, c>> \in Nodes(x)'
        BY <1>1, <3>1, <3>2
      <4>2. QED
        BY <4>1, InCells
    <3>3. CASE x = s /\ ~IsPrefix(p, u)
      <4>1. <<u, c>> \in Nodes(x)'
        BY <1>1, <1>5, <1>6, <3>1, <3>3
      <4>2. QED
        BY <4>1, InCells
    <3>4. CASE x = s /\ IsPrefix(p, u)
      <4>1. PICK a \in Seq(Field) : u = p \o a
        BY <3>4, PrefixAndRest
      <4>2. <<a, c>> \in Nodes(t)
        BY <1>3, <2>1, <3>4, <4>1
      <4>3. QED
        BY <1>2, <1>7, <4>2, TreeFacts
    <3>5. QED
      BY <3>2, <3>3, <3>4
  <2>4. QED
    BY <2>2, <2>3
<1>8. QED
  BY <1>7 DEF NoLeak

(* The cells of a copy are in the tree of the variable it is put in. *)
LEMMA CopiedOwners ==
  ASSUME TypeOK, FreeIsUntouched, Forest, Forest', NoLeak, NEW s \in Slot, NEW p \in Seq(Field),
         NEW t, Leads(Nodes(s), s, p, t),
         NEW y \in Place, NEW g \in Injection(Tree(y), Free),
         ptr' = Copied(t, y, g), heap' = Allocated(g),
         \A c \in CellsOf(t) : heap[c] # "live"
  PROVE  NoLeak'
<1>1. \A x \in Slot : Nodes(x)' = IF x = s THEN Grafted(Nodes(x), p, Copies(y, g)) ELSE Nodes(x)
  BY CopiedTrees
<1>2. t \in Place /\ \A x \in Slot : x \in Place
  BY LeadsSomewhere, PlacesApart
<1>3. \A a \in Seq(Field), c \in Cell : <<a, c>> \in Nodes(t) <=> <<p \o a, c>> \in Nodes(s)
  BY <1>2, SubTree
<1>4. /\ Copies(y, g) \subseteq Seq(Field) \X Cell
      /\ \A a \in Seq(Field), c \in Cell : <<a, c>> \in Copies(y, g) <=> a \in Tree(y) /\ c = g[a]
  BY CopiesOf
<1>5. PICK Z : Z = Grafted(Nodes(s), p, Copies(y, g))
  OBVIOUS
<1>6. /\ \A u \in Seq(Field), c \in Cell :
            ~IsPrefix(p, u) => (<<u, c>> \in Z <=> <<u, c>> \in Nodes(s))
      /\ \A a \in Seq(Field), c \in Cell : <<p \o a, c>> \in Z <=> <<a, c>> \in Copies(y, g)
  <2>1. Nodes(s) \in SUBSET (Seq(Field) \X Cell)
    BY <1>2, NodeFacts
  <2>2. QED
    BY <1>4, <1>5, <2>1, NodesOfGrafted
<1>7. \A c \in Cell : heap'[c] = "live" => heap[c] = "live" \/ \E a \in Tree(y) : c = g[a]
  <2>1. g \in [Tree(y) -> Free]
    BY DEF Injection, IsInjective
  <2>2. QED
    BY <2>1 DEF Allocated, Range
<1>8. ASSUME NEW c \in Cell, NEW a \in Tree(y), c = g[a]
      PROVE  \E x \in Slot : c \in CellsOf(x)'
  <2>1. a \in Seq(Field)
    BY TreeFacts
  <2>2. <<p \o a, c>> \in Z
    BY <1>4, <1>6, <1>8, <2>1
  <2>3. <<p \o a, c>> \in Nodes(s)'
    BY <1>1, <1>5, <2>2
  <2>4. QED
    BY <2>3, InCells
<1>9. ASSUME NEW c \in Cell, heap[c] = "live"
      PROVE  \E x \in Slot : c \in CellsOf(x)'
  <2>1. PICK x \in Slot, u \in Seq(Field) : <<u, c>> \in Nodes(x)
    BY <1>9, LiveIsReached
  <2>2. CASE x # s
    <3>1. <<u, c>> \in Nodes(x)'
      BY <1>1, <2>1, <2>2
    <3>2. QED
      BY <3>1, InCells
  <2>3. CASE x = s /\ ~IsPrefix(p, u)
    <3>1. <<u, c>> \in Nodes(x)'
      BY <1>1, <1>5, <1>6, <2>1, <2>3
    <3>2. QED
      BY <3>1, InCells
  <2>4. CASE x = s /\ IsPrefix(p, u)
    <3>1. PICK a \in Seq(Field) : u = p \o a
      BY <2>4, PrefixAndRest
    <3>2. <<a, c>> \in Nodes(t)
      BY <1>3, <2>1, <2>4, <3>1
    <3>3. QED
      BY <1>2, <1>9, <3>2, TreeFacts
  <2>5. QED
    BY <2>2, <2>3, <2>4
<1>10. QED
  BY <1>7, <1>8, <1>9 DEF NoLeak

(* The root of a variable is the variable. *)
LEMMA LeadsToItself ==
  ASSUME NEW s \in Slot
  PROVE  <<>> \in Seq(Field) /\ Leads(Nodes(s), s, <<>>, s)
  BY EmptySeq DEF Leads

LEMMA CopyConstructKeeps ==
  ASSUME IInv, Held, IInv', NEW s \in Slot, NEW o \in Slot, NEW path \in Names(o),
         CopyConstruct(s, o, path)
  PROVE  Held'
<1>0. TypeOK /\ FreeIsUntouched /\ Forest /\ ValuesHeld /\ NoLeak
  BY DEF IInv, Held
<1>1. Idle /\ Idle' /\ s \in Place /\ ptr[s] = Absent
  BY PlacesApart DEF CopyConstruct, Idle
<1>2. Forest'
  BY <1>1, ForestAfter
<1>3. PICK y \in Place : y = At(o, path)
  BY <1>0, NamesPlaces
<1>4. ptr[o] # Absent /\ path \in Seq(Field) /\ Leads(Nodes(o), o, path, y)
  BY <1>0, <1>3, NamesPlaces
<1>5. PICK g \in Injection(Tree(y), Free) : ptr' = Copied(s, y, g) /\ heap' = Allocated(g)
  BY <1>3 DEF CopyConstruct
<1>6. value' = [value EXCEPT ![s] = Read(value[o], path)]
  BY DEF CopyConstruct
<1>7. \A x \in Slot : (x # s => ptr'[x] = ptr[x]) /\ ptr'[s] # Absent
  <2>1. \A x \in Place : HasBox(x) /\ ptr[x] \in Cell => heap[ptr[x]] = "live"
    BY <1>1 DEF IInv, NoDangling
  <2>2. QED
    BY <1>1, <1>5, <2>1, CopySafe
<1>8. <<>> \in Seq(Field) /\ Leads(Nodes(s), s, <<>>, s)
  BY LeadsToItself
<1>9. \A x \in Slot : Tree(x)' = IF x = s THEN Write(Tree(x), <<>>, Read(Tree(o), path)) ELSE Tree(x)
  BY <1>0, <1>2, <1>4, <1>5, <1>8, CopiedValues
<1>10. Tree(s) = {} /\ CellsOf(s) = {}
  BY <1>0, <1>1, NoTree, BoxAssumption
<1>11. ValuesHeld'
  <2>1. Tree(s)' = Read(Tree(o), path)
    BY <1>9, <1>10, ReadGives, WriteRoot
  <2>2. \A x \in Slot : value'[x] = IF x = s THEN Read(Tree(o), path) ELSE value[x]
    BY <1>0, <1>4, <1>6 DEF TypeOK, ValuesHeld
  <2>3. QED
    BY <1>0, <1>7, <1>9, <2>1, <2>2 DEF ValuesHeld
<1>12. NoLeak'
  BY <1>0, <1>2, <1>5, <1>8, <1>10, CopiedOwners
<1>13. QED
  BY <1>1, <1>2, <1>11, <1>12 DEF Held, Midway

LEMMA MoveConstructKeeps ==
  ASSUME IInv, Held, IInv', NEW s \in Slot, NEW o \in Slot, NEW path \in Names(o),
         MoveConstruct(s, o, path)
  PROVE  Held'
<1>0. TypeOK /\ Forest /\ ValuesHeld /\ NoLeak
  BY DEF IInv, Held
<1>1. Idle /\ Idle' /\ s \in Place /\ ptr[s] = Absent
  BY PlacesApart DEF MoveConstruct, Idle
<1>2. Forest'
  BY <1>1, ForestAfter
<1>3. PICK y \in Place : y = At(o, path)
  BY <1>0, NamesPlaces
<1>4. ptr[o] # Absent /\ path \in Seq(Field) /\ Leads(Nodes(o), o, path, y)
  BY <1>0, <1>3, NamesPlaces
<1>5. s # o /\ y # s
  BY <1>1, <1>4, LeadsSomewhere
<1>6. Moved(s, y) /\ heap' = heap
  BY <1>3 DEF MoveConstruct, Moved
<1>7. value' = [value EXCEPT ![s] = Read(value[o], path), ![o] = Write(@, path, {})]
  BY DEF MoveConstruct
<1>8. <<>> \in Seq(Field) /\ Leads(Nodes(s), s, <<>>, s)
  BY LeadsToItself
<1>9. ~Overlap(s, <<>>, o, path)
  BY <1>5 DEF Overlap
<1>10. Tree(s) = {} /\ CellsOf(s) = {}
  BY <1>0, <1>1, NoTree, BoxAssumption
<1>11. \A x \in Slot : ptr'[x] = Absent <=> x # s /\ ptr[x] = Absent
  <2>1. \A x \in Place : ptr'[x] = IF x = y THEN Null ELSE IF x = s THEN ptr[y] ELSE ptr[x]
    BY <1>0, <1>1, <1>5, <1>6 DEF TypeOK, Moved
  <2>2. ptr[y] # Absent
    BY <1>0, <1>4, LeadsSomewhere, PlacesApart DEF TypeOK
  <2>3. ASSUME NEW x \in Slot PROVE ptr'[x] = Absent <=> x # s /\ ptr[x] = Absent
    <3>1. ptr'[x] = IF x = y THEN Null ELSE IF x = s THEN ptr[y] ELSE ptr[x]
      BY <2>1, PlacesApart
    <3>2. Null # Absent
      BY BoxAssumption
    <3>3. QED
      BY <1>5, <2>2, <3>1, <3>2
  <2>4. QED
    BY <2>3
<1>12. \A x \in Slot :
          Tree(x)' = LET rest == IF x = o THEN Write(Tree(x), path, {}) ELSE Tree(x)
                     IN  IF x = s THEN Write(rest, <<>>, Read(Tree(o), path)) ELSE rest
  BY <1>0, <1>2, <1>4, <1>5, <1>6, <1>8, <1>9, MovedValues
<1>13. ValuesHeld'
  <2>1. Tree(s)' = Read(Tree(o), path)
    <3>1. Tree(s)' = Write({}, <<>>, Read(Tree(o), path))
      BY <1>5, <1>10, <1>12
    <3>2. Read(Tree(o), path) \in SUBSET Seq(Field)
      BY ReadGives
    <3>3. QED
      BY <3>1, <3>2, WriteRoot, Zenon
  <2>2. \A x \in Slot : x # s => Tree(x)' = IF x = o THEN Write(Tree(x), path, {}) ELSE Tree(x)
    BY <1>12
  <2>3. value[o] = Tree(o)
    BY <1>0, <1>4 DEF ValuesHeld
  <2>4. \A x \in Slot : value'[x] = IF x = s THEN Read(Tree(o), path)
                                    ELSE IF x = o THEN Write(Tree(o), path, {}) ELSE value[x]
    BY <1>0, <1>5, <1>7, <2>3 DEF TypeOK
  <2>5. QED
    BY <1>0, <1>4, <1>11, <2>1, <2>2, <2>4 DEF ValuesHeld
<1>14. NoLeak'
  BY <1>0, <1>2, <1>4, <1>5, <1>6, <1>8, <1>9, <1>10, MovedOwners
<1>15. QED
  BY <1>1, <1>2, <1>13, <1>14 DEF Held, Midway

(* The nodes of unchanged pointers are unchanged. *)
LEMMA SameNodes ==
  ASSUME NEW x, ptr' = ptr
  PROVE  Nodes(x)' = Nodes(x) /\ Tree(x)' = Tree(x) /\ CellsOf(x)' = CellsOf(x)
<1>1. Nodes(x)' = Nodes(x)
  BY DEF Nodes, Root, Children
<1>2. QED
  BY <1>1 DEF Tree, CellsOf

(* So are the trees that hang by them, and their values. *)
LEMMA SameForest ==
  ASSUME Forest, ValuesHeld, ptr' = ptr, value' = value
  PROVE  Forest' /\ ValuesHeld'
<1>1. \A x : Nodes(x)' = Nodes(x) /\ Tree(x)' = Tree(x)
  BY SameNodes
<1>2. Forest'
  <2>1. ASSUME NEW x \in Slot PROVE Hangs(Nodes(x)', ptr', x)
    BY <1>1, Zenon DEF Forest
  <2>2. QED
    BY <1>1, <2>1 DEF Forest
<1>3. ValuesHeld'
  BY <1>1 DEF ValuesHeld
<1>4. QED
  BY <1>2, <1>3

LEMMA AssignKeeps ==
  ASSUME IInv, Careful, Held, IInv', NEW kind \in {"copy", "move"}, NEW s \in Slot, NEW o \in Slot,
         NEW p \in Names(s), NEW q \in Names(o), Assign(kind, s, p, o, q)
  PROVE  Held'
<1>0. TypeOK /\ Forest /\ ValuesHeld /\ NoLeak
  BY DEF IInv, Held
<1>1. PICK t \in Place : t = At(s, p)
  BY <1>0, NamesPlaces
<1>2. PICK y \in Place : y = At(o, q)
  BY <1>0, NamesPlaces
<1>3. PICK d : d = Assigned(kind, s, p, o, q)
  OBVIOUS
<1>4. /\ heap' = Deleted(t)
      /\ assigning' = [kind |-> kind, to |-> t, from |-> y, due |-> d]
      /\ ptr' = ptr /\ value' = value
  BY <1>1, <1>2, <1>3, Zenon DEF Assign
<1>5. ~Overlap(s, p, o, q)
  BY DEF Assign, Assignable, Careful
<1>6. /\ ptr[s] # Absent /\ p \in Seq(Field) /\ Leads(Nodes(s), s, p, t)
      /\ ptr[o] # Absent /\ q \in Seq(Field) /\ Leads(Nodes(o), o, q, y)
  BY <1>0, <1>1, <1>2, NamesPlaces
<1>7. Forest' /\ ValuesHeld'
  BY <1>0, <1>4, SameForest
<1>8. \A x : Nodes(x)' = Nodes(x) /\ CellsOf(x)' = CellsOf(x)
  BY <1>4, SameNodes
<1>9. \A c \in Cell : heap'[c] = IF c \in CellsOf(t) THEN "deleted" ELSE heap[c]
  BY <1>4 DEF Deleted
<1>10. NoLeak'
  <2>1. \A c \in Cell : heap'[c] = "live" => heap[c] = "live"
    BY <1>9
  <2>2. QED
    BY <1>0, <1>8, <2>1 DEF NoLeak
<1>11. assigning'.kind = kind /\ assigning'.to = t /\ assigning'.from = y /\ assigning'.due = d
  BY <1>4
<1>12. Assigned(assigning.kind, s, p, o, q)' = d
  BY <1>3, <1>4, <1>11 DEF Assigned
<1>13. \A c \in CellsOf(assigning.to)' : heap'[c] # "live"
  <2>1. CellsOf(assigning.to)' = CellsOf(t)
    <3>1. Nodes(assigning.to)' = Nodes(t)
      BY <1>4, <1>11 DEF Nodes, Root, Children
    <3>2. QED
      BY <3>1 DEF CellsOf
  <2>2. CellsOf(t) \subseteq Cell
    BY <1>0, TreeFacts
  <2>3. QED
    BY <1>9, <2>1, <2>2
<1>14. HalfWay(s, p, o, q)'
  <2>1. Leads(Nodes(s), s, p, assigning.to)' /\ Leads(Nodes(o), o, q, assigning.from)'
    <3>1. Leads(Nodes(s)', s, p, assigning'.to)
      BY <1>6, <1>8, <1>11
    <3>2. Leads(Nodes(o)', o, q, assigning'.from)
      BY <1>6, <1>8, <1>11
    <3>3. QED
      BY <3>1, <3>2
  <2>2. QED
    BY <1>4, <1>5, <1>6, <1>11, <1>12, <1>13, <2>1 DEF HalfWay
<1>15. Midway'
  BY <1>6, <1>14 DEF Midway
<1>16. QED
  BY <1>7, <1>10, <1>15 DEF Held

LEMMA FinishMoveKeeps ==
  ASSUME IInv, Held, IInv', FinishMove
  PROVE  Held'
<1>0. TypeOK /\ Forest /\ ValuesHeld /\ NoLeak
  BY DEF IInv, Held
<1>1. PICK t : t = assigning.to
  OBVIOUS
<1>2. PICK y : y = assigning.from
  OBVIOUS
<1>3. ~Idle /\ t # y /\ t \in Place /\ y \in Place /\ ptr[t] # Absent /\ ptr[y] # Absent
  BY <1>1, <1>2, HalfAssigned DEF FinishMove
<1>4. Moved(t, y) /\ heap' = heap /\ value' = assigning.due /\ Idle'
  BY <1>1, <1>2 DEF FinishMove, Moved, Idle
<1>5. PICK s \in Slot, o \in Slot, p \in Seq(Field), q \in Seq(Field) : HalfWay(s, p, o, q)
  BY <1>3 DEF Held, Midway
<1>6. /\ ptr[s] # Absent /\ ptr[o] # Absent
      /\ Leads(Nodes(s), s, p, t) /\ Leads(Nodes(o), o, q, y)
      /\ ~Overlap(s, p, o, q)
      /\ assigning.due = Assigned("move", s, p, o, q)
      /\ \A c \in CellsOf(t) : heap[c] # "live"
  BY <1>1, <1>2, <1>5 DEF HalfWay, FinishMove
<1>7. Forest'
  BY <1>4, ForestAfter
<1>8. \A x \in Slot : ptr'[x] = Absent <=> ptr[x] = Absent
  <2>1. \A x \in Place : ptr'[x] = IF x = y THEN Null ELSE IF x = t THEN ptr[y] ELSE ptr[x]
    BY <1>0, <1>3, <1>4 DEF TypeOK, Moved
  <2>2. QED
    BY <1>3, <2>1, PlacesApart, BoxAssumption
<1>9. \A x \in Slot :
         Tree(x)' = LET rest == IF x = o THEN Write(Tree(x), q, {}) ELSE Tree(x)
                    IN  IF x = s THEN Write(rest, p, Read(Tree(o), q)) ELSE rest
  BY <1>0, <1>3, <1>4, <1>6, <1>7, MovedValues
<1>10. \A x \in Slot :
          value'[x] = LET rest == IF x = o THEN Write(value[x], q, {}) ELSE value[x]
                      IN  IF x = s THEN Write(rest, p, Read(value[o], q)) ELSE rest
  <2>1. value \in [Slot -> Value]
    BY <1>0 DEF TypeOK
  <2>2. QED
    BY <1>4, <1>6, <2>1, AssignedIs
<1>11. ValuesHeld'
  <2>1. value[s] = Tree(s) /\ value[o] = Tree(o)
    BY <1>0, <1>6 DEF ValuesHeld
  <2>2. ASSUME NEW x \in Slot PROVE value'[x] = IF ptr'[x] = Absent THEN Absent ELSE Tree(x)'
    <3>1. value[x] = IF ptr[x] = Absent THEN Absent ELSE Tree(x)
      BY <1>0 DEF ValuesHeld
    <3>2. CASE ptr[x] = Absent
      BY <1>6, <1>8, <1>10, <3>1, <3>2
    <3>3. CASE ptr[x] # Absent
      <4>1. value'[x] = Tree(x)'
        BY <1>9, <1>10, <2>1, <3>1, <3>3
      <4>2. QED
        BY <1>8, <3>3, <4>1
    <3>4. QED
      BY <3>2, <3>3
  <2>3. QED
    BY <2>2 DEF ValuesHeld
<1>12. NoLeak'
  BY <1>0, <1>3, <1>4, <1>6, <1>7, MovedOwners
<1>13. QED
  BY <1>4, <1>7, <1>11, <1>12 DEF Held, Midway

LEMMA FinishCopyKeeps ==
  ASSUME IInv, Held, IInv', FinishCopy
  PROVE  Held'
<1>0. TypeOK /\ FreeIsUntouched /\ Forest /\ ValuesHeld /\ NoLeak
  BY DEF IInv, Held
<1>1. PICK t : t = assigning.to
  OBVIOUS
<1>2. PICK y : y = assigning.from
  OBVIOUS
<1>3. /\ ~Idle /\ t \in Place /\ y \in Place /\ HasBox(t) /\ ptr[t] # Absent
      /\ \A x \in Place : HasBox(x) /\ x # t /\ ptr[x] \in Cell => heap[ptr[x]] = "live"
  BY <1>1, <1>2, HalfAssigned DEF FinishCopy
<1>4. PICK g \in Injection(Tree(y), Free) : ptr' = Copied(t, y, g) /\ heap' = Allocated(g)
  BY <1>1, <1>2 DEF FinishCopy
<1>5. value' = assigning.due /\ Idle'
  BY DEF FinishCopy, Idle
<1>6. PICK s \in Slot, o \in Slot, p \in Seq(Field), q \in Seq(Field) : HalfWay(s, p, o, q)
  BY <1>3 DEF Held, Midway
<1>7. /\ ptr[s] # Absent /\ ptr[o] # Absent
      /\ Leads(Nodes(s), s, p, t) /\ Leads(Nodes(o), o, q, y)
      /\ assigning.due = Assigned("copy", s, p, o, q)
      /\ \A c \in CellsOf(t) : heap[c] # "live"
  BY <1>1, <1>2, <1>6 DEF HalfWay, FinishCopy
<1>8. Forest'
  BY <1>5, ForestAfter
<1>9. \A x \in Slot : ptr'[x] = Absent <=> ptr[x] = Absent
  <2>1. t \in Slot \/ heap[t[1]] # "free"
    BY <1>3 DEF HasBox
  <2>2. (\A x \in Slot : x # t => ptr'[x] = ptr[x]) /\ ptr'[t] # Absent
    BY <1>3, <1>4, <2>1, CopySafe
  <2>3. QED
    BY <1>3, <2>2
<1>10. \A x \in Slot : Tree(x)' = IF x = s THEN Write(Tree(x), p, Read(Tree(o), q)) ELSE Tree(x)
  BY <1>0, <1>4, <1>7, <1>8, CopiedValues
<1>11. \A x \in Slot : value'[x] = IF x = s THEN Write(value[x], p, Read(value[o], q)) ELSE value[x]
  <2>1. value \in [Slot -> Value]
    BY <1>0 DEF TypeOK
  <2>2. QED
    BY <1>5, <1>7, <2>1, AssignedIs
<1>12. ValuesHeld'
  <2>1. value[s] = Tree(s) /\ value[o] = Tree(o)
    BY <1>0, <1>7 DEF ValuesHeld
  <2>2. ASSUME NEW x \in Slot PROVE value'[x] = IF ptr'[x] = Absent THEN Absent ELSE Tree(x)'
    <3>1. value[x] = IF ptr[x] = Absent THEN Absent ELSE Tree(x)
      BY <1>0 DEF ValuesHeld
    <3>2. QED
      BY <1>7, <1>9, <1>10, <1>11, <2>1, <3>1
  <2>3. QED
    BY <2>2 DEF ValuesHeld
<1>13. NoLeak'
  BY <1>0, <1>3, <1>4, <1>7, <1>8, CopiedOwners
<1>14. QED
  BY <1>5, <1>8, <1>12, <1>13 DEF Held, Midway

LEMMA CopyThrowsKeeps ==
  ASSUME Held, CopyThrows
  PROVE  Held'
<1>1. ptr' = ptr /\ heap' = heap /\ value' = value /\ Idle'
  BY DEF CopyThrows, Idle
<1>2. \A x : CellsOf(x)' = CellsOf(x)
  BY <1>1, SameNodes
<1>3. NoLeak'
  BY <1>1, <1>2 DEF Held, NoLeak
<1>4. QED
  BY <1>1, <1>3, SameForest DEF Held, Midway

LEMMA StutterKeeps ==
  ASSUME Held, UNCHANGED vars
  PROVE  Held'
<1>1. ptr' = ptr /\ heap' = heap /\ value' = value /\ assigning' = assigning
  BY DEF vars
<1>2. \A x : Nodes(x)' = Nodes(x) /\ CellsOf(x)' = CellsOf(x)
  BY <1>1, SameNodes
<1>3. NoLeak'
  BY <1>1, <1>2 DEF Held, NoLeak
<1>4. ASSUME NEW s \in Slot, NEW o \in Slot, NEW p \in Seq(Field), NEW q \in Seq(Field),
             HalfWay(s, p, o, q)
      PROVE  HalfWay(s, p, o, q)'
  <2>1. Assigned(assigning.kind, s, p, o, q)' = Assigned(assigning.kind, s, p, o, q)
    BY <1>1 DEF Assigned
  <2>2. CellsOf(assigning.to)' = CellsOf(assigning.to)
    BY <1>1 DEF CellsOf, Nodes, Root, Children
  <2>3. /\ Leads(Nodes(s)', s, p, assigning'.to)
        /\ Leads(Nodes(o)', o, q, assigning'.from)
    BY <1>1, <1>2, <1>4 DEF HalfWay
  <2>4. Leads(Nodes(s), s, p, assigning.to)' /\ Leads(Nodes(o), o, q, assigning.from)'
    BY <2>3
  <2>5. QED
    BY <1>1, <1>4, <2>1, <2>2, <2>4 DEF HalfWay
<1>5. Midway'
  BY <1>1, <1>4 DEF Held, Midway, Idle
<1>6. QED
  BY <1>1, <1>3, <1>5, SameForest DEF Held

(* At first there are no Boxes, so no trees. *)
LEMMA InitHeld == Init => Held
<1> SUFFICES ASSUME Init PROVE Held
  OBVIOUS
<1>1. IInv /\ Idle
  BY InitSafe DEF Init, Idle
<1>2. Forest
  BY <1>1, ForestAtRest DEF AtRest, IInv
<1>3. \A s \in Slot : ptr[s] = Absent /\ value[s] = Absent
  BY PlacesApart DEF Init
<1>4. ValuesHeld
  BY <1>3 DEF ValuesHeld
<1>5. NoLeak
  BY DEF Init, NoLeak
<1>6. QED
  BY <1>1, <1>2, <1>4, <1>5 DEF Held, Midway

LEMMA HeldStep == Careful /\ IInv /\ Held /\ [Next]_vars => Held'
<1> SUFFICES ASSUME Careful, IInv, Held, [Next]_vars PROVE Held'
  OBVIOUS
<1>0. IInv'
  BY StepSafe
<1>1. CASE \E s \in Slot : DefaultConstruct(s)
  BY <1>0, <1>1, DefaultConstructKeeps
<1>2. CASE \E s \in Slot : Destroy(s)
  BY <1>0, <1>2, DestroyKeeps
<1>3. CASE \E s \in Slot, c \in Cell : MakeBox(s, c)
  BY <1>0, <1>3, MakeBoxKeeps
<1>4. CASE \E s, o \in Slot : \E q \in Names(o) : CopyConstruct(s, o, q)
  BY <1>0, <1>4, CopyConstructKeeps
<1>5. CASE \E s, o \in Slot : \E q \in Names(o) : MoveConstruct(s, o, q)
  BY <1>0, <1>5, MoveConstructKeeps
<1>6. CASE \E kind \in {"copy", "move"}, s, o \in Slot :
             \E p \in Names(s), q \in Names(o) : Assign(kind, s, p, o, q)
  <2>1. PICK kind \in {"copy", "move"}, s \in Slot, o \in Slot :
          \E p \in Names(s), q \in Names(o) : Assign(kind, s, p, o, q)
    BY <1>6
  <2>2. PICK p \in Names(s), q \in Names(o) : Assign(kind, s, p, o, q)
    BY <2>1
  <2>3. QED
    BY <1>0, <2>2, AssignKeeps
<1>7. CASE FinishMove
  BY <1>0, <1>7, FinishMoveKeeps
<1>8. CASE FinishCopy
  BY <1>0, <1>8, FinishCopyKeeps
<1>9. CASE CopyThrows
  BY <1>9, CopyThrowsKeeps
<1>10. CASE UNCHANGED vars
  BY <1>10, StutterKeeps
<1>11. QED
  BY <1>1, <1>2, <1>3, <1>4, <1>5, <1>6, <1>7, <1>8, <1>9, <1>10 DEF Next

LEMMA AlwaysHeld == Careful => (Spec => []Held)
<1>1. Init => IInv /\ Held
  BY InitSafe, InitHeld
<1>2. Careful /\ IInv /\ Held /\ [Next]_vars => IInv' /\ Held'
  BY StepSafe, HeldStep
<1>3. ASSUME Careful PROVE Spec => []Held
  <2>1. IInv /\ Held /\ [Next]_vars => IInv' /\ Held'
    BY <1>2, <1>3
  <2>2. QED
    BY <1>1, <2>1, PTL DEF Spec
<1>4. QED
  BY <1>3

(***************************************************************************)
(* box.hpp:33-52: what a variable gave away, or had its value replaced, is *)
(* deleted: a cell is live only in the tree of some variable, so that when *)
(* the variables are gone nothing is left allocated.                       *)
(***************************************************************************)
THEOREM NothingLeaks == Careful => (Spec => []NoLeak)
<1>1. Held => NoLeak
  BY DEF Held
<1>2. QED
  BY <1>1, AlwaysHeld, PTL

(***************************************************************************)
(* box.hpp:10, "deep-copy value semantics": what a variable holds is what  *)
(* it was given and wrote at its own places since, whatever was done to    *)
(* the variables it was copied from or to, to any depth of the trees.      *)
(***************************************************************************)
THEOREM CopiesAreValues == Careful => (Spec => []ValueSemantics)
<1>1. Held => ValueSemantics
  BY DEF Held, ValuesHeld, ValueSemantics
<1>2. QED
  BY <1>1, AlwaysHeld, PTL

=============================================================================
