---------------------------- MODULE LayoutProofs ----------------------------
(***************************************************************************)
(* What the layout of module AST guarantees to the code generator, for any *)
(* structs and signatures: members and parameters are in their order, none *)
(* in the bytes of another, each at a multiple of its alignment.           *)
(***************************************************************************)
EXTENDS AST, WellFoundedInduction, TLAPS

-----------------------------------------------------------------------------
(* Folds *)

\* Induction: a set that holds 0 and is closed under the next number holds 0 .. N.
LEMMA CountUp ==
    ASSUME NEW N \in Nat, NEW S, 0 \in S,
           \A n \in 0 .. N : n \in S /\ n < N => n + 1 \in S
    PROVE  0 .. N \subseteq S
<1> DEFINE R   == {ss \in Nat \X Nat : ss[1] < ss[2]}
           Out == {n \in 0 .. N : n \notin S}
<1> SUFFICES ASSUME Out # {} PROVE FALSE
  OBVIOUS
<1>1. IsWellFoundedOn(R, Nat)
  BY NatLessThanWellFounded DEF OpToRel
<1>2. PICK m \in Out : \A y \in Out : ~(<<y, m>> \in R)
  <2>1. Out \subseteq Nat
    OBVIOUS
  <2> HIDE DEF R, Out
  <2> QED
    BY <1>1, <2>1, WFMin
<1>3. m # 0 /\ m - 1 \in 0 .. N /\ m - 1 < N
  OBVIOUS
<1>4. <<m - 1, m>> \in R
  BY <1>3
<1>5. m - 1 \notin Out
  <2> HIDE DEF R, Out
  <2> QED
    BY <1>2, <1>4
<1>6. (m - 1) + 1 \in S
  BY <1>3, <1>5
<1> QED
  BY <1>6

\* The last place of a set of places.
LEMMA MaxIs ==
    ASSUME NEW S \in SUBSET Int, NEW x \in S, \A y \in S : x >= y
    PROVE  Max(S) = x
<1>1. Max(S) \in S /\ \A y \in S : Max(S) >= y
  BY DEF Max
<1>2. Max(S) \in Int /\ x \in Int /\ Max(S) >= x /\ x >= Max(S)
  BY <1>1
<1> QED
  BY <1>2

\* The greatest number of a set that is bounded.
LEMMA MaxIn ==
    ASSUME NEW N \in Nat, NEW S \in SUBSET (1 .. N), S # {}
    PROVE  Max(S) \in S
<1> DEFINE Bounded == {n \in 0 .. N : S \cap (1 .. n) # {} =>
                            \E x \in S : x <= n /\ \A y \in S : y <= n => x >= y}
<1>1. 0 \in Bounded
  OBVIOUS
<1>2. ASSUME NEW n \in 0 .. N, n \in Bounded, n < N PROVE n + 1 \in Bounded
  <2>1. CASE n + 1 \in S
    <3>1. \A y \in S : y <= n + 1 => n + 1 >= y
      OBVIOUS
    <3> QED
      BY <1>2, <2>1, <3>1
  <2>2. CASE n + 1 \notin S
    <3>1. \A y \in S : y <= n + 1 <=> y <= n
      BY <2>2
    <3>2. S \cap (1 .. n + 1) # {} => S \cap (1 .. n) # {}
      BY <3>1
    <3>3. S \cap (1 .. n + 1) # {} => \E x \in S : x <= n /\ \A y \in S : y <= n => x >= y
      BY <1>2, <3>2
    <3> QED
      BY <1>2, <3>1, <3>3
  <2> QED
    BY <2>1, <2>2
<1>3. N \in Bounded
  <2> HIDE DEF Bounded
  <2>1. 0 .. N \subseteq Bounded
    BY <1>1, <1>2, CountUp
  <2> QED
    BY <2>1
<1>4. S \cap (1 .. N) # {} /\ \A y \in S : y <= N
  <2>1. PICK y \in S : TRUE
    OBVIOUS
  <2>2. y \in S \cap (1 .. N)
    BY <2>1
  <2>3. ASSUME NEW z \in S PROVE z <= N
    <3>1. z \in 1 .. N
      OBVIOUS
    <3> QED
      BY <3>1
  <2> QED
    BY <2>2, <2>3
<1>5. PICK x \in S : \A y \in S : x >= y
  BY <1>3, <1>4
<1> QED
  BY <1>5, MaxIs

\* The equation by which a fold over the numbers 1 .. N is defined, with G[k] as its
\* step k, on the sets of such numbers.
FoldOf(g, N, a, G) ==
    g = [s \in SUBSET (1 .. N) |->
            IF s = {} THEN a ELSE G[Max(s)][g[s \ {Max(s)}]]]

\* It has a solution, with values in the domain of the steps.
LEMMA FoldExists ==
    ASSUME NEW N \in Nat, NEW D, NEW a \in D, NEW G \in [1 .. N -> [D -> D]]
    PROVE  \E g \in [SUBSET (1 .. N) -> D] : FoldOf(g, N, a, G)
<1> DEFINE Solved == {n \in 0 .. N : \E g \in [SUBSET (1 .. n) -> D] : FoldOf(g, n, a, G)}
<1>1. 0 \in Solved
  <2> DEFINE g == [s \in SUBSET (1 .. 0) |-> a]
  <2>1. \A s \in SUBSET (1 .. 0) : s = {}
    OBVIOUS
  <2>2. g \in [SUBSET (1 .. 0) -> D]
    OBVIOUS
  <2>3. FoldOf(g, 0, a, G)
    BY <2>1 DEF FoldOf
  <2> HIDE DEF g
  <2>4. \E h \in [SUBSET (1 .. 0) -> D] : FoldOf(h, 0, a, G)
    BY <2>2, <2>3
  <2>5. 0 \in 0 .. N
    OBVIOUS
  <2> QED
    BY Zenon, <2>4, <2>5
<1>2. ASSUME NEW n \in 0 .. N, n \in Solved, n < N PROVE n + 1 \in Solved
  <2>1. PICK g \in [SUBSET (1 .. n) -> D] : FoldOf(g, n, a, G)
    BY <1>2
  <2> DEFINE top == n + 1
             h == [s \in SUBSET (1 .. top) |->
                     IF top \in s THEN G[top][g[s \ {top}]] ELSE g[s]]
  <2>2. top \in 1 .. N /\ G[top] \in [D -> D]
    BY <1>2
  <2>3. ASSUME NEW s \in SUBSET (1 .. top)
        PROVE  /\ top \in s => s \ {top} \in SUBSET (1 .. n) /\ Max(s) = top
               /\ top \notin s => s \in SUBSET (1 .. n)
    <3>1. top \in s => \A y \in s : top >= y
      BY <1>2
    <3>2. \A y \in s : y # top => y \in 1 .. n
      BY <1>2
    <3>3. s \in SUBSET Int
      BY <1>2
    <3> HIDE DEF top
    <3> QED
      BY <3>1, <3>2, <3>3, MaxIs
  <2>4. \A s \in SUBSET (1 .. top) : h[s] = IF top \in s THEN G[top][g[s \ {top}]] ELSE g[s]
    OBVIOUS
  <2>5. h \in [SUBSET (1 .. top) -> D]
    <3>1. ASSUME NEW s \in SUBSET (1 .. top)
          PROVE  (IF top \in s THEN G[top][g[s \ {top}]] ELSE g[s]) \in D
      <4> HIDE DEF top
      <4> QED
        BY <2>1, <2>2, <2>3
    <3> HIDE DEF top
    <3> QED
      BY <3>1
  <2>6. ASSUME NEW s \in SUBSET (1 .. top)
        PROVE  h[s] = IF s = {} THEN a ELSE G[Max(s)][h[s \ {Max(s)}]]
    <3>1. CASE top \in s
      <4>1. Max(s) = top /\ s # {} /\ s \ {top} \in SUBSET (1 .. top) /\ top \notin s \ {top}
        BY <2>3, <3>1
      <4>2. h[s \ {top}] = g[s \ {top}]
        <5> HIDE DEF h
        <5> QED
          BY <2>4, <4>1
      <4> HIDE DEF h, top
      <4> QED
        BY <2>4, <3>1, <4>1, <4>2
    <3>2. CASE top \notin s
      <4>1. s \in SUBSET (1 .. n)
        BY <2>3, <3>2
      <4>2. g[s] = IF s = {} THEN a ELSE G[Max(s)][g[s \ {Max(s)}]]
        BY <2>1, <4>1 DEF FoldOf
      <4>3. s \ {Max(s)} \in SUBSET (1 .. top) /\ top \notin s \ {Max(s)}
        BY <3>2
      <4>4. h[s] = g[s] /\ h[s \ {Max(s)}] = g[s \ {Max(s)}]
        <5> HIDE DEF h, top
        <5> QED
          BY <2>4, <3>2, <4>3
      <4> HIDE DEF h, top
      <4> QED
        BY <4>2, <4>4
    <3> QED
      BY <3>1, <3>2
  <2>7. FoldOf(h, top, a, G)
    <3> HIDE DEF h, top
    <3> QED
      BY <2>5, <2>6 DEF FoldOf
  <2>8. top \in 0 .. N
    BY <1>2
  <2> HIDE DEF h
  <2> QED
    BY <2>5, <2>7, <2>8
<1>3. N \in Solved
  <2> HIDE DEF Solved
  <2>1. 0 .. N \subseteq Solved
    BY <1>1, <1>2, CountUp
  <2> QED
    BY <2>1
<1> QED
  BY <1>3

\* A segment of the numbers, and what a fold takes off it.
LEMMA Segments ==
    ASSUME NEW n \in Nat, n > 0
    PROVE  1 .. n # {} /\ Max(1 .. n) = n /\ (1 .. n) \ {n} = 1 .. (n - 1)
<1>1. n \in 1 .. n /\ \A y \in 1 .. n : n >= y
  OBVIOUS
<1>2. Max(1 .. n) = n
  <2>1. 1 .. n \in SUBSET Int
    OBVIOUS
  <2> QED
    BY <1>1, <2>1, MaxIs
<1> QED
  BY <1>1, <1>2

-----------------------------------------------------------------------------
(* Alignment *)

Alignments == {1, 2, 4, 8}

\* Align gives the next multiple.
LEMMA AlignIs ==
    ASSUME NEW n \in Nat, NEW a \in Alignments
    PROVE  Align(n, a) \in Nat /\ Align(n, a) % a = 0 /\ n <= Align(n, a) /\ Align(n, a) < n + a
<1>1. CASE a = 1 BY <1>1 DEF Align
<1>2. CASE a = 2 BY <1>2 DEF Align
<1>3. CASE a = 4 BY <1>3 DEF Align
<1>4. CASE a = 8 BY <1>4 DEF Align
<1> QED
  BY <1>1, <1>2, <1>3, <1>4 DEF Alignments

\* Of two alignments the smaller divides the larger one and its multiples.
LEMMA AlignmentsDivide ==
    ASSUME NEW a \in Alignments, NEW b \in Alignments, a <= b, NEW n \in Nat, n % b = 0
    PROVE  n % a = 0 /\ b % a = 0
<1>1. CASE a = 1 BY <1>1 DEF Alignments
<1>2. CASE a = 2 BY <1>2 DEF Alignments
<1>3. CASE a = 4 BY <1>3 DEF Alignments
<1>4. CASE a = 8 BY <1>4 DEF Alignments
<1> QED
  BY <1>1, <1>2, <1>3, <1>4 DEF Alignments

LEMMA MemberAlignmentIs ==
    ASSUME NEW size \in Nat
    PROVE  MemberAlignment(size) \in Alignments
  BY DEF MemberAlignment, Alignments

LEMMA ParameterAlignmentIs ==
    ASSUME NEW size \in Nat
    PROVE  ParameterAlignment(size) \in Alignments
  BY DEF ParameterAlignment, Alignments

-----------------------------------------------------------------------------
(* Fields *)

TypeIds == [base : STRING, pointer_level : Nat]

\* Declared members or parameters, and those that have a place.
Fields == {Field(x, type) : x \in STRING, type \in TypeIds}
Placed == {PlacedAt(mem, o) : mem \in Fields, o \in Nat}

\* A field that gets a place keeps its type.
LEMMA PlacedIs ==
    ASSUME NEW mem \in Fields, NEW o \in Nat
    PROVE  LET m == PlacedAt(mem, o)
           IN  m \in Placed /\ m.offset = o /\ m.type = mem.type /\ m.name = mem.name
  BY DEF Placed, PlacedAt

\* The types of the fields have a size.
Sized(types, fields) ==
    /\ fields \in Seq(Fields)
    /\ \A k \in DOMAIN fields : SizeOfType(types, fields[k].type) \in Nat

-----------------------------------------------------------------------------
(* The members of a struct *)

NoMembers == [end |-> 0, alignment |-> 1, members |-> << >>]

MemberLayouts == [end : Nat, alignment : Alignments, members : Seq(Placed)]

MembersPlaced(types, members) ==
    FoldLeft(LAMBDA l, mem : PlaceMember(types, l, mem), NoMembers, members)

\* What the loop of generateStruct does to the offset, the alignment and the members.
LEMMA PlaceMemberIs ==
    ASSUME NEW types, NEW l \in MemberLayouts, NEW mem \in Fields,
           SizeOfType(types, mem.type) \in Nat
    PROVE  LET size == SizeOfType(types, mem.type)
               a    == MemberAlignment(size)
               m    == PlaceMember(types, l, mem)
               o    == Align(l.end, a)
           IN  /\ m \in MemberLayouts /\ a \in Alignments /\ o \in Nat
               /\ o % a = 0 /\ l.end <= o /\ m.end = o + size
               /\ l.alignment <= m.alignment /\ a <= m.alignment
               /\ m.members = Append(l.members, PlacedAt(mem, o))
<1> DEFINE size == SizeOfType(types, mem.type)
           a    == MemberAlignment(size)
           o    == Align(l.end, a)
           m    == PlaceMember(types, l, mem)
<1>1. a \in Alignments
  BY MemberAlignmentIs
<1>2. o \in Nat /\ o % a = 0 /\ l.end <= o
  <2>1. l.end \in Nat
    BY DEF MemberLayouts
  <2> HIDE DEF a
  <2> QED
    BY <1>1, <2>1, AlignIs
<1>3. PlacedAt(mem, o) \in Placed
  BY <1>2, PlacedIs
<1>4. m = [end |-> o + size, alignment |-> IF l.alignment < a THEN a ELSE l.alignment,
           members |-> Append(l.members, PlacedAt(mem, o))]
  BY DEF PlaceMember
<1> HIDE DEF size, a, o, m
<1>5. o + size \in Nat
  BY <1>2 DEF size
<1>6. Append(l.members, PlacedAt(mem, o)) \in Seq(Placed)
  BY <1>3 DEF MemberLayouts
<1>7. /\ (IF l.alignment < a THEN a ELSE l.alignment) \in Alignments
      /\ l.alignment <= (IF l.alignment < a THEN a ELSE l.alignment)
      /\ a <= (IF l.alignment < a THEN a ELSE l.alignment)
  BY <1>1 DEF MemberLayouts, Alignments
<1>8. m \in MemberLayouts
  BY <1>4, <1>5, <1>6, <1>7 DEF MemberLayouts
<1> QED
  BY <1>1, <1>2, <1>4, <1>7, <1>8 DEF size, a, o, m

\* The fold is a loop: the layouts after 0, 1, 2... members, each made of the one before.
LEMMA MembersLoop ==
    ASSUME NEW types, NEW members, Sized(types, members)
    PROVE  \E L \in [0 .. Len(members) -> MemberLayouts] :
              /\ L[0] = NoMembers
              /\ \A n \in 1 .. Len(members) : L[n] = PlaceMember(types, L[n - 1], members[n])
              /\ MembersPlaced(types, members) = L[Len(members)]
<1> DEFINE N == Len(members)
           Step(l, k) == PlaceMember(types, l, members[k])
           Rec(g) == [s \in SUBSET (1 .. N) |->
                        IF s = {} THEN NoMembers ELSE Step(g[s \ {Max(s)}], Max(s))]
           G == [k \in 1 .. N |-> [l \in MemberLayouts |-> Step(l, k)]]
           W == CHOOSE g : g = Rec(g)
<1>1. N \in Nat /\ DOMAIN members = 1 .. N /\ \A k \in 1 .. N : members[k] \in Fields
  BY DEF Sized
<1>2. \A k \in 1 .. N, l \in MemberLayouts : Step(l, k) \in MemberLayouts
  BY <1>1, PlaceMemberIs DEF Sized
<1>3. NoMembers \in MemberLayouts
  BY DEF NoMembers, MemberLayouts, Alignments
<1>4. PICK f \in [SUBSET (1 .. N) -> MemberLayouts] : FoldOf(f, N, NoMembers, G)
  <2>1. G \in [1 .. N -> [MemberLayouts -> MemberLayouts]]
    <3> HIDE DEF Step, N
    <3> QED
      BY <1>2
  <2> HIDE DEF G, N
  <2> QED
    BY <1>1, <1>3, <2>1, FoldExists
<1>5. f = Rec(f)
  <2>1. ASSUME NEW s \in SUBSET (1 .. N), s # {}
        PROVE  G[Max(s)][f[s \ {Max(s)}]] = Step(f[s \ {Max(s)}], Max(s))
    <3>1. Max(s) \in 1 .. N
      <4> HIDE DEF N
      <4> QED
        BY <1>1, <2>1, MaxIn
    <3>2. f[s \ {Max(s)}] \in MemberLayouts
      <4> HIDE DEF N
      <4> QED
        BY <1>4
    <3> HIDE DEF Step, N
    <3> QED
      BY <3>1, <3>2
  <2> HIDE DEF G, Step, N
  <2> QED
    BY <1>4, <2>1 DEF FoldOf
<1>6. W = Rec(W)
  <2> HIDE DEF Rec
  <2> QED
    BY <1>5
<1>7. MembersPlaced(types, members) = W[1 .. N]
  <2> HIDE DEF N
  <2> QED
    BY <1>1, Zenon DEF MembersPlaced, FoldLeft, MapThenFoldSet
<1>8. W[{}] = NoMembers
  <2> HIDE DEF Step, W, N
  <2> QED
    BY <1>6
<1>9. ASSUME NEW n \in 1 .. N
      PROVE  W[1 .. n] = Step(W[1 .. (n - 1)], n)
  <2>1. 1 .. n # {} /\ Max(1 .. n) = n /\ (1 .. n) \ {n} = 1 .. (n - 1)
    BY Segments
  <2>2. 1 .. n \in SUBSET (1 .. N)
    BY <1>1
  <2> HIDE DEF Step, W, N
  <2> QED
    BY <1>6, <2>1, <2>2
<1> DEFINE L == [n \in 0 .. N |-> W[1 .. n]]
<1>10. L[0] = NoMembers
  <2>1. 1 .. 0 = {} /\ 0 \in 0 .. N
    BY <1>1
  <2> HIDE DEF W, N
  <2> QED
    BY <1>8, <2>1
<1>11. ASSUME NEW n \in 1 .. N PROVE L[n] = Step(L[n - 1], n)
  <2>1. n \in 0 .. N /\ n - 1 \in 0 .. N
    BY <1>1
  <2> HIDE DEF Step, W, N
  <2> QED
    BY <1>9, <2>1
<1>12. L \in [0 .. N -> MemberLayouts]
  <2> DEFINE S == {n \in 0 .. N : L[n] \in MemberLayouts}
  <2>1. 0 \in S
    <3> HIDE DEF L, N
    <3> QED
      BY <1>1, <1>3, <1>10
  <2>2. ASSUME NEW n \in 0 .. N, n \in S, n < N PROVE n + 1 \in S
    <3>1. n + 1 \in 1 .. N /\ (n + 1) - 1 = n /\ n + 1 \in 0 .. N
      BY <1>1, <2>2
    <3> HIDE DEF L, Step, N
    <3> QED
      BY <1>2, <1>11, <2>2, <3>1
  <2>3. 0 .. N \subseteq S
    <3> HIDE DEF S, N
    <3> QED
      BY <1>1, <2>1, <2>2, CountUp
  <2> HIDE DEF W, N
  <2> QED
    BY <2>3
<1>13. L[N] = MembersPlaced(types, members)
  <2> HIDE DEF W, N
  <2> QED
    BY <1>1, <1>7
<1> HIDE DEF L
<1> QED
  BY <1>10, <1>11, <1>12, <1>13

\* The bytes of a field that has its place: from its offset up to this.
EndOf(types, m) == m.offset + SizeOfType(types, m.type)

\* The fields have the types and the order of their declarations.
AsDeclared(placed, fields) ==
    /\ DOMAIN placed = DOMAIN fields
    /\ \A k \in DOMAIN fields :
          placed[k].name = fields[k].name /\ placed[k].type = fields[k].type

\* None is in the bytes of another.
Apart(types, placed) ==
    \A j, k \in DOMAIN placed : j < k => EndOf(types, placed[j]) <= placed[k].offset

\* The first n fields have been placed, from start up to end.
PlacedInv(types, fields, n, placed, start, end) ==
    /\ placed \in Seq(Placed) /\ Len(placed) = n
    /\ \A k \in 1 .. n :
          LET m == placed[k]
          IN  /\ m.name = fields[k].name /\ m.type = fields[k].type
              /\ m.offset \in Nat /\ start <= m.offset /\ EndOf(types, m) <= end
              /\ \A j \in 1 .. n : k < j => EndOf(types, m) <= placed[j].offset

\* The next one is placed behind them.
LEMMA PlacedStep ==
    ASSUME NEW types, NEW fields, Sized(types, fields), NEW n \in 1 .. Len(fields),
           NEW p, p = n - 1, NEW placed, NEW start \in Nat, NEW end \in Nat, NEW o \in Nat,
           start <= end, end <= o, PlacedInv(types, fields, p, placed, start, end),
           NEW new, new = Append(placed, PlacedAt(fields[n], o))
    PROVE  PlacedInv(types, fields, n, new, start, o + SizeOfType(types, fields[n].type))
<1> DEFINE field == fields[n]
           size  == SizeOfType(types, field.type)
<1>1. Len(fields) \in Nat /\ field \in Fields /\ size \in Nat
  BY DEF Sized
<1>2. LET m == PlacedAt(field, o)
      IN  m \in Placed /\ m.offset = o /\ m.type = field.type /\ m.name = field.name
  BY <1>1, PlacedIs
<1>3. placed \in Seq(Placed) /\ Len(placed) = n - 1 /\ n - 1 \in Nat /\ n \in Nat
  BY <1>1 DEF PlacedInv
<1>4. /\ new \in Seq(Placed) /\ Len(new) = n
      /\ new[n] = PlacedAt(field, o)
      /\ \A k \in 1 .. n - 1 : new[k] = placed[k]
  BY <1>2, <1>3
<1>5. ASSUME NEW k \in 1 .. n
      PROVE  LET m == new[k]
             IN  /\ m.name = fields[k].name /\ m.type = fields[k].type
                 /\ m.offset \in Nat /\ start <= m.offset /\ EndOf(types, m) <= o + size
                 /\ \A j \in 1 .. n : k < j => EndOf(types, m) <= new[j].offset
  <2>1. CASE k = n
    <3>1. \A j \in 1 .. n : ~(k < j)
      BY <2>1
    <3>2. LET m == new[n]
          IN  m.name = field.name /\ m.type = field.type /\ m.offset = o
      BY <1>2, <1>4
    <3>3. EndOf(types, new[n]) = o + size
      BY <3>2 DEF EndOf
    <3>4. start <= o
      OBVIOUS
    <3> HIDE DEF size
    <3> QED
      BY <1>1, <2>1, <3>1, <3>2, <3>3, <3>4
  <2>2. CASE k # n
    <3>1. k \in 1 .. n - 1 /\ new[k] = placed[k]
      BY <1>4, <2>2
    <3> DEFINE m == placed[k]
               e == EndOf(types, m)
    <3>2. /\ m.name = fields[k].name /\ m.type = fields[k].type
          /\ m.offset \in Nat /\ start <= m.offset /\ e <= end
          /\ \A j \in 1 .. n - 1 : k < j => e <= placed[j].offset
      BY <3>1 DEF PlacedInv
    <3>3. e \in Int
      <4>1. fields[k] \in Fields /\ SizeOfType(types, fields[k].type) \in Nat
        BY <1>1, <3>1 DEF Sized
      <4> QED
        BY <3>2, <4>1 DEF EndOf
    <3> HIDE DEF m, e
    <3>4. e <= o + size /\ e <= o
      <4> HIDE DEF size
      <4> QED
        BY <1>1, <3>2, <3>3
    <3>5. ASSUME NEW j \in 1 .. n, k < j PROVE e <= new[j].offset
      <4>1. CASE j = n
        BY <1>2, <1>4, <3>4, <4>1
      <4>2. CASE j # n
        <5>1. j \in 1 .. n - 1 /\ new[j] = placed[j]
          BY <1>4, <4>2
        <5> QED
          BY <3>2, <3>5, <5>1
      <4> QED
        BY <4>1, <4>2
    <3> QED
      BY <3>1, <3>2, <3>4, <3>5 DEF m, e
  <2> QED
    BY <2>1, <2>2
<1> QED
  BY <1>4, <1>5 DEF PlacedInv

\* A part of the members has been placed.
MembersInv(types, members, n, l) ==
    /\ PlacedInv(types, members, n, l.members, 0, l.end)
    /\ \A k \in 1 .. n :
          LET a == MemberAlignment(SizeOfType(types, members[k].type))
          IN  l.members[k].offset % a = 0 /\ a <= l.alignment

LEMMA MembersStep ==
    ASSUME NEW types, NEW members, Sized(types, members), NEW n \in 1 .. Len(members),
           NEW l \in MemberLayouts, MembersInv(types, members, n - 1, l)
    PROVE  MembersInv(types, members, n, PlaceMember(types, l, members[n]))
<1> DEFINE mem  == members[n]
           size == SizeOfType(types, mem.type)
           a    == MemberAlignment(size)
           o    == Align(l.end, a)
           new  == PlaceMember(types, l, mem)
<1>1. Len(members) \in Nat /\ mem \in Fields /\ size \in Nat
  BY DEF Sized
<1>2. /\ new \in MemberLayouts /\ a \in Alignments /\ o \in Nat
      /\ o % a = 0 /\ l.end <= o /\ new.end = o + size
      /\ l.alignment <= new.alignment /\ a <= new.alignment
      /\ new.members = Append(l.members, PlacedAt(mem, o))
  BY <1>1, PlaceMemberIs
<1>3. l.end \in Nat /\ l.alignment \in Int /\ new.alignment \in Int
  BY <1>2 DEF MemberLayouts, Alignments
<1>4. /\ new.members[n].offset = o
      /\ \A k \in 1 .. n - 1 : new.members[k] = l.members[k]
  <2>1. l.members \in Seq(Placed) /\ Len(l.members) = n - 1 /\ n \in Nat
    BY <1>1 DEF MembersInv, PlacedInv
  <2>2. PlacedAt(mem, o).offset = o
    BY DEF PlacedAt
  <2>3. PlacedAt(mem, o) \in Placed
    BY <1>1, <1>2, PlacedIs
  <2> HIDE DEF o, new, mem
  <2> QED
    BY <1>2, <2>1, <2>2, <2>3
<1>5. PlacedInv(types, members, n, new.members, 0, new.end)
  <2> DEFINE placed == l.members
             more   == new.members
             start  == 0
             end    == l.end
             p      == n - 1
  <2>1. /\ more = Append(placed, PlacedAt(members[n], o))
        /\ PlacedInv(types, members, p, placed, start, end) /\ p = n - 1
        /\ start \in Nat /\ end \in Nat /\ start <= end /\ end <= o /\ o \in Nat
    BY <1>2, <1>3 DEF MembersInv
  <2> HIDE DEF placed, more, start, end, p, a, o, size, mem, new
  <2>2. PlacedInv(types, members, n, more, start, o + SizeOfType(types, members[n].type))
    BY <2>1, PlacedStep
  <2> QED
    BY <1>2, <2>2 DEF more, start, size, mem
<1>6. ASSUME NEW k \in 1 .. n
      PROVE  LET b == MemberAlignment(SizeOfType(types, members[k].type))
             IN  new.members[k].offset % b = 0 /\ b <= new.alignment
  <2>1. CASE k = n
    <3> HIDE DEF o, new
    <3> QED
      BY <1>2, <1>4, <2>1
  <2>2. CASE k # n
    <3> DEFINE b == MemberAlignment(SizeOfType(types, members[k].type))
    <3>1. k \in 1 .. n - 1
      BY <1>1, <2>2
    <3>2. l.members[k].offset % b = 0 /\ b <= l.alignment
      BY <3>1 DEF MembersInv
    <3>3. b \in Int
      <4>1. SizeOfType(types, members[k].type) \in Nat
        BY <1>1, <3>1 DEF Sized
      <4> QED
        BY <4>1, MemberAlignmentIs DEF Alignments
    <3>4. b <= new.alignment
      <4> HIDE DEF new, b, a
      <4> QED
        BY <1>2, <1>3, <3>2, <3>3
    <3>5. new.members[k].offset % b = 0
      <4> HIDE DEF new, b, o
      <4> QED
        BY <1>4, <3>1, <3>2
    <3> QED
      BY <3>4, <3>5
  <2> QED
    BY <2>1, <2>2
<1> HIDE DEF new
<1>7. MembersInv(types, members, n, new)
  BY <1>5, <1>6 DEF MembersInv
<1> QED
  BY <1>7 DEF new

\* All members have been placed.
LEMMA MembersArePlaced ==
    ASSUME NEW types, NEW members, Sized(types, members)
    PROVE  /\ MembersPlaced(types, members) \in MemberLayouts
           /\ MembersInv(types, members, Len(members), MembersPlaced(types, members))
<1> DEFINE N == Len(members)
<1>1. N \in Nat
  BY DEF Sized
<1>2. PICK L \in [0 .. N -> MemberLayouts] :
        /\ L[0] = NoMembers
        /\ \A n \in 1 .. N : L[n] = PlaceMember(types, L[n - 1], members[n])
        /\ MembersPlaced(types, members) = L[N]
  BY MembersLoop
<1> DEFINE S == {n \in 0 .. N : MembersInv(types, members, n, L[n])}
<1>3. 0 \in S
  <2>1. MembersInv(types, members, 0, NoMembers)
    BY DEF MembersInv, PlacedInv, NoMembers
  <2> HIDE DEF N
  <2> QED
    BY <1>1, <1>2, <2>1
<1>4. ASSUME NEW n \in 0 .. N, n \in S, n < N PROVE n + 1 \in S
  <2>1. n + 1 \in 1 .. N /\ n + 1 \in 0 .. N /\ (n + 1) - 1 = n
    BY <1>1, <1>4
  <2>2. L[n + 1] = PlaceMember(types, L[n], members[n + 1]) /\ L[n] \in MemberLayouts
    <3> HIDE DEF N
    <3> QED
      BY <1>2, <2>1
  <2>3. MembersInv(types, members, n + 1, L[n + 1])
    BY <1>4, <2>1, <2>2, MembersStep
  <2> QED
    BY <2>1, <2>3
<1>5. N \in S
  <2> HIDE DEF S, N
  <2>1. 0 .. N \subseteq S
    BY <1>1, <1>3, <1>4, CountUp
  <2> QED
    BY <1>1, <2>1
<1>6. L[N] \in MemberLayouts
  <2> HIDE DEF N
  <2> QED
    BY <1>1, <1>2
<1> QED
  BY <1>2, <1>5, <1>6

-----------------------------------------------------------------------------
(* A struct *)

\* The type of a struct is laid out: its members are those declared, each at a multiple of
\* its alignment, none in the bytes of another and all in the size of the struct.  The size
\* and the alignment of the struct are multiples of those alignments, so that a member stays
\* aligned where the struct is itself a member, or follows one of its kind.
LaidOut(types, st, info) ==
    /\ AsDeclared(info.members, st.members)
    /\ Apart(types, info.members)
    /\ \A k \in DOMAIN info.members :
          LET m == info.members[k]
              a == MemberAlignment(SizeOfType(types, m.type))
          IN  /\ m.offset >= 0 /\ EndOf(types, m) <= info.size
              /\ m.offset % a = 0 /\ info.size % a = 0
              /\ MemberAlignment(info.size) % a = 0

\* A size that is a multiple of the alignment of a member in it has an alignment that is one too.
LEMMA OuterAlignment ==
    ASSUME NEW inner \in Nat, NEW size \in Nat, inner <= size,
           size % MemberAlignment(inner) = 0
    PROVE  MemberAlignment(size) % MemberAlignment(inner) = 0
<1>1. CASE inner = 2
  BY <1>1 DEF MemberAlignment
<1>2. CASE inner # 2 /\ inner <= 4
  BY <1>2 DEF MemberAlignment
<1>3. CASE inner > 4
  BY <1>3 DEF MemberAlignment
<1> QED
  BY <1>1, <1>2, <1>3

\* generateStruct gives the struct such a type and leaves the other types alone.
LEMMA StructIsLaidOut ==
    ASSUME NEW types, NEW st, Sized(types, st.members)
    PROVE  LET new == GenerateStruct(types, st)
           IN  /\ DOMAIN new = DOMAIN types \cup {st.name}
               /\ \A b \in DOMAIN types : b # st.name => new[b] = types[b]
               /\ new[st.name].size \in Nat
               /\ LaidOut(types, st, new[st.name])
<1> DEFINE layout == MembersPlaced(types, st.members)
           info   == TypeInfo(Align(layout.end, layout.alignment), TRUE, layout.members)
           N      == Len(st.members)
<1>1. GenerateStruct(types, st) =
         [b \in DOMAIN types \cup {st.name} |-> IF b = st.name THEN info ELSE types[b]]
  BY DEF GenerateStruct, MembersPlaced, NoMembers
<1>2. layout \in MemberLayouts /\ MembersInv(types, st.members, N, layout)
  BY MembersArePlaced
<1> HIDE DEF layout
<1>3. /\ info.size \in Nat /\ layout.end <= info.size /\ layout.end \in Nat
      /\ info.size % layout.alignment = 0 /\ layout.alignment \in Alignments
  BY <1>2, AlignIs DEF MemberLayouts, TypeInfo
<1>4. info.members = layout.members /\ info.members \in Seq(Placed) /\ Len(info.members) = N
  BY <1>2 DEF TypeInfo, MembersInv, PlacedInv
<1>5. N \in Nat /\ DOMAIN st.members = 1 .. N
  BY DEF Sized
<1> HIDE DEF info, N
<1>6. DOMAIN info.members = 1 .. N
  BY <1>4
<1>7. ASSUME NEW k \in 1 .. N
      PROVE  LET m == info.members[k]
                 a == MemberAlignment(SizeOfType(types, m.type))
             IN  /\ m.name = st.members[k].name /\ m.type = st.members[k].type
                 /\ \A j \in 1 .. N : k < j => EndOf(types, m) <= info.members[j].offset
                 /\ m.offset >= 0 /\ EndOf(types, m) <= info.size
                 /\ m.offset % a = 0 /\ info.size % a = 0
                 /\ MemberAlignment(info.size) % a = 0
  <2> DEFINE m    == info.members[k]
             size == SizeOfType(types, m.type)
             a    == MemberAlignment(size)
  <2>1. /\ m.name = st.members[k].name /\ m.type = st.members[k].type
        /\ m.offset \in Nat /\ EndOf(types, m) <= layout.end
        /\ \A j \in 1 .. N : k < j => EndOf(types, m) <= info.members[j].offset
    BY <1>2, <1>4 DEF MembersInv, PlacedInv
  <2>2. m.offset % a = 0 /\ a <= layout.alignment
    BY <1>2, <1>4, <2>1 DEF MembersInv
  <2>3. size \in Nat
    BY <1>5, <2>1 DEF Sized
  <2>4. EndOf(types, m) = m.offset + size
    BY DEF EndOf
  <2>5. a \in Alignments
    BY <2>3, MemberAlignmentIs
  <2>6. info.size % a = 0
    <3> HIDE DEF a
    <3> QED
      BY <1>3, <2>2, <2>5, AlignmentsDivide
  <2>7. EndOf(types, m) <= info.size /\ size <= info.size
    <3> HIDE DEF m, size
    <3> QED
      BY <1>3, <2>1, <2>3, <2>4
  <2>8. MemberAlignment(info.size) % a = 0
    <3> HIDE DEF size
    <3> QED
      BY <1>3, <2>3, <2>6, <2>7, OuterAlignment
  <2> HIDE DEF m, size, a
  <2>9. m.offset >= 0
    BY <2>1
  <2> QED
    BY <2>1, <2>2, <2>6, <2>7, <2>8, <2>9 DEF m, size, a
<1>8. LaidOut(types, st, info)
  <2>1. AsDeclared(info.members, st.members)
    BY <1>5, <1>6, <1>7 DEF AsDeclared
  <2>2. Apart(types, info.members)
    BY <1>6, <1>7 DEF Apart
  <2> QED
    BY <1>6, <1>7, <2>1, <2>2 DEF LaidOut
<1> QED
  BY <1>1, <1>3, <1>8

-----------------------------------------------------------------------------
(* All structs of a program *)

StructDeclarations == [name : STRING, members : Seq(Fields)]

\* The names of the types after the first n structs.
NamesBefore(structs, n) == DOMAIN PrimitiveTypes \cup {structs[j].name : j \in 1 .. n}

\* The members have types that are known: pointers, primitive types and structs before.
UsesOnly(st, names) ==
    \A k \in DOMAIN st.members :
        IsPointer(st.members[k].type) \/ st.members[k].type.base \in names

\* Structs that CheckStructs completes one after the other: a name is declared once, and a
\* struct comes after those that it contains.  CheckStructs also completes a struct whose member
\* is declared but has no size yet (Generator.cpp:942, run one_order); those are left out here,
\* and their layout is wrong.
Declarable(structs) ==
    /\ structs \in Seq(StructDeclarations)
    /\ \A n \in DOMAIN structs :
          /\ structs[n].name \notin NamesBefore(structs, n - 1)
          /\ UsesOnly(structs[n], NamesBefore(structs, n - 1))

\* The equation of the fold in TypesOf has a solution.
TypesFold(g, structs, N) ==
    g = [s \in SUBSET (1 .. N) |->
            IF s = {} THEN PrimitiveTypes
            ELSE GenerateStruct(g[s \ {Max(s)}], structs[Max(s)])]

LEMMA TypesFoldExists ==
    ASSUME NEW structs, NEW N \in Nat
    PROVE  \E g : TypesFold(g, structs, N)
<1> DEFINE Solved == {n \in 0 .. N : \E g : TypesFold(g, structs, n)}
<1>1. 0 \in Solved
  <2> DEFINE g == [s \in SUBSET (1 .. 0) |-> PrimitiveTypes]
  <2>1. \A s \in SUBSET (1 .. 0) : s = {}
    OBVIOUS
  <2>2. TypesFold(g, structs, 0)
    BY <2>1 DEF TypesFold
  <2>3. 0 \in 0 .. N
    OBVIOUS
  <2> HIDE DEF g
  <2> QED
    BY Zenon, <2>2, <2>3
<1>2. ASSUME NEW n \in 0 .. N, n \in Solved, n < N PROVE n + 1 \in Solved
  <2>1. PICK g : TypesFold(g, structs, n)
    BY <1>2
  <2> DEFINE top == n + 1
             h == [s \in SUBSET (1 .. top) |->
                     IF top \in s THEN GenerateStruct(g[s \ {top}], structs[top]) ELSE g[s]]
  <2>2. top \in 1 .. N
    BY <1>2
  <2>3. ASSUME NEW s \in SUBSET (1 .. top)
        PROVE  /\ top \in s => s \ {top} \in SUBSET (1 .. n) /\ Max(s) = top
               /\ top \notin s => s \in SUBSET (1 .. n)
    <3>1. top \in s => \A y \in s : top >= y
      BY <1>2
    <3>2. \A y \in s : y # top => y \in 1 .. n
      BY <1>2
    <3>3. s \in SUBSET Int
      BY <1>2
    <3> HIDE DEF top
    <3> QED
      BY <3>1, <3>2, <3>3, MaxIs
  <2>4. \A s \in SUBSET (1 .. top) :
            h[s] = IF top \in s THEN GenerateStruct(g[s \ {top}], structs[top]) ELSE g[s]
    OBVIOUS
  <2>5. ASSUME NEW s \in SUBSET (1 .. top)
        PROVE  h[s] = IF s = {} THEN PrimitiveTypes
                      ELSE GenerateStruct(h[s \ {Max(s)}], structs[Max(s)])
    <3>1. CASE top \in s
      <4>1. Max(s) = top /\ s # {} /\ s \ {top} \in SUBSET (1 .. top) /\ top \notin s \ {top}
        BY <2>3, <3>1
      <4>2. h[s \ {top}] = g[s \ {top}]
        <5> HIDE DEF h
        <5> QED
          BY <2>4, <4>1
      <4> HIDE DEF h, top
      <4> QED
        BY <2>4, <3>1, <4>1, <4>2
    <3>2. CASE top \notin s
      <4>1. s \in SUBSET (1 .. n)
        BY <2>3, <3>2
      <4>2. g[s] = IF s = {} THEN PrimitiveTypes
                   ELSE GenerateStruct(g[s \ {Max(s)}], structs[Max(s)])
        BY <2>1, <4>1 DEF TypesFold
      <4>3. s \ {Max(s)} \in SUBSET (1 .. top) /\ top \notin s \ {Max(s)}
        BY <3>2
      <4>4. h[s] = g[s] /\ h[s \ {Max(s)}] = g[s \ {Max(s)}]
        <5> HIDE DEF h, top
        <5> QED
          BY <2>4, <3>2, <4>3
      <4> HIDE DEF h, top
      <4> QED
        BY <4>2, <4>4
    <3> QED
      BY <3>1, <3>2
  <2>6. h = [s \in SUBSET (1 .. top) |-> h[s]]
    OBVIOUS
  <2>7. TypesFold(h, structs, top)
    <3> HIDE DEF h, top
    <3> QED
      BY <2>5, <2>6 DEF TypesFold
  <2>8. top \in 0 .. N
    BY <1>2
  <2> HIDE DEF h, top
  <2> QED
    BY Zenon, <2>7, <2>8 DEF top
<1>3. N \in Solved
  <2> HIDE DEF Solved
  <2>1. 0 .. N \subseteq Solved
    BY <1>1, <1>2, CountUp
  <2> QED
    BY <2>1
<1> QED
  BY <1>3

\* CheckStructs as a loop: the types after 0, 1, 2... structs.
LEMMA TypesLoop ==
    ASSUME NEW structs, Declarable(structs)
    PROVE  \E T : /\ DOMAIN T = 0 .. Len(structs)
                  /\ T[0] = PrimitiveTypes
                  /\ \A n \in 1 .. Len(structs) : T[n] = GenerateStruct(T[n - 1], structs[n])
                  /\ TypesOf(structs) = T[Len(structs)]
<1> DEFINE N == Len(structs)
           Rec(g) == [s \in SUBSET (1 .. N) |->
                        IF s = {} THEN PrimitiveTypes
                        ELSE GenerateStruct(g[s \ {Max(s)}], structs[Max(s)])]
           W == CHOOSE g : g = Rec(g)
<1>1. N \in Nat /\ DOMAIN structs = 1 .. N
  BY DEF Declarable
<1>2. W = Rec(W)
  <2>1. PICK g : TypesFold(g, structs, N)
    BY <1>1, TypesFoldExists
  <2>2. g = Rec(g)
    BY <2>1 DEF TypesFold
  <2> HIDE DEF Rec
  <2> QED
    BY <2>2
<1>3. TypesOf(structs) = W[1 .. N]
  <2> HIDE DEF N
  <2> QED
    BY <1>1, Zenon DEF TypesOf, FoldLeft, MapThenFoldSet
<1>4. W[{}] = PrimitiveTypes
  <2> HIDE DEF W, N
  <2> QED
    BY <1>2
<1>5. ASSUME NEW n \in 1 .. N
      PROVE  W[1 .. n] = GenerateStruct(W[1 .. (n - 1)], structs[n])
  <2>1. 1 .. n # {} /\ Max(1 .. n) = n /\ (1 .. n) \ {n} = 1 .. (n - 1)
    BY Segments
  <2>2. 1 .. n \in SUBSET (1 .. N)
    BY <1>1
  <2> HIDE DEF W, N
  <2> QED
    BY <1>2, <2>1, <2>2
<1> DEFINE T == [n \in 0 .. N |-> W[1 .. n]]
<1>6. T[0] = PrimitiveTypes
  <2>1. 1 .. 0 = {} /\ 0 \in 0 .. N
    BY <1>1
  <2> HIDE DEF W, N
  <2> QED
    BY <1>4, <2>1
<1>7. ASSUME NEW n \in 1 .. N PROVE T[n] = GenerateStruct(T[n - 1], structs[n])
  <2>1. n \in 0 .. N /\ n - 1 \in 0 .. N
    BY <1>1
  <2> HIDE DEF W, N
  <2> QED
    BY <1>5, <2>1
<1>8. T[N] = TypesOf(structs) /\ DOMAIN T = 0 .. N
  <2> HIDE DEF W, N
  <2> QED
    BY <1>1, <1>3
<1> HIDE DEF T
<1> QED
  BY <1>6, <1>7, <1>8

\* The types after the first n structs: all names and no others, all with a size, and the
\* structs laid out.
TypesInv(structs, n, types) ==
    /\ DOMAIN types = NamesBefore(structs, n)
    /\ \A b \in DOMAIN types : types[b].size \in Nat
    /\ \A k \in 1 .. n : LaidOut(types, structs[k], types[structs[k].name])

\* A type that is known keeps its size when a new one is added.
LEMMA SizesStay ==
    ASSUME NEW types, NEW new, NEW x,
           \A b \in DOMAIN types : b # x => new[b] = types[b], x \notin DOMAIN types,
           NEW type, IsPointer(type) \/ type.base \in DOMAIN types
    PROVE  SizeOfType(new, type) = SizeOfType(types, type)
<1>1. CASE IsPointer(type)
  BY <1>1 DEF SizeOfType
<1>2. CASE type.base \in DOMAIN types /\ ~IsPointer(type)
  <2>1. new[type.base] = types[type.base]
    BY <1>2
  <2> QED
    BY <1>2, <2>1 DEF SizeOfType
<1> QED
  BY <1>1, <1>2

\* So a struct that is laid out stays so.
LEMMA StaysLaidOut ==
    ASSUME NEW types, NEW new, NEW x,
           \A b \in DOMAIN types : b # x => new[b] = types[b], x \notin DOMAIN types,
           NEW st, UsesOnly(st, DOMAIN types),
           NEW info, LaidOut(types, st, info)
    PROVE  LaidOut(new, st, info)
<1>2. ASSUME NEW k \in DOMAIN info.members
      PROVE  LET m == info.members[k]
             IN  /\ SizeOfType(new, m.type) = SizeOfType(types, m.type)
                 /\ EndOf(new, m) = EndOf(types, m)
  <2>1. k \in DOMAIN st.members /\ info.members[k].type = st.members[k].type
    BY DEF LaidOut, AsDeclared
  <2>2. IsPointer(st.members[k].type) \/ st.members[k].type.base \in DOMAIN types
    BY <2>1 DEF UsesOnly
  <2>3. SizeOfType(new, st.members[k].type) = SizeOfType(types, st.members[k].type)
    BY <2>2, SizesStay
  <2> QED
    BY <2>1, <2>3 DEF EndOf
<1>3. Apart(new, info.members)
  <2> SUFFICES ASSUME NEW j \in DOMAIN info.members, NEW k \in DOMAIN info.members, j < k
               PROVE  EndOf(new, info.members[j]) <= info.members[k].offset
    BY DEF Apart
  <2>1. EndOf(types, info.members[j]) <= info.members[k].offset
    BY DEF LaidOut, Apart
  <2> QED
    BY <1>2, <2>1
<1>4. AsDeclared(info.members, st.members)
  BY DEF LaidOut
<1>5. ASSUME NEW k \in DOMAIN info.members
      PROVE  LET m == info.members[k]
                 a == MemberAlignment(SizeOfType(new, m.type))
             IN  /\ m.offset >= 0 /\ EndOf(new, m) <= info.size
                 /\ m.offset % a = 0 /\ info.size % a = 0
                 /\ MemberAlignment(info.size) % a = 0
  <2>1. LET m == info.members[k]
            a == MemberAlignment(SizeOfType(types, m.type))
        IN  /\ m.offset >= 0 /\ EndOf(types, m) <= info.size
            /\ m.offset % a = 0 /\ info.size % a = 0
            /\ MemberAlignment(info.size) % a = 0
    BY DEF LaidOut
  <2> QED
    BY <1>2, <2>1
<1> QED
  BY <1>3, <1>4, <1>5 DEF LaidOut

LEMMA TypesStep ==
    ASSUME NEW structs, Declarable(structs), NEW n \in 1 .. Len(structs),
           NEW types, TypesInv(structs, n - 1, types)
    PROVE  TypesInv(structs, n, GenerateStruct(types, structs[n]))
<1> DEFINE st  == structs[n]
           new == GenerateStruct(types, st)
<1>1. /\ Len(structs) \in Nat /\ DOMAIN structs = 1 .. Len(structs)
      /\ n \in DOMAIN structs /\ n \in Nat /\ n - 1 \in Nat
  BY DEF Declarable
<1>2. st \in StructDeclarations
  BY <1>1 DEF Declarable
<1>3. st.members \in Seq(Fields)
  BY <1>2 DEF StructDeclarations
<1>4. DOMAIN types = NamesBefore(structs, n - 1) /\ \A b \in DOMAIN types : types[b].size \in Nat
  BY DEF TypesInv
<1>5. st.name \notin DOMAIN types /\ UsesOnly(st, DOMAIN types)
  BY <1>1, <1>4 DEF Declarable
<1>6. Sized(types, st.members)
  <2>1. ASSUME NEW k \in DOMAIN st.members
        PROVE  SizeOfType(types, st.members[k].type) \in Nat
    <3>1. IsPointer(st.members[k].type) \/ st.members[k].type.base \in DOMAIN types
      BY <1>5 DEF UsesOnly
    <3> QED
      BY <1>4, <3>1 DEF SizeOfType
  <2> QED
    BY <1>3, <2>1 DEF Sized
<1>7. /\ DOMAIN new = DOMAIN types \cup {st.name}
      /\ \A b \in DOMAIN types : b # st.name => new[b] = types[b]
      /\ new[st.name].size \in Nat
      /\ LaidOut(types, st, new[st.name])
  BY <1>6, StructIsLaidOut
<1> HIDE DEF new
<1>8. DOMAIN new = NamesBefore(structs, n)
  <2>1. \A j \in 1 .. n : j = n \/ j \in 1 .. (n - 1)
    BY <1>1
  <2>2. \A j \in 1 .. (n - 1) : j \in 1 .. n
    BY <1>1
  <2>3. n \in 1 .. n
    BY <1>1
  <2>4. {structs[j].name : j \in 1 .. n} = {structs[j].name : j \in 1 .. (n - 1)} \cup {st.name}
    BY <2>1, <2>2, <2>3
  <2> QED
    BY <1>4, <1>7, <2>4 DEF NamesBefore
<1>9. ASSUME NEW k \in 1 .. n PROVE LaidOut(new, structs[k], new[structs[k].name])
  <2>1. CASE k = n
    BY <1>5, <1>7, <2>1, StaysLaidOut
  <2>2. CASE k # n
    <3>1. k \in 1 .. (n - 1) /\ k \in DOMAIN structs
      BY <1>1, <2>2
    <3>2. LaidOut(types, structs[k], types[structs[k].name])
      BY <3>1 DEF TypesInv
    <3>3. structs[k].name \in DOMAIN types
      BY <1>4, <3>1 DEF NamesBefore
    <3>4. UsesOnly(structs[k], DOMAIN types)
      <4>1. UsesOnly(structs[k], NamesBefore(structs, k - 1))
        BY <3>1 DEF Declarable
      <4>2. \A j \in 1 .. (k - 1) : j \in 1 .. (n - 1)
        BY <1>1, <3>1
      <4>3. NamesBefore(structs, k - 1) \subseteq NamesBefore(structs, n - 1)
        BY <4>2 DEF NamesBefore
      <4> QED
        BY <1>4, <4>1, <4>3 DEF UsesOnly
    <3>5. new[structs[k].name] = types[structs[k].name]
      BY <1>5, <1>7, <3>3
    <3> QED
      BY <1>5, <1>7, <3>2, <3>4, <3>5, StaysLaidOut
  <2> QED
    BY <2>1, <2>2
<1>10. \A b \in DOMAIN new : new[b].size \in Nat
  BY <1>4, <1>7
<1>11. TypesInv(structs, n, new)
  BY <1>8, <1>9, <1>10 DEF TypesInv
<1> QED
  BY <1>11 DEF new

\* Every struct of any that are Declarable has its members in their order, none in the bytes of another,
\* each at a multiple of its alignment, also where the struct is a member of a struct, and the
\* sizes by which the generator copies, pushes and pops values are natural numbers.
THEOREM StructsAreLaidOut ==
    ASSUME NEW structs, Declarable(structs)
    PROVE  LET types == TypesOf(structs)
           IN  /\ \A b \in DOMAIN types : types[b].size \in Nat
               /\ \A k \in DOMAIN structs :
                     LaidOut(types, structs[k], types[structs[k].name])
<1> DEFINE N == Len(structs)
<1>1. N \in Nat /\ DOMAIN structs = 1 .. N
  BY DEF Declarable
<1>2. PICK T : /\ T[0] = PrimitiveTypes
               /\ \A n \in 1 .. N : T[n] = GenerateStruct(T[n - 1], structs[n])
               /\ TypesOf(structs) = T[N]
  BY TypesLoop
<1> DEFINE S == {n \in 0 .. N : TypesInv(structs, n, T[n])}
<1>3. 0 \in S
  <2>1. NamesBefore(structs, 0) = DOMAIN PrimitiveTypes
    BY DEF NamesBefore
  <2>2. \A b \in DOMAIN PrimitiveTypes : PrimitiveTypes[b].size \in Nat
    BY DEF PrimitiveTypes, TypeInfo
  <2>3. TypesInv(structs, 0, PrimitiveTypes)
    BY <2>1, <2>2 DEF TypesInv
  <2> HIDE DEF N
  <2> QED
    BY <1>1, <1>2, <2>3
<1>4. ASSUME NEW n \in 0 .. N, n \in S, n < N PROVE n + 1 \in S
  <2>1. n + 1 \in 1 .. N /\ n + 1 \in 0 .. N /\ (n + 1) - 1 = n
    BY <1>1, <1>4
  <2>2. T[n + 1] = GenerateStruct(T[n], structs[n + 1])
    <3> HIDE DEF N
    <3> QED
      BY <1>2, <2>1
  <2>3. TypesInv(structs, n + 1, T[n + 1])
    BY <1>4, <2>1, <2>2, TypesStep
  <2> QED
    BY <2>1, <2>3
<1>5. N \in S
  <2> HIDE DEF S, N
  <2>1. 0 .. N \subseteq S
    BY <1>1, <1>3, <1>4, CountUp
  <2> QED
    BY <1>1, <2>1
<1>6. TypesInv(structs, N, TypesOf(structs))
  BY <1>2, <1>5
<1> HIDE DEF N
<1> QED
  BY <1>1, <1>6 DEF TypesInv

-----------------------------------------------------------------------------
(* The parameters of a function *)

NoParameters == [end |-> 16, parameters |-> << >>]

ParameterLayouts == [end : Nat, parameters : Seq(Placed)]

ParametersPlaced(types, parameters) ==
    FoldLeft(LAMBDA l, param : PlaceParameter(types, l, param), NoParameters, parameters)

\* What the loop of CheckFunction does to the offset and the parameters.
LEMMA PlaceParameterIs ==
    ASSUME NEW types, NEW l \in ParameterLayouts, NEW param \in Fields,
           SizeOfType(types, param.type) \in Nat
    PROVE  LET size == SizeOfType(types, param.type)
               a    == ParameterAlignment(size)
               new  == PlaceParameter(types, l, param)
               o    == Align(l.end, a)
           IN  /\ new \in ParameterLayouts /\ o \in Nat /\ o % a = 0 /\ l.end <= o
               /\ new.end = o + size
               /\ new.parameters = Append(l.parameters, PlacedAt(param, o))
<1> DEFINE size == SizeOfType(types, param.type)
           a    == ParameterAlignment(size)
           o    == Align(l.end, a)
           new  == PlaceParameter(types, l, param)
<1>1. o \in Nat /\ o % a = 0 /\ l.end <= o
  <2>1. a \in Alignments
    BY ParameterAlignmentIs
  <2>2. l.end \in Nat
    BY DEF ParameterLayouts
  <2> HIDE DEF a
  <2> QED
    BY <2>1, <2>2, AlignIs
<1>2. PlacedAt(param, o) \in Placed
  BY <1>1, PlacedIs
<1>3. new = [end |-> o + size, parameters |-> Append(l.parameters, PlacedAt(param, o))]
  BY DEF PlaceParameter
<1> HIDE DEF size, a, o, new
<1>4. o + size \in Nat
  BY <1>1 DEF size
<1>5. Append(l.parameters, PlacedAt(param, o)) \in Seq(Placed)
  BY <1>2 DEF ParameterLayouts
<1>6. new \in ParameterLayouts
  BY <1>3, <1>4, <1>5 DEF ParameterLayouts
<1> QED
  BY <1>1, <1>3, <1>6 DEF size, a, o, new

\* The fold is a loop: the layouts after 0, 1, 2... parameters.
LEMMA ParametersLoop ==
    ASSUME NEW types, NEW parameters, Sized(types, parameters)
    PROVE  \E L \in [0 .. Len(parameters) -> ParameterLayouts] :
              /\ L[0] = NoParameters
              /\ \A n \in 1 .. Len(parameters) :
                    L[n] = PlaceParameter(types, L[n - 1], parameters[n])
              /\ ParametersPlaced(types, parameters) = L[Len(parameters)]
<1> DEFINE N == Len(parameters)
           Step(l, k) == PlaceParameter(types, l, parameters[k])
           Rec(g) == [s \in SUBSET (1 .. N) |->
                        IF s = {} THEN NoParameters ELSE Step(g[s \ {Max(s)}], Max(s))]
           G == [k \in 1 .. N |-> [l \in ParameterLayouts |-> Step(l, k)]]
           W == CHOOSE g : g = Rec(g)
<1>1. N \in Nat /\ DOMAIN parameters = 1 .. N /\ \A k \in 1 .. N : parameters[k] \in Fields
  BY DEF Sized
<1>2. \A k \in 1 .. N, l \in ParameterLayouts : Step(l, k) \in ParameterLayouts
  BY <1>1, PlaceParameterIs DEF Sized
<1>3. NoParameters \in ParameterLayouts
  BY DEF NoParameters, ParameterLayouts
<1>4. PICK f \in [SUBSET (1 .. N) -> ParameterLayouts] : FoldOf(f, N, NoParameters, G)
  <2>1. G \in [1 .. N -> [ParameterLayouts -> ParameterLayouts]]
    <3> HIDE DEF Step, N
    <3> QED
      BY <1>2
  <2> HIDE DEF G, N
  <2> QED
    BY <1>1, <1>3, <2>1, FoldExists
<1>5. f = Rec(f)
  <2>1. ASSUME NEW s \in SUBSET (1 .. N), s # {}
        PROVE  G[Max(s)][f[s \ {Max(s)}]] = Step(f[s \ {Max(s)}], Max(s))
    <3>1. Max(s) \in 1 .. N
      <4> HIDE DEF N
      <4> QED
        BY <1>1, <2>1, MaxIn
    <3>2. f[s \ {Max(s)}] \in ParameterLayouts
      <4> HIDE DEF N
      <4> QED
        BY <1>4
    <3> HIDE DEF Step, N
    <3> QED
      BY <3>1, <3>2
  <2> HIDE DEF G, Step, N
  <2> QED
    BY <1>4, <2>1 DEF FoldOf
<1>6. W = Rec(W)
  <2> HIDE DEF Rec
  <2> QED
    BY <1>5
<1>7. ParametersPlaced(types, parameters) = W[1 .. N]
  <2> HIDE DEF N
  <2> QED
    BY <1>1, Zenon DEF ParametersPlaced, FoldLeft, MapThenFoldSet
<1>8. W[{}] = NoParameters
  <2> HIDE DEF Step, W, N
  <2> QED
    BY <1>6
<1>9. ASSUME NEW n \in 1 .. N
      PROVE  W[1 .. n] = Step(W[1 .. (n - 1)], n)
  <2>1. 1 .. n # {} /\ Max(1 .. n) = n /\ (1 .. n) \ {n} = 1 .. (n - 1)
    BY Segments
  <2>2. 1 .. n \in SUBSET (1 .. N)
    BY <1>1
  <2> HIDE DEF Step, W, N
  <2> QED
    BY <1>6, <2>1, <2>2
<1> DEFINE L == [n \in 0 .. N |-> W[1 .. n]]
<1>10. L[0] = NoParameters
  <2>1. 1 .. 0 = {} /\ 0 \in 0 .. N
    BY <1>1
  <2> HIDE DEF W, N
  <2> QED
    BY <1>8, <2>1
<1>11. ASSUME NEW n \in 1 .. N PROVE L[n] = Step(L[n - 1], n)
  <2>1. n \in 0 .. N /\ n - 1 \in 0 .. N
    BY <1>1
  <2> HIDE DEF Step, W, N
  <2> QED
    BY <1>9, <2>1
<1>12. L \in [0 .. N -> ParameterLayouts]
  <2> DEFINE S == {n \in 0 .. N : L[n] \in ParameterLayouts}
  <2>1. 0 \in S
    <3> HIDE DEF L, N
    <3> QED
      BY <1>1, <1>3, <1>10
  <2>2. ASSUME NEW n \in 0 .. N, n \in S, n < N PROVE n + 1 \in S
    <3>1. n + 1 \in 1 .. N /\ (n + 1) - 1 = n /\ n + 1 \in 0 .. N
      BY <1>1, <2>2
    <3> HIDE DEF L, Step, N
    <3> QED
      BY <1>2, <1>11, <2>2, <3>1
  <2>3. 0 .. N \subseteq S
    <3> HIDE DEF S, N
    <3> QED
      BY <1>1, <2>1, <2>2, CountUp
  <2> HIDE DEF W, N
  <2> QED
    BY <2>3
<1>13. L[N] = ParametersPlaced(types, parameters)
  <2> HIDE DEF W, N
  <2> QED
    BY <1>1, <1>7
<1> HIDE DEF L
<1> QED
  BY <1>10, <1>11, <1>12, <1>13

\* A part of the parameters has been placed.
ParametersInv(types, parameters, n, l) ==
    /\ PlacedInv(types, parameters, n, l.parameters, 16, l.end) /\ 16 <= l.end
    /\ \A k \in 1 .. n :
          l.parameters[k].offset % ParameterAlignment(SizeOfType(types, parameters[k].type)) = 0

LEMMA ParametersStep ==
    ASSUME NEW types, NEW parameters, Sized(types, parameters), NEW n \in 1 .. Len(parameters),
           NEW l \in ParameterLayouts, ParametersInv(types, parameters, n - 1, l)
    PROVE  ParametersInv(types, parameters, n, PlaceParameter(types, l, parameters[n]))
<1> DEFINE param == parameters[n]
           size  == SizeOfType(types, param.type)
           a     == ParameterAlignment(size)
           o     == Align(l.end, a)
           new   == PlaceParameter(types, l, param)
<1>1. Len(parameters) \in Nat /\ param \in Fields /\ size \in Nat
  BY DEF Sized
<1>2. /\ new \in ParameterLayouts /\ o \in Nat
      /\ o % a = 0 /\ l.end <= o /\ new.end = o + size
      /\ new.parameters = Append(l.parameters, PlacedAt(param, o))
  BY <1>1, PlaceParameterIs
<1>3. l.end \in Nat /\ 16 <= l.end
  BY DEF ParameterLayouts, ParametersInv
<1>4. /\ new.parameters[n].offset = o
      /\ \A k \in 1 .. n - 1 : new.parameters[k] = l.parameters[k]
  <2>1. l.parameters \in Seq(Placed) /\ Len(l.parameters) = n - 1 /\ n \in Nat
    BY <1>1 DEF ParametersInv, PlacedInv
  <2>2. PlacedAt(param, o).offset = o
    BY DEF PlacedAt
  <2>3. PlacedAt(param, o) \in Placed
    BY <1>1, <1>2, PlacedIs
  <2> HIDE DEF o, new, param
  <2> QED
    BY <1>2, <2>1, <2>2, <2>3
<1>5. PlacedInv(types, parameters, n, new.parameters, 16, new.end)
  <2> DEFINE placed == l.parameters
             more   == new.parameters
             start  == 16
             end    == l.end
             p      == n - 1
  <2>1. /\ more = Append(placed, PlacedAt(parameters[n], o))
        /\ PlacedInv(types, parameters, p, placed, start, end) /\ p = n - 1
        /\ start \in Nat /\ end \in Nat /\ start <= end /\ end <= o /\ o \in Nat
    BY <1>2, <1>3 DEF ParametersInv
  <2> HIDE DEF placed, more, start, end, p, a, o, size, param, new
  <2>2. PlacedInv(types, parameters, n, more, start,
                  o + SizeOfType(types, parameters[n].type))
    BY <2>1, PlacedStep
  <2> QED
    BY <1>2, <2>2 DEF more, start, size, param
<1>6. ASSUME NEW k \in 1 .. n
      PROVE  new.parameters[k].offset
                % ParameterAlignment(SizeOfType(types, parameters[k].type)) = 0
  <2>1. CASE k = n
    <3> HIDE DEF o, new
    <3> QED
      BY <1>2, <1>4, <2>1
  <2>2. CASE k # n
    <3>1. k \in 1 .. n - 1
      BY <1>1, <2>2
    <3>2. l.parameters[k].offset
             % ParameterAlignment(SizeOfType(types, parameters[k].type)) = 0
      BY <3>1 DEF ParametersInv
    <3> HIDE DEF o, new
    <3> QED
      BY <1>4, <3>1, <3>2
  <2> QED
    BY <2>1, <2>2
<1>7. 16 <= new.end
  <2> HIDE DEF o, new, size
  <2> QED
    BY <1>1, <1>2, <1>3
<1> HIDE DEF new
<1>8. ParametersInv(types, parameters, n, new)
  BY <1>5, <1>6, <1>7 DEF ParametersInv
<1> QED
  BY <1>8 DEF new

\* All parameters have been placed.
LEMMA ParametersArePlaced ==
    ASSUME NEW types, NEW parameters, Sized(types, parameters)
    PROVE  /\ ParametersPlaced(types, parameters) \in ParameterLayouts
           /\ ParametersInv(types, parameters, Len(parameters),
                            ParametersPlaced(types, parameters))
<1> DEFINE N == Len(parameters)
<1>1. N \in Nat
  BY DEF Sized
<1>2. PICK L \in [0 .. N -> ParameterLayouts] :
        /\ L[0] = NoParameters
        /\ \A n \in 1 .. N : L[n] = PlaceParameter(types, L[n - 1], parameters[n])
        /\ ParametersPlaced(types, parameters) = L[N]
  BY ParametersLoop
<1> DEFINE S == {n \in 0 .. N : ParametersInv(types, parameters, n, L[n])}
<1>3. 0 \in S
  <2>1. ParametersInv(types, parameters, 0, NoParameters)
    BY DEF ParametersInv, PlacedInv, NoParameters
  <2> HIDE DEF N
  <2> QED
    BY <1>1, <1>2, <2>1
<1>4. ASSUME NEW n \in 0 .. N, n \in S, n < N PROVE n + 1 \in S
  <2>1. n + 1 \in 1 .. N /\ n + 1 \in 0 .. N /\ (n + 1) - 1 = n
    BY <1>1, <1>4
  <2>2. L[n + 1] = PlaceParameter(types, L[n], parameters[n + 1]) /\ L[n] \in ParameterLayouts
    <3> HIDE DEF N
    <3> QED
      BY <1>2, <2>1
  <2>3. ParametersInv(types, parameters, n + 1, L[n + 1])
    BY <1>4, <2>1, <2>2, ParametersStep
  <2> QED
    BY <2>1, <2>3
<1>5. N \in S
  <2> HIDE DEF S, N
  <2>1. 0 .. N \subseteq S
    BY <1>1, <1>3, <1>4, CountUp
  <2> QED
    BY <1>1, <2>1
<1>6. L[N] \in ParameterLayouts
  <2> HIDE DEF N
  <2> QED
    BY <1>1, <1>2
<1> QED
  BY <1>2, <1>5, <1>6

\* A caller stores the arguments of any call in bytes of their own, above the 16 bytes of the
\* link and in the parameters_size bytes that it has reserved, a multiple of 8 as the places
\* of a stack are; the result has a place of its own below the base pointer.
THEOREM ParametersAreLaidOut ==
    ASSUME NEW types, NEW f, Sized(types, f.parameters),
           Valid(f.return_type) => SizeOfType(types, f.return_type) \in Nat
    PROVE  LET signature == CheckFunction(types, f)
               placed    == signature.parameters
           IN  /\ AsDeclared(placed, f.parameters)
               /\ Apart(types, placed)
               /\ \A k \in DOMAIN placed :
                     LET size == SizeOfType(types, placed[k].type)
                     IN  /\ placed[k].offset >= 16
                         /\ placed[k].offset % ParameterAlignment(size) = 0
                         /\ EndOf(types, placed[k]) <= 16 + signature.parameters_size
               /\ signature.parameters_size \in Nat /\ signature.parameters_size % 8 = 0
               /\ signature.return_offset % 8 = 0
               /\ Valid(f.return_type) =>
                     signature.return_offset + SizeOfType(types, f.return_type) <= 0
<1> DEFINE layout    == ParametersPlaced(types, f.parameters)
           signature == CheckFunction(types, f)
           placed    == signature.parameters
           N         == Len(f.parameters)
<1>1. /\ placed = layout.parameters
      /\ signature.parameters_size = Align(layout.end, 8) - 16
      /\ signature.return_offset = IF Valid(f.return_type)
                                   THEN ReturnOffset(SizeOfType(types, f.return_type)) ELSE 0
  BY DEF CheckFunction, ParametersPlaced, NoParameters
<1>2. layout \in ParameterLayouts /\ ParametersInv(types, f.parameters, N, layout)
  BY ParametersArePlaced
<1> HIDE DEF layout, signature
<1>3. N \in Nat /\ DOMAIN f.parameters = 1 .. N
  BY DEF Sized
<1>4. /\ layout.end \in Nat /\ 16 <= layout.end
      /\ Align(layout.end, 8) \in Nat /\ Align(layout.end, 8) % 8 = 0
      /\ layout.end <= Align(layout.end, 8)
  BY <1>2, AlignIs DEF ParameterLayouts, ParametersInv, Alignments
<1>5. /\ signature.parameters_size \in Nat /\ signature.parameters_size % 8 = 0
      /\ layout.end <= 16 + signature.parameters_size
  BY <1>1, <1>4
<1>6. placed \in Seq(Placed) /\ Len(placed) = N
  BY <1>1, <1>2 DEF ParametersInv, PlacedInv
<1> HIDE DEF placed, N
<1>7. DOMAIN placed = 1 .. N
  BY <1>6
<1>8. ASSUME NEW k \in 1 .. N
      PROVE  LET m    == placed[k]
                 size == SizeOfType(types, m.type)
             IN  /\ m.name = f.parameters[k].name /\ m.type = f.parameters[k].type
                 /\ \A j \in 1 .. N : k < j => EndOf(types, m) <= placed[j].offset
                 /\ m.offset >= 16 /\ m.offset % ParameterAlignment(size) = 0
                 /\ EndOf(types, m) <= 16 + signature.parameters_size
  <2> DEFINE m    == placed[k]
             size == SizeOfType(types, m.type)
             e    == EndOf(types, m)
  <2>1. /\ m.name = f.parameters[k].name /\ m.type = f.parameters[k].type
        /\ m.offset \in Nat /\ 16 <= m.offset /\ e <= layout.end
        /\ \A j \in 1 .. N : k < j => e <= placed[j].offset
    BY <1>1, <1>2 DEF ParametersInv, PlacedInv
  <2>2. m.offset % ParameterAlignment(size) = 0
    BY <1>1, <1>2, <2>1 DEF ParametersInv
  <2>3. e \in Int
    BY <1>3, <2>1 DEF Sized, EndOf
  <2>4. e <= 16 + signature.parameters_size
    <3> HIDE DEF e
    <3> QED
      BY <1>4, <1>5, <2>1, <2>3
  <2>5. m.offset >= 16
    <3> HIDE DEF m
    <3> QED
      BY <2>1
  <2> QED
    BY <2>1, <2>2, <2>4, <2>5
<1>9. /\ signature.return_offset % 8 = 0
      /\ Valid(f.return_type) =>
            signature.return_offset + SizeOfType(types, f.return_type) <= 0
  <2>1. CASE Valid(f.return_type)
    <3> DEFINE size    == SizeOfType(types, f.return_type)
               aligned == Align(size, 8)
    <3>1. size \in Nat
      BY <2>1
    <3> HIDE DEF size
    <3>2. aligned \in Nat /\ aligned % 8 = 0 /\ size <= aligned
      BY <3>1, AlignIs DEF Alignments
    <3>3. signature.return_offset = - aligned
      BY <1>1, <2>1 DEF ReturnOffset, size
    <3> HIDE DEF aligned
    <3>4. (- aligned) % 8 = 0 /\ - aligned + size <= 0
      BY <3>1, <3>2
    <3> QED
      BY <3>3, <3>4 DEF size
  <2>2. CASE ~ Valid(f.return_type)
    BY <1>1, <2>2
  <2> QED
    BY <2>1, <2>2
<1>10. AsDeclared(placed, f.parameters)
  BY <1>3, <1>7, <1>8 DEF AsDeclared
<1>11. Apart(types, placed)
  BY <1>7, <1>8 DEF Apart
<1> QED
  BY <1>5, <1>7, <1>8, <1>9, <1>10, <1>11 DEF placed, signature
=============================================================================
