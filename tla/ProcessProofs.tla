--------------------------- MODULE ProcessProofs ----------------------------
(***************************************************************************)
(* The inductive invariant of Process and what follows from it, for any    *)
(* number of objects and of spawns, either way to fork, either disposition *)
(* of SIGCHLD and every set of standard descriptors.  Its parts are        *)
(*   PShape    the types;                                                  *)
(*   Kids      each child's report and descriptor table, KidIs: how far    *)
(*             the redirection has come says what the table holds;         *)
(*   Own       the parent's standard descriptors stay open and its pipes   *)
(*             are close-on-exec;                                          *)
(*   Reports   what spawn has read, and what it has returned;              *)
(*   Owners    objects and the spawn in progress share the children;       *)
(*   EndsHeld  each descriptor of the parent belongs to an object, to the  *)
(*             spawn in progress, or was left behind by wait.              *)
(* The first half is about tables alone: which numbers are free, what      *)
(* Pipes opens and what Redirect makes of a table, where the lowest free   *)
(* number may be the target of the dup2 that follows.                      *)
(***************************************************************************)
EXTENDS Process, Lemmas

-----------------------------------------------------------------------------
(* Descriptor tables.                                                      *)

EndName == {"std", "result.rd", "result.wr", "in.rd", "in.wr", "out.rd", "out.wr", "err.rd", "err.wr"}
Pipe == EndName \ {"std"}
Entry == [of : Nat, end : EndName, cloexec : BOOLEAN]

(* Numbers are naturals, and finitely many are in use.                     *)
Tables == {t \in UNION {[D -> Entry] : D \in SUBSET Nat} : IsFiniteSet(DOMAIN t)}

LEMMA TableIs ==
  ASSUME NEW t
  PROVE  t \in Tables <=> /\ DOMAIN t \subseteq Nat /\ IsFiniteSet(DOMAIN t)
                          /\ t = [fd \in DOMAIN t |-> t[fd]]
                          /\ \A fd \in DOMAIN t : t[fd] \in Entry
<1>1. ASSUME t \in Tables
      PROVE  /\ DOMAIN t \subseteq Nat /\ IsFiniteSet(DOMAIN t)
             /\ t = [fd \in DOMAIN t |-> t[fd]]
             /\ \A fd \in DOMAIN t : t[fd] \in Entry
  <2>1. PICK D \in SUBSET Nat : t \in [D -> Entry]
    BY <1>1, Zenon DEF Tables
  <2>2. IsFiniteSet(DOMAIN t)
    BY <1>1, Zenon DEF Tables
  <2> QED
    BY <2>1, <2>2, Zenon
<1>2. ASSUME DOMAIN t \subseteq Nat, IsFiniteSet(DOMAIN t), t = [fd \in DOMAIN t |-> t[fd]],
             \A fd \in DOMAIN t : t[fd] \in Entry
      PROVE  t \in Tables
  <2>1. t \in [DOMAIN t -> Entry]
    BY <1>2, Zenon
  <2>2. t \in UNION {[D -> Entry] : D \in SUBSET Nat}
    BY <1>2, <2>1, Zenon
  <2> QED
    BY <1>2, <2>2, Zenon DEF Tables
<1> QED
  BY <1>1, <1>2, Zenon

(* Bind and Close lead from tables to tables.                              *)
LEMMA BindIs ==
  ASSUME NEW t \in Tables, NEW fd \in Nat, NEW e \in Entry
  PROVE  Bind(t, fd, e) \in Tables
<1>1. PICK u : u = [x \in DOMAIN t \cup {fd} |-> IF x = fd THEN e ELSE t[x]]
  BY Zenon
<1>2. IsFiniteSet(DOMAIN t \cup {fd})
  BY TableIs, FS_AddElement, Zenon
<1>3. u \in Tables
  BY <1>1, <1>2, TableIs, Zenon
<1> QED
  BY <1>1, <1>3, Zenon DEF Bind

LEMMA CloseIs ==
  ASSUME NEW t \in Tables, NEW S
  PROVE  Close(t, S) \in Tables
<1>1. PICK u : u = [x \in DOMAIN t \ S |-> t[x]]
  BY Zenon
<1>2. IsFiniteSet(DOMAIN t \ S)
  BY TableIs, FS_Difference, Zenon
<1>3. u \in Tables
  BY <1>1, <1>2, TableIs, Zenon
<1> QED
  BY <1>1, <1>3, Zenon DEF Close, Restrict

LEMMA NoTable == <<>> \in Tables /\ DOMAIN <<>> = {}
<1>1. DOMAIN <<>> = {}
  OBVIOUS
<1>2. <<>> = [fd \in DOMAIN <<>> |-> <<>>[fd]]
  BY <1>1
<1> QED
  BY <1>1, <1>2, TableIs, FS_EmptySet, Zenon

-----------------------------------------------------------------------------
(* The lowest free numbers.                                                *)

LEMMA RankBounds ==
  ASSUME NEW t \in Tables, NEW fd \in Nat
  PROVE  /\ Rank(t, fd) \in Nat /\ Rank(t, fd) <= fd + 1
         /\ Rank(t, fd) >= fd + 1 - Cardinality(DOMAIN t)
         /\ Cardinality(DOMAIN t) \in Nat
<1> DEFINE I == 0..fd
<1>1. IsFiniteSet(I) /\ Cardinality(I) = fd + 1
  BY FS_Interval
<1>2. IsFiniteSet(DOMAIN t)
  BY TableIs, Zenon
<1>3. /\ IsFiniteSet(I \ DOMAIN t)
      /\ Cardinality(I \ DOMAIN t) = Cardinality(I) - Cardinality(I \cap DOMAIN t)
  BY <1>1, FS_Difference, Zenon
<1>4. /\ IsFiniteSet(I \cap DOMAIN t)
      /\ Cardinality(I \cap DOMAIN t) <= Cardinality(DOMAIN t)
  BY <1>2, FS_Subset, Zenon
<1>5. Cardinality(I \ DOMAIN t) \in Nat /\ Cardinality(I \cap DOMAIN t) \in Nat /\ Cardinality(DOMAIN t) \in Nat
  BY <1>2, <1>3, <1>4, FS_CardinalityType, Zenon
<1>6. Rank(t, fd) = Cardinality(I \ DOMAIN t)
  BY Zenon DEF Rank
<1> QED
  BY <1>1, <1>3, <1>4, <1>5, <1>6

LEMMA RankGrows ==
  ASSUME NEW t \in Tables, NEW x \in Nat, NEW y \in Nat, x <= y
  PROVE  Rank(t, x) <= Rank(t, y)
<1>1. IsFiniteSet((0..y) \ DOMAIN t)
  <2>1. IsFiniteSet(0..y)
    BY FS_Interval
  <2> QED
    BY <2>1, FS_Difference, Zenon
<1>2. (0..x) \ DOMAIN t \in SUBSET ((0..y) \ DOMAIN t)
  OBVIOUS
<1> QED
  BY <1>1, <1>2, FS_Subset, Zenon DEF Rank

LEMMA RankStep ==
  ASSUME NEW t \in Tables, NEW x \in Nat, x # 0
  PROVE  Rank(t, x) = Rank(t, x - 1) + (IF x \in DOMAIN t THEN 0 ELSE 1)
<1> DEFINE I == 0..(x - 1)
<1>1. IsFiniteSet(I) /\ x \notin I /\ 0..x = I \cup {x}
  <2>1. x \notin I /\ 0..x = I \cup {x} /\ x - 1 \in Int /\ 0 \in Int
    OBVIOUS
  <2> QED
    BY <2>1, FS_Interval, Zenon
<1>2. IsFiniteSet(I \ DOMAIN t)
  BY <1>1, FS_Difference, Zenon
<1>3. CASE x \in DOMAIN t
  <2>1. (0..x) \ DOMAIN t = I \ DOMAIN t
    BY <1>1, <1>3, Zenon
  <2>2. Cardinality(I \ DOMAIN t) \in Nat
    BY <1>2, FS_CardinalityType, Zenon
  <2> QED
    BY <1>3, <2>1, <2>2 DEF Rank
<1>4. CASE x \notin DOMAIN t
  <2>1. (0..x) \ DOMAIN t = (I \ DOMAIN t) \cup {x}
    BY <1>1, <1>4, Zenon
  <2>2. Cardinality((I \ DOMAIN t) \cup {x}) = Cardinality(I \ DOMAIN t) + 1
    BY <1>1, <1>2, FS_AddElement, Zenon
  <2> QED
    BY <1>4, <2>1, <2>2, Zenon DEF Rank
<1> QED
  BY <1>3, <1>4, Zenon

(* Free(t, k) exists: of the numbers with k free ones up to them, the      *)
(* least is free itself.                                                   *)
LEMMA FreeIs ==
  ASSUME NEW t \in Tables, NEW k \in Nat, k # 0
  PROVE  Free(t, k) \in Nat \ DOMAIN t /\ Rank(t, Free(t, k)) = k /\ Free(t, k) >= k - 1
<1> DEFINE m == Cardinality(DOMAIN t) + k
           S == {x \in 0..m : Rank(t, x) >= k}
<1>1. m \in Nat /\ m \in S /\ S \subseteq Nat
  BY RankBounds, 0 \in Nat, FS_CardinalityType, TableIs
<1>2. PICK x \in S : \A y \in S : x <= y
  BY <1>1, Least, Zenon
<1>3. x \in 0..m /\ x \in Nat /\ Rank(t, x) >= k /\ Rank(t, x) \in Nat
  BY <1>1, <1>2, RankBounds, Zenon
<1>4. Rank(t, x) = k /\ x \notin DOMAIN t
  <2>1. CASE x = 0
    <3>1. Rank(t, 0) <= 1
      BY RankBounds
    <3>2. 0 \in DOMAIN t => Rank(t, 0) = 0
      <4>1. ASSUME 0 \in DOMAIN t PROVE (0..0) \ DOMAIN t = {}
        BY <4>1
      <4> QED
        BY <4>1, FS_EmptySet, Zenon DEF Rank
    <3> QED
      BY <1>3, <2>1, <3>1, <3>2
  <2>2. CASE x # 0
    <3>1. x - 1 \in 0..m /\ x - 1 \in Nat
      BY <1>1, <1>3, <2>2
    <3>2. ~(x - 1 \in S)
      BY <1>2, <1>3, <3>1
    <3>3. Rank(t, x - 1) < k /\ Rank(t, x - 1) \in Nat
      BY <3>1, <3>2, RankBounds
    <3> QED
      BY <1>3, <2>2, <3>3, RankStep
  <2> QED
    BY <2>1, <2>2, Zenon
<1>5. \E fd \in (0..m) \ DOMAIN t : Rank(t, fd) = k
  BY <1>3, <1>4, Zenon
<1>6. Free(t, k) \in (0..m) \ DOMAIN t /\ Rank(t, Free(t, k)) = k
  BY <1>5, Zenon DEF Free
<1>7. Free(t, k) \in Nat
  BY <1>1, <1>6
<1>8. k <= Free(t, k) + 1
  BY <1>6, <1>7, RankBounds, Zenon
<1> QED
  BY <1>6, <1>7, <1>8

LEMMA FreeOrder ==
  ASSUME NEW t \in Tables, NEW j \in Nat, NEW k \in Nat, j # 0, j < k
  PROVE  Free(t, j) < Free(t, k)
<1>1. /\ Free(t, j) \in Nat /\ Rank(t, Free(t, j)) = j
      /\ Free(t, k) \in Nat /\ Rank(t, Free(t, k)) = k
  BY FreeIs
<1>2. Free(t, k) <= Free(t, j) => k <= j
  BY <1>1, RankGrows, Zenon
<1> QED
  BY <1>1, <1>2

-----------------------------------------------------------------------------
(* The pipes of a spawn.                                                   *)

LEMMA NamesOfEnds ==
  /\ DOMAIN PipeEnds = 1..8 /\ Range(PipeEnds) = Pipe
  /\ \A k \in 1..8 : PipeEnds[k] \in Pipe
  /\ \A j, k \in 1..8 : PipeEnds[j] = PipeEnds[k] => j = k
  /\ \A e \in Pipe : \E k \in 1..8 : e = PipeEnds[k]
<1>1. DOMAIN PipeEnds = 1..8
  BY DEF PipeEnds
<1>2. \A k \in 1..8 : PipeEnds[k] \in Pipe
  BY DEF PipeEnds, Pipe, EndName
<1>3. \A j, k \in 1..8 : PipeEnds[j] = PipeEnds[k] => j = k
  BY DEF PipeEnds
<1>4. \A e \in Pipe : \E k \in 1..8 : e = PipeEnds[k]
  <2>1. /\ PipeEnds[1] = "result.rd" /\ PipeEnds[2] = "result.wr" /\ PipeEnds[3] = "in.rd"
        /\ PipeEnds[4] = "in.wr" /\ PipeEnds[5] = "out.rd" /\ PipeEnds[6] = "out.wr"
        /\ PipeEnds[7] = "err.rd" /\ PipeEnds[8] = "err.wr"
    BY Zenon DEF PipeEnds
  <2> QED
    BY <2>1 DEF Pipe, EndName
<1> QED
  BY <1>1, <1>2, <1>3, <1>4 DEF Range

LEMMA PipesAre ==
  ASSUME NEW t \in Tables, NEW c \in Nat
  PROVE  /\ Pipes(t, c) \in Tables
         /\ DOMAIN Pipes(t, c) = DOMAIN t \cup {Free(t, k) : k \in 1..8}
         /\ \A fd \in DOMAIN t : Pipes(t, c)[fd] = t[fd]
         /\ \A k \in 1..8 :
              Pipes(t, c)[Free(t, k)] = [of |-> c, end |-> PipeEnds[k], cloexec |-> TRUE]
<1> DEFINE F == [k \in 1..8 |-> Free(t, k)]
           S == {F[k] : k \in 1..8}
           b == [fd \in DOMAIN t \cup S |->
                   IF fd \in DOMAIN t THEN t[fd]
                   ELSE [of |-> c, end |-> PipeEnds[Rank(t, fd)], cloexec |-> TRUE]]
<1>1. S = {Free(t, k) : k \in DOMAIN PipeEnds} /\ S = {Free(t, k) : k \in 1..8}
  BY NamesOfEnds
<1>2. Pipes(t, c) = b
  BY <1>1, Zenon DEF Pipes, Open
<1>3. \A k \in 1..8 : F[k] = Free(t, k) /\ F[k] \in Nat \ DOMAIN t /\ Rank(t, F[k]) = k
  BY FreeIs
<1>4. IsFiniteSet(DOMAIN t \cup S)
  <2>1. ASSUME NEW k \in 1..8 PROVE F[k] \in 0..F[8]
    BY <1>3, FreeOrder, k < 8 \/ k = 8
  <2>2. S \in SUBSET (0..F[8])
    BY <2>1, Zenon
  <2>3. F[8] \in Int /\ IsFiniteSet(0..F[8])
    BY <1>3, FS_Interval
  <2>4. IsFiniteSet(S)
    BY <2>2, <2>3, FS_Subset, Zenon
  <2> QED
    BY <2>4, TableIs, FS_Union, Zenon
<1>5. \A fd \in DOMAIN b : b[fd] \in Entry
  <2>1. ASSUME NEW k \in 1..8 PROVE b[F[k]] \in Entry
    BY <1>3, <2>1, NamesOfEnds DEF Entry, Pipe
  <2>2. ASSUME NEW fd \in DOMAIN t PROVE b[fd] \in Entry
    BY <2>2, TableIs, Zenon
  <2> QED
    BY <2>1, <2>2, Zenon
<1>6. DOMAIN b \subseteq Nat
  BY <1>3, TableIs, Zenon
<1>7. b \in Tables
  BY <1>4, <1>5, <1>6, TableIs
<1>8. \A k \in 1..8 : b[F[k]] = [of |-> c, end |-> PipeEnds[k], cloexec |-> TRUE]
  BY <1>3, Zenon
<1> QED
  BY <1>1, <1>2, <1>3, <1>7, <1>8, Zenon

LEMMA ArgsAre ==
  ASSUME NEW t \in Tables, NEW c \in Nat, \A fd \in DOMAIN t : t[fd].of # c
  PROVE  \A k \in 1..8 : Fd(Pipes(t, c), c, PipeEnds[k]) = Free(t, k)
<1> SUFFICES ASSUME NEW k \in 1..8 PROVE Fd(Pipes(t, c), c, PipeEnds[k]) = Free(t, k)
  BY Zenon
<1>0. PICK b : b = Pipes(t, c)
  BY Zenon
<1>a. /\ DOMAIN b = DOMAIN t \cup {Free(t, i) : i \in 1..8}
      /\ \A fd \in DOMAIN t : b[fd] = t[fd]
      /\ \A i \in 1..8 : b[Free(t, i)] = [of |-> c, end |-> PipeEnds[i], cloexec |-> TRUE]
  BY <1>0, PipesAre, Zenon
<1>1. Free(t, k) \in DOMAIN b /\ b[Free(t, k)].of = c /\ b[Free(t, k)].end = PipeEnds[k]
  BY <1>a
<1>2. ASSUME NEW fd \in DOMAIN b, b[fd].of = c, b[fd].end = PipeEnds[k] PROVE fd = Free(t, k)
  <2>1. fd \notin DOMAIN t
    BY <1>a, <1>2, Zenon
  <2>2. PICK j \in 1..8 : fd = Free(t, j)
    BY <1>a, <2>1, Zenon
  <2>3. PipeEnds[j] = PipeEnds[k]
    BY <1>a, <1>2, <2>2
  <2> QED
    BY <2>2, <2>3, NamesOfEnds, Zenon
<1> QED
  BY <1>0, <1>1, <1>2, Zenon DEF Fd
(* The numbers of the ends: all new, and those of in.wr and the ends after *)
(* it above the standard ones; that of result.wr too, unless two of these  *)
(* are free.                                                               *)
ArgsOK(a) ==
  /\ \A e, f \in Pipe : a[e] = a[f] => e = f
  /\ \A e \in Pipe : a[e] \notin std
  /\ \A e \in {"in.wr", "out.rd", "out.wr", "err.rd", "err.wr"} : a[e] > 2
  /\ Cardinality(std) >= 2 => a["result.wr"] > 2

LEMMA TwoFree ==
  ASSUME NEW x \in 0..2, NEW y \in 0..2, x # y, std \subseteq 0..2, x \notin std, y \notin std
  PROVE  ~(Cardinality(std) >= 2)
<1>1. PICK z : std \subseteq {z}
  OBVIOUS
<1>2. IsFiniteSet({z}) /\ Cardinality({z}) = 1
  BY FS_Singleton, Zenon
<1>3. IsFiniteSet(std) /\ Cardinality(std) <= 1
  BY <1>1, <1>2, FS_Subset, Zenon
<1> QED
  BY <1>3, FS_CardinalityType

(* Table b is t with the eight ends of c open under the numbers a.         *)
SpawnsAs(t, c, a, b) ==
  /\ a \in [Pipe -> Nat] /\ ArgsOK(a) /\ b \in Tables
  /\ DOMAIN b = DOMAIN t \cup {a[e] : e \in Pipe}
  /\ \A fd \in DOMAIN t : b[fd] = t[fd]
  /\ \A e \in Pipe : a[e] \notin DOMAIN t /\ b[a[e]] = [of |-> c, end |-> e, cloexec |-> TRUE]

LEMMA SpawnIs ==
  ASSUME NEW t \in Tables, NEW c \in Nat, \A fd \in DOMAIN t : t[fd].of # c,
         std \subseteq DOMAIN t, std \subseteq 0..2,
         NEW a, a = [e \in Range(PipeEnds) |-> Fd(Pipes(t, c), c, e)]
  PROVE  SpawnsAs(t, c, a, Pipes(t, c))
<1>1. a = [e \in Pipe |-> Fd(Pipes(t, c), c, e)]
  BY NamesOfEnds, Zenon
<1>2. \A k \in 1..8 : a[PipeEnds[k]] = Free(t, k)
  BY <1>1, NamesOfEnds, ArgsAre
<1>3. \A k \in 1..8 : Free(t, k) \in Nat \ DOMAIN t /\ Rank(t, Free(t, k)) = k /\ Free(t, k) >= k - 1
  BY FreeIs
<1>4. \A e \in Pipe : \E k \in 1..8 : e = PipeEnds[k] /\ a[e] = Free(t, k)
  BY <1>2, NamesOfEnds
<1>5. a \in [Pipe -> Nat] /\ \A e \in Pipe : a[e] \notin DOMAIN t
  BY <1>1, <1>3, <1>4
<1>6. ASSUME NEW e \in Pipe, NEW f \in Pipe, a[e] = a[f] PROVE e = f
  <2>1. PICK j \in 1..8 : e = PipeEnds[j] /\ a[e] = Free(t, j)
    BY <1>4, Zenon
  <2>2. PICK k \in 1..8 : f = PipeEnds[k] /\ a[f] = Free(t, k)
    BY <1>4, Zenon
  <2>3. j = k
    BY <1>3, <1>6, <2>1, <2>2, Zenon
  <2> QED
    BY <2>1, <2>2, <2>3, Zenon
<1>7. /\ a["result.rd"] = Free(t, 1) /\ a["result.wr"] = Free(t, 2) /\ a["in.wr"] = Free(t, 4)
      /\ a["out.rd"] = Free(t, 5) /\ a["out.wr"] = Free(t, 6) /\ a["err.rd"] = Free(t, 7)
      /\ a["err.wr"] = Free(t, 8)
  <2>1. /\ PipeEnds[1] = "result.rd" /\ PipeEnds[2] = "result.wr" /\ PipeEnds[4] = "in.wr"
        /\ PipeEnds[5] = "out.rd" /\ PipeEnds[6] = "out.wr" /\ PipeEnds[7] = "err.rd"
        /\ PipeEnds[8] = "err.wr"
    BY Zenon DEF PipeEnds
  <2> QED
    BY <1>2, <2>1
<1>8. ASSUME Cardinality(std) >= 2 PROVE a["result.wr"] > 2
  <2>1. /\ Free(t, 1) < Free(t, 2) /\ Free(t, 1) \in Nat /\ Free(t, 2) \in Nat
        /\ Free(t, 1) \notin std /\ Free(t, 2) \notin std
    BY <1>3, FreeOrder
  <2>2. Free(t, 2) <= 2 => Free(t, 1) \in 0..2 /\ Free(t, 2) \in 0..2 /\ Free(t, 1) # Free(t, 2)
    BY <2>1
  <2>3. ~(Free(t, 2) <= 2)
    BY <1>8, <2>1, <2>2, TwoFree, Zenon
  <2> QED
    BY <1>7, <2>1, <2>3
<1>9. \A e \in {"in.wr", "out.rd", "out.wr", "err.rd", "err.wr"} : a[e] > 2
  BY <1>3, <1>7
<1>10. ArgsOK(a)
  BY <1>5, <1>6, <1>8, <1>9, Zenon DEF ArgsOK
<1>11. {Free(t, k) : k \in 1..8} = {a[e] : e \in Pipe}
  BY <1>2, <1>4, NamesOfEnds
<1>12. PICK b : b = Pipes(t, c)
  BY Zenon
<1>13. /\ b \in Tables /\ DOMAIN b = DOMAIN t \cup {Free(t, i) : i \in 1..8}
       /\ \A fd \in DOMAIN t : b[fd] = t[fd]
       /\ \A i \in 1..8 : b[Free(t, i)] = [of |-> c, end |-> PipeEnds[i], cloexec |-> TRUE]
  BY <1>12, PipesAre, Zenon
<1>14. \A e \in Pipe : b[a[e]] = [of |-> c, end |-> e, cloexec |-> TRUE]
  <2>1. ASSUME NEW e \in Pipe PROVE b[a[e]] = [of |-> c, end |-> e, cloexec |-> TRUE]
    <3>1. PICK k \in 1..8 : e = PipeEnds[k] /\ a[e] = Free(t, k)
      BY <1>4, Zenon
    <3> QED
      BY <1>13, <3>1, Zenon
  <2> QED
    BY <2>1, Zenon
<1>15. SpawnsAs(t, c, a, b)
  BY <1>5, <1>10, <1>11, <1>13, <1>14, Zenon DEF SpawnsAs
<1> QED
  BY <1>12, <1>15, Zenon
-----------------------------------------------------------------------------
(* The redirections of a child.                                            *)

(* u is t with the entry of from moved to number to, by way of a free one. *)
Moved(t, from, to, u) ==
  \E tmp \in Nat \ DOMAIN t :
    /\ DOMAIN u = ((DOMAIN t \ {from}) \cup {to}) \ {tmp}
    /\ to # tmp => u[to] = [t[from] EXCEPT !.cloexec = FALSE]
    /\ \A x \in DOMAIN u : x # to => x \in DOMAIN t /\ u[x] = t[x]

LEMMA RedirectIs ==
  ASSUME NEW t \in Tables, NEW from \in DOMAIN t, NEW to \in Nat, NEW u, u = Redirect(t, from, to)
  PROVE  u \in Tables /\ Moved(t, from, to, u)
<1>1. PICK tmp \in Nat \ DOMAIN t : tmp = Free(t, 1)
  BY FreeIs
<1>2. PICK new \in Entry : new = [t[from] EXCEPT !.cloexec = FALSE]
  <2>1. t[from] \in Entry
    BY TableIs, Zenon
  <2> QED
    BY <2>1, Zenon DEF Entry
<1>3. PICK d \in Tables : d = Bind(t, tmp, new)
  BY <1>1, <1>2, BindIs, Zenon
<1>4. PICK e \in Tables : e = Close(d, {from})
  BY <1>3, CloseIs, Zenon
<1>5. PICK f \in Tables : f = Bind(e, to, new)
  BY <1>2, <1>4, BindIs, Zenon
<1>6. u = Close(f, {tmp})
  <2>1. d[tmp] = new
    BY <1>3, Zenon DEF Bind
  <2> QED
    BY <1>1, <1>2, <1>3, <1>4, <1>5, <2>1, Zenon DEF Redirect
<1>7. u \in Tables
  BY <1>5, <1>6, CloseIs, Zenon
<1>8. d = [x \in DOMAIN t \cup {tmp} |-> IF x = tmp THEN new ELSE t[x]]
  BY <1>3, Zenon DEF Bind
<1>9. f = [x \in (DOMAIN d \ {from}) \cup {to} |-> IF x = to THEN new ELSE d[x]]
  BY <1>4, <1>5, Zenon DEF Bind, Close, Restrict
<1>10. u = [x \in ((DOMAIN d \ {from}) \cup {to}) \ {tmp} |-> IF x = to THEN new ELSE d[x]]
  BY <1>6, <1>9, Zenon DEF Close, Restrict
<1>11. DOMAIN u = ((DOMAIN t \ {from}) \cup {to}) \ {tmp}
  BY <1>8, <1>10, Zenon
<1>12. to # tmp => u[to] = new
  BY <1>10, Zenon
<1>13. \A x \in DOMAIN u : x # to => x \in DOMAIN t /\ u[x] = t[x]
  BY <1>8, <1>10, Zenon
<1> QED
  BY <1>1, <1>2, <1>7, <1>11, <1>12, <1>13, Zenon DEF Moved

(* The table of child c after k redirections: the standard descriptors the *)
(* program was started with are open; what is above them will not survive  *)
(* exec; those done are the child's streams; those to come are where spawn *)
(* put them, and so is result.wr unless it could be overwritten.           *)
TableOK(c, t, a, k) ==
  /\ std \subseteq DOMAIN t
  /\ \A fd \in DOMAIN t : fd > 2 => t[fd].cloexec = TRUE
  /\ \A fd \in DOMAIN t : fd < k =>
       t[fd].of = c /\ t[fd].end = Streams[fd + 1] /\ t[fd].cloexec = FALSE
  /\ \A i \in 1..3 : i > k =>
       /\ a[Streams[i]] \in DOMAIN t
       /\ t[a[Streams[i]]] = [of |-> c, end |-> Streams[i], cloexec |-> TRUE]
  /\ Cardinality(std) >= 2 =>
       /\ a["result.wr"] \in DOMAIN t
       /\ t[a["result.wr"]] = [of |-> c, end |-> "result.wr", cloexec |-> TRUE]

LEMMA StreamNames ==
  /\ Streams[1] = "in.rd" /\ Streams[2] = "out.wr" /\ Streams[3] = "err.wr"
  /\ \A i \in 1..3 : Streams[i] \in Pipe /\ Streams[i] # "result.wr" /\ Streams[i] # "result.rd"
  /\ \A i, j \in 1..3 : Streams[i] = Streams[j] => i = j
  /\ "result.wr" \in Pipe /\ "result.rd" \in Pipe
BY DEF Streams, Pipe, EndName

LEMMA RedirectStep ==
  ASSUME NEW c \in Nat, NEW t \in Tables, NEW a \in [Pipe -> Nat], ArgsOK(a), std \subseteq 0..2,
         NEW k \in 1..3, TableOK(c, t, a, k - 1),
         NEW u, u = Redirect(IF k = 1 THEN Close(t, {a["result.rd"]}) ELSE t, a[Streams[k]], k - 1)
  PROVE  u \in Tables /\ TableOK(c, u, a, k)
<1>1. PICK s : s = IF k = 1 THEN Close(t, {a["result.rd"]}) ELSE t
  BY Zenon
<1>2. s \in Tables /\ TableOK(c, s, a, k - 1)
  <2>1. CASE k = 1
    <3>1. s \in Tables /\ s = [x \in DOMAIN t \ {a["result.rd"]} |-> t[x]]
      BY <1>1, <2>1, CloseIs, Zenon DEF Close, Restrict
    <3>2. /\ a["result.rd"] \notin std /\ a["result.rd"] # a["result.wr"]
          /\ \A i \in 1..3 : a[Streams[i]] # a["result.rd"]
      BY StreamNames, Zenon DEF ArgsOK
    <3>3. \A fd \in DOMAIN s : ~(fd < k - 1)
      BY <2>1, <3>1, TableIs
    <3> QED
      BY <3>1, <3>2, <3>3, Zenon DEF TableOK
  <2>2. CASE k # 1
    BY <1>1, <2>2, Zenon
  <2> QED
    BY <2>1, <2>2, Zenon
<1>3. PICK from \in DOMAIN s : from = a[Streams[k]] /\ s[from] = [of |-> c, end |-> Streams[k], cloexec |-> TRUE]
  BY <1>2 DEF TableOK
<1>4. k - 1 \in Nat /\ k - 1 <= 2
  OBVIOUS
<1>5. u \in Tables /\ Moved(s, from, k - 1, u)
  <2>1. u = Redirect(s, from, k - 1)
    BY <1>1, <1>3, Zenon
  <2> QED
    BY <1>2, <1>3, <1>4, <2>1, RedirectIs, Zenon
<1>6. PICK tmp \in Nat \ DOMAIN s :
        /\ DOMAIN u = ((DOMAIN s \ {from}) \cup {k - 1}) \ {tmp}
        /\ k - 1 # tmp => u[k - 1] = [s[from] EXCEPT !.cloexec = FALSE]
        /\ \A x \in DOMAIN u : x # k - 1 => x \in DOMAIN s /\ u[x] = s[x]
  BY <1>5, Zenon DEF Moved
<1>12. std \subseteq DOMAIN u
  <2>1. from \notin std
    BY <1>3, StreamNames, Zenon DEF ArgsOK
  <2>2. std \subseteq DOMAIN s
    BY <1>2, Zenon DEF TableOK
  <2> QED
    BY <1>6, <2>1, <2>2, Zenon
<1>7. ASSUME NEW fd \in DOMAIN u, fd > 2 PROVE u[fd].cloexec = TRUE
  <2>1. fd # k - 1
    BY <1>4, <1>7
  <2>2. fd \in DOMAIN s /\ u[fd] = s[fd]
    BY <1>6, <2>1, Zenon
  <2> QED
    BY <1>2, <1>7, <2>2, Zenon DEF TableOK
<1>8. ASSUME NEW fd \in DOMAIN u, fd < k
      PROVE  u[fd].of = c /\ u[fd].end = Streams[fd + 1] /\ u[fd].cloexec = FALSE
  <2>1. fd \in Nat
    BY <1>5, TableIs, Zenon
  <2>2. CASE fd = k - 1
    <3>1. u[k - 1] = [s[from] EXCEPT !.cloexec = FALSE]
      BY <1>6, <2>2, Zenon
    <3>2. u[k - 1].of = c /\ u[k - 1].end = Streams[k] /\ u[k - 1].cloexec = FALSE
      BY <1>3, <3>1
    <3>3. fd + 1 = k
      BY <2>2
    <3> QED
      BY <2>2, <3>2, <3>3, Zenon
  <2>3. CASE fd < k - 1
    <3>1. fd \in DOMAIN s /\ u[fd] = s[fd]
      BY <1>6, <2>1, <2>3
    <3> QED
      BY <1>2, <2>3, <3>1 DEF TableOK
  <2>4. fd = k - 1 \/ fd < k - 1
    BY <1>8, <2>1
  <2> QED
    BY <2>2, <2>3, <2>4, Zenon
<1>9. ASSUME NEW x \in DOMAIN s, x # from, x # k - 1 PROVE x \in DOMAIN u /\ u[x] = s[x]
  BY <1>6, <1>9, Zenon
<1>10. ASSUME NEW i \in 1..3, i > k
       PROVE  /\ a[Streams[i]] \in DOMAIN u
              /\ u[a[Streams[i]]] = [of |-> c, end |-> Streams[i], cloexec |-> TRUE]
  <2>1. /\ a[Streams[i]] \in DOMAIN s
        /\ s[a[Streams[i]]] = [of |-> c, end |-> Streams[i], cloexec |-> TRUE]
    <3>1. i > k - 1
      BY <1>10
    <3> QED
      BY <1>2, <3>1, Zenon DEF TableOK
  <2>2. a[Streams[i]] # from
    BY <1>3, <1>10, StreamNames DEF ArgsOK
  <2>3. Streams[i] \in {"out.wr", "err.wr"}
    BY <1>10, StreamNames
  <2>4. a[Streams[i]] > 2 /\ a[Streams[i]] \in Nat
    BY <2>3, StreamNames, Zenon DEF ArgsOK
  <2>5. a[Streams[i]] # k - 1
    BY <1>4, <2>4
  <2> QED
    BY <1>9, <2>1, <2>2, <2>5, Zenon
<1>11. ASSUME Cardinality(std) >= 2
       PROVE  /\ a["result.wr"] \in DOMAIN u
              /\ u[a["result.wr"]] = [of |-> c, end |-> "result.wr", cloexec |-> TRUE]
  <2>1. /\ a["result.wr"] \in DOMAIN s
        /\ s[a["result.wr"]] = [of |-> c, end |-> "result.wr", cloexec |-> TRUE]
    BY <1>2, <1>11, Zenon DEF TableOK
  <2>2. a["result.wr"] # from /\ a["result.wr"] > 2 /\ a["result.wr"] \in Nat
    BY <1>3, <1>11, StreamNames, Zenon DEF ArgsOK
  <2>3. a["result.wr"] # k - 1
    BY <1>4, <2>2
  <2> QED
    BY <1>9, <2>1, <2>2, <2>3, Zenon
<1> QED
  BY <1>5, <1>7, <1>8, <1>10, <1>11, <1>12, Zenon DEF TableOK
-----------------------------------------------------------------------------
(* The invariant.                                                          *)

Kid == [st : {"forked", "failing", "running", "zombie", "reaped"}, args : [Pipe -> Nat],
        tbl : Tables, at : 0..3, told : 0..4, said : 0..4, masked : BOOLEAN, term : BOOLEAN,
        status : {"none", "exit", "term", "kill"}]

Spawning == pc.op \in {"read", "body", "reap"}

PcOK ==
  \/ pc = Idle \/ pc = [op |-> "fatal"]
  \/ pc \in [op : {"read", "body", "reap"}, p : Object, c : Children]
  \/ pc \in [op : {"wait"}, f : {"wait", "terminate", "assign", "destroy"}, p : Object, q : Object]

(* Types.                                                                  *)
PShape ==
  /\ system \in {"vfork", "fork"} /\ sigchld \in {"dfl", "ign"} /\ std \subseteq 0..2
  /\ fdt \in Tables /\ \A fd \in DOMAIN fdt : fdt[fd].of <= Len(child)
  /\ obj \in [Object -> [pid : Int, in_wr : Nat \cup {-1}, out_rd : Nat \cup {-1}, err_rd : Nat \cup {-1}]]
  /\ \A p \in Object : obj[p].pid \in {-1} \cup Children
  /\ child \in Seq(Kid) /\ PcOK /\ heard \in 0..4

(* A child: what it has said is what it could tell; a report that was      *)
(* begun is finished unless the child is killed; and its descriptors.      *)
KidIs(c, r) ==
  /\ ArgsOK(r.args)
  /\ r.said <= r.told
  /\ r.st \in {"forked", "running"} => r.told = 0
  /\ r.st = "failing" => r.told < 4
  /\ r.st \in {"zombie", "reaped"} /\ r.status # "kill" => r.told \in {0, 4}
  /\ Cardinality(std) >= 2 => r.said = r.told
  /\ r.st \in {"forked", "failing"} => TableOK(c, r.tbl, r.args, r.at)
  /\ r.st = "running" =>
       /\ std \subseteq DOMAIN r.tbl
       /\ \A fd \in DOMAIN r.tbl : fd \in 0..2 /\ r.tbl[fd].of = c /\ r.tbl[fd].end = Streams[fd + 1]

Kids == \A c \in Children : KidIs(c, child[c])

(* The parent's standard descriptors stay open, and what it has above them *)
(* does not survive exec.                                                  *)
Own == pc.op # "fatal" =>
         std \subseteq DOMAIN fdt /\ \A fd \in DOMAIN fdt : fd > 2 => fdt[fd].cloexec = TRUE

(* What spawn has read, and what it has returned.                          *)
Reports ==
  Cardinality(std) >= 2 =>
    /\ \A p \in Object : obj[p].pid # -1 =>
         child[obj[p].pid].told = 0 /\ child[obj[p].pid].st \notin {"forked", "failing"}
    /\ pc.op \in {"body", "reap"} /\ system = "vfork" =>
         child[pc.c].st \in {"zombie", "reaped"} /\ child[pc.c].told > 0
    /\ pc.op = "reap" /\ system = "vfork" /\ child[pc.c].status # "kill" => heard = 4

(* The calls are used as meant, and the parent runs.                       *)
Proper == sigchld = "dfl" /\ ~misused /\ pc.op # "fatal"

(* Objects and the spawn in progress share the children among them.        *)
Owners ==
  Proper =>
    /\ \A p \in Object : obj[p].pid # -1 => child[obj[p].pid].st # "reaped"
    /\ \A p, q \in Object : obj[p].pid # -1 /\ obj[p].pid = obj[q].pid => p = q
    /\ \A c \in Children : child[c].st # "reaped" =>
         (Spawning /\ pc.c = c) \/ \E p \in Object : obj[p].pid = c
    /\ Spawning => /\ obj[pc.p].pid = -1 /\ child[pc.c].st # "reaped"
                   /\ \A p \in Object : obj[p].pid # pc.c
    /\ pc.op = "wait" => obj[pc.p].pid # -1

(* The parent has end e of child c open under the number spawn gave it.    *)
HasEnd(c, e) ==
  /\ child[c].args[e] \in DOMAIN fdt
  /\ fdt[child[c].args[e]].of = c /\ fdt[child[c].args[e]].end = e

ParentEnds == {"in.wr", "out.rd", "err.rd"}

(* An object with a child names the parent's ends of its pipes; the parent *)
(* has nothing open but these, those of the spawn in progress and what     *)
(* wait has left behind.                                                   *)
EndsHeld ==
  Proper =>
    /\ \A p \in Object : obj[p].pid # -1 =>
         /\ obj[p].in_wr = child[obj[p].pid].args["in.wr"]
         /\ obj[p].out_rd = child[obj[p].pid].args["out.rd"]
         /\ obj[p].err_rd = child[obj[p].pid].args["err.rd"]
         /\ \A e \in ParentEnds : HasEnd(obj[p].pid, e)
    /\ Spawning => \A e \in ParentEnds \cup {"result.rd"} : HasEnd(pc.c, e)
    /\ \A fd \in DOMAIN fdt :
         \/ fdt[fd].of \in {0} \cup waited
         \/ \E p \in Object : obj[p].pid = fdt[fd].of /\ fd \in Fds(obj[p])
         \/ /\ Spawning /\ pc.c = fdt[fd].of
            /\ \E e \in ParentEnds \cup {"result.rd"} : fd = child[pc.c].args[e]

ProcInv == PShape /\ Kids /\ Own /\ Reports /\ Owners /\ EndsHeld
-----------------------------------------------------------------------------
(* One child changes.                                                      *)

LEMMA KidKeeps ==
  ASSUME NEW c, NEW r, KidIs(c, r), std' = std
  PROVE  KidIs(c, r)'
BY Zenon DEF KidIs, ArgsOK, TableOK

LEMMA ChildSet ==
  ASSUME child \in Seq(Kid), Kids, NEW c \in Children, NEW r \in Kid, KidIs(c, r), std' = std,
         child' = [child EXCEPT ![c] = r]
  PROVE  /\ child' \in Seq(Kid) /\ Len(child') = Len(child) /\ Children' = Children
         /\ child'[c] = r /\ \A d \in Children : d # c => child'[d] = child[d]
         /\ Kids'
<1>1. /\ child' \in Seq(Kid) /\ Len(child') = Len(child)
      /\ child'[c] = r /\ \A d \in 1..Len(child) : d # c => child'[d] = child[d]
  BY DEF Children
<1>2. Children' = Children
  BY <1>1, Zenon DEF Children
<1>3. ASSUME NEW d \in Children PROVE KidIs(d, child[d])'
  <2>1. PICK x : x = child'[d] /\ KidIs(d, x)
    <3>1. CASE d = c
      BY <1>1, <3>1, Zenon
    <3>2. CASE d # c
      BY <1>1, <3>2, Zenon DEF Kids, Children
    <3> QED
      BY <3>1, <3>2, Zenon
  <2>2. KidIs(d, x)'
    BY <2>1, KidKeeps, Zenon
  <2> QED
    BY <2>1, <2>2, Zenon
<1> QED
  BY <1>1, <1>2, <1>3, Zenon DEF Kids, Children

LEMMA ChildAdd ==
  ASSUME child \in Seq(Kid), Kids, NEW r \in Kid, KidIs(Len(child) + 1, r), std' = std,
         child' = Append(child, r)
  PROVE  /\ child' \in Seq(Kid) /\ Len(child') = Len(child) + 1
         /\ Children' = Children \cup {Len(child) + 1}
         /\ child'[Len(child) + 1] = r /\ \A d \in Children : child'[d] = child[d]
         /\ Kids'
<1>1. /\ child' \in Seq(Kid) /\ Len(child) \in Nat /\ Len(child') = Len(child) + 1
      /\ child'[Len(child) + 1] = r /\ \A d \in 1..Len(child) : child'[d] = child[d]
  OBVIOUS
<1>2. Children' = Children \cup {Len(child) + 1}
  BY <1>1 DEF Children
<1>3. ASSUME NEW d \in Children \cup {Len(child) + 1} PROVE KidIs(d, child[d])'
  <2>1. PICK x : x = child'[d] /\ KidIs(d, x)
    <3>1. CASE d = Len(child) + 1
      BY <1>1, <3>1, Zenon
    <3>2. CASE d \in Children
      BY <1>1, <3>2, Zenon DEF Kids, Children
    <3> QED
      BY <3>1, <3>2, Zenon
  <2>2. KidIs(d, x)'
    BY <2>1, KidKeeps, Zenon
  <2> QED
    BY <2>1, <2>2, Zenon
<1> QED
  BY <1>1, <1>2, <1>3, Zenon DEF Kids, Children

(* A step of child c on its own.  Only what has failed says more.          *)
Moves(c) ==
  /\ UNCHANGED ChildVars
  /\ \E r \in Kid :
       /\ child' = [child EXCEPT ![c] = r] /\ KidIs(c, r) /\ r.args = child[c].args
       /\ child[c].st \notin {"zombie", "reaped"}
       /\ r.st = "reaped" => sigchld = "ign"
       /\ child[c].st = "running" => r.told = child[c].told /\ r.st \notin {"forked", "failing"}
LEMMA KidAt ==
  ASSUME PShape, Kids, NEW c \in Children
  PROVE  /\ child[c] \in Kid /\ KidIs(c, child[c]) /\ c \in Nat /\ ArgsOK(child[c].args)
         /\ child[c].args \in [Pipe -> Nat] /\ child[c].tbl \in Tables
<1>1. child[c] \in Kid /\ c \in Nat
  BY DEF PShape, Children
<1>2. KidIs(c, child[c])
  BY Zenon DEF Kids
<1> QED
  BY <1>1, <1>2, Zenon DEF Kid, KidIs

(* It ends.                                                                *)
LEMMA EndedKid ==
  ASSUME NEW r \in Kid, NEW s \in {"zombie", "reaped"}, NEW t \in Tables, NEW k \in 0..3,
         NEW b \in BOOLEAN, NEW u \in {"exit", "term", "kill"}, NEW new,
         new = [r EXCEPT !.st = s, !.tbl = t, !.at = k, !.term = b, !.status = u]
  PROVE  new \in Kid
BY Zenon DEF Kid

LEMMA EndMoves ==
  ASSUME PShape, Kids, NEW c \in Children, NEW r \in Kid, NEW status \in {"exit", "term", "kill"},
         End(c, r, status), UNCHANGED ChildVars,
         child[c].st \notin {"zombie", "reaped"}, r.args = child[c].args,
         child[c].st = "running" => r.told = child[c].told,
         r.said <= r.told, Cardinality(std) >= 2 => r.said = r.told,
         status # "kill" => r.told \in {0, 4}
  PROVE  Moves(c)
<1>1. PICK new : new = [r EXCEPT !.st = IF sigchld = "ign" THEN "reaped" ELSE "zombie",
                              !.tbl = <<>>, !.at = 0, !.term = FALSE, !.status = status]
  BY Zenon
<1>2. new \in Kid
  <2>1. PICK s \in {"zombie", "reaped"} : s = IF sigchld = "ign" THEN "reaped" ELSE "zombie"
    BY Zenon
  <2>2. PICK t \in Tables : t = <<>>
    BY NoTable, Zenon
  <2>3. PICK k \in 0..3 : k = 0
    OBVIOUS
  <2>4. PICK b \in BOOLEAN : b = FALSE
    BY Zenon
  <2>5. new = [r EXCEPT !.st = s, !.tbl = t, !.at = k, !.term = b, !.status = status]
    BY <1>1, <2>1, <2>2, <2>3, <2>4, Zenon
  <2> QED
    BY <2>1, <2>2, <2>3, <2>4, <2>5, EndedKid, ZenonT(30)
<1>3. /\ new.st \in {"zombie", "reaped"} /\ (new.st = "reaped" => sigchld = "ign")
      /\ new.args = r.args /\ new.said = r.said /\ new.told = r.told /\ new.status = status
  BY <1>1, Zenon DEF Kid
<1>4. ArgsOK(new.args)
  BY <1>3, KidAt, Zenon
<1>5. KidIs(c, new)
  BY <1>3, <1>4, Zenon DEF KidIs
<1>6. child' = [child EXCEPT ![c] = new]
  BY <1>1, Zenon DEF End, Become
<1> QED
  BY <1>2, <1>3, <1>5, <1>6, Zenon DEF Moves

LEMMA EndsMove ==
  ASSUME PShape, Kids, NEW c \in Children, ChildExits(c) \/ ChildTerm(c) \/ ChildKilled(c)
  PROVE  Moves(c)
<1>1. PICK r \in Kid : r = child[c] /\ KidIs(c, r)
  BY KidAt, Zenon
<1>2. PICK status \in {"exit", "term", "kill"} :
        /\ End(c, r, status) /\ UNCHANGED ChildVars /\ r.st \notin {"zombie", "reaped"}
        /\ status # "kill" => r.st = "running"
  BY <1>1, Zenon DEF ChildExits, ChildTerm, ChildKilled, Ended
<1>3. r.said <= r.told /\ (Cardinality(std) >= 2 => r.said = r.told) /\ (r.st = "running" => r.told = 0)
  BY <1>1, Zenon DEF KidIs
<1> QED
  BY <1>1, <1>2, <1>3, EndMoves, Zenon

(* A redirection.                                                          *)
LEMMA RedirectMoves ==
  ASSUME PShape, Kids, NEW c \in Children, RedirectNext(c)
  PROVE  Moves(c)
<1>1. PICK r \in Kid : r = child[c] /\ KidIs(c, r)
  BY KidAt, Zenon
<1>2. PICK k \in 1..3 : k = r.at + 1 /\ r.st = "forked"
  <2>1. r.at \in 0..3 /\ r.at + 1 <= 3 /\ r.st = "forked"
    BY <1>1, Zenon DEF RedirectNext, Kid
  <2> QED
    BY <2>1
<1>3. PICK u : u = Redirect(IF k = 1 THEN Close(r.tbl, {r.args["result.rd"]}) ELSE r.tbl, r.args[Streams[k]], k - 1)
  BY Zenon
<1>4. u \in Tables /\ TableOK(c, u, r.args, k)
  <2>1. TableOK(c, r.tbl, r.args, k - 1) /\ ArgsOK(r.args)
    <3>1. k - 1 = r.at
      BY <1>1, <1>2 DEF Kid
    <3> QED
      BY <1>1, <1>2, <3>1, Zenon DEF KidIs
  <2>2. c \in Nat /\ r.tbl \in Tables /\ r.args \in [Pipe -> Nat] /\ std \subseteq 0..2
    BY <1>1, KidAt, Zenon DEF PShape
  <2> QED
    BY <1>3, <2>1, <2>2, RedirectStep, Zenon
<1>5. PICK new : new = [r EXCEPT !.at = k, !.tbl = u]
  BY Zenon
<1>6. child' = [child EXCEPT ![c] = new] /\ UNCHANGED ChildVars
  BY <1>1, <1>2, <1>3, <1>5, Zenon DEF RedirectNext, Become
<1>7. new \in Kid
  <2>1. k \in 0..3
    OBVIOUS
  <2> QED
    BY <1>4, <1>5, <2>1, Zenon DEF Kid
<1>8. /\ new.st = "forked" /\ new.args = r.args /\ new.said = r.said /\ new.told = r.told
      /\ new.tbl = u /\ new.at = k
  BY <1>2, <1>5, Zenon DEF Kid
<1>9. KidIs(c, new)
  BY <1>1, <1>2, <1>4, <1>8, Zenon DEF KidIs
<1> QED
  BY <1>1, <1>2, <1>6, <1>7, <1>8, <1>9, Zenon DEF Moves

LEMMA ExecMoves ==
  ASSUME PShape, Kids, NEW c \in Children, Execve(c)
  PROVE  Moves(c)
<1>1. PICK r \in Kid : r = child[c] /\ KidIs(c, r)
  BY KidAt, Zenon
<1>2. r.st = "forked" /\ r.at = 3
  BY <1>1, Zenon DEF Execve
<1>3. TableOK(c, r.tbl, r.args, 3)
  BY <1>1, <1>2, Zenon DEF KidIs
<1>4. PICK u \in Tables : u = Exec(r.tbl)
  BY <1>1, CloseIs, Zenon DEF Exec, Kid
<1>5. u = [x \in DOMAIN r.tbl \ {fd \in DOMAIN r.tbl : r.tbl[fd].cloexec} |-> r.tbl[x]]
  BY <1>4, Zenon DEF Exec, Close, Restrict
<1>6. DOMAIN r.tbl \subseteq Nat /\ std \subseteq 0..2
  BY <1>1, TableIs, Zenon DEF Kid, PShape
<1>7. std \subseteq DOMAIN u
  <2>1. \A fd \in std : fd \in DOMAIN r.tbl /\ fd < 3
    BY <1>3, <1>6 DEF TableOK
  <2>2. \A fd \in std : r.tbl[fd].cloexec = FALSE
    BY <1>3, <2>1, Zenon DEF TableOK
  <2> QED
    BY <1>5, <2>1, <2>2, Zenon
<1>8. ASSUME NEW fd \in DOMAIN u
      PROVE  fd \in 0..2 /\ u[fd].of = c /\ u[fd].end = Streams[fd + 1]
  <2>1. fd \in DOMAIN r.tbl /\ ~r.tbl[fd].cloexec /\ u[fd] = r.tbl[fd] /\ fd \in Nat
    BY <1>5, <1>6, <1>8, Zenon
  <2>2. ~(fd > 2)
    BY <1>3, <2>1, Zenon DEF TableOK
  <2>3. fd < 3 /\ fd \in 0..2
    BY <2>1, <2>2
  <2> QED
    BY <1>3, <2>1, <2>3, Zenon DEF TableOK
<1>9. PICK new : new = [r EXCEPT !.st = "running", !.masked = FALSE, !.tbl = u]
  BY Zenon
<1>10. child' = [child EXCEPT ![c] = new] /\ UNCHANGED ChildVars
  BY <1>1, <1>4, <1>9, Zenon DEF Execve, Become
<1>11. new \in Kid
  BY <1>4, <1>9, Zenon DEF Kid
<1>12. /\ new.st = "running" /\ new.args = r.args /\ new.said = r.said /\ new.told = r.told
       /\ new.tbl = u
  BY <1>9, Zenon DEF Kid
<1>13. KidIs(c, new)
  BY <1>1, <1>2, <1>7, <1>8, <1>12, Zenon DEF KidIs
<1> QED
  BY <1>1, <1>2, <1>10, <1>11, <1>12, <1>13, Zenon DEF Moves
LEMMA FailMoves ==
  ASSUME PShape, Kids, NEW c \in Children, SubprocessFails(c) \/ Fail(c)
  PROVE  Moves(c)
<1>1. PICK r \in Kid : r = child[c] /\ KidIs(c, r)
  BY KidAt, Zenon
<1>2. CASE SubprocessFails(c)
  <2>1. PICK new : new = [r EXCEPT !.st = "failing"]
    BY Zenon
  <2>2. child' = [child EXCEPT ![c] = new] /\ UNCHANGED ChildVars /\ r.st = "forked"
    BY <1>1, <1>2, <2>1, Zenon DEF SubprocessFails, Become
  <2>3. new \in Kid
    BY <2>1, Zenon DEF Kid
  <2>4. /\ new.st = "failing" /\ new.args = r.args /\ new.said = r.said /\ new.told = r.told
        /\ new.tbl = r.tbl /\ new.at = r.at
    BY <2>1, Zenon DEF Kid
  <2>5. KidIs(c, new)
    BY <1>1, <2>2, <2>4 DEF KidIs
  <2> QED
    BY <1>1, <2>2, <2>3, <2>4, <2>5, Zenon DEF Moves
<1>3. CASE Fail(c)
  <2>1. /\ r.st = "failing" /\ r.told \in 0..3 /\ r.said \in 0..3 /\ r.said <= r.told
        /\ TableOK(c, r.tbl, r.args, r.at)
    <3>1. r.st = "failing" /\ r.told < 4 /\ r.said <= r.told /\ TableOK(c, r.tbl, r.args, r.at)
      BY <1>1, <1>3, Zenon DEF Fail, KidIs
    <3> QED
      BY <3>1 DEF Kid
  <2>2. PICK d \in {0, 1} :
          d = IF /\ r.args["result.wr"] \in DOMAIN r.tbl /\ r.tbl[r.args["result.wr"]].of = c
                 /\ r.tbl[r.args["result.wr"]].end = "result.wr" THEN 1 ELSE 0
    BY Zenon
  <2>3. ASSUME Cardinality(std) >= 2 PROVE d = 1 /\ r.said = r.told
    <3>1. /\ r.args["result.wr"] \in DOMAIN r.tbl
          /\ r.tbl[r.args["result.wr"]] = [of |-> c, end |-> "result.wr", cloexec |-> TRUE]
      BY <2>1, <2>3, Zenon DEF TableOK
    <3>2. r.said = r.told
      BY <1>1, <2>3, Zenon DEF KidIs
    <3> QED
      BY <2>2, <3>1, <3>2
  <2>4. PICK told \in 0..4, said \in 0..4 : told = r.told + 1 /\ said = r.said + d
    BY <2>1
  <2>5. PICK new : new = [r EXCEPT !.told = told, !.said = said]
    BY Zenon
  <2>6. new \in Kid
    BY <2>5, Zenon DEF Kid
  <2>7. /\ new.st = "failing" /\ new.args = r.args /\ new.said = said /\ new.told = told
        /\ new.tbl = r.tbl /\ new.at = r.at
    BY <2>1, <2>5, Zenon DEF Kid
  <2>8. said <= told /\ (Cardinality(std) >= 2 => said = told)
    <3>1. d \in {0, 1} /\ r.told \in 0..3 /\ r.said \in 0..3 /\ r.said <= r.told
      BY <2>1, <2>2, Zenon
    <3>2. said <= told
      BY <2>4, <3>1
    <3> QED
      BY <2>3, <2>4, <3>2, Zenon
  <2>9. /\ IF told < 4 THEN Become(c, new) ELSE End(c, new, "exit")
        /\ UNCHANGED ChildVars
    <3>1. new = [r EXCEPT !.told = @ + 1, !.said = @ + d]
      BY <2>4, <2>5, Zenon
    <3> QED
      BY <1>1, <1>3, <2>2, <2>7, <3>1, Zenon DEF Fail, Pieces
  <2>10. CASE told < 4
    <3>1. child' = [child EXCEPT ![c] = new]
      BY <2>9, <2>10, Zenon DEF Become
    <3>2. KidIs(c, new)
      BY <1>1, <2>1, <2>7, <2>8, <2>10, Zenon DEF KidIs
    <3> QED
      BY <1>1, <2>1, <2>6, <2>7, <2>9, <3>1, <3>2, Zenon DEF Moves
  <2>11. CASE told = 4
    BY <1>1, <2>1, <2>6, <2>7, <2>8, <2>9, <2>11, EndMoves
  <2> QED
    BY <2>10, <2>11
<1> QED
  BY <1>2, <1>3, Zenon

LEMMA ChildMoves ==
  ASSUME PShape, Kids, NEW c \in Children, ChildGoesOn(c) \/ ChildExits(c) \/ ChildKilled(c)
  PROVE  Moves(c)
BY RedirectMoves, ExecMoves, FailMoves, EndsMove, Zenon DEF ChildGoesOn

(* What a child does on its own keeps the invariant.                       *)
LEMMA MovesKeep ==
  ASSUME ProcInv, NEW c \in Children, Moves(c)
  PROVE  ProcInv'
<1>1. PShape /\ Kids /\ Own /\ Reports /\ Owners /\ EndsHeld
  BY Zenon DEF ProcInv
<1>2. PICK r \in Kid :
        /\ child' = [child EXCEPT ![c] = r] /\ KidIs(c, r) /\ r.args = child[c].args
        /\ child[c].st \notin {"zombie", "reaped"} /\ (r.st = "reaped" => sigchld = "ign")
        /\ child[c].st = "running" => r.told = child[c].told /\ r.st \notin {"forked", "failing"}
  BY Zenon DEF Moves
<1>3. /\ system' = system /\ sigchld' = sigchld /\ std' = std /\ fdt' = fdt /\ obj' = obj /\ pc' = pc
      /\ heard' = heard /\ waited' = waited /\ misused' = misused
  BY Zenon DEF Moves, ChildVars, choice, ghosts
<1>4. /\ child' \in Seq(Kid) /\ Len(child') = Len(child) /\ Children' = Children
      /\ child'[c] = r /\ \A d \in Children : d # c => child'[d] = child[d]
      /\ Kids'
  <2>1. child \in Seq(Kid)
    BY <1>1, Zenon DEF PShape
  <2> QED
    BY <1>1, <1>2, <1>3, <2>1, ChildSet, Zenon
<1>5. PShape'
  BY <1>1, <1>3, <1>4, Zenon DEF PShape, PcOK
<1>6. Own'
  BY <1>1, <1>3, Zenon DEF Own
<1>7. \A d \in Children : child'[d].args = child[d].args
  BY <1>2, <1>4, Zenon
<1>8. ASSUME sigchld = "dfl", NEW d \in Children
      PROVE  child'[d].st = "reaped" <=> child[d].st = "reaped"
  BY <1>2, <1>4, <1>8, Zenon
<1>9. \A p \in Object : obj[p].pid # -1 => obj[p].pid \in Children
  BY <1>1, Zenon DEF PShape
<1>10. Spawning => pc.c \in Children
  BY <1>1 DEF PShape, PcOK, Spawning, Idle
<1>11. Reports'
  <2> SUFFICES ASSUME Cardinality(std) >= 2
               PROVE  /\ \A p \in Object : obj[p].pid # -1 =>
                           child'[obj[p].pid].told = 0 /\ child'[obj[p].pid].st \notin {"forked", "failing"}
                      /\ pc.op \in {"body", "reap"} /\ system = "vfork" =>
                           child'[pc.c].st \in {"zombie", "reaped"} /\ child'[pc.c].told > 0
                      /\ pc.op = "reap" /\ system = "vfork" /\ child'[pc.c].status # "kill" => heard = 4
    BY <1>3, Zenon DEF Reports
  <2>1. ASSUME NEW p \in Object, obj[p].pid # -1
        PROVE  child'[obj[p].pid].told = 0 /\ child'[obj[p].pid].st \notin {"forked", "failing"}
    <3>1. /\ obj[p].pid \in Children /\ child[obj[p].pid].told = 0
          /\ child[obj[p].pid].st \notin {"forked", "failing"}
      BY <1>1, <1>9, <2>1, Zenon DEF Reports
    <3>2. child[obj[p].pid].st \in {"forked", "failing", "running", "zombie", "reaped"}
      BY <1>1, <3>1, KidAt, Zenon DEF Kid
    <3> QED
      BY <1>2, <1>4, <3>1, <3>2, Zenon
  <2>2. ASSUME pc.op \in {"body", "reap"}, system = "vfork"
        PROVE  child'[pc.c] = child[pc.c] /\ child[pc.c].st \in {"zombie", "reaped"} /\ child[pc.c].told > 0
    <3>1. child[pc.c].st \in {"zombie", "reaped"} /\ child[pc.c].told > 0
      BY <1>1, <2>2, Zenon DEF Reports
    <3>2. pc.c \in Children
      BY <1>10, <2>2, Zenon DEF Spawning
    <3> QED
      BY <1>2, <1>4, <3>1, <3>2, Zenon
  <2>3. pc.op = "reap" /\ system = "vfork" /\ child[pc.c].status # "kill" => heard = 4
    BY <1>1, Zenon DEF Reports
  <2> QED
    BY <2>1, <2>2, <2>3, Zenon
<1>12. Owners'
  <2> SUFFICES ASSUME Proper PROVE Owners'
    BY <1>3, Zenon DEF Owners, Proper
  <2>1. \A d \in Children : child'[d].st = "reaped" <=> child[d].st = "reaped"
    BY <1>8, Zenon DEF Proper
  <2> QED
    BY <1>1, <1>3, <1>4, <1>9, <1>10, <2>1, Zenon DEF Owners, Spawning
<1>13. EndsHeld'
  <2> SUFFICES ASSUME Proper PROVE EndsHeld'
    BY <1>3, Zenon DEF EndsHeld, Proper
  <2>1. \A d \in Children, e \in ParentEnds \cup {"result.rd"} : HasEnd(d, e)' <=> HasEnd(d, e)
    BY <1>3, <1>7, Zenon DEF HasEnd
  <2>2. Spawning => child'[pc.c].args = child[pc.c].args
    BY <1>7, <1>10, Zenon
  <2> QED
    BY <1>1, <1>3, <1>7, <1>9, <1>10, <2>1, <2>2 DEF EndsHeld, Spawning
<1> QED
  BY <1>4, <1>5, <1>6, <1>11, <1>12, <1>13, Zenon DEF ProcInv

-----------------------------------------------------------------------------
(* Calls on the objects.                                                   *)

Handle == [pid : Int, in_wr : Nat \cup {-1}, out_rd : Nat \cup {-1}, err_rd : Nat \cup {-1}]

Jobs == [op : {"wait"}, f : {"wait", "terminate", "assign", "destroy"}, p : Object, q : Object]

LEMMA Orphan ==
  ASSUME NEW h \in Handle
  PROVE  [h EXCEPT !.pid = -1] \in Handle
BY DEF Handle

(* Each object is new or was one before, none is there twice, and one with *)
(* a child is gone only if it is that of the call.                         *)
LEMMA FinishIs ==
  ASSUME NEW o \in [Object -> Handle], NEW job \in Jobs, NEW n, n = Finish(o, job)
  PROVE  /\ n \in [Object -> Handle]
         /\ \A r \in Object : n[r].pid # -1 => \E s \in Object : n[r] = o[s]
         /\ o[job.p].pid = -1 =>
              /\ \A s \in Object : o[s].pid # -1 => \E r \in Object : n[r] = o[s]
              /\ (\A r, s \in Object : o[r].pid # -1 /\ o[r].pid = o[s].pid => r = s) =>
                   (\A r, s \in Object : n[r].pid # -1 /\ n[r].pid = n[s].pid => r = s)
<1>1. PICK p \in Object, q \in Object : p = job.p /\ q = job.q
  BY Zenon DEF Jobs
<1>2. CASE job.f = "assign"
  <2>1. PICK x \in Handle : x = [o[q] EXCEPT !.pid = -1]
    BY <1>1, Orphan, Zenon
  <2>2. x.pid = -1
    BY <2>1, Zenon DEF Handle
  <2>3. CASE p = q
    <3>1. n = [o EXCEPT ![p] = x]
      BY <1>1, <1>2, <2>1, <2>3, Zenon DEF Finish
    <3> QED
      BY <1>1, <2>2, <2>3, <3>1
  <2>4. CASE p # q
    <3>1. n = [[o EXCEPT ![p] = o[q]] EXCEPT ![q] = x]
      BY <1>1, <1>2, <2>1, <2>4, Zenon DEF Finish
    <3>2. n \in [Object -> Handle] /\ n[p] = o[q] /\ n[q] = x /\ \A r \in Object : r # p /\ r # q => n[r] = o[r]
      BY <2>4, <3>1, Zenon
    <3> QED
      BY <1>1, <2>2, <2>4, <3>2
  <2> QED
    BY <2>3, <2>4, Zenon
<1>3. CASE job.f = "destroy"
  <2>1. Fresh \in Handle /\ Fresh.pid = -1
    BY DEF Fresh, Handle
  <2>2. n = [o EXCEPT ![p] = Fresh]
    BY <1>1, <1>3, Zenon DEF Finish
  <2> QED
    BY <1>1, <2>1, <2>2
<1>4. CASE job.f \in {"wait", "terminate"}
  <2>1. n = o
    BY <1>4, Zenon DEF Finish
  <2> QED
    BY <2>1, Zenon
<1> QED
  BY <1>2, <1>3, <1>4, Zenon DEF Jobs

(* The descriptors of the object of a call: those spawn gave it, none of   *)
(* them a standard one.                                                    *)
LEMMA OwnEnds ==
  ASSUME PShape, Kids, EndsHeld, Proper, NEW p \in Object, obj[p].pid # -1
  PROVE  /\ obj[p].pid \in Children
         /\ Fds(obj[p]) = {child[obj[p].pid].args[e] : e \in ParentEnds}
         /\ Fds(obj[p]) \ (0..2) = Fds(obj[p])
<1>1. PICK c \in Children : c = obj[p].pid
  BY Zenon DEF PShape
<1>2. PICK a \in [Pipe -> Nat] : a = child[c].args /\ ArgsOK(a)
  BY KidAt, Zenon
<1>3. /\ obj[p].in_wr = a["in.wr"] /\ obj[p].out_rd = a["out.rd"] /\ obj[p].err_rd = a["err.rd"]
  BY <1>1, <1>2, Zenon DEF EndsHeld
<1>4. a["in.wr"] > 2 /\ a["out.rd"] > 2 /\ a["err.rd"] > 2
  BY <1>2, Zenon DEF ArgsOK
<1>5. a["in.wr"] \notin 0..2 /\ a["out.rd"] \notin 0..2 /\ a["err.rd"] \notin 0..2
  BY <1>4
<1>6. Fds(obj[p]) = {a[e] : e \in ParentEnds}
  BY <1>3, Zenon DEF Fds, ParentEnds
<1>7. \A x \in Fds(obj[p]) : x \notin 0..2
  BY <1>3, <1>5, Zenon DEF Fds
<1> QED
  BY <1>1, <1>2, <1>6, <1>7, Zenon

(* The standard descriptors stay, whichever of an object's are closed.     *)
LEMMA ClosedKeeps ==
  ASSUME PShape, Own, pc.op # "fatal", NEW S, S \cap (0..2) = {}, NEW t, t = Close(fdt, S)
  PROVE  /\ t \in Tables /\ t = [fd \in DOMAIN fdt \ S |-> fdt[fd]]
         /\ \A fd \in DOMAIN t : t[fd].of <= Len(child)
         /\ std \subseteq DOMAIN t /\ \A fd \in DOMAIN t : fd > 2 => t[fd].cloexec = TRUE
<1>1. t \in Tables /\ t = [fd \in DOMAIN fdt \ S |-> fdt[fd]]
  BY CloseIs, Zenon DEF PShape, Close, Restrict
<1>2. std \subseteq DOMAIN fdt /\ \A fd \in DOMAIN fdt : fd > 2 => fdt[fd].cloexec = TRUE
  BY Zenon DEF Own
<1> QED
  BY <1>1, <1>2, Zenon DEF PShape

(* The children C, which have ended, are reaped.                           *)
Retired(C) ==
  /\ child' \in Seq(Kid) /\ Len(child') = Len(child) /\ Children' = Children /\ Kids'
  /\ \A d \in Children :
       /\ child'[d].args = child[d].args /\ child'[d].told = child[d].told
       /\ child'[d].st = IF d \in C THEN "reaped" ELSE child[d].st

LEMMA NoneRetired ==
  ASSUME PShape, Kids, child' = child, std' = std
  PROVE  Retired({})
<1>1. Children' = Children /\ Len(child') = Len(child) /\ child' \in Seq(Kid)
  BY Zenon DEF Children, PShape
<1>2. Kids'
  BY <1>1, KidKeeps, Zenon DEF Kids
<1> QED
  BY <1>1, <1>2, Zenon DEF Retired

LEMMA OneRetired ==
  ASSUME PShape, Kids, std' = std, NEW c \in Ended, Become(c, [child[c] EXCEPT !.st = "reaped"])
  PROVE  Retired({c})
<1>1. c \in Children /\ child[c].st \in {"zombie", "reaped"}
  BY Zenon DEF Ended
<1>2. PICK r \in Kid : r = child[c] /\ KidIs(c, r)
  BY <1>1, KidAt, Zenon
<1>3. PICK new : new = [r EXCEPT !.st = "reaped"]
  BY Zenon
<1>4. new \in Kid
  BY <1>3, Zenon DEF Kid
<1>5. /\ new.st = "reaped" /\ new.args = r.args /\ new.said = r.said /\ new.told = r.told
      /\ new.status = r.status
  BY <1>3, Zenon DEF Kid
<1>6. KidIs(c, new)
  BY <1>1, <1>2, <1>5, Zenon DEF KidIs
<1>7. child \in Seq(Kid) /\ child' = [child EXCEPT ![c] = new]
  BY <1>2, <1>3, Zenon DEF Become, PShape
<1>8. /\ child' \in Seq(Kid) /\ Len(child') = Len(child) /\ Children' = Children
      /\ child'[c] = new /\ (\A d \in Children : d # c => child'[d] = child[d])
      /\ Kids'
  BY <1>1, <1>4, <1>6, <1>7, ChildSet, Zenon
<1> QED
  BY <1>2, <1>5, <1>8, Zenon DEF Retired

(* A call returns: the children C have been reaped and descriptors S       *)
(* closed, and the objects have gone over to obj' by way of o.  When the   *)
(* calls are used as meant, C and S are the child and the descriptors of   *)
(* the object of the call, except that wait closes nothing.                *)
Returns(job, o, S, C) ==
  /\ job \in Jobs /\ o \in [Object -> Handle] /\ obj' = Finish(o, job)
  /\ \A r \in Object : o[r] = obj[r] \/ (r = job.p /\ o[r].pid = -1)
  /\ S \cap (0..2) = {} /\ fdt' = Close(fdt, S) /\ Retired(C)
  /\ (pc = Idle \/ pc.op = "wait") /\ pc' = Idle
  /\ system' = system /\ sigchld' = sigchld /\ std' = std /\ heard' = heard /\ misused' = misused
  /\ waited \subseteq waited'
  /\ Proper =>
       /\ o[job.p].pid = -1
       /\ obj[job.p].pid = -1 => C = {} /\ S = {}
       /\ obj[job.p].pid # -1 =>
            /\ C = {obj[job.p].pid}
            /\ S = Fds(obj[job.p]) \/ (S = {} /\ obj[job.p].pid \in waited')

(* What an object has afterwards, some object had before.                  *)
LEMMA ReturnHands ==
  ASSUME ProcInv, NEW job, NEW o, NEW S, NEW C, Returns(job, o, S, C)
  PROVE  /\ obj' \in [Object -> Handle] /\ job.p \in Object
         /\ \A r \in Object : obj'[r].pid # -1 => \E s \in Object : obj'[r] = obj[s] /\ o[s] = obj[s]
         /\ \A s \in Object : o[s].pid # -1 => o[s] = obj[s]
<1>1. /\ job \in Jobs /\ o \in [Object -> Handle] /\ obj' = Finish(o, job)
      /\ \A r \in Object : o[r] = obj[r] \/ (r = job.p /\ o[r].pid = -1)
  BY Zenon DEF Returns
<1>2. /\ obj' \in [Object -> Handle]
      /\ \A r \in Object : obj'[r].pid # -1 => \E s \in Object : obj'[r] = o[s]
  BY <1>1, FinishIs
<1>3. job.p \in Object
  BY <1>1, Zenon DEF Jobs
<1> QED
  BY <1>1, <1>2, <1>3

LEMMA ReturnShape ==
  ASSUME ProcInv, NEW job, NEW o, NEW S, NEW C, Returns(job, o, S, C)
  PROVE  PShape' /\ Kids' /\ Own' /\ Reports'
<1>1. PShape /\ Kids /\ Own /\ Reports
  BY Zenon DEF ProcInv
<1>2. /\ S \cap (0..2) = {} /\ fdt' = Close(fdt, S) /\ pc' = Idle /\ (pc = Idle \/ pc.op = "wait")
      /\ system' = system /\ sigchld' = sigchld /\ std' = std /\ heard' = heard
  BY Zenon DEF Returns
<1>3. /\ child' \in Seq(Kid) /\ Len(child') = Len(child) /\ Children' = Children /\ Kids'
      /\ \A d \in Children :
           /\ child'[d].told = child[d].told
           /\ child'[d].st = IF d \in C THEN "reaped" ELSE child[d].st
  BY Zenon DEF Returns, Retired
<1>4. pc.op # "fatal"
  BY <1>2 DEF Idle
<1>5. /\ fdt' \in Tables /\ (\A fd \in DOMAIN fdt' : fdt'[fd].of <= Len(child))
      /\ std \subseteq DOMAIN fdt' /\ (\A fd \in DOMAIN fdt' : fd > 2 => fdt'[fd].cloexec = TRUE)
  BY <1>1, <1>2, <1>4, ClosedKeeps, Zenon
<1>6. /\ obj' \in [Object -> Handle]
      /\ \A r \in Object : obj'[r].pid # -1 => \E s \in Object : obj'[r] = obj[s]
  BY ReturnHands, Zenon
<1>7. \A p \in Object : obj'[p].pid \in {-1} \cup Children
  BY <1>1, <1>6, Zenon DEF PShape
<1>8. PShape'
  BY <1>1, <1>2, <1>3, <1>5, <1>6, <1>7, Zenon DEF PShape, PcOK, Handle
<1>9. Own'
  BY <1>2, <1>5, Zenon DEF Own
<1>10. Reports'
  <2> SUFFICES ASSUME Cardinality(std) >= 2, NEW p \in Object, obj'[p].pid # -1
               PROVE  child'[obj'[p].pid].told = 0 /\ child'[obj'[p].pid].st \notin {"forked", "failing"}
    BY <1>2, Zenon DEF Reports, Idle
  <2>1. PICK s \in Object : obj'[p] = obj[s]
    BY <1>6, Zenon
  <2>2. child[obj[s].pid].told = 0 /\ child[obj[s].pid].st \notin {"forked", "failing"}
    BY <1>1, <2>1, Zenon DEF Reports
  <2>3. obj[s].pid \in Children
    BY <1>1, <2>1, Zenon DEF PShape
  <2> QED
    BY <1>3, <2>1, <2>2, <2>3, Zenon
<1> QED
  BY <1>3, <1>8, <1>9, <1>10, Zenon

LEMMA ReturnOwners ==
  ASSUME ProcInv, NEW job, NEW o, NEW S, NEW C, Returns(job, o, S, C), Proper
  PROVE  /\ \A r \in Object : obj'[r].pid # -1 =>
              \E s \in Object : s # job.p /\ obj'[r] = obj[s] /\ obj[s].pid # obj[job.p].pid
         /\ \A s \in Object : s # job.p /\ obj[s].pid # -1 => \E r \in Object : obj'[r] = obj[s]
         /\ Owners'
<1>1. PShape /\ Owners /\ Spawning = FALSE /\ Spawning' = FALSE /\ pc' = Idle
  BY DEF ProcInv, Returns, Spawning, Idle
<1>2. /\ job \in Jobs /\ o \in [Object -> Handle] /\ obj' = Finish(o, job)
      /\ (\A r \in Object : o[r] = obj[r] \/ (r = job.p /\ o[r].pid = -1))
      /\ o[job.p].pid = -1
  BY Zenon DEF Returns
<1>3. \A r, s \in Object : obj[r].pid # -1 /\ obj[r].pid = obj[s].pid => r = s
  BY <1>1, Zenon DEF Owners
<1>4. \A r, s \in Object : o[r].pid # -1 /\ o[r].pid = o[s].pid => r = s
  BY <1>2, <1>3, Zenon
<1>5. /\ \A r \in Object : obj'[r].pid # -1 => \E s \in Object : obj'[r] = o[s]
      /\ \A s \in Object : o[s].pid # -1 => \E r \in Object : obj'[r] = o[s]
      /\ \A r, s \in Object : obj'[r].pid # -1 /\ obj'[r].pid = obj'[s].pid => r = s
  BY <1>2, <1>4, FinishIs
<1>6. job.p \in Object
  BY <1>2, Zenon DEF Jobs
<1>7. ASSUME NEW r \in Object, obj'[r].pid # -1
      PROVE  \E s \in Object : s # job.p /\ obj'[r] = obj[s] /\ obj[s].pid # obj[job.p].pid
  <2>1. PICK s \in Object : obj'[r] = o[s]
    BY <1>5, <1>7, Zenon
  <2>2. s # job.p /\ o[s] = obj[s]
    BY <1>2, <1>7, <2>1, Zenon
  <2> QED
    BY <1>3, <1>6, <1>7, <2>1, <2>2, Zenon
<1>8. ASSUME NEW s \in Object, s # job.p, obj[s].pid # -1
      PROVE  \E r \in Object : obj'[r] = obj[s]
  BY <1>2, <1>5, <1>8
<1>9. /\ Children' = Children
      /\ \A d \in Children : child'[d].st = IF d \in C THEN "reaped" ELSE child[d].st
      /\ C \subseteq {obj[job.p].pid} /\ (obj[job.p].pid # -1 => C = {obj[job.p].pid})
  BY Zenon DEF Returns, Retired
<1>10. ASSUME NEW r \in Object, obj'[r].pid # -1 PROVE child'[obj'[r].pid].st # "reaped"
  <2>1. PICK s \in Object : obj'[r] = obj[s] /\ obj[s].pid # obj[job.p].pid
    BY <1>7, <1>10, Zenon
  <2>2. child[obj[s].pid].st # "reaped" /\ obj[s].pid \in Children
    BY <1>1, <1>10, <2>1, Zenon DEF Owners, PShape
  <2> QED
    BY <1>9, <2>1, <2>2, Zenon
<1>11. ASSUME NEW d \in Children, child'[d].st # "reaped" PROVE \E r \in Object : obj'[r].pid = d
  <2>1. d \notin C /\ child[d].st # "reaped"
    BY <1>9, <1>11, Zenon
  <2>2. PICK s \in Object : obj[s].pid = d
    BY <1>1, <2>1, Zenon DEF Owners
  <2>3. d # -1
    BY DEF Children
  <2>4. s # job.p
    BY <1>9, <2>1, <2>2, <2>3, Zenon
  <2> QED
    BY <1>8, <2>2, <2>3, <2>4, Zenon
<1>12. Owners'
  BY <1>1, <1>5, <1>9, <1>10, <1>11, Zenon DEF Owners, Idle
<1> QED
  BY <1>7, <1>8, <1>12, Zenon

LEMMA ReturnEnds ==
  ASSUME ProcInv, NEW job, NEW o, NEW S, NEW C, Returns(job, o, S, C), Proper
  PROVE  EndsHeld'
<1>1. PShape /\ Kids /\ Own /\ EndsHeld /\ Spawning = FALSE /\ Spawning' = FALSE
  BY DEF ProcInv, Returns, Spawning, Idle
<1>2. PICK p \in Object : p = job.p
  BY ReturnHands, Zenon
<1>3. /\ \A r \in Object : obj'[r].pid # -1 =>
           \E s \in Object : s # p /\ obj'[r] = obj[s] /\ obj[s].pid # obj[p].pid
      /\ \A s \in Object : s # p /\ obj[s].pid # -1 => \E r \in Object : obj'[r] = obj[s]
  BY <1>2, ReturnOwners, Zenon
<1>4. /\ waited \subseteq waited'
      /\ obj[p].pid = -1 => S = {}
      /\ obj[p].pid # -1 => S = Fds(obj[p]) \/ (S = {} /\ obj[p].pid \in waited')
  BY <1>2, Zenon DEF Returns
<1>5. fdt' = [fd \in DOMAIN fdt \ S |-> fdt[fd]]
  BY <1>1, ClosedKeeps, Zenon DEF Returns, Proper
<1>6. \A d \in Children : child'[d].args = child[d].args
  BY Zenon DEF Returns, Retired
<1>7. ASSUME NEW fd \in S PROVE fd \in DOMAIN fdt /\ fdt[fd].of = obj[p].pid
  <2>1. obj[p].pid # -1 /\ fd \in Fds(obj[p])
    BY <1>4, <1>7, Zenon
  <2>2. PICK e \in ParentEnds : fd = child[obj[p].pid].args[e]
    BY <1>1, <2>1, OwnEnds, Zenon
  <2>3. HasEnd(obj[p].pid, e)
    BY <1>1, <2>1, <2>2, Zenon DEF EndsHeld
  <2> QED
    BY <2>2, <2>3, Zenon DEF HasEnd
<1>8. ASSUME NEW r \in Object, obj'[r].pid # -1
      PROVE  /\ obj'[r].in_wr = child'[obj'[r].pid].args["in.wr"]
             /\ obj'[r].out_rd = child'[obj'[r].pid].args["out.rd"]
             /\ obj'[r].err_rd = child'[obj'[r].pid].args["err.rd"]
             /\ \A e \in ParentEnds : HasEnd(obj[r].pid, e)'
  <2>1. PICK s \in Object : obj'[r] = obj[s] /\ obj[s].pid # obj[p].pid
    BY <1>3, <1>8, Zenon
  <2>2. PICK c \in Children : c = obj[s].pid
    BY <1>1, <1>8, <2>1, Zenon DEF PShape
  <2>3. /\ obj[s].in_wr = child[c].args["in.wr"] /\ obj[s].out_rd = child[c].args["out.rd"]
        /\ obj[s].err_rd = child[c].args["err.rd"]
        /\ \A e \in ParentEnds : HasEnd(c, e)
    BY <1>1, <1>8, <2>1, <2>2, Zenon DEF EndsHeld
  <2>4. child'[c].args = child[c].args
    BY <1>6, Zenon
  <2>5. ASSUME NEW e \in ParentEnds PROVE HasEnd(c, e)'
    <3>1. /\ child[c].args[e] \in DOMAIN fdt /\ fdt[child[c].args[e]].of = c
          /\ fdt[child[c].args[e]].end = e
      BY <2>3, Zenon DEF HasEnd
    <3>2. child[c].args[e] \notin S
      BY <1>7, <2>1, <2>2, <3>1, Zenon
    <3> QED
      BY <1>5, <2>4, <3>1, <3>2, Zenon DEF HasEnd
  <2> QED
    BY <2>1, <2>2, <2>3, <2>4, <2>5, Zenon
<1>9. ASSUME NEW fd \in DOMAIN fdt'
      PROVE  \/ fdt'[fd].of \in {0} \cup waited'
             \/ \E r \in Object : obj'[r].pid = fdt'[fd].of /\ fd \in Fds(obj'[r])
  <2>1. fd \in DOMAIN fdt /\ fd \notin S /\ fdt'[fd] = fdt[fd]
    BY <1>5, <1>9, Zenon
  <2>2. fdt[fd].of \in Nat
    BY <1>1, <2>1, TableIs, Zenon DEF PShape, Entry
  <2>3. \/ fdt[fd].of \in {0} \cup waited
        \/ \E s \in Object : obj[s].pid = fdt[fd].of /\ fd \in Fds(obj[s])
    BY <1>1, <2>1, Zenon DEF EndsHeld
  <2>4. CASE fdt[fd].of \in {0} \cup waited
    BY <1>4, <2>1, <2>4, Zenon
  <2>5. ASSUME NEW s \in Object, obj[s].pid = fdt[fd].of, fd \in Fds(obj[s])
        PROVE  \/ fdt'[fd].of \in {0} \cup waited'
               \/ \E r \in Object : obj'[r].pid = fdt'[fd].of /\ fd \in Fds(obj'[r])
    <3>1. obj[s].pid # -1
      BY <2>2, <2>5
    <3>2. CASE s = p
      BY <1>4, <2>1, <2>5, <3>1, <3>2, Zenon
    <3>3. CASE s # p
      <4>1. PICK r \in Object : obj'[r] = obj[s]
        BY <1>3, <3>1, <3>3, Zenon
      <4> QED
        BY <2>1, <2>5, <4>1, Zenon
    <3> QED
      BY <3>2, <3>3, Zenon
  <2> QED
    BY <2>3, <2>4, <2>5, Zenon
<1> QED
  BY <1>1, <1>8, <1>9, Zenon DEF EndsHeld

LEMMA ReturnsKeep ==
  ASSUME ProcInv, NEW job, NEW o, NEW S, NEW C, Returns(job, o, S, C)
  PROVE  ProcInv'
<1>1. PShape' /\ Kids' /\ Own' /\ Reports'
  BY ReturnShape, Zenon
<1>2. Proper' => Proper
  BY Zenon DEF Returns, Proper, Idle
<1>3. Proper => Owners' /\ EndsHeld'
  BY ReturnOwners, ReturnEnds, Zenon
<1>4. ~Proper => Owners' /\ EndsHeld'
  BY <1>2, Zenon DEF Owners, EndsHeld
<1> QED
  BY <1>1, <1>3, <1>4, Zenon DEF ProcInv

(* waitpid returns.                                                        *)
LEMMA ReapsReturns ==
  ASSUME ProcInv, Reaps
  PROVE  \E o, S, C : Returns(pc, o, S, C)
<1>1. PShape /\ Kids /\ Owners /\ EndsHeld
  BY Zenon DEF ProcInv
<1>2. pc.op = "wait" /\ pc \in Jobs
  BY <1>1 DEF Reaps, PShape, PcOK, Idle, Jobs
<1>3. PICK p \in Object : p = pc.p
  BY <1>2, Zenon DEF Jobs
<1>4. PICK c \in Awaited(obj[p].pid) \cap Ended :
        /\ Become(c, [child[c] EXCEPT !.st = "reaped"])
        /\ waited' = IF pc.f = "wait" THEN waited \cup {c} ELSE waited
  BY <1>3, Zenon DEF Reaps
<1>5. /\ fdt' = Close(fdt, Closed(pc)) /\ obj' = Finish([obj EXCEPT ![p].pid = -1], pc) /\ pc' = Idle
      /\ system' = system /\ sigchld' = sigchld /\ std' = std /\ heard' = heard /\ misused' = misused
  BY <1>3, Zenon DEF Reaps, choice
<1>6. PICK o : o = [obj EXCEPT ![p].pid = -1]
  BY Zenon
<1>7. obj \in [Object -> Handle]
  BY <1>1, Zenon DEF PShape, Handle
<1>8. PICK x \in Handle : x = [obj[p] EXCEPT !.pid = -1]
  BY <1>3, <1>7, Orphan, Zenon
<1>9. o = [obj EXCEPT ![p] = x] /\ x.pid = -1
  BY <1>6, <1>7, <1>8, Zenon DEF Handle
<1>10. /\ o \in [Object -> Handle] /\ o[p].pid = -1
       /\ \A r \in Object : o[r] = obj[r] \/ (r = p /\ o[r].pid = -1)
  BY <1>7, <1>9, Zenon
<1>11. Retired({c})
  BY <1>1, <1>4, <1>5, OneRetired, Zenon
<1>12. Closed(pc) \cap (0..2) = {}
  BY Zenon DEF Closed
<1>13. ASSUME Proper
       PROVE  /\ obj[p].pid # -1 /\ c = obj[p].pid
              /\ Closed(pc) = Fds(obj[p]) \/ (Closed(pc) = {} /\ obj[p].pid \in waited')
  <2>1. obj[p].pid # -1
    BY <1>1, <1>2, <1>3, <1>13, Zenon DEF Owners
  <2>2. c = obj[p].pid
    BY <1>4, <2>1, Zenon DEF Awaited
  <2>3. Fds(obj[p]) \ (0..2) = Fds(obj[p])
    BY <1>1, <1>13, <2>1, OwnEnds, Zenon
  <2> QED
    BY <1>3, <1>4, <2>1, <2>2, <2>3, Zenon DEF Closed
<1>14. waited \subseteq waited'
  BY <1>4, Zenon
<1>15. Returns(pc, o, Closed(pc), {c})
  BY <1>2, <1>3, <1>5, <1>6, <1>10, <1>11, <1>12, <1>13, <1>14, Zenon DEF Returns
<1> QED
  BY <1>15, Zenon

(* ECHILD: not while the calls are used as meant.                          *)
LEMMA WaitFailsReturns ==
  ASSUME ProcInv, WaitFails
  PROVE  \E o, S, C : Returns(pc, o, S, C)
<1>1. PShape /\ Kids /\ Owners
  BY Zenon DEF ProcInv
<1>2. pc.op = "wait" /\ pc \in Jobs
  BY <1>1 DEF WaitFails, PShape, PcOK, Idle, Jobs
<1>3. PICK p \in Object : p = pc.p
  BY <1>2, Zenon DEF Jobs
<1>4. ~Proper
  <2> SUFFICES ASSUME Proper PROVE FALSE
    BY Zenon
  <2>1. obj[p].pid # -1 /\ child[obj[p].pid].st # "reaped"
    BY <1>1, <1>2, <1>3, Zenon DEF Owners
  <2>2. obj[p].pid \in Kept
    BY <1>1, <2>1, Zenon DEF PShape, Kept
  <2> QED
    BY <1>3, <2>1, <2>2, Zenon DEF WaitFails, Awaited
<1>5. /\ fdt' = Close(fdt, Closed(pc)) /\ obj' = Finish(obj, pc) /\ pc' = Idle /\ child' = child
      /\ system' = system /\ sigchld' = sigchld /\ std' = std /\ heard' = heard /\ misused' = misused
      /\ waited' = waited
  BY Zenon DEF WaitFails, choice, ghosts
<1>6. obj \in [Object -> Handle]
  BY <1>1, Zenon DEF PShape, Handle
<1>7. Retired({})
  BY <1>1, <1>5, NoneRetired, Zenon
<1>8. Closed(pc) \cap (0..2) = {}
  BY Zenon DEF Closed
<1>9. Returns(pc, obj, Closed(pc), {})
  BY <1>2, <1>4, <1>5, <1>6, <1>7, <1>8, Zenon DEF Returns
<1> QED
  BY <1>9, Zenon

(* terminate on an object without a child, or with one that is gone.       *)
LEMMA TerminateReturns ==
  ASSUME ProcInv, NEW f \in {"terminate", "assign", "destroy"}, NEW p \in Object, NEW q \in Object,
         Terminate(f, p, q), obj[p].pid \notin Kept
  PROVE  \E job, o, S, C : Returns(job, o, S, C)
<1>1. PShape /\ Kids /\ Owners
  BY Zenon DEF ProcInv
<1>2. PICK job : job = Calling(f, p, q)
  BY Zenon
<1>3. job \in Jobs /\ job.p = p /\ job.f = f
  BY <1>2, Zenon DEF Calling, Jobs
<1>4. /\ pc = Idle /\ fdt' = (IF obj[p].pid = -1 THEN fdt ELSE Close(fdt, Closed(job)))
      /\ obj' = Finish(obj, job) /\ child' = child /\ pc' = Idle
      /\ system' = system /\ sigchld' = sigchld /\ std' = std /\ heard' = heard /\ misused' = misused
      /\ waited' = waited
  BY <1>2, Zenon DEF Terminate, choice, ghosts
<1>5. Proper => obj[p].pid = -1
  BY <1>1, Zenon DEF Owners, PShape, Kept
<1>6. obj \in [Object -> Handle]
  BY <1>1, Zenon DEF PShape, Handle
<1>7. Retired({})
  BY <1>1, <1>4, NoneRetired, Zenon
<1>8. PICK S : S = IF obj[p].pid = -1 THEN {} ELSE Closed(job)
  BY Zenon
<1>9. S \cap (0..2) = {}
  BY <1>8, Zenon DEF Closed
<1>10. fdt' = Close(fdt, S)
  <2>1. CASE obj[p].pid = -1
    <3>1. fdt = [fd \in DOMAIN fdt |-> fdt[fd]]
      BY <1>1, TableIs, Zenon DEF PShape
    <3> QED
      BY <1>4, <1>8, <2>1, <3>1, Zenon DEF Close, Restrict
  <2>2. CASE obj[p].pid # -1
    BY <1>4, <1>8, <2>2, Zenon
  <2> QED
    BY <2>1, <2>2, Zenon
<1>11. Returns(job, obj, S, {})
  BY <1>3, <1>4, <1>5, <1>6, <1>7, <1>8, <1>9, <1>10, Zenon DEF Returns
<1> QED
  BY <1>11, Zenon

(* A call of wait or terminate begins to wait.                             *)
LEMMA TermSet ==
  ASSUME PShape, Kids, std' = std, NEW c \in Children, NEW b \in BOOLEAN,
         child' = [child EXCEPT ![c].term = b]
  PROVE  Retired({})
<1>1. PICK r \in Kid : r = child[c] /\ KidIs(c, r)
  BY KidAt, Zenon
<1>2. PICK new : new = [r EXCEPT !.term = b]
  BY Zenon
<1>3. new \in Kid
  BY <1>2, Zenon DEF Kid
<1>4. /\ new.st = r.st /\ new.args = r.args /\ new.said = r.said /\ new.told = r.told
      /\ new.status = r.status /\ new.tbl = r.tbl /\ new.at = r.at
  BY <1>2, Zenon DEF Kid
<1>5. KidIs(c, new)
  BY <1>1, <1>4, Zenon DEF KidIs
<1>6. child \in Seq(Kid) /\ child' = [child EXCEPT ![c] = new]
  BY <1>1, <1>2, Zenon DEF PShape
<1>7. /\ child' \in Seq(Kid) /\ Len(child') = Len(child) /\ Children' = Children
      /\ child'[c] = new /\ (\A d \in Children : d # c => child'[d] = child[d])
      /\ Kids'
  BY <1>3, <1>5, <1>6, ChildSet, Zenon
<1> QED
  BY <1>1, <1>4, <1>7 DEF Retired

LEMMA CallsKeep ==
  ASSUME ProcInv, pc = Idle, pc' \in Jobs, Retired({}), UNCHANGED <<system, sigchld, std, fdt, obj, heard, waited>>,
         Proper' => Proper /\ obj[pc'.p].pid # -1
  PROVE  ProcInv'
<1>1. PShape /\ Own /\ Reports /\ Owners /\ EndsHeld
  BY Zenon DEF ProcInv
<1>2. /\ child' \in Seq(Kid) /\ Len(child') = Len(child) /\ Children' = Children /\ Kids'
      /\ \A d \in Children :
           child'[d].args = child[d].args /\ child'[d].told = child[d].told /\ child'[d].st = child[d].st
  BY Zenon DEF Retired
<1>3. pc'.op = "wait" /\ pc.op = "idle" /\ Spawning = FALSE /\ Spawning' = FALSE
  BY DEF Jobs, Idle, Spawning
<1>4. PShape'
  BY <1>1, <1>2, Zenon DEF PShape, PcOK, Jobs
<1>5. Own'
  BY <1>1, <1>3, Zenon DEF Own
<1>6. \A p \in Object : obj[p].pid # -1 => obj[p].pid \in Children
  BY <1>1, Zenon DEF PShape
<1>7. Reports'
  BY <1>1, <1>2, <1>3, <1>6, Zenon DEF Reports
<1>8. Owners'
  BY <1>1, <1>2, <1>3, <1>6, ZenonT(30) DEF Owners
<1>9. ASSUME Proper' PROVE EndsHeld'
  <2>1. \A d \in Children, e \in ParentEnds : HasEnd(d, e)' <=> HasEnd(d, e)
    BY <1>2, Zenon DEF HasEnd
  <2> QED
    BY <1>1, <1>2, <1>3, <1>6, <1>9, <2>1 DEF EndsHeld
<1>10. EndsHeld'
  BY <1>9, Zenon DEF EndsHeld
<1> QED
  BY <1>2, <1>4, <1>5, <1>7, <1>8, <1>10, Zenon DEF ProcInv

LEMMA WaitKeeps ==
  ASSUME ProcInv, NEW p \in Object, Wait(p)
  PROVE  ProcInv'
<1>1. /\ pc = Idle /\ pc' = Calling("wait", p, p) /\ UNCHANGED <<system, sigchld, std, fdt, obj, heard, waited>>
      /\ child' = child /\ misused' = (misused \/ obj[p].pid = -1)
  BY Zenon DEF Wait, choice
<1>2. pc' \in Jobs /\ pc'.p = p
  BY <1>1, Zenon DEF Calling, Jobs
<1>3. Proper' => Proper /\ obj[pc'.p].pid # -1
  <2>1. misused \/ obj[p].pid = -1 => misused'
    BY <1>1, Zenon
  <2> QED
    BY <1>1, <1>2, <2>1 DEF Proper, Idle
<1>4. Retired({})
  BY <1>1, NoneRetired, Zenon DEF ProcInv
<1> QED
  BY <1>1, <1>2, <1>3, <1>4, CallsKeep, Zenon

LEMMA TerminateKeeps ==
  ASSUME ProcInv, NEW f \in {"terminate", "assign", "destroy"}, NEW p \in Object, NEW q \in Object,
         Terminate(f, p, q)
  PROVE  ProcInv'
<1>1. CASE obj[p].pid \notin Kept
  BY <1>1, TerminateReturns, ReturnsKeep, Zenon
<1>2. CASE obj[p].pid \in Kept
  <2>1. PICK c \in Children : c = obj[p].pid
    BY <1>2, Zenon DEF Kept
  <2>2. PICK b \in BOOLEAN : b = (c \notin Ended)
    BY Zenon
  <2>3. /\ pc = Idle /\ child' = [child EXCEPT ![c].term = b] /\ pc' = Calling(f, p, q)
        /\ UNCHANGED <<system, sigchld, std, fdt, obj, heard, waited>> /\ misused' = misused
    BY <1>2, <2>1, <2>2, Zenon DEF Terminate, choice, ghosts
  <2>4. pc' \in Jobs /\ pc'.p = p
    BY <2>3, Zenon DEF Calling, Jobs
  <2>5. c # -1
    BY DEF Children
  <2>6. Proper' => Proper /\ obj[pc'.p].pid # -1
    BY <2>1, <2>3, <2>4, <2>5, Zenon DEF Proper, Idle
  <2>7. Retired({})
    BY <2>3, TermSet, Zenon DEF ProcInv
  <2> QED
    BY <2>3, <2>4, <2>6, <2>7, CallsKeep, Zenon
<1> QED
  BY <1>1, <1>2, Zenon

(* The parent ends.                                                        *)
LEMMA FatalKeeps ==
  ASSUME ProcInv, NEW C, Retired(C), Fatal, UNCHANGED <<system, sigchld, std, obj, heard>>
  PROVE  ProcInv'
<1>1. PShape /\ Reports
  BY Zenon DEF ProcInv
<1>2. /\ child' \in Seq(Kid) /\ Len(child') = Len(child) /\ Children' = Children /\ Kids'
      /\ \A d \in Children :
           child'[d].told = child[d].told /\ child'[d].st = IF d \in C THEN "reaped" ELSE child[d].st
  BY Zenon DEF Retired
<1>3. pc' = [op |-> "fatal"] /\ fdt' = <<>> /\ pc'.op = "fatal"
  BY Zenon DEF Fatal
<1>4. fdt' \in Tables /\ \A fd \in DOMAIN fdt' : FALSE
  BY <1>3, NoTable, Zenon
<1>5. PShape'
  BY <1>1, <1>2, <1>3, <1>4, Zenon DEF PShape, PcOK
<1>6. \A p \in Object : obj[p].pid # -1 => obj[p].pid \in Children
  BY <1>1, Zenon DEF PShape
<1>7. Reports'
  BY <1>1, <1>2, <1>3, <1>6, Zenon DEF Reports
<1>8. Own' /\ Owners' /\ EndsHeld'
  BY <1>3, Zenon DEF Own, Owners, EndsHeld, Proper
<1> QED
  BY <1>2, <1>5, <1>7, <1>8, Zenon DEF ProcInv

LEMMA FatalsKeep ==
  ASSUME ProcInv, Report \/ \E p \in Object : SpawnFails(p)
  PROVE  ProcInv'
<1>1. CASE Report
  <2>1. pc.c \in Ended /\ Become(pc.c, [child[pc.c] EXCEPT !.st = "reaped"]) /\ Fatal
        /\ UNCHANGED <<system, sigchld, std, obj, heard>>
    BY <1>1, Zenon DEF Report, choice
  <2>2. Retired({pc.c})
    BY <2>1, OneRetired, Zenon DEF ProcInv
  <2> QED
    BY <2>1, <2>2, FatalKeeps, Zenon
<1>2. CASE \E p \in Object : SpawnFails(p)
  <2>1. Fatal /\ child' = child /\ UNCHANGED <<system, sigchld, std, obj, heard>>
    BY <1>2, Zenon DEF SpawnFails, choice
  <2>2. Retired({})
    BY <2>1, NoneRetired, Zenon DEF ProcInv
  <2> QED
    BY <2>1, <2>2, FatalKeeps, Zenon
<1> QED
  BY <1>1, <1>2, Zenon

-----------------------------------------------------------------------------
(* spawn.                                                                  *)

(* The report is read: for a child that has ended, where the parent stood  *)
(* still, and then all of it.                                              *)
LEMMA ReadsKeep ==
  ASSUME ProcInv, ReadLength \/ ReadText
  PROVE  ProcInv'
<1>1. PShape /\ Kids /\ Own /\ Reports /\ Owners /\ EndsHeld
  BY Zenon DEF ProcInv
<1>2. /\ system' = system /\ sigchld' = sigchld /\ std' = std /\ fdt' = fdt /\ obj' = obj
      /\ child' = child /\ waited' = waited /\ misused' = misused
  BY Zenon DEF ReadLength, ReadText, choice, ghosts
<1>3. PICK x \in {"body", "reap"} : pc' = [pc EXCEPT !.op = x] /\ pc.op \in {"read", "body"}
  BY Zenon DEF ReadLength, ReadText
<1>4. pc \in [op : {"read", "body", "reap"}, p : Object, c : Children]
  BY <1>1, <1>3 DEF PShape, PcOK, Idle
<1>5. PICK c \in Children : c = pc.c
  BY <1>4, Zenon
<1>6. /\ pc' \in [op : {"read", "body", "reap"}, p : Object, c : Children]
      /\ pc'.op = x /\ pc'.p = pc.p /\ pc'.c = pc.c
  BY <1>3, <1>4, Zenon
<1>7. Children' = Children /\ Spawning = TRUE /\ Spawning' = TRUE
  BY <1>2, <1>3, <1>6, Zenon DEF Children, Spawning
<1>8. PICK r \in Kid : r = child[c] /\ KidIs(c, r)
  BY <1>1, KidAt, Zenon
<1>9. r.said \in 0..4 /\ r.told \in 0..4 /\ r.said <= r.told
      /\ r.st \in {"forked", "failing", "running", "zombie", "reaped"}
  BY <1>8, Zenon DEF Kid, KidIs
<1>10. heard' \in 0..4
  BY <1>5, <1>8, <1>9 DEF ReadLength, ReadText
<1>11. PShape'
  BY <1>1, <1>2, <1>6, <1>7, <1>10, Zenon DEF PShape, PcOK
<1>12. Kids'
  BY <1>1, <1>2, <1>7, KidKeeps, Zenon DEF Kids
<1>13. Own' /\ Owners' /\ EndsHeld'
  <2>1. Proper' <=> Proper
    BY <1>2, <1>3, <1>6, Zenon DEF Proper
  <2>2. \A d, e : HasEnd(d, e)' <=> HasEnd(d, e)
    BY <1>2, Zenon DEF HasEnd
  <2>3. Own'
    BY <1>1, <1>2, <1>3, <1>6, Zenon DEF Own
  <2>4. Owners'
    BY <1>1, <1>2, <1>3, <1>6, <1>7, <2>1, ZenonT(30) DEF Owners
  <2>5. EndsHeld'
    BY <1>1, <1>2, <1>6, <1>7, <2>1, <2>2 DEF EndsHeld
  <2> QED
    BY <2>3, <2>4, <2>5, Zenon
<1>14. ASSUME Cardinality(std) >= 2, system = "vfork"
       PROVE  r.st \in {"zombie", "reaped"} /\ r.told > 0 /\ (x = "reap" /\ r.status # "kill" => heard' = 4)
  <2>1. CASE ReadLength
    <3>1. r.st \notin {"forked", "failing"} /\ r.said > 0 /\ x = "body"
      BY <1>3, <1>5, <1>6, <1>8, <1>14, <2>1, Zenon DEF ReadLength, Resumed
    <3>2. r.st # "running"
      BY <1>8, <1>9, <3>1 DEF KidIs
    <3> QED
      BY <1>9, <3>1, <3>2
  <2>2. CASE ReadText
    <3>1. heard' = r.said /\ pc.op = "body"
      BY <1>5, <1>8, <2>2, Zenon DEF ReadText
    <3>2. r.st \in {"zombie", "reaped"} /\ r.told > 0
      BY <1>1, <1>5, <1>8, <1>14, <3>1, Zenon DEF Reports
    <3>3. r.said = r.told /\ (r.status # "kill" => r.told = 4)
      BY <1>8, <1>14, <3>2 DEF KidIs
    <3> QED
      BY <3>1, <3>2, <3>3, Zenon
  <2> QED
    BY <2>1, <2>2, Zenon
<1>15. Reports'
  BY <1>1, <1>2, <1>5, <1>6, <1>8, <1>14, Zenon DEF Reports
<1> QED
  BY <1>11, <1>12, <1>13, <1>15, Zenon DEF ProcInv

(* spawn returns an object.                                                *)
LEMMA SpawnedKeeps ==
  ASSUME ProcInv, Spawned
  PROVE  ProcInv'
<1>1. PShape /\ Kids /\ Own /\ Reports /\ Owners /\ EndsHeld
  BY Zenon DEF ProcInv
<1>2. /\ pc.op = "read" /\ pc' = Idle /\ NoReport(pc.c)
      /\ system' = system /\ sigchld' = sigchld /\ std' = std /\ heard' = heard
      /\ child' = child /\ waited' = waited /\ misused' = misused
  BY Zenon DEF Spawned, choice, ghosts
<1>3. PICK p \in Object, c \in Children : p = pc.p /\ c = pc.c
  BY <1>1, <1>2 DEF PShape, PcOK, Idle
<1>4. PICK r \in Kid : r = child[c] /\ KidIs(c, r)
  BY <1>1, KidAt, Zenon
<1>5. PICK a \in [Pipe -> Nat] : a = r.args /\ ArgsOK(a)
  BY <1>1, <1>4, KidAt, Zenon
<1>6. PICK h : h = [pid |-> c, in_wr |-> a["in.wr"], out_rd |-> a["out.rd"], err_rd |-> a["err.rd"]]
  BY Zenon
<1>7. h \in Handle /\ h.pid = c /\ h.in_wr = a["in.wr"] /\ h.out_rd = a["out.rd"] /\ h.err_rd = a["err.rd"]
  BY <1>5, <1>6 DEF Handle, Children, Pipe, EndName
<1>8. fdt' = Close(fdt, {a["result.rd"]}) /\ obj' = [obj EXCEPT ![p] = h]
  BY <1>3, <1>4, <1>5, <1>6, Zenon DEF Spawned
<1>9. obj' \in [Object -> Handle] /\ obj'[p] = h /\ \A q \in Object : q # p => obj'[q] = obj[q]
  BY <1>1, <1>7, <1>8, Zenon DEF PShape, Handle
<1>10. fdt' \in Tables /\ fdt' = [fd \in DOMAIN fdt \ {a["result.rd"]} |-> fdt[fd]]
  BY <1>1, <1>8, CloseIs, Zenon DEF PShape, Close, Restrict
<1>11. Children' = Children /\ Spawning = TRUE /\ Spawning' = FALSE /\ pc'.op = "idle"
  BY <1>2 DEF Children, Spawning, Idle
<1>12. PShape'
  <2>1. \A fd \in DOMAIN fdt' : fdt'[fd].of <= Len(child')
    BY <1>1, <1>2, <1>10, Zenon DEF PShape
  <2>2. \A q \in Object : obj'[q].pid \in {-1} \cup Children
    BY <1>1, <1>7, <1>9, Zenon DEF PShape
  <2> QED
    BY <1>1, <1>2, <1>9, <1>10, <1>11, <2>1, <2>2, Zenon DEF PShape, PcOK, Handle
<1>13. Kids'
  BY <1>1, <1>2, <1>11, KidKeeps, Zenon DEF Kids
<1>14. Own'
  <2>1. a["result.rd"] \notin std
    BY <1>5, StreamNames, Zenon DEF ArgsOK
  <2> QED
    BY <1>1, <1>2, <1>10, <2>1, Zenon DEF Own
<1>15. Reports'
  <2>1. ASSUME Cardinality(std) >= 2 PROVE r.told = 0 /\ r.st \notin {"forked", "failing"}
    <3>1. r.said = 0 /\ r.said = r.told
      BY <1>2, <1>3, <1>4, <2>1, Zenon DEF NoReport, KidIs
    <3>2. ~Holds(r.tbl, c, "result.wr")
      BY <1>2, <1>3, <1>4, Zenon DEF NoReport, ResultClosed
    <3>3. r.st \in {"forked", "failing"} => TableOK(c, r.tbl, a, r.at)
      BY <1>4, <1>5, Zenon DEF KidIs
    <3>4. r.st \in {"forked", "failing"} => Holds(r.tbl, c, "result.wr")
      <4>1. ASSUME r.st \in {"forked", "failing"}
            PROVE  /\ a["result.wr"] \in DOMAIN r.tbl
                   /\ r.tbl[a["result.wr"]] = [of |-> c, end |-> "result.wr", cloexec |-> TRUE]
        BY <2>1, <3>3, <4>1, Zenon DEF TableOK
      <4> QED
        BY <4>1 DEF Holds
    <3> QED
      BY <3>1, <3>2, <3>4, Zenon
  <2> QED
    BY <1>1, <1>2, <1>4, <1>7, <1>9, <1>11, <2>1, Zenon DEF Reports
<1>16. Proper' => Proper
  BY <1>2, <1>11, Zenon DEF Proper
<1>17. ASSUME Proper
       PROVE  /\ obj[p].pid = -1 /\ r.st # "reaped" /\ \A q \in Object : obj[q].pid # c
              /\ \A e \in ParentEnds \cup {"result.rd"} : HasEnd(c, e)
  BY <1>1, <1>3, <1>4, <1>11, <1>17, Zenon DEF Owners, EndsHeld
<1>18. ASSUME Proper PROVE Owners'
  <2>1. c # -1
    BY DEF Children
  <2>2. /\ \A q \in Object : obj[q].pid # -1 => child[obj[q].pid].st # "reaped"
        /\ \A q, s \in Object : obj[q].pid # -1 /\ obj[q].pid = obj[s].pid => q = s
        /\ \A d \in Children : child[d].st # "reaped" => d = c \/ \E q \in Object : obj[q].pid = d
    BY <1>1, <1>3, <1>18, Zenon DEF Owners
  <2>3. \A q \in Object : obj'[q].pid # -1 => child'[obj'[q].pid].st # "reaped"
    BY <1>2, <1>4, <1>7, <1>9, <1>17, <1>18, <2>2, ZenonT(30)
  <2>4. \A q, s \in Object : obj'[q].pid # -1 /\ obj'[q].pid = obj'[s].pid => q = s
    BY <1>7, <1>9, <1>17, <1>18, <2>2
  <2>5. ASSUME NEW d \in Children, child'[d].st # "reaped" PROVE \E q \in Object : obj'[q].pid = d
    <3>1. CASE d = c
      BY <1>7, <1>9, <3>1, Zenon
    <3>2. ASSUME NEW q \in Object, obj[q].pid = d PROVE obj'[q].pid = d
      <4>1. d # -1
        BY DEF Children
      <4> QED
        BY <1>9, <1>17, <1>18, <3>2, <4>1, Zenon
    <3> QED
      BY <1>2, <2>2, <2>5, <3>1, <3>2, Zenon
  <2> QED
    BY <1>11, <2>3, <2>4, <2>5, Zenon DEF Owners
<1>19. ASSUME Proper PROVE EndsHeld'
  <2>1. a["result.rd"] \in DOMAIN fdt /\ fdt[a["result.rd"]].of = c
    BY <1>4, <1>5, <1>17, <1>19, Zenon DEF HasEnd
  <2>2. ASSUME NEW d \in Children, NEW e \in ParentEnds, HasEnd(d, e) PROVE HasEnd(d, e)'
    <3>1. /\ child[d].args[e] \in DOMAIN fdt /\ fdt[child[d].args[e]].of = d
          /\ fdt[child[d].args[e]].end = e
      BY <2>2, Zenon DEF HasEnd
    <3>2. child[d].args[e] # a["result.rd"]
      <4>1. CASE d = c
        BY <1>4, <1>5, <4>1, Zenon DEF ArgsOK, ParentEnds, Pipe, EndName
      <4>2. CASE d # c
        BY <2>1, <3>1, <4>2, Zenon
      <4> QED
        BY <4>1, <4>2, Zenon
    <3> QED
      BY <1>2, <1>10, <3>1, <3>2, Zenon DEF HasEnd
  <2>3. ASSUME NEW q \in Object, obj'[q].pid # -1
        PROVE  /\ obj'[q].in_wr = child'[obj'[q].pid].args["in.wr"]
               /\ obj'[q].out_rd = child'[obj'[q].pid].args["out.rd"]
               /\ obj'[q].err_rd = child'[obj'[q].pid].args["err.rd"]
               /\ \A e \in ParentEnds : HasEnd(obj[q].pid, e)'
    <3>1. CASE q = p
      BY <1>2, <1>4, <1>5, <1>7, <1>9, <1>17, <1>19, <2>2, <3>1, ZenonT(30)
    <3>2. CASE q # p
      <4>1. PICK d \in Children : d = obj[q].pid
        BY <1>1, <1>9, <2>3, <3>2, Zenon DEF PShape
      <4>2. /\ obj[q].in_wr = child[d].args["in.wr"] /\ obj[q].out_rd = child[d].args["out.rd"]
            /\ obj[q].err_rd = child[d].args["err.rd"]
            /\ \A e \in ParentEnds : HasEnd(d, e)
        BY <1>1, <1>9, <1>19, <2>3, <3>2, <4>1, Zenon DEF EndsHeld
      <4> QED
        BY <1>2, <1>9, <2>2, <3>2, <4>1, <4>2, Zenon
    <3> QED
      BY <3>1, <3>2, Zenon
  <2>4. ASSUME NEW fd \in DOMAIN fdt'
        PROVE  \/ fdt'[fd].of \in {0} \cup waited'
               \/ \E q \in Object : obj'[q].pid = fdt'[fd].of /\ fd \in Fds(obj'[q])
    <3>1. fd \in DOMAIN fdt /\ fd # a["result.rd"] /\ fdt'[fd] = fdt[fd]
      BY <1>10, <2>4, Zenon
    <3>2. fdt[fd].of \in Nat
      BY <1>1, <3>1, TableIs, Zenon DEF PShape, Entry
    <3>3. \/ fdt[fd].of \in {0} \cup waited
          \/ \E q \in Object : obj[q].pid = fdt[fd].of /\ fd \in Fds(obj[q])
          \/ c = fdt[fd].of /\ \E e \in ParentEnds \cup {"result.rd"} : fd = a[e]
      BY <1>1, <1>3, <1>4, <1>5, <1>19, <3>1, Zenon DEF EndsHeld
    <3>4. ASSUME NEW q \in Object, obj[q].pid = fdt[fd].of, fd \in Fds(obj[q])
          PROVE  obj'[q].pid = fdt'[fd].of /\ fd \in Fds(obj'[q])
      <4>1. obj[q].pid # -1
        BY <3>2, <3>4
      <4> QED
        BY <1>9, <1>17, <1>19, <3>1, <3>4, <4>1, Zenon
    <3>5. ASSUME c = fdt[fd].of, NEW e \in ParentEnds, fd = a[e]
          PROVE  obj'[p].pid = fdt'[fd].of /\ fd \in Fds(obj'[p])
      BY <1>7, <1>9, <3>1, <3>5, Zenon DEF Fds, ParentEnds
    <3> QED
      BY <1>2, <3>1, <3>3, <3>4, <3>5, Zenon
  <2> QED
    BY <1>11, <2>3, <2>4, Zenon DEF EndsHeld
<1>20. Owners' /\ EndsHeld'
  <2>1. ~Proper => Owners' /\ EndsHeld'
    BY <1>16, Zenon DEF Owners, EndsHeld
  <2> QED
    BY <1>18, <1>19, <2>1, Zenon
<1> QED
  BY <1>12, <1>13, <1>14, <1>15, <1>20, Zenon DEF ProcInv

(* A new child: its table is the parent's, with all eight ends; the parent *)
(* keeps four of them.                                                     *)
LEMMA NewKid ==
  ASSUME NEW a \in [Pipe -> Nat], NEW t \in Tables, NEW r,
         r = [st |-> "forked", args |-> a, tbl |-> t, at |-> 0, told |-> 0, said |-> 0,
              masked |-> TRUE, term |-> FALSE, status |-> "none"]
  PROVE  /\ r \in Kid
         /\ r.st = "forked" /\ r.args = a /\ r.tbl = t /\ r.at = 0 /\ r.told = 0 /\ r.said = 0
BY DEF Kid

LEMMA SpawnKeeps ==
  ASSUME ProcInv, NEW p \in Object, Spawn(p)
  PROVE  ProcInv'
<1>1. PShape /\ Kids /\ Own /\ Reports /\ Owners /\ EndsHeld
  BY Zenon DEF ProcInv
<1>2. /\ pc = Idle /\ pc.op = "idle" /\ obj[p].pid = -1
      /\ system' = system /\ sigchld' = sigchld /\ std' = std /\ heard' = 0
      /\ obj' = obj /\ waited' = waited /\ misused' = misused
  BY DEF Spawn, choice, ghosts, Idle, Fresh
<1>3. PICK c \in Nat : c = Len(child) + 1
  BY <1>1 DEF PShape
<1>4. PICK t : t = Pipes(fdt, c)
  BY Zenon
<1>5. PICK a : a = [e \in Range(PipeEnds) |-> Fd(Pipes(fdt, c), c, e)]
  BY Zenon
<1>6. PICK r : r = [st |-> "forked", args |-> a, tbl |-> t, at |-> 0, told |-> 0, said |-> 0,
                    masked |-> TRUE, term |-> FALSE, status |-> "none"]
  BY Zenon
<1>7. child' = Append(child, r) /\ fdt' = Close(t, ChildEnds(a)) /\ pc' = [op |-> "read", p |-> p, c |-> c]
  BY <1>3, <1>4, <1>5, <1>6, Zenon DEF Spawn
<1>8. /\ fdt \in Tables /\ std \subseteq DOMAIN fdt /\ std \subseteq 0..2 /\ DOMAIN fdt \subseteq Nat
      /\ \A fd \in DOMAIN fdt : fdt[fd].of \in Nat /\ fdt[fd].of <= Len(child) /\ fdt[fd].of # c
      /\ \A fd \in DOMAIN fdt : fd > 2 => fdt[fd].cloexec = TRUE
  BY <1>1, <1>2, <1>3, TableIs DEF PShape, Own, Entry
<1>9. /\ a \in [Pipe -> Nat] /\ ArgsOK(a) /\ t \in Tables
      /\ DOMAIN t = DOMAIN fdt \cup {a[e] : e \in Pipe}
      /\ \A fd \in DOMAIN fdt : t[fd] = fdt[fd]
      /\ \A e \in Pipe : a[e] \notin DOMAIN fdt /\ t[a[e]] = [of |-> c, end |-> e, cloexec |-> TRUE]
  <2>1. \A fd \in DOMAIN fdt : fdt[fd].of # c
    BY <1>8, Zenon
  <2>2. fdt \in Tables /\ c \in Nat /\ std \subseteq DOMAIN fdt /\ std \subseteq 0..2
    BY <1>3, <1>8, Zenon
  <2>3. SpawnsAs(fdt, c, a, t)
    BY <1>4, <1>5, <2>1, <2>2, SpawnIs, Zenon
  <2> QED
    BY <2>3, Zenon DEF SpawnsAs
<1>10. /\ r \in Kid /\ r.st = "forked" /\ r.args = a /\ r.tbl = t /\ r.at = 0 /\ r.told = 0 /\ r.said = 0
  BY <1>6, <1>9, NewKid
<1>11. TableOK(c, t, a, 0)
  <2>1. \A fd \in DOMAIN t : fd \in Nat /\ (fd > 2 => t[fd].cloexec = TRUE)
    <3> SUFFICES ASSUME NEW fd \in DOMAIN t PROVE fd \in Nat /\ (fd > 2 => t[fd].cloexec = TRUE)
      BY Zenon
    <3>1. CASE fd \in DOMAIN fdt
      BY <1>8, <1>9, <3>1, Zenon
    <3>2. CASE \E e \in Pipe : fd = a[e]
      <4>1. PICK e \in Pipe : fd = a[e]
        BY <3>2, Zenon
      <4>2. fd \in Nat /\ t[fd] = [of |-> c, end |-> e, cloexec |-> TRUE]
        BY <1>9, <4>1, Zenon
      <4> QED
        BY <4>2
    <3> QED
      BY <1>9, <3>1, <3>2, Zenon
  <2>2. \A e \in Pipe : a[e] \in DOMAIN t /\ t[a[e]] = [of |-> c, end |-> e, cloexec |-> TRUE]
    BY <1>9, Zenon
  <2>3. std \subseteq DOMAIN t
    BY <1>8, <1>9, Zenon
  <2>4. \A fd \in DOMAIN t : ~(fd < 0)
    BY <2>1
  <2> QED
    BY <2>1, <2>2, <2>3, <2>4, StreamNames, Zenon DEF TableOK
<1>12. KidIs(c, r)
  BY <1>9, <1>10, <1>11 DEF KidIs
<1>13. /\ child' \in Seq(Kid) /\ Len(child') = c /\ Children' = Children \cup {c}
       /\ child'[c] = r /\ (\A d \in Children : child'[d] = child[d])
       /\ Kids'
  BY <1>1, <1>2, <1>3, <1>7, <1>10, <1>12, ChildAdd, Zenon DEF PShape
<1>14. fdt' \in Tables /\ fdt' = [fd \in DOMAIN t \ ChildEnds(a) |-> t[fd]]
  BY <1>7, <1>9, CloseIs, Zenon DEF Close, Restrict
<1>15. /\ \A fd \in DOMAIN fdt : fd \in DOMAIN fdt' /\ fdt'[fd] = fdt[fd]
       /\ \A e \in ParentEnds \cup {"result.rd"} : a[e] \in DOMAIN fdt' /\ fdt'[a[e]].of = c /\ fdt'[a[e]].end = e
       /\ \A fd \in DOMAIN fdt' :
            fd \in DOMAIN fdt \/ \E e \in ParentEnds \cup {"result.rd"} : fd = a[e]
  <2>1. ChildEnds(a) = {a[e] : e \in {"result.wr", "in.rd", "out.wr", "err.wr"}}
    BY Zenon DEF ChildEnds
  <2>2. /\ Pipe = ParentEnds \cup {"result.rd"} \cup {"result.wr", "in.rd", "out.wr", "err.wr"}
        /\ \A e \in ParentEnds \cup {"result.rd"} : e \notin {"result.wr", "in.rd", "out.wr", "err.wr"}
    BY Zenon DEF Pipe, EndName, ParentEnds
  <2>3. \A e \in ParentEnds \cup {"result.rd"} : a[e] \notin ChildEnds(a)
    BY <1>9, <2>1, <2>2 DEF ArgsOK
  <2>4. \A fd \in DOMAIN fdt : fd \notin ChildEnds(a)
    BY <1>9, <2>1, <2>2, Zenon
  <2>5. ASSUME NEW e \in ParentEnds \cup {"result.rd"}
        PROVE  a[e] \in DOMAIN fdt' /\ fdt'[a[e]].of = c /\ fdt'[a[e]].end = e
    <3>1. e \in Pipe /\ a[e] \in DOMAIN t
      BY <1>9, <2>2, Zenon
    <3>2. a[e] \in DOMAIN fdt' /\ fdt'[a[e]] = t[a[e]]
      BY <1>14, <2>3, <3>1, Zenon
    <3>3. t[a[e]] = [of |-> c, end |-> e, cloexec |-> TRUE]
      BY <1>9, <3>1, Zenon
    <3> QED
      BY <3>2, <3>3
  <2>6. ASSUME NEW fd \in DOMAIN fdt', fd \notin DOMAIN fdt
        PROVE  \E e \in ParentEnds \cup {"result.rd"} : fd = a[e]
    <3>1. PICK e \in Pipe : fd = a[e]
      BY <1>9, <1>14, <2>6, Zenon
    <3>2. fd \notin ChildEnds(a)
      BY <1>14, <2>6, Zenon
    <3> QED
      BY <2>1, <2>2, <3>1, <3>2, Zenon
  <2>7. \A fd \in DOMAIN fdt : fd \in DOMAIN fdt' /\ fdt'[fd] = fdt[fd]
    BY <1>9, <1>14, <2>4, Zenon
  <2> QED
    BY <2>5, <2>6, <2>7, Zenon
<1>16. /\ pc'.op = "read" /\ pc'.p = p /\ pc'.c = c /\ Spawning = FALSE /\ Spawning' = TRUE
  BY <1>2, <1>7 DEF Spawning
<1>17. PShape'
  <2>1. \A fd \in DOMAIN fdt' : fdt'[fd].of <= Len(child')
    BY <1>3, <1>8, <1>13, <1>15
  <2>2. PcOK'
    BY <1>7, <1>13, Zenon DEF PcOK
  <2>3. \A q \in Object : obj'[q].pid \in {-1} \cup Children'
    BY <1>1, <1>2, <1>13, Zenon DEF PShape
  <2> QED
    BY <1>1, <1>2, <1>13, <1>14, <2>1, <2>2, <2>3 DEF PShape
<1>18. Own'
  <2>1. \A fd \in DOMAIN fdt' : fd \in DOMAIN t /\ fdt'[fd] = t[fd]
    BY <1>14, Zenon
  <2>2. \A fd \in DOMAIN t : fd > 2 => t[fd].cloexec = TRUE
    BY <1>11, Zenon DEF TableOK
  <2> QED
    BY <1>2, <1>8, <1>15, <2>1, <2>2, Zenon DEF Own
<1>19. \A q \in Object : obj[q].pid # -1 => obj[q].pid \in Children
  BY <1>1, Zenon DEF PShape
<1>20. Reports'
  BY <1>1, <1>2, <1>13, <1>16, <1>19, Zenon DEF Reports
<1>21. c \notin Children /\ c # -1
  BY <1>3 DEF Children
<1>22. Owners'
  <2> SUFFICES ASSUME Proper PROVE Owners'
    BY <1>2, <1>16, Zenon DEF Owners, Proper
  <2>1. /\ \A q \in Object : obj[q].pid # -1 => child[obj[q].pid].st # "reaped"
        /\ \A q, s \in Object : obj[q].pid # -1 /\ obj[q].pid = obj[s].pid => q = s
        /\ \A d \in Children : child[d].st # "reaped" => \E q \in Object : obj[q].pid = d
    BY <1>1, <1>16, Zenon DEF Owners
  <2>2. \A q \in Object : obj[q].pid # c
    BY <1>19, <1>21, Zenon
  <2> QED
    BY <1>2, <1>10, <1>13, <1>16, <1>19, <2>1, <2>2 DEF Owners
<1>23. EndsHeld'
  <2> SUFFICES ASSUME Proper PROVE EndsHeld'
    BY <1>2, <1>16, Zenon DEF EndsHeld, Proper
  <2>1. ASSUME NEW d \in Children, NEW e \in ParentEnds, HasEnd(d, e) PROVE HasEnd(d, e)'
    <3>1. child'[d].args[e] = child[d].args[e]
      BY <1>13, Zenon
    <3> QED
      BY <1>15, <2>1, <3>1, Zenon DEF HasEnd
  <2>2. \A e \in ParentEnds \cup {"result.rd"} : HasEnd(c, e)'
    BY <1>10, <1>13, <1>15, Zenon DEF HasEnd
  <2>3. ASSUME NEW q \in Object, obj[q].pid # -1
        PROVE  /\ obj[q].in_wr = child'[obj[q].pid].args["in.wr"]
               /\ obj[q].out_rd = child'[obj[q].pid].args["out.rd"]
               /\ obj[q].err_rd = child'[obj[q].pid].args["err.rd"]
               /\ \A e \in ParentEnds : HasEnd(obj[q].pid, e)'
    <3>1. PICK d \in Children : d = obj[q].pid
      BY <1>19, <2>3, Zenon
    <3>2. /\ obj[q].in_wr = child[d].args["in.wr"] /\ obj[q].out_rd = child[d].args["out.rd"]
          /\ obj[q].err_rd = child[d].args["err.rd"]
          /\ \A e \in ParentEnds : HasEnd(d, e)
      BY <1>1, <2>3, <3>1, Zenon DEF EndsHeld
    <3> QED
      BY <1>2, <1>13, <2>1, <3>1, <3>2, Zenon
  <2>4. ASSUME NEW fd \in DOMAIN fdt'
        PROVE  \/ fdt'[fd].of \in {0} \cup waited
               \/ \E q \in Object : obj[q].pid = fdt'[fd].of /\ fd \in Fds(obj[q])
               \/ /\ c = fdt'[fd].of
                  /\ \E e \in ParentEnds \cup {"result.rd"} : fd = a[e]
    <3>1. CASE fd \in DOMAIN fdt
      BY <1>1, <1>15, <1>16, <3>1, Zenon DEF EndsHeld
    <3>2. CASE \E e \in ParentEnds \cup {"result.rd"} : fd = a[e]
      BY <1>15, <3>2, Zenon
    <3> QED
      BY <1>15, <2>4, <3>1, <3>2, Zenon
  <2> QED
    BY <1>2, <1>10, <1>13, <1>16, <2>2, <2>3, <2>4 DEF EndsHeld
<1> QED
  BY <1>13, <1>17, <1>18, <1>20, <1>22, <1>23, Zenon DEF ProcInv

-----------------------------------------------------------------------------
LEMMA ProcStarts ==
  ASSUME ProcInit
  PROVE  ProcInv
<1>1. /\ system \in {"vfork", "fork"} /\ sigchld \in {"dfl", "ign"} /\ std \subseteq 0..2
      /\ fdt = [fd \in std |-> [of |-> 0, end |-> "std", cloexec |-> FALSE]]
      /\ obj = [p \in Object |-> Fresh] /\ child = <<>> /\ pc = Idle /\ heard = 0
  BY ProcessAssumption, Zenon DEF ProcInit
<1>2. Children = {} /\ Len(child) = 0 /\ child \in Seq(Kid)
  BY <1>1 DEF Children
<1>3. fdt \in Tables
  <2>1. IsFiniteSet(0..2)
    <3>1. 0 \in Int /\ 2 \in Int
      OBVIOUS
    <3> QED
      BY <3>1, FS_Interval, Zenon
  <2>2. IsFiniteSet(std)
    BY <1>1, <2>1, FS_Subset, Zenon
  <2>3. [of |-> 0, end |-> "std", cloexec |-> FALSE] \in Entry
    BY Zenon DEF Entry, EndName
  <2>4. DOMAIN fdt = std /\ fdt = [fd \in DOMAIN fdt |-> fdt[fd]] /\ \A fd \in DOMAIN fdt : fdt[fd] \in Entry
    BY <1>1, <2>3, Zenon
  <2>5. DOMAIN fdt \subseteq Nat
    BY <1>1, <2>4
  <2> QED
    BY <2>2, <2>4, <2>5, TableIs, Zenon
<1>4. \A p \in Object : obj[p] = Fresh /\ obj[p].pid = -1
  BY <1>1, Zenon DEF Fresh
<1>5. Fresh \in Handle
  BY DEF Fresh, Handle
<1>6. PShape
  BY <1>1, <1>2, <1>3, <1>4, <1>5 DEF PShape, PcOK, Handle
<1>7. Kids /\ Reports /\ Owners
  BY <1>1, <1>2, <1>4, Zenon DEF Kids, Reports, Owners, Spawning, Idle
<1>8. Own
  BY <1>1 DEF Own
<1>9. EndsHeld
  BY <1>1, <1>4, Zenon DEF EndsHeld, Spawning, Idle
<1> QED
  BY <1>6, <1>7, <1>8, <1>9, Zenon DEF ProcInv

LEMMA ProcKeeps ==
  ASSUME ProcInv, [ProcNext]_procVars
  PROVE  ProcInv'
<1>1. CASE UNCHANGED procVars
  <2>1. UNCHANGED <<system, sigchld, std, fdt, obj, child, pc, heard, waited, misused>>
    BY <1>1, Zenon DEF procVars
  <2>2. Children' = Children
    BY <2>1, Zenon DEF Children
  <2>3. Kids'
    BY <2>1, <2>2, KidKeeps, Zenon DEF Kids, ProcInv
  <2>4. PShape'
    BY <2>1, <2>2, Zenon DEF ProcInv, PShape, PcOK
  <2>5. Own' /\ Reports'
    BY <2>1, <2>2, Zenon DEF ProcInv, Own, Reports
  <2>6. Owners'
    BY <2>1, <2>2, Zenon DEF ProcInv, Owners, Proper, Spawning
  <2>7. EndsHeld'
    <3>1. \A d, e : HasEnd(d, e)' <=> HasEnd(d, e)
      BY <2>1, Zenon DEF HasEnd
    <3> QED
      BY <2>1, <2>2, <3>1, Zenon DEF ProcInv, EndsHeld, Proper, Spawning
  <2> QED
    BY <2>3, <2>4, <2>5, <2>6, <2>7, Zenon DEF ProcInv
<1>2. CASE ParentGoesOn
  BY <1>2, SpawnedKeeps, ReadsKeep, FatalsKeep, ReapsReturns, WaitFailsReturns, ReturnsKeep, Zenon DEF ParentGoesOn
<1>3. CASE ParentCalls
  BY <1>3, SpawnKeeps, FatalsKeep, WaitKeeps, TerminateKeeps, Zenon DEF ParentCalls
<1>4. CASE Stopped
  BY <1>1, <1>4, Zenon DEF Stopped
<1>5. CASE \E c \in Children : ChildGoesOn(c) \/ ChildExits(c) \/ ChildKilled(c)
  BY <1>5, ChildMoves, MovesKeep, Zenon DEF ProcInv
<1> QED
  BY <1>1, <1>2, <1>3, <1>4, <1>5, Zenon DEF ProcNext

LEMMA ProcAlways == ProcSpec => []ProcInv
<1>1. ProcInit => ProcInv
  BY ProcStarts, Zenon
<1>2. ProcInv /\ [ProcNext]_procVars => ProcInv'
  BY ProcKeeps, Zenon
<1> QED
  BY <1>1, <1>2, PTL DEF ProcSpec

(* Types: descriptors, objects, the parent's calls and the children.       *)
THEOREM ProcTypes == ProcSpec => []ProcTypeOK
<1>1. ASSUME ProcInv PROVE ProcTypeOK
  <2>1. PShape /\ Kids
    BY <1>1, Zenon DEF ProcInv
  <2>2. \A fd \in DOMAIN fdt : fd \in Nat /\ fdt[fd].of \in 0..Len(child)
    BY <2>1, TableIs DEF PShape, Entry
  <2>3. \A p \in Object : obj[p].pid \in {-1} \cup Children /\ Fds(obj[p]) \subseteq Nat \cup {-1}
    BY <2>1, Zenon DEF PShape, Fds
  <2>4. ASSUME NEW c \in Children
        PROVE  /\ child[c].st \in {"forked", "failing", "running", "zombie", "reaped"}
               /\ child[c].said \in 0..child[c].told /\ child[c].told \in 0..4
               /\ child[c].status \in {"none", "exit", "term", "kill"}
    BY <2>1, KidAt DEF Kid, KidIs
  <2>5. pc.op \in {"idle", "read", "body", "reap", "wait", "fatal"} /\ heard \in 0..4
    BY <2>1 DEF PShape, PcOK, Idle
  <2> QED
    BY <2>2, <2>3, <2>4, <2>5, Zenon DEF ProcTypeOK
<1> QED
  BY <1>1, ProcAlways, PTL

(* A child's program has the pipes of its own spawn as its standard        *)
(* streams and no other end of a pipe, whatever descriptors the parent was *)
(* started with and whatever it has opened since.                          *)
THEOREM StreamsAreRedirected == ProcSpec => []StreamsRedirected
<1>1. ASSUME ProcInv PROVE StreamsRedirected
  BY <1>1, Zenon DEF ProcInv, Kids, KidIs, StreamsRedirected
<1> QED
  BY <1>1, ProcAlways, PTL

(* With at most one standard descriptor closed, spawn returns an object    *)
(* only for a child that did not fail before exec.                         *)
THEOREM FailuresAreReported == ProcSpec => []FailureReported
<1>1. ASSUME ProcInv PROVE FailureReported
  BY <1>1, Zenon DEF ProcInv, Reports, FailureReported
<1> QED
  BY <1>1, ProcAlways, PTL

(* Objects and the spawn in progress share the children the kernel keeps.  *)
THEOREM ChildrenHaveOwners == ProcSpec => []OneOwner
<1>1. ASSUME ProcInv PROVE OneOwner
  <2> SUFFICES ASSUME Proper, NEW c \in Kept
               PROVE  IF pc.op \in {"read", "body", "reap"} /\ pc.c = c
                      THEN \A p \in Object : obj[p].pid # c
                      ELSE \E p \in Object : {q \in Object : obj[q].pid = c} = {p}
    BY Zenon DEF OneOwner, Proper
  <2>1. Owners /\ c \in Children /\ c # -1 /\ child[c].st # "reaped"
    BY <1>1 DEF ProcInv, Kept, Children
  <2>2. CASE Spawning /\ pc.c = c
    BY <2>1, <2>2, Zenon DEF Owners, Spawning
  <2>3. CASE ~(Spawning /\ pc.c = c)
    <3>1. PICK p \in Object : obj[p].pid = c
      BY <2>1, <2>3, Zenon DEF Owners
    <3>2. \A q \in Object : obj[q].pid = c => q = p
      BY <2>1, <3>1, Zenon DEF Owners
    <3> QED
      BY <2>3, <3>1, <3>2, Zenon DEF Spawning
  <2> QED
    BY <2>2, <2>3, Zenon
<1> QED
  BY <1>1, ProcAlways, PTL

(* Objects name the parent's ends of their child's pipes, and nothing else *)
(* is open but the ends that wait leaves behind.                           *)
THEOREM FdsAreManaged == ProcSpec => []FdsManaged
<1>1. ASSUME ProcInv PROVE FdsManaged
  <2> SUFFICES ASSUME sigchld = "dfl", ~misused PROVE FdsManaged
    BY Zenon DEF FdsManaged
  <2>1. EndsHeld /\ PShape
    BY <1>1, Zenon DEF ProcInv
  <2>2. ASSUME NEW p \in Object, obj[p].pid # -1, pc.op # "fatal"
        PROVE  /\ obj[p].in_wr \in DOMAIN fdt /\ fdt[obj[p].in_wr].of = obj[p].pid /\ fdt[obj[p].in_wr].end = "in.wr"
               /\ obj[p].out_rd \in DOMAIN fdt /\ fdt[obj[p].out_rd].of = obj[p].pid /\ fdt[obj[p].out_rd].end = "out.rd"
               /\ obj[p].err_rd \in DOMAIN fdt /\ fdt[obj[p].err_rd].of = obj[p].pid /\ fdt[obj[p].err_rd].end = "err.rd"
    <3>1. /\ obj[p].in_wr = child[obj[p].pid].args["in.wr"] /\ HasEnd(obj[p].pid, "in.wr")
          /\ obj[p].out_rd = child[obj[p].pid].args["out.rd"] /\ HasEnd(obj[p].pid, "out.rd")
          /\ obj[p].err_rd = child[obj[p].pid].args["err.rd"] /\ HasEnd(obj[p].pid, "err.rd")
      BY <2>1, <2>2, Zenon DEF EndsHeld, Proper, ParentEnds
    <3> QED
      BY <3>1, Zenon DEF HasEnd
  <2>3. ASSUME pc = Idle, NEW fd \in DOMAIN fdt
        PROVE  fdt[fd].of \in {0} \cup waited \cup {obj[p].pid : p \in Object}
    BY <2>1, <2>3 DEF EndsHeld, Proper, Spawning, Idle
  <2>4. \A p \in Object : obj[p].pid # -1 /\ pc.op # "fatal" =>
          \A x \in {<<obj[p].in_wr, "in.wr">>, <<obj[p].out_rd, "out.rd">>, <<obj[p].err_rd, "err.rd">>} :
            x[1] \in DOMAIN fdt /\ fdt[x[1]].of = obj[p].pid /\ fdt[x[1]].end = x[2]
    BY <2>2
  <2> QED
    BY <2>3, <2>4, Zenon DEF FdsManaged
<1> QED
  BY <1>1, ProcAlways, PTL
=============================================================================
