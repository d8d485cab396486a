----------------------------- MODULE ScanProofs -----------------------------
(***************************************************************************)
(* ReadyIsFinal and StackSound, for every tree on disk, every order        *)
(* std::sort may leave and every directory that cannot be opened.          *)
(*                                                                         *)
(* The strengthening says how far the scan has come: with the directory    *)
(* being read (Reading), with those still on the stack or not found yet    *)
(* (Untouched), and with the file between its three steps (Files).         *)
(***************************************************************************)
EXTENDS ScanDir, Lemmas, SequenceTheorems

-----------------------------------------------------------------------------
(* Sequences without repetition, up to the set of their elements.          *)

(* The empty one.                                                          *)
LEMMA EmptyList == IsInjective(<<>>) /\ Range(<<>>) = {}
BY DEF IsInjective, Range

(* entries is consumed from its head.                                      *)
LEMMA HeadTail ==
  ASSUME NEW T, NEW s \in Seq(T), s # <<>>, IsInjective(s)
  PROVE  /\ Tail(s) \in Seq(T) /\ IsInjective(Tail(s))
         /\ Head(s) \in Range(s)
         /\ Range(Tail(s)) = Range(s) \ {Head(s)}
<1>1. /\ Len(s) \in Nat /\ Len(s) > 0 /\ DOMAIN s = 1..Len(s)
      /\ Tail(s) \in Seq(T) /\ Len(Tail(s)) = Len(s) - 1
      /\ DOMAIN Tail(s) = 1..Len(s) - 1
      /\ \A i \in 1..Len(s) - 1 : Tail(s)[i] = s[i + 1]
      /\ Head(s) = s[1]
  OBVIOUS
<1>2. IsInjective(Tail(s))
  BY <1>1 DEF IsInjective
<1>3. Head(s) \in Range(s)
  BY <1>1 DEF Range
<1>4. ASSUME NEW x \in Range(s), x # Head(s) PROVE x \in Range(Tail(s))
  <2>1. PICK i \in 1..Len(s) : x = s[i]
    BY <1>1, Zenon DEF Range
  <2>2. i - 1 \in 1..Len(s) - 1 /\ x = Tail(s)[i - 1]
    BY <2>1, <1>1, <1>4
  <2> QED
    BY <2>2, <1>1, Zenon DEF Range
<1>5. ASSUME NEW x \in Range(Tail(s)) PROVE x \in Range(s) /\ x # Head(s)
  <2>1. PICK i \in 1..Len(s) - 1 : x = s[i + 1]
    BY <1>1, Zenon DEF Range
  <2>2. i + 1 \in 1..Len(s) /\ i + 1 # 1
    BY <1>1
  <2> QED
    BY <2>1, <2>2, <1>1 DEF Range, IsInjective
<1> QED
  BY <1>1, <1>2, <1>3, <1>4, <1>5, Zenon

(* A new element is pushed.                                                *)
LEMMA Pushed ==
  ASSUME NEW T, NEW s \in Seq(T), IsInjective(s), NEW x \in T, x \notin Range(s)
  PROVE  /\ Append(s, x) \in Seq(T) /\ IsInjective(Append(s, x))
         /\ Range(Append(s, x)) = Range(s) \cup {x}
<1> DEFINE a == Append(s, x)
<1>1. /\ Len(s) \in Nat /\ DOMAIN s = 1..Len(s)
      /\ a \in Seq(T) /\ DOMAIN a = 1..Len(s) + 1
      /\ \A i \in 1..Len(s) : a[i] = s[i]
      /\ a[Len(s) + 1] = x
  OBVIOUS
<1> HIDE DEF a
<1>2. \A i \in 1..Len(s) : s[i] # x
  BY <1>1, Zenon DEF Range
<1>3. \A i \in 1..Len(s) + 1 : i \in 1..Len(s) \/ i = Len(s) + 1
  BY <1>1
<1>4. IsInjective(a)
  BY <1>1, <1>2, <1>3, Zenon DEF IsInjective
<1>5. \A i \in 1..Len(s) : i \in 1..Len(s) + 1
  BY <1>1
<1>6. Len(s) + 1 \in 1..Len(s) + 1
  BY <1>1
<1>7. Range(a) = Range(s) \cup {x}
  BY <1>1, <1>3, <1>5, <1>6, Zenon DEF Range
<1> QED
  BY <1>1, <1>4, <1>7, Zenon DEF a

(* The top is popped.                                                      *)
LEMMA Popped ==
  ASSUME NEW T, NEW s \in Seq(T), s # <<>>, IsInjective(s)
  PROVE  /\ SubSeq(s, 1, Len(s) - 1) \in Seq(T) /\ IsInjective(SubSeq(s, 1, Len(s) - 1))
         /\ s[Len(s)] \in T /\ s[Len(s)] \in Range(s)
         /\ Range(SubSeq(s, 1, Len(s) - 1)) = Range(s) \ {s[Len(s)]}
<1> DEFINE f == SubSeq(s, 1, Len(s) - 1)
<1>1. /\ Len(s) \in Nat /\ Len(s) > 0 /\ DOMAIN s = 1..Len(s)
      /\ s[Len(s)] \in T
  OBVIOUS
<1>2. /\ f \in Seq(T) /\ DOMAIN f = 1..Len(s) - 1
      /\ \A i \in 1..Len(s) - 1 : f[i] = s[i]
  BY <1>1
<1> HIDE DEF f
<1>3. \A k \in Nat \ {0} :
        /\ \A i \in 1..k : i \in 1..k - 1 \/ i = k
        /\ \A i \in 1..k - 1 : i \in 1..k /\ i # k
        /\ k \in 1..k
  OBVIOUS
<1>4. /\ \A i \in 1..Len(s) : i \in 1..Len(s) - 1 \/ i = Len(s)
      /\ \A i \in 1..Len(s) - 1 : i \in 1..Len(s) /\ i # Len(s)
      /\ Len(s) \in 1..Len(s)
  <2>1. Len(s) \in Nat \ {0}
    BY <1>1
  <2> QED
    BY <1>3, <2>1, Zenon
<1>5. IsInjective(f)
  BY <1>1, <1>2, <1>4, Zenon DEF IsInjective
<1>6. ASSUME NEW x \in Range(f) PROVE x \in Range(s) /\ x # s[Len(s)]
  BY <1>1, <1>2, <1>4, Zenon DEF Range, IsInjective
<1>7. ASSUME NEW x \in Range(s), x # s[Len(s)] PROVE x \in Range(f)
  BY <1>1, <1>2, <1>4, <1>7, Zenon DEF Range
<1>8. s[Len(s)] \in Range(s)
  BY <1>1, <1>4, Zenon DEF Range
<1> QED
  BY <1>1, <1>2, <1>5, <1>8, <1>6, <1>7, Zenon DEF f


Left == Range(entries)
Stacked == Range(stack)

(* The types the argument needs.                                           *)
ScanShape ==
  /\ children \in [Node -> SUBSET Node]
  /\ \A n \in Node : children[n] \subseteq Kids(n)
  /\ ready \in [Node -> BOOLEAN]
  /\ total \in [Node -> Nat]
  /\ stack \in Seq(Dir)
  /\ node \in Dir \cup {NULL}
  /\ entries \in Seq(Node \cup Ignored)
  /\ step \in {"add", "shift", "unlock"}
  /\ skipped \subseteq Dir

(* The entries of the directory being read are linked or still to come,    *)
(* and only the file between its steps is both.                            *)
Reading ==
  /\ IsInjective(entries)
  /\ step # "add" => node # NULL /\ entries # <<>> /\ Head(entries) \in Regular
  /\ node = NULL => entries = <<>>
  /\ node # NULL => Alive(node) /\ ~ready[node]
  /\ scan = "scanning" /\ node # NULL =>
       /\ Left \subseteq OnDisk(node)
       /\ node \in skipped => entries = <<>> /\ children[node] = {}
       /\ node \notin skipped => children[node] \cup (Left \cap Node) = Kids(node)
       /\ children[node] \cap Left = IF step = "add" THEN {} ELSE {Head(entries)}

(* A directory that is still to be read, or to be found, has an empty list *)
(* and is neither ready nor known to be closed to us.                      *)
Untouched ==
  \A d \in Dir : d \in Stacked \/ ~Alive(d) =>
    children[d] = {} /\ ~ready[d] /\ d \notin skipped

(* Total and flag of a regular file, by its step.                          *)
Files ==
  \A n \in Node :
    /\ total[n] = IF n \in Dir \/ ready[n] \/ (step = "unlock" /\ n = Head(entries))
                  THEN Size[n] ELSE 0
    /\ n \in Regular /\ ready[n] => Alive(n) /\ (step # "add" => n # Head(entries))
    /\ n \in Regular /\ Alive(n) /\ ~ready[n] => step # "add" /\ n = Head(entries)

(* What is closed to us shows an empty list.                               *)
Skips == \A d \in skipped : children[d] = {}

ReadyDirs == \A d \in Dir : ready[d] /\ d \notin skipped => children[d] = Kids(d)

SInv == ScanShape /\ StackSound /\ Reading /\ Untouched /\ Files /\ Skips /\ ReadyDirs

-----------------------------------------------------------------------------
(* What std::sort leaves is every entry once.                              *)
LEMMA SortedLists ==
  ASSUME NEW E, IsFiniteSet(E), NEW s \in Sorted(E)
  PROVE  s \in Seq(E) /\ IsInjective(s) /\ Range(s) = E
<1> DEFINE D == 1..Cardinality(E)
<1>1. Cardinality(E) \in Nat
  BY FS_CardinalityType, Zenon
<1>2. s \in Injection(D, E)
  BY Zenon DEF Sorted
<1>3. s \in [D -> E]
  BY <1>2, Zenon DEF Injection
<1>4. s \in Seq(E)
  BY <1>1, <1>3
<1>5. Cardinality(D) = Cardinality(E)
  BY <1>1, FS_Interval
<1>6. s \in Surjection(D, E)
  BY <1>2, <1>5, FS_Injection, Zenon
<1>7. Range(s) = E
  BY <1>3, <1>6, Zenon DEF Range, Surjection
<1>8. IsInjective(s)
  BY <1>2, Zenon DEF Injection
<1> QED
  BY <1>4, <1>7, <1>8, Zenon

-----------------------------------------------------------------------------
(* The tree on disk and the lists.                                         *)

(* The entries of a directory.                                             *)
LEMMA Entries ==
  ASSUME NEW d \in Dir
  PROVE  /\ IsFiniteSet(OnDisk(d))
         /\ OnDisk(d) \subseteq Node \cup Ignored
         /\ OnDisk(d) \cap Node = Kids(d)
<1>1. Kids(d) \subseteq Node /\ {x \in Ignored : In[x] = d} \subseteq Ignored
  BY Zenon DEF Kids
<1>2. IsFiniteSet(Kids(d)) /\ IsFiniteSet({x \in Ignored : In[x] = d})
  BY <1>1, TreeAssumption, IgnoredAssumption, FS_Subset, Zenon
<1>3. IsFiniteSet(OnDisk(d))
  BY <1>2, FS_Union, Zenon DEF OnDisk
<1>4. OnDisk(d) \cap Node = Kids(d)
  BY <1>1, IgnoredAssumption, Zenon DEF OnDisk
<1> QED
  BY <1>1, <1>3, <1>4, Zenon DEF OnDisk

(* A child is no root, lies in a directory, and its parent is the one.     *)
LEMMA Kinship ==
  /\ Root \in Dir /\ Dir \subseteq Node /\ NULL \notin Node
  /\ \A n, c \in Node : c \in Kids(n) <=> c # Root /\ Parent[c] = n
  /\ \A n \in Regular : Kids(n) = {}
  /\ \A n \in Node : Kids(n) \subseteq Node
  /\ \A n \in Node \ {Root} : Parent[n] \in Dir
BY TreeAssumption, NullAssumption DEF Kids, Regular

(* add_child makes its argument alive, and nothing else.                   *)
LEMMA Links ==
  ASSUME ScanShape, NEW d \in Dir, NEW c \in Kids(d), AddChild(c)
  PROVE  /\ children' \in [Node -> SUBSET Node]
         /\ children'[d] = children[d] \cup {c}
         /\ \A n \in Node : n # d => children'[n] = children[n]
         /\ \A n \in Node : children'[n] \subseteq Kids(n)
         /\ \A n \in Node : Alive(n)' <=> Alive(n) \/ n = c
<1>1. c \in Node /\ c # Root /\ Parent[c] = d /\ d \in Node
  BY Kinship, Zenon DEF Kids
<1>2. children' = [children EXCEPT ![d] = @ \cup {c}]
  BY <1>1, Zenon DEF AddChild
<1>3. /\ children' \in [Node -> SUBSET Node]
      /\ children'[d] = children[d] \cup {c}
      /\ \A n \in Node : n # d => children'[n] = children[n]
  BY <1>1, <1>2, Zenon DEF ScanShape
<1>4. \A n \in Node : children'[n] \subseteq Kids(n)
  BY <1>3, Zenon DEF ScanShape
<1>5. \A n \in Node : Alive(n)' <=> Alive(n) \/ n = c
  <2> SUFFICES ASSUME NEW n \in Node, n # Root
               PROVE  n \in children'[Parent[n]] <=> n \in children[Parent[n]] \/ n = c
    BY <1>1, Zenon DEF Alive
  <2>1. Parent[n] \in Node
    BY Kinship, Zenon
  <2> QED
    BY <2>1, <1>1, <1>3, Zenon
<1> QED
  BY <1>3, <1>4, <1>5, Zenon

(* Lists that stay as they are keep everything alive.                      *)
LEMMA Lives == UNCHANGED children => \A n \in Node : Alive(n)' <=> Alive(n)
BY Zenon DEF Alive

-----------------------------------------------------------------------------
(* The steps.                                                              *)

(* Only the root is on the stack.                                          *)
LEMMA ScanStarts == ScanInit => SInv
<1> SUFFICES ASSUME ScanInit PROVE SInv
  BY Zenon
<1>1. /\ stack = <<Root>> /\ entries = <<>> /\ node = NULL /\ step = "add" /\ skipped = {}
      /\ \A n \in Node : children[n] = {} /\ ready[n] = FALSE /\ total[n] = 0
  BY Zenon DEF ScanInit
<1>2. Stacked = {Root} /\ IsInjective(stack) /\ stack \in Seq(Dir)
  BY <1>1, Kinship DEF Stacked, Range, IsInjective
<1>3. Left = {} /\ IsInjective(entries)
  BY <1>1, EmptyList, Zenon DEF Left
<1>4. \A n \in Node : Alive(n) <=> n = Root
  BY <1>1, Kinship, Zenon DEF Alive
<1>5. ScanShape
  BY <1>1, <1>2, Kinship DEF ScanShape, ScanInit
<1>6. StackSound
  BY <1>1, <1>2, <1>4, Kinship DEF StackSound, Stacked
<1>7. Reading
  BY <1>1, <1>3, Zenon DEF Reading
<1>8. Untouched /\ Skips /\ ReadyDirs
  BY <1>1, Kinship, Zenon DEF Untouched, Skips, ReadyDirs
<1>9. Files
  BY <1>1, <1>4, TreeAssumption, Zenon DEF Files, Regular
<1> QED
  BY <1>5, <1>6, <1>7, <1>8, <1>9, Zenon DEF SInv

(* ReadDir: the top of the stack becomes the directory being read.         *)
LEMMA ReadDirSound == SInv /\ ReadDir => SInv'
<1> SUFFICES ASSUME SInv, ReadDir PROVE SInv'
  BY Zenon
<1> USE DEF SInv
<1> DEFINE d == stack[Len(stack)]
<1>1. /\ stack' \in Seq(Dir) /\ IsInjective(stack)'
      /\ d \in Dir /\ d \in Stacked
      /\ Stacked' = Stacked \ {d}
  BY Popped, Zenon DEF ReadDir, ScanShape, StackSound, Stacked
<1>2. /\ node = NULL /\ node' = d /\ scan = "scanning" /\ step = "add"
      /\ UNCHANGED <<children, ready, total, step>>
  BY Zenon DEF ReadDir, Reading, trackedVars, treeVars
<1> HIDE DEF d
<1>3. /\ Alive(d) /\ ~ready[d] /\ children[d] = {} /\ d \notin skipped
      /\ d \in Node /\ d # NULL
  BY <1>1, Kinship DEF StackSound, Stacked, Untouched
<1>4. \A n \in Node : Alive(n)' <=> Alive(n)
  BY <1>2, Lives, Zenon
<1>5. /\ entries' \in Seq(Node \cup Ignored) /\ IsInjective(entries)' /\ skipped' \subseteq Dir
      /\ \/ Left' = OnDisk(d) /\ skipped' = skipped
         \/ entries' = <<>> /\ Left' = {} /\ skipped' = skipped \cup {d}
         \/ entries' = <<>> /\ Left' = {} /\ skipped' = skipped /\ scan' = "fatal"
  <2>1. CASE entries' \in Sorted(OnDisk(d)) /\ UNCHANGED <<scan, skipped>>
    <3>1. entries' \in Seq(OnDisk(d)) /\ IsInjective(entries') /\ Range(entries') = OnDisk(d)
      BY <2>1, <1>1, Entries, SortedLists, Zenon
    <3>2. entries' \in Seq(Node \cup Ignored)
      BY <3>1, <1>1, Entries, SeqMonotonic, Zenon
    <3> QED
      BY <3>1, <3>2, <2>1, Zenon DEF Left, ScanShape
  <2>2. CASE entries' = <<>> /\ (skipped' = skipped \cup {d} \/ (scan' = "fatal" /\ UNCHANGED skipped))
    BY <2>2, <1>1, EmptyList DEF Left, ScanShape
  <2> QED
    BY <2>1, <2>2, <1>2, Zenon DEF ReadDir
<1>6. ScanShape'
  BY <1>1, <1>2, <1>5, Zenon DEF ScanShape
<1>7. StackSound'
  <2>1. \A e \in Dir : Alive(e)' => (~ready'[e] <=> (e = node' \/ e \in Stacked'))
    BY <1>1, <1>2, <1>3, <1>4, Kinship DEF StackSound, Stacked
  <2>2. \A e \in Stacked' : Alive(e)' /\ e # node'
    <3>1. Stacked \subseteq Node /\ \A e \in Stacked : Alive(e)
      BY Kinship, ElementOfSeq DEF StackSound, Stacked, ScanShape, Range
    <3> QED
      BY <3>1, <1>1, <1>2, <1>4, Zenon
  <2> QED
    BY <1>1, <2>1, <2>2, Zenon DEF StackSound, Stacked
<1>8. Reading'
  <2>1. CASE Left' = OnDisk(d) /\ skipped' = skipped
    BY <2>1, <1>1, <1>2, <1>3, <1>4, <1>5, Entries, Zenon DEF Reading
  <2>2. CASE entries' = <<>> /\ Left' = {} /\ skipped' = skipped \cup {d}
    BY <2>2, <1>1, <1>2, <1>3, <1>4, <1>5, Zenon DEF Reading
  <2>3. CASE entries' = <<>> /\ scan' = "fatal"
    BY <2>3, <1>1, <1>2, <1>3, <1>4, <1>5, Zenon DEF Reading
  <2> QED
    BY <1>5, <2>1, <2>2, <2>3, Zenon
<1>9. Untouched' /\ Skips' /\ ReadyDirs'
  <2>1. skipped' = skipped \/ skipped' = skipped \cup {d}
    BY <1>5, Zenon
  <2>2. Untouched'
    BY <2>1, <1>1, <1>2, <1>3, <1>4, Kinship DEF Untouched
  <2> QED
    BY <2>1, <2>2, <1>2, <1>3, Zenon DEF Skips, ReadyDirs
<1>10. Files'
  BY <1>2, <1>4, Zenon DEF Files
<1> QED
  BY <1>6, <1>7, <1>8, <1>9, <1>10, Zenon

(* The first entry, when there is one, and what is left after it.          *)
LEMMA First ==
  ASSUME SInv, Busy, entries # <<>>
  PROVE  /\ Head(entries) \in Left /\ Head(entries) \in OnDisk(node)
         /\ Tail(entries) \in Seq(Node \cup Ignored) /\ IsInjective(Tail(entries))
         /\ Range(Tail(entries)) = Left \ {Head(entries)}
         /\ node \in Dir /\ node \in Node /\ node \notin skipped
         /\ Head(entries) \in Node => Head(entries) \in Kids(node)
<1>1. /\ Head(entries) \in Left
      /\ Tail(entries) \in Seq(Node \cup Ignored) /\ IsInjective(Tail(entries))
      /\ Range(Tail(entries)) = Left \ {Head(entries)}
  BY HeadTail, Zenon DEF SInv, ScanShape, Reading, Left
<1>2. node \in Dir /\ node \in Node /\ node # NULL
  BY Kinship, Zenon DEF SInv, ScanShape, Busy
<1>3. Left \subseteq OnDisk(node) /\ node \notin skipped
  BY <1>2, Zenon DEF SInv, Reading, Busy
<1> QED
  BY <1>1, <1>2, <1>3, Entries, Zenon

(* AddDir: the directory joins the list and the stack.                     *)
LEMMA AddDirSound == SInv /\ AddDir => SInv'
<1> SUFFICES ASSUME SInv, AddDir PROVE SInv'
  BY Zenon
<1> USE DEF SInv
<1> DEFINE c == Head(entries)
<1>1. /\ Busy /\ entries # <<>> /\ c \in Dir /\ AddChild(c)
      /\ stack' = Append(stack, c) /\ entries' = Tail(entries)
      /\ UNCHANGED <<ready, total, node, step, scan, skipped>>
  BY Zenon DEF AddDir, Emplace
<1>2. /\ c \in Left /\ c \in Kids(node) /\ node \in Dir /\ node \notin skipped
      /\ entries' \in Seq(Node \cup Ignored) /\ IsInjective(entries)'
      /\ Left' = Left \ {c}
  BY <1>1, First, Kinship, Zenon DEF Left
<1>3. step = "add"
  BY <1>1, Zenon DEF Reading, Regular, ScanShape
<1> HIDE DEF c
<1>4. /\ children' \in [Node -> SUBSET Node]
      /\ children'[node] = children[node] \cup {c}
      /\ \A n \in Node : n # node => children'[n] = children[n]
      /\ \A n \in Node : children'[n] \subseteq Kids(n)
      /\ \A n \in Node : Alive(n)' <=> Alive(n) \/ n = c
  BY <1>1, <1>2, Links, Zenon
<1>5. /\ c \in Node /\ c # Root /\ Parent[c] = node /\ node \in Node /\ node # NULL
      /\ scan = "scanning"
  BY <1>1, <1>2, Kinship, Zenon DEF Busy
<1>6. c \notin children[node] /\ ~Alive(c)
  BY <1>1, <1>2, <1>3, <1>5, Zenon DEF Reading, Alive
<1>7. children[c] = {} /\ ~ready[c] /\ c \notin skipped
  BY <1>1, <1>6, Zenon DEF Untouched
<1>8. c # node /\ c \notin Stacked
  BY <1>5, <1>6, Zenon DEF Reading, StackSound, Stacked
<1>9. stack' \in Seq(Dir) /\ IsInjective(stack)' /\ Stacked' = Stacked \cup {c}
  BY <1>1, <1>8, Pushed DEF ScanShape, StackSound, Stacked
<1>10. ScanShape'
  BY <1>1, <1>2, <1>4, <1>9, Zenon DEF ScanShape
<1>11. StackSound'
  <2>1. \A e \in Dir : Alive(e)' => (~ready'[e] <=> (e = node' \/ e \in Stacked'))
    BY <1>1, <1>4, <1>7, <1>9, Kinship, Zenon DEF StackSound, Stacked
  <2>2. Stacked \subseteq Node /\ \A e \in Stacked : Alive(e) /\ e # node
    BY Kinship, ElementOfSeq DEF StackSound, Stacked, ScanShape, Range
  <2>3. \A e \in Stacked' : Alive(e)' /\ e # node'
    BY <2>2, <1>1, <1>4, <1>5, <1>8, <1>9, Zenon
  <2> QED
    BY <1>9, <2>1, <2>3, Zenon DEF StackSound, Stacked
<1>12. Reading'
  <2>1. Alive(node)' /\ ~ready'[node]
    BY <1>1, <1>4, <1>5, Zenon DEF Reading
  <2>2. Left' \subseteq OnDisk(node)
    BY <1>2, <1>5, Zenon DEF Reading
  <2>3. children'[node] \cup (Left' \cap Node) = Kids(node)
    BY <1>2, <1>4, <1>5, Zenon DEF Reading
  <2>4. children'[node] \cap Left' = {}
    BY <1>2, <1>3, <1>4, <1>5, Zenon DEF Reading
  <2> QED
    BY <2>1, <2>2, <2>3, <2>4, <1>1, <1>2, <1>3, <1>5, Zenon DEF Reading
<1>13. Untouched' /\ Skips' /\ ReadyDirs'
  <2>1. Untouched'
    <3> SUFFICES ASSUME NEW d \in Dir, d \in Stacked' \/ ~Alive(d)'
                 PROVE  children'[d] = {} /\ ~ready'[d] /\ d \notin skipped'
      BY Zenon DEF Untouched
    <3>1. d # node
      BY <1>4, <1>5, <1>8, <1>9, Zenon DEF Reading, StackSound, Stacked
    <3>2. d = c \/ d \in Stacked \/ ~Alive(d)
      BY <1>4, <1>9, Kinship, Zenon
    <3> QED
      BY <3>1, <3>2, <1>1, <1>4, <1>7, Kinship, Zenon DEF Untouched
  <2>2. ~ready[node] /\ Dir \subseteq Node /\ skipped \subseteq Dir
    BY <1>5, Kinship, Zenon DEF Reading, ScanShape
  <2>3. Skips'
    BY <2>2, <1>1, <1>2, <1>4, Zenon DEF Skips
  <2>4. ReadyDirs'
    BY <2>2, <1>1, <1>4, Zenon DEF ReadyDirs
  <2> QED
    BY <2>1, <2>3, <2>4, Zenon
<1>14. Files'
  BY <1>1, <1>3, <1>4, <1>5, Kinship DEF Files, Regular
<1> QED
  BY <1>10, <1>11, <1>12, <1>13, <1>14, Zenon

(* AddFile: the file joins the list, and its two other steps follow.       *)
LEMMA AddFileSound == SInv /\ AddFile => SInv'
<1> SUFFICES ASSUME SInv, AddFile PROVE SInv'
  BY Zenon
<1> USE DEF SInv
<1> DEFINE c == Head(entries)
<1>1. /\ Busy /\ entries # <<>> /\ c \in Regular /\ AddChild(c)
      /\ step = "add" /\ step' = "shift"
      /\ UNCHANGED <<ready, total, stack, node, entries, scan, skipped>>
  BY Zenon DEF AddFile, Emplace
<1>2. c \in Left /\ c \in Kids(node) /\ node \in Dir /\ node \notin skipped
  BY <1>1, First, Zenon DEF Regular
<1>3. Left' = Left /\ Stacked' = Stacked /\ Head(entries)' = c
  BY <1>1, Zenon DEF Left, Stacked
<1>4. Head(entries) = c
  BY Zenon
<1> HIDE DEF c
<1>5. /\ children' \in [Node -> SUBSET Node]
      /\ children'[node] = children[node] \cup {c}
      /\ \A n \in Node : n # node => children'[n] = children[n]
      /\ \A n \in Node : children'[n] \subseteq Kids(n)
      /\ \A n \in Node : Alive(n)' <=> Alive(n) \/ n = c
  BY <1>1, <1>2, Links, Zenon
<1>6. /\ c \in Node /\ c \notin Dir /\ c # Root /\ Parent[c] = node
      /\ node \in Node /\ node # NULL /\ scan = "scanning"
  BY <1>1, <1>2, Kinship, Zenon DEF Busy, Regular
<1>7. c \notin children[node] /\ ~Alive(c)
  BY <1>1, <1>2, <1>6, Zenon DEF Reading, Alive
<1>8. ~ready[c]
  BY <1>1, <1>6, <1>7, Zenon DEF Files
<1>9. ScanShape'
  BY <1>1, <1>5, Zenon DEF ScanShape
<1>10. StackSound'
  <2>1. IsInjective(stack)'
    BY <1>1, Zenon DEF StackSound
  <2>2. \A e \in Dir : Alive(e)' => (~ready'[e] <=> (e = node' \/ e \in Stacked'))
    BY <1>1, <1>3, <1>5, <1>6, Kinship DEF StackSound, Stacked
  <2>3. Stacked \subseteq Node /\ \A e \in Stacked : Alive(e) /\ e # node
    BY Kinship, ElementOfSeq DEF StackSound, Stacked, ScanShape, Range
  <2>4. \A e \in Stacked' : Alive(e)' /\ e # node'
    BY <2>3, <1>1, <1>3, <1>5, Zenon
  <2> QED
    BY <2>1, <2>2, <2>4, Zenon DEF StackSound, Stacked
<1>11. Reading'
  <2>1. Alive(node)' /\ ~ready'[node]
    BY <1>1, <1>5, <1>6, Zenon DEF Reading
  <2>2. children'[node] \cup (Left \cap Node) = Kids(node)
    BY <1>2, <1>5, <1>6, Zenon DEF Reading
  <2>3. children'[node] \cap Left = {c}
    BY <1>1, <1>2, <1>5, <1>6, Zenon DEF Reading
  <2> QED
    BY <2>1, <2>2, <2>3, <1>1, <1>2, <1>3, <1>6, Zenon DEF Reading
<1>12. Untouched' /\ Skips' /\ ReadyDirs'
  <2>1. Alive(node) /\ node \notin Stacked
    BY <1>6, Zenon DEF Reading, StackSound, Stacked
  <2>2. Untouched'
    BY <2>1, <1>1, <1>3, <1>5, <1>6, Kinship DEF Untouched
  <2>3. Skips' /\ ReadyDirs'
    BY <1>1, <1>2, <1>5, <1>6, Kinship DEF Skips, ReadyDirs, Reading, ScanShape
  <2> QED
    BY <2>2, <2>3, Zenon
<1>13. Files'
  BY <1>1, <1>3, <1>4, <1>5, <1>6, <1>8 DEF Files
<1> QED
  BY <1>9, <1>10, <1>11, <1>12, <1>13, Zenon

(* CountFile: the total of the file, which is linked and not yet ready.    *)
LEMMA CountFileSound == SInv /\ CountFile => SInv'
<1> SUFFICES ASSUME SInv, CountFile PROVE SInv'
  BY Zenon
<1> USE DEF SInv
<1> DEFINE c == Head(entries)
<1>1. /\ Busy /\ step = "shift" /\ step' = "unlock"
      /\ total' = [total EXCEPT ![c] = @ + Size[c]]
      /\ UNCHANGED <<children, ready, stack, node, entries, scan, skipped>>
  BY Zenon DEF CountFile, ShiftTotal
<1>2. c \in Regular /\ entries # <<>>
  BY <1>1, Zenon DEF Reading
<1>3. Head(entries)' = c /\ Head(entries) = c /\ Left' = Left /\ Stacked' = Stacked
  BY <1>1, Zenon DEF Left, Stacked
<1> HIDE DEF c
<1>4. c \in Node /\ c \notin Dir /\ Size[c] \in Nat
  BY <1>2, TreeAssumption, Zenon DEF Regular
<1>5. ~ready[c] /\ total[c] = 0
  BY <1>1, <1>2, <1>3, <1>4, Zenon DEF Files
<1>6. total'[c] = Size[c] /\ \A n \in Node : n # c => total'[n] = total[n]
  BY <1>1, <1>4, <1>5 DEF ScanShape
<1>7. \A n \in Node : Alive(n)' <=> Alive(n)
  BY <1>1, Lives, Zenon
<1>8. ScanShape'
  BY <1>1, <1>4, <1>5, <1>6, Zenon DEF ScanShape
<1>9. StackSound' /\ Untouched' /\ Skips' /\ ReadyDirs'
  BY <1>1, Zenon DEF StackSound, Untouched, Skips, ReadyDirs, Stacked, Alive
<1>10. Reading'
  BY <1>1, <1>2, <1>3, Zenon DEF Reading, Alive
<1>11. Files'
  BY <1>1, <1>3, <1>4, <1>5, <1>6, <1>7, Zenon DEF Files
<1> QED
  BY <1>8, <1>9, <1>10, <1>11, Zenon

(* UnlockFile: the file is ready, and the next entry follows.              *)
LEMMA UnlockFileSound == SInv /\ UnlockFile => SInv'
<1> SUFFICES ASSUME SInv, UnlockFile PROVE SInv'
  BY Zenon
<1> USE DEF SInv
<1> DEFINE c == Head(entries)
<1>1. /\ Busy /\ step = "unlock" /\ step' = "add" /\ entries' = Tail(entries)
      /\ ready' = [ready EXCEPT ![c] = TRUE]
      /\ UNCHANGED <<children, total, stack, node, scan, skipped>>
  BY Zenon DEF UnlockFile, Unlock
<1>2. c \in Regular /\ entries # <<>>
  BY <1>1, Zenon DEF Reading
<1>3. /\ c \in Left /\ c \in Kids(node) /\ node \in Dir /\ node \notin skipped
      /\ entries' \in Seq(Node \cup Ignored) /\ IsInjective(entries)'
      /\ Left' = Left \ {c} /\ Stacked' = Stacked /\ Head(entries) = c
  BY <1>1, <1>2, First, Zenon DEF Left, Stacked, Regular
<1> HIDE DEF c
<1>4. /\ c \in Node /\ c \notin Dir /\ c # Root /\ Parent[c] = node
      /\ node \in Node /\ node # NULL /\ scan = "scanning"
  BY <1>1, <1>2, <1>3, Kinship, Zenon DEF Busy, Regular
<1>5. /\ children[node] \cap Left = {c} /\ Left \subseteq OnDisk(node)
      /\ children[node] \cup (Left \cap Node) = Kids(node)
      /\ Alive(node) /\ ~ready[node]
  BY <1>1, <1>3, <1>4, Zenon DEF Reading
<1>6. Alive(c)
  BY <1>4, <1>5, Zenon DEF Alive
<1>7. /\ ready' \in [Node -> BOOLEAN] /\ ready'[c]
      /\ \A n \in Node : n # c => ready'[n] = ready[n]
  BY <1>1, <1>4, Zenon DEF ScanShape
<1>8. \A n \in Node : Alive(n)' <=> Alive(n)
  BY <1>1, Lives, Zenon
<1>9. ScanShape'
  BY <1>1, <1>3, <1>7, Zenon DEF ScanShape
<1>10. \A d \in Dir : d \in Node /\ ready'[d] = ready[d]
  BY <1>4, <1>7, Kinship, Zenon
<1>11. StackSound' /\ Untouched' /\ Skips' /\ ReadyDirs'
  BY <1>1, <1>10, Zenon DEF StackSound, Untouched, Skips, ReadyDirs, Stacked, Alive
<1>12. Reading'
  <2>1. children'[node] \cap Left' = {} /\ Left' \subseteq OnDisk(node)
    BY <1>1, <1>3, <1>5, Zenon
  <2>2. children'[node] \cup (Left' \cap Node) = Kids(node)
    BY <1>1, <1>3, <1>5, Zenon
  <2>3. Alive(node)' /\ ~ready'[node]
    BY <1>1, <1>3, <1>5, <1>10, Zenon DEF Alive
  <2> QED
    BY <2>1, <2>2, <2>3, <1>1, <1>3, <1>4, Zenon DEF Reading
<1>13. Files'
  BY <1>1, <1>3, <1>4, <1>6, <1>7, <1>8 DEF Files
<1> QED
  BY <1>9, <1>11, <1>12, <1>13, Zenon

(* IgnoreEntry: what is neither a directory nor a file is passed over.     *)
LEMMA IgnoreEntrySound == SInv /\ IgnoreEntry => SInv'
<1> SUFFICES ASSUME SInv, IgnoreEntry PROVE SInv'
  BY Zenon
<1> USE DEF SInv
<1>1. /\ Busy /\ entries # <<>> /\ Head(entries) \in Ignored /\ entries' = Tail(entries)
      /\ UNCHANGED <<children, ready, total, stack, node, step, scan, skipped>>
  BY Zenon DEF IgnoreEntry, trackedVars, treeVars
<1>2. Head(entries) \notin Node /\ step = "add"
  BY <1>1, IgnoredAssumption, Zenon DEF Reading, Regular, ScanShape
<1>3. /\ entries' \in Seq(Node \cup Ignored) /\ IsInjective(entries)'
      /\ Left' = Left \ {Head(entries)} /\ node \in Node /\ node \notin skipped
  BY <1>1, First, Zenon DEF Left
<1>4. ScanShape' /\ StackSound' /\ Untouched' /\ Skips' /\ ReadyDirs'
  BY <1>1, <1>3, Zenon DEF ScanShape, StackSound, Untouched, Skips, ReadyDirs, Stacked, Alive
<1>5. Reading'
  <2>1. scan = "scanning" /\ node # NULL
    BY <1>1, Zenon DEF Busy
  <2>2. /\ Left \subseteq OnDisk(node) /\ children[node] \cap Left = {}
        /\ children[node] \cup (Left \cap Node) = Kids(node)
    BY <2>1, <1>2, <1>3, Zenon DEF Reading
  <2>3. /\ Left' \subseteq OnDisk(node) /\ children[node] \cap Left' = {}
        /\ children[node] \cup (Left' \cap Node) = Kids(node)
    BY <2>2, <1>2, <1>3, Zenon
  <2> QED
    BY <2>1, <2>3, <1>1, <1>2, <1>3, Zenon DEF Reading, Alive
<1>6. Files'
  BY <1>1, <1>2, Zenon DEF Files, Alive
<1> QED
  BY <1>4, <1>5, <1>6, Zenon

(* UnlockDir: the list of the directory is what is on disk.                *)
LEMMA UnlockDirSound == SInv /\ UnlockDir => SInv'
<1> SUFFICES ASSUME SInv, UnlockDir PROVE SInv'
  BY Zenon
<1> USE DEF SInv
<1>1. /\ Busy /\ entries = <<>> /\ node' = NULL
      /\ ready' = [ready EXCEPT ![node] = TRUE]
      /\ UNCHANGED <<children, total, stack, entries, step, scan, skipped>>
  BY Zenon DEF UnlockDir, Unlock
<1>2. node # NULL /\ node \in Dir /\ node \in Node /\ scan = "scanning"
  BY <1>1, Kinship, Zenon DEF Busy, ScanShape
<1>3. Left = {} /\ step = "add"
  BY <1>1, EmptyList, Zenon DEF Left, Reading, ScanShape
<1>4. /\ ready' \in [Node -> BOOLEAN] /\ ready'[node]
      /\ \A n \in Node : n # node => ready'[n] = ready[n]
  BY <1>1, <1>2, Zenon DEF ScanShape
<1>5. \A n \in Node : Alive(n)' <=> Alive(n)
  BY <1>1, Lives, Zenon
<1>6. Alive(node) /\ node \notin Stacked
  BY <1>2, Zenon DEF Reading, StackSound, Stacked
<1>7. node \notin skipped => children[node] = Kids(node)
  BY <1>2, <1>3, Zenon DEF Reading
<1>8. ScanShape'
  BY <1>1, <1>4, Zenon DEF ScanShape
<1>9. StackSound'
  <2>1. Stacked' = Stacked /\ IsInjective(stack)'
    BY <1>1, Zenon DEF Stacked, StackSound
  <2>2. \A e \in Dir : Alive(e)' => (~ready'[e] <=> (e = node' \/ e \in Stacked'))
    BY <2>1, <1>1, <1>2, <1>4, <1>5, <1>6, Kinship DEF StackSound, Stacked
  <2>3. Stacked \subseteq Node /\ \A e \in Stacked : Alive(e)
    BY Kinship, ElementOfSeq DEF StackSound, Stacked, ScanShape, Range
  <2>4. \A e \in Stacked' : Alive(e)' /\ e # node'
    BY <2>1, <2>3, <1>1, <1>5, Kinship
  <2> QED
    BY <2>1, <2>2, <2>4, Zenon DEF StackSound, Stacked
<1>10. Reading'
  BY <1>1, <1>3, Zenon DEF Reading
<1>11. Untouched'
  <2> SUFFICES ASSUME NEW d \in Dir, d \in Stacked' \/ ~Alive(d)'
               PROVE  children'[d] = {} /\ ~ready'[d] /\ d \notin skipped'
    BY Zenon DEF Untouched
  <2>1. d \in Node /\ (d \in Stacked \/ ~Alive(d)) /\ d # node
    BY <1>1, <1>5, <1>6, Kinship DEF Stacked
  <2> QED
    BY <2>1, <1>1, <1>4, Zenon DEF Untouched
<1>12. Skips' /\ ReadyDirs'
  BY <1>1, <1>4, <1>7, Kinship, Zenon DEF Skips, ReadyDirs
<1>13. Files'
  BY <1>1, <1>2, <1>3, <1>4, <1>5, Zenon DEF Files, Regular
<1> QED
  BY <1>8, <1>9, <1>10, <1>11, <1>12, <1>13

(* Join and the stuttering after the end leave the tree alone.             *)
LEMMA JoinSound == SInv /\ (Join \/ ScanOver \/ UNCHANGED allVars) => SInv'
<1> SUFFICES ASSUME SInv, Join \/ ScanOver \/ UNCHANGED allVars PROVE SInv'
  BY Zenon
<1> USE DEF SInv
<1>1. UNCHANGED <<children, ready, total, stack, node, entries, step, skipped>>
  BY Zenon DEF Join, ScanOver, allVars, scanVars, trackedVars, treeVars
<1>2. ScanShape' /\ StackSound' /\ Untouched' /\ Skips' /\ ReadyDirs' /\ Files'
  BY <1>1, Zenon DEF ScanShape, StackSound, Untouched, Skips, ReadyDirs, Files, Stacked, Alive
<1>3. node = NULL \/ scan' = scan
  BY Zenon DEF Join, ScanOver, allVars, scanVars
<1>4. Left' = Left
  BY <1>1, Zenon DEF Left
<1>5. Reading'
  BY <1>1, <1>3, <1>4, Zenon DEF Reading, Alive
<1> QED
  BY <1>2, <1>5, Zenon

(* The strengthening is inductive.                                         *)
LEMMA ScanInductive == ScanSpec => []SInv
<1>1. SInv /\ [ScanStep \/ ScanOver]_allVars => SInv'
  BY ReadDirSound, AddDirSound, AddFileSound, CountFileSound, UnlockFileSound,
     IgnoreEntrySound, UnlockDirSound, JoinSound, Zenon DEF ScanStep
<1> QED
  BY <1>1, ScanStarts, PTL DEF ScanSpec

(* A node that is ready has been read, or could not be.                    *)
LEMMA FinalWhenReady == SInv => ReadyIsFinal
<1> SUFFICES ASSUME SInv, NEW n \in Node, ready[n]
             PROVE  /\ children[n] = IF n \in skipped THEN {} ELSE Kids(n)
                    /\ total[n] = Size[n]
  BY Zenon DEF ReadyIsFinal
<1>1. total[n] = Size[n]
  BY Zenon DEF SInv, Files
<1>2. CASE n \in Dir
  BY <1>1, <1>2, Zenon DEF SInv, Skips, ReadyDirs
<1>3. CASE n \notin Dir
  <2>1. n \notin skipped /\ Kids(n) = {}
    BY <1>3, Kinship, Zenon DEF SInv, ScanShape, Regular
  <2>2. children[n] = {}
    BY <2>1, Zenon DEF SInv, ScanShape
  <2> QED
    BY <1>1, <2>1, <2>2, Zenon
<1> QED
  BY <1>2, <1>3, Zenon

(* For every tree, every order of the entries and every directory that     *)
(* cannot be opened: a node that iter_children may enter is finished.      *)
THEOREM ListsAreFinal == ScanSpec => []ReadyIsFinal
BY ScanInductive, FinalWhenReady, PTL

(* The directories still to be read are on the stack once each.            *)
THEOREM StackIsSound == ScanSpec => []StackSound
<1>1. SInv => StackSound
  BY Zenon DEF SInv
<1> QED
  BY <1>1, ScanInductive, PTL

-----------------------------------------------------------------------------
(* What the scan leaves alone, the sum it keeps and the way it ends.       *)
Idle ==
  /\ mutex = [n \in Node |-> NULL]
  /\ done = [n \in Node |-> 0]
  /\ sum_done = 0
  /\ painter = NULL
  /\ at = NULL
  /\ todo = [n \in Node |-> {}]
  /\ lines = 0

Totalled ==
  /\ sum_total = Cardinality(Chunks(total))
  /\ order \in [Node -> Seq(Node)]
  /\ scan \in {"scanning", "fatal", "joined"}
  /\ scan = "joined" => node = NULL /\ stack = <<>>

RInv == Idle /\ Totalled

(* The chunks of a tree, as the shared lemmas count them.                  *)
LEMMA ChunksAreUnits == \A f : Chunks(f) = Units(Node, f)
BY Zenon DEF Chunks, Units

(* Nothing is linked, counted or drawn at first.                           *)
LEMMA RestStarts == ScanInit => RInv
<1> SUFFICES ASSUME ScanInit PROVE RInv
  BY Zenon
<1>1. total \in [Node -> Nat] /\ \A n \in Node : total[n] = 0
  BY Zenon DEF ScanInit
<1>2. Cardinality(Chunks(total)) = 0
  BY <1>1, ChunksAreUnits, NoUnits, TreeAssumption, Zenon
<1> QED
  BY <1>2 DEF ScanInit, RInv, Idle, Totalled

(* Every step: only CountFile changes totals, and it changes both.         *)
LEMMA RestStays == SInv /\ RInv /\ [ScanStep \/ ScanOver]_allVars => RInv'
<1> SUFFICES ASSUME SInv, RInv, [ScanStep \/ ScanOver]_allVars PROVE RInv'
  BY Zenon
<1> USE DEF RInv
<1>1. Idle'
  BY Zenon DEF Idle, ScanStep, ScanOver, ReadDir, AddDir, AddFile, CountFile, UnlockFile,
         IgnoreEntry, UnlockDir, Join, allVars, trackedVars, treeVars, countVars, drawVars
<1>2. CASE CountFile
  <2> DEFINE c == Head(entries)
  <2>1. /\ step = "shift" /\ total' = [total EXCEPT ![c] = @ + Size[c]]
        /\ sum_total' = sum_total + Size[c] /\ UNCHANGED <<order, scan, node, stack>>
    BY <1>2, Zenon DEF CountFile, ShiftTotal
  <2>2. c \in Node
    BY <2>1, Zenon DEF SInv, Reading, Regular
  <2>3. Size[c] \in Nat /\ total \in [Node -> Nat]
    BY <2>2, TreeAssumption, Zenon DEF SInv, ScanShape
  <2> HIDE DEF c
  <2>4. Cardinality(Chunks(total')) = Cardinality(Chunks(total)) + Size[c]
    <3>1. total' \in [Node -> Nat] /\ total'[c] = total[c] + Size[c]
          /\ \A m \in Node : m # c => total'[m] = total[m]
      BY <2>1, <2>2, <2>3
    <3> QED
      BY <2>2, <2>3, <3>1, ChunksAreUnits, UnitsAdd, TreeAssumption
  <2> QED
    BY <1>1, <2>1, <2>4, Zenon DEF Totalled
<1>3. ASSUME UNCHANGED <<total, sum_total>>, order' \in [Node -> Seq(Node)],
             \/ UNCHANGED <<scan, node, stack>>
             \/ scan = "scanning" /\ scan' \in {"scanning", "fatal"}
             \/ scan' = "joined" /\ node' = NULL /\ stack' = <<>>
      PROVE  RInv'
  BY <1>1, <1>3, Zenon DEF Totalled
<1>4. ASSUME NEW c \in Node \ {Root}, order' = [order EXCEPT ![Parent[c]] = Append(@, c)]
      PROVE  order' \in [Node -> Seq(Node)]
  <2>1. order \in [Node -> Seq(Node)] /\ Parent[c] \in Node
    BY TreeAssumption, Zenon DEF Totalled
  <2>2. Append(order[Parent[c]], c) \in Seq(Node)
    BY <2>1
  <2> QED
    BY <1>4, <2>1, <2>2, Zenon
<1>5. CASE AddDir \/ AddFile
  <2>1. /\ Busy /\ entries # <<>> /\ Head(entries) \in Node
        /\ order' = [order EXCEPT ![Parent[Head(entries)]] = Append(@, Head(entries))]
        /\ UNCHANGED <<total, sum_total, scan, node>>
    BY <1>5, Kinship, Zenon DEF AddDir, AddFile, Emplace, Regular
  <2>2. Head(entries) \in Node \ {Root}
    BY <2>1, First, Zenon DEF Kids
  <2> QED
    BY <1>3, <1>4, <2>1, <2>2, Zenon DEF Busy
<1>6. CASE UnlockDir
  BY <1>3, <1>6, Zenon DEF UnlockDir, Busy, Totalled
<1>7. CASE ReadDir
  <2>1. UNCHANGED <<total, sum_total, order>> /\ scan = "scanning" /\ scan' \in {"scanning", "fatal"}
    BY <1>7, Zenon DEF ReadDir, trackedVars, treeVars
  <2> QED
    BY <1>3, <2>1, Zenon DEF Totalled
<1>8. CASE UnlockFile \/ IgnoreEntry \/ Join \/ UNCHANGED allVars
  <2>1. /\ UNCHANGED <<total, sum_total, order, node, stack>>
        /\ scan' = scan \/ (scan' = "joined" /\ node = NULL /\ stack = <<>>)
    BY <1>8, Zenon DEF UnlockFile, IgnoreEntry, Join, allVars, scanVars, trackedVars, treeVars
  <2> QED
    BY <1>3, <2>1, Zenon DEF Totalled
<1> QED
  BY <1>2, <1>5, <1>6, <1>7, <1>8, Zenon DEF ScanStep, ScanOver

(* So that both hold together.                                             *)
LEMMA ScanRest == ScanSpec => [](SInv /\ RInv)
BY ScanInductive, RestStarts, RestStays, PTL DEF ScanSpec

(* The types of the scan.                                                  *)
THEOREM ScanTypes == ScanSpec => []ScanTypeOK
<1>1. SInv /\ RInv => ScanTypeOK
  <2> SUFFICES ASSUME SInv, RInv PROVE ScanTypeOK
    BY Zenon
  <2>1. TrackedTypeOK
    BY Zenon DEF SInv, ScanShape, RInv, Idle, TrackedTypeOK
  <2>2. sum_total \in Nat
    BY ChunksAreUnits, UnitsFinite, TreeAssumption, Zenon DEF SInv, ScanShape, RInv, Totalled
  <2> QED
    BY <2>1, <2>2, Zenon DEF SInv, ScanShape, RInv, Totalled, ScanTypeOK
<1> QED
  BY <1>1, ScanRest, PTL

(* At the end every node is linked: of those that are not, one has the     *)
(* least depth, and the directory it is in would list it.                  *)
LEMMA AllFound ==
  ASSUME SInv, node = NULL, stack = <<>>, skipped = {}
  PROVE  \A n \in Node : Alive(n) /\ ready[n]
<1>1. step = "add"
  BY Zenon DEF SInv, ScanShape, Reading
<1>2. \A n \in Node : Alive(n) => ready[n]
  <2> TAKE n \in Node
  <2>1. CASE n \in Dir
    BY <2>1, Kinship, EmptyList, Zenon DEF SInv, StackSound
  <2>2. CASE n \notin Dir
    BY <1>1, <2>2, Zenon DEF SInv, Files, Regular
  <2> QED
    BY <2>1, <2>2, Zenon
<1> DEFINE Lost == {n \in Node : ~Alive(n)}
           Depths == {Depth[n] : n \in Lost}
<1>3. ASSUME Lost # {} PROVE FALSE
  <2>1. Depths \subseteq Nat /\ Depths # {}
    BY <1>3, TreeAssumption, Zenon
  <2>2. PICK x \in Depths : \A y \in Depths : x <= y
    BY <2>1, Least, Zenon
  <2>3. PICK n \in Lost : x = Depth[n]
    BY Zenon
  <2>4. n \in Node \ {Root} /\ Parent[n] \in Dir /\ Parent[n] \in Node
    BY Kinship, Zenon DEF Alive
  <2>5. Depth[Parent[n]] < Depth[n] /\ Depth[Parent[n]] \in Nat /\ Depth[n] \in Nat
    BY <2>4, TreeAssumption
  <2>6. Parent[n] \notin Lost
    <3>1. ASSUME Parent[n] \in Lost PROVE FALSE
      <4>1. Depth[Parent[n]] \in Depths
        BY <3>1, Zenon
      <4>2. Depth[n] <= Depth[Parent[n]]
        BY <2>2, <2>3, <4>1, Zenon
      <4> QED
        BY <2>5, <4>2
    <3> QED
      BY <3>1, Zenon
  <2>7. children[Parent[n]] = Kids(Parent[n])
    BY <1>2, <2>4, <2>6, Zenon DEF SInv, ReadyDirs
  <2> QED
    BY <2>4, <2>7, Zenon DEF Kids, Alive
<1> QED
  BY <1>2, <1>3, Zenon

(* When the thread has been joined and every directory could be opened,    *)
(* the tree is complete and counted: what sync_with_remote starts from.    *)
THEOREM TreeIsHandedOver == ScanSpec => []HandsOver
<1>1. SInv /\ RInv => HandsOver
  <2> SUFFICES ASSUME SInv, RInv, scan = "joined", skipped = {} PROVE Scanned
    BY Zenon DEF HandsOver
  <2>1. \A n \in Node : Alive(n) /\ ready[n]
    BY AllFound, Zenon DEF RInv, Totalled
  <2>2. \A n \in Node : children[n] = Kids(n) /\ total[n] = Size[n]
    BY <2>1, FinalWhenReady, Zenon DEF ReadyIsFinal
  <2>3. children = [n \in Node |-> Kids(n)] /\ total = Size
    BY <2>2, TreeAssumption DEF SInv, ScanShape
  <2>4. ready = [n \in Node |-> TRUE]
    BY <2>1, Zenon DEF SInv, ScanShape
  <2> QED
    BY <2>3, <2>4, Zenon DEF RInv, Idle, Totalled, Scanned, SumTotal
<1> QED
  BY <1>1, ScanRest, PTL
=============================================================================
