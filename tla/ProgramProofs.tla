--------------------------- MODULE ProgramProofs ----------------------------
(***************************************************************************)
(* ExitTells, for every set of command lines.  The strengthening says      *)
(* that ssh has not been started before spawn, so that a Ctrl-C before it  *)
(* harms nothing; that an ssh once reached by Ctrl-C stays ended by it;    *)
(* and what is known on the way from wait to the return.                   *)
(*                                                                         *)
(* And ParsingAgrees, for every line: parsing it left to right leaves the  *)
(* fields that a reading of the line as a whole gives them.                *)
(***************************************************************************)
EXTENDS Program, Lemmas, SequenceTheorems

BeforeSpawn == {"parse", "path", "watch", "arm", "scan", "spawn"}

Shape ==
  /\ pc = [p \in Proc |-> pc[p]] /\ exit = [p \in Proc |-> exit[p]]
  /\ broken \in BOOLEAN
  /\ exit["local"] # "" => pc["local"] = "ended"

Honest ==
  /\ pc["local"] \in BeforeSpawn => ssh = "none" /\ broken = FALSE
  /\ broken = TRUE => ssh = "INT"
  /\ pc["local"] \in {"disarm", "return"} \/ exit["local"] = "0" =>
       ok = TRUE /\ waited = TRUE /\ ssh \in {"0", "TERM"}

PInv == Shape /\ Honest

(* Nothing has been started.                                               *)
LEMMA InitHonest == Init => PInv
<1> SUFFICES ASSUME Init PROVE PInv
  BY Zenon
<1>1. /\ pc = [p \in Proc |-> pc[p]]
      /\ pc["local"] = "parse"
  BY Zenon DEF Init, Proc
<1>2. /\ exit = [p \in Proc |-> exit[p]]
      /\ exit["local"] = ""
  BY Zenon DEF Init, Proc
<1> QED
  BY <1>1, <1>2, Zenon DEF Init, PInv, Shape, Honest, BeforeSpawn

(* parse, main and the daemon, of either process, leave ssh alone.         *)
LEMMA MainHonest ==
  ASSUME PInv, NEW p \in Proc, Main(p) \/ Serve(p) \/ ServeEnds(p)
  PROVE  PInv'
<1> USE DEF PInv, Shape, Honest, BeforeSpawn, Proc, Goto, Ends, Fatal, shared
<1>1. CASE ParseArg(p)
  <2>1. UNCHANGED <<pc, exit>> \/ Ends(p, "ABRT") \/ Ends(p, "1")
    BY <1>1, Zenon DEF ParseArg, Reads
  <2>2. pc[p] = "parse" /\ UNCHANGED shared
    BY <1>1, Zenon DEF ParseArg
  <2> QED
    BY <2>1, <2>2, Zenon
<1>2. CASE ParseEnd(p)
  BY <1>2, Zenon DEF ParseEnd
<1>3. CASE CheckPath(p)
  BY <1>3, Zenon DEF CheckPath
<1>4. CASE ReadFails(p)
  BY <1>4, Zenon DEF ReadFails
<1>5. CASE Serve(p)
  BY <1>5, Zenon DEF Serve
<1>6. CASE ServeEnds(p)
  BY <1>6, Zenon DEF ServeEnds
<1> QED
  BY <1>1, <1>2, <1>3, <1>4, <1>5, <1>6, Zenon DEF Main

(* enu_main: only a graceful end of ssh, with ok, leads to the return.     *)
LEMMA EnuMainHonest ==
  ASSUME PInv, EnuMain
  PROVE  PInv'
<1> USE DEF PInv, Shape, Honest, BeforeSpawn, Proc, At, Goto, Ends, Fatal, shared, kept
<1>1. CASE Watch
  BY <1>1, Zenon DEF Watch
<1>2. CASE Arm \/ Scan
  BY <1>2, Zenon DEF Arm, Scan
<1>3. CASE Spawn
  BY <1>3, Zenon DEF Spawn
<1>4. CASE Send
  BY <1>4, Zenon DEF Send
<1>5. CASE Drain \/ Kill
  BY <1>5, Zenon DEF Drain, Kill
<1>6. CASE Wait
  BY <1>6, Zenon DEF Wait, Synced, Graceful
<1>7. CASE Failed \/ Disarm \/ Return
  BY <1>7, Zenon DEF Failed, Disarm, Return
<1> QED
  BY <1>1, <1>2, <1>3, <1>4, <1>5, <1>6, <1>7, Zenon DEF EnuMain

(* ssh starts the daemon, ends, or is reached by Ctrl-C.                   *)
LEMMA OthersHonest ==
  ASSUME PInv, Connect \/ SshMust \/ SshMay \/ Interrupt
  PROVE  PInv'
<1> USE DEF PInv, Shape, Honest, BeforeSpawn, Proc, Goto, Ends, shared
<1>1. CASE Connect
  BY <1>1, Zenon DEF Connect
<1>2. ASSUME NEW how, SshEnds(how) PROVE PInv'
  BY <1>2, Zenon DEF SshEnds
<1>3. CASE Interrupt
  BY <1>3, Zenon DEF Interrupt
<1> QED
  BY <1>1, <1>2, <1>3, Zenon DEF SshMust, SshMay

(* Whatever the command line, the scheduling, ssh and the user do, an exit *)
(* status of 0 means that enu_main saw every task succeed and ssh end well *)
(* and that no Ctrl-C had reached ssh.                                     *)
THEOREM ZeroIsHonest == Spec => []ExitTells
<1>1. Init => PInv
  BY InitHonest, Zenon
<1>2. PInv /\ [Next]_vars => PInv'
  <2> SUFFICES ASSUME PInv, [Next]_vars PROVE PInv'
    BY Zenon
  <2>1. CASE UNCHANGED vars
    BY <2>1, Zenon DEF PInv, Shape, Honest, vars
  <2>2. CASE Over
    BY <2>2, Zenon DEF PInv, Shape, Honest, vars, Over
  <2>3. CASE Next /\ ~Over
    BY <2>3, MainHonest, EnuMainHonest, OthersHonest, Zenon DEF Next
  <2> QED
    BY <2>1, <2>2, <2>3, Zenon
<1>3. PInv => ExitTells
  BY Zenon DEF PInv, Shape, Honest, ExitTells
<1> QED
  BY <1>1, <1>2, <1>3, PTL DEF Spec

-----------------------------------------------------------------------------
(* The reference for Args::parse, from left to right.                      *)

(* Odd and even.                                                           *)
LEMMA Parity == \A k \in Nat : k % 2 \in {0, 1} /\ ((k + 1) % 2 = 1 <=> k % 2 # 1)
BY Z3

(* An argument is a value exactly when the one before it is a flag that    *)
(* takes a value and no value itself.                                      *)
LEMMA Alternates ==
  ASSUME NEW i \in Nat \ {0}
  PROVE  IsValue(i + 1) <=> line[i] \in ValueFlag /\ ~IsValue(i)
<1> DEFINE F(j) == line[j] \in ValueFlag
           Run(n, k) == /\ \A j \in n - k..n - 1 : F(j)
                        /\ n - k > 1 => ~F(n - k - 1)
<1>0. \A n \in Nat : IsValue(n) <=> \E k \in 1..n - 1 : k % 2 = 1 /\ Run(n, k)
  BY Zenon DEF IsValue
<1> HIDE DEF F
<1>1. ASSUME NEW k \in 1..i, k % 2 = 1, Run(i + 1, k) PROVE F(i) /\ ~IsValue(i)
  <2>1. /\ \A j \in i + 1 - k..i : F(j)
        /\ i + 1 - k > 1 => ~F(i - k)
    BY <1>1
  <2>2. F(i)
    BY <2>1
  <2>3. ASSUME NEW m \in 1..i - 1, m % 2 = 1, Run(i, m) PROVE FALSE
    <3>1. /\ \A j \in i - m..i - 1 : F(j)
          /\ i - m > 1 => ~F(i - m - 1)
      BY <2>3, Zenon
    <3>2. ~(k <= m)
      BY <2>1, <3>1
    <3>3. ~(m < k - 1)
      BY <2>1, <3>1
    <3>4. k = m + 1
      BY <3>2, <3>3
    <3> QED
      BY <1>1, <2>3, <3>4, Parity
  <2> QED
    BY <1>0, <2>2, <2>3, Zenon
<1>2. ASSUME F(i), ~IsValue(i) PROVE \E k \in 1..i : k % 2 = 1 /\ Run(i + 1, k)
  <2> DEFINE Stop == {k \in Nat : k < i /\ (i - k > 1 => ~F(i - k - 1))}
  <2>1. i - 1 \in Stop
    OBVIOUS
  <2>2. PICK k \in Stop : \A m \in Stop : k <= m
    BY <2>1, Least, Zenon
  <2>3. \A j \in i - k..i - 1 : F(j)
    <3> SUFFICES ASSUME NEW j \in i - k..i - 1, ~F(j) PROVE FALSE
      BY Zenon
    <3>1. i - j - 1 \in Nat /\ i - j - 1 < i /\ j = i - (i - j - 1) - 1 /\ i - j - 1 < k
      OBVIOUS
    <3>2. i - j - 1 \in Stop
      BY <3>1, Zenon
    <3>3. k <= i - j - 1
      BY <2>2, <3>2, Zenon
    <3> QED
      BY <3>1, <3>3
  <2>4. k \in Nat /\ k < i /\ (i - k > 1 => ~F(i - k - 1))
    BY Zenon
  <2>5. k % 2 # 1
    <3>1. ASSUME k % 2 = 1 PROVE FALSE
      <4>1. k # 0
        BY <3>1
      <4>2. k \in 1..i - 1 /\ Run(i, k)
        BY <2>3, <2>4, <4>1
      <4> QED
        BY <1>0, <1>2, <3>1, <4>2, Zenon
    <3> QED
      BY <3>1, Zenon
  <2>6. (k + 1) % 2 = 1 /\ k + 1 \in 1..i
    BY <2>4, <2>5, Parity
  <2>7. Run(i + 1, k + 1)
    BY <1>2, <2>3, <2>4
  <2> QED
    BY <2>6, <2>7, Zenon
<1>3. IsValue(i + 1) <=> \E k \in 1..i : k % 2 = 1 /\ Run(i + 1, k)
  BY <1>0
<1> QED
  BY <1>1, <1>2, <1>3, Zenon DEF F

(* The options among the first k arguments, and what they say.             *)
Seen(t, k) == {i \in Options(t) : i <= k}

LastSeen(t, default, k) == IF Seen(t, k) = {} THEN default ELSE line[Max(Seen(t, k)) + 1]

(* The loop is between arguments k and k + 1, and has met nothing bad.     *)
Clean(k) ==
  /\ ~IsValue(k + 1)
  /\ \A i \in 1..k : ~IsValue(i) =>
       /\ line[i] \notin {"1.5", "", "word"}
       /\ line[i] \in ValueFlag => i < k
       /\ line[i] = "latency" => line[i + 1] = "1.5"

Summary(k) ==
  /\ arg["local"].daemon = (Seen("daemon", k) # {})
  /\ arg["local"].path = LastSeen("path", "", k)
  /\ arg["local"].latency = LastSeen("latency", "0.0", k)
  /\ arg["local"].user_host = IF Seen("user@host", k) = {} THEN "" ELSE "user@host"

(* One more argument that is an option without a value.                    *)
LEMMA SeenOne ==
  ASSUME line \in Seq(Token), NEW k \in Nat, k < Len(line), ~IsValue(k + 1), NEW t
  PROVE  Seen(t, k + 1) = IF line[k + 1] = t THEN Seen(t, k) \cup {k + 1} ELSE Seen(t, k)
<1>1. k + 1 \in DOMAIN line /\ \A i \in DOMAIN line : i <= k + 1 <=> i <= k \/ i = k + 1
  OBVIOUS
<1> QED
  BY <1>1, Zenon DEF Seen, Options

(* An option and its value.                                                *)
LEMMA SeenTwo ==
  ASSUME line \in Seq(Token), NEW k \in Nat, k + 1 < Len(line), ~IsValue(k + 1),
         line[k + 1] \in ValueFlag, NEW t
  PROVE  Seen(t, k + 2) = IF line[k + 1] = t THEN Seen(t, k) \cup {k + 1} ELSE Seen(t, k)
<1>1. IsValue(k + 2)
  <2>1. k + 1 \in Nat \ {0} /\ (k + 1) + 1 = k + 2
    OBVIOUS
  <2> QED
    BY <2>1, Alternates, Zenon
<1>2. /\ k + 1 \in DOMAIN line
      /\ \A i \in DOMAIN line : i <= k + 2 <=> i <= k \/ i = k + 1 \/ i = k + 2
  OBVIOUS
<1> QED
  BY <1>1, <1>2, Zenon DEF Seen, Options

(* The latest option is the last.                                          *)
LEMMA LatestIsLast ==
  ASSUME NEW k \in Nat, NEW S, \A i \in S : i \in Nat /\ i <= k
  PROVE  Max(S \cup {k + 1}) = k + 1
<1> DEFINE T == S \cup {k + 1}
<1>1. k + 1 \in T /\ \A i \in T : i \in Nat /\ k + 1 >= i
  OBVIOUS
<1>2. \A x \in T : (\A y \in T : x >= y) => x = k + 1
  BY <1>1
<1> HIDE DEF T
<1>3. Max(T) \in T /\ \A y \in T : Max(T) >= y
  BY <1>1, Zenon DEF Max
<1>4. Max(T) = k + 1
  BY <1>2, <1>3, Zenon
<1> QED
  BY <1>4, Zenon DEF T

Text == Token \cup {"cwd", "0.0"}
Fields == [daemon : BOOLEAN, path : Text, latency : Text, user_host : Text]

ArgShape ==
  /\ line \in Seq(Token)
  /\ rest = [p \in Proc |-> rest[p]]
  /\ arg = [p \in Proc |-> arg[p]]
  /\ arg["local"] \in Fields

(* What follows the first k arguments.                                     *)
LEMMA Suffix ==
  ASSUME NEW T, NEW s \in Seq(T), NEW k \in 0..Len(s), NEW r, r = SubSeq(s, k + 1, Len(s))
  PROVE  /\ r = <<>> <=> k = Len(s)
         /\ Len(r) = Len(s) - k
         /\ \A i \in 1..Len(s) - k : r[i] = s[k + i]
         /\ \A n \in 1..Len(s) - k : SubSeq(r, n + 1, Len(r)) = SubSeq(s, k + n + 1, Len(s))
<1>1. Len(s) \in Nat /\ Len(r) = Len(s) - k /\ r \in Seq(T)
      /\ \A i \in 1..Len(s) - k : r[i] = s[k + i]
  OBVIOUS
<1>2. r = <<>> <=> k = Len(s)
  <2>1. r = <<>> <=> Len(r) = 0
    BY <1>1, EmptySeq, Zenon
  <2> QED
    BY <1>1, <2>1
<1>3. ASSUME NEW n \in 1..Len(s) - k
      PROVE  SubSeq(r, n + 1, Len(r)) = SubSeq(s, k + n + 1, Len(s))
  <2> DEFINE a == SubSeq(r, n + 1, Len(r))
             b == SubSeq(s, k + n + 1, Len(s))
  <2>1. a \in Seq(T) /\ Len(a) = Len(s) - k - n /\ \A i \in 1..Len(s) - k - n : a[i] = r[n + i]
    BY <1>1
  <2>2. b \in Seq(T) /\ Len(b) = Len(s) - k - n /\ \A i \in 1..Len(s) - k - n : b[i] = s[k + n + i]
    BY <1>1
  <2>3. \A i \in 1..Len(s) - k - n : n + i \in 1..Len(s) - k /\ k + (n + i) = k + n + i
    BY <1>1
  <2> HIDE DEF a, b
  <2>4. \A i \in 1..Len(s) - k - n : a[i] = b[i]
    BY <1>1, <2>1, <2>2, <2>3, ZenonT(30)
  <2> QED
    BY <2>1, <2>2, <2>4, SeqEqual, Zenon DEF a, b
<1> QED
  BY <1>1, <1>2, <1>3, Zenon

LEMMA AtArgument ==
  ASSUME line \in Seq(Token), NEW k \in 0..Len(line),
         rest["local"] = SubSeq(line, k + 1, Len(line)), rest["local"] # <<>>
  PROVE  /\ k < Len(line) /\ k \in Nat /\ Len(rest["local"]) = Len(line) - k
         /\ rest["local"][1] = line[k + 1] /\ line[k + 1] \in Token
         /\ Len(rest["local"]) > 1 =>
              k + 1 < Len(line) /\ rest["local"][2] = line[k + 2] /\ line[k + 2] \in Token
<1>1. Len(line) \in Nat /\ \A i \in 1..Len(line) : line[i] \in Token
  OBVIOUS
<1> DEFINE r == rest["local"]
<1>2. /\ k # Len(line) /\ Len(r) = Len(line) - k
      /\ \A i \in 1..Len(line) - k : r[i] = line[k + i]
  BY Suffix
<1> HIDE DEF r
<1>3. k < Len(line) /\ k \in Nat /\ 1 \in 1..Len(line) - k /\ k + 1 \in 1..Len(line)
  BY <1>1, <1>2
<1>4. Len(r) > 1 => k + 1 < Len(line) /\ 2 \in 1..Len(line) - k /\ k + 2 \in 1..Len(line)
  BY <1>1, <1>2, <1>3
<1>5. r[1] = line[k + 1] /\ line[k + 1] \in Token
  BY <1>1, <1>2, <1>3, Zenon
<1>6. Len(r) > 1 => r[2] = line[k + 2] /\ line[k + 2] \in Token
  BY <1>1, <1>2, <1>4, Zenon
<1> QED
  BY <1>2, <1>3, <1>4, <1>5, <1>6, Zenon DEF r

(* The command line does not change, so neither does what is said of it.   *)
LEMMA SameLine ==
  ASSUME UNCHANGED line, NEW k
  PROVE  /\ Clean(k) <=> Clean(k)'
         /\ Bad <=> Bad'
         /\ IsValue(k) <=> IsValue(k)'
BY Zenon DEF Clean, Bad, Options, IsValue

LEMMA SameSeen ==
  ASSUME UNCHANGED line, NEW k, NEW t, NEW default
  PROVE  /\ Seen(t, k) = Seen(t, k)'
         /\ LastSeen(t, default, k) = LastSeen(t, default, k)'
         /\ Options(t) = Options(t)'
BY Zenon DEF Seen, LastSeen, Options, IsValue

(* The scan stays clean past an option without a value, and past an option *)
(* and its value.                                                          *)
LEMMA CleanOne ==
  ASSUME NEW k \in Nat, Clean(k), line[k + 1] \in {"daemon", "user@host"}
  PROVE  Clean(k + 1)
<1>1. ~IsValue(k + 1 + 1)
  <2>1. k + 1 \in Nat \ {0}
    OBVIOUS
  <2>2. line[k + 1] \notin ValueFlag
    BY Zenon DEF ValueFlag
  <2> QED
    BY <2>1, <2>2, Alternates, Zenon
<1>2. \A i \in 1..k + 1 : i \in 1..k \/ i = k + 1
  OBVIOUS
<1>3. \A i \in 1..k : i < k => i < k + 1
  OBVIOUS
<1> QED
  BY <1>1, <1>2, <1>3, Zenon DEF Clean, ValueFlag

LEMMA CleanTwo ==
  ASSUME NEW k \in Nat, Clean(k), line[k + 1] \in ValueFlag,
         line[k + 1] = "latency" => line[k + 2] = "1.5"
  PROVE  Clean(k + 2)
<1>1. k + 1 \in Nat \ {0} /\ k + 2 \in Nat \ {0} /\ k + 1 + 1 = k + 2 /\ k + 1 < k + 2
  OBVIOUS
<1>2. ~IsValue(k + 1)
  BY Zenon DEF Clean
<1>3. IsValue(k + 2)
  BY <1>1, <1>2, Alternates, Zenon
<1>4. ~IsValue(k + 2 + 1)
  BY <1>1, <1>3, Alternates, Zenon
<1>5. \A i \in 1..k + 2 : i \in 1..k \/ i = k + 1 \/ i = k + 2
  OBVIOUS
<1>6. \A i \in 1..k : i < k => i < k + 2
  OBVIOUS
<1>7. ASSUME NEW i \in 1..k + 2, ~IsValue(i)
      PROVE  /\ line[i] \notin {"1.5", "", "word"}
             /\ line[i] \in ValueFlag => i < k + 2
             /\ line[i] = "latency" => line[i + 1] = "1.5"
  <2>1. CASE i \in 1..k
    BY <1>6, <1>7, <2>1, Zenon DEF Clean
  <2>2. CASE i = k + 1
    BY <1>1, <2>2, Zenon DEF ValueFlag
  <2> QED
    BY <1>3, <1>5, <1>7, <2>1, <2>2, Zenon
<1> QED
  BY <1>4, <1>7, Zenon DEF Clean

(* What reading an option does to the four fields.                         *)
LEMMA ReadsField ==
  ASSUME ArgShape, NEW n \in Nat, NEW v
  PROVE  /\ Reads("local", "daemon", TRUE, n) =>
              arg'["local"] = [arg["local"] EXCEPT !.daemon = TRUE]
         /\ Reads("local", "path", v, n) => arg'["local"] = [arg["local"] EXCEPT !.path = v]
         /\ Reads("local", "latency", v, n) => arg'["local"] = [arg["local"] EXCEPT !.latency = v]
         /\ Reads("local", "user_host", v, n) => arg'["local"] = [arg["local"] EXCEPT !.user_host = v]
BY Zenon DEF Reads, ArgShape, Proc, Fields

(* The loop is between two arguments.                                      *)
Between(k) ==
  /\ rest["local"] = SubSeq(line, k + 1, Len(line))
  /\ Clean(k)
  /\ Summary(k)

LEMMA ReadsRest ==
  ASSUME ArgShape, NEW k \in 0..Len(line), rest["local"] = SubSeq(line, k + 1, Len(line)),
         NEW f, NEW v, NEW n \in 1..Len(line) - k, Reads("local", f, v, n), UNCHANGED line
  PROVE  rest'["local"] = SubSeq(line', k + n + 1, Len(line'))
<1>1. rest'["local"] = SubSeq(rest["local"], n + 1, Len(rest["local"]))
  BY Zenon DEF Reads, ArgShape, Proc
<1>2. line \in Seq(Token)
  BY Zenon DEF ArgShape
<1>3. SubSeq(rest["local"], n + 1, Len(rest["local"])) = SubSeq(line, k + n + 1, Len(line))
  BY <1>2, Suffix
<1> QED
  BY <1>1, <1>3, Zenon

(* What the options say, once one more of them is read.                    *)
LEMMA Retold ==
  ASSUME UNCHANGED line, NEW m,
         arg'["local"].daemon = (Seen("daemon", m) # {}),
         arg'["local"].path = LastSeen("path", "", m),
         arg'["local"].latency = LastSeen("latency", "0.0", m),
         arg'["local"].user_host = IF Seen("user@host", m) = {} THEN "" ELSE "user@host"
  PROVE  Summary(m)'
BY SameSeen, Zenon DEF Summary

LEMMA SummaryOne ==
  ASSUME ArgShape, NEW k \in 0..Len(line), k < Len(line), Between(k), UNCHANGED line,
         \/ /\ line[k + 1] = "daemon"
            /\ arg'["local"] = [arg["local"] EXCEPT !.daemon = TRUE]
         \/ /\ line[k + 1] = "user@host"
            /\ arg'["local"] = [arg["local"] EXCEPT !.user_host = "user@host"]
  PROVE  Summary(k + 1)'
<1>1. line \in Seq(Token) /\ ~IsValue(k + 1) /\ Summary(k)
  BY Zenon DEF ArgShape, Between, Clean
<1>2. k \in Nat
  BY <1>1
<1>3. /\ Seen("path", k + 1) = Seen("path", k)
      /\ Seen("latency", k + 1) = Seen("latency", k)
  BY <1>1, <1>2, SeenOne, Zenon
<1>4. /\ LastSeen("path", "", k + 1) = LastSeen("path", "", k)
      /\ LastSeen("latency", "0.0", k + 1) = LastSeen("latency", "0.0", k)
  BY <1>3, Zenon DEF LastSeen
<1>5. CASE /\ line[k + 1] = "daemon"
           /\ arg'["local"] = [arg["local"] EXCEPT !.daemon = TRUE]
  <2>1. /\ Seen("daemon", k + 1) = Seen("daemon", k) \cup {k + 1}
        /\ Seen("user@host", k + 1) = Seen("user@host", k)
    BY <1>1, <1>2, <1>5, SeenOne, Zenon
  <2>2. /\ arg'["local"].daemon = TRUE
        /\ arg'["local"].path = arg["local"].path
        /\ arg'["local"].latency = arg["local"].latency
        /\ arg'["local"].user_host = arg["local"].user_host
    BY <1>5, Zenon DEF ArgShape, Fields
  <2>3. arg'["local"].daemon = (Seen("daemon", k + 1) # {})
    BY <2>1, <2>2, Zenon
  <2> QED
    BY <1>1, <1>4, <2>1, <2>2, <2>3, Retold, Zenon DEF Summary
<1>6. CASE /\ line[k + 1] = "user@host"
           /\ arg'["local"] = [arg["local"] EXCEPT !.user_host = "user@host"]
  <2>1. /\ Seen("daemon", k + 1) = Seen("daemon", k)
        /\ Seen("user@host", k + 1) = Seen("user@host", k) \cup {k + 1}
    BY <1>1, <1>2, <1>6, SeenOne, Zenon
  <2>2. /\ arg'["local"].daemon = arg["local"].daemon
        /\ arg'["local"].path = arg["local"].path
        /\ arg'["local"].latency = arg["local"].latency
        /\ arg'["local"].user_host = "user@host"
    BY <1>6, Zenon DEF ArgShape, Fields
  <2>3. Seen("user@host", k + 1) # {}
    BY <2>1, Zenon
  <2> QED
    BY <1>1, <1>4, <2>1, <2>2, <2>3, Retold, Zenon DEF Summary
<1> QED
  BY <1>5, <1>6, Zenon

LEMMA SummaryTwo ==
  ASSUME ArgShape, NEW k \in 0..Len(line), k + 1 < Len(line), Between(k), UNCHANGED line,
         \/ /\ line[k + 1] = "path"
            /\ arg'["local"] = [arg["local"] EXCEPT !.path = line[k + 2]]
         \/ /\ line[k + 1] = "latency"
            /\ arg'["local"] = [arg["local"] EXCEPT !.latency = line[k + 2]]
  PROVE  Summary(k + 2)'
<1>1. line \in Seq(Token) /\ ~IsValue(k + 1) /\ Summary(k) /\ line[k + 1] \in ValueFlag
  BY Zenon DEF ArgShape, Between, Clean, ValueFlag
<1>2. k \in Nat /\ k + 1 + 1 = k + 2
  BY <1>1
<1>3. /\ Seen("daemon", k + 2) = Seen("daemon", k)
      /\ Seen("user@host", k + 2) = Seen("user@host", k)
  BY <1>1, <1>2, SeenTwo, Zenon
<1>4. ASSUME NEW t, NEW default, line[k + 1] = t
      PROVE  LastSeen(t, default, k + 2) = line[k + 2]
  <2>1. Seen(t, k + 2) = Seen(t, k) \cup {k + 1}
    BY <1>1, <1>2, <1>4, SeenTwo, Zenon
  <2>2. \A i \in Seen(t, k) : i \in Nat /\ i <= k
    BY <1>1 DEF Seen, Options
  <2>3. Max(Seen(t, k + 2)) = k + 1
    BY <1>2, <2>1, <2>2, LatestIsLast, Zenon
  <2> QED
    BY <1>2, <2>1, <2>3, Zenon DEF LastSeen
<1>5. CASE /\ line[k + 1] = "path"
           /\ arg'["local"] = [arg["local"] EXCEPT !.path = line[k + 2]]
  <2>1. Seen("latency", k + 2) = Seen("latency", k)
    BY <1>1, <1>2, <1>5, SeenTwo, Zenon
  <2>2. LastSeen("latency", "0.0", k + 2) = LastSeen("latency", "0.0", k)
    BY <2>1, Zenon DEF LastSeen
  <2>3. /\ arg'["local"].daemon = arg["local"].daemon
        /\ arg'["local"].path = line[k + 2]
        /\ arg'["local"].latency = arg["local"].latency
        /\ arg'["local"].user_host = arg["local"].user_host
    BY <1>5, Zenon DEF ArgShape, Fields
  <2> QED
    BY <1>1, <1>3, <1>4, <1>5, <2>2, <2>3, Retold, ZenonT(30) DEF Summary
<1>6. CASE /\ line[k + 1] = "latency"
           /\ arg'["local"] = [arg["local"] EXCEPT !.latency = line[k + 2]]
  <2>1. Seen("path", k + 2) = Seen("path", k)
    BY <1>1, <1>2, <1>6, SeenTwo, Zenon
  <2>2. LastSeen("path", "", k + 2) = LastSeen("path", "", k)
    BY <2>1, Zenon DEF LastSeen
  <2>3. /\ arg'["local"].daemon = arg["local"].daemon
        /\ arg'["local"].path = arg["local"].path
        /\ arg'["local"].latency = line[k + 2]
        /\ arg'["local"].user_host = arg["local"].user_host
    BY <1>6, Zenon DEF ArgShape, Fields
  <2> QED
    BY <1>1, <1>3, <1>4, <1>6, <2>2, <2>3, Retold, ZenonT(30) DEF Summary
<1> QED
  BY <1>5, <1>6, Zenon

-----------------------------------------------------------------------------
(* Args::parse, step by step.                                              *)

Accepts == ~Bad /\ (Options("daemon") # {} \/ Options("user@host") # {})

(* The check after the loop has passed.                                    *)
Chosen ==
  /\ rest["local"] = <<>>
  /\ arg["local"].daemon = TRUE \/ arg["local"].user_host # ""

ParseInv ==
  /\ ArgShape
  /\ pc["local"] = "parse" => \E k \in 0..Len(line) : Between(k)
  /\ pc["local"] \notin {"parse", "ended"} => Chosen
  /\ pc["local"] = "path" => Accepts /\ Summary(Len(line))
  /\ exit["local"] \in {"1", "ABRT"} => Chosen \/ ~Accepts

(* At the end of the line every option has been seen.                      *)
LEMMA SeenAll ==
  ASSUME line \in Seq(Token), NEW t
  PROVE  Seen(t, Len(line)) = Options(t)
BY DEF Seen, Options

LEMMA CleanAll ==
  ASSUME line \in Seq(Token), Clean(Len(line))
  PROVE  ~Bad
<1>1. DOMAIN line = 1..Len(line)
  OBVIOUS
<1>2. ~(\E i \in DOMAIN line : ~IsValue(i) /\ line[i] \in {"1.5", "", "word"})
  BY <1>1, Zenon DEF Clean
<1>3. ~(\E t \in ValueFlag : Len(line) \in Options(t))
  <2> SUFFICES ASSUME NEW t \in ValueFlag, Len(line) \in Options(t) PROVE FALSE
    BY Zenon
  <2>1. Len(line) \in 1..Len(line) /\ line[Len(line)] = t /\ ~IsValue(Len(line))
    BY <1>1, Zenon DEF Options
  <2>2. Len(line) < Len(line)
    BY <2>1, Zenon DEF Clean
  <2> QED
    BY <2>2
<1>4. ~(\E i \in Options("latency") : line[i + 1] # "1.5")
  BY <1>1, Zenon DEF Clean, Options
<1> QED
  BY <1>2, <1>3, <1>4, Zenon DEF Bad

(* What the loop gives up on is bad.                                       *)
LEMMA Rejected ==
  ASSUME line \in Seq(Token), NEW k \in 0..Len(line), k < Len(line), ~IsValue(k + 1),
         \/ line[k + 1] \notin {"daemon", "user@host", "path", "latency"}
         \/ line[k + 1] \in ValueFlag /\ k + 1 = Len(line)
         \/ line[k + 1] = "latency" /\ line[k + 2] # "1.5"
  PROVE  Bad
<1>1. k + 1 \in DOMAIN line /\ line[k + 1] \in Token /\ k + 1 + 1 = k + 2
  OBVIOUS
<1>2. CASE line[k + 1] \notin {"daemon", "user@host", "path", "latency"}
  BY <1>1, <1>2, Zenon DEF Bad, Token
<1>3. CASE line[k + 1] \in ValueFlag /\ k + 1 = Len(line)
  <2>1. k + 1 \in Options(line[k + 1])
    BY <1>1, Zenon DEF Options
  <2> QED
    BY <1>3, <2>1, Zenon DEF Bad
<1>4. CASE line[k + 1] = "latency" /\ line[k + 2] # "1.5"
  <2>1. k + 1 \in Options("latency")
    BY <1>1, <1>4, Zenon DEF Options
  <2> QED
    BY <1>1, <1>4, <2>1, Zenon DEF Bad
<1> QED
  BY <1>2, <1>3, <1>4, Zenon

(* Nothing has been read.                                                  *)
LEMMA InitParses == Init => ParseInv
<1> SUFFICES ASSUME Init PROVE ParseInv
  BY Zenon
<1>1. line \in Seq(Token)
  BY LinesAssumption, Zenon DEF Init
<1>2. /\ rest = [p \in Proc |-> rest[p]]
      /\ rest["local"] = line
  BY Zenon DEF Init, Proc
<1>3. /\ arg = [p \in Proc |-> arg[p]]
      /\ arg["local"] = Args
  BY Zenon DEF Init, Proc
<1>4. Args \in Fields
  BY Zenon DEF Args, Fields, Text, Token
<1>5. pc["local"] = "parse" /\ exit["local"] = ""
  BY Zenon DEF Init, Proc
<1>6. rest["local"] = SubSeq(line, 0 + 1, Len(line))
  BY <1>1, <1>2, SubSeqFull
<1>7. Clean(0)
  BY DEF Clean, IsValue
<1>8. \A t : Seen(t, 0) = {}
  BY <1>1 DEF Seen, Options
<1>9. Summary(0)
  <2>1. /\ arg["local"].daemon = FALSE /\ arg["local"].path = ""
        /\ arg["local"].latency = "0.0" /\ arg["local"].user_host = ""
    <3>1. /\ Args.daemon = FALSE /\ Args.path = "" /\ Args.latency = "0.0"
          /\ Args.user_host = ""
      BY Zenon DEF Args
    <3> QED
      BY <1>3, <3>1, Zenon
  <2>2. LastSeen("path", "", 0) = "" /\ LastSeen("latency", "0.0", 0) = "0.0"
    BY <1>8, Zenon DEF LastSeen
  <2> QED
    BY <1>8, <2>1, <2>2, Zenon DEF Summary
<1>10. Len(line) \in Nat
  BY <1>1
<1>11. 0 \in 0..Len(line) /\ Between(0)
  BY <1>6, <1>7, <1>9, <1>10 DEF Between
<1> QED
  BY <1>1, <1>2, <1>3, <1>4, <1>5, <1>11, Zenon DEF ParseInv, ArgShape

(* One turn of the loop.                                                   *)
LEMMA ParseArgParses ==
  ASSUME PInv, ParseInv, ParseArg("local")
  PROVE  ParseInv'
<1>1. /\ ArgShape /\ line \in Seq(Token) /\ UNCHANGED line
      /\ pc["local"] = "parse" /\ exit["local"] = ""
  BY Zenon DEF ParseInv, ArgShape, ParseArg, shared, PInv, Shape
<1>n. Len(line) \in Nat /\ \A i \in 1..Len(line) : line[i] \in Token
  <2>1. line \in Seq(Token)
    BY <1>1, Zenon
  <2> QED
    BY <2>1
<1>2. PICK k \in 0..Len(line) : Between(k)
  BY <1>1, Zenon DEF ParseInv
<1> DEFINE r == rest["local"]
<1>3. r = SubSeq(line, k + 1, Len(line)) /\ Clean(k) /\ Summary(k) /\ ~IsValue(k + 1)
  BY <1>2, Zenon DEF Between, Clean
<1>4. /\ r # <<>>
      /\ \/ r[1] = "daemon" /\ Reads("local", "daemon", TRUE, 1)
         \/ Len(r) > 1 /\ r[1] = "path" /\ Reads("local", "path", r[2], 2)
         \/ Len(r) > 1 /\ r[1] = "latency" /\ r[2] = "1.5" /\ Reads("local", "latency", r[2], 2)
         \/ /\ \/ Len(r) > 1 /\ r[1] = "latency" /\ r[2] # "1.5" /\ Ends("local", "ABRT")
               \/ /\ r[1] \notin {"daemon", "user@host"}
                  /\ Len(r) > 1 => r[1] \notin ValueFlag
                  /\ Ends("local", "1")
            /\ UNCHANGED <<rest, arg>>
         \/ r[1] = "user@host" /\ Reads("local", "user_host", r[1], 1)
  BY Zenon DEF ParseArg, ReadsValue, ValueFlag
<1> HIDE DEF r
<1>5. /\ k < Len(line) /\ k \in Nat /\ Len(r) = Len(line) - k /\ r[1] = line[k + 1]
      /\ line[k + 1] \in Token
      /\ Len(r) > 1 => k + 1 < Len(line) /\ r[2] = line[k + 2] /\ line[k + 2] \in Token
  BY <1>1, <1>3, <1>4, AtArgument, Zenon DEF r
<1>6. ASSUME NEW f, NEW v, NEW n, Reads("local", f, v, n), n \in {1, 2}, k + n <= Len(line),
             arg'["local"] \in Fields, Clean(k + n), Summary(k + n)'
      PROVE  ParseInv'
  <2>1. k + n \in 0..Len(line) /\ n \in 1..Len(line) - k
    BY <1>n, <1>5, <1>6
  <2>2. rest'["local"] = SubSeq(line', k + n + 1, Len(line'))
    BY <1>1, <1>3, <1>6, <2>1, ReadsRest, Zenon DEF r
  <2>3. Between(k + n)'
    BY <1>1, <1>6, <2>2, SameLine, Zenon DEF Between
  <2>4. pc'["local"] = "parse" /\ exit'["local"] = ""
    BY <1>1, <1>6, Zenon DEF Reads
  <2>5. ArgShape'
    BY <1>1, <1>6, Zenon DEF ArgShape, Reads, Proc
  <2> QED
    BY <1>1, <2>1, <2>3, <2>4, <2>5, Zenon DEF ParseInv
<1>7. arg["local"] \in Fields
  BY <1>1, Zenon DEF ArgShape
<1>8. CASE r[1] = "daemon" /\ Reads("local", "daemon", TRUE, 1)
  <2>1. arg'["local"] = [arg["local"] EXCEPT !.daemon = TRUE]
    BY <1>1, <1>8, ReadsField, Zenon
  <2>2. Summary(k + 1)' /\ Clean(k + 1)
    BY <1>1, <1>2, <1>3, <1>5, <1>8, <2>1, SummaryOne, CleanOne, ZenonT(30)
  <2>3. arg'["local"] \in Fields
    BY <1>7, <2>1, Zenon DEF Fields
  <2>4. k + 1 <= Len(line)
    BY <1>n, <1>5
  <2> QED
    BY <1>6, <1>8, <2>2, <2>3, <2>4, Zenon
<1>9. CASE r[1] = "user@host" /\ Reads("local", "user_host", r[1], 1)
  <2>1. arg'["local"] = [arg["local"] EXCEPT !.user_host = "user@host"]
    <3>1. ArgShape /\ Reads("local", "user_host", "user@host", 1)
      BY <1>1, <1>9, Zenon
    <3> QED
      BY <3>1, ReadsField, Zenon
  <2>2. Summary(k + 1)' /\ Clean(k + 1)
    BY <1>1, <1>2, <1>3, <1>5, <1>9, <2>1, SummaryOne, CleanOne, ZenonT(30)
  <2>3. arg'["local"] \in Fields
    BY <1>7, <2>1, Zenon DEF Fields, Text, Token
  <2>4. k + 1 <= Len(line)
    BY <1>n, <1>5
  <2> QED
    BY <1>6, <1>9, <2>2, <2>3, <2>4, Zenon
<1>10. CASE Len(r) > 1 /\ r[1] = "path" /\ Reads("local", "path", r[2], 2)
  <2>1. arg'["local"] = [arg["local"] EXCEPT !.path = line[k + 2]]
    BY <1>1, <1>5, <1>10, ReadsField, ZenonT(30)
  <2>2. Summary(k + 2)'
    BY <1>1, <1>2, <1>5, <1>10, <2>1, SummaryTwo, Zenon
  <2>3. Clean(k + 2)
    BY <1>3, <1>5, <1>10, CleanTwo, Zenon DEF ValueFlag
  <2>4. arg'["local"] \in Fields
    BY <1>5, <1>7, <1>10, <2>1, Zenon DEF Fields, Text
  <2>5. k + 2 <= Len(line)
    BY <1>n, <1>5, <1>10
  <2> QED
    BY <1>6, <1>10, <2>2, <2>3, <2>4, <2>5, Zenon
<1>11. CASE Len(r) > 1 /\ r[1] = "latency" /\ r[2] = "1.5" /\ Reads("local", "latency", r[2], 2)
  <2>1. arg'["local"] = [arg["local"] EXCEPT !.latency = line[k + 2]]
    <3>1. ArgShape /\ Reads("local", "latency", line[k + 2], 2)
      BY <1>1, <1>5, <1>11, Zenon
    <3> QED
      BY <3>1, ReadsField, Zenon
  <2>2. Summary(k + 2)'
    BY <1>1, <1>2, <1>5, <1>11, <2>1, SummaryTwo, Zenon
  <2>3. Clean(k + 2)
    BY <1>3, <1>5, <1>11, CleanTwo, Zenon DEF ValueFlag
  <2>4. arg'["local"] \in Fields
    BY <1>5, <1>7, <1>11, <2>1, Zenon DEF Fields, Text
  <2>5. k + 2 <= Len(line)
    BY <1>n, <1>5, <1>11
  <2> QED
    BY <1>6, <1>11, <2>2, <2>3, <2>4, <2>5, Zenon
<1>12. CASE /\ \/ Len(r) > 1 /\ r[1] = "latency" /\ r[2] # "1.5" /\ Ends("local", "ABRT")
               \/ /\ r[1] \notin {"daemon", "user@host"}
                  /\ Len(r) > 1 => r[1] \notin ValueFlag
                  /\ Ends("local", "1")
            /\ UNCHANGED <<rest, arg>>
  <2>1. ~(Len(r) > 1) => k + 1 = Len(line)
    BY <1>n, <1>5
  <2>2. Bad
    BY <1>1, <1>3, <1>5, <1>12, <2>1, Rejected, Zenon DEF ValueFlag
  <2>3. ~Accepts'
    BY <1>1, <2>2, SameLine, Zenon DEF Accepts
  <2>4. pc'["local"] = "ended"
    BY <1>12, Zenon DEF Ends, Goto, PInv, Shape, Proc
  <2>5. ArgShape'
    BY <1>1, <1>12, Zenon DEF ArgShape
  <2> QED
    BY <2>3, <2>4, <2>5, Zenon DEF ParseInv
<1> QED
  BY <1>4, <1>8, <1>9, <1>10, <1>11, <1>12, Zenon

(* The end of the loop: the line is accepted exactly when a daemon or a    *)
(* host was asked for.                                                     *)
LEMMA ParseEndParses ==
  ASSUME PInv, ParseInv, ParseEnd("local")
  PROVE  ParseInv'
<1>1. /\ ArgShape /\ UNCHANGED line
      /\ pc["local"] = "parse" /\ exit["local"] = "" /\ rest["local"] = <<>>
      /\ UNCHANGED <<rest, arg>>
  BY Zenon DEF ParseInv, ParseEnd, shared, PInv, Shape
<1>2. PICK k \in 0..Len(line) : Between(k)
  BY <1>1, Zenon DEF ParseInv
<1>3. line \in Seq(Token)
  BY <1>1, Zenon DEF ArgShape
<1>4. k = Len(line)
  BY <1>1, <1>2, <1>3, Suffix, Zenon DEF Between
<1>5. Clean(Len(line)) /\ Summary(Len(line))
  BY <1>2, <1>4, Zenon DEF Between
<1>6. /\ arg["local"].daemon = (Options("daemon") # {})
      /\ arg["local"].user_host = IF Options("user@host") = {} THEN "" ELSE "user@host"
  <2>1. Seen("daemon", Len(line)) = Options("daemon") /\ Seen("user@host", Len(line)) = Options("user@host")
    BY <1>3, SeenAll, Zenon
  <2> QED
    BY <1>5, <2>1, Zenon DEF Summary
<1>7. Accepts <=> arg["local"].daemon = TRUE \/ arg["local"].user_host # ""
  BY <1>3, <1>5, <1>6, CleanAll, Zenon DEF Accepts
<1>8. Accepts <=> Accepts'
  BY <1>1, SameLine, SameSeen, Zenon DEF Accepts
<1>9. ArgShape'
  BY <1>1, Zenon DEF ArgShape
<1>10. CASE Accepts
  <2>1. pc'["local"] = "path" /\ exit'["local"] = ""
    BY <1>1, <1>7, <1>10, Zenon DEF ParseEnd, Goto, PInv, Shape, Proc
  <2>2. Chosen'
    BY <1>1, <1>7, <1>10, Zenon DEF Chosen
  <2>3. Summary(Len(line))'
    BY <1>1, <1>5, SameSeen, Zenon DEF Summary
  <2> QED
    BY <1>8, <1>9, <1>10, <2>1, <2>2, <2>3, Zenon DEF ParseInv
<1>11. CASE ~Accepts
  <2>1. pc'["local"] = "ended" /\ exit'["local"] = "1"
    BY <1>1, <1>7, <1>11, Zenon DEF ParseEnd, Ends, Goto, PInv, Shape, Proc
  <2> QED
    BY <1>8, <1>9, <1>11, <2>1, Zenon DEF ParseInv
<1> QED
  BY <1>10, <1>11, Zenon

(* Nothing of the local process changes.                                   *)
LEMMA LocalIdle ==
  ASSUME ParseInv, UNCHANGED line, ArgShape', rest'["local"] = rest["local"],
         arg'["local"] = arg["local"], pc'["local"] = pc["local"],
         exit'["local"] = exit["local"]
  PROVE  ParseInv'
<1>1. \A k : Summary(k) <=> Summary(k)'
  BY SameSeen, Zenon DEF Summary
<1>2. \A k : Between(k) <=> Between(k)'
  BY <1>1, SameLine, Zenon DEF Between
<1>3. Accepts <=> Accepts'
  BY SameLine, SameSeen, Zenon DEF Accepts
<1> QED
  BY <1>1, <1>2, <1>3, Zenon DEF ParseInv, Chosen

(* The local process goes on after the parse.                              *)
LEMMA LocalLater ==
  ASSUME ParseInv, ArgShape', rest'["local"] = rest["local"],
         arg'["local"].daemon = arg["local"].daemon,
         arg'["local"].user_host = arg["local"].user_host,
         pc["local"] \notin {"parse", "ended"}, pc'["local"] \notin {"parse", "path"}
  PROVE  ParseInv'
BY Zenon DEF ParseInv, Chosen

(* Ctrl-C ends the local process at any point.                             *)
LEMMA LocalInterrupted ==
  ASSUME ArgShape', pc'["local"] = "ended", exit'["local"] \notin {"1", "ABRT"}
  PROVE  ParseInv'
BY Zenon DEF ParseInv

(* The steps of main and of the daemon, of either process.                 *)
LEMMA MainParses ==
  ASSUME PInv, ParseInv, NEW p \in Proc, Main(p) \/ Serve(p) \/ ServeEnds(p)
  PROVE  ParseInv'
<1>1. ArgShape /\ UNCHANGED line
  BY Zenon DEF ParseInv, Main, ParseArg, ParseEnd, CheckPath, ReadFails, Serve, ServeEnds, shared
<1>2. CASE p = "local"
  <2>1. CASE ParseArg(p)
    BY <1>2, <2>1, ParseArgParses, Zenon
  <2>2. CASE ParseEnd(p)
    BY <1>2, <2>2, ParseEndParses, Zenon
  <2>3. CASE CheckPath(p)
    <3>1. pc["local"] = "path" /\ UNCHANGED <<rest, line>>
          /\ pc'["local"] \in {"read", "watch", "ended"}
      BY <1>1, <1>2, <2>3, Zenon DEF CheckPath, Fatal, Ends, Goto, PInv, Shape, Proc
    <3>2. \/ arg' = arg
          \/ arg' = [arg EXCEPT !["local"].path = IF @ = "" THEN "cwd" ELSE @]
      BY <1>2, <2>3, Zenon DEF CheckPath, Fatal
    <3>3. CASE arg' = arg
      BY <1>1, <3>1, <3>3, LocalLater, Zenon DEF ArgShape
    <3>4. CASE arg' = [arg EXCEPT !["local"].path = IF @ = "" THEN "cwd" ELSE @]
      <4>1. PICK v \in Text : arg' = [arg EXCEPT !["local"].path = v]
        BY <1>1, <3>4, Zenon DEF ArgShape, Fields, Text
      <4>2. arg'["local"] = [arg["local"] EXCEPT !.path = v]
        BY <1>1, <4>1, Zenon DEF ArgShape, Proc
      <4>3. arg' = [q \in Proc |-> arg'[q]]
        BY <1>1, <4>1, Zenon DEF ArgShape, Proc
      <4>4. /\ arg'["local"] \in Fields
            /\ arg'["local"].daemon = arg["local"].daemon
            /\ arg'["local"].user_host = arg["local"].user_host
        BY <1>1, <4>1, <4>2 DEF ArgShape, Fields
      <4>5. ArgShape'
        BY <1>1, <3>1, <4>3, <4>4, Zenon DEF ArgShape
      <4> QED
        BY <3>1, <4>4, <4>5, LocalLater, Zenon
    <3> QED
      BY <3>2, <3>3, <3>4, Zenon
  <2>4. CASE ReadFails(p) \/ Serve(p) \/ ServeEnds(p)
    <3>1. /\ pc["local"] \in {"read", "serve"} /\ UNCHANGED <<rest, arg, line>>
          /\ pc'["local"] \in {"serve", "ended"}
      BY <1>1, <1>2, <2>4, Zenon
         DEF ReadFails, Serve, ServeEnds, Fatal, Ends, Goto, PInv, Shape, Proc
    <3> QED
      BY <1>1, <3>1, LocalLater, Zenon DEF ArgShape
  <2> QED
    BY <2>1, <2>2, <2>3, <2>4, Zenon DEF Main
<1>3. CASE p = "remote"
  <2>1. pc'["local"] = pc["local"] /\ exit'["local"] = exit["local"]
    BY <1>3, Zenon DEF Main, ParseArg, ParseEnd, CheckPath, ReadFails, Serve, ServeEnds, Fatal, Reads,
                Ends, Goto, PInv, Shape, Proc
  <2>2. /\ rest'["local"] = rest["local"] /\ rest' = [q \in Proc |-> rest'[q]]
    BY <1>1, <1>3, Zenon DEF Main, ParseArg, ParseEnd, CheckPath, ReadFails, Serve, ServeEnds, Fatal, Reads,
                ArgShape, Proc
  <2>3. /\ arg'["local"] = arg["local"] /\ arg' = [q \in Proc |-> arg'[q]]
    <3>1. arg' = arg \/ \E a : arg' = [arg EXCEPT !["remote"] = a]
      BY <1>3, Zenon DEF Main, ParseArg, ParseEnd, CheckPath, ReadFails, Serve, ServeEnds, Fatal, Reads
    <3> QED
      BY <1>1, <3>1, Zenon DEF ArgShape, Proc
  <2> QED
    BY <1>1, <2>1, <2>2, <2>3, LocalIdle, Zenon DEF ArgShape
<1> QED
  BY <1>2, <1>3, Zenon DEF Proc

(* enu_main, ssh and the user leave the arguments alone.                   *)
LEMMA OthersParse ==
  ASSUME PInv, ParseInv, EnuMain \/ Connect \/ SshMust \/ SshMay \/ Interrupt
  PROVE  ParseInv'
<1>1. UNCHANGED <<line, rest, arg>>
  BY Zenon DEF EnuMain, Watch, Arm, Scan, Spawn, Send, Drain, Kill, Wait, Failed, Disarm, Return, Fatal,
         Connect, SshMust, SshMay, SshEnds, Interrupt, shared, kept
<1>2. ArgShape'
  BY <1>1, Zenon DEF ParseInv, ArgShape
<1>3. CASE EnuMain
  <2>1. pc["local"] \notin {"parse", "ended"} /\ pc'["local"] \notin {"parse", "path"}
    BY <1>3, Zenon DEF EnuMain, Watch, Arm, Scan, Spawn, Send, Drain, Kill, Wait, Failed, Disarm, Return,
                Fatal, Ends, Goto, At, PInv, Shape, Proc
  <2> QED
    BY <1>1, <1>2, <2>1, LocalLater, Zenon
<1>4. CASE Connect \/ SshMust \/ SshMay \/ (Interrupt /\ sigint # "default")
  <2>1. pc'["local"] = pc["local"] /\ exit'["local"] = exit["local"]
    BY <1>4, Zenon DEF Connect, SshMust, SshMay, SshEnds, Interrupt, Goto, PInv, Shape, Proc
  <2> QED
    BY <1>1, <1>2, <2>1, LocalIdle, Zenon
<1>5. CASE Interrupt /\ sigint = "default"
  <2>1. pc'["local"] = "ended" /\ exit'["local"] = "INT"
    BY <1>5, Zenon DEF Interrupt, Ends, Goto, PInv, Shape, Proc
  <2> QED
    BY <1>2, <2>1, LocalInterrupted, Zenon
<1> QED
  BY <1>3, <1>4, <1>5, Zenon

(* For every set of command lines, Args::parse lets the process go on      *)
(* exactly with the lines the reference accepts and with the values it     *)
(* gives them, and the process ends in parse, with 1 or by the exception   *)
(* of stod, only for lines it does not accept.                             *)
THEOREM ParsingAgrees == Spec => []ParseAgrees
<1>1. Init => PInv /\ ParseInv
  BY InitHonest, InitParses, Zenon
<1>2. PInv /\ ParseInv /\ [Next]_vars => PInv' /\ ParseInv'
  <2> SUFFICES ASSUME PInv, ParseInv, [Next]_vars PROVE PInv' /\ ParseInv'
    BY Zenon
  <2>1. CASE UNCHANGED vars \/ Over
    <3>1. UNCHANGED vars
      BY <2>1, Zenon DEF Over
    <3>2. PInv'
      BY <3>1, Zenon DEF PInv, Shape, Honest, vars
    <3>3. ArgShape'
      BY <3>1, Zenon DEF ParseInv, ArgShape, vars
    <3> QED
      BY <3>1, <3>2, <3>3, LocalIdle, Zenon DEF vars
  <2>2. CASE Next /\ ~Over
    BY <2>2, MainHonest, EnuMainHonest, OthersHonest, MainParses, OthersParse, Zenon DEF Next
  <2> QED
    BY <2>1, <2>2, Zenon
<1>3. PInv /\ ParseInv => ParseAgrees
  <2> SUFFICES ASSUME PInv, ParseInv PROVE ParseAgrees
    BY Zenon
  <2>1. ASSUME At("path")
        PROVE  arg["local"] =
                 [daemon |-> Options("daemon") # {}, path |-> LastValue("path", ""),
                  latency |-> LastValue("latency", "0.0"),
                  user_host |-> IF Options("user@host") = {} THEN "" ELSE "user@host"]
    <3>1. Summary(Len(line)) /\ line \in Seq(Token) /\ arg["local"] \in Fields
      BY <2>1, Zenon DEF ParseInv, At, ArgShape
    <3>2. /\ Seen("daemon", Len(line)) = Options("daemon")
          /\ Seen("path", Len(line)) = Options("path")
          /\ Seen("latency", Len(line)) = Options("latency")
          /\ Seen("user@host", Len(line)) = Options("user@host")
      BY <3>1, SeenAll, Zenon
    <3>3. /\ LastSeen("path", "", Len(line)) = LastValue("path", "")
          /\ LastSeen("latency", "0.0", Len(line)) = LastValue("latency", "0.0")
      BY <3>2, Zenon DEF LastSeen, LastValue
    <3>4. /\ arg["local"].daemon = (Options("daemon") # {})
          /\ arg["local"].path = LastValue("path", "")
          /\ arg["local"].latency = LastValue("latency", "0.0")
          /\ arg["local"].user_host = IF Options("user@host") = {} THEN "" ELSE "user@host"
      BY <3>1, <3>2, <3>3, Zenon DEF Summary
    <3> QED
      BY <3>1, <3>4, Zenon DEF Fields
  <2>2. At("path") => Accepts
    BY Zenon DEF ParseInv, At
  <2>3. /\ exit["local"] \in {"1", "ABRT"}
        /\ rest["local"] # <<>> \/ (~arg["local"].daemon /\ arg["local"].user_host = "")
        => ~Accepts
    BY Zenon DEF ParseInv, Chosen
  <2> QED
    BY <2>1, <2>2, <2>3, Zenon DEF ParseAgrees, Accepts
<1> QED
  BY <1>1, <1>2, <1>3, PTL DEF Spec

=============================================================================
