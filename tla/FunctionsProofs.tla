--------------------------- MODULE FunctionsProofs ---------------------------
(* Theorems about the pure functions of the controllers, for every input:  *)
(* the induction theorems of the library take an operator as a parameter,  *)
(* so what needs induction is proved here from the fact that a set of      *)
(* naturals has a least member.                                            *)
EXTENDS PureFunctions, FiniteSetTheorems, WellFoundedInduction, TLAPS

-----------------------------------------------------------------------------
(* Induction over data                                                     *)

(* A set of naturals has a least member.                                   *)
LEMMA LeastNat ==
    ASSUME NEW T \in SUBSET Nat, T # {}
    PROVE  \E x \in T : \A y \in T : x <= y
<1>1. PICK x \in T : \A y \in T : ~(<<y, x>> \in OpToRel(<, Nat))
  BY NatLessThanWellFounded, WFMin, Zenon
<1>2. \A y \in T : ~(y < x)
  BY <1>1 DEF OpToRel
<1>. QED
  BY <1>2

(* Induction, on a set that says for which naturals the claim holds.       *)
LEMMA InductionUpTo ==
    ASSUME NEW n \in Nat, NEW T, 0 \in T, \A i \in 1..n : i - 1 \in T => i \in T
    PROVE  0..n \subseteq T
<1>. DEFINE Out == {i \in 0..n : i \notin T}
<1>1. SUFFICES ASSUME NEW z \in 0..n, z \notin T PROVE FALSE
  OBVIOUS
<1>2. PICK x \in Out : \A y \in Out : x <= y
  <2>1. Out \in SUBSET Nat /\ z \in Out
    BY <1>1
  <2>. QED
    BY <2>1, LeastNat
<1>3. x \in 1..n /\ x - 1 \in 0..n
  BY <1>2
<1>4. x - 1 \in T
  BY <1>2, <1>3
<1>. QED
  BY <1>2, <1>3, <1>4

(* A recursive function that builds its value from the previous one exists. *)
IsStep(step, S, n) == step \in [S \X (1..n) -> S]
Recurses(f, S, n, b, step) ==
    /\ f \in [0..n -> S] /\ f[0] = b
    /\ \A i \in 1..n : f[i] = step[<<f[i - 1], i>>]
LEMMA RecursionExists ==
    ASSUME NEW S, NEW n \in Nat, NEW b \in S, NEW step, IsStep(step, S, n)
    PROVE  \E f : Recurses(f, S, n, b, step)
<1>. USE DEF IsStep
<1>. DEFINE Upto(f, m) == f[0] = b /\ \A i \in 1..m : f[i] = step[<<f[i - 1], i>>]
            T == {m \in 0..n : \E f \in [0..n -> S] : Upto(f, m)}
<1>1. 0 \in T
  <2>. DEFINE c == [i \in 0..n |-> b]
  <2>1. c \in [0..n -> S] /\ c[0] = b
    OBVIOUS
  <2>2. \A i \in 1..0 : FALSE
    OBVIOUS
  <2>. HIDE DEF c
  <2>3. Upto(c, 0)
    BY <2>1, <2>2
  <2>. QED
    BY <2>1, <2>3
<1>2. ASSUME NEW m \in 1..n, m - 1 \in T PROVE m \in T
  <2>1. PICK f \in [0..n -> S] : Upto(f, m - 1)
    BY <1>2
  <2>. DEFINE g == [f EXCEPT ![m] = step[<<f[m - 1], m>>]]
  <2>2. step[<<f[m - 1], m>>] \in S
    OBVIOUS
  <2>3. g \in [0..n -> S]
    BY <2>2
  <2>4. \A i \in 0..n : i # m => g[i] = f[i]
    OBVIOUS
  <2>5. g[m] = step[<<f[m - 1], m>>]
    OBVIOUS
  <2>. HIDE DEF g
  <2>6. g[0] = b
    BY <2>1, <2>4
  <2>7. ASSUME NEW i \in 1..m PROVE g[i] = step[<<g[i - 1], i>>]
    <3>1. CASE i = m
      <4>1. m - 1 \in 0..n /\ m - 1 # m
        OBVIOUS
      <4>2. g[m - 1] = f[m - 1]
        BY <2>4, <4>1
      <4>. QED
        BY <3>1, <2>5, <4>2
    <3>2. CASE i # m
      <4>1. i \in 1..(m - 1) /\ i \in 0..n /\ i - 1 \in 0..n /\ i - 1 # m
        BY <3>2
      <4>. QED
        BY <4>1, <2>1, <2>4, <3>2
    <3>. QED
      BY <3>1, <3>2
  <2>. QED
    BY <2>3, <2>6, <2>7
<1>3. n \in T
  <2>. HIDE DEF T
  <2>1. 0..n \subseteq T
    BY <1>1, <1>2, InductionUpTo
  <2>. QED
    BY <2>1
<1>. QED
  BY <1>3 DEF Recurses

-----------------------------------------------------------------------------
(* The names                                                               *)

(* One character more or less.                                             *)
Keep(acc, c) == IF c = "-" THEN acc ELSE Append(acc, c)

(* What WithoutDashes builds, character by character.                      *)
LEMMA WithoutDashesBuilds ==
    ASSUME NEW A, NEW s \in Seq(A)
    PROVE  \E f \in [0..Len(s) -> Seq(A)] :
              /\ f[0] = <<>> /\ \A i \in 1..Len(s) : f[i] = Keep(f[i - 1], s[i])
              /\ WithoutDashes(s) = f[Len(s)]
<1>. DEFINE n == Len(s)
            def(f) == [i \in 0..n |->
                         IF i = 0 THEN <<>>
                         ELSE IF s[i] = "-" THEN f[i - 1] ELSE Append(f[i - 1], s[i])]
            built == CHOOSE f : f = def(f)
            step == [x \in Seq(A) \X (1..n) |-> Keep(x[1], s[x[2]])]
<1>1. n \in Nat /\ \A i \in 1..n : s[i] \in A
  OBVIOUS
<1>2. WithoutDashes(s) = built[n]
  BY DEF WithoutDashes
<1>. HIDE DEF n
<1>3. built = def(built)
  <2>1. step \in [Seq(A) \X (1..n) -> Seq(A)]
    BY <1>1 DEF Keep
  <2>2. PICK f \in [0..n -> Seq(A)] :
           f[0] = <<>> /\ \A i \in 1..n : f[i] = step[<<f[i - 1], i>>]
    <3>1. <<>> \in Seq(A) /\ IsStep(step, Seq(A), n)
      BY <2>1 DEF IsStep
    <3>. HIDE DEF step
    <3>2. \E f : Recurses(f, Seq(A), n, <<>>, step)
      BY <1>1, <3>1, RecursionExists
    <3>. QED
      BY <3>2 DEF Recurses
  <2>3. ASSUME NEW i \in 1..n PROVE f[i] = Keep(f[i - 1], s[i])
    <3>1. i - 1 \in 0..n /\ f[i - 1] \in Seq(A)
      BY <1>1
    <3>2. <<f[i - 1], i>> \in Seq(A) \X (1..n)
      BY <3>1
    <3>3. step[<<f[i - 1], i>>] = Keep(f[i - 1], s[i])
      BY <3>2
    <3>. QED
      BY <2>2, <3>3
  <2>4. \A i \in 0..n : f[i] = IF i = 0 THEN <<>>
                               ELSE IF s[i] = "-" THEN f[i - 1] ELSE Append(f[i - 1], s[i])
    <3>1. ASSUME NEW i \in 0..n, i # 0 PROVE i \in 1..n
      BY <1>1, <3>1
    <3>. QED
      BY <2>2, <2>3, <3>1 DEF Keep
  <2>5. f = def(f)
    BY <2>2, <2>4
  <2>. HIDE DEF def
  <2>. QED
    BY <2>5
<1>. HIDE DEF built
<1>4. DOMAIN built = 0..n /\ built[0] = <<>>
  BY <1>1, <1>3
<1>5. ASSUME NEW i \in 1..n PROVE built[i] = Keep(built[i - 1], s[i])
  <2>1. i \in 0..n /\ i # 0
    BY <1>1
  <2>. QED
    BY <1>3, <2>1 DEF Keep
<1>6. \A i \in 0..n : built[i] \in Seq(A)
  <2>. DEFINE T == {i \in 0..n : built[i] \in Seq(A)}
  <2>1. 0 \in T
    <3>1. <<>> \in Seq(A) /\ 0 \in 0..n
      BY <1>1
    <3>. QED
      BY <1>4, <3>1
  <2>2. ASSUME NEW i \in 1..n, i - 1 \in T PROVE i \in T
    <3>1. built[i - 1] \in Seq(A) /\ s[i] \in A /\ i \in 0..n
      BY <1>1, <2>2
    <3>2. Keep(built[i - 1], s[i]) \in Seq(A)
      BY <3>1 DEF Keep
    <3>. QED
      BY <1>5, <3>1, <3>2
  <2>3. 0..n \subseteq T
    <3>. HIDE DEF T
    <3>. QED
      BY <1>1, <2>1, <2>2, InductionUpTo
  <2>. QED
    BY <2>3
<1>7. built = [i \in 0..n |-> built[i]]
  BY <1>3
<1>8. built \in [0..n -> Seq(A)]
  BY <1>6, <1>7
<1>. QED
  BY <1>2, <1>4, <1>5, <1>8 DEF n

(* What Collapsed builds, character by character.                          *)
LEMMA CollapsedBuilds ==
    ASSUME NEW s \in Seq(STRING)
    PROVE  \E f \in [0..Len(s) -> Seq(Char)] :
              /\ f[0] = <<>> /\ \A i \in 1..Len(s) : f[i] = Collapse(f[i - 1], s[i])
              /\ Collapsed(s) = f[Len(s)]
<1>. DEFINE n == Len(s)
            def(f) == [i \in 0..n |->
                         IF i = 0 THEN <<>> ELSE Collapse(f[i - 1], s[i])]
            built == CHOOSE f : f = def(f)
            step == [x \in Seq(Char) \X (1..n) |-> Collapse(x[1], s[x[2]])]
<1>1. n \in Nat
  OBVIOUS
<1>2. Collapsed(s) = built[n]
  BY DEF Collapsed
<1>. HIDE DEF n
<1>3. built = def(built)
  <2>1. step \in [Seq(Char) \X (1..n) -> Seq(Char)]
    BY <1>1 DEF Collapse, Last, Char
  <2>2. PICK f \in [0..n -> Seq(Char)] :
           f[0] = <<>> /\ \A i \in 1..n : f[i] = step[<<f[i - 1], i>>]
    <3>1. <<>> \in Seq(Char) /\ IsStep(step, Seq(Char), n)
      BY <2>1 DEF IsStep
    <3>. HIDE DEF step
    <3>2. \E f : Recurses(f, Seq(Char), n, <<>>, step)
      BY <1>1, <3>1, RecursionExists
    <3>. QED
      BY <3>2 DEF Recurses
  <2>3. ASSUME NEW i \in 1..n PROVE f[i] = Collapse(f[i - 1], s[i])
    <3>1. i - 1 \in 0..n /\ f[i - 1] \in Seq(Char)
      BY <1>1
    <3>2. <<f[i - 1], i>> \in Seq(Char) \X (1..n)
      BY <3>1
    <3>3. step[<<f[i - 1], i>>] = Collapse(f[i - 1], s[i])
      BY <3>2
    <3>. QED
      BY <2>2, <3>3
  <2>4. \A i \in 0..n : f[i] = IF i = 0 THEN <<>> ELSE Collapse(f[i - 1], s[i])
    <3>1. ASSUME NEW i \in 0..n, i # 0 PROVE i \in 1..n
      BY <1>1, <3>1
    <3>. QED
      BY <2>2, <2>3, <3>1
  <2>5. f = def(f)
    BY <2>2, <2>4
  <2>. HIDE DEF def
  <2>. QED
    BY <2>5
<1>. HIDE DEF built
<1>4. DOMAIN built = 0..n /\ built[0] = <<>>
  BY <1>1, <1>3
<1>5. ASSUME NEW i \in 1..n PROVE built[i] = Collapse(built[i - 1], s[i])
  <2>1. i \in 0..n /\ i # 0
    BY <1>1
  <2>. QED
    BY <1>3, <2>1
<1>6. \A i \in 0..n : built[i] \in Seq(Char)
  <2>. DEFINE T == {i \in 0..n : built[i] \in Seq(Char)}
  <2>1. 0 \in T
    <3>1. <<>> \in Seq(Char) /\ 0 \in 0..n
      BY <1>1
    <3>. QED
      BY <1>4, <3>1
  <2>2. ASSUME NEW i \in 1..n, i - 1 \in T PROVE i \in T
    <3>1. built[i - 1] \in Seq(Char) /\ i \in 0..n
      BY <1>1, <2>2
    <3>2. Collapse(built[i - 1], s[i]) \in Seq(Char)
      BY <3>1 DEF Collapse, Last, Char
    <3>. QED
      BY <1>5, <3>1, <3>2
  <2>3. 0..n \subseteq T
    <3>. HIDE DEF T
    <3>. QED
      BY <1>1, <2>1, <2>2, InductionUpTo
  <2>. QED
    BY <2>3
<1>7. built = [i \in 0..n |-> built[i]]
  BY <1>3
<1>8. built \in [0..n -> Seq(Char)]
  BY <1>6, <1>7
<1>. QED
  BY <1>2, <1>4, <1>5, <1>8 DEF n

(* A UID gives a token of letters, neither empty nor too long.             *)
LEMMA TokenFacts ==
    ASSUME NEW u, IsUID(u)
    PROVE  shortToken(u) \in Seq(Letters) /\ Len(shortToken(u)) \in 1..TokenLimit
<1>0. u \in Seq(Char) /\ TokenLimit \in Nat \ {0}
  BY NamesConstants DEF IsUID
<1>. DEFINE n == Len(u)
<1>1. n \in Nat /\ \A i \in 1..n : u[i] \in Char
  BY <1>0
<1>2. PICK f \in [0..n -> Seq(Char)] :
         /\ f[0] = <<>> /\ \A i \in 1..n : f[i] = Keep(f[i - 1], u[i])
         /\ WithoutDashes(u) = f[n]
  BY <1>0, WithoutDashesBuilds
<1>3. PICK k \in 1..n : u[k] # "-"
  BY <1>0 DEF IsUID
<1>. HIDE DEF n
<1>. DEFINE T == {i \in 0..n : f[i] \in Seq(Letters) /\ (k <= i => f[i] # <<>>)}
<1>4. 0 \in T
  BY <1>1, <1>2
<1>5. ASSUME NEW i \in 1..n, i - 1 \in T PROVE i \in T
  <2>1. f[i - 1] \in Seq(Letters) /\ (k <= i - 1 => f[i - 1] # <<>>)
    BY <1>5
  <2>2. f[i] = Keep(f[i - 1], u[i]) /\ u[i] \in Char /\ i \in 0..n
    BY <1>1, <1>2
  <2>3. CASE u[i] = "-"
    <3>1. k <= i => k <= i - 1
      BY <1>1, <1>3, <2>3
    <3>. QED
      BY <2>1, <2>2, <2>3, <3>1 DEF Keep
  <2>4. CASE u[i] # "-"
    <3>1. u[i] \in Letters
      BY <2>2, <2>4 DEF Char
    <3>2. Append(f[i - 1], u[i]) \in Seq(Letters) /\ Append(f[i - 1], u[i]) # <<>>
      BY <2>1, <3>1
    <3>. QED
      BY <2>2, <2>4, <3>2 DEF Keep
  <2>. QED
    BY <2>3, <2>4
<1>6. n \in T
  <2>. HIDE DEF T
  <2>1. 0..n \subseteq T
    BY <1>1, <1>4, <1>5, InductionUpTo
  <2>. QED
    BY <1>1, <2>1
<1>7. WithoutDashes(u) \in Seq(Letters) /\ WithoutDashes(u) # <<>>
  BY <1>1, <1>2, <1>3, <1>6
<1>. QED
  BY <1>0, <1>7 DEF shortToken, Cut

(* A bounded set of naturals has a greatest member.                        *)
LEMMA GreatestNat ==
    ASSUME NEW n \in Nat, NEW T \in SUBSET (1..n), T # {}
    PROVE  \E x \in T : \A y \in T : y <= x
<1>. DEFINE D == {n - x : x \in T}
<1>1. D \in SUBSET Nat /\ D # {}
  <2>1. \A x \in T : n - x \in Nat
    OBVIOUS
  <2>. QED
    BY <2>1
<1>2. PICK d \in D : \A e \in D : d <= e
  <2>. HIDE DEF D
  <2>. QED
    BY <1>1, LeastNat
<1>3. PICK x \in T : d = n - x
  OBVIOUS
<1>4. \A y \in T : n - y \in D
  OBVIOUS
<1>5. ASSUME NEW y \in T PROVE y <= x
  BY <1>2, <1>3, <1>4
<1>. QED
  BY <1>5

(* TrimRight cuts a string after its last character that is not a dash.    *)
LEMMA TrimRightFacts ==
    ASSUME NEW A, NEW s \in Seq(A)
    PROVE  /\ TrimRight(s) \in Seq(A) /\ Len(TrimRight(s)) <= Len(s)
           /\ \A i \in 1..Len(TrimRight(s)) : TrimRight(s)[i] = s[i]
           /\ TrimRight(s) # <<>> => TrimRight(s)[Len(TrimRight(s))] # "-"
           /\ s # <<>> /\ s[1] # "-" => TrimRight(s) # <<>>
           /\ s # <<>> /\ s[Len(s)] # "-" => TrimRight(s) = s
<1>. DEFINE last == {i \in DOMAIN s : s[i] # "-"}
            m == CHOOSE i \in last : \A j \in last : j <= i
<1>1. DOMAIN s = 1..Len(s) /\ Len(s) \in Nat /\ last \in SUBSET (1..Len(s))
  OBVIOUS
<1>2. CASE last = {}
  <2>1. TrimRight(s) = <<>>
    BY <1>2 DEF TrimRight
  <2>2. s # <<>> => s[1] = "-" /\ s[Len(s)] = "-"
    BY <1>1, <1>2
  <2>. QED
    BY <2>1, <2>2
<1>3. CASE last # {}
  <2>1. TrimRight(s) = SubSeq(s, 1, m)
    BY <1>3 DEF TrimRight
  <2>2. m \in last /\ \A j \in last : j <= m
    BY <1>1, <1>3, GreatestNat
  <2>. HIDE DEF m
  <2>3. m \in 1..Len(s) /\ s[m] # "-"
    BY <1>1, <2>2
  <2>. DEFINE t == SubSeq(s, 1, m)
  <2>4. t \in Seq(A) /\ Len(t) = m /\ \A i \in 1..m : t[i] = s[i]
    BY <2>3
  <2>5. s[Len(s)] # "-" => m = Len(s)
    BY <1>1, <2>2, <2>3
  <2>6. m = Len(s) => t = s
    OBVIOUS
  <2>7. TrimRight(s) = t
    BY <2>1
  <2>. HIDE DEF t
  <2>8. t # <<>> /\ t[Len(t)] # "-" /\ Len(t) <= Len(s)
    BY <1>1, <2>3, <2>4
  <2>. QED
    BY <2>4, <2>5, <2>6, <2>7, <2>8
<1>. QED
  BY <1>2, <1>3

(* A reversed string.                                                      *)
LEMMA ReverseFacts ==
    ASSUME NEW A, NEW s \in Seq(A)
    PROVE  /\ Reverse(s) \in Seq(A) /\ Len(Reverse(s)) = Len(s)
           /\ \A i \in 1..Len(s) : Reverse(s)[i] = s[Len(s) - i + 1]
           /\ Reverse(Reverse(s)) = s
<1>1. Reverse(s) \in Seq(A) /\ Len(Reverse(s)) = Len(s)
  BY DEF Reverse
<1>2. \A i \in 1..Len(s) : Reverse(s)[i] = s[Len(s) - i + 1]
  BY DEF Reverse
<1>3. Reverse(Reverse(s)) \in Seq(A) /\ Len(Reverse(Reverse(s))) = Len(s)
  <2>1. \A q \in Seq(A) : Reverse(q) \in Seq(A) /\ Len(Reverse(q)) = Len(q)
    BY DEF Reverse
  <2>. QED
    BY <1>1, <2>1
<1>4. \A i \in 1..Len(s) : Reverse(Reverse(s))[i] = s[i]
  <2>. TAKE i \in 1..Len(s)
  <2>1. Len(s) - i + 1 \in 1..Len(s) /\ Len(s) - (Len(s) - i + 1) + 1 = i
    OBVIOUS
  <2>2. Reverse(Reverse(s))[i] = Reverse(s)[Len(s) - i + 1]
    BY <1>1 DEF Reverse
  <2>. QED
    BY <1>2, <2>1, <2>2
<1>5. \A q \in Seq(A) : Len(q) = Len(s) /\ (\A i \in 1..Len(s) : q[i] = s[i]) => q = s
  OBVIOUS
<1>. QED
  BY <1>1, <1>2, <1>3, <1>4, <1>5

(* Trim cuts the dashes off both ends.                                     *)
LEMMA TrimFacts ==
    ASSUME NEW A, NEW s \in Seq(A)
    PROVE  /\ Trim(s) \in Seq(A) /\ Len(Trim(s)) <= Len(s)
           /\ Trim(s) # <<>> => Trim(s)[1] # "-" /\ Trim(s)[Len(Trim(s))] # "-"
           /\ s # <<>> /\ s[1] # "-" /\ s[Len(s)] # "-" => Trim(s) = s
<1>. DEFINE r == TrimRight(s)
            q == Reverse(r)
            p == TrimRight(q)
            t == Reverse(p)
<1>1. Trim(s) = t
  BY DEF Trim
<1>2. /\ r \in Seq(A) /\ Len(r) <= Len(s) /\ (r # <<>> => r[Len(r)] # "-")
      /\ s # <<>> /\ s[Len(s)] # "-" => r = s
  BY TrimRightFacts
<1>. HIDE DEF r
<1>3. /\ q \in Seq(A) /\ Len(q) = Len(r) /\ Reverse(q) = r
      /\ \A i \in 1..Len(r) : q[i] = r[Len(r) - i + 1]
  BY <1>2, ReverseFacts
<1>. HIDE DEF q
<1>4. /\ p \in Seq(A) /\ Len(p) <= Len(q) /\ (p # <<>> => p[Len(p)] # "-")
      /\ \A i \in 1..Len(p) : p[i] = q[i]
      /\ q # <<>> /\ q[Len(q)] # "-" => p = q
  BY <1>3, TrimRightFacts
<1>. HIDE DEF p
<1>5. /\ t \in Seq(A) /\ Len(t) = Len(p)
      /\ \A i \in 1..Len(p) : t[i] = p[Len(p) - i + 1]
  BY <1>4, ReverseFacts
<1>. HIDE DEF t
<1>6. ASSUME t # <<>> PROVE t[1] # "-" /\ t[Len(t)] # "-"
  <2>1. Len(p) \in Nat /\ Len(p) # 0 /\ Len(r) \in Nat /\ Len(p) <= Len(r)
    BY <1>2, <1>3, <1>4, <1>5, <1>6
  <2>2. t[1] = p[Len(p)] /\ t[Len(t)] = p[1]
    <3>1. 1 \in 1..Len(p) /\ Len(p) \in 1..Len(p) /\ Len(p) - 1 + 1 = Len(p)
          /\ Len(p) - Len(p) + 1 = 1
      BY <2>1
    <3>. QED
      BY <1>5, <3>1
  <2>3. p[1] = q[1] /\ q[1] = r[Len(r)]
    BY <1>3, <1>4, <2>1
  <2>. QED
    BY <1>2, <1>4, <2>1, <2>2, <2>3
<1>7. ASSUME s # <<>>, s[1] # "-", s[Len(s)] # "-" PROVE t = s
  <2>1. r = s /\ Len(s) \in Nat \ {0}
    BY <1>2, <1>7
  <2>2. q # <<>> /\ q[Len(q)] = s[1]
    BY <1>3, <2>1
  <2>3. p = q
    BY <1>4, <1>7, <2>2
  <2>. QED
    BY <1>3, <2>1, <2>3 DEF t
<1>8. Len(t) <= Len(s)
  BY <1>2, <1>3, <1>4, <1>5
<1>. QED
  BY <1>1, <1>5, <1>6, <1>7, <1>8

(* Lower case leaves letters and dashes alone.                             *)
LEMMA LowerFacts ==
    /\ \A s \in Seq(STRING) : ToLower(s) \in Seq(STRING)
    /\ \A s \in Seq(Char) : ToLower(s) = s
<1>1. \A c \in STRING : lower(c) \in STRING
  BY NamesConstants DEF lower, Char
<1>2. \A c \in Char : lower(c) = c
  BY NamesConstants DEF lower, Char
<1>. QED
  BY <1>1, <1>2 DEF ToLower

(* The name before the token is a label, whatever the base.                *)
LEMMA BaseLabel ==
    ASSUME NEW base \in Seq(STRING)
    PROVE  \E name : IsLabel(name) /\
             \A token : managedName(base, token) = WithSuffix(name, <<"-">> \o token)
<1>. DEFINE low == ToLower(base)
            raw == [i \in DOMAIN low |-> IF low[i] \in Letters THEN low[i] ELSE "-"]
            name == IF Trim(raw) = <<>> \/ Len(Trim(raw)) > Limit THEN Fallback ELSE Trim(raw)
<1>1. \A token : managedName(base, token) = WithSuffix(name, <<"-">> \o token)
  BY DEF managedName
<1>2. low \in Seq(STRING)
  BY LowerFacts
<1>3. raw \in Seq(Char)
  <2>. HIDE DEF low
  <2>. QED
    BY <1>2 DEF Char
<1>. HIDE DEF raw
<1>4. /\ Trim(raw) \in Seq(Char)
      /\ Trim(raw) # <<>> => Trim(raw)[1] # "-" /\ Trim(raw)[Len(Trim(raw))] # "-"
  BY <1>3, TrimFacts
<1>5. IsLabel(name)
  BY <1>4, NamesConstants DEF IsLabel
<1>. QED
  BY <1>1, <1>5

(* A label cut short, without the dashes at its new end.                   *)
LEMMA CutLabel ==
    ASSUME NEW name \in Seq(Char), name # <<>>, name[1] # "-", NEW n \in 1..Len(name)
    PROVE  /\ TrimRight(Cut(name, n)) \in Seq(Char)
           /\ Len(TrimRight(Cut(name, n))) \in 1..n
           /\ TrimRight(Cut(name, n))[1] # "-"
           /\ TrimRight(Cut(name, n))[Len(TrimRight(Cut(name, n)))] # "-"
<1>. DEFINE c == Cut(name, n)
            t == TrimRight(c)
<1>1. c \in Seq(Char) /\ Len(c) = n /\ c # <<>> /\ c[1] # "-"
  BY DEF Cut
<1>. HIDE DEF c
<1>2. /\ t \in Seq(Char) /\ Len(t) <= n /\ t # <<>> /\ t[Len(t)] # "-"
      /\ \A i \in 1..Len(t) : t[i] = c[i]
  BY <1>1, TrimRightFacts
<1>. HIDE DEF t
<1>3. Len(t) \in 1..n /\ t[1] # "-"
  BY <1>1, <1>2
<1>. QED
  BY <1>2, <1>3 DEF t, c

(* A managed name: a stem that does not begin with a dash, and the token.  *)
LEMMA ManagedNameForm ==
    ASSUME NEW base \in Seq(STRING), NEW token \in Seq(Letters), Len(token) \in 1..TokenLimit
    PROVE  \E stem \in Seq(Char) :
              /\ stem # <<>> /\ stem[1] # "-"
              /\ Len(stem) + 1 + Len(token) <= Limit
              /\ managedName(base, token) = stem \o (<<"-">> \o token)
<1>. DEFINE suffix == <<"-">> \o token
<1>1. PICK name : IsLabel(name) /\ managedName(base, token) = WithSuffix(name, suffix)
  BY BaseLabel
<1>2. name \in Seq(Char) /\ Len(name) \in 1..Limit /\ name # <<>> /\ name[1] # "-"
  BY <1>1 DEF IsLabel
<1>3. Len(suffix) = 1 + Len(token) /\ Limit \in Nat /\ TokenLimit \in Nat
      /\ Limit - Len(suffix) >= 1
  BY NamesConstants DEF IsLabel
<1>. HIDE DEF suffix
<1>4. CASE Len(name) + Len(suffix) > Limit
  <2>1. Limit - Len(suffix) \in 1..Len(name)
    BY <1>2, <1>3, <1>4
  <2>. DEFINE stem == TrimRight(Cut(name, Limit - Len(suffix)))
  <2>2. /\ stem \in Seq(Char) /\ Len(stem) \in 1..(Limit - Len(suffix)) /\ stem[1] # "-"
    BY <1>2, <2>1, CutLabel
  <2>3. WithSuffix(name, suffix) = stem \o suffix
    BY <1>4 DEF WithSuffix
  <2>. HIDE DEF stem
  <2>4. stem # <<>> /\ Len(stem) + 1 + Len(token) <= Limit
    BY <1>3, <2>2
  <2>. QED
    BY <1>1, <2>2, <2>3, <2>4 DEF suffix
<1>5. CASE ~(Len(name) + Len(suffix) > Limit)
  <2>1. WithSuffix(name, suffix) = name \o suffix
    BY <1>5 DEF WithSuffix
  <2>2. Len(name) + 1 + Len(token) <= Limit
    BY <1>2, <1>3, <1>5
  <2>. QED
    BY <1>1, <1>2, <2>1, <2>2 DEF suffix
<1>. QED
  BY <1>4, <1>5

(* Two strings joined.                                                     *)
Joins(w, s, t) ==
    /\ Len(w) = Len(s) + Len(t)
    /\ \A i \in 1..Len(s) : w[i] = s[i]
    /\ \A i \in 1..Len(t) : w[Len(s) + i] = t[i]
LEMMA JoinFacts ==
    ASSUME NEW A, NEW s \in Seq(A), NEW t \in Seq(A)
    PROVE  s \o t \in Seq(A) /\ Joins(s \o t, s, t)
<1>1. s \o t \in Seq(A) /\ Len(s \o t) = Len(s) + Len(t)
  OBVIOUS
<1>2. \A i \in 1..Len(s) : (s \o t)[i] = s[i]
  OBVIOUS
<1>3. ASSUME NEW i \in 1..Len(t) PROVE (s \o t)[Len(s) + i] = t[i]
  <2>1. Len(s) \in Nat /\ Len(t) \in Nat /\ (Len(s) + i) - Len(s) = i
    OBVIOUS
  <2>. QED
    BY <2>1
<1>. QED
  BY <1>1, <1>2, <1>3 DEF Joins

(* Two strings of equal length and with equal characters are equal.        *)
LEMMA SameString ==
    ASSUME NEW A, NEW s \in Seq(A), NEW t \in Seq(A), Len(s) = Len(t),
           \A i \in 1..Len(s) : s[i] = t[i]
    PROVE  s = t
OBVIOUS

(* The second of two joined strings is a suffix.                           *)
LEMMA JoinSuffix ==
    ASSUME NEW A, NEW s \in Seq(A), NEW t \in Seq(A)
    PROVE  IsSuffix(t, s \o t)
<1>. DEFINE w == s \o t
            a == Reverse(t)
            b == Reverse(w)
<1>1. w \in Seq(A) /\ Joins(w, s, t) /\ Len(s) \in Nat /\ Len(t) \in Nat
  BY JoinFacts
<1>. HIDE DEF w
<1>2. Len(w) = Len(s) + Len(t) /\ \A i \in 1..Len(t) : w[Len(s) + i] = t[i]
  BY <1>1 DEF Joins
<1>3. /\ a \in Seq(A) /\ Len(a) = Len(t) /\ \A i \in 1..Len(t) : a[i] = t[Len(t) - i + 1]
      /\ b \in Seq(A) /\ Len(b) = Len(w) /\ \A i \in 1..Len(w) : b[i] = w[Len(w) - i + 1]
  BY <1>1, ReverseFacts
<1>. HIDE DEF a, b
<1>4. ASSUME NEW i \in 1..Len(t) PROVE a[i] = b[i]
  <2>1. /\ Len(t) - i + 1 \in 1..Len(t) /\ i \in 1..Len(w)
        /\ Len(w) - i + 1 = Len(s) + (Len(t) - i + 1)
    BY <1>1, <1>2
  <2>. QED
    BY <1>2, <1>3, <2>1
<1>. DEFINE x == SubSeq(a, 1, Len(t))
            y == SubSeq(b, 1, Len(t))
<1>5. /\ x \in Seq(A) /\ Len(x) = Len(t) /\ \A i \in 1..Len(t) : x[i] = a[i]
      /\ y \in Seq(A) /\ Len(y) = Len(t) /\ \A i \in 1..Len(t) : y[i] = b[i]
  BY <1>1, <1>2, <1>3
<1>. HIDE DEF x, y
<1>6. x = y
  BY <1>4, <1>5, SameString
<1>. QED
  BY <1>1, <1>2, <1>3, <1>6 DEF IsSuffix, IsPrefix, a, b, w, x, y

(* Every base and every UID give a name that carries the token.            *)
LEMMA CarriesToken ==
    ASSUME NEW base \in Seq(STRING), NEW u, IsUID(u)
    PROVE  ManagedNameCarriesToken(base, u)
<1>. DEFINE token == shortToken(u)
            suffix == <<"-">> \o token
<1>1. token \in Seq(Letters) /\ Len(token) \in 1..TokenLimit
  BY TokenFacts
<1>. HIDE DEF token
<1>2. PICK stem \in Seq(Char) :
         /\ stem # <<>> /\ stem[1] # "-" /\ Len(stem) + 1 + Len(token) <= Limit
         /\ managedName(base, token) = stem \o suffix
  BY <1>1, ManagedNameForm
<1>3. token \in Seq(Char) /\ "-" \in Char /\ Limit \in Nat /\ TokenLimit \in Nat
      /\ "-" \notin Letters
  BY <1>1, NamesConstants DEF Char
<1>4. suffix \in Seq(Char) /\ Len(suffix) = 1 + Len(token)
      /\ suffix[Len(suffix)] = token[Len(token)]
  BY <1>1, <1>3
<1>5. token[Len(token)] # "-"
  BY <1>1, <1>3
<1>. HIDE DEF suffix
<1>6. IsSuffix(suffix, stem \o suffix)
  BY <1>2, <1>4, JoinSuffix
<1>. DEFINE w == stem \o suffix
<1>7. w \in Seq(Char) /\ Joins(w, stem, suffix)
  BY <1>2, <1>4, JoinFacts
<1>. HIDE DEF w
<1>8. IsLabel(w)
  <2>1. /\ 1 \in 1..Len(stem) /\ Len(suffix) \in 1..Len(suffix)
        /\ Len(stem) + Len(suffix) \in 1..Limit
    BY <1>1, <1>2, <1>3, <1>4
  <2>. QED
    BY <1>2, <1>4, <1>5, <1>7, <2>1 DEF IsLabel, Joins
<1>. QED
  BY <1>2, <1>6, <1>8 DEF ManagedNameCarriesToken, w, token, suffix

(* The text of w after its first n characters is a dash and t.             *)
DashAt(w, n, t) ==
    /\ Len(w) = n + 1 + Len(t) /\ w[n + 1] = "-"
    /\ \A i \in 1..Len(t) : w[n + 1 + i] = t[i]

(* The token can be read off a managed name: objects whose tokens differ   *)
(* never share the name of a resource, whatever their bases (managedName,  *)
(* shortToken).                                                            *)
THEOREM TokensSeparate ==
    ASSUME NEW b1 \in Seq(STRING), NEW b2 \in Seq(STRING), NEW u1, NEW u2,
           IsUID(u1), IsUID(u2),
           managedName(b1, shortToken(u1)) = managedName(b2, shortToken(u2))
    PROVE  shortToken(u1) = shortToken(u2)
<1>. DEFINE t1 == shortToken(u1)
            t2 == shortToken(u2)
<1>1. /\ t1 \in Seq(Letters) /\ Len(t1) \in 1..TokenLimit
      /\ t2 \in Seq(Letters) /\ Len(t2) \in 1..TokenLimit
  BY TokenFacts
<1>. HIDE DEF t1, t2
<1>2. PICK s1 \in Seq(Char) : managedName(b1, t1) = s1 \o (<<"-">> \o t1)
  BY <1>1, ManagedNameForm
<1>3. PICK s2 \in Seq(Char) : managedName(b2, t2) = s2 \o (<<"-">> \o t2)
  BY <1>1, ManagedNameForm
<1>4. s1 \o (<<"-">> \o t1) = s2 \o (<<"-">> \o t2)
  BY <1>2, <1>3 DEF t1, t2
<1>5. "-" \notin Letters /\ TokenLimit \in Nat
  BY NamesConstants
<1>6. ASSUME NEW x \in Seq(Char), NEW t \in Seq(Letters)
      PROVE  DashAt(x \o (<<"-">> \o t), Len(x), t)
  <2>. DEFINE y == <<"-">> \o t
              z == x \o y
  <2>1. <<"-">> \in Seq(Char) /\ t \in Seq(Char) /\ Len(<<"-">>) = 1 /\ <<"-">>[1] = "-"
    BY DEF Char
  <2>2. y \in Seq(Char) /\ Joins(y, <<"-">>, t)
    BY <2>1, JoinFacts
  <2>. HIDE DEF y
  <2>3. Joins(z, x, y)
    BY <2>2, JoinFacts
  <2>. HIDE DEF z
  <2>4. Len(x) \in Nat /\ Len(t) \in Nat
    OBVIOUS
  <2>5. Len(y) = 1 + Len(t) /\ y[1] = "-" /\ \A i \in 1..Len(t) : y[1 + i] = t[i]
    BY <2>1, <2>2, <2>4 DEF Joins
  <2>6. z[Len(x) + 1] = "-" /\ Len(z) = Len(x) + 1 + Len(t)
    BY <2>3, <2>4, <2>5 DEF Joins
  <2>7. ASSUME NEW i \in 1..Len(t) PROVE z[Len(x) + 1 + i] = t[i]
    <3>1. 1 + i \in 1..Len(y) /\ Len(x) + (1 + i) = Len(x) + 1 + i
      BY <2>4, <2>5
    <3>. QED
      BY <2>3, <2>5, <3>1 DEF Joins
  <2>. QED
    BY <2>6, <2>7 DEF DashAt, y, z
<1>. DEFINE w == s1 \o (<<"-">> \o t1)
<1>7. /\ DashAt(w, Len(s1), t1) /\ DashAt(w, Len(s2), t2)
      /\ Len(s1) \in Nat /\ Len(t1) \in Nat /\ Len(s2) \in Nat /\ Len(t2) \in Nat
  <2>1. DashAt(w, Len(s1), t1) /\ DashAt(w, Len(s2), t2)
    BY <1>1, <1>4, <1>6
  <2>. QED
    BY <1>1, <2>1
<1>. HIDE DEF w
<1>. USE DEF DashAt
<1>8. Len(s1) = Len(s2) /\ Len(t1) = Len(t2) /\ \A i \in 1..Len(t1) : t1[i] = t2[i]
  <2>1. CASE Len(s1) < Len(s2)
    <3>1. Len(s2) - Len(s1) \in 1..Len(t1) /\ Len(s1) + 1 + (Len(s2) - Len(s1)) = Len(s2) + 1
      BY <1>7, <2>1
    <3>2. t1[Len(s2) - Len(s1)] = "-"
      BY <1>7, <3>1
    <3>. QED
      BY <1>1, <1>5, <3>1, <3>2
  <2>2. CASE Len(s2) < Len(s1)
    <3>1. Len(s1) - Len(s2) \in 1..Len(t2) /\ Len(s2) + 1 + (Len(s1) - Len(s2)) = Len(s1) + 1
      BY <1>7, <2>2
    <3>2. t2[Len(s1) - Len(s2)] = "-"
      BY <1>7, <3>1
    <3>. QED
      BY <1>1, <1>5, <3>1, <3>2
  <2>3. CASE Len(s1) = Len(s2)
    BY <1>7, <2>3
  <2>. QED
    BY <1>7, <2>1, <2>2, <2>3
<1>9. t1 = t2
  BY <1>1, <1>8, SameString
<1>. QED
  BY <1>9 DEF t1, t2

(* A string of label characters is a string.                               *)
LEMMA CharString ==
    ASSUME NEW s \in Seq(Char)
    PROVE  s \in Seq(STRING)
<1>1. \A c \in Char : c \in STRING
  BY NamesConstants
<1>2. Len(s) \in Nat /\ s \in [1..Len(s) -> Char]
  OBVIOUS
<1>3. s \in [1..Len(s) -> STRING]
  BY <1>1, <1>2
<1>. QED
  BY <1>2, <1>3

(* A name without a run of dashes, and that does not begin with one, is    *)
(* left as it is.                                                          *)
LEMMA CollapsedKeeps ==
    ASSUME NEW s \in Seq(Char), s # <<>>, s[1] # "-", NoRunOfDashes(s)
    PROVE  Collapsed(s) = s
<1>. DEFINE n == Len(s)
<1>1. n \in Nat /\ n # 0 /\ \A i \in 1..n : s[i] \in Char
  OBVIOUS
<1>2. s \in Seq(STRING)
  BY CharString
<1>3. PICK f \in [0..n -> Seq(Char)] :
         /\ f[0] = <<>> /\ \A i \in 1..n : f[i] = Collapse(f[i - 1], s[i])
         /\ Collapsed(s) = f[n]
  BY <1>2, CollapsedBuilds
<1>. DEFINE T == {i \in 0..n : f[i] = SubSeq(s, 1, i)}
<1>4. 0 \in T
  <2>1. SubSeq(s, 1, 0) = <<>> /\ 0 \in 0..n
    BY <1>1
  <2>. QED
    BY <1>3, <2>1
<1>5. ASSUME NEW i \in 1..n, i - 1 \in T PROVE i \in T
  <2>. DEFINE acc == SubSeq(s, 1, i - 1)
  <2>1. f[i] = Collapse(acc, s[i]) /\ s[i] \in Char /\ i \in 0..n
    <3>1. f[i - 1] = acc
      BY <1>5
    <3>2. f[i] = Collapse(f[i - 1], s[i])
      BY <1>3
    <3>. HIDE DEF acc
    <3>3. f[i] = Collapse(acc, s[i])
      BY <3>1, <3>2
    <3>. QED
      BY <1>1, <3>3
  <2>2. Append(acc, s[i]) = SubSeq(s, 1, i)
    <3>. DEFINE x == Append(acc, s[i])
                y == SubSeq(s, 1, i)
    <3>1. i \in Nat /\ i <= n /\ i - 1 \in Nat
      BY <1>1
    <3>2. acc \in Seq(Char) /\ Len(acc) = i - 1 /\ \A j \in 1..(i - 1) : acc[j] = s[j]
      BY <1>1, <3>1
    <3>3. y \in Seq(Char) /\ Len(y) = i /\ \A j \in 1..i : y[j] = s[j]
      BY <1>1, <3>1
    <3>. HIDE DEF acc
    <3>4. x \in Seq(Char) /\ Len(x) = i /\ x[i] = s[i] /\ \A j \in 1..(i - 1) : x[j] = acc[j]
      BY <2>1, <3>1, <3>2
    <3>. HIDE DEF x, y
    <3>5. \A j \in 1..Len(x) : x[j] = y[j]
      BY <3>1, <3>2, <3>3, <3>4
    <3>6. x = y
      BY <3>3, <3>4, <3>5, SameString
    <3>. QED
      BY <3>6 DEF x, y
  <2>3. CASE s[i] \in Letters
    BY <2>1, <2>2, <2>3 DEF Collapse
  <2>4. CASE s[i] \notin Letters
    <3>1. s[i] = "-" /\ i # 1
      BY <2>1, <2>4 DEF Char
    <3>2. i - 1 \in 1..(n - 1) /\ (i - 1) + 1 = i
      BY <1>1, <3>1
    <3>3. s[i - 1] # "-"
      BY <3>1, <3>2 DEF NoRunOfDashes
    <3>4. acc # <<>> /\ Last(acc) = s[i - 1]
      <4>1. Len(acc) = i - 1 /\ acc[i - 1] = s[i - 1]
        BY <1>1, <3>2
      <4>. HIDE DEF acc
      <4>. QED
        BY <3>2, <4>1 DEF Last
    <3>. HIDE DEF acc
    <3>5. Collapse(acc, s[i]) = Append(acc, s[i])
      BY <2>4, <3>1, <3>3, <3>4 DEF Collapse
    <3>. QED
      BY <2>1, <2>2, <3>5
  <2>. QED
    BY <2>3, <2>4
<1>6. n \in T
  <2>. HIDE DEF T, n
  <2>1. 0..n \subseteq T
    BY <1>1, <1>4, <1>5, InductionUpTo
  <2>. QED
    BY <1>1, <2>1
<1>. QED
  BY <1>3, <1>6

(* The name of a network object is a label, whatever the cluster's name.   *)
LEMMA ObjectLabel ==
    ASSUME NEW c \in Seq(STRING)
    PROVE  IsLabel(networkObjectName(c))
<1>. DEFINE runes == Collapsed(ToLower(c \o Suffix))
            name == IF Trim(runes) = <<>> THEN Fallback ELSE Trim(runes)
<1>1. networkObjectName(c) = IF Len(name) > Limit THEN TrimRight(Cut(name, Limit)) ELSE name
  BY DEF networkObjectName
<1>2. ToLower(c \o Suffix) \in Seq(STRING)
  <2>1. Suffix \in Seq(STRING)
    BY NamesConstants, CharString
  <2>2. c \o Suffix \in Seq(STRING)
    BY <2>1
  <2>. QED
    BY <2>2, LowerFacts
<1>3. runes \in Seq(Char)
  <2>. DEFINE low == ToLower(c \o Suffix)
  <2>1. low \in Seq(STRING)
    BY <1>2
  <2>. HIDE DEF low
  <2>2. PICK f \in [0..Len(low) -> Seq(Char)] : Collapsed(low) = f[Len(low)]
    BY <2>1, CollapsedBuilds
  <2>3. Len(low) \in 0..Len(low)
    BY <2>1
  <2>4. Collapsed(low) \in Seq(Char)
    BY <2>2, <2>3
  <2>. QED
    BY <2>4 DEF low
<1>. HIDE DEF runes
<1>4. /\ Trim(runes) \in Seq(Char)
      /\ Trim(runes) # <<>> => Trim(runes)[1] # "-" /\ Trim(runes)[Len(Trim(runes))] # "-"
  BY <1>3, TrimFacts
<1>5. name \in Seq(Char) /\ name # <<>> /\ name[1] # "-" /\ name[Len(name)] # "-"
      /\ Limit \in Nat \ {0}
  BY <1>4, NamesConstants DEF IsLabel
<1>. HIDE DEF name
<1>6. CASE Len(name) > Limit
  <2>1. Limit \in 1..Len(name)
    BY <1>5, <1>6
  <2>. QED
    BY <1>1, <1>5, <1>6, <2>1, CutLabel DEF IsLabel
<1>7. CASE ~(Len(name) > Limit)
  BY <1>1, <1>5, <1>7 DEF IsLabel
<1>. QED
  BY <1>6, <1>7

(* A name the code preserves.                                              *)
LEMMA ObjectNamePreserved ==
    ASSUME NEW c, Preserved(c)
    PROVE  networkObjectName(c) = c \o Suffix
<1>. DEFINE w == c \o Suffix
<1>1. /\ c \in Seq(Char) /\ Len(c) \in Nat \ {0} /\ c[1] # "-" /\ c[Len(c)] # "-"
      /\ NoRunOfDashes(c) /\ Len(c) + Len(Suffix) <= Limit
  BY DEF Preserved, IsLabel
<1>2. /\ Suffix \in Seq(Char) /\ Len(Suffix) \in Nat /\ Len(Suffix) > 1 /\ Limit \in Nat
      /\ Suffix[Len(Suffix)] # "-" /\ NoRunOfDashes(Suffix)
  BY NamesConstants
<1>3. w \in Seq(Char) /\ Joins(w, c, Suffix)
  BY <1>1, <1>2, JoinFacts
<1>4. networkObjectName(c) =
        LET runes == Collapsed(ToLower(w))
            name == IF Trim(runes) = <<>> THEN Fallback ELSE Trim(runes)
        IN  IF Len(name) > Limit THEN TrimRight(Cut(name, Limit)) ELSE name
  BY DEF networkObjectName
<1>. HIDE DEF w
<1>5. Len(w) = Len(c) + Len(Suffix) /\ Len(w) \in Nat
  BY <1>1, <1>2, <1>3 DEF Joins
<1>6. w # <<>> /\ w[1] # "-" /\ w[Len(w)] # "-"
  <2>1. 1 \in 1..Len(c) /\ Len(Suffix) \in 1..Len(Suffix)
    BY <1>1, <1>2
  <2>2. w[1] = c[1] /\ w[Len(w)] = Suffix[Len(Suffix)]
    BY <1>3, <1>5, <2>1 DEF Joins
  <2>. QED
    BY <1>1, <1>2, <1>3, <1>5, <2>2
<1>7. NoRunOfDashes(w)
  <2>. SUFFICES ASSUME NEW i \in 1..(Len(w) - 1) PROVE w[i] # "-" \/ w[i + 1] # "-"
    BY DEF NoRunOfDashes
  <2>1. CASE i < Len(c)
    <3>1. i \in 1..(Len(c) - 1) /\ i \in 1..Len(c) /\ i + 1 \in 1..Len(c)
      BY <1>1, <1>5, <2>1
    <3>2. c[i] # "-" \/ c[i + 1] # "-"
      BY <1>1, <3>1 DEF NoRunOfDashes
    <3>. QED
      BY <1>3, <3>1, <3>2 DEF Joins
  <2>2. CASE i = Len(c)
    BY <1>1, <1>3, <2>2 DEF Joins
  <2>3. CASE i > Len(c)
    <3>. DEFINE j == i - Len(c)
    <3>1. j \in 1..(Len(Suffix) - 1) /\ j \in 1..Len(Suffix) /\ j + 1 \in 1..Len(Suffix)
          /\ Len(c) + j = i /\ Len(c) + (j + 1) = i + 1
      BY <1>1, <1>2, <1>5, <2>3
    <3>2. Suffix[j] # "-" \/ Suffix[j + 1] # "-"
      BY <1>2, <3>1 DEF NoRunOfDashes
    <3>3. w[Len(c) + j] = Suffix[j] /\ w[Len(c) + (j + 1)] = Suffix[j + 1]
      BY <1>3, <3>1 DEF Joins
    <3>. QED
      BY <3>1, <3>2, <3>3
  <2>. QED
    BY <1>1, <2>1, <2>2, <2>3
<1>8. Collapsed(ToLower(w)) = w
  BY <1>3, <1>6, <1>7, LowerFacts, CollapsedKeeps
<1>9. Trim(w) = w
  BY <1>3, <1>6, TrimFacts
<1>10. ~(Len(w) > Limit)
  BY <1>1, <1>2, <1>5
<1>. QED
  BY <1>4, <1>6, <1>8, <1>9, <1>10 DEF w

(* Network objects share a name only where the code loses information.     *)
LEMMA ObjectNames ==
    ASSUME NEW c1 \in Seq(STRING), NEW c2 \in Seq(STRING)
    PROVE  ObjectNamesDistinct(c1, c2)
<1>1. IsLabel(networkObjectName(c1))
  BY ObjectLabel
<1>2. ASSUME Preserved(c1), Preserved(c2), networkObjectName(c1) = networkObjectName(c2)
      PROVE  c1 = c2
  <2>1. c1 \o Suffix = c2 \o Suffix
    BY <1>2, ObjectNamePreserved
  <2>. DEFINE w == c1 \o Suffix
  <2>2. c1 \in Seq(Char) /\ c2 \in Seq(Char) /\ Suffix \in Seq(Char)
    BY <1>2, NamesConstants DEF Preserved, IsLabel
  <2>3. Joins(c1 \o Suffix, c1, Suffix) /\ Joins(c2 \o Suffix, c2, Suffix)
    BY <2>2, JoinFacts
  <2>4. Joins(w, c1, Suffix) /\ Joins(w, c2, Suffix)
    BY <2>1, <2>3
  <2>. HIDE DEF w
  <2>5. Len(c1) = Len(c2)
    BY <2>2, <2>4 DEF Joins
  <2>6. \A i \in 1..Len(c1) : c1[i] = c2[i]
    BY <2>4, <2>5 DEF Joins
  <2>. QED
    BY <2>2, <2>5, <2>6, SameString
<1>. QED
  BY <1>1, <1>2 DEF ObjectNamesDistinct

-----------------------------------------------------------------------------
(* The credentials                                                         *)

(* The least member of a set of naturals.                                  *)
LEMMA MinFacts ==
    ASSUME NEW I \in SUBSET Nat, I # {}
    PROVE  Min(I) \in I /\ \A y \in I : Min(I) <= y
<1>1. \E x \in I : \A y \in I : x <= y
  BY LeastNat
<1>. QED
  BY <1>1 DEF Min

(* The index of the first value that is not e, of two and of three.  (The   *)
(* SMT translation has no empty string, so e is general here, and the      *)
(* steps below that mention the empty string are left to Zenon.)           *)
FirstBut(v, e) == LET I == {i \in 1..Len(v) : v[i] # e} IN IF I # {} THEN Min(I) ELSE 0
LEMMA FirstButAt ==
    ASSUME NEW v, NEW e, Len(v) \in Nat, NEW k \in 1..Len(v), v[k] # e,
           \A j \in 1..(k - 1) : v[j] = e
    PROVE  FirstBut(v, e) = k
<1>. DEFINE I == {i \in 1..Len(v) : v[i] # e}
<1>1. I \in SUBSET Nat /\ k \in I /\ \A i \in I : i >= k
  OBVIOUS
<1>. HIDE DEF I
<1>2. I # {}
  BY <1>1
<1>3. Min(I) \in I /\ \A y \in I : Min(I) <= y
  BY <1>1, <1>2, MinFacts
<1>4. Min(I) \in Nat /\ k \in Nat /\ Min(I) >= k /\ Min(I) <= k
  BY <1>1, <1>3
<1>5. Min(I) = k
  BY <1>4
<1>. QED
  BY <1>2, <1>5 DEF FirstBut, I
LEMMA FirstButTwo ==
    ASSUME NEW a, NEW b, NEW e
    PROVE  FirstBut(<<a, b>>, e) = IF a # e THEN 1 ELSE IF b # e THEN 2 ELSE 0
<1>. DEFINE v == <<a, b>>
<1>1. Len(v) = 2 /\ v[1] = a /\ v[2] = b
  OBVIOUS
<1>. HIDE DEF v
<1>0. Len(v) \in Nat /\ 1 \in 1..Len(v) /\ 2 \in 1..Len(v) /\ 1..(1 - 1) = {}
  BY <1>1
<1>2. CASE a # e
  <2>1. FirstBut(v, e) = 1
    BY <1>0, <1>1, <1>2, FirstButAt
  <2>. QED
    BY <1>2, <2>1 DEF v
<1>3. CASE a = e /\ b # e
  <2>1. \A j \in 1..(2 - 1) : v[j] = e
    BY <1>1, <1>3
  <2>2. FirstBut(v, e) = 2
    BY <1>0, <1>1, <1>3, <2>1, FirstButAt
  <2>. QED
    BY <1>3, <2>2 DEF v
<1>4. CASE a = e /\ b = e
  <2>1. {i \in 1..Len(v) : v[i] # e} = {}
    BY <1>1, <1>4
  <2>. QED
    BY <1>4, <2>1 DEF FirstBut, v
<1>. QED
  BY <1>2, <1>3, <1>4
LEMMA FirstButThree ==
    ASSUME NEW a, NEW b, NEW c, NEW e, a # e
    PROVE  FirstBut(<<a, b, c>>, e) = 1
<1>. DEFINE v == <<a, b, c>>
<1>1. Len(v) = 3 /\ v[1] = a
  OBVIOUS
<1>. HIDE DEF v
<1>2. Len(v) \in Nat /\ 1 \in 1..Len(v) /\ 1..(1 - 1) = {}
  BY <1>1
<1>3. FirstBut(v, e) = 1
  BY <1>1, <1>2, FirstButAt
<1>. QED
  BY <1>3 DEF v

(* A value of the spec goes before the one of the Secret, and this before  *)
(* the default.                                                            *)
LEMMA FirstOfTwo ==
    ASSUME NEW a, NEW b
    PROVE  firstNonEmpty(<<a, b>>) = IF a # "" THEN a ELSE b
<1>1. firstNonEmpty(<<a, b>>) = LET i == FirstBut(<<a, b>>, "")
                                IN  IF i = 0 THEN "" ELSE <<a, b>>[i]
  BY Zenon DEF firstNonEmpty, SelectInSeq, FirstBut
<1>2. FirstBut(<<a, b>>, "") = IF a # "" THEN 1 ELSE IF b # "" THEN 2 ELSE 0
  <2>1. \A e : FirstBut(<<a, b>>, e) = IF a # e THEN 1 ELSE IF b # e THEN 2 ELSE 0
    BY FirstButTwo
  <2>. QED
    BY <2>1, Zenon
<1>3. <<a, b>>[1] = a /\ <<a, b>>[2] = b /\ 1 # 0 /\ 2 # 0
  BY SMT
<1>. QED
  BY <1>1, <1>2, <1>3, Zenon
LEMMA FirstOfThree ==
    ASSUME NEW a, NEW b, NEW c
    PROVE  a # "" => firstNonEmpty(<<a, b, c>>) = a
<1>1. firstNonEmpty(<<a, b, c>>) = LET i == FirstBut(<<a, b, c>>, "")
                                   IN  IF i = 0 THEN "" ELSE <<a, b, c>>[i]
  BY Zenon DEF firstNonEmpty, SelectInSeq, FirstBut
<1>2. a # "" => FirstBut(<<a, b, c>>, "") = 1
  BY FirstButThree, Zenon
<1>3. <<a, b, c>>[1] = a /\ 1 # 0
  BY SMT
<1>. QED
  BY <1>1, <1>2, <1>3, Zenon

(* Two strings.                                                            *)
LEMMA PairDiffers ==
    ASSUME NEW p, NEW q, NEW e, p # e \/ q # e
    PROVE  <<p, q>> # <<e, e>>
BY SMT

(* Credentials that are accepted open a client.                            *)
LEMMA CredentialsUsable ==
    ASSUME NEW s, NEW f
    PROVE  AcceptedIsUsable(s, f, CredentialsFromSecret(s, f))
<1>. DEFINE c == CredentialsFromSecret(s, f)
            method == AuthMethod(s)
            username == TrimSpace(s.username)
            accessKey == TrimSpace(s.accessKey)
            project == firstNonEmpty(<<f.project, s.projectName>>)
            region == Region(s, f)
            type == firstNonEmpty(<<f.endpointType, s.endpointType, "public">>)
            Lacks == \/ s.authUrl = "" \/ region = ""
                     \/ ~MethodComplete(method, s)
                     \/ method = "password" /\ s.domainName = "" /\ s.domainId = ""
                     \/ project = "" /\ s.projectId = ""
            full == [accepted |-> TRUE, method |-> method, authUrl |-> s.authUrl,
                     username |-> username, password |-> s.password,
                     accessKey |-> accessKey, secretKey |-> s.secretKey,
                     domainName |-> s.domainName, domainId |-> s.domainId,
                     projectName |-> project, projectId |-> s.projectId, region |-> region,
                     endpointType |-> type]
            opt == authOptions(c)
<1>1. c = IF Lacks THEN Rejected ELSE full
  BY Zenon DEF CredentialsFromSecret
<1>2. project = IF f.project # "" THEN f.project ELSE s.projectName
  BY FirstOfTwo, Zenon
<1>3. region = IF f.region # "" THEN f.region ELSE s.region
  BY FirstOfTwo, Zenon DEF Region
<1>4. f.endpointType # "" => type = f.endpointType
  BY FirstOfThree, Zenon
<1>5. ~MethodComplete(method, s) \/
      \/ method = "password" /\ username # "" /\ s.password # ""
      \/ method = "aksk" /\ accessKey # "" /\ s.secretKey # ""
  <2>. HIDE DEF method
  <2>. QED
    BY Zenon DEF MethodComplete
<1>. HIDE DEF c, method, username, accessKey, project, region, type, Lacks
<1>6. CASE Lacks
  <2>1. c = Rejected
    BY <1>1, <1>6
  <2>2. ~c.accepted
    BY <2>1 DEF Rejected
  <2>. QED
    BY <2>2, Zenon DEF AcceptedIsUsable, c
<1>7. CASE ~Lacks
  <2>1. c = full
    BY <1>1, <1>7
  <2>2. /\ c.method = method /\ c.authUrl = s.authUrl
        /\ c.username = username /\ c.password = s.password
        /\ c.accessKey = accessKey /\ c.secretKey = s.secretKey
        /\ c.domainName = s.domainName /\ c.domainId = s.domainId
        /\ c.projectName = project /\ c.projectId = s.projectId
        /\ c.region = region /\ c.endpointType = type
    BY <2>1, SMT
  <2>3. /\ opt.endpoint = s.authUrl
        /\ opt.domain = <<s.domainName, s.domainId>>
        /\ opt.project = <<project, s.projectId>> /\ opt.project[1] = project
        /\ method = "aksk" => opt.identity[1] = accessKey /\ opt.identity[2] = s.secretKey
        /\ method # "aksk" => opt.identity[1] = username /\ opt.identity[2] = s.password
    BY <2>2, SMT DEF authOptions
  <2>4. "aksk" # "password"
    BY SMT
  <2>. HIDE DEF opt
  <2>5. /\ s.authUrl # "" /\ region # "" /\ MethodComplete(method, s)
        /\ method = "password" => s.domainName # "" \/ s.domainId # ""
        /\ project # "" \/ s.projectId # ""
    BY <1>7, Zenon DEF Lacks
  <2>6. opt.endpoint # ""
    BY <2>3, <2>5, Zenon
  <2>7. "" \notin {opt.identity[1], opt.identity[2]}
    BY <1>5, <2>3, <2>4, <2>5, Zenon
  <2>8. opt.project # <<"", "">>
    BY <2>3, <2>5, PairDiffers, Zenon
  <2>9. c.method = "password" => opt.domain # <<"", "">>
    BY <2>2, <2>3, <2>5, PairDiffers, Zenon
  <2>10. f.project # "" => opt.project[1] = f.project
    BY <1>2, <2>3, Zenon
  <2>11. c.region # "" /\ c.region = IF f.region # "" THEN f.region ELSE s.region
    BY <1>3, <2>2, <2>5, Zenon
  <2>12. f.endpointType # "" =>
           endpointAvailability(c.endpointType) = endpointAvailability(f.endpointType)
    BY <1>4, <2>2, Zenon
  <2>13. AcceptedIsUsable(s, f, c)
    BY <2>6, <2>7, <2>8, <2>9, <2>10, <2>11, <2>12, Zenon DEF AcceptedIsUsable, opt
  <2>. QED
    BY <2>13 DEF c
<1>. QED
  BY <1>6, <1>7

-----------------------------------------------------------------------------
(* The machines in the order of sort.Slice                                 *)

(* Machines with different names.                                          *)
Distinct(S) == \A m, x \in S : m.name = x.name => m = x

(* The order of the machines is strict, transitive and, for machines with  *)
(* different names, total.                                                 *)
LEMMA BeforeOrder ==
    /\ \A l, r \in Machine : Before(l, r) => ~Before(r, l) /\ l # r
    /\ \A l, r, x \in Machine : Before(l, r) /\ Before(r, x) => Before(l, x)
    /\ \A l, r \in Machine : l.name # r.name => Before(l, r) \/ Before(r, l)
<1>1. \A m \in Machine : m.name \in Nat /\ m.created \in Nat
  BY DEF Machine
<1>. QED
  BY <1>1 DEF Before

(* A finite set of machines can be sorted: a machine's place is the number *)
(* of machines that do not come after it.                                  *)
LEMMA SortedExists ==
    ASSUME NEW S \in SUBSET Machine, IsFiniteSet(S), Distinct(S)
    PROVE  \E q \in [1..Cardinality(S) -> S] :
              \A i, j \in 1..Cardinality(S) : i < j => Before(q[i], q[j])
<1>. DEFINE n == Cardinality(S)
            Upto(m) == {x \in S : x = m \/ Before(x, m)}
            place == [m \in S |-> Cardinality(Upto(m))]
<1>1. n \in Nat /\ \A m \in S : m \in Machine
  BY FS_CardinalityType
<1>2. ASSUME NEW m \in S
      PROVE  /\ Upto(m) \in SUBSET S /\ m \in Upto(m) /\ IsFiniteSet(Upto(m))
             /\ Cardinality(Upto(m)) \in 1..n
  <2>1. Upto(m) \in SUBSET S /\ m \in Upto(m)
    OBVIOUS
  <2>. HIDE DEF Upto
  <2>2. IsFiniteSet(Upto(m)) /\ Cardinality(Upto(m)) <= n
    BY <2>1, FS_Subset
  <2>3. Cardinality(Upto(m)) \in Nat /\ Cardinality(Upto(m)) # 0
    BY <2>1, <2>2, FS_CardinalityType, FS_EmptySet
  <2>. QED
    BY <1>1, <2>1, <2>2, <2>3
<1>3. ASSUME NEW l \in S, NEW r \in S, Before(l, r)
      PROVE  Cardinality(Upto(l)) < Cardinality(Upto(r))
  <2>1. l \in Machine /\ r \in Machine
    BY <1>1
  <2>2. Upto(l) \in SUBSET Upto(r)
    <3>1. ASSUME NEW x \in S, Before(x, l) PROVE Before(x, r)
      BY <1>1, <1>3, <3>1, BeforeOrder
    <3>. QED
      BY <1>3, <3>1
  <2>3. r \notin Upto(l)
    BY <1>3, <2>1, BeforeOrder
  <2>4. r \in Upto(r) /\ IsFiniteSet(Upto(r))
    BY <1>2
  <2>5. Upto(l) # Upto(r)
    BY <2>3, <2>4
  <2>. HIDE DEF Upto
  <2>6. Cardinality(Upto(l)) <= Cardinality(Upto(r))
        /\ Cardinality(Upto(l)) # Cardinality(Upto(r))
    BY <2>2, <2>4, <2>5, FS_Subset
  <2>. QED
    BY <1>2, <2>6
<1>. HIDE DEF Upto
<1>4. place \in [S -> 1..n]
  BY <1>2
<1>5. \A m \in S : place[m] \in Nat
  BY <1>1, <1>4
<1>6. \A l, r \in S : Before(l, r) => place[l] < place[r]
  BY <1>3
<1>. HIDE DEF place
<1>7. \A l, r \in S : place[l] = place[r] => l = r
  <2>. SUFFICES ASSUME NEW l \in S, NEW r \in S, l # r PROVE place[l] # place[r]
    OBVIOUS
  <2>1. Before(l, r) \/ Before(r, l)
    BY <1>1, BeforeOrder DEF Distinct
  <2>. QED
    BY <1>5, <1>6, <2>1
<1>8. place \in Surjection(S, 1..n)
  <2>1. place \in Injection(S, 1..n)
    BY <1>4, <1>7 DEF Injection, IsInjective
  <2>2. IsFiniteSet(1..n) /\ Cardinality(1..n) = n
    BY <1>1, FS_Interval
  <2>. QED
    BY <2>1, <2>2, FS_Injection
<1>. DEFINE at(i) == CHOOSE m \in S : place[m] = i
            q == [i \in 1..n |-> at(i)]
<1>9. \A i \in 1..n : at(i) \in S /\ place[at(i)] = i
  BY <1>8 DEF Surjection
<1>. HIDE DEF at
<1>10. q \in [1..n -> S] /\ \A i \in 1..n : place[q[i]] = i
  BY <1>9
<1>. HIDE DEF q
<1>11. ASSUME NEW i \in 1..n, NEW j \in 1..n, i < j PROVE Before(q[i], q[j])
  <2>1. q[i] \in S /\ q[j] \in S /\ place[q[i]] = i /\ place[q[j]] = j
    BY <1>10
  <2>2. q[i] # q[j]
    BY <1>11, <2>1
  <2>3. q[i] \in Machine /\ q[j] \in Machine /\ q[i].name # q[j].name
    BY <1>1, <2>1, <2>2 DEF Distinct
  <2>4. ~Before(q[j], q[i])
    BY <1>6, <1>11, <2>1
  <2>. QED
    BY <2>3, <2>4, BeforeOrder
<1>. QED
  BY <1>10, <1>11

(* Sorting keeps every machine.                                            *)
LEMMA SortedFacts ==
    ASSUME NEW S \in SUBSET Machine, IsFiniteSet(S), Distinct(S)
    PROVE  /\ Sorted(S) \in Seq(S) /\ Len(Sorted(S)) = Cardinality(S)
           /\ Cardinality(S) \in Nat
           /\ \A i, j \in 1..Cardinality(S) : i < j => Before(Sorted(S)[i], Sorted(S)[j])
           /\ \A m \in S : \E i \in 1..Cardinality(S) : Sorted(S)[i] = m
<1>. DEFINE n == Cardinality(S)
            q == Sorted(S)
            InOrder(z) == \A i, j \in DOMAIN z : i < j => Before(z[i], z[j])
<1>1. n \in Nat
  BY FS_CardinalityType
<1>2. \E z \in [1..n -> S] : InOrder(z)
  BY SortedExists
<1>3. q = CHOOSE z \in [1..n -> S] : InOrder(z)
  BY DEF Sorted
<1>4. q \in [1..n -> S] /\ InOrder(q)
  <2>. HIDE DEF q, InOrder, n
  <2>. QED
    BY <1>2, <1>3
<1>. HIDE DEF q
<1>5. \A i, j \in 1..n : i < j => Before(q[i], q[j])
  BY <1>4
<1>6. \A i, j \in 1..n : q[i] = q[j] => i = j
  <2>. SUFFICES ASSUME NEW i \in 1..n, NEW j \in 1..n, i < j PROVE q[i] # q[j]
    BY <1>1
  <2>1. Before(q[i], q[j]) /\ q[i] \in Machine /\ q[j] \in Machine
    BY <1>4, <1>5
  <2>. QED
    BY <2>1, BeforeOrder
<1>7. q \in Surjection(1..n, S)
  <2>1. q \in Injection(1..n, S)
    BY <1>4, <1>6 DEF Injection, IsInjective
  <2>2. IsFiniteSet(1..n) /\ Cardinality(1..n) = n
    BY <1>1, FS_Interval
  <2>. QED
    BY <2>1, <2>2, FS_Injection
<1>8. \A m \in S : \E i \in 1..n : q[i] = m
  BY <1>7 DEF Surjection
<1>9. q \in Seq(S) /\ Len(q) = n
  BY <1>1, <1>4
<1>. QED
  BY <1>1, <1>5, <1>8, <1>9 DEF q

-----------------------------------------------------------------------------
(* The network that is adopted                                             *)

(* The entry of an archive that decides, and what decoding makes of it.    *)
FirstConfig(secret, i) ==
    /\ i \in DOMAIN secret.entries /\ secret.gzip
    /\ secret.entries[i].file = "config.json" /\ secret.entries[i].parses
    /\ \A j \in 1..(i - 1) : secret.entries[j].file = "other"
LEMMA DecodeFacts ==
    ASSUME NEW secret \in Secret
    PROVE  LET d == decodeMachineDriverState(secret) IN
           /\ d.ok => \E i : FirstConfig(secret, i) /\ d.state = secret.entries[i].state
           /\ \A i : FirstConfig(secret, i) => d.ok /\ d.state = secret.entries[i].state
<1>. DEFINE es == secret.entries
            E == [file : {"config.json", "broken", "other"}, parses : BOOLEAN, state : State]
            I == {i \in 1..Len(es) : Decisive(es[i])}
            k == IF I # {} THEN Min(I) ELSE 0
            d == decodeMachineDriverState(secret)
<1>1. es \in Seq(E) /\ secret.gzip \in BOOLEAN
  BY DEF Secret, Archive
<1>2. d = IF ~secret.gzip \/ k = 0 \/ es[k].file = "broken" \/ ~es[k].parses
          THEN [ok |-> FALSE, state |-> NoState]
          ELSE [ok |-> TRUE, state |-> es[k].state]
  BY DEF decodeMachineDriverState, SelectInSeq
<1>. HIDE DEF d, k
<1>3. /\ Len(es) \in Nat /\ DOMAIN es = 1..Len(es)
      /\ \A i \in 1..Len(es) : es[i].file \in {"config.json", "broken", "other"}
      /\ \A i \in 1..Len(es) : es[i].parses \in BOOLEAN
  <2>1. \A e \in E : e.file \in {"config.json", "broken", "other"} /\ e.parses \in BOOLEAN
    OBVIOUS
  <2>. HIDE DEF E, es
  <2>2. Len(es) \in Nat /\ DOMAIN es = 1..Len(es) /\ \A i \in 1..Len(es) : es[i] \in E
    BY <1>1
  <2>. QED
    BY <2>1, <2>2
<1>. HIDE DEF es, E
<1>4. /\ I \in SUBSET Nat
      /\ \A i \in I : i \in 1..Len(es) /\ es[i].file # "other"
      /\ \A i \in 1..Len(es) : i \notin I => es[i].file = "other"
      /\ \A i \in 1..Len(es) : es[i].file # "other" => i \in I
  BY <1>3 DEF Decisive
<1>. HIDE DEF I
<1>5. I # {} => k \in I /\ \A i \in I : k <= i
  BY <1>4, MinFacts DEF k
<1>6. I = {} => k = 0
  BY DEF k
<1>7. d.ok => \E i : FirstConfig(secret, i) /\ d.state = es[i].state
  <2>. SUFFICES ASSUME d.ok PROVE FirstConfig(secret, k) /\ d.state = es[k].state
    OBVIOUS
  <2>1. /\ secret.gzip /\ k # 0 /\ es[k].file # "broken" /\ es[k].parses
        /\ d.state = es[k].state
    BY <1>2
  <2>2. I # {} /\ k \in I
    BY <1>5, <1>6, <2>1
  <2>3. k \in 1..Len(es) /\ es[k].file = "config.json"
    BY <1>3, <1>4, <2>1, <2>2
  <2>4. ASSUME NEW j \in 1..(k - 1) PROVE es[j].file = "other"
    <3>1. j \in 1..Len(es) /\ j \in Nat /\ k \in Nat /\ j < k
      BY <1>3, <2>3
    <3>2. j \notin I
      BY <1>5, <2>2, <3>1
    <3>. QED
      BY <1>4, <3>1, <3>2
  <2>. QED
    BY <1>3, <2>1, <2>3, <2>4 DEF FirstConfig, es
<1>8. ASSUME NEW i, FirstConfig(secret, i) PROVE d.ok /\ d.state = es[i].state
  <2>1. /\ i \in 1..Len(es) /\ secret.gzip
        /\ es[i].file = "config.json" /\ es[i].parses
        /\ \A j \in 1..(i - 1) : es[j].file = "other"
    BY <1>3, <1>8 DEF FirstConfig, es
  <2>2. i \in I
    BY <1>4, <2>1
  <2>3. k \in I /\ k <= i /\ k \in 1..Len(es)
    BY <1>4, <1>5, <2>2
  <2>4. k \notin 1..(i - 1)
    BY <1>4, <2>1, <2>3
  <2>5. k = i /\ k # 0
    BY <2>1, <2>3, <2>4
  <2>. QED
    BY <1>2, <2>1, <2>5
<1>. QED
  BY <1>7, <1>8 DEF d, es

(* A state that names all three resources, made by the driver.             *)
Complete(st) ==
    /\ st.driver = "opentelekomcloud"
    /\ st.vpc.managed /\ st.subnet.managed
    /\ "" \notin {st.vpc.value, st.subnet.value, st.sg}
LEMMA FailureFails == ~Failure.ok
<1>1. \A e : ~[ok |-> FALSE, vpc |-> e, subnet |-> e, sg |-> e].ok
  BY SMT
<1>. QED
  BY <1>1, Zenon DEF Failure
LEMMA AdoptableFacts ==
    ASSUME NEW st
    PROVE  LET r == adoptableResourcesFromState(st) IN
           /\ r.ok <=> Complete(st)
           /\ r.ok => r.vpc = st.vpc.value /\ r.subnet = st.subnet.value /\ r.sg = st.sg
<1>. DEFINE r == adoptableResourcesFromState(st)
            full == [ok |-> TRUE, vpc |-> st.vpc.value, subnet |-> st.subnet.value, sg |-> st.sg]
<1>1. r = IF Complete(st) THEN full ELSE Failure
  BY Zenon DEF adoptableResourcesFromState, Complete
<1>2. /\ full.ok /\ full.vpc = st.vpc.value /\ full.subnet = st.subnet.value
      /\ full.sg = st.sg
  BY SMT
<1>. HIDE DEF r, full
<1>3. CASE Complete(st)
  <2>1. r = full
    BY <1>1, <1>3
  <2>. QED
    BY <1>2, <1>3, <2>1, Zenon DEF r
<1>4. CASE ~Complete(st)
  <2>1. ~r.ok
    BY <1>1, <1>4, FailureFails
  <2>. QED
    BY <1>4, <2>1, Zenon DEF r
<1>. QED
  BY <1>3, <1>4, Zenon

(* What the machine that decides owns is what its Secret claims.           *)
LEMMA OwnsFacts ==
    ASSUME NEW m, NEW st
    PROVE  OwnsNetwork(m, st) <=>
              /\ m.secret.kind = "data" /\ Complete(st)
              /\ \E i : FirstConfig(m.secret, i) /\ m.secret.entries[i].state = st
BY Zenon DEF OwnsNetwork, HasState, NamesAll, Complete, FirstConfig

(* The machines of a cluster, and those that are not being deleted.        *)
LEMMA MachinesOf ==
    ASSUME NEW ms, IsMachineList(ms)
    PROVE  LET S == {m \in Range(ms) : ~m.deleting} IN
           /\ S \in SUBSET Machine /\ IsFiniteSet(S) /\ Distinct(S)
<1>. DEFINE R == Range(ms)
            S == {m \in R : ~m.deleting}
<1>1. ms \in Seq(Machine) /\ \A i, j \in DOMAIN ms : ms[i].name = ms[j].name => i = j
  BY DEF IsMachineList
<1>2. DOMAIN ms = 1..Len(ms) /\ Len(ms) \in Nat /\ ms \in [1..Len(ms) -> Machine]
  BY <1>1
<1>3. \A m \in R : \E i \in DOMAIN ms : ms[i] = m
  BY DEF Range
<1>4. \A i \in DOMAIN ms : ms[i] \in R
  BY DEF Range
<1>. HIDE DEF R
<1>5. R \in SUBSET Machine
  BY <1>2, <1>3
<1>6. Distinct(S)
  BY <1>1, <1>3 DEF Distinct
<1>7. IsFiniteSet(R)
  <2>1. ms \in [1..Len(ms) -> R]
    BY <1>2, <1>4
  <2>2. ms \in Surjection(1..Len(ms), R)
    BY <1>2, <1>3, <2>1 DEF Surjection
  <2>3. IsFiniteSet(1..Len(ms))
    BY <1>2, FS_Interval
  <2>. QED
    BY <2>2, <2>3, FS_Surjection
<1>8. S \in SUBSET R
  OBVIOUS
<1>9. IsFiniteSet(S)
  <2>. HIDE DEF S
  <2>. QED
    BY <1>7, <1>8, FS_Subset
<1>. QED
  BY <1>5, <1>6, <1>8, <1>9 DEF R

(* One machine at most decides.                                            *)
LEMMA OneDecides ==
    ASSUME NEW ms, IsMachineList(ms), NEW m \in Range(ms), NEW x \in Range(ms),
           OldestWithSecret(m, ms), OldestWithSecret(x, ms)
    PROVE  m = x
<1>1. m \in Machine /\ x \in Machine /\ (m.name = x.name => m = x)
  BY MachinesOf DEF OldestWithSecret, Distinct
<1>2. m.name \in Nat /\ x.name \in Nat /\ m.created \in Nat /\ x.created \in Nat
  BY <1>1 DEF Machine
<1>. QED
  BY <1>1, <1>2 DEF OldestWithSecret, NotAfter

(* A state with all three resources is known by their ids.                 *)
LEMMA StateById ==
    ASSUME NEW st \in State, st.driver = "opentelekomcloud",
           st.vpc.managed, st.subnet.managed
    PROVE  st = [driver |-> "opentelekomcloud",
                 vpc |-> [value |-> st.vpc.value, managed |-> TRUE],
                 subnet |-> [value |-> st.subnet.value, managed |-> TRUE],
                 sg |-> st.sg]
<1>1. st.vpc \in Resource /\ st.subnet \in Resource
  BY DEF State
<1>2. \A v \in Resource : v.managed => v = [value |-> v.value, managed |-> TRUE]
  BY DEF Resource
<1>3. st.vpc = [value |-> st.vpc.value, managed |-> TRUE]
      /\ st.subnet = [value |-> st.subnet.value, managed |-> TRUE]
  BY <1>1, <1>2
<1>4. st = [driver |-> st.driver, vpc |-> st.vpc, subnet |-> st.subnet, sg |-> st.sg]
  BY DEF State
<1>. QED
  BY <1>3, <1>4

(* The machine that decides is the first, in the order of their creation,  *)
(* that has a state Secret.                                                *)
LEMMA DeciderFound ==
    ASSUME NEW ms, IsMachineList(ms)
    PROVE  \/ /\ \A m \in Range(ms) : ~OldestWithSecret(m, ms)
              /\ discoverAdoptableResources(ms) = Failure
           \/ \E m \in Range(ms) :
                /\ OldestWithSecret(m, ms)
                /\ LET d == decodeMachineDriverState(m.secret) IN
                   discoverAdoptableResources(ms) =
                     IF m.secret.kind = "unreadable" \/ ~d.ok THEN Failure
                     ELSE adoptableResourcesFromState(d.state)
<1>. DEFINE S == {m \in Range(ms) : ~m.deleting}
            n == Cardinality(S)
            q == Sorted(S)
            I == {i \in 1..Len(q) : q[i].secret.kind # "missing"}
            k == IF I # {} THEN Min(I) ELSE 0
<1>1. /\ S \in SUBSET Machine /\ IsFiniteSet(S) /\ Distinct(S)
      /\ \A m : m \in S <=> m \in Range(ms) /\ ~m.deleting
  BY MachinesOf
<1>2. discoverAdoptableResources(ms) =
        IF k = 0 \/ q[k].secret.kind = "unreadable"
           \/ ~decodeMachineDriverState(q[k].secret).ok
        THEN Failure
        ELSE adoptableResourcesFromState(decodeMachineDriverState(q[k].secret).state)
  BY DEF discoverAdoptableResources, SelectInSeq
<1>. HIDE DEF k, S
<1>3. /\ q \in Seq(S) /\ Len(q) = n /\ n \in Nat
      /\ \A i, j \in 1..n : i < j => Before(q[i], q[j])
      /\ \A m \in S : \E i \in 1..n : q[i] = m
  BY <1>1, SortedFacts
<1>. HIDE DEF n, q
<1>4. \A i \in 1..n : q[i] \in S /\ q[i] \in Machine
  BY <1>1, <1>3
<1>5. /\ I \in SUBSET Nat
      /\ \A i : i \in I <=> i \in 1..n /\ q[i].secret.kind # "missing"
  BY <1>3
<1>. HIDE DEF I
<1>6. CASE I = {}
  <2>1. k = 0
    BY <1>6 DEF k
  <2>2. ASSUME NEW m \in Range(ms), OldestWithSecret(m, ms) PROVE FALSE
    <3>1. m \in S /\ m.secret.kind # "missing"
      BY <1>1, <2>2 DEF OldestWithSecret
    <3>2. PICK i \in 1..n : q[i] = m
      BY <1>3, <3>1
    <3>. QED
      BY <1>5, <1>6, <3>1, <3>2
  <2>3. discoverAdoptableResources(ms) = Failure
    BY <1>2, <2>1
  <2>. QED
    BY <2>2, <2>3
<1>7. CASE I # {}
  <2>1. k \in I /\ (\A i \in I : k <= i) /\ k \in 1..n /\ k # 0
    <3>1. k = Min(I)
      BY <1>7 DEF k
    <3>2. Min(I) \in I /\ \A i \in I : Min(I) <= i
      BY <1>5, <1>7, MinFacts
    <3>3. k \in 1..n
      BY <1>5, <3>1, <3>2
    <3>. QED
      BY <1>3, <3>1, <3>2, <3>3
  <2>. DEFINE m == q[k]
  <2>2. m \in S /\ m \in Machine /\ m \in Range(ms) /\ ~m.deleting /\ m.secret.kind # "missing"
    BY <1>1, <1>4, <1>5, <2>1
  <2>3. ASSUME NEW x \in Range(ms), ~x.deleting, x.secret.kind # "missing"
        PROVE  m.created < x.created \/ (m.created = x.created /\ m.name <= x.name)
    <3>1. x \in S
      BY <1>1, <2>3
    <3>2. PICK i \in 1..n : q[i] = x
      BY <1>3, <3>1
    <3>3. i \in I
      BY <1>5, <2>3, <3>2
    <3>4. k <= i
      BY <2>1, <3>3
    <3>5. x = m \/ Before(m, x)
      BY <1>3, <2>1, <3>2, <3>4
    <3>. HIDE DEF m
    <3>6. m.name \in Nat /\ x.name \in Nat /\ m.created \in Nat /\ x.created \in Nat
      BY <1>1, <2>2, <3>1 DEF Machine
    <3>. QED
      BY <3>5, <3>6 DEF Before
  <2>. HIDE DEF m
  <2>4. OldestWithSecret(m, ms)
    BY <2>2, <2>3 DEF OldestWithSecret, NotAfter
  <2>5. discoverAdoptableResources(ms) =
          IF m.secret.kind = "unreadable" \/ ~decodeMachineDriverState(m.secret).ok THEN Failure
          ELSE adoptableResourcesFromState(decodeMachineDriverState(m.secret).state)
    BY <1>2, <2>1 DEF m
  <2>. QED
    BY <2>2, <2>4, <2>5
<1>. QED
  BY <1>6, <1>7

(* The network of the oldest machine with a state Secret is claimed, and   *)
(* only if its driver made all of it.                                      *)
LEMMA OldestClaimed ==
    ASSUME NEW ms, IsMachineList(ms)
    PROVE  ClaimsOldestOwner(ms, discoverAdoptableResources(ms))
<1>. DEFINE r == discoverAdoptableResources(ms)
            ById(c) == [driver |-> "opentelekomcloud",
                        vpc |-> [value |-> c.vpc, managed |-> TRUE],
                        subnet |-> [value |-> c.subnet, managed |-> TRUE],
                        sg |-> c.sg]
<1>. HIDE DEF r
<1>1. CASE (\A m \in Range(ms) : ~OldestWithSecret(m, ms)) /\ r = Failure
  BY <1>1, FailureFails, Zenon DEF ClaimsOldestOwner, r
<1>2. ASSUME NEW m \in Range(ms), OldestWithSecret(m, ms),
             r = LET d == decodeMachineDriverState(m.secret) IN
                 IF m.secret.kind = "unreadable" \/ ~d.ok THEN Failure
                 ELSE adoptableResourcesFromState(d.state)
      PROVE  ClaimsOldestOwner(ms, r)
  <2>. DEFINE d == decodeMachineDriverState(m.secret)
              a == adoptableResourcesFromState(d.state)
  <2>0. r = IF m.secret.kind = "unreadable" \/ ~d.ok THEN Failure ELSE a
    BY <1>2
  <2>1. m.secret \in Secret /\ m.secret.kind \in {"data", "missing", "unreadable"}
        /\ m.secret.kind # "missing"
    <3>1. m \in Machine
      BY <1>2, MachinesOf DEF OldestWithSecret
    <3>2. m.secret \in Secret
      BY <3>1 DEF Machine
    <3>. QED
      BY <1>2, <3>2 DEF Secret, OldestWithSecret
  <2>2. /\ d.ok => \E i : FirstConfig(m.secret, i) /\ d.state = m.secret.entries[i].state
        /\ \A i : FirstConfig(m.secret, i) => d.ok /\ d.state = m.secret.entries[i].state
    BY <2>1, DecodeFacts
  <2>3. /\ a.ok <=> Complete(d.state)
        /\ a.ok => /\ a.vpc = d.state.vpc.value /\ a.subnet = d.state.subnet.value
                   /\ a.sg = d.state.sg
    BY AdoptableFacts, Zenon
  <2>. HIDE DEF d, a
  <2>4. ASSUME r.ok
        PROVE  /\ \E e \in Range(m.secret.entries) : OwnsNetwork(m, e.state)
               /\ OwnsNetwork(m, ById(r))
    <3>1. m.secret.kind # "unreadable" /\ d.ok /\ r = a
      BY <2>0, <2>4, FailureFails
    <3>2. PICK i : FirstConfig(m.secret, i) /\ d.state = m.secret.entries[i].state
      BY <2>2, <3>1
    <3>3. m.secret.kind = "data" /\ Complete(d.state)
      <4>1. m.secret.kind = "data"
        BY <2>1, <3>1
      <4>. QED
        BY <2>3, <2>4, <3>1, <4>1, Zenon
    <3>4. OwnsNetwork(m, d.state)
      BY <3>2, <3>3, OwnsFacts, Zenon
    <3>5. m.secret.entries[i] \in Range(m.secret.entries)
      BY <3>2 DEF FirstConfig, Range
    <3>6. d.state \in State
      <4>. DEFINE E == [file : {"config.json", "broken", "other"},
                        parses : BOOLEAN, state : State]
                  es == m.secret.entries
      <4>1. es \in Seq(E)
        BY <2>1 DEF Secret, Archive
      <4>2. \A e \in E : e.state \in State
        OBVIOUS
      <4>. HIDE DEF E
      <4>3. i \in DOMAIN es
        BY <3>2 DEF FirstConfig
      <4>4. d.state = es[i].state
        BY <3>2
      <4>. HIDE DEF es
      <4>5. es[i] \in E
        BY <4>1, <4>3
      <4>. QED
        BY <4>2, <4>4, <4>5
    <3>7. d.state.driver = "opentelekomcloud" /\ d.state.vpc.managed /\ d.state.subnet.managed
      BY <3>3, Zenon DEF Complete
    <3>8. r.vpc = d.state.vpc.value /\ r.subnet = d.state.subnet.value /\ r.sg = d.state.sg
      BY <2>3, <2>4, <3>1, Zenon
    <3>9. d.state = ById(r)
      BY <3>6, <3>7, <3>8, StateById
    <3>. HIDE DEF ById
    <3>. QED
      BY <3>2, <3>4, <3>5, <3>9, Zenon
  <2>5. ASSUME NEW e \in Range(m.secret.entries), OwnsNetwork(m, e.state)
        PROVE  r.ok
    <3>1. PICK i : FirstConfig(m.secret, i) /\ m.secret.entries[i].state = e.state
      BY <2>5, OwnsFacts, Zenon
    <3>2. m.secret.kind = "data" /\ Complete(e.state)
      BY <2>5, OwnsFacts, Zenon
    <3>3. d.ok /\ d.state = e.state
      BY <2>2, <3>1
    <3>4. a.ok
      BY <2>3, <3>2, <3>3, Zenon
    <3>5. "data" # "unreadable"
      BY SMT
    <3>. QED
      BY <2>0, <3>2, <3>3, <3>4, <3>5, Zenon
  <2>6. \A x \in Range(ms) : OldestWithSecret(x, ms) => x = m
    BY <1>2, OneDecides
  <2>7. ASSUME NEW x \in Range(ms), OldestWithSecret(x, ms),
               \E e \in Range(x.secret.entries) : OwnsNetwork(x, e.state)
        PROVE  r.ok
    BY <2>5, <2>6, <2>7, Zenon
  <2>8. r.ok => \E x \in Range(ms) : OldestComplete(x, ms) /\ OwnsNetwork(x, ById(r))
    <3>1. ASSUME r.ok PROVE OldestComplete(m, ms)
      <4>1. StateComplete(m)
        BY <2>4, <3>1, Zenon DEF StateComplete, OwnsNetwork
      <4>2. \A x \in Range(ms) : StateComplete(x) => x.secret.kind # "missing"
        <5>1. \A x : StateComplete(x) => x.secret.kind = "data"
          BY Zenon DEF StateComplete, HasState
        <5>. QED
          BY <5>1, SMT
      <4>. QED
        BY <1>2, <4>1, <4>2, Zenon DEF OldestWithSecret, OldestComplete
    <3>. QED
      BY <2>4, <3>1, Zenon
  <2>. QED
    BY <2>7, <2>8, Zenon DEF ClaimsOldestOwner
<1>. QED
  BY <1>1, <1>2, DeciderFound, Zenon DEF r

-----------------------------------------------------------------------------
(* The specification of the calls                                          *)

(* After a step only the call that was made has to be looked at.           *)
LEMMA CallStep ==
    ASSUME Next
    PROVE  /\ fn' = "discover" => CallDiscover
           /\ fn' = "managedName" => CallManagedName
           /\ fn' = "networkObjectName" => CallObjectName
           /\ fn' = "credentials" => CallCredentials
BY DEF Next, CallDiscover, CallManagedName, CallObjectName, CallCredentials

(* For every list of machines, of any length and in any order, what is     *)
(* claimed is the whole network of the oldest machine with complete state, *)
(* made by its driver; and it is claimed if no older machine has a state   *)
(* Secret (discoverAdoptableResources).                                    *)
THEOREM AdoptionClaimsOldest == Spec => []AdoptionCorrect
<1>1. Init => AdoptionCorrect
  BY DEF Init, AdoptionCorrect
<1>2. AdoptionCorrect /\ [Next]_<<fn, arg, result>> => AdoptionCorrect'
  <2>1. ASSUME Next, fn' = "discover" PROVE ClaimsOldestOwner(arg', result')
    <3>1. PICK ms \in MachineLists : arg' = ms /\ result' = discoverAdoptableResources(ms)
      BY <2>1, CallStep DEF CallDiscover
    <3>2. IsMachineList(ms)
      BY CallsConstants
    <3>3. ClaimsOldestOwner(ms, discoverAdoptableResources(ms))
      BY <3>2, OldestClaimed
    <3>. QED
      BY <3>1, <3>3
  <2>2. ASSUME UNCHANGED <<fn, arg, result>>, AdoptionCorrect PROVE AdoptionCorrect'
    BY <2>2 DEF AdoptionCorrect
  <2>. QED
    BY <2>1, <2>2 DEF AdoptionCorrect
<1>. QED
  BY <1>1, <1>2, PTL DEF Spec

(* For every base name and every UID the name of a managed resource is a   *)
(* valid label that ends in the whole token (managedName, shortToken).     *)
THEOREM ManagedNamesCarryToken == Spec => []ManagedNamesCorrect
<1>1. Init => ManagedNamesCorrect
  BY DEF Init, ManagedNamesCorrect
<1>2. ManagedNamesCorrect /\ [Next]_<<fn, arg, result>> => ManagedNamesCorrect'
  <2>1. ASSUME Next, fn' = "managedName" PROVE ManagedNameCarriesToken(arg'[1], arg'[2])
    <3>1. PICK b \in Bases, u \in UIDs : arg' = <<b, u>>
      BY <2>1, CallStep DEF CallManagedName
    <3>2. b \in Seq(STRING) /\ IsUID(u)
      BY CallsConstants
    <3>3. ManagedNameCarriesToken(b, u)
      BY <3>2, CarriesToken
    <3>. QED
      BY <3>1, <3>3
  <2>2. ASSUME UNCHANGED <<fn, arg, result>>, ManagedNamesCorrect PROVE ManagedNamesCorrect'
    BY <2>2 DEF ManagedNamesCorrect
  <2>. QED
    BY <2>1, <2>2 DEF ManagedNamesCorrect
<1>. QED
  BY <1>1, <1>2, PTL DEF Spec

(* For every cluster name the name of its network object is a valid label, *)
(* and two clusters share one only where the code loses information        *)
(* (networkObjectName).                                                    *)
THEOREM ObjectNamesDiffer == Spec => []ObjectNamesCorrect
<1>1. Init => ObjectNamesCorrect
  BY DEF Init, ObjectNamesCorrect
<1>2. ObjectNamesCorrect /\ [Next]_<<fn, arg, result>> => ObjectNamesCorrect'
  <2>1. ASSUME Next, fn' = "networkObjectName" PROVE ObjectNamesDistinct(arg'[1], arg'[2])
    <3>1. PICK c \in ClusterNames, d \in ClusterNames : arg' = <<c, d>>
      BY <2>1, CallStep DEF CallObjectName
    <3>2. c \in Seq(STRING) /\ d \in Seq(STRING)
      BY CallsConstants
    <3>3. ObjectNamesDistinct(c, d)
      BY <3>2, ObjectNames
    <3>. QED
      BY <3>1, <3>3
  <2>2. ASSUME UNCHANGED <<fn, arg, result>>, ObjectNamesCorrect PROVE ObjectNamesCorrect'
    BY <2>2 DEF ObjectNamesCorrect
  <2>. QED
    BY <2>1, <2>2 DEF ObjectNamesCorrect
<1>. QED
  BY <1>1, <1>2, PTL DEF Spec

(* Whatever a Secret and a spec hold, credentials that are accepted give   *)
(* options with a complete identity, project and domain, and the spec goes *)
(* before the Secret (CredentialsFromSecret, authOptions).                 *)
THEOREM AcceptedCredentialsUsable == Spec => []CredentialsCorrect
<1>1. Init => CredentialsCorrect
  BY DEF Init, CredentialsCorrect
<1>2. CredentialsCorrect /\ [Next]_<<fn, arg, result>> => CredentialsCorrect'
  <2>1. ASSUME Next, fn' = "credentials" PROVE AcceptedIsUsable(arg'[1], arg'[2], result')
    <3>1. PICK s \in Secrets, f \in Fallbacks :
             arg' = <<s, f>> /\ result' = CredentialsFromSecret(s, f)
      BY <2>1, CallStep DEF CallCredentials
    <3>2. AcceptedIsUsable(s, f, CredentialsFromSecret(s, f))
      BY CredentialsUsable
    <3>. QED
      BY <3>1, <3>2
  <2>2. ASSUME UNCHANGED <<fn, arg, result>>, CredentialsCorrect PROVE CredentialsCorrect'
    BY <2>2 DEF CredentialsCorrect
  <2>. QED
    BY <2>1, <2>2 DEF CredentialsCorrect
<1>. QED
  BY <1>1, <1>2, PTL DEF Spec

=============================================================================
