------------------------ MODULE ExpressionSearchProofs ------------------------
(***************************************************************************)
(* What is found in a line is found under the words where it is.           *)
(* Part 1 is about the operators: where a pattern can end in a text        *)
(* (PatternFound), what is left of some positions (AmongIs), the table's   *)
(* entries (EntryIs).  Part 2 is the inductive invariant: what the arrays  *)
(* hold in front of the line's end and behind it, where each fact is from. *)
(* Part 3 resolves a fact's ids.                                           *)
(***************************************************************************)
EXTENDS ExpressionSearch, TLAPS, FiniteSetTheorems, WellFoundedInduction

(***************************************************************************)
(* Part 1: the operators.                                                  *)
(***************************************************************************)
Str == Seq(Char) \ {<< >>}

LEMMA LeastNumber ==
    ASSUME NEW T, T \subseteq Nat, T # {}
    PROVE  \E n \in T : /\ \A y \in T : n <= y
                        /\ n = 0 \/ (n - 1 \in Nat /\ n - 1 \notin T)
<1>1. IsWellFoundedOn(OpToRel(<, Nat), Nat)
  BY NatLessThanWellFounded
<1>2. PICK n \in T : \A y \in T : ~ (<<y, n>> \in OpToRel(<, Nat))
  BY <1>1, WFMin
<1>3. \A y \in T : ~ (y < n)
  BY <1>2 DEF OpToRel
<1> QED  BY <1>3

\* The recursion that defines Ends has a solution.
LEMMA EndsIs ==
    ASSUME NEW tokens \in Seq(Str)
    PROVE  \A i \in 0..Len(tokens) :
              EndOf(tokens, i) = IF i = 0 THEN 1 ELSE EndOf(tokens, i - 1) + Len(tokens[i]) + 1
<1> DEFINE Row(f, m) == f = [i \in 0..m |-> IF i = 0 THEN 1 ELSE f[i - 1] + Len(tokens[i]) + 1]
           end == CHOOSE f : Row(f, Len(tokens))
           Unrowed == {m \in Nat : ~ \E f : Row(f, m)}
<1>1. Unrowed = {}
  <2>1. SUFFICES ASSUME Unrowed # {} PROVE FALSE
    OBVIOUS
  <2>2. PICK m \in Unrowed : m = 0 \/ (m - 1 \in Nat /\ m - 1 \notin Unrowed)
    BY <2>1, LeastNumber
  <2>3. CASE m = 0
    <3>1. Row([i \in 0..0 |-> 1], 0)
      OBVIOUS
    <3> QED  BY <2>2, <2>3, <3>1
  <2>4. CASE m # 0
    <3>1. m - 1 \in Nat /\ m - 1 \notin Unrowed
      BY <2>2, <2>4
    <3>2. PICK f : Row(f, m - 1)
      BY <3>1
    <3> DEFINE g == [i \in 0..m |-> IF i < m THEN f[i] ELSE f[i - 1] + Len(tokens[i]) + 1]
    <3>3. ASSUME NEW i \in 0..m
          PROVE  g[i] = IF i = 0 THEN 1 ELSE g[i - 1] + Len(tokens[i]) + 1
      <4>1. m \in Nat /\ m - 1 \in Nat /\ i \in Int
        BY <3>1, <2>2
      <4>2. CASE i < m
        <5>1. i \in 0..(m - 1) /\ (i # 0 => i - 1 \in 0..m /\ i - 1 < m)
          BY <4>1, <4>2
        <5>2. g[i] = f[i] /\ (i # 0 => g[i - 1] = f[i - 1])
          BY <4>2, <5>1
        <5>3. f[i] = IF i = 0 THEN 1 ELSE f[i - 1] + Len(tokens[i]) + 1
          BY <3>2, <5>1
        <5> HIDE DEF g
        <5> QED  BY <5>2, <5>3
      <4>3. CASE i = m
        <5>1. m \in 0..m /\ m - 1 \in 0..m /\ m - 1 < m /\ ~ (m < m)
          BY <4>1
        <5>2. g[m - 1] = f[m - 1]
          BY <5>1
        <5>3. g[m] = f[m - 1] + Len(tokens[m]) + 1
          BY <5>1
        <5> HIDE DEF g
        <5> QED  BY <2>4, <4>3, <5>2, <5>3
      <4> QED  BY <4>1, <4>2, <4>3
    <3>4. g = [i \in 0..m |-> g[i]]
      OBVIOUS
    <3> HIDE DEF g
    <3>5. Row(g, m)
      BY <3>3, <3>4
    <3> QED  BY <2>2, <3>5
  <2> QED  BY <2>3, <2>4
<1>2. Row(end, Len(tokens))
  <2>1. Len(tokens) \in Nat
    OBVIOUS
  <2> QED  BY <1>1, <2>1
<1>3. \A i \in 0..Len(tokens) : EndOf(tokens, i) = end[i]
  BY DEF EndOf, Ends
<1>4. \A i \in 0..Len(tokens) : i # 0 => i - 1 \in 0..Len(tokens)
  OBVIOUS
<1> HIDE DEF end
<1> QED  BY <1>2, <1>3, <1>4

\* The underscores are in their order, and no two of them next to each other.
LEMMA EndsAscend ==
    ASSUME NEW tokens \in Seq(Str)
    PROVE  /\ \A i \in 0..Len(tokens) : EndOf(tokens, i) \in Nat /\ EndOf(tokens, i) > i
           /\ \A i, j \in 0..Len(tokens) : i < j => EndOf(tokens, i) + 1 < EndOf(tokens, j)
<1> DEFINE e == Ends(tokens)
           n == Len(tokens)
<1>1. /\ n \in Nat /\ e[0] = 1
      /\ \A i \in 1..n : e[i] = e[i - 1] + Len(tokens[i]) + 1 /\ i - 1 \in 0..n
                         /\ Len(tokens[i]) \in Nat /\ Len(tokens[i]) # 0
  <2>1. \A i \in 1..n : tokens[i] \in Str
    OBVIOUS
  <2>2. \A i \in 1..n : Len(tokens[i]) \in Nat /\ Len(tokens[i]) # 0
    BY <2>1 DEF Str
  <2>3. \A i \in 0..n : e[i] = IF i = 0 THEN 1 ELSE e[i - 1] + Len(tokens[i]) + 1
    BY EndsIs DEF EndOf
  <2>4. n \in Nat
    OBVIOUS
  <2> HIDE DEF e, n
  <2> QED  BY <2>2, <2>3, <2>4 DEF n
<1> HIDE DEF e, n
<1> DEFINE Good(j) == /\ e[j] \in Nat /\ e[j] > j
                      /\ \A i \in 0..n : i < j => e[i] + 1 < e[j]
           Other == {j \in Nat : j <= n /\ ~ Good(j)}
<1>2. Other = {}
  <2>1. SUFFICES ASSUME Other # {} PROVE FALSE
    OBVIOUS
  <2>2. PICK j \in Other : /\ \A y \in Other : j <= y
                           /\ j = 0 \/ (j - 1 \in Nat /\ j - 1 \notin Other)
    BY <2>1, LeastNumber
  <2>3. CASE j = 0
    BY <2>2, <2>3, <1>1
  <2>4. CASE j # 0
    <3>1. j \in 1..n /\ j - 1 \in 0..n /\ j - 1 \notin Other
      BY <2>2, <2>4, <1>1
    <3>2. Good(j - 1)
      BY <3>1
    <3>3. e[j] \in Nat /\ e[j] > e[j - 1] + 1 /\ e[j] > j
      BY <3>1, <3>2, <1>1
    <3>4. ASSUME NEW i \in 0..n, i < j PROVE e[i] + 1 < e[j]
      <4>1. CASE i = j - 1
        BY <4>1, <3>3
      <4>2. CASE i < j - 1
        <5>1. i \in Nat /\ j \in Nat
          BY <2>2, <1>1
        <5> HIDE DEF Other
        <5>2. i \notin Other
          BY <2>2, <3>4, <5>1
        <5>3. e[i] \in Nat /\ e[j - 1] \in Nat
          BY <5>2, <3>2, <1>1 DEF Other
        <5> QED  BY <4>2, <5>3, <3>2, <3>3
      <4> QED  BY <4>1, <4>2, <3>4, <3>1, <1>1
    <3> QED  BY <2>2, <3>3, <3>4
  <2> QED  BY <2>3, <2>4
<1> QED  BY <1>2 DEF e, n, EndOf

LEMMA EndsFacts ==
    ASSUME NEW tokens \in Seq(Str)
    PROVE  /\ Len(tokens) \in Nat /\ Ends(tokens)[0] = 1
           /\ \A i \in 0..Len(tokens) : Ends(tokens)[i] \in Nat /\ Ends(tokens)[i] >= 1
           /\ \A i, j \in 0..Len(tokens) : i < j => Ends(tokens)[i] + 1 < Ends(tokens)[j]
           /\ \A i \in 1..Len(tokens) :
                 /\ i - 1 \in 0..Len(tokens)
                 /\ Ends(tokens)[i] = Ends(tokens)[i - 1] + Len(tokens[i]) + 1
                 /\ tokens[i] \in Seq(Char) /\ Len(tokens[i]) \in Nat /\ Len(tokens[i]) >= 1
<1> DEFINE e == Ends(tokens)
           n == Len(tokens)
<1>1. \A i \in 1..n : tokens[i] \in Seq(Char) /\ Len(tokens[i]) \in Nat /\ Len(tokens[i]) >= 1
  <2>1. \A i \in 1..n : tokens[i] \in Str
    OBVIOUS
  <2> QED  BY <2>1 DEF Str
<1>2. \A i \in 0..n : e[i] = IF i = 0 THEN 1 ELSE e[i - 1] + Len(tokens[i]) + 1
  BY EndsIs DEF EndOf
<1>3. /\ \A i \in 0..n : e[i] \in Nat /\ e[i] > i
      /\ \A i, j \in 0..n : i < j => e[i] + 1 < e[j]
  BY EndsAscend DEF EndOf
<1>4. n \in Nat
  OBVIOUS
<1> HIDE DEF e, n
<1> SUFFICES /\ n \in Nat /\ e[0] = 1
             /\ \A i \in 0..n : e[i] \in Nat /\ e[i] >= 1
             /\ \A i, j \in 0..n : i < j => e[i] + 1 < e[j]
             /\ \A i \in 1..n :
                   /\ i - 1 \in 0..n /\ e[i] = e[i - 1] + Len(tokens[i]) + 1
                   /\ tokens[i] \in Seq(Char) /\ Len(tokens[i]) \in Nat /\ Len(tokens[i]) >= 1
  BY DEF e, n
<1> QED  BY <1>1, <1>2, <1>3, <1>4

\* A position is an underscore's, or one in a token.
LEMMA Positions ==
    ASSUME NEW tokens \in Seq(Str), NEW k \in 2..EndOf(tokens, Len(tokens))
    PROVE  \E i \in 1..Len(tokens) :
              /\ EndOf(tokens, i - 1) < k /\ k <= EndOf(tokens, i)
              /\ k - EndOf(tokens, i - 1) \in 1..(Len(tokens[i]) + 1)
              /\ \A j \in 1..Len(tokens) :
                    (EndOf(tokens, j - 1) < k /\ k <= EndOf(tokens, j)) => j = i
<1> DEFINE e == Ends(tokens)
           n == Len(tokens)
           Behind == {i \in Nat : i <= n /\ k <= e[i]}
<1>1. /\ n \in Nat /\ e[0] = 1 /\ k \in 2..e[n]
      /\ \A i \in 0..n : e[i] \in Nat
  BY EndsFacts DEF EndOf
<1>a. \A i, j \in 0..n : i <= j => e[i] <= e[j]
  BY EndsFacts
<1>b. \A i \in 1..n : i - 1 \in 0..n /\ e[i] = e[i - 1] + Len(tokens[i]) + 1
                     /\ Len(tokens[i]) \in Nat
  BY EndsFacts
<1> HIDE DEF e, n
<1>2. PICK i \in Behind : i = 0 \/ (i - 1 \in Nat /\ i - 1 \notin Behind)
  <2>1. n \in Behind
    BY <1>1
  <2> QED  BY <2>1, LeastNumber
<1>3. i \in 1..n /\ i - 1 \in 0..n /\ e[i - 1] < k /\ k <= e[i]
  BY <1>1, <1>2
<1>4. k - e[i - 1] \in 1..(Len(tokens[i]) + 1)
  <2>1. e[i - 1] \in Nat /\ Len(tokens[i]) \in Nat /\ e[i] = e[i - 1] + Len(tokens[i]) + 1 /\ k \in Nat
    BY <1>1, <1>b, <1>3
  <2> QED  BY <1>3, <2>1
<1>5. ASSUME NEW j \in 1..n, e[j - 1] < k, k <= e[j] PROVE j = i
  <2>1. j - 1 \in 0..n /\ e[j - 1] \in Nat /\ e[j] \in Nat /\ e[i - 1] \in Nat /\ e[i] \in Nat
        /\ k \in Nat /\ i \in Nat /\ j \in Nat /\ i \in 0..n /\ j \in 0..n
    BY <1>1, <1>3
  <2>2. CASE j < i
    <3>1. e[j] <= e[i - 1]
      BY <1>a, <1>3, <2>1, <2>2
    <3> QED  BY <1>3, <1>5, <2>1, <3>1
  <2>3. CASE i < j
    <3>1. e[i] <= e[j - 1]
      BY <1>a, <2>1, <2>3
    <3> QED  BY <1>3, <1>5, <2>1, <3>1
  <2> QED  BY <2>1, <2>2, <2>3
<1> QED  BY <1>3, <1>4, <1>5 DEF e, n, EndOf

\* The characters of s between its underscores are the tokens'.
Spells(s, tokens) == \A i \in 1..Len(tokens) : \A c \in 1..Len(tokens[i]) :
                        s[Ends(tokens)[i - 1] + c] = tokens[i][c]

\* What the text of some tokens has at each position.
LEMMA JoinedIs ==
    ASSUME NEW tokens \in Seq(Str), tokens # << >>, NEW last
    PROVE  /\ Joined(tokens, last) \in Seq(Char \cup {Separator, last})
           /\ Len(Joined(tokens, last)) = Ends(tokens)[Len(tokens)]
           /\ Joined(tokens, last)[Ends(tokens)[Len(tokens)]] = last
           /\ \A i \in 0..(Len(tokens) - 1) : Joined(tokens, last)[Ends(tokens)[i]] = Separator
           /\ Spells(Joined(tokens, last), tokens)
<1> DEFINE e == Ends(tokens)
           n == Len(tokens)
           TokenAt(k) == CHOOSE i \in 1..n : e[i - 1] < k /\ k <= e[i]
           CharAt(k) == Append(tokens[TokenAt(k)], Separator)[k - e[TokenAt(k) - 1]]
           J == [k \in 1..e[n] |-> IF k = e[n] THEN last ELSE IF k = 1 THEN Separator ELSE CharAt(k)]
<1>1. Joined(tokens, last) = J
  BY DEF Joined, EndOf
<1>2. /\ n \in Nat /\ n >= 1 /\ e[0] = 1
      /\ \A i \in 0..n : e[i] \in Nat /\ e[i] >= 1
  BY EndsFacts
<1>a. /\ \A i, j \in 0..n : i < j => e[i] + 1 < e[j]
      /\ \A i \in 0..n : e[i] <= e[n]
  <2>1. \A i, j \in 0..n : i < j => e[i] + 1 < e[j]
    BY EndsFacts
  <2> HIDE DEF e, n
  <2>2. ASSUME NEW i \in 0..n PROVE e[i] <= e[n]
    <3>1. i = n \/ i < n
      BY <1>2
    <3>2. n \in 0..n /\ e[i] \in Nat /\ e[n] \in Nat
      BY <1>2
    <3> QED  BY <2>1, <3>1, <3>2
  <2> QED  BY <2>1, <2>2
<1>b. \A i \in 1..n : i - 1 \in 0..n /\ e[i] = e[i - 1] + Len(tokens[i]) + 1
  BY EndsFacts
<1>3. \A i \in 1..n : tokens[i] \in Seq(Char) /\ Len(tokens[i]) \in Nat /\ Len(tokens[i]) >= 1
  BY EndsFacts
<1>c. ASSUME NEW i \in 1..n
      PROVE  /\ i - 1 \in 0..n /\ e[i - 1] \in Nat /\ e[i] \in Nat /\ e[n] \in Nat
             /\ e[i] = e[i - 1] + Len(tokens[i]) + 1 /\ e[i] <= e[n] /\ e[i - 1] >= 1
             /\ Len(tokens[i]) \in Nat /\ Len(tokens[i]) + 1 \in 1..(Len(tokens[i]) + 1)
  <2>1. i - 1 \in 0..n /\ e[i] = e[i - 1] + Len(tokens[i]) + 1
    BY <1>b
  <2>2. Len(tokens[i]) \in Nat
    BY <1>3
  <2> HIDE DEF e, n
  <2> QED  BY <1>2, <1>a, <2>1, <2>2
<1>4. ASSUME NEW i \in 1..n, NEW c \in 1..(Len(tokens[i]) + 1)
      PROVE  /\ e[i - 1] + c \in 2..e[n]
             /\ CharAt(e[i - 1] + c) = Append(tokens[i], Separator)[c]
  <2>1. /\ e[i - 1] \in Nat /\ e[i] \in Nat /\ e[n] \in Nat /\ e[i - 1] >= 1
        /\ e[i] = e[i - 1] + Len(tokens[i]) + 1 /\ e[i] <= e[n] /\ Len(tokens[i]) \in Nat
    BY <1>c
  <2>2. PICK k : k = e[i - 1] + c
    OBVIOUS
  <2>3. c \in Nat /\ 1 <= c /\ c <= Len(tokens[i]) + 1
    BY <2>1
  <2>4. k \in 2..e[n] /\ e[i - 1] < k /\ k <= e[i] /\ k - e[i - 1] = c
    <3> HIDE DEF e, n
    <3>1. k \in Nat /\ e[i - 1] < k
      BY <2>1, <2>2, <2>3
    <3>2. 2 <= k
      BY <2>1, <2>2, <2>3
    <3>3. k <= e[i]
      BY <2>1, <2>2, <2>3
    <3>4. k - e[i - 1] = c
      BY <2>1, <2>2, <2>3
    <3>5. PICK size : size = e[n]
      OBVIOUS
    <3>6. k <= size /\ size \in Nat
      BY <2>1, <3>1, <3>3, <3>5
    <3> QED  BY <3>1, <3>2, <3>3, <3>4, <3>5, <3>6
  <2>5. PICK p \in 1..n : \A j \in 1..n : (e[j - 1] < k /\ k <= e[j]) => j = p
    BY <2>4, Positions DEF EndOf
  <2>6. TokenAt(k) = i
    <3> HIDE DEF e, n
    <3>1. e[TokenAt(k) - 1] < k /\ k <= e[TokenAt(k)] /\ TokenAt(k) \in 1..n
      BY <2>4
    <3> QED  BY <2>4, <2>5, <3>1
  <2> QED  BY <2>2, <2>4, <2>6
<1> HIDE DEF TokenAt, CharAt, e, n
<1>5. ASSUME NEW i \in 1..n, NEW c \in 1..(Len(tokens[i]) + 1), e[i - 1] + c # e[n]
      PROVE  J[e[i - 1] + c] = Append(tokens[i], Separator)[c]
  <2>1. e[i - 1] + c \in 2..e[n] /\ e[n] \in Nat
    BY <1>2, <1>4
  <2>2. CharAt(e[i - 1] + c) = Append(tokens[i], Separator)[c]
    BY <1>4
  <2>3. e[i - 1] + c \in 1..e[n] /\ e[i - 1] + c # 1
    BY <2>1
  <2>4. J[e[i - 1] + c] = CharAt(e[i - 1] + c)
    BY <1>5, <2>3
  <2> QED  BY <2>2, <2>4
<1>6. J[e[n]] = last /\ J[1] = Separator
  <2>1. 1 \in 1..e[n] /\ e[n] \in 1..e[n] /\ 1 # e[n]
    BY <1>2, <1>a
  <2> QED  BY <2>1
<1>7. ASSUME NEW i \in 0..(n - 1) PROVE J[e[i]] = Separator
  <2>1. CASE i = 0
    BY <1>2, <1>6, <2>1
  <2>2. CASE i # 0
    <3>1. i \in 1..n /\ e[i] # e[n]
      BY <1>2, <1>a, <2>2
    <3>2. e[i] = e[i - 1] + (Len(tokens[i]) + 1) /\ Len(tokens[i]) + 1 \in 1..(Len(tokens[i]) + 1)
      <4>1. e[i] = e[i - 1] + Len(tokens[i]) + 1 /\ e[i - 1] \in Nat /\ Len(tokens[i]) \in Nat
        BY <1>c, <3>1
      <4>2. Len(tokens[i]) + 1 \in 1..(Len(tokens[i]) + 1)
        BY <1>c, <3>1
      <4> HIDE DEF J
      <4> QED  BY <4>1, <4>2
    <3>3. Append(tokens[i], Separator)[Len(tokens[i]) + 1] = Separator
      BY <1>3, <3>1
    <3> QED  BY <1>5, <3>1, <3>2, <3>3
  <2> QED  BY <2>1, <2>2
<1>8. ASSUME NEW i \in 1..n, NEW c \in 1..Len(tokens[i])
      PROVE  J[e[i - 1] + c] = tokens[i][c]
  <2>1. e[i - 1] + c < e[i] /\ e[i] <= e[n] /\ c \in 1..(Len(tokens[i]) + 1)
        /\ e[i - 1] + c \in Nat
    BY <1>c, <1>8
  <2>2. J[e[i - 1] + c] = Append(tokens[i], Separator)[c]
    <3>1. e[i - 1] + c # e[n]
      BY <1>c, <2>1
    <3> QED  BY <1>5, <2>1, <3>1
  <2> QED  BY <1>3, <2>1, <2>2
<1>9. ASSUME NEW k \in 1..e[n] PROVE J[k] \in Char \cup {Separator, last}
  <2>1. CASE k = 1 \/ k = e[n]
    BY <2>1, <1>6
  <2>2. CASE k # 1 /\ k # e[n]
    <3>1. k \in 2..e[n]
      BY <1>2, <2>2
    <3>2. PICK i \in 1..n : k - e[i - 1] \in 1..(Len(tokens[i]) + 1)
      BY <3>1, Positions DEF e, n, EndOf
    <3>3. J[k] = Append(tokens[i], Separator)[k - e[i - 1]]
      <4>1. e[i - 1] + (k - e[i - 1]) = k
        BY <1>c, <3>1
      <4> QED  BY <1>5, <2>2, <3>2, <4>1
    <3> QED  BY <1>3, <3>2, <3>3
  <2> QED  BY <2>1, <2>2
<1>10. J \in Seq(Char \cup {Separator, last}) /\ Len(J) = e[n]
  <2>0. J = [k \in 1..e[n] |-> J[k]] /\ e[n] \in Nat
    BY <1>2
  <2>1. J \in [1..e[n] -> Char \cup {Separator, last}]
    <3> HIDE DEF J
    <3> QED  BY <1>9, <2>0
  <2> HIDE DEF J
  <2> QED  BY <2>0, <2>1
<1>11. Spells(J, tokens)
  BY <1>8 DEF e, n, Spells
<1> QED  BY <1>1, <1>6, <1>7, <1>10, <1>11 DEF e, n

LEMMA TokenChars ==
    ASSUME NEW tokens \in Seq(Str), NEW i \in 1..Len(tokens), NEW c \in 1..Len(tokens[i])
    PROVE  tokens[i][c] \in Char
<1>1. tokens[i] \in Seq(Char)
  BY EndsFacts
<1> QED  BY <1>1

LEMMA SameSequence ==
    ASSUME NEW u \in Seq(Char), NEW v \in Seq(Char), Len(u) = Len(v),
           \A c \in 1..Len(u) : u[c] = v[c]
    PROVE  u = v
OBVIOUS

LEMMA NoMarks == Separator \notin Char /\ Newline \notin Char /\ Null \notin Char
BY CharAssumption

LEMMA TextIs ==
    ASSUME NEW tokens \in Expression
    PROVE  /\ tokens \in Seq(Str) /\ Len(tokens) \in Nat /\ Len(tokens) >= 1
           /\ Text(tokens) \in Seq(Char \cup {Separator, Newline})
           /\ Len(Text(tokens)) = Ends(tokens)[Len(tokens)]
           /\ Text(tokens)[Ends(tokens)[Len(tokens)]] = Newline
           /\ \A i \in 0..(Len(tokens) - 1) : Text(tokens)[Ends(tokens)[i]] = Separator
           /\ \A i \in 1..Len(tokens) : \A c \in 1..Len(tokens[i]) :
                 /\ Text(tokens)[Ends(tokens)[i - 1] + c] = tokens[i][c]
                 /\ Text(tokens)[Ends(tokens)[i - 1] + c] \in Char
<1>1. tokens \in Seq(Str) /\ tokens # << >>
  BY DEF Expression, Str
<1>2. Len(tokens) \in Nat /\ Len(tokens) >= 1
  BY <1>1
<1>3. /\ Text(tokens) \in Seq(Char \cup {Separator, Newline})
      /\ Len(Text(tokens)) = Ends(tokens)[Len(tokens)]
      /\ Text(tokens)[Ends(tokens)[Len(tokens)]] = Newline
      /\ \A i \in 0..(Len(tokens) - 1) : Text(tokens)[Ends(tokens)[i]] = Separator
  BY <1>1, JoinedIs DEF Text
<1>4. \A j \in 1..Len(tokens) : \A c \in 1..Len(tokens[j]) :
         Text(tokens)[Ends(tokens)[j - 1] + c] = tokens[j][c]
  <2>1. Spells(Text(tokens), tokens)
    BY <1>1, JoinedIs DEF Text
  <2> QED  BY <2>1 DEF Spells
<1>5. \A i \in 1..Len(tokens) : \A c \in 1..Len(tokens[i]) : tokens[i][c] \in Char
  BY <1>1, TokenChars
<1> QED  BY <1>1, <1>2, <1>3, <1>4, <1>5

LEMMA PatternIs ==
    ASSUME NEW e \in Expression
    PROVE  /\ e \in Seq(Str) /\ Len(e) \in Nat /\ Len(e) >= 1
           /\ Pattern(e) \in Seq(Char \cup {Separator})
           /\ Len(Pattern(e)) = Ends(e)[Len(e)]
           /\ \A j \in 0..Len(e) : Pattern(e)[Ends(e)[j]] = Separator
           /\ \A j \in 1..Len(e) : \A c \in 1..Len(e[j]) :
                 /\ Pattern(e)[Ends(e)[j - 1] + c] = e[j][c]
                 /\ Pattern(e)[Ends(e)[j - 1] + c] \in Char
<1>1. e \in Seq(Str) /\ e # << >>
  BY DEF Expression, Str
<1>2. Len(e) \in Nat /\ Len(e) >= 1
  BY <1>1
<1>3. \A j \in 0..Len(e) : Pattern(e)[Ends(e)[j]] = Separator
  <2>1. /\ Pattern(e)[Ends(e)[Len(e)]] = Separator
        /\ \A j \in 0..(Len(e) - 1) : Pattern(e)[Ends(e)[j]] = Separator
    BY <1>1, JoinedIs DEF Pattern
  <2>2. \A j \in 0..Len(e) : j = Len(e) \/ j \in 0..(Len(e) - 1)
    BY <1>2
  <2> QED  BY <2>1, <2>2
<1>4. /\ Pattern(e) \in Seq(Char \cup {Separator})
      /\ Len(Pattern(e)) = Ends(e)[Len(e)]
  <2>1. Pattern(e) \in Seq(Char \cup {Separator, Separator})
    BY <1>1, JoinedIs DEF Pattern
  <2>2. {Separator, Separator} = {Separator}
    OBVIOUS
  <2> QED  BY <1>1, <2>1, <2>2, JoinedIs DEF Pattern
<1>5. \A j \in 1..Len(e) : \A c \in 1..Len(e[j]) : Pattern(e)[Ends(e)[j - 1] + c] = e[j][c]
  <2>1. Spells(Pattern(e), e)
    BY <1>1, JoinedIs DEF Pattern
  <2> QED  BY <2>1 DEF Spells
<1>6. \A j \in 1..Len(e) : \A c \in 1..Len(e[j]) : e[j][c] \in Char
  BY <1>1, TokenChars
<1> QED  BY <1>1, <1>2, <1>3, <1>4, <1>5, <1>6

\* Where a pattern ends in a text its tokens end, and no others: the heart of the
\* underscores at both ends of every word.
LEMMA PatternFound ==
    ASSUME NEW e \in Expression, NEW tokens \in Expression, NEW k,
           Matching!EndsAt(Pattern(e), Text(tokens), k)
    PROVE  \E i \in 0..Len(tokens) :
              /\ StartsAfter(e, tokens, i)
              /\ i + Len(e) < Len(tokens)
              /\ EndOf(tokens, i + Len(e)) = k
<1> DEFINE t == Ends(tokens)
           d == Ends(e)
           m == Len(e)
           n == Len(tokens)
           P == Pattern(e)
           T == Text(tokens)
<1>1. /\ m \in Nat /\ m >= 1 /\ n \in Nat /\ n >= 1
      /\ e \in Seq(Str) /\ tokens \in Seq(Str)
      /\ d[0] = 1 /\ t[0] = 1 /\ d[m] \in Nat /\ t[n] \in Nat
  <2>1. /\ m \in Nat /\ m >= 1 /\ n \in Nat /\ n >= 1
        /\ e \in Seq(Str) /\ tokens \in Seq(Str)
    BY TextIs, PatternIs
  <2>2. d[0] = 1 /\ t[0] = 1 /\ d[m] \in Nat /\ t[n] \in Nat
    BY <2>1, EndsFacts
  <2> QED  BY <2>1, <2>2
<1>2. PICK s \in Nat : /\ s + d[m] = k /\ s + d[m] <= t[n]
                       /\ \A i \in 1..d[m] : P[i] = T[s + i]
  <2>1. /\ k \in d[m]..t[n]
        /\ \A i \in 1..d[m] : P[i] = T[k - d[m] + i]
    BY TextIs, PatternIs DEF Matching!EndsAt
  <2>2. k - d[m] \in Nat /\ (k - d[m]) + d[m] = k /\ k <= t[n]
    BY <1>1, <2>1
  <2> QED  BY <2>1, <2>2
<1>3. ASSUME NEW i \in 1..n
      PROVE  /\ i - 1 \in 0..n /\ t[i - 1] \in Nat /\ t[i] \in Nat
             /\ t[i] = t[i - 1] + Len(tokens[i]) + 1
             /\ Len(tokens[i]) \in Nat /\ Len(tokens[i]) >= 1 /\ tokens[i] \in Seq(Char)
  <2>1. /\ i - 1 \in 0..n /\ t[i] = t[i - 1] + Len(tokens[i]) + 1
        /\ Len(tokens[i]) \in Nat /\ Len(tokens[i]) >= 1 /\ tokens[i] \in Seq(Char)
    BY <1>1, EndsFacts
  <2>2. \A a \in 0..n : t[a] \in Nat
    BY <1>1, EndsFacts
  <2> HIDE DEF t, n
  <2>3. i \in 0..n
    BY <1>1
  <2> QED  BY <2>1, <2>2, <2>3
<1>4. ASSUME NEW j \in 1..m
      PROVE  /\ j - 1 \in 0..m /\ d[j - 1] \in Nat /\ d[j] \in Nat /\ d[j] <= d[m]
             /\ d[j] = d[j - 1] + Len(e[j]) + 1 /\ d[j - 1] >= 1
             /\ Len(e[j]) \in Nat /\ Len(e[j]) >= 1 /\ e[j] \in Seq(Char)
  <2>1. /\ j - 1 \in 0..m /\ d[j - 1] \in Nat /\ d[j] \in Nat
        /\ d[j] = d[j - 1] + Len(e[j]) + 1 /\ d[j - 1] >= 1
        /\ Len(e[j]) \in Nat /\ Len(e[j]) >= 1 /\ e[j] \in Seq(Char)
    BY <1>1, EndsFacts
  <2>2. d[j] <= d[m]
    <3>1. \A a, b \in 0..m : a < b => d[a] + 1 < d[b]
      BY <1>1, EndsFacts
    <3>2. j = m \/ j < m
      BY <1>1
    <3>3. j \in 0..m /\ m \in 0..m
      BY <1>1
    <3> HIDE DEF d, m
    <3> QED  BY <1>1, <2>1, <3>1, <3>2, <3>3
  <2> QED  BY <2>1, <2>2
<1>5. /\ \A j \in 0..m : P[d[j]] = Separator
      /\ \A j \in 1..m : \A c \in 1..Len(e[j]) :
            P[d[j - 1] + c] = e[j][c] /\ P[d[j - 1] + c] \in Char
  BY PatternIs
<1>6. /\ T[t[n]] = Newline
      /\ \A i \in 0..(n - 1) : T[t[i]] = Separator
      /\ \A i \in 1..n : \A c \in 1..Len(tokens[i]) :
            T[t[i - 1] + c] = tokens[i][c] /\ T[t[i - 1] + c] \in Char
  BY TextIs
<1>7. \A p \in 2..t[n] : \E i \in 1..n : p - t[i - 1] \in 1..(Len(tokens[i]) + 1)
  BY <1>1, Positions DEF EndOf
<1> HIDE DEF t, d, m, n, P, T
\* The pattern's first underscore is one in front of a token.
<1>8. PICK f \in 0..(n - 1) : t[f] = s + 1
  <2>1. T[s + 1] = Separator
    <3>1. 0 \in 0..m
      BY <1>1
    <3>2. P[1] = Separator
      BY <1>1, <1>5, <3>1
    <3>3. 1 \in 1..d[m]
      <4>1. m \in 1..m
        BY <1>1
      <4>2. d[m] = d[m - 1] + Len(e[m]) + 1 /\ d[m - 1] \in Nat /\ Len(e[m]) \in Nat
        BY <1>4, <4>1
      <4> QED  BY <4>2
    <3> QED  BY <1>2, <3>2, <3>3
  <2>2. s + 1 <= t[n]
    <3>1. d[m] >= 1
      <4>1. m \in 1..m
        BY <1>1
      <4>2. d[m] = d[m - 1] + Len(e[m]) + 1 /\ d[m - 1] \in Nat /\ Len(e[m]) \in Nat
        BY <1>4, <4>1
      <4> QED  BY <4>2
    <3> QED  BY <1>1, <1>2, <3>1
  <2>3. CASE s = 0
    BY <1>1, <2>3
  <2>4. CASE s # 0
    <3>1. s + 1 \in 2..t[n]
      BY <1>1, <2>2, <2>4
    <3>2. PICK i \in 1..n : (s + 1) - t[i - 1] \in 1..(Len(tokens[i]) + 1)
      BY <1>7, <3>1
    <3>3. PICK c : c = (s + 1) - t[i - 1]
      OBVIOUS
    <3>4. s + 1 = t[i - 1] + c /\ c \in 1..(Len(tokens[i]) + 1) /\ c \in Nat
      BY <1>3, <3>2, <3>3
    <3>5. c \notin 1..Len(tokens[i])
      BY <1>6, <2>1, <3>4, NoMarks
    <3>6. s + 1 = t[i]
      BY <1>3, <3>4, <3>5
    <3>7. i # n
      BY <1>6, <2>1, <3>6, CharAssumption
    <3>8. i \in 0..(n - 1)
      BY <1>1, <3>7
    <3> QED  BY <3>6, <3>8
  <2> QED  BY <2>3, <2>4
<1> DEFINE Follows(j) == /\ f + j <= n - 1
                         /\ s + d[j] = t[f + j]
                         /\ j # 0 => tokens[f + j] = e[j]
           Other == {j \in Nat : j <= m /\ ~ Follows(j)}
\* One token after the other is the expression's.
<1>9. ASSUME NEW j \in 1..m, f + (j - 1) <= n - 1, s + d[j - 1] = t[f + (j - 1)]
      PROVE  Follows(j)
  <2>1. PICK i : i = f + j
    OBVIOUS
  <2>2. i \in 1..n /\ i - 1 = f + (j - 1) /\ s + d[j - 1] = t[i - 1]
    BY <1>1, <1>8, <1>9, <2>1
  <2>3. /\ t[i - 1] \in Nat /\ t[i] \in Nat /\ t[i] = t[i - 1] + Len(tokens[i]) + 1
        /\ Len(tokens[i]) \in Nat /\ tokens[i] \in Seq(Char)
    BY <1>3, <2>2
  <2>4. /\ d[j - 1] \in Nat /\ d[j] \in Nat /\ d[j] <= d[m] /\ d[j - 1] >= 1
        /\ d[j] = d[j - 1] + Len(e[j]) + 1
        /\ Len(e[j]) \in Nat /\ e[j] \in Seq(Char)
    BY <1>4
  <2>5. ASSUME NEW c \in Nat, c >= 1, c <= Len(e[j]) + 1
        PROVE  P[d[j - 1] + c] = T[t[i - 1] + c]
    <3>1. d[j - 1] + c \in 1..d[m]
      <4>1. d[j - 1] + c \in Nat /\ d[j - 1] + c >= 1
        BY <2>4, <2>5
      <4>2. d[j - 1] + c <= d[j]
        BY <2>4, <2>5
      <4>3. d[j - 1] + c <= d[m]
        BY <1>1, <2>4, <4>1, <4>2
      <4> QED  BY <1>1, <4>1, <4>3
    <3>2. P[d[j - 1] + c] = T[s + (d[j - 1] + c)]
      BY <1>2, <3>1
    <3>3. s + (d[j - 1] + c) = t[i - 1] + c
      <4>1. s \in Nat /\ d[j - 1] \in Nat /\ c \in Nat /\ s + d[j - 1] = t[i - 1]
        BY <1>2, <2>2, <2>4, <2>5
      <4>2. s + (d[j - 1] + c) = (s + d[j - 1]) + c
        BY <4>1
      <4> QED  BY <4>1, <4>2
    <3> QED  BY <3>2, <3>3
  <2>6. T[t[i]] \notin Char
    <3>1. i = n \/ i \in 0..(n - 1)
      BY <1>1, <2>2
    <3> QED  BY <1>6, <3>1, NoMarks
  <2>7. P[d[j]] = Separator
    BY <1>5
  <2>8. ~ Len(e[j]) > Len(tokens[i])
    <3>1. SUFFICES ASSUME Len(e[j]) > Len(tokens[i]) PROVE FALSE
      OBVIOUS
    <3>2. PICK c : c = Len(tokens[i]) + 1
      OBVIOUS
    <3>3. c \in Nat /\ c >= 1 /\ c <= Len(e[j]) + 1 /\ c \in 1..Len(e[j])
      <4>1. Len(e[j]) \in Nat /\ Len(tokens[i]) \in Nat
        BY <2>3, <2>4
      <4>2. c \in Nat /\ c >= 1 /\ c <= Len(e[j])
        BY <3>1, <3>2, <4>1
      <4> QED  BY <4>1, <4>2
    <3>4. t[i - 1] + c = t[i]
      BY <2>3, <3>2
    <3>5. P[d[j - 1] + c] \in Char
      BY <1>5, <3>3
    <3> QED  BY <2>5, <2>6, <3>3, <3>4, <3>5
  <2>9. ~ Len(e[j]) < Len(tokens[i])
    <3>1. SUFFICES ASSUME Len(e[j]) < Len(tokens[i]) PROVE FALSE
      OBVIOUS
    <3>2. PICK c : c = Len(e[j]) + 1
      OBVIOUS
    <3>3. c \in Nat /\ c >= 1 /\ c <= Len(e[j]) + 1 /\ c \in 1..Len(tokens[i])
      <4>1. Len(e[j]) \in Nat /\ Len(tokens[i]) \in Nat
        BY <2>3, <2>4
      <4>2. c \in Nat /\ c >= 1 /\ c <= Len(e[j]) + 1 /\ c <= Len(tokens[i])
        BY <3>1, <3>2, <4>1
      <4> QED  BY <4>1, <4>2
    <3>4. d[j - 1] + c = d[j]
      BY <2>4, <3>2
    <3>5. T[t[i - 1] + c] \in Char
      BY <1>6, <2>2, <3>3
    <3> QED  BY <2>5, <2>7, <3>3, <3>4, <3>5, NoMarks
  <2>10. Len(e[j]) = Len(tokens[i])
    BY <2>3, <2>4, <2>8, <2>9
  <2>11. tokens[i] = e[j]
    <3>1. ASSUME NEW c \in 1..Len(e[j]) PROVE tokens[i][c] = e[j][c]
      <4>1. c \in Nat /\ c >= 1 /\ c <= Len(e[j]) + 1 /\ c \in 1..Len(tokens[i])
        BY <2>4, <2>10
      <4> QED  BY <1>5, <1>6, <2>2, <2>5, <4>1
    <3> QED  BY <2>3, <2>4, <2>10, <3>1, SameSequence
  <2>12. s + d[j] = t[i]
    BY <2>2, <2>3, <2>4, <2>10
  <2>13. i # n
    <3>1. d[j] \in 1..d[m]
      BY <1>1, <2>4
    <3>2. P[d[j]] = T[s + d[j]]
      BY <1>2, <3>1
    <3> QED  BY <1>6, <2>7, <2>12, <3>2, CharAssumption
  <2> QED  BY <1>1, <2>1, <2>2, <2>11, <2>12, <2>13
<1>10. Other = {}
  <2>1. SUFFICES ASSUME Other # {} PROVE FALSE
    OBVIOUS
  <2>2. PICK j \in Other : j = 0 \/ (j - 1 \in Nat /\ j - 1 \notin Other)
    BY <2>1, LeastNumber
  <2>3. CASE j = 0
    <3>1. f + 0 = f /\ f <= n - 1 /\ s + 1 = 1 + s
      BY <1>1, <1>8
    <3> QED  BY <1>1, <1>8, <2>2, <2>3, <3>1
  <2>4. CASE j # 0
    <3>1. j \in 1..m /\ j - 1 \in Nat /\ j - 1 <= m
      BY <1>1, <2>2, <2>4
    <3>2. Follows(j - 1)
      BY <2>2, <2>4, <3>1
    <3> QED  BY <1>9, <2>2, <3>1, <3>2
  <2> QED  BY <2>3, <2>4
<1>11. ASSUME NEW j \in 0..m PROVE Follows(j)
  <2>1. j \in Nat /\ j <= m
    BY <1>1
  <2> HIDE DEF Follows
  <2>2. j \notin Other
    BY <1>10
  <2> QED  BY <2>1, <2>2
<1>12. f \in 0..n /\ m \in 0..m /\ f + m < n /\ f + m <= n /\ t[f + m] = k
  <2>1. m \in 0..m
    BY <1>1
  <2>2. Follows(m)
    BY <1>11, <2>1
  <2> QED  BY <1>1, <1>2, <1>8, <2>1, <2>2
<1>13. \A j \in 1..m : tokens[f + j] = e[j]
  <2>1. \A j \in 1..m : j \in 0..m /\ j # 0
    BY <1>1
  <2> QED  BY <1>11, <2>1
<1> QED  BY <1>12, <1>13 DEF StartsAfter, EndOf, t, m, n

\* The positions of the underscores name the tokens.
LEMMA EndsDiffer ==
    ASSUME NEW tokens \in Seq(Str), NEW i \in 0..Len(tokens), NEW j \in 0..Len(tokens),
           Ends(tokens)[i] = Ends(tokens)[j]
    PROVE  i = j
<1>1. /\ \A h, g \in 0..Len(tokens) : h < g => Ends(tokens)[h] + 1 < Ends(tokens)[g]
      /\ \A h \in 0..Len(tokens) : Ends(tokens)[h] \in Nat
      /\ Len(tokens) \in Nat
  BY EndsFacts
<1>2. i < j \/ j < i \/ i = j
  BY <1>1
<1>3. Ends(tokens)[i] \in Nat /\ Ends(tokens)[j] \in Nat
  BY <1>1
<1>4. /\ i < j => Ends(tokens)[i] + 1 < Ends(tokens)[j]
      /\ j < i => Ends(tokens)[j] + 1 < Ends(tokens)[i]
  BY <1>1
<1> QED  BY <1>2, <1>3, <1>4

\* The lower-cased line has its tokens where the line has them.
LEMMA LowercaseIs ==
    ASSUME NEW l \in Seq(Token) \ {<< >>}
    PROVE  /\ l \in Expression /\ Lowercase(l) \in Expression
           /\ Len(Lowercase(l)) = Len(l)
           /\ \A i \in 0..Len(l) : Ends(Lowercase(l))[i] = Ends(l)[i]
           /\ \A i \in 1..Len(l) : Lowercase(l)[i] \in Listed <=> l[i] \in Listed
<1> DEFINE low == Lowercase(l)
           n == Len(l)
<1>1. l \in Expression /\ n \in Nat /\ n >= 1
  BY TokenAssumption DEF Expression
<1>2. ASSUME NEW i \in 1..n
      PROVE  /\ low[i] \in Seq(Char) \ {<< >>} /\ Len(low[i]) = Len(l[i])
             /\ low[i] \in Listed <=> l[i] \in Listed
  <2>1. l[i] \in Token /\ l[i] \in Seq(Char) \ {<< >>}
    BY TokenAssumption
  <2>2. low[i] = IF l[i] \in Word THEN Lower[l[i]] ELSE l[i]
    BY DEF Lowercase
  <2>3. l[i] \in Word => /\ Lower[l[i]] \in Word /\ Len(Lower[l[i]]) = Len(l[i])
                        /\ Lower[l[i]] \in Token /\ Lower[l[i]] \notin Listed /\ l[i] \notin Listed
    BY TokenAssumption DEF Token
  <2> QED  BY <2>1, <2>2, <2>3, TokenAssumption
<1>3. low \in Expression /\ Len(low) = n
  <2>1. low = [i \in 1..n |-> low[i]]
    BY DEF Lowercase
  <2> HIDE DEF low
  <2>2. low \in Seq(Seq(Char) \ {<< >>}) /\ Len(low) = n
    BY <1>1, <1>2, <2>1
  <2>3. low # << >>
    BY <1>1, <2>2
  <2> QED  BY <2>2, <2>3 DEF Expression
<1>4. l \in Seq(Str) /\ low \in Seq(Str)
  BY <1>1, <1>3, TextIs
<1> DEFINE Other == {i \in Nat : i <= n /\ Ends(low)[i] # Ends(l)[i]}
<1>5. Other = {}
  <2>1. SUFFICES ASSUME Other # {} PROVE FALSE
    OBVIOUS
  <2>2. PICK i \in Other : i = 0 \/ (i - 1 \in Nat /\ i - 1 \notin Other)
    BY <2>1, LeastNumber
  <2>3. i # 0
    BY <1>4, <2>2, EndsFacts
  <2>4. i \in 1..n /\ i - 1 <= n
    BY <1>1, <2>2, <2>3
  <2>5. Ends(low)[i - 1] = Ends(l)[i - 1]
    BY <2>2, <2>3, <2>4
  <2>6. Ends(low)[i] = Ends(low)[i - 1] + Len(low[i]) + 1
    BY <1>3, <1>4, <2>4, EndsFacts
  <2>7. Ends(l)[i] = Ends(l)[i - 1] + Len(l[i]) + 1
    BY <1>4, <2>4, EndsFacts
  <2> QED  BY <1>2, <2>2, <2>4, <2>5, <2>6, <2>7
<1>6. \A i \in 0..n : Ends(low)[i] = Ends(l)[i]
  <2>1. \A i \in 0..n : i \in Nat /\ i <= n
    BY <1>1
  <2> QED  BY <1>5, <2>1
<1> QED  BY <1>1, <1>2, <1>3, <1>6

\* A string is the part in front of the first Null.
LEMMA StringIs ==
    ASSUME NEW S, NEW s \in Seq(S)
    PROVE  /\ String(s) \in Seq(S) /\ Len(String(s)) \in Nat /\ Len(String(s)) <= Len(s)
           /\ \A i \in 1..Len(String(s)) : String(s)[i] = s[i] /\ s[i] # Null
           /\ \A k \in 0..Len(s) : (\A i \in 1..k : s[i] # Null) => k <= Len(String(s))
<1> DEFINE ends == {k \in 1..Len(s) : s[k] = Null}
<1>1. CASE ends = {}
  <2>1. String(s) = s
    BY <1>1 DEF String
  <2> QED  BY <1>1, <2>1
<1>2. CASE ends # {}
  <2>1. PICK n \in ends : \A y \in ends : n <= y
    <3>1. ends \subseteq Nat
      OBVIOUS
    <3> QED  BY <1>2, <3>1, LeastNumber
  <2>2. Least(ends) = n
    <3>1. \A x \in ends : (\A y \in ends : x <= y) => x = n
      BY <2>1
    <3> QED  BY <2>1, <3>1 DEF Least
  <2>3. String(s) = SubSeq(s, 1, n - 1)
    BY <1>2, <2>2 DEF String
  <2>4. n \in 1..Len(s) /\ s[n] = Null /\ \A i \in 1..(n - 1) : s[i] # Null
    BY <2>1
  <2>5. /\ SubSeq(s, 1, n - 1) \in Seq(S) /\ Len(SubSeq(s, 1, n - 1)) = n - 1
        /\ \A i \in 1..(n - 1) : SubSeq(s, 1, n - 1)[i] = s[i]
    BY <2>4
  <2> HIDE DEF ends
  <2> QED  BY <2>3, <2>4, <2>5
<1> QED  BY <1>1, <1>2

\* The positions up to a last one, and those of them in S.
LEMMA AmongIs ==
    ASSUME NEW first \in Int, NEW size \in Nat, NEW S
    PROVE  LET kept == Among(UpTo(first, first + size - 1), S)
           IN /\ Len(kept) \in Nat
              /\ kept \in Seq(first..(first + size - 1))
              /\ \A k \in 1..Len(kept) : kept[k] \in S
              /\ \A i \in first..(first + size - 1) : i \in S => \E k \in 1..Len(kept) : kept[k] = i
              /\ first..(first + size - 1) \subseteq S => kept = UpTo(first, first + size - 1)
<1> DEFINE s == UpTo(first, first + size - 1)
           at == {i \in 1..size : s[i] \in S}
           Row(f, m) == f = [n \in 0..m |-> IF n = 0 THEN << >>
                                ELSE IF n \in at THEN Append(f[n - 1], s[n]) ELSE f[n - 1]]
           Right(q, n) == /\ q \in Seq(first..(first + n - 1)) /\ Len(q) \in 0..n
                          /\ \A k \in 1..Len(q) : q[k] \in S
                          /\ \A i \in first..(first + n - 1) : i \in S =>
                                \E k \in 1..Len(q) : q[k] = i
                          /\ first..(first + n - 1) \subseteq S =>
                                Len(q) = n /\ \A k \in 1..n : q[k] = first + k - 1
<1>1. /\ s = [i \in 1..size |-> first + i - 1] /\ Len(s) = size
      /\ \A i \in 1..size : s[i] = first + i - 1
  <2>1. (first + size - 1) - first + 1 = size
    OBVIOUS
  <2> QED  BY <2>1 DEF UpTo
<1>2. Among(s, S) = (CHOOSE f : Row(f, size))[size]
  BY <1>1 DEF Among
<1> HIDE DEF s, at
<1>3. ASSUME NEW q, NEW n \in Nat, n # 0, n <= size, Right(q, n - 1)
      PROVE  Right(IF n \in at THEN Append(q, s[n]) ELSE q, n)
  <2>1. n \in 1..size /\ s[n] = first + n - 1 /\ n - 1 \in Nat
        /\ (n \in at <=> first + n - 1 \in S)
    BY <1>1, <1>3 DEF at
  <2>2. PICK last : last = first + n - 1
    OBVIOUS
  <2>3. /\ last \in Int /\ first + (n - 1) - 1 = last - 1 /\ s[n] = last
        /\ (n \in at <=> last \in S)
        /\ \A i \in first..last : i = last \/ i \in first..(last - 1)
        /\ first..(last - 1) \subseteq first..last /\ last \in first..last
    BY <2>1, <2>2
  <2>4. /\ q \in Seq(first..(last - 1)) /\ Len(q) \in 0..(n - 1)
        /\ \A k \in 1..Len(q) : q[k] \in S
        /\ \A i \in first..(last - 1) : i \in S => \E k \in 1..Len(q) : q[k] = i
        /\ first..(last - 1) \subseteq S =>
              Len(q) = n - 1 /\ \A k \in 1..(n - 1) : q[k] = first + k - 1
    BY <1>3, <2>3
  <2>5. CASE n \notin at
    <3>1. q \in Seq(first..last)
      BY <2>3, <2>4
    <3>2. last \notin S
      BY <2>3, <2>5
    <3>3. Len(q) \in 0..n
      BY <2>1, <2>4
    <3>4. \A i \in first..last : i \in S => \E k \in 1..Len(q) : q[k] = i
      BY <2>3, <2>4, <3>2
    <3>5. Right(q, n)
      BY <2>2, <2>3, <2>4, <3>1, <3>2, <3>3, <3>4
    <3> QED  BY <2>5, <3>5
  <2>6. CASE n \in at
    <3> DEFINE r == Append(q, last)
    <3>1. /\ r \in Seq(first..last) /\ Len(r) = Len(q) + 1 /\ Len(q) \in Nat
          /\ \A k \in 1..Len(q) : r[k] = q[k]
          /\ r[Len(q) + 1] = last
      <4>1. q \in Seq(first..last)
        BY <2>3, <2>4
      <4> QED  BY <2>3, <2>4, <4>1
    <3> HIDE DEF r
    <3>2. Len(r) \in 0..n
      BY <2>1, <2>4, <3>1
    <3>3. \A k \in 1..Len(r) : k = Len(q) + 1 \/ k \in 1..Len(q)
      BY <3>1
    <3>4. \A k \in 1..Len(r) : r[k] \in S
      BY <2>3, <2>4, <2>6, <3>1, <3>3
    <3>5. ASSUME NEW i \in first..last, i \in S PROVE \E k \in 1..Len(r) : r[k] = i
      <4>1. CASE i = last
        BY <3>1, <4>1
      <4>2. CASE i \in first..(last - 1)
        <5>1. PICK k \in 1..Len(q) : q[k] = i
          BY <2>4, <3>5, <4>2
        <5> QED  BY <3>1, <5>1
      <4> QED  BY <2>3, <4>1, <4>2
    <3>6. ASSUME first..last \subseteq S
          PROVE  Len(r) = n /\ \A k \in 1..n : r[k] = first + k - 1
      <4>1. Len(q) = n - 1 /\ \A k \in 1..(n - 1) : q[k] = first + k - 1
        BY <2>3, <2>4, <3>6
      <4>2. Len(r) = n /\ r[n] = first + n - 1
        BY <2>1, <2>2, <3>1, <4>1
      <4>3. \A k \in 1..n : k = n \/ k \in 1..(n - 1)
        BY <2>1
      <4> QED  BY <3>1, <4>1, <4>2, <4>3
    <3>7. Right(r, n)
      BY <2>2, <3>1, <3>2, <3>4, <3>5, <3>6
    <3> QED  BY <2>3, <2>6, <3>7 DEF r
  <2> QED  BY <2>5, <2>6
<1>4. Right(<< >>, 0)
  <2>1. first..(first + 0 - 1) = {}
    OBVIOUS
  <2> QED  BY <2>1
<1> HIDE DEF Right
<1> DEFINE Unrowed == {m \in Nat : m <= size /\ ~ \E f : Row(f, m) /\ \A n \in 0..m : Right(f[n], n)}
<1>5. Unrowed = {}
  <2>1. SUFFICES ASSUME Unrowed # {} PROVE FALSE
    OBVIOUS
  <2>2. PICK m \in Unrowed : m = 0 \/ (m - 1 \in Nat /\ m - 1 \notin Unrowed)
    BY <2>1, LeastNumber
  <2>3. CASE m = 0
    <3>1. Row([n \in 0..0 |-> << >>], 0)
      OBVIOUS
    <3>2. \A n \in 0..0 : Right([h \in 0..0 |-> << >>][n], n)
      BY <1>4
    <3> QED  BY <2>2, <2>3, <3>1, <3>2
  <2>4. CASE m # 0
    <3>1. m - 1 \in Nat /\ m - 1 \notin Unrowed /\ m \in Nat /\ m <= size
      BY <2>2, <2>4
    <3>2. PICK f : Row(f, m - 1) /\ \A n \in 0..(m - 1) : Right(f[n], n)
      BY <3>1
    <3> DEFINE next == IF m \in at THEN Append(f[m - 1], s[m]) ELSE f[m - 1]
               g == [n \in 0..m |-> IF n < m THEN f[n] ELSE next]
    <3>3. g[m] = next /\ \A n \in 0..(m - 1) : g[n] = f[n]
      BY <3>1
    <3>4. Right(next, m)
      <4>1. Right(f[m - 1], m - 1)
        BY <3>1, <3>2
      <4> QED  BY <1>3, <2>4, <3>1, <4>1
    <3>5. g = [n \in 0..m |-> g[n]]
      OBVIOUS
    <3> HIDE DEF g
    <3>6. ASSUME NEW n \in 0..m
          PROVE  g[n] = IF n = 0 THEN << >>
                        ELSE IF n \in at THEN Append(g[n - 1], s[n]) ELSE g[n - 1]
      <4>1. CASE n = m
        <5>1. g[m - 1] = f[m - 1]
          BY <3>1, <3>3
        <5> QED  BY <2>4, <3>3, <4>1, <5>1
      <4>2. CASE n # m
        <5>1. n \in 0..(m - 1) /\ (n # 0 => n - 1 \in 0..(m - 1))
          BY <3>1, <4>2
        <5>2. f[n] = IF n = 0 THEN << >>
                     ELSE IF n \in at THEN Append(f[n - 1], s[n]) ELSE f[n - 1]
          BY <3>2, <5>1
        <5> QED  BY <3>3, <5>1, <5>2
      <4> QED  BY <4>1, <4>2
    <3>7. Row(g, m)
      BY <3>5, <3>6
    <3>8. \A n \in 0..m : n = m \/ n \in 0..(m - 1)
      BY <3>1
    <3>9. \A n \in 0..m : Right(g[n], n)
      BY <3>2, <3>3, <3>4, <3>8
    <3> QED  BY <2>2, <3>7, <3>9
  <2> QED  BY <2>3, <2>4
<1>6. PICK f : Row(f, size) /\ \A n \in 0..size : Right(f[n], n)
  <2>1. size \in Nat /\ size <= size
    OBVIOUS
  <2> HIDE DEF Row
  <2> QED  BY <1>5, <2>1
<1>7. (CHOOSE h : Row(h, size)) = f
  <2>1. ASSUME NEW g, Row(g, size) PROVE g = f
    <3> DEFINE Other == {n \in Nat : n <= size /\ g[n] # f[n]}
    <3>1. Other = {}
      <4>1. SUFFICES ASSUME Other # {} PROVE FALSE
        OBVIOUS
      <4>2. PICK n \in Other : n = 0 \/ (n - 1 \in Nat /\ n - 1 \notin Other)
        BY <4>1, LeastNumber
      <4>3. n \in 0..size
        OBVIOUS
      <4>4. n # 0 => g[n - 1] = f[n - 1]
        BY <4>2
      <4>5. /\ g[n] = IF n = 0 THEN << >>
                      ELSE IF n \in at THEN Append(g[n - 1], s[n]) ELSE g[n - 1]
            /\ f[n] = IF n = 0 THEN << >>
                      ELSE IF n \in at THEN Append(f[n - 1], s[n]) ELSE f[n - 1]
        BY <1>6, <2>1, <4>3
      <4> QED  BY <4>2, <4>4, <4>5
    <3>2. \A n \in 0..size : g[n] = f[n]
      BY <3>1
    <3>3. DOMAIN g = 0..size /\ DOMAIN f = 0..size
      BY <1>6, <2>1
    <3>4. g = [n \in 0..size |-> g[n]] /\ f = [n \in 0..size |-> f[n]]
      BY <1>6, <2>1, <3>3
    <3> HIDE DEF Row
    <3> QED  BY <3>2, <3>4
  <2> HIDE DEF Row
  <2> QED  BY <1>6, <2>1
<1>8. PICK kept : kept = Among(s, S) /\ Right(kept, size)
  <2>1. size \in 0..size
    OBVIOUS
  <2> HIDE DEF Row
  <2>2. Among(s, S) = f[size] /\ Right(f[size], size)
    BY <1>2, <1>6, <1>7, <2>1
  <2> QED  BY <2>2
<1>9. /\ Len(kept) \in Nat
      /\ kept \in Seq(first..(first + size - 1))
      /\ \A k \in 1..Len(kept) : kept[k] \in S
      /\ \A i \in first..(first + size - 1) : i \in S => \E k \in 1..Len(kept) : kept[k] = i
      /\ first..(first + size - 1) \subseteq S =>
            Len(kept) = size /\ \A k \in 1..size : kept[k] = first + k - 1
  BY <1>8 DEF Right
<1>10. first..(first + size - 1) \subseteq S => kept = s
  <2>1. SUFFICES ASSUME first..(first + size - 1) \subseteq S PROVE kept = s
    OBVIOUS
  <2>2. Len(kept) = size /\ \A k \in 1..size : kept[k] = first + k - 1
    BY <1>9, <2>1
  <2>3. kept = [k \in 1..Len(kept) |-> kept[k]]
    BY <1>9
  <2> QED  BY <1>1, <2>2, <2>3
<1> QED  BY <1>8, <1>9, <1>10 DEF s

\* Ids count the tokens that are not punctuation.
LEMMA CountedIs ==
    ASSUME NEW l \in Seq(Token) \ {<< >>}, NEW i \in 1..Len(l)
    PROVE  /\ Counted(l, i) \in Nat /\ Counted(l, i - 1) \in Nat
           /\ l[i] \notin Listed => Counted(l, i) = Counted(l, i - 1) + 1
<1> DEFINE Words(n) == {j \in 1..n : ~ IsPunctuation(l[j])}
<1>1. i \in Nat /\ i - 1 \in Nat
  OBVIOUS
<1>2. ASSUME NEW n \in Nat PROVE IsFiniteSet(Words(n)) /\ Cardinality(Words(n)) \in Nat
  <2>1. IsFiniteSet(1..n)
    BY FS_Interval
  <2>2. IsFiniteSet(Words(n))
    BY <2>1, FS_Subset
  <2> QED  BY <2>2, FS_CardinalityType
<1>3. ASSUME l[i] \notin Listed PROVE Cardinality(Words(i)) = Cardinality(Words(i - 1)) + 1
  <2>1. Words(i) = Words(i - 1) \cup {i} /\ i \notin Words(i - 1)
    BY <1>1, <1>3 DEF IsPunctuation
  <2> HIDE DEF Words
  <2>2. Cardinality(Words(i - 1) \cup {i}) = Cardinality(Words(i - 1)) + 1
    BY <1>1, <1>2, <2>1, FS_AddElement
  <2> QED  BY <2>1, <2>2
<1> QED  BY <1>1, <1>2, <1>3 DEF Counted

\* A token that has an entry has one, and no other's has its position.
LEMMA EntriesIs ==
    ASSUME NEW l \in Seq(Token) \ {<< >>}, NEW last \in 1..(Len(l) - 1),
           program.counts \/ l[last] \notin Listed
    PROVE  /\ \E k \in 1..Len(Entries(l)) : Entries(l)[k].offset = Ends(l)[last]
           /\ \A k \in 1..Len(Entries(l)) : Entries(l)[k].offset = Ends(l)[last] =>
                 Entries(l)[k].id = IF program.counts THEN last ELSE Counted(l, last)
<1> DEFINE S == {i \in 1..Len(l) : program.counts \/ ~ IsPunctuation(l[i])}
           n == Len(l) - 1
           entered == Among(UpTo(1, n), S)
<1>1. n \in Nat /\ Len(l) \in Nat /\ l \in Seq(Str) /\ 1 + n - 1 = n /\ 1 \in Int
  BY LowercaseIs, TextIs
<1>2. /\ Len(entered) \in Nat /\ entered \in Seq(1..n)
      /\ \A i \in 1..n : i \in S => \E k \in 1..Len(entered) : entered[k] = i
  <2> HIDE DEF S, n
  <2>1. LET kept == Among(UpTo(1, 1 + n - 1), S)
        IN /\ Len(kept) \in Nat /\ kept \in Seq(1..(1 + n - 1))
           /\ \A i \in 1..(1 + n - 1) : i \in S => \E k \in 1..Len(kept) : kept[k] = i
    BY <1>1, AmongIs
  <2> QED  BY <1>1, <2>1
<1>3. Entries(l) = [k \in 1..Len(entered) |->
                       [offset |-> EndOf(l, entered[k]),
                        id |-> IF program.counts THEN entered[k] ELSE Counted(l, entered[k])]]
  BY DEF Entries
<1>4. last \in 1..n /\ last \in S
  BY DEF IsPunctuation
<1> HIDE DEF entered, S, n
<1>5. Len(Entries(l)) = Len(entered)
  BY <1>2, <1>3
<1>6. \A k \in 1..Len(entered) :
         /\ Entries(l)[k].offset = Ends(l)[entered[k]]
         /\ Entries(l)[k].id = IF program.counts THEN entered[k] ELSE Counted(l, entered[k])
  BY <1>3 DEF EndOf
<1>7. ASSUME NEW k \in 1..Len(entered), Ends(l)[entered[k]] = Ends(l)[last]
      PROVE  entered[k] = last
  <2>1. entered[k] \in 1..n
    <3>1. PICK T : T = 1..n
      OBVIOUS
    <3>2. entered \in Seq(T) /\ Len(entered) \in Nat
      BY <1>2, <3>1
    <3>3. entered[k] \in T
      BY <3>2
    <3> QED  BY <3>1, <3>3
  <2>2. entered[k] \in 0..Len(l) /\ last \in 0..Len(l)
    BY <1>1, <2>1, <1>4 DEF n
  <2> QED  BY <1>1, <1>7, <2>2, EndsDiffer
<1> QED  BY <1>2, <1>4, <1>5, <1>6, <1>7

\* The first entry with a position of the line is the line's.
LEMMA EntryIs ==
    ASSUME NEW l \in Seq(Token) \ {<< >>}, NEW last \in 1..(Len(l) - 1),
           program.counts \/ l[last] \notin Listed,
           NEW size \in Nat, DOMAIN table = 1..size, Len(Entries(l)) <= size,
           \A k \in 1..Len(Entries(l)) : table[k] = Entries(l)[k]
    PROVE  EntryFor(Ends(l)[last]) = {IF program.counts THEN last ELSE Counted(l, last)}
<1> DEFINE position == Ends(l)[last]
           many == Len(Entries(l))
           found == {k \in DOMAIN table : table[k].offset = position}
<1>0. many \in Nat
  BY DEF Entries
<1>1. PICK k \in 1..many : k \in found
  <2>1. PICK k \in 1..many : Entries(l)[k].offset = position
    BY EntriesIs
  <2>2. k \in 1..size
    BY <1>0
  <2> QED  BY <2>1, <2>2
<1>2. PICK n \in found : \A y \in found : n <= y
  <2>1. found \subseteq Nat /\ found # {}
    BY <1>1
  <2> HIDE DEF found
  <2> QED  BY <2>1, LeastNumber
<1>3. Least(found) = n
  <2>1. found \subseteq Nat
    OBVIOUS
  <2> HIDE DEF found
  <2>2. \A x \in found : (\A y \in found : x <= y) => x = n
    BY <1>2, <2>1
  <2> QED  BY <1>2, <2>2 DEF Least
<1>4. n \in 1..many
  <2>1. n \in 1..size /\ n <= k
    BY <1>1, <1>2
  <2> QED  BY <1>0, <2>1
<1>5. table[n].id = IF program.counts THEN last ELSE Counted(l, last)
  <2>1. table[n] = Entries(l)[n] /\ table[n].offset = position
    BY <1>2, <1>4
  <2>2. \A h \in 1..many : Entries(l)[h].offset = position =>
           Entries(l)[h].id = IF program.counts THEN last ELSE Counted(l, last)
    BY EntriesIs
  <2> HIDE DEF found, many, position
  <2> QED  BY <1>4, <2>1, <2>2
<1>6. EntryFor(position) = {table[Least(found)].id}
  BY <1>1 DEF EntryFor
<1> QED  BY <1>3, <1>5, <1>6

(***************************************************************************)
(* Part 2: the search.                                                     *)
(***************************************************************************)
Mark == {Separator, Newline, Null}

\* The text that is searched, or that was last.
Shown == IF loop = "lower" THEN Text(Lowercase(line)) ELSE Text(line)

TypeOK == /\ program \in Programs
          /\ line \in Lines \/ (lines_read = 0 /\ loop = "idle" /\ printed = {})
          /\ input_line \in [1..LineSize -> Char \cup Mark]
          /\ len \in Nat /\ lines_read \in Nat /\ longest \in Nat /\ spilled \in BOOLEAN
          /\ loop \in {"idle", "original", "lower"} /\ (loop = "lower" => program.lowers)
          /\ \E q \in Nat : chunk_start = q * BufferSize
          /\ \E size \in Nat : DOMAIN table = 1..size

\* What getline allocated is never too short for the longest line.
Allocation == longest = 0 \/ longest < len

\* Characters were written no further than the longest line reaches.
WithinLongest == ~ spilled => \A k \in 1..LineSize : input_line[k] \in Char => k <= longest

\* While a line is searched, the array begins with its text; behind that is a Null,
\* or the underscore that stands where getline's buffer ends.
TextInFront ==
    loop # "idle" =>
        /\ Len(Text(line)) <= longest + 1
        /\ \A k \in 1..Len(Text(line)) : input_line[k] = Shown[k]
        /\ LET behind == input_line[Len(Text(line)) + 1]
           IN behind = Null \/ (behind = Separator /\ len = Len(Text(line)))

TableInFront ==
    loop # "idle" =>
        /\ mapping = WordIds(line)
        /\ Len(Entries(line)) <= Len(table)
        /\ \A k \in 1..Len(Entries(line)) : table[k] = Entries(line)[k]

\* A fact was found in the line, or behind it for one of the two reasons.
OwnIn(f, tokens) == /\ f.from + f.at <= Len(Text(line))
                    /\ Matching!EndsAt(Pattern(f.expression), Text(tokens), f.from + f.at)
OwnLine(f) == OwnIn(f, line) \/ (program.lowers /\ OwnIn(f, Lowercase(line)))
Behind(f) == /\ f.from + f.at > Len(Text(line))
             /\ \/ spilled
                \/ f.from > 0 /\ longest >= Len(Text(line)) /\ longest >= BufferSize
FactsRight ==
    \A f \in printed :
        /\ f.expression \in program.expressions /\ f.from \in Nat /\ f.at \in Nat
        /\ f.from = 0 => f.at <= BufferSize
        /\ OwnLine(f) \/ Behind(f)

\* Of each text whose first buffer was searched every occurrence is reported.
NoneMissed ==
    lines_read > 0 =>
        /\ loop # "original" \/ chunk_start > 0 => OccurrencesIn(line) \subseteq Reported
        /\ /\ program.lowers
           /\ loop = "idle" \/ (loop = "lower" /\ chunk_start > 0)
           => OccurrencesIn(Lowercase(line)) \subseteq Reported

IInv == /\ TypeOK /\ Allocation /\ WithinLongest /\ TextInFront /\ TableInFront
        /\ FactsRight /\ NoneMissed

LEMMA TextsAlike ==
    ASSUME NEW l \in Seq(Token) \ {<< >>}, NEW tokens \in {l, Lowercase(l)}
    PROVE  /\ tokens \in Expression /\ tokens \in Seq(Str)
           /\ Len(tokens) = Len(l) /\ Len(l) \in Nat /\ Len(l) >= 1
           /\ Text(tokens) \in Seq(Char \cup {Separator, Newline})
           /\ Len(Text(tokens)) = Len(Text(l)) /\ Len(Text(l)) \in Nat /\ Len(Text(l)) >= 3
           /\ Text(tokens)[Len(Text(l))] = Newline
<1>1. /\ tokens \in Expression /\ Len(tokens) = Len(l)
      /\ \A i \in 0..Len(l) : Ends(tokens)[i] = Ends(l)[i]
      /\ l \in Expression
  BY LowercaseIs
<1>2. l \in Seq(Str) /\ Len(l) \in Nat /\ Len(l) >= 1 /\ Len(Text(l)) = Ends(l)[Len(l)]
  BY <1>1, TextIs
<1>3. /\ Text(tokens) \in Seq(Char \cup {Separator, Newline})
      /\ Len(Text(tokens)) = Ends(tokens)[Len(tokens)]
      /\ Text(tokens)[Ends(tokens)[Len(tokens)]] = Newline
      /\ tokens \in Seq(Str)
  BY <1>1, TextIs
<1>4. Len(l) \in 0..Len(l) /\ Len(l) \in 1..Len(l)
  BY <1>2
<1>5. Ends(tokens)[Len(tokens)] = Ends(l)[Len(l)]
  BY <1>1, <1>4
<1>6. Ends(l)[Len(l)] \in Nat /\ Ends(l)[Len(l)] >= 3
  <2>1. PICK n : n = Len(l)
    OBVIOUS
  <2>2. /\ Ends(l)[n] = Ends(l)[n - 1] + Len(l[n]) + 1 /\ Len(l[n]) \in Nat /\ Len(l[n]) >= 1
        /\ n - 1 \in 0..Len(l)
    BY <1>2, <1>4, <2>1, EndsFacts
  <2>3. Ends(l)[n - 1] \in Nat /\ Ends(l)[n - 1] >= 1
    BY <1>2, <2>2, EndsFacts
  <2> QED  BY <2>1, <2>2, <2>3
<1> QED  BY <1>1, <1>2, <1>3, <1>5, <1>6

\* What is known of a line and of the text that is shown.
LEMMA LineIs ==
    ASSUME TypeOK, line \in Lines
    PROVE  /\ line \in Seq(Token) \ {<< >>}
           /\ Len(Text(line)) \in Nat /\ Len(Text(line)) >= 3 /\ Len(Text(line)) < LineSize
           /\ LineSize \in Nat
           /\ Len(Shown) = Len(Text(line)) /\ Shown[Len(Text(line))] = Newline
           /\ \A k \in 1..Len(Text(line)) : Shown[k] # Null
<1>1. line \in Seq(Token) \ {<< >>} /\ Len(Text(line)) < LineSize /\ LineSize \in Nat
  BY LinesAssumption, SizesAssumption
<1>2. PICK tokens \in {line, Lowercase(line)} : Shown = Text(tokens)
  BY DEF Shown
<1>3. /\ Text(tokens) \in Seq(Char \cup {Separator, Newline})
      /\ Len(Text(tokens)) = Len(Text(line)) /\ Len(Text(line)) \in Nat /\ Len(Text(line)) >= 3
      /\ Text(tokens)[Len(Text(line))] = Newline
  BY <1>1, TextsAlike
<1>4. ASSUME NEW k \in 1..Len(Text(line)) PROVE Text(tokens)[k] # Null
  <2>1. Text(tokens)[k] \in Char \cup {Separator, Newline}
    BY <1>3
  <2> QED  BY <2>1, CharAssumption
<1> QED  BY <1>1, <1>2, <1>3, <1>4

\* A buffer that begins in the array ends in it.
LEMMA BufferFits ==
    ASSUME TypeOK, chunk_start < LineSize
    PROVE  /\ chunk_start \in Nat /\ chunk_start + BufferSize <= LineSize
           /\ BufferSize \in Nat /\ BufferSize >= 1 /\ LineSize \in Nat
           /\ chunk_start > 0 => chunk_start >= BufferSize
<1> DEFINE b == BufferSize
<1>1. PICK q \in Nat : chunk_start = q * b
  BY DEF TypeOK
<1>2. b \in Nat /\ b >= 1 /\ LineSize \in Nat
  BY SizesAssumption
<1>3. PICK n \in Nat : LineSize = n * b
  BY SizesAssumption
<1> HIDE DEF b
<1>4. q < n
  <2>1. SUFFICES ASSUME n <= q PROVE FALSE
    BY <1>1, <1>3
  <2>2. PICK r \in Nat : q = n + r
    <3>1. q - n \in Nat /\ q = n + (q - n)
      BY <2>1
    <3> QED  BY <3>1
  <2>3. q * b = n * b + r * b /\ r * b \in Nat /\ n * b \in Nat
    BY <1>2, <2>2
  <2> QED  BY <1>1, <1>3, <2>3
<1>5. PICK r \in Nat : n = q + 1 + r
  <2>1. n - q - 1 \in Nat /\ n = q + 1 + (n - q - 1)
    BY <1>4
  <2> QED  BY <2>1
<1>6. n * b = q * b + b + r * b /\ r * b \in Nat /\ q * b \in Nat
  BY <1>2, <1>5
<1>7. chunk_start > 0 => chunk_start >= b
  <2>1. SUFFICES ASSUME chunk_start > 0 PROVE chunk_start >= b
    OBVIOUS
  <2>2. q # 0
    BY <1>1, <1>2, <2>1
  <2>3. PICK h \in Nat : q = h + 1
    <3>1. q - 1 \in Nat /\ q = (q - 1) + 1
      BY <2>2
    <3> QED  BY <3>1
  <2>4. q * b = h * b + b /\ h * b \in Nat
    BY <1>2, <2>3
  <2> QED  BY <1>1, <1>2, <2>4
<1> QED  BY <1>1, <1>2, <1>3, <1>6, <1>7 DEF b

\* A buffer has the characters of the array from where it starts, up to a Null.
LEMMA ChunkIs ==
    ASSUME TypeOK, chunk_start < LineSize
    PROVE  /\ Len(Chunk) \in Nat /\ Len(Chunk) <= BufferSize
           /\ \A i \in 1..Len(Chunk) : /\ Chunk[i] = input_line[chunk_start + i]
                                       /\ Chunk[i] # Null
           /\ \A k \in 0..BufferSize :
                 (\A i \in 1..k : input_line[chunk_start + i] # Null) => k <= Len(Chunk)
<1> DEFINE S == Char \cup Mark
           part == SubSeq(input_line, chunk_start + 1, chunk_start + BufferSize)
<1>1. /\ chunk_start \in Nat /\ chunk_start + BufferSize <= LineSize
      /\ BufferSize \in Nat /\ BufferSize >= 1 /\ LineSize \in Nat
  BY BufferFits
<1>2. input_line \in Seq(S) /\ Len(input_line) = LineSize
  <2>1. input_line \in [1..LineSize -> S]
    BY DEF TypeOK
  <2> HIDE DEF S
  <2> QED  BY <1>1, <2>1
<1> HIDE DEF S
<1>3. /\ part \in Seq(S) /\ Len(part) = BufferSize
      /\ \A i \in 1..BufferSize : part[i] = input_line[chunk_start + i]
  BY <1>1, <1>2
<1> HIDE DEF part
<1>4. /\ Len(String(part)) \in Nat /\ Len(String(part)) <= Len(part)
      /\ \A i \in 1..Len(String(part)) : String(part)[i] = part[i] /\ part[i] # Null
      /\ \A k \in 0..Len(part) : (\A i \in 1..k : part[i] # Null) => k <= Len(String(part))
  BY <1>3, StringIs
<1>5. Chunk = String(part)
  BY DEF Chunk, part
<1>6. \A i \in 1..Len(Chunk) : i \in 1..BufferSize
  BY <1>1, <1>3, <1>4, <1>5
<1>7. \A k \in 0..BufferSize : \A i \in 1..k : i \in 1..BufferSize
  BY <1>1
<1> QED  BY <1>1, <1>3, <1>4, <1>5, <1>6, <1>7

LEMMA PatternEnds ==
    ASSUME NEW e \in Expression
    PROVE  /\ Len(Pattern(e)) \in Nat /\ Len(Pattern(e)) >= 2
           /\ Pattern(e)[2] \in Char
           /\ \A i \in 1..Len(Pattern(e)) : Pattern(e)[i] # Newline /\ Pattern(e)[i] # Null
<1>1. /\ e \in Seq(Str) /\ Len(e) \in Nat /\ Len(e) >= 1
      /\ Pattern(e) \in Seq(Char \cup {Separator}) /\ Len(Pattern(e)) = Ends(e)[Len(e)]
      /\ \A j \in 1..Len(e) : \A c \in 1..Len(e[j]) : Pattern(e)[Ends(e)[j - 1] + c] \in Char
  BY PatternIs
<1>2. PICK m : m = Len(e)
  OBVIOUS
<1>3. /\ m \in 1..m /\ 1 \in 1..m /\ 0 \in 0..m /\ m \in Nat
  BY <1>1, <1>2
<1>4. /\ Ends(e)[0] = 1 /\ Len(e[1]) \in Nat /\ Len(e[1]) >= 1
  BY <1>1, <1>2, <1>3, EndsFacts
<1>5. Ends(e)[m] \in Nat /\ Ends(e)[m] >= 2
  <2>1. /\ Ends(e)[m] = Ends(e)[m - 1] + Len(e[m]) + 1 /\ m - 1 \in 0..m
        /\ Len(e[m]) \in Nat
    BY <1>1, <1>2, <1>3, EndsFacts
  <2>2. Ends(e)[m - 1] \in Nat /\ Ends(e)[m - 1] >= 1
    BY <1>1, <1>2, <2>1, EndsFacts
  <2> QED  BY <2>1, <2>2
<1>6. Pattern(e)[2] \in Char
  <2>1. 1 \in 1..Len(e[1])
    BY <1>4
  <2>2. Pattern(e)[Ends(e)[1 - 1] + 1] \in Char
    BY <1>1, <1>2, <1>3, <2>1
  <2>3. Ends(e)[1 - 1] + 1 = 2
    BY <1>4
  <2> QED  BY <2>2, <2>3
<1>7. \A i \in 1..Len(Pattern(e)) : Pattern(e)[i] \in Char \cup {Separator}
  BY <1>1
<1> QED  BY <1>1, <1>2, <1>5, <1>6, <1>7, CharAssumption

LEMMA ProgramIs ==
    ASSUME TypeOK
    PROVE  /\ program.expressions \subseteq Expression
           /\ program.lowers \in BOOLEAN /\ program.counts \in BOOLEAN
           /\ ~ program.counts =>
                 \A e \in program.expressions : \A j \in 1..Len(e) : e[j] \notin Listed
BY ProgramsAssumption DEF TypeOK

\* What is found up to the line's end is in its text.
LEMMA MatchOwn ==
    ASSUME TypeOK, TextInFront, line \in Lines, loop # "idle", chunk_start < LineSize,
           NEW e \in program.expressions, NEW k, <<k, e>> \in Matches
    PROVE  /\ k \in 1..BufferSize
           /\ chunk_start + k <= Len(Text(line)) =>
                 Matching!EndsAt(Pattern(e), Shown, chunk_start + k)
<1> DEFINE P == Pattern(e)
           L == Len(Text(line))
<1>1. /\ Len(P) \in Nat /\ L \in Nat /\ Len(Shown) = L
  BY ProgramIs, PatternEnds, LineIs
<1>2. /\ k \in 1..Len(Chunk) /\ k \in Len(P)..Len(Chunk)
      /\ \A i \in 1..Len(P) : P[i] = Chunk[k - Len(P) + i]
  BY DEF Matches, Matching!EndsAt
<1>3. /\ Len(Chunk) \in Nat /\ Len(Chunk) <= BufferSize
      /\ \A i \in 1..Len(Chunk) : Chunk[i] = input_line[chunk_start + i]
      /\ chunk_start \in Nat /\ BufferSize \in Nat
  BY ChunkIs, BufferFits
<1>4. \A i \in 1..L : input_line[i] = Shown[i]
  BY DEF TextInFront
<1> HIDE DEF P, L
<1>5. k \in 1..BufferSize /\ k \in Nat
  BY <1>2, <1>3
<1>6. ASSUME chunk_start + k <= L, NEW i \in 1..Len(P)
      PROVE  P[i] = Shown[chunk_start + k - Len(P) + i]
  <2>1. k - Len(P) + i \in 1..Len(Chunk)
    BY <1>1, <1>2, <1>3
  <2>2. P[i] = input_line[chunk_start + (k - Len(P) + i)]
    BY <1>2, <1>3, <2>1
  <2>3. /\ chunk_start + (k - Len(P) + i) \in 1..L
        /\ chunk_start + (k - Len(P) + i) = chunk_start + k - Len(P) + i
    BY <1>1, <1>2, <1>3, <1>6, <2>1
  <2> QED  BY <1>4, <2>2, <2>3
<1>7. chunk_start + k <= L => chunk_start + k \in Len(P)..Len(Shown)
  BY <1>1, <1>2, <1>3
<1>8. chunk_start + k <= L => Matching!EndsAt(P, Shown, chunk_start + k)
  <2>1. PICK j : j = chunk_start + k
    OBVIOUS
  <2>2. SUFFICES ASSUME j <= L PROVE Matching!EndsAt(P, Shown, j)
    BY <2>1
  <2>3. j \in Len(P)..Len(Shown)
    BY <1>7, <2>1, <2>2
  <2>4. ASSUME NEW i \in 1..Len(P) PROVE P[i] = Shown[j - Len(P) + i]
    <3>1. P[i] = Shown[chunk_start + k - Len(P) + i]
      BY <1>6, <2>1, <2>2
    <3>2. j - Len(P) + i = chunk_start + k - Len(P) + i
      BY <1>1, <1>3, <1>5, <2>1
    <3> QED  BY <3>1, <3>2
  <2> QED  BY <2>3, <2>4 DEF Matching!EndsAt
<1> QED  BY <1>5, <1>8 DEF P, L

\* What is found behind the line's end was left there: by a longer line that reached
\* beyond the first buffer, or by what the stack held.
LEMMA MatchBehind ==
    ASSUME TypeOK, Allocation, WithinLongest, TextInFront, line \in Lines, loop # "idle",
           chunk_start < LineSize,
           NEW e \in program.expressions, NEW k, <<k, e>> \in Matches,
           chunk_start + k > Len(Text(line)), ~ spilled
    PROVE  chunk_start > 0 /\ longest >= Len(Text(line)) /\ longest >= BufferSize
<1> DEFINE P == Pattern(e)
           L == Len(Text(line))
<1>1. /\ Len(P) \in Nat /\ Len(P) >= 2 /\ P[2] \in Char
      /\ \A i \in 1..Len(P) : P[i] # Newline
      /\ L \in Nat /\ L >= 3 /\ L < LineSize /\ Shown[L] = Newline
  BY ProgramIs, PatternEnds, LineIs
<1>2. /\ k \in Len(P)..Len(Chunk)
      /\ \A i \in 1..Len(P) : P[i] = Chunk[k - Len(P) + i]
  BY DEF Matches, Matching!EndsAt
<1>3. /\ Len(Chunk) \in Nat /\ Len(Chunk) <= BufferSize
      /\ \A i \in 1..Len(Chunk) : Chunk[i] = input_line[chunk_start + i] /\ Chunk[i] # Null
      /\ chunk_start \in Nat /\ BufferSize \in Nat /\ LineSize \in Nat
      /\ chunk_start + BufferSize <= LineSize
      /\ chunk_start > 0 => chunk_start >= BufferSize
  BY ChunkIs, BufferFits
<1>4. /\ \A i \in 1..L : input_line[i] = Shown[i]
      /\ input_line[L + 1] = Null \/ len = L
      /\ L <= longest + 1
      /\ longest = 0 \/ longest < len
      /\ \A i \in 1..LineSize : input_line[i] \in Char => i <= longest
      /\ longest \in Nat /\ len \in Nat
  BY DEF TextInFront, WithinLongest, Allocation, TypeOK
<1>a. chunk_start + k > L
  OBVIOUS
<1> HIDE DEF P, L
<1>5. PICK s : s = k - Len(P)
  OBVIOUS
<1>6. s \in Nat /\ k = s + Len(P) /\ k <= Len(Chunk)
  BY <1>1, <1>2, <1>3, <1>5
<1>7. \A i \in 1..Len(P) : /\ s + i \in 1..Len(Chunk)
                           /\ P[i] = input_line[chunk_start + (s + i)]
  <2>1. \A i \in 1..Len(P) : s + i \in 1..Len(Chunk)
    BY <1>1, <1>3, <1>6
  <2>2. \A i \in 1..Len(P) : P[i] = Chunk[s + i]
    BY <1>2, <1>5
  <2> QED  BY <1>3, <2>1, <2>2
\* The end of the line's text is not in the pattern.
<1>8. chunk_start + s >= L
  <2>1. SUFFICES ASSUME chunk_start + s < L PROVE FALSE
    BY <1>1, <1>3, <1>6
  <2>2. PICK i : i = L - (chunk_start + s)
    OBVIOUS
  <2>3. i \in 1..Len(P) /\ chunk_start + (s + i) = L
    BY <1>a, <1>1, <1>3, <1>6, <2>1, <2>2
  <2>4. P[i] = input_line[L]
    BY <1>7, <2>3
  <2>5. L \in 1..L
    BY <1>1
  <2> QED  BY <1>1, <1>4, <2>3, <2>4, <2>5
<1>9. longest >= L + 2 /\ longest >= chunk_start + 2
  <2>1. 2 \in 1..Len(P)
    BY <1>1
  <2>2. s + 2 \in 1..Len(Chunk) /\ input_line[chunk_start + (s + 2)] \in Char
    BY <1>1, <1>7, <2>1
  <2>3. chunk_start + (s + 2) \in 1..LineSize
    BY <1>3, <1>6, <2>2
  <2>4. chunk_start + (s + 2) <= longest
    BY <1>4, <2>2, <2>3
  <2> QED  BY <1>1, <1>3, <1>4, <1>6, <1>8, <2>4
\* A first buffer ends with the line, where there is a Null.
<1>10. chunk_start > 0
  <2>1. SUFFICES ASSUME chunk_start = 0 PROVE FALSE
    BY <1>3
  <2>2. L + 1 \in 1..Len(Chunk)
    BY <1>1, <1>3, <1>6, <1>8, <2>1
  <2>3. Chunk[L + 1] = input_line[chunk_start + (L + 1)] /\ Chunk[L + 1] # Null
    BY <1>3, <2>2
  <2>4. chunk_start + (L + 1) = L + 1
    BY <1>1, <2>1
  <2>5. len = L
    BY <1>4, <2>3, <2>4
  <2> QED  BY <1>1, <1>4, <1>9, <2>5
<1> QED  BY <1>1, <1>3, <1>4, <1>9, <1>10 DEF L

\* Everything in the first buffer of the text is found.
LEMMA MatchFound ==
    ASSUME TypeOK, TextInFront, line \in Lines, loop # "idle", chunk_start = 0,
           NEW e \in program.expressions, NEW k,
           Matching!EndsAt(Pattern(e), FirstBuffer(Shown), k)
    PROVE  <<k, e>> \in Matches /\ k \in Nat /\ k <= Len(Text(line)) /\ k >= 1
<1> DEFINE P == Pattern(e)
           L == Len(Text(line))
           B == BufferSize
           m == IF L < B THEN L ELSE B
<1>1. /\ Len(P) \in Nat /\ Len(P) >= 2
      /\ L \in Nat /\ L < LineSize /\ Len(Shown) = L /\ LineSize \in Nat
      /\ \A i \in 1..L : Shown[i] # Null
      /\ B \in Nat
  BY ProgramIs, PatternEnds, LineIs, SizesAssumption
<1>2. chunk_start < LineSize
  BY <1>1
<1>3. /\ Len(Chunk) \in Nat
      /\ \A i \in 1..Len(Chunk) : Chunk[i] = input_line[chunk_start + i]
      /\ \A j \in 0..B : (\A i \in 1..j : input_line[chunk_start + i] # Null) => j <= Len(Chunk)
  BY <1>2, ChunkIs
<1>4. \A i \in 1..L : input_line[i] = Shown[i]
  BY DEF TextInFront
<1>5. FirstBuffer(Shown) = SubSeq(Shown, 1, m)
  BY <1>1 DEF FirstBuffer
<1>6. Shown \in Seq(Char \cup {Separator, Newline})
  BY LineIs, TextsAlike DEF Shown
<1>a. Matching!EndsAt(P, FirstBuffer(Shown), k)
  OBVIOUS
<1> HIDE DEF P, L, B
<1>7. m \in Nat /\ m <= L /\ m <= B
  BY <1>1
<1> HIDE DEF m
<1>8. /\ Len(FirstBuffer(Shown)) = m
      /\ \A i \in 1..m : FirstBuffer(Shown)[i] = Shown[i]
  BY <1>1, <1>5, <1>6, <1>7
<1>9. /\ k \in Len(P)..m /\ k \in Nat
      /\ \A i \in 1..Len(P) : P[i] = FirstBuffer(Shown)[k - Len(P) + i]
  <2>1. PICK t : t = FirstBuffer(Shown)
    OBVIOUS
  <2>2. /\ k \in Len(P)..Len(t)
        /\ \A i \in 1..Len(P) : P[i] = t[k - Len(P) + i]
    BY <1>a, <2>1 DEF Matching!EndsAt
  <2>3. k \in Len(P)..m /\ k \in Nat
    BY <1>1, <1>7, <1>8, <2>1, <2>2
  <2> QED  BY <2>1, <2>2, <2>3
<1>10. \A i \in 1..k : /\ i \in 1..L /\ chunk_start + i = i /\ i \in 1..m
                       /\ input_line[i] = Shown[i] /\ Shown[i] # Null
  BY <1>1, <1>4, <1>7, <1>9
<1>11. k <= Len(Chunk)
  <2>1. k \in 0..B
    BY <1>1, <1>7, <1>9
  <2> QED  BY <1>3, <1>10, <2>1
<1>12. ASSUME NEW i \in 1..Len(P) PROVE P[i] = Chunk[k - Len(P) + i]
  <2>1. k - Len(P) + i \in 1..k /\ k - Len(P) + i \in 1..Len(Chunk)
    BY <1>1, <1>3, <1>9, <1>11
  <2>2. P[i] = Shown[k - Len(P) + i]
    BY <1>8, <1>9, <1>10, <2>1
  <2> QED  BY <1>3, <1>10, <2>1, <2>2
<1>13. k \in 1..Len(Chunk) /\ k \in Len(P)..Len(Chunk)
  BY <1>1, <1>3, <1>9, <1>11
<1>14. <<k, e>> \in Matches
  BY <1>12, <1>13 DEF Matches, Matching!EndsAt, P
<1>15. k <= L /\ k >= 1
  BY <1>1, <1>7, <1>9
<1> QED  BY <1>9, <1>14, <1>15 DEF L

LEMMA InitInv ==
    ASSUME Init
    PROVE  IInv
<1>1. TypeOK
  <2>1. 0 = 0 * BufferSize
    BY SizesAssumption
  <2>2. DOMAIN << >> = 1..0
    OBVIOUS
  <2> QED  BY <2>1, <2>2 DEF Init, TypeOK, Mark
<1>2. WithinLongest
  BY CharAssumption DEF Init, WithinLongest
<1> QED  BY <1>1, <1>2
         DEF Init, IInv, Allocation, TextInFront, TableInFront, FactsRight, NoneMissed

LEMMA ReadLineInv ==
    ASSUME IInv, NEW l \in Lines, ReadLine(l)
    PROVE  IInv'
<1> DEFINE T == Text(l)
           n == Len(T) - 1
<1>0. /\ TypeOK /\ Allocation /\ WithinLongest
      /\ l \in Seq(Token) \ {<< >>} /\ l \in {l, Lowercase(l)}
  BY LinesAssumption DEF IInv
<1>1. /\ T \in Seq(Char \cup {Separator, Newline})
      /\ Len(T) \in Nat /\ Len(T) >= 3 /\ T[Len(T)] = Newline
  BY <1>0, TextsAlike
<1>2. Len(T) < LineSize /\ LineSize \in Nat /\ FirstSize \in Nat
  BY LinesAssumption, SizesAssumption
<1>3. /\ line' = l /\ len' = Allocated(n + 1)
      /\ input_line' = [k \in 1..LineSize |->
                            IF k <= n + 1 THEN T[k]
                            ELSE IF k = len' + 1 THEN Separator
                            ELSE IF k = n + 2 THEN Null ELSE input_line[k]]
      /\ table' = Overwrite(table, Entries(l)) /\ mapping' = WordIds(l)
      /\ printed' = {} /\ chunk_start' = 0 /\ loop' = "original"
      /\ lines_read' = lines_read + 1 /\ longest' = Larger(longest, n)
      /\ program' = program /\ spilled' = spilled
  BY DEF ReadLine
<1>4. /\ len \in Nat /\ longest \in Nat /\ lines_read \in Nat
      /\ input_line \in [1..LineSize -> Char \cup Mark]
  BY <1>0 DEF TypeOK
<1> HIDE DEF T
<1>5. n \in Nat /\ n + 1 = Len(T) /\ n + 2 = Len(T) + 1
  BY <1>1
<1>6. len' \in Nat /\ len' >= len /\ len' >= n + 1
  BY <1>2, <1>3, <1>4, <1>5 DEF Allocated, Larger
<1>7. longest' \in Nat /\ longest' >= n /\ longest' >= longest
      /\ (longest' = n \/ longest' = longest)
  BY <1>3, <1>4, <1>5 DEF Larger
<1>8. \A k \in 1..Len(T) : T[k] \in Char \cup Mark
  BY <1>1 DEF Mark
<1> HIDE DEF n
<1>9. \A k \in 1..LineSize : input_line'[k] =
         IF k <= n + 1 THEN T[k] ELSE IF k = len' + 1 THEN Separator
         ELSE IF k = n + 2 THEN Null ELSE input_line[k]
  BY <1>3
<1>10. TypeOK'
  <2>1. input_line' \in [1..LineSize -> Char \cup Mark]
    <3>1. \A k \in 1..LineSize : k <= n + 1 => T[k] \in Char \cup Mark
      BY <1>2, <1>5, <1>8
    <3>2. Separator \in Char \cup Mark /\ Null \in Char \cup Mark
      BY DEF Mark
    <3>3. \A k \in 1..LineSize : input_line[k] \in Char \cup Mark
      BY <1>4
    <3> QED  BY <1>3, <3>1, <3>2, <3>3
  <2>2. chunk_start' = 0 * BufferSize
    BY <1>3, SizesAssumption
  <2>3. \E size \in Nat : DOMAIN table' = 1..size
    <3>1. PICK size \in Nat : DOMAIN table = 1..size
      BY <1>0 DEF TypeOK
    <3>2. Len(table) \in Nat
      BY <3>1
    <3>3. Len(Entries(l)) \in Nat
      BY DEF Entries
    <3>4. Larger(Len(table), Len(Entries(l))) \in Nat
      BY <3>2, <3>3 DEF Larger
    <3> QED  BY <1>3, <3>4 DEF Overwrite
  <2>4. program' \in Programs /\ spilled' \in BOOLEAN /\ lines_read' \in Nat
    BY <1>0, <1>3, <1>4 DEF TypeOK
  <2> QED  BY <1>3, <1>6, <1>7, <2>1, <2>2, <2>3, <2>4 DEF TypeOK
<1>11. Allocation'
  <2>1. longest = 0 \/ longest < len
    BY <1>0 DEF Allocation
  <2>2. longest' = 0 \/ longest' < len'
    BY <1>4, <1>5, <1>6, <1>7, <2>1
  <2> QED  BY <2>2 DEF Allocation
<1>12. WithinLongest'
  <2>1. SUFFICES ASSUME ~ spilled, NEW k \in 1..LineSize, input_line'[k] \in Char
                 PROVE  k <= longest'
    BY <1>3 DEF WithinLongest
  <2>2. CASE k <= n + 1
    <3>1. k # n + 1
      BY <1>1, <1>5, <1>9, <2>1, <2>2, NoMarks
    <3> QED  BY <1>2, <1>5, <1>7, <2>2, <3>1
  <2>3. CASE ~ k <= n + 1
    <3>1. input_line[k] \in Char
      BY <1>9, <2>1, <2>3, NoMarks
    <3>2. k <= longest
      BY <1>0, <2>1, <3>1 DEF WithinLongest
    <3> QED  BY <1>2, <1>4, <1>7, <3>2
  <2> QED  BY <2>2, <2>3
<1>13. TextInFront'
  <2>1. Len(T) <= longest' + 1
    BY <1>5, <1>7
  <2>2. \A k \in 1..Len(T) : input_line'[k] = T[k]
    BY <1>1, <1>2, <1>5, <1>9
  <2>3. \/ input_line'[Len(T) + 1] = Null
        \/ input_line'[Len(T) + 1] = Separator /\ len' = Len(T)
    <3>1. Len(T) + 1 \in 1..LineSize /\ ~ (Len(T) + 1 <= n + 1) /\ n + 2 = Len(T) + 1
      BY <1>1, <1>2, <1>5
    <3>2. len' + 1 = Len(T) + 1 => len' = Len(T)
      BY <1>1, <1>6
    <3> QED  BY <1>9, <3>1, <3>2
  <2> QED  BY <1>3, <2>1, <2>2, <2>3 DEF TextInFront, Shown, T
<1>14. TableInFront'
  <2>1. PICK new : new = Entries(l)
    OBVIOUS
  <2>2. (Entries(line))' = new
    BY <1>3, <2>1 DEF Entries
  <2>3. PICK size \in Nat : DOMAIN table = 1..size
    BY <1>0 DEF TypeOK
  <2>4. Len(table) \in Nat /\ Len(new) \in Nat
    BY <2>1, <2>3 DEF Entries
  <2>5. PICK most \in Nat : most = Larger(Len(table), Len(new)) /\ Len(new) <= most
    BY <2>4 DEF Larger
  <2>6. table' = [k \in 1..most |-> IF k <= Len(new) THEN new[k] ELSE table[k]]
    BY <1>3, <2>1, <2>5 DEF Overwrite
  <2>7. Len(new) <= Len(table') /\ \A k \in 1..Len(new) : table'[k] = new[k]
    BY <2>4, <2>5, <2>6
  <2> QED  BY <1>3, <2>2, <2>7 DEF TableInFront
<1>15. FactsRight' /\ NoneMissed'
  BY <1>3 DEF FactsRight, NoneMissed
<1> QED  BY <1>10, <1>11, <1>12, <1>13, <1>14, <1>15 DEF IInv

LEMMA Joining ==
    ASSUME NEW S, NEW s \in Seq(S), NEW t \in Seq(S)
    PROVE  /\ s \o t \in Seq(S) /\ Len(s \o t) = Len(s) + Len(t)
           /\ \A k \in 1..Len(s) : (s \o t)[k] = s[k]
           /\ Len(t) >= 1 => (s \o t)[Len(s) + 1] = t[1]
OBVIOUS

LEMMA ToLowerInv ==
    ASSUME IInv, ToLower
    PROVE  IInv'
<1> DEFINE T == Text(Lowercase(line))
           L == Len(Text(line))
<1>0. /\ TypeOK /\ Allocation /\ WithinLongest /\ TextInFront /\ TableInFront
      /\ FactsRight /\ NoneMissed
  BY DEF IInv
<1>1. /\ loop = "original" /\ chunk_start >= LineSize /\ program.lowers
      /\ chunk_start' = 0 /\ loop' = "lower"
      /\ program' = program /\ line' = line /\ len' = len /\ table' = table
      /\ mapping' = mapping /\ printed' = printed /\ lines_read' = lines_read
      /\ longest' = longest
  BY DEF ToLower
<1>2. PICK residue \in Residues :
         LET text == T \o (IF len = L THEN <<Separator>> \o residue ELSE << >>)
         IN /\ input_line' = [k \in 1..LineSize |->
                                 IF k <= Len(text) THEN text[k]
                                 ELSE IF k = Len(text) + 1 THEN Null ELSE input_line[k]]
            /\ spilled' = (spilled \/ Len(text) > L + 1)
  BY DEF ToLower
<1> DEFINE text == T \o (IF len = L THEN <<Separator>> \o residue ELSE << >>)
<1>3. /\ line \in Lines /\ line \in Seq(Token) \ {<< >>}
      /\ L \in Nat /\ L >= 3 /\ L < LineSize /\ LineSize \in Nat
      /\ len \in Nat /\ longest \in Nat /\ spilled \in BOOLEAN
      /\ input_line \in [1..LineSize -> Char \cup Mark]
  <2>1. line \in Lines
    BY <1>0, <1>1 DEF TypeOK
  <2> QED  BY <1>0, <2>1, LineIs DEF TypeOK
<1>4. T \in Seq(Char \cup {Separator, Newline}) /\ Len(T) = L /\ T[L] = Newline
  BY <1>3, TextsAlike
<1>5. residue \in Seq(Char \cup {Separator, Newline})
  BY ResiduesAssumption
<1> HIDE DEF T, L
<1> DEFINE S == Char \cup {Separator, Newline}
<1>6. /\ text \in Seq(S) /\ Len(text) \in Nat /\ Len(text) >= L
      /\ \A k \in 1..L : text[k] = T[k]
      /\ IF len = L THEN Len(text) > L /\ text[L + 1] = Separator ELSE Len(text) = L
  <2>1. T \in Seq(S) /\ residue \in Seq(S) /\ Separator \in S
    BY <1>4, <1>5
  <2> HIDE DEF S
  <2>2. CASE len = L
    <3> DEFINE more == <<Separator>> \o residue
    <3>1. more \in Seq(S) /\ Len(more) \in Nat /\ Len(more) >= 1 /\ more[1] = Separator
      BY <2>1
    <3> HIDE DEF more
    <3>2. text = T \o more
      BY <2>2 DEF more
    <3>3. /\ T \o more \in Seq(S) /\ Len(T \o more) = L + Len(more)
          /\ \A k \in 1..L : (T \o more)[k] = T[k]
          /\ (T \o more)[L + 1] = more[1]
      <4>1. /\ T \o more \in Seq(S) /\ Len(T \o more) = Len(T) + Len(more)
            /\ \A k \in 1..Len(T) : (T \o more)[k] = T[k]
            /\ Len(more) >= 1 => (T \o more)[Len(T) + 1] = more[1]
        BY <2>1, <3>1, Joining
      <4> HIDE DEF text
      <4> QED  BY <1>4, <3>1, <4>1
    <3> HIDE DEF text
    <3> QED  BY <1>3, <2>2, <3>1, <3>2, <3>3
  <2>3. CASE len # L
    <3>1. text = T
      BY <2>1, <2>3
    <3> HIDE DEF text
    <3> QED  BY <1>3, <1>4, <2>1, <2>3, <3>1
  <2> QED  BY <2>2, <2>3
<1>7. /\ input_line' = [k \in 1..LineSize |->
                            IF k <= Len(text) THEN text[k]
                            ELSE IF k = Len(text) + 1 THEN Null ELSE input_line[k]]
      /\ spilled' = (spilled \/ Len(text) > L + 1)
  BY <1>2
<1> HIDE DEF text, S
<1>8. \A k \in 1..LineSize : input_line'[k] =
         IF k <= Len(text) THEN text[k]
         ELSE IF k = Len(text) + 1 THEN Null ELSE input_line[k]
  BY <1>7
<1>9. L' = L /\ (Text(Lowercase(line)))' = T
  BY <1>1 DEF L, T
<1>10. TypeOK'
  <2>1. input_line' \in [1..LineSize -> Char \cup Mark]
    <3>1. \A k \in 1..Len(text) : text[k] \in Char \cup Mark
      BY <1>6 DEF S, Mark
    <3>2. \A k \in 1..LineSize : k <= Len(text) => k \in 1..Len(text)
      BY <1>3, <1>6
    <3>3. Null \in Char \cup Mark /\ \A k \in 1..LineSize : input_line[k] \in Char \cup Mark
      BY <1>3 DEF Mark
    <3> QED  BY <1>7, <3>1, <3>2, <3>3
  <2>2. chunk_start' = 0 * BufferSize
    BY <1>1, SizesAssumption
  <2>3. spilled' \in BOOLEAN
    BY <1>3, <1>7
  <2> QED  BY <1>0, <1>1, <1>3, <2>1, <2>2, <2>3 DEF TypeOK
<1>11. Allocation'
  BY <1>0, <1>1 DEF Allocation
<1>a. L <= longest + 1
  BY <1>0, <1>1 DEF TextInFront, L
<1>12. WithinLongest'
  <2>1. SUFFICES ASSUME ~ spilled', NEW k \in 1..LineSize, input_line'[k] \in Char
                 PROVE  k <= longest
    BY <1>1 DEF WithinLongest
  <2>2. ~ spilled /\ Len(text) <= L + 1
    <3>1. ~ (spilled \/ Len(text) > L + 1)
      BY <1>7, <2>1, Zenon
    <3> QED  BY <1>3, <1>6, <3>1
  <2>3. CASE k <= Len(text)
    <3>1. text[k] \in Char
      BY <1>8, <2>1, <2>3
    <3>2. text[L] = Newline
      BY <1>3, <1>4, <1>6
    <3>3. k # L /\ (k = L + 1 => FALSE)
      BY <1>3, <1>6, <2>3, <3>1, <3>2, NoMarks
    <3> QED  BY <1>3, <1>6, <1>a, <2>2, <2>3, <3>3
  <2>4. CASE ~ k <= Len(text)
    <3>1. input_line[k] \in Char
      BY <1>8, <2>1, <2>4, NoMarks
    <3> QED  BY <1>0, <2>2, <3>1 DEF WithinLongest
  <2> QED  BY <2>3, <2>4
<1>13. TextInFront'
  <2>1. \A k \in 1..L : input_line'[k] = T[k]
    BY <1>3, <1>6, <1>8
  <2>2. input_line'[L + 1] = Null \/ (input_line'[L + 1] = Separator /\ len = L)
    <3>1. L + 1 \in 1..LineSize
      BY <1>3
    <3>2. CASE len = L
      <4>1. L + 1 <= Len(text) /\ text[L + 1] = Separator
        BY <1>3, <1>6, <3>2
      <4> QED  BY <1>8, <3>1, <3>2, <4>1
    <3>3. CASE len # L
      <4>1. Len(text) = L /\ ~ (L + 1 <= Len(text))
        BY <1>3, <1>6, <3>3
      <4> QED  BY <1>8, <3>1, <4>1
    <3> QED  BY <3>2, <3>3
  <2>3. Shown' = T
    BY <1>1 DEF Shown, T
  <2> QED  BY <1>1, <1>a, <2>1, <2>2, <2>3 DEF TextInFront, L
<1>14. TableInFront'
  <2>1. (Entries(line))' = Entries(line)
    BY <1>1 DEF Entries
  <2>2. loop # "idle"
    BY <1>1
  <2> QED  BY <1>0, <1>1, <2>1, <2>2 DEF TableInFront
<1>15. FactsRight'
  <2>1. SUFFICES ASSUME NEW f \in printed
                 PROVE  /\ f.expression \in program.expressions /\ f.from \in Nat /\ f.at \in Nat
                        /\ f.from = 0 => f.at <= BufferSize
                        /\ (OwnLine(f) \/ Behind(f))'
    BY <1>1 DEF FactsRight
  <2>2. /\ f.expression \in program.expressions /\ f.from \in Nat /\ f.at \in Nat
        /\ f.from = 0 => f.at <= BufferSize
        /\ OwnLine(f) \/ Behind(f)
    BY <1>0, <2>1 DEF FactsRight
  <2>3. OwnLine(f) => OwnLine(f)'
    BY <1>1 DEF OwnLine, OwnIn
  <2>4. Behind(f) => Behind(f)'
    BY <1>1, <1>7 DEF Behind
  <2> QED  BY <2>2, <2>3, <2>4
<1>16. NoneMissed'
  <2>1. chunk_start > 0
    <3>1. chunk_start \in Nat
      BY <1>0, SizesAssumption DEF TypeOK
    <3> QED  BY <1>1, <1>3, <3>1
  <2>2. lines_read > 0 => OccurrencesIn(line) \subseteq Reported
    BY <1>0, <2>1 DEF NoneMissed
  <2>3. (OccurrencesIn(line))' = OccurrencesIn(line)
    BY <1>1 DEF OccurrencesIn
  <2>4. Reported' = Reported
    BY <1>1 DEF Reported, InFirstBuffer
  <2>5. loop' # "idle" /\ ~ (chunk_start' > 0)
    BY <1>1
  <2> QED  BY <1>1, <2>2, <2>3, <2>4, <2>5 DEF NoneMissed
<1> QED  BY <1>10, <1>11, <1>12, <1>13, <1>14, <1>15, <1>16 DEF IInv

LEMMA EndLineInv ==
    ASSUME IInv, EndLine
    PROVE  IInv'
<1>0. /\ TypeOK /\ Allocation /\ WithinLongest /\ TextInFront /\ FactsRight /\ NoneMissed
  BY DEF IInv
<1>1. /\ loop' = "idle" /\ loop \in {"original", "lower"}
      /\ UNCHANGED <<program, line, input_line, len, table, mapping, chunk_start, printed,
                     lines_read, longest, spilled>>
  BY DEF EndLine
<1>2. line \in Lines
  BY <1>0, <1>1 DEF TypeOK
<1>3. TypeOK' /\ Allocation' /\ WithinLongest' /\ TextInFront' /\ TableInFront'
  BY <1>0, <1>1, <1>2 DEF TypeOK, Allocation, WithinLongest, TextInFront, TableInFront
<1>4. FactsRight'
  <2>1. \A f \in printed : OwnLine(f)' = OwnLine(f) /\ Behind(f)' = Behind(f)
    BY <1>1 DEF OwnLine, OwnIn, Behind
  <2> QED  BY <1>0, <1>1, <2>1 DEF FactsRight
<1>5. chunk_start > 0
  <2>1. chunk_start \in Nat
    BY <1>0, SizesAssumption DEF TypeOK
  <2>2. /\ Len(Text(line)) \in Nat /\ Len(Text(line)) >= 3 /\ Len(Text(line)) < LineSize
        /\ LineSize \in Nat
        /\ \A k \in 1..Len(Text(line)) : Shown[k] # Null
    BY <1>0, <1>2, LineIs
  <2>3. CASE loop = "original"
    BY <2>1, <2>2, <2>3 DEF EndLine
  <2>4. CASE loop = "lower"
    <3>1. input_line \in Seq(Char \cup Mark) /\ Len(input_line) = LineSize
      BY <1>0, <2>2 DEF TypeOK
    <3>2. \A k \in 1..Len(Text(line)) : input_line[k] = Shown[k]
      BY <1>0, <2>4 DEF TextInFront
    <3>3. PICK S : S = Char \cup Mark
      OBVIOUS
    <3>4. Len(Text(line)) <= Len(String(input_line)) /\ Len(String(input_line)) \in Nat
      <4>1. input_line \in Seq(S)
        BY <3>1, <3>3
      <4>2. Len(Text(line)) \in 0..Len(input_line)
        BY <2>2, <3>1
      <4> QED  BY <2>2, <3>2, <4>1, <4>2, StringIs
    <3>5. chunk_start >= Len(String(input_line))
      BY <2>4 DEF EndLine
    <3> QED  BY <2>1, <2>2, <3>4, <3>5
  <2> QED  BY <1>1, <2>3, <2>4
<1>6. NoneMissed'
  <2>1. lines_read > 0 => OccurrencesIn(line) \subseteq Reported
    BY <1>0, <1>5 DEF NoneMissed
  <2>2. lines_read > 0 /\ program.lowers => OccurrencesIn(Lowercase(line)) \subseteq Reported
    <3>1. program.lowers => loop = "lower"
      BY <1>1 DEF EndLine
    <3> QED  BY <1>0, <1>5, <3>1 DEF NoneMissed
  <2>3. /\ (OccurrencesIn(line))' = OccurrencesIn(line)
        /\ (OccurrencesIn(Lowercase(line)))' = OccurrencesIn(Lowercase(line))
        /\ Reported' = Reported
    BY <1>1 DEF OccurrencesIn, Reported, InFirstBuffer
  <2> QED  BY <1>1, <2>1, <2>2, <2>3 DEF NoneMissed
<1> QED  BY <1>3, <1>4, <1>6 DEF IInv

\* What a search of a buffer starts from.
LEMMA Searching ==
    ASSUME IInv, SearchBuffer
    PROVE  /\ TypeOK /\ Allocation /\ WithinLongest /\ TextInFront /\ TableInFront
           /\ FactsRight /\ NoneMissed
           /\ line \in Lines /\ loop # "idle" /\ chunk_start < LineSize
           /\ UNCHANGED <<program, line, input_line, len, table, mapping, loop, lines_read,
                          longest, spilled>>
           /\ chunk_start' = chunk_start + BufferSize
           /\ chunk_start \in Nat /\ BufferSize \in Nat /\ BufferSize >= 1
<1>1. /\ TypeOK /\ Allocation /\ WithinLongest /\ TextInFront /\ TableInFront
      /\ FactsRight /\ NoneMissed
  BY DEF IInv
<1>2. loop # "idle" /\ line \in Lines
  BY <1>1 DEF SearchBuffer, TypeOK
<1>3. chunk_start < LineSize
  <2>1. LineSize \in Nat
    BY SizesAssumption
  <2>2. CASE loop = "lower"
    <3>1. PICK S : S = Char \cup Mark
      OBVIOUS
    <3>2. input_line \in Seq(S) /\ Len(input_line) = LineSize
      BY <1>1, <2>1, <3>1 DEF TypeOK
    <3>3. Len(String(input_line)) \in Nat /\ Len(String(input_line)) <= LineSize
      BY <3>2, StringIs
    <3>4. chunk_start < Len(String(input_line)) /\ chunk_start \in Nat
      BY <1>1, <2>2, SizesAssumption DEF SearchBuffer, TypeOK
    <3> QED  BY <2>1, <3>3, <3>4
  <2> QED  BY <2>2 DEF SearchBuffer
<1>4. chunk_start \in Nat /\ BufferSize \in Nat /\ BufferSize >= 1
  BY <1>1, <1>3, BufferFits
<1> QED  BY <1>1, <1>2, <1>3, <1>4 DEF SearchBuffer

\* The fact for a match, and what is known of it.
Fact(undefined, o) ==
    [expression |-> o[2],
     ids |-> LET last == IF EntryFor(o[1]) # {} THEN CHOOSE id \in EntryFor(o[1]) : TRUE
                                                ELSE undefined[o[1]]
             IN [i \in 1..Len(o[2]) |-> last - Len(o[2]) + i],
     from |-> chunk_start, at |-> o[1]]

IsOf(f, e, k) ==
    /\ <<k, e>> \in Matches /\ f.expression = e /\ f.from = chunk_start /\ f.at = k
    /\ \A id : EntryFor(k) = {id} => f.ids = [i \in 1..Len(e) |-> id - Len(e) + i]

LEMMA FactIs ==
    ASSUME NEW undefined, NEW e, NEW k, <<k, e>> \in Matches
    PROVE  IsOf(Fact(undefined, <<k, e>>), e, k)
<1> DEFINE o == <<k, e>>
           last == IF EntryFor(k) # {} THEN CHOOSE n \in EntryFor(k) : TRUE ELSE undefined[k]
           f == Fact(undefined, o)
<1>1. o[1] = k /\ o[2] = e
  OBVIOUS
<1>2. f = [expression |-> e, ids |-> [i \in 1..Len(e) |-> last - Len(e) + i],
           from |-> chunk_start, at |-> k]
  BY <1>1 DEF Fact
<1>3. \A id : EntryFor(k) = {id} => last = id
  OBVIOUS
<1> HIDE DEF last, f
<1>4. /\ f.expression = e /\ f.ids = [i \in 1..Len(e) |-> last - Len(e) + i]
      /\ f.from = chunk_start /\ f.at = k
  BY <1>2
<1> QED  BY <1>3, <1>4 DEF IsOf, f

\* The facts that a search adds.
LEMMA Added ==
    ASSUME SearchBuffer
    PROVE  \E R : /\ printed' = printed \cup R
                  /\ \A f \in R : \E e \in program.expressions, k \in Nat : IsOf(f, e, k)
                  /\ \A e \in program.expressions, k \in Nat :
                        <<k, e>> \in Matches => \E f \in R : IsOf(f, e, k)
<1>1. PICK undefined : printed' = printed \cup Report(undefined)
  BY DEF SearchBuffer
<1>2. Report(undefined) = {Fact(undefined, o) : o \in Matches}
  BY DEF Report, Fact
<1>3. ASSUME NEW f \in Report(undefined)
      PROVE  \E e \in program.expressions, k \in Nat : IsOf(f, e, k)
  <2>1. PICK o \in Matches : f = Fact(undefined, o)
    BY <1>2
  <2>2. o \in (1..Len(Chunk)) \X program.expressions
    BY DEF Matches
  <2>3. PICK k \in 1..Len(Chunk), e \in program.expressions : o = <<k, e>>
    BY <2>2
  <2>4. k \in Nat /\ <<k, e>> \in Matches
    BY <2>3
  <2> QED  BY <2>1, <2>3, <2>4, FactIs
<1>4. ASSUME NEW e \in program.expressions, NEW k \in Nat, <<k, e>> \in Matches
      PROVE  \E f \in Report(undefined) : IsOf(f, e, k)
  BY <1>2, <1>4, FactIs
<1> QED  BY <1>1, <1>3, <1>4

LEMMA SearchFacts ==
    ASSUME IInv, SearchBuffer
    PROVE  FactsRight'
<1>1. /\ TypeOK /\ Allocation /\ WithinLongest /\ TextInFront /\ FactsRight
      /\ line \in Lines /\ loop # "idle" /\ chunk_start < LineSize
      /\ UNCHANGED <<program, line, input_line, len, table, mapping, loop, lines_read,
                     longest, spilled>>
      /\ chunk_start \in Nat /\ BufferSize \in Nat
  BY Searching
<1>2. PICK R : /\ printed' = printed \cup R
               /\ \A f \in R : \E e \in program.expressions, k \in Nat : IsOf(f, e, k)
  BY Added
<1>3. ASSUME NEW f \in printed'
      PROVE  /\ f.expression \in program.expressions /\ f.from \in Nat /\ f.at \in Nat
             /\ f.from = 0 => f.at <= BufferSize
             /\ OwnLine(f) \/ Behind(f)
  <2>1. CASE f \in printed
    BY <1>1, <2>1 DEF FactsRight
  <2>2. CASE f \in R
    <3>1. PICK e \in program.expressions, k \in Nat :
             <<k, e>> \in Matches /\ f.expression = e /\ f.from = chunk_start /\ f.at = k
      BY <1>2, <2>2 DEF IsOf
    <3>2. /\ k \in 1..BufferSize
          /\ chunk_start + k <= Len(Text(line)) =>
                Matching!EndsAt(Pattern(e), Shown, chunk_start + k)
      BY <1>1, <3>1, MatchOwn
    <3>3. chunk_start + k > Len(Text(line)) /\ ~ spilled =>
             chunk_start > 0 /\ longest >= Len(Text(line)) /\ longest >= BufferSize
      BY <1>1, <3>1, MatchBehind
    <3>4. Len(Text(line)) \in Nat
      BY <1>1, LineIs
    <3>5. CASE chunk_start + k <= Len(Text(line))
      <4>1. Matching!EndsAt(Pattern(e), Shown, chunk_start + k)
        BY <3>2, <3>5
      <4>2. CASE loop = "lower"
        <5>1. Shown = Text(Lowercase(line)) /\ program.lowers
          BY <1>1, <4>2 DEF Shown, TypeOK
        <5>2. OwnIn(f, Lowercase(line))
          BY <3>1, <3>5, <4>1, <5>1 DEF OwnIn
        <5> QED  BY <1>1, <3>1, <3>2, <5>1, <5>2 DEF OwnLine
      <4>3. CASE loop # "lower"
        <5>1. OwnIn(f, line)
          BY <3>1, <3>5, <4>1, <4>3 DEF OwnIn, Shown
        <5> QED  BY <1>1, <3>1, <3>2, <5>1 DEF OwnLine
      <4> QED  BY <4>2, <4>3
    <3>6. CASE chunk_start + k > Len(Text(line))
      <4>1. Behind(f)
        BY <3>1, <3>3, <3>6 DEF Behind
      <4> QED  BY <1>1, <3>1, <3>2, <4>1
    <3> QED  BY <1>1, <3>1, <3>4, <3>5, <3>6
  <2> QED  BY <1>2, <1>3, <2>1, <2>2
<1>4. \A f : OwnLine(f)' = OwnLine(f) /\ Behind(f)' = Behind(f)
  BY <1>1 DEF OwnLine, OwnIn, Behind
<1> QED  BY <1>1, <1>3, <1>4 DEF FactsRight

LEMMA SearchMisses ==
    ASSUME IInv, SearchBuffer
    PROVE  NoneMissed'
<1>1. /\ TypeOK /\ TextInFront /\ NoneMissed
      /\ line \in Lines /\ loop # "idle" /\ chunk_start < LineSize
      /\ UNCHANGED <<program, line, input_line, len, table, mapping, loop, lines_read,
                     longest, spilled>>
      /\ chunk_start \in Nat
  BY Searching
<1>2. PICK R : /\ printed' = printed \cup R
               /\ \A f \in R : \E e \in program.expressions, k \in Nat : IsOf(f, e, k)
               /\ \A e \in program.expressions, k \in Nat :
                     <<k, e>> \in Matches => \E f \in R : IsOf(f, e, k)
  BY Added
<1>3. Reported \subseteq Reported'
  BY <1>1, <1>2 DEF Reported, InFirstBuffer
<1>4. ASSUME chunk_start = 0, NEW tokens, Shown = Text(tokens)
      PROVE  OccurrencesIn(tokens) \subseteq Reported'
  <2>1. SUFFICES ASSUME NEW o \in OccurrencesIn(tokens) PROVE o \in Reported'
    OBVIOUS
  <2>2. /\ o \in (1..Len(FirstBuffer(Shown))) \X {Pattern(e) : e \in program.expressions}
        /\ Matching!EndsAt(o[2], FirstBuffer(Shown), o[1])
    BY <1>4 DEF OccurrencesIn, Matching!Occurrences
  <2>3. PICK k \in 1..Len(FirstBuffer(Shown)), e \in program.expressions : o = <<k, Pattern(e)>>
    BY <2>2
  <2>4. Matching!EndsAt(Pattern(e), FirstBuffer(Shown), k)
    BY <2>2, <2>3
  <2>5. <<k, e>> \in Matches /\ k \in Nat /\ k <= Len(Text(line))
    BY <1>1, <1>4, <2>4, MatchFound
  <2>6. PICK f \in printed' : f.expression = e /\ f.from = 0 /\ f.at = k
    BY <1>2, <1>4, <2>5 DEF IsOf
  <2> QED  BY <1>1, <2>3, <2>5, <2>6 DEF Reported, InFirstBuffer
<1>5. /\ (OccurrencesIn(line))' = OccurrencesIn(line)
      /\ (OccurrencesIn(Lowercase(line)))' = OccurrencesIn(Lowercase(line))
  BY <1>1 DEF OccurrencesIn
<1>6. ASSUME lines_read > 0 PROVE OccurrencesIn(line) \subseteq Reported'
  <2>1. CASE loop # "original" \/ chunk_start > 0
    BY <1>1, <1>3, <1>6, <2>1 DEF NoneMissed
  <2>2. CASE loop = "original" /\ chunk_start = 0
    BY <1>4, <2>2 DEF Shown
  <2> QED  BY <1>1, <2>1, <2>2
<1>7. ASSUME lines_read > 0, program.lowers, loop = "lower"
      PROVE  OccurrencesIn(Lowercase(line)) \subseteq Reported'
  <2>1. CASE chunk_start > 0
    BY <1>1, <1>3, <1>7, <2>1 DEF NoneMissed
  <2>2. CASE chunk_start = 0
    BY <1>4, <1>7, <2>2 DEF Shown
  <2> QED  BY <1>1, <2>1, <2>2
<1> QED  BY <1>1, <1>5, <1>6, <1>7 DEF NoneMissed

LEMMA SearchBufferInv ==
    ASSUME IInv, SearchBuffer
    PROVE  IInv'
<1>1. /\ TypeOK /\ Allocation /\ WithinLongest /\ TextInFront /\ TableInFront
      /\ line \in Lines /\ loop # "idle"
      /\ UNCHANGED <<program, line, input_line, len, table, mapping, loop, lines_read,
                     longest, spilled>>
      /\ chunk_start' = chunk_start + BufferSize
      /\ BufferSize \in Nat
  BY Searching
<1>2. TypeOK'
  <2>1. PICK q \in Nat : chunk_start = q * BufferSize
    BY <1>1 DEF TypeOK
  <2>2. chunk_start' = (q + 1) * BufferSize /\ q + 1 \in Nat
    BY <1>1, <2>1
  <2> QED  BY <1>1, <2>2 DEF TypeOK
<1>3. Allocation' /\ WithinLongest'
  BY <1>1 DEF Allocation, WithinLongest
<1>4. TextInFront'
  <2>1. Shown' = Shown
    BY <1>1 DEF Shown
  <2> QED  BY <1>1, <2>1 DEF TextInFront
<1>5. TableInFront'
  <2>1. (Entries(line))' = Entries(line)
    BY <1>1 DEF Entries
  <2> QED  BY <1>1, <2>1 DEF TableInFront
<1> QED  BY <1>2, <1>3, <1>4, <1>5, SearchFacts, SearchMisses DEF IInv

LEMMA StepInv ==
    ASSUME IInv, [Next]_vars
    PROVE  IInv'
<1>1. ASSUME UNCHANGED vars PROVE IInv'
  <2>1. /\ Shown' = Shown /\ (Entries(line))' = Entries(line) /\ Reported' = Reported
        /\ (OccurrencesIn(line))' = OccurrencesIn(line)
        /\ (OccurrencesIn(Lowercase(line)))' = OccurrencesIn(Lowercase(line))
        /\ \A f : OwnLine(f)' = OwnLine(f) /\ Behind(f)' = Behind(f)
    BY <1>1 DEF vars, Shown, Entries, Reported, InFirstBuffer, OccurrencesIn, OwnLine, OwnIn, Behind
  <2>2. TypeOK' /\ Allocation' /\ WithinLongest' /\ TextInFront' /\ TableInFront'
    BY <1>1, <2>1 DEF vars, IInv, TypeOK, Allocation, WithinLongest, TextInFront, TableInFront
  <2>3. FactsRight' /\ NoneMissed'
    BY <1>1, <2>1 DEF vars, IInv, FactsRight, NoneMissed
  <2> QED  BY <2>2, <2>3 DEF IInv
<1> QED  BY <1>1, ReadLineInv, SearchBufferInv, ToLowerInv, EndLineInv DEF Next

\* What the search relies on, whatever lines the file has: what its arrays hold in
\* front of the line's end and behind it, and where each of its facts is from.
THEOREM Invariant == Spec => []IInv
<1>1. Init => IInv
  BY InitInv
<1>2. IInv /\ [Next]_vars => IInv'
  BY StepInv
<1> QED  BY <1>1, <1>2, PTL DEF Spec

\* A fact for an expression that the line does not have comes from behind the line's
\* end: from a copy that ran into the stack, or from beyond the first buffer, where an
\* earlier line that was longer reached (input_line is never cleared).
THEOREM NoForeign == Spec => []ForeignOnlyBehindLonger
<1>1. IInv => ForeignOnlyBehindLonger
  <2>1. SUFFICES ASSUME IInv, NEW f \in printed,
                        ~ (Occurs(f.expression, line) \/ Occurs(f.expression, Lowercase(line)))
                 PROVE  \/ spilled
                        \/ f.from > 0 /\ longest >= Len(Text(line)) /\ longest >= BufferSize
    BY DEF ForeignOnlyBehindLonger
  <2>2. /\ line \in Seq(Token) \ {<< >>}
        /\ f.expression \in Expression
        /\ OwnLine(f) \/ Behind(f)
    <3>1. TypeOK /\ line \in Lines /\ f.expression \in program.expressions
          /\ (OwnLine(f) \/ Behind(f))
      BY <2>1 DEF IInv, TypeOK, FactsRight
    <3> QED  BY <3>1, LineIs, ProgramIs
  <2>3. ASSUME NEW tokens \in {line, Lowercase(line)}, OwnIn(f, tokens)
        PROVE  Occurs(f.expression, tokens)
    <3>1. tokens \in Expression
      BY <2>2, TextsAlike
    <3>2. PICK k : Matching!EndsAt(Pattern(f.expression), Text(tokens), k)
      BY <2>3 DEF OwnIn
    <3>3. \E i \in 0..Len(tokens) : StartsAfter(f.expression, tokens, i)
      BY <2>2, <3>1, <3>2, PatternFound
    <3> QED  BY <3>3 DEF Occurs
  <2>4. ~ OwnLine(f)
    BY <2>1, <2>3 DEF OwnLine
  <2> QED  BY <2>2, <2>4 DEF Behind
<1> QED  BY <1>1, Invariant, PTL

\* When a line is done, the facts from its first buffer are for the expressions that
\* are there, in the line or in the lower-cased one, and for all of them.
THEOREM AllFound == Spec => []FoundInBuffer
<1>1. IInv => FoundInBuffer
  <2>1. SUFFICES ASSUME IInv, loop = "idle", lines_read > 0
                 PROVE  Reported = OccurrencesIn(line) \cup
                           (IF program.lowers THEN OccurrencesIn(Lowercase(line)) ELSE {})
    BY DEF FoundInBuffer
  <2>2. /\ TypeOK /\ FactsRight /\ NoneMissed /\ line \in Lines /\ lines_read \in Nat
    BY <2>1 DEF IInv, TypeOK
  <2>3. /\ line \in Seq(Token) \ {<< >>} /\ BufferSize \in Nat
    BY <2>2, LineIs, SizesAssumption
  <2>4. /\ OccurrencesIn(line) \subseteq Reported
        /\ program.lowers => OccurrencesIn(Lowercase(line)) \subseteq Reported
    BY <2>1, <2>2 DEF NoneMissed
  <2>5. ASSUME NEW f \in printed, InFirstBuffer(f),
               NEW tokens \in {line, Lowercase(line)}, OwnIn(f, tokens)
        PROVE  <<f.at, Pattern(f.expression)>> \in OccurrencesIn(tokens)
    <3> DEFINE P == Pattern(f.expression)
               T == Text(tokens)
               m == IF Len(T) < BufferSize THEN Len(T) ELSE BufferSize
    <3>1. /\ f.from = 0 /\ f.at \in Nat /\ f.at <= BufferSize
          /\ f.expression \in program.expressions /\ f.expression \in Expression
      BY <2>2, <2>5, ProgramIs DEF FactsRight, InFirstBuffer
    <3>2. T \in Seq(Char \cup {Separator, Newline}) /\ Len(T) \in Nat
      BY <2>3, TextsAlike
    <3>3. Len(P) \in Nat /\ Len(P) >= 2
      BY <3>1, PatternEnds
    <3>4. Matching!EndsAt(P, T, f.at)
      <4>1. f.from + f.at = f.at
        BY <3>1
      <4> QED  BY <2>5, <4>1 DEF OwnIn
    <3> HIDE DEF P, T
    <3>5. /\ f.at \in Len(P)..Len(T) /\ \A i \in 1..Len(P) : P[i] = T[f.at - Len(P) + i]
      BY <3>4 DEF Matching!EndsAt
    <3>6. /\ m \in Nat /\ m <= Len(T) /\ f.at <= m
      BY <2>3, <3>1, <3>2, <3>5
    <3>7. FirstBuffer(T) = SubSeq(T, 1, m)
      BY DEF FirstBuffer
    <3> HIDE DEF m
    <3>8. Len(FirstBuffer(T)) = m /\ \A i \in 1..m : FirstBuffer(T)[i] = T[i]
      BY <3>2, <3>6, <3>7
    <3>9. Matching!EndsAt(P, FirstBuffer(T), f.at)
      <4>1. PICK t : t = FirstBuffer(T)
        OBVIOUS
      <4>2. f.at \in Len(P)..Len(t)
        BY <3>1, <3>3, <3>5, <3>6, <3>8, <4>1
      <4>3. ASSUME NEW i \in 1..Len(P) PROVE P[i] = t[f.at - Len(P) + i]
        <5>1. f.at - Len(P) + i \in 1..m
          BY <3>1, <3>3, <3>5, <3>6
        <5> QED  BY <3>5, <3>8, <4>1, <5>1
      <4> QED  BY <4>1, <4>2, <4>3 DEF Matching!EndsAt
    <3>10. f.at \in 1..Len(FirstBuffer(T))
      BY <3>1, <3>3, <3>5, <3>6, <3>8
    <3>11. P \in {Pattern(e) : e \in program.expressions}
      BY <3>1 DEF P
    <3>12. PICK o : o = <<f.at, P>>
      OBVIOUS
    <3>13. o \in OccurrencesIn(tokens)
      BY <3>9, <3>10, <3>11, <3>12 DEF OccurrencesIn, Matching!Occurrences, T
    <3> QED  BY <3>12, <3>13 DEF P
  <2>6. ASSUME NEW f \in printed, InFirstBuffer(f)
        PROVE  <<f.at, Pattern(f.expression)>> \in OccurrencesIn(line) \cup
                  (IF program.lowers THEN OccurrencesIn(Lowercase(line)) ELSE {})
    <3>1. OwnLine(f)
      <4>1. /\ f.from = 0 /\ f.at \in Nat /\ f.at <= Len(Text(line)) /\ (OwnLine(f) \/ Behind(f))
            /\ Len(Text(line)) \in Nat
        BY <2>2, <2>6, LineIs DEF FactsRight, InFirstBuffer
      <4>2. ~ (f.from + f.at > Len(Text(line)))
        BY <4>1
      <4> QED  BY <4>1, <4>2 DEF Behind
    <3> QED  BY <2>5, <2>6, <3>1 DEF OwnLine
  <2> QED  BY <2>4, <2>6 DEF Reported
<1> QED  BY <1>1, Invariant, PTL

(***************************************************************************)
(* Part 3: the ids of a fact.                                              *)
(***************************************************************************)
LEMMA AmongSame ==
    ASSUME NEW s, NEW S1, NEW S2, \A i \in 1..Len(s) : s[i] \in S1 <=> s[i] \in S2
    PROVE  Among(s, S1) = Among(s, S2)
<1>1. {i \in 1..Len(s) : s[i] \in S1} = {i \in 1..Len(s) : s[i] \in S2}
  OBVIOUS
<1> QED  BY <1>1 DEF Among

\* The ids of an expression that ends with the last-th token resolve to its words'.
LEMMA IdsResolve ==
    ASSUME TypeOK, line \in Lines, Lines \subseteq Seq(Word \cup Listed), mapping = WordIds(line),
           NEW m \in Nat, m >= 1, NEW last \in 1..(Len(line) - 1), m <= last,
           program.counts \/ \A j \in (last - m + 1)..last : line[j] \notin Listed
    PROVE  LET id == IF program.counts THEN last ELSE Counted(line, last)
           IN Resolved([i \in 1..m |-> id - m + i]) = WordsOf(last - m + 1, last)
<1> DEFINE n == Len(line)
           W == {i \in 1..n : IsWord(line[i])}
           words == Among(UpTo(last - m + 1, last), W)
<1>1. line \in Seq(Token) \ {<< >>} /\ n \in Nat /\ n >= 1
  BY LineIs, TextsAlike
<1>2. PICK first : first = last - m + 1
  OBVIOUS
<1>3. /\ first \in Int /\ first \in Nat /\ first >= 1 /\ last \in Nat /\ last = first + m - 1
      /\ last <= n - 1
      /\ \A j \in first..last : j \in 1..n /\ j \in 1..(n - 1)
  BY <1>1, <1>2
<1>4. \A j \in 1..n : IsWord(line[j]) <=> ~ IsPunctuation(line[j])
  <2>1. line \in Seq(Word \cup Listed)
    OBVIOUS
  <2>2. \A j \in 1..n : line[j] \in Word \cup Listed
    BY <2>1
  <2> QED  BY <2>2, TokenAssumption DEF IsWord, IsPunctuation
<1>5. ASSUME NEW k \in 1..n
      PROVE  Cardinality({j \in 1..k : IsWord(line[j])}) = Counted(line, k)
  <2>1. \A j \in 1..k : j \in 1..n
    BY <1>1
  <2>2. {j \in 1..k : IsWord(line[j])} = {j \in 1..k : ~ IsPunctuation(line[j])}
    BY <1>4, <2>1
  <2> QED  BY <2>2 DEF Counted
<1>6. /\ UpTo(first, last) = [i \in 1..m |-> first + i - 1]
      /\ Len(UpTo(first, last)) = m
      /\ \A i \in 1..m : UpTo(first, last)[i] = first + i - 1 /\ first + i - 1 \in first..last
  <2>1. last - first + 1 = m
    BY <1>3
  <2> QED  BY <1>3, <2>1 DEF UpTo
<1> HIDE DEF n, W
<1>7. /\ Len(words) \in Nat /\ \A i \in 1..Len(words) : words[i] \in first..last
      /\ first..last \subseteq W => words = UpTo(first, last)
  <2>1. LET kept == Among(UpTo(first, first + m - 1), W)
        IN /\ Len(kept) \in Nat /\ kept \in Seq(first..(first + m - 1))
           /\ first..(first + m - 1) \subseteq W => kept = UpTo(first, first + m - 1)
    BY <1>3, AmongIs
  <2>2. /\ Len(words) \in Nat /\ words \in Seq(first..last)
        /\ first..last \subseteq W => words = UpTo(first, last)
    BY <1>2, <1>3, <2>1
  <2>3. PICK S : S = first..last
    OBVIOUS
  <2> HIDE DEF words
  <2>4. words \in Seq(S) /\ Len(words) \in Nat
    BY <2>2, <2>3
  <2>5. \A i \in 1..Len(words) : words[i] \in S
    BY <2>4
  <2> QED  BY <2>2, <2>3, <2>5
<1>8. WordsOf(first, last) = [i \in 1..Len(words) |-> Counted(line, words[i])]
  <2>1. WordsOf(first, last) =
           [i \in 1..Len(words) |-> Cardinality({j \in 1..words[i] : IsWord(line[j])})]
    BY <1>2 DEF WordsOf, W, n
  <2> HIDE DEF words
  <2>2. \A i \in 1..Len(words) : words[i] \in 1..n
    BY <1>3, <1>7
  <2>3. \A i \in 1..Len(words) :
           Cardinality({j \in 1..words[i] : IsWord(line[j])}) = Counted(line, words[i])
    BY <1>5, <2>2
  <2> QED  BY <2>1, <2>3
<1>9. CASE program.counts
  <2> DEFINE ids == [i \in 1..m |-> last - m + i]
  <2>1. ids = UpTo(first, last)
    <3>1. \A i \in 1..m : last - m + i = first + i - 1
      BY <1>2, <1>3
    <3> QED  BY <1>6, <3>1
  <2>2. DOMAIN mapping = {i \in 1..(n - 1) : ~ IsPunctuation(line[i])}
        /\ \A i \in DOMAIN mapping : mapping[i] = Counted(line, i)
    BY DEF WordIds, n
  <2>3. \A j \in first..last : j \in DOMAIN mapping <=> j \in W
    BY <1>3, <1>4, <2>2 DEF W
  <2>4. Among(UpTo(first, last), DOMAIN mapping) = words
    <3>1. \A i \in 1..Len(UpTo(first, last)) :
             UpTo(first, last)[i] \in DOMAIN mapping <=> UpTo(first, last)[i] \in W
      BY <1>6, <2>3
    <3> QED  BY <1>2, <3>1, AmongSame
  <2>5. \A i \in 1..Len(words) : words[i] \in DOMAIN mapping
    <3>1. LET kept == Among(UpTo(first, first + m - 1), DOMAIN mapping)
          IN \A k \in 1..Len(kept) : kept[k] \in DOMAIN mapping
      BY <1>3, AmongIs
    <3> QED  BY <1>3, <2>4, <3>1
  <2> HIDE DEF words
  <2>6. Resolved(ids) = [i \in 1..Len(words) |-> mapping[words[i]]]
    BY <1>9, <2>1, <2>4 DEF Resolved
  <2>7. Resolved(ids) = WordsOf(first, last)
    BY <1>8, <2>2, <2>5, <2>6
  <2> QED  BY <1>2, <1>9, <2>7
<1>10. CASE ~ program.counts
  <2> DEFINE c == Counted(line, last)
             ids == [i \in 1..m |-> c - m + i]
             Other == {d \in Nat : d < m /\ Counted(line, last - d) # c - d}
  <2>1. \A j \in first..last : line[j] \notin Listed /\ j \in W
    BY <1>2, <1>3, <1>4, <1>10 DEF IsPunctuation, W
  <2>2. words = UpTo(first, last)
    BY <1>7, <2>1
  <2>3. c \in Nat
    BY <1>1, CountedIs DEF n
  <2>4. Other = {}
    <3>1. SUFFICES ASSUME Other # {} PROVE FALSE
      OBVIOUS
    <3>2. PICK d \in Other : d = 0 \/ (d - 1 \in Nat /\ d - 1 \notin Other)
      BY <3>1, LeastNumber
    <3>3. d # 0
      BY <1>3, <2>3, <3>2
    <3>4. d \in Nat /\ d < m /\ d - 1 \in Nat /\ Counted(line, last - (d - 1)) = c - (d - 1)
      BY <3>2, <3>3
    <3>5. PICK j : j = last - (d - 1)
      OBVIOUS
    <3>6. j \in first..last /\ j \in 1..n /\ j - 1 = last - d
      BY <1>3, <3>4, <3>5
    <3>7. /\ Counted(line, j) = Counted(line, j - 1) + 1
          /\ Counted(line, j) \in Nat /\ Counted(line, j - 1) \in Nat
      BY <1>1, <2>1, <3>6, CountedIs DEF n
    <3>8. Counted(line, last - d) = c - d
      <4> HIDE DEF c
      <4> QED  BY <2>3, <3>4, <3>5, <3>6, <3>7
    <3> QED  BY <3>2, <3>8
  <2>5. ASSUME NEW i \in 1..m PROVE Counted(line, first + i - 1) = c - m + i
    <3>1. PICK d : d = m - i
      OBVIOUS
    <3>2. d \in Nat /\ d < m /\ last - d = first + i - 1
      BY <1>3, <3>1
    <3> HIDE DEF c
    <3>3. Counted(line, last - d) = c - d
      BY <2>4, <3>2
    <3>4. c - d = c - m + i
      BY <2>3, <3>1
    <3> QED  BY <3>2, <3>3, <3>4
  <2>6. WordsOf(first, last) = [i \in 1..m |-> Counted(line, first + i - 1)]
    <3> HIDE DEF words
    <3> QED  BY <1>6, <1>8, <2>2
  <2> HIDE DEF c
  <2>7. Resolved(ids) = ids
    BY <1>10 DEF Resolved
  <2>8. Resolved(ids) = WordsOf(first, last)
    BY <2>5, <2>6, <2>7
  <2> QED  BY <1>2, <1>10, <2>8 DEF c
<1> QED  BY <1>9, <1>10

NamesWords(f) == \E last \in 1..Len(line) :
                    /\ EndOf(line, last) = f.at
                    /\ Resolved(f.ids) = WordsOf(last - Len(f.expression) + 1, last)

\* A match in the first buffer names the words it is at.
LEMMA MatchNames ==
    ASSUME IInv, SearchBuffer, Lines \subseteq Seq(Word \cup Listed), chunk_start = 0,
           NEW e \in program.expressions, NEW k \in Nat, k <= Len(Text(line)),
           NEW f, IsOf(f, e, k)
    PROVE  NamesWords(f)
<1> DEFINE n == Len(line)
           m == Len(e)
<1>1. /\ TypeOK /\ TextInFront /\ TableInFront /\ line \in Lines /\ loop # "idle"
      /\ chunk_start < LineSize
  BY Searching
<1>2. /\ line \in Seq(Token) \ {<< >>} /\ line \in Expression /\ e \in Expression
      /\ line \in Seq(Str) /\ e \in Seq(Str) /\ n \in Nat /\ m \in Nat /\ m >= 1
      /\ ~ program.counts => \A j \in 1..m : e[j] \notin Listed
  <2>1. line \in Seq(Token) \ {<< >>} /\ e \in Expression
    BY <1>1, LineIs, ProgramIs
  <2>2. /\ line \in Expression /\ line \in Seq(Str) /\ n \in Nat
        /\ e \in Seq(Str) /\ m \in Nat /\ m >= 1
    BY <2>1, TextsAlike, PatternIs
  <2>3. ~ program.counts => \A j \in 1..m : e[j] \notin Listed
    BY <1>1, ProgramIs
  <2> QED  BY <2>1, <2>2, <2>3
<1>3. PICK tokens \in {line, Lowercase(line)} : Shown = Text(tokens)
  BY DEF Shown
<1>4. /\ tokens \in Expression /\ Len(tokens) = n
      /\ \A i \in 0..n : Ends(tokens)[i] = Ends(line)[i]
      /\ \A i \in 1..n : tokens[i] \in Listed <=> line[i] \in Listed
  BY <1>2, LowercaseIs
<1>5. Matching!EndsAt(Pattern(e), Text(tokens), k)
  <2>1. <<k, e>> \in Matches /\ chunk_start + k = k
    BY DEF IsOf
  <2>2. chunk_start + k <= Len(Text(line)) => Matching!EndsAt(Pattern(e), Shown, chunk_start + k)
    BY <1>1, <2>1, MatchOwn
  <2> QED  BY <1>3, <2>1, <2>2
<1>6. PICK i \in 0..Len(tokens) : /\ StartsAfter(e, tokens, i)
                                 /\ i + Len(e) < Len(tokens) /\ EndOf(tokens, i + Len(e)) = k
  BY <1>2, <1>4, <1>5, PatternFound
<1>7. PICK last : last = i + m
  OBVIOUS
<1> HIDE DEF n, m
<1>8. /\ last \in 1..(n - 1) /\ m <= last /\ last \in 1..n /\ last \in 0..n
      /\ last - m = i /\ i \in Nat
  BY <1>2, <1>4, <1>6, <1>7 DEF m
<1>9. k = Ends(line)[last]
  BY <1>4, <1>6, <1>7, <1>8 DEF EndOf, m
<1>10. program.counts \/ \A j \in (last - m + 1)..last : line[j] \notin Listed
  <2>1. SUFFICES ASSUME ~ program.counts, NEW j \in (last - m + 1)..last
                 PROVE  line[j] \notin Listed
    OBVIOUS
  <2>2. PICK h : h = j - i
    OBVIOUS
  <2>3. h \in 1..m /\ i + h = j /\ j \in 1..n
    BY <1>2, <1>8, <2>2
  <2>4. tokens[i + h] = e[h]
    BY <1>6, <2>3 DEF StartsAfter, m
  <2> QED  BY <1>2, <1>4, <2>1, <2>3, <2>4
<1>11. program.counts \/ line[last] \notin Listed
  <2>1. last \in (last - m + 1)..last
    BY <1>2, <1>8
  <2> QED  BY <1>10, <2>1
<1>12. EntryFor(k) = {IF program.counts THEN last ELSE Counted(line, last)}
  <2>1. PICK size \in Nat : DOMAIN table = 1..size
    BY <1>1 DEF TypeOK
  <2>2. /\ Len(table) = size /\ Len(Entries(line)) <= Len(table)
        /\ \A h \in 1..Len(Entries(line)) : table[h] = Entries(line)[h]
    BY <1>1, <2>1 DEF TableInFront
  <2> QED  BY <1>2, <1>8, <1>9, <1>11, <2>1, <2>2, EntryIs DEF n
<1>13. PICK id : id = IF program.counts THEN last ELSE Counted(line, last)
  OBVIOUS
<1>14. f.ids = [j \in 1..m |-> id - m + j] /\ f.expression = e /\ f.at = k
  BY <1>12, <1>13 DEF IsOf, m
<1>15. Resolved([j \in 1..m |-> id - m + j]) = WordsOf(last - m + 1, last)
  <2>1. mapping = WordIds(line)
    BY <1>1 DEF TableInFront
  <2> QED  BY <1>1, <1>2, <1>8, <1>10, <1>13, <2>1, IdsResolve DEF n
<1> QED  BY <1>8, <1>9, <1>14, <1>15 DEF NamesWords, EndOf, n, m

\* If the lines have no punctuation but what check_for_punctuation knows, a fact from
\* the first buffer names the words of its expression: the table's first entry with the
\* position is always the line's own, and the ids of the tokens resolve to the words'.
\* (With brackets they do not: the run that expects a violation.)
THEOREM RightWords ==
    ASSUME Lines \subseteq Seq(Word \cup Listed)
    PROVE  Spec => []NamesItsWords
<1>1. Init => NamesItsWords
  BY DEF Init, NamesItsWords
<1>2. ASSUME IInv, NamesItsWords, [Next]_vars PROVE NamesItsWords'
  <2>1. SUFFICES ASSUME NEW f \in printed', InFirstBuffer(f)' PROVE NamesWords(f)'
    BY DEF NamesItsWords, NamesWords
  <2>2. CASE \E l \in Lines : ReadLine(l)
    BY <2>1, <2>2 DEF ReadLine
  <2>3. CASE ~ \E l \in Lines : ReadLine(l)
    <3>1. UNCHANGED <<program, line, mapping>>
      BY <1>2, <2>3 DEF Next, vars, SearchBuffer, ToLower, EndLine
    <3>2. NamesWords(f)' = NamesWords(f) /\ InFirstBuffer(f)
      BY <2>1, <3>1 DEF NamesWords, Resolved, WordsOf, InFirstBuffer
    <3>3. CASE f \in printed
      BY <1>2, <3>2, <3>3 DEF NamesItsWords, NamesWords
    <3>4. CASE f \notin printed
      <4>1. SearchBuffer
        BY <1>2, <2>1, <2>3, <3>4 DEF Next, vars, ToLower, EndLine
      <4>2. PICK R : /\ printed' = printed \cup R
                     /\ \A g \in R : \E e \in program.expressions, k \in Nat : IsOf(g, e, k)
                     /\ \A e \in program.expressions, k \in Nat :
                           <<k, e>> \in Matches => \E g \in R : IsOf(g, e, k)
        BY <4>1, Added
      <4>3. PICK e \in program.expressions, k \in Nat : IsOf(f, e, k)
        BY <2>1, <3>4, <4>2
      <4>4. chunk_start = 0 /\ k <= Len(Text(line))
        BY <3>2, <4>3 DEF IsOf, InFirstBuffer
      <4>5. NamesWords(f)
        BY <1>2, <4>1, <4>3, <4>4, MatchNames
      <4> QED  BY <3>2, <4>5
    <3> QED  BY <3>3, <3>4
  <2> QED  BY <2>2, <2>3
<1> QED  BY <1>1, <1>2, Invariant, PTL DEF Spec
===============================================================================
