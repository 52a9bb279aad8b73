-------------------------- MODULE Variables_proofs --------------------------
(***************************************************************************)
(* The chain of tables of variables.c, for any names, values, scripts and  *)
(* depths: which operations keep one name's cells well formed, with every  *)
(* variable at the level of its context.  First come lemmas about folds    *)
(* and sequences, then one for each function of the C code, then one for   *)
(* each command.  The second part is about what children are given: an     *)
(* operation of variables.c either sets array_needs_making or leaves alone *)
(* what the exported variables say.  A name shows what its highest cell    *)
(* with an exported, visible variable says, the temporary environment      *)
(* first; an operation from cells c to cells d "leads" when d is tidy      *)
(* again and, unless the flag is set, shows what c shows.                  *)
(***************************************************************************)
EXTENDS Variables, SequenceTheorems, FiniteSetTheorems, WellFoundedInduction, TLAPS

LEMMA SetInduction ==
  ASSUME NEW S, 0 \in S, \A n \in Nat : n \in S => n + 1 \in S
  PROVE  \A n \in Nat : n \in S
<1> DEFINE Less == OpToRel(<, Nat)
           B == Nat \ S
<1>1. IsWellFoundedOn(Less, Nat)
  BY NatLessThanWellFounded
<1>2. \A x, y \in Nat : <<y, x>> \in Less <=> y < x
  BY DEF OpToRel
<1> HIDE DEF Less
<1>3. ASSUME B # {} PROVE FALSE
  <2>1. PICK x \in B : \A y \in B : ~(<<y, x>> \in Less)
    BY <1>1, <1>3, WFMin
  <2>2. x \in Nat /\ x # 0 /\ x - 1 \in Nat /\ x - 1 < x /\ x = (x - 1) + 1
    OBVIOUS
  <2>3. x - 1 \in S
    BY <1>2, <2>1, <2>2
  <2> QED BY <2>2, <2>3
<1> QED BY <1>3
-----------------------------------------------------------------------------
(* FoldLeft, which pop_scope, pop_var_context and dispose_temporary_env    *)
(* are made of: what every turn keeps holds in the end.                    *)

Largest(s) == CHOOSE i \in s : \A j \in s : i >= j

LEMMA LargestIn ==
  ASSUME NEW n \in Nat, NEW s \in SUBSET (1..n + 1), n + 1 \in s
  PROVE  Largest(s) = n + 1
<1>1. \A j \in s : n + 1 >= j
  OBVIOUS
<1>2. Largest(s) \in s /\ \A j \in s : Largest(s) >= j
  BY <1>1 DEF Largest
<1>3. Largest(s) \in 1..n + 1 /\ Largest(s) >= n + 1
  BY <1>2
<1> QED BY <1>3

(* The partial results of a fold of f over 1..n, on the sets that are left *)
(* to go through.                                                          *)
Turns(g, n, base, f) ==
  g = [s \in SUBSET (1..n) |-> IF s = {} THEN base ELSE f[g[s \ {Largest(s)}]][Largest(s)]]

LEMMA SomeTurns ==
  ASSUME NEW X, NEW base \in X, NEW n \in Nat, NEW f \in [X -> [1..n -> X]]
  PROVE  \E g \in [SUBSET (1..n) -> X] : Turns(g, n, base, f)
<1> DEFINE T(m) == \E g \in [SUBSET (1..m) -> X] : Turns(g, m, base, f)
           S == {m \in Nat : m <= n => T(m)}
<1>1. T(0)
  <2> DEFINE g == [s \in SUBSET (1..0) |-> base]
  <2>1. \A s \in SUBSET (1..0) : s = {}
    OBVIOUS
  <2>2. g \in [SUBSET (1..0) -> X] /\ Turns(g, 0, base, f)
    BY <2>1 DEF Turns
  <2> QED BY <2>2
<1>2. ASSUME NEW m \in Nat, T(m), m + 1 <= n PROVE T(m + 1)
  <2>1. PICK g \in [SUBSET (1..m) -> X] : Turns(g, m, base, f)
    BY <1>2
  <2> DEFINE h == [s \in SUBSET (1..m + 1) |->
                     IF m + 1 \in s THEN f[g[s \ {m + 1}]][m + 1] ELSE g[s]]
  <2>2. \A s \in SUBSET (1..m + 1) : (m + 1 \in s => s \ {m + 1} \in SUBSET (1..m))
                                     /\ (m + 1 \notin s => s \in SUBSET (1..m))
    OBVIOUS
  <2>3. m + 1 \in 1..n
    BY <1>2
  <2>4. h \in [SUBSET (1..m + 1) -> X]
    BY <2>2, <2>3
  <2>5. ASSUME NEW s \in SUBSET (1..m + 1)
        PROVE  h[s] = IF s = {} THEN base ELSE f[h[s \ {Largest(s)}]][Largest(s)]
    <3>1. CASE m + 1 \in s
      <4>1. Largest(s) = m + 1
        BY <3>1, LargestIn
      <4>2. s \ {m + 1} \in SUBSET (1..m + 1) /\ m + 1 \notin s \ {m + 1} /\ s # {}
        BY <3>1
      <4>3. h[s \ {m + 1}] = g[s \ {m + 1}]
        BY <4>2
      <4> QED BY <3>1, <4>1, <4>2, <4>3
    <3>2. CASE m + 1 \notin s
      <4>1. s \in SUBSET (1..m)
        BY <2>2, <3>2
      <4>2. s \ {Largest(s)} \in SUBSET (1..m) /\ m + 1 \notin s \ {Largest(s)}
            /\ s \ {Largest(s)} \in SUBSET (1..m + 1)
        BY <3>2, <4>1
      <4>3. h[s] = g[s] /\ h[s \ {Largest(s)}] = g[s \ {Largest(s)}]
        BY <3>2, <4>2
      <4>4. g[s] = IF s = {} THEN base ELSE f[g[s \ {Largest(s)}]][Largest(s)]
        BY <2>1, <4>1 DEF Turns
      <4> QED BY <4>3, <4>4
    <3> QED BY <3>1, <3>2
  <2>6. Turns(h, m + 1, base, f)
    BY <2>5 DEF Turns
  <2> QED BY <2>4, <2>6
<1> HIDE DEF T
<1>3. 0 \in S /\ \A m \in Nat : m \in S => m + 1 \in S
  BY <1>1, <1>2
<1> HIDE DEF S
<1>4. n \in S
  BY <1>3, SetInduction
<1>5. T(n)
  BY <1>4 DEF S
<1> QED BY <1>5 DEF T

LEMMA TurnsStay ==
  ASSUME NEW X, NEW n \in Nat, NEW g,
         \A s \in SUBSET (1..n) : s = {} \/ g[s \ {Largest(s)}] \in X => g[s] \in X
  PROVE  \A s \in SUBSET (1..n) : g[s] \in X
<1> DEFINE S == {m \in Nat : m <= n => \A s \in SUBSET (1..m) : g[s] \in X}
<1>1. 0 \in S
  <2>1. \A s \in SUBSET (1..0) : s = {} /\ s \in SUBSET (1..n)
    OBVIOUS
  <2> QED BY <2>1
<1>2. ASSUME NEW m \in Nat, m \in S PROVE m + 1 \in S
  <2> SUFFICES ASSUME m + 1 <= n, NEW s \in SUBSET (1..m + 1) PROVE g[s] \in X
    OBVIOUS
  <2>1. \A t \in SUBSET (1..m) : g[t] \in X
    BY <1>2
  <2>2. s \in SUBSET (1..n)
    OBVIOUS
  <2>3. CASE m + 1 \in s
    <3>1. Largest(s) = m + 1
      BY <2>3, LargestIn
    <3>2. s \ {m + 1} \in SUBSET (1..m)
      OBVIOUS
    <3> QED BY <2>1, <2>2, <3>1, <3>2
  <2>4. CASE m + 1 \notin s
    <3>1. s \in SUBSET (1..m)
      BY <2>4
    <3> QED BY <2>1, <3>1
  <2> QED BY <2>3, <2>4
<1> HIDE DEF S
<1>3. n \in S
  BY <1>1, <1>2, SetInduction
<1> QED BY <1>3 DEF S
-----------------------------------------------------------------------------
(* Cells.  S is a chain of contexts, D the bound on it. *)

Vals == Values \cup {None}
Var(D) == [value : Vals, str : Vals, attrs : SUBSET Attributes, context : 0..D]
Scopes(D) == [kind : Kinds, scope : 0..D, keep : BOOLEAN]
TabOK(tab, S, D) ==
  /\ tab \in [0..Len(S) -> Seq(Var(D))]
  /\ Len(tab[0]) <= 1
  /\ \A k \in 1..Len(S) : \A i \in 1..Len(tab[k]) : tab[k][i].context = S[k].scope
CellsOK(c, S, D) ==
  c = [tab |-> c.tab, needs |-> c.needs] /\ c.needs \in BOOLEAN /\ TabOK(c.tab, S, D)

(* A chain begins with the global table, and knows the level of every      *)
(* context.                                                                *)
Levels(S) == \A k \in 1..Len(S) : S[k].scope = Level(SubSeq(S, 1, k))
ChainOK(S, D) ==
  /\ S \in Seq(Scopes(D)) /\ Len(S) \in 1..D
  /\ S[1].kind = "global" /\ Levels(S)

(* A variable that may be in table k *)
Fits(var, k, S, D) == var \in Var(D) /\ (k # 0 => var.context = S[k].scope)

LEMMA HighestIn ==
  ASSUME NEW S \in SUBSET Nat, NEW n \in Nat, \A k \in S : k <= n
  PROVE  /\ S # {} => Highest(S) \in S /\ \A j \in S : j <= Highest(S)
         /\ S = {} => Highest(S) = 0
<1>1. CASE S # {}
  <2>1. \E k \in S : \A j \in S : j <= k
    <3> DEFINE I == {m \in Nat : \A R \in SUBSET Nat : R # {} /\ (\A k \in R : k <= m) =>
                                     \E k \in R : \A j \in R : j <= k}
    <3>1. 0 \in I
      <4> SUFFICES ASSUME NEW R \in SUBSET Nat, R # {}, \A k \in R : k <= 0
                   PROVE  \E k \in R : \A j \in R : j <= k
        OBVIOUS
      <4>1. PICK k \in R : TRUE
        OBVIOUS
      <4>2. \A j \in R : j = 0
        OBVIOUS
      <4> QED BY <4>1, <4>2
    <3>2. ASSUME NEW m \in Nat, m \in I PROVE m + 1 \in I
      <4> SUFFICES ASSUME NEW R \in SUBSET Nat, R # {}, \A k \in R : k <= m + 1
                   PROVE  \E k \in R : \A j \in R : j <= k
        OBVIOUS
      <4>1. CASE m + 1 \in R
        BY <4>1
      <4>2. CASE m + 1 \notin R
        <5>1. \A k \in R : k <= m
          BY <4>2
        <5> QED BY <3>2, <5>1
      <4> QED BY <4>1, <4>2
    <3> HIDE DEF I
    <3>3. n \in I
      BY <3>1, <3>2, SetInduction
    <3> QED BY <1>1, <3>3 DEF I
  <2> QED BY <1>1, <2>1 DEF Highest
<1>2. CASE S = {}
  BY <1>2 DEF Highest
<1> QED BY <1>1, <1>2

LEMMA Lookup ==
  ASSUME NEW D \in Nat, NEW S \in Seq(Scopes(D)), NEW c, CellsOK(c, S, D)
  PROVE  /\ Top(c) = Len(S)
         /\ VarLookup(c) \in 0..Len(S)
         /\ VarLookup(c) # 0 => c.tab[VarLookup(c)] # <<>>
         /\ \A k \in 1..Len(S) : c.tab[k] # <<>> => k <= VarLookup(c)
         /\ DOMAIN c.tab = 0..Len(S)
<1> DEFINE E == <<>>
           K == {k \in DOMAIN c.tab \ {0} : c.tab[k] # E}
<1> HIDE DEF E
<1>1. DOMAIN c.tab = 0..Len(S) /\ Len(S) \in Nat
  BY DEF CellsOK, TabOK
<1>2. 0..Len(S) \in SUBSET Nat /\ 0..Len(S) # {} /\ \A k \in 0..Len(S) : k <= Len(S)
  BY <1>1
<1>3. Highest(0..Len(S)) \in 0..Len(S) /\ \A j \in 0..Len(S) : j <= Highest(0..Len(S))
  BY <1>1, <1>2, HighestIn
<1>4. Top(c) = Len(S)
  <2>1. Len(S) \in 0..Len(S)
    BY <1>1
  <2>2. Len(S) <= Highest(0..Len(S)) /\ Highest(0..Len(S)) <= Len(S)
    BY <1>3, <2>1
  <2> QED BY <1>1, <1>3, <2>2 DEF Top
<1>5. K \in SUBSET Nat /\ (\A k \in K : k <= Len(S)) /\ K \subseteq 1..Len(S)
  BY <1>1
<1>6. VarLookup(c) = Highest(K)
  BY DEF VarLookup, E
<1>7. /\ K # {} => Highest(K) \in K /\ \A j \in K : j <= Highest(K)
      /\ K = {} => Highest(K) = 0
  BY <1>1, <1>5, HighestIn
<1>8. \A k \in 1..Len(S) : c.tab[k] # E => k \in K
  BY <1>1
<1>9. VarLookup(c) \in 0..Len(S) /\ (VarLookup(c) # 0 => c.tab[VarLookup(c)] # E)
  BY <1>1, <1>5, <1>6, <1>7
<1>10. \A k \in 1..Len(S) : c.tab[k] # E => k <= VarLookup(c)
  BY <1>6, <1>7, <1>8
<1> QED BY <1>1, <1>4, <1>9, <1>10 DEF E

LEMMA BoundIn ==
  ASSUME NEW D \in Nat, NEW S \in Seq(Scopes(D)), Len(S) >= 1, NEW c, CellsOK(c, S, D)
  PROVE  Bound(c) \in 1..Len(S)
BY Lookup DEF Bound

(* The first variable of a cell, when there is one. *)
LEMMA AtFits ==
  ASSUME NEW D \in Nat, NEW S \in Seq(Scopes(D)), NEW c, CellsOK(c, S, D),
         NEW k \in 0..Len(S), c.tab[k] # <<>>
  PROVE  Fits(At(c, k), k, S, D)
<1> DEFINE E == <<>>
<1>1. c.tab[k] \in Seq(Var(D)) /\ c.tab[k] # E
  BY DEF CellsOK, TabOK
<1>2. Len(c.tab[k]) >= 1 /\ 1 \in 1..Len(c.tab[k])
  BY <1>1, EmptySeq
<1>3. c.tab[k][1] \in Var(D)
  BY <1>1, <1>2, ElementOfSeq
<1>4. \A j \in 1..Len(S) : \A i \in 1..Len(c.tab[j]) : c.tab[j][i].context = S[j].scope
  BY DEF CellsOK, TabOK
<1>5. k # 0 => k \in 1..Len(S)
  OBVIOUS
<1>6. k # 0 => c.tab[k][1].context = S[k].scope
  BY <1>2, <1>4, <1>5
<1> QED BY <1>3, <1>6 DEF Fits, At

Rest(q) == IF q = <<>> THEN <<>> ELSE Tail(q)

LEMMA OnTop ==
  ASSUME NEW V, NEW q \in Seq(V), NEW e \in V
  PROVE  /\ <<e>> \o q \in Seq(V) /\ Len(<<e>> \o q) = Len(q) + 1
         /\ (<<e>> \o q)[1] = e /\ <<e>> \o q # <<>>
         /\ \A i \in 2..Len(q) + 1 : (<<e>> \o q)[i] = q[i - 1]
<1> DEFINE E == <<>>
           H == <<e>>
<1>1. H \in Seq(V) /\ Len(H) = 1 /\ H[1] = e
  OBVIOUS
<1> HIDE DEF H
<1>a. /\ H \o q \in Seq(V) /\ Len(H \o q) = Len(H) + Len(q)
      /\ \A i \in 1..Len(H) + Len(q) : (H \o q)[i] = IF i <= Len(H) THEN H[i] ELSE q[i - Len(H)]
  BY <1>1, ConcatProperties
<1>b. Len(q) \in Nat
  BY LenProperties
<1>2. H \o q \in Seq(V) /\ Len(H \o q) = Len(q) + 1 /\ (H \o q)[1] = e
  BY <1>1, <1>a, <1>b
<1>3. \A i \in 2..Len(q) + 1 : (H \o q)[i] = q[i - 1]
  BY <1>1, <1>a, <1>b
<1>4. Len(E) = 0
  OBVIOUS
<1> HIDE DEF E
<1>5. H \o q # E
  BY <1>2, <1>4
<1> QED BY <1>2, <1>3, <1>5 DEF H, E

LEMMA RestIs ==
  ASSUME NEW V, NEW q \in Seq(V)
  PROVE  /\ Rest(q) \in Seq(V)
         /\ q = <<>> => Rest(q) = <<>>
         /\ q # <<>> => Len(Rest(q)) = Len(q) - 1 /\ \A i \in 1..Len(Rest(q)) : Rest(q)[i] = q[i + 1]
<1> DEFINE E == <<>>
<1>1. E \in Seq(V)
  OBVIOUS
<1> HIDE DEF E
<1>2. CASE q = E
  <2>1. Rest(q) = E
    BY <1>2 DEF Rest, E
  <2> QED BY <1>1, <1>2, <2>1 DEF E
<1>3. CASE q # E
  <2>1. Rest(q) = Tail(q)
    BY <1>3 DEF Rest, E
  <2>2. Tail(q) \in Seq(V) /\ Len(Tail(q)) = Len(q) - 1 /\ \A i \in 1..Len(Tail(q)) : Tail(q)[i] = q[i + 1]
    BY <1>3, HeadTailProperties DEF E
  <2> QED BY <1>3, <2>1, <2>2 DEF E
<1> QED BY <1>2, <1>3

(* What table k may hold under one name *)
Cell(q, k, S, D) == q \in Seq(Var(D)) /\ (k = 0 => Len(q) <= 1) /\ \A i \in 1..Len(q) : Fits(q[i], k, S, D)

LEMMA CellOf ==
  ASSUME NEW D \in Nat, NEW S \in Seq(Scopes(D)), NEW c, CellsOK(c, S, D), NEW k \in 0..Len(S)
  PROVE  Cell(c.tab[k], k, S, D)
<1>1. c.tab[k] \in Seq(Var(D)) /\ Len(c.tab[0]) <= 1
  BY DEF CellsOK, TabOK
<1>2. \A j \in 1..Len(S) : \A i \in 1..Len(c.tab[j]) : c.tab[j][i].context = S[j].scope
  BY DEF CellsOK, TabOK
<1>3. k # 0 => k \in 1..Len(S)
  OBVIOUS
<1>4. \A i \in 1..Len(c.tab[k]) : c.tab[k][i] \in Var(D)
  BY <1>1, ElementOfSeq
<1> QED BY <1>1, <1>2, <1>3, <1>4 DEF Cell, Fits

(* c with the cell q in table k *)
Changed(c, k, q, flag) == [tab |-> [c.tab EXCEPT ![k] = q], needs |-> flag]

LEMMA ChangedOK ==
  ASSUME NEW D \in Nat, NEW S \in Seq(Scopes(D)), NEW c, CellsOK(c, S, D), NEW k \in 0..Len(S),
         NEW q, Cell(q, k, S, D), NEW flag \in BOOLEAN
  PROVE  /\ CellsOK(Changed(c, k, q, flag), S, D)
         /\ Changed(c, k, q, flag).tab[k] = q /\ Changed(c, k, q, flag).needs = flag
         /\ \A j \in 0..Len(S) : j # k => Changed(c, k, q, flag).tab[j] = c.tab[j]
<1> DEFINE tab == [c.tab EXCEPT ![k] = q]
<1>1. c.tab \in [0..Len(S) -> Seq(Var(D))] /\ Len(c.tab[0]) <= 1 /\ q \in Seq(Var(D))
      /\ (k = 0 => Len(q) <= 1)
  BY DEF CellsOK, TabOK, Cell
<1>2. tab \in [0..Len(S) -> Seq(Var(D))] /\ tab[k] = q /\ \A j \in 0..Len(S) : j # k => tab[j] = c.tab[j]
  BY <1>1
<1>3. 0 \in 0..Len(S) /\ Len(tab[0]) <= 1
  BY <1>1, <1>2
<1>4. \A j \in 1..Len(S) : \A i \in 1..Len(c.tab[j]) : c.tab[j][i].context = S[j].scope
  BY DEF CellsOK, TabOK
<1>5. k # 0 => \A i \in 1..Len(q) : q[i].context = S[k].scope
  BY DEF Cell, Fits
<1> HIDE DEF tab
<1>6. \A j \in 1..Len(S) : \A i \in 1..Len(tab[j]) : tab[j][i].context = S[j].scope
  BY <1>2, <1>4, <1>5
<1>7. TabOK(tab, S, D)
  BY <1>2, <1>3, <1>6 DEF TabOK
<1>8. Changed(c, k, q, flag) = [tab |-> tab, needs |-> flag]
  BY DEF Changed, tab
<1> QED BY <1>2, <1>7, <1>8 DEF CellsOK

LEMMA OnTopFits ==
  ASSUME NEW D \in Nat, NEW S \in Seq(Scopes(D)), NEW k \in 0..Len(S), NEW q, Cell(q, k, S, D),
         NEW var, Fits(var, k, S, D)
  PROVE  /\ Cell(<<var>> \o Rest(q), k, S, D)
         /\ k # 0 => Cell(<<var>> \o q, k, S, D)
         /\ Cell(Rest(q), k, S, D)
         /\ Cell(<<var>>, k, S, D)
<1>1. q \in Seq(Var(D)) /\ (k = 0 => Len(q) <= 1) /\ (\A i \in 1..Len(q) : Fits(q[i], k, S, D)) /\ Len(q) \in Nat
  BY LenProperties DEF Cell
<1>2. /\ Rest(q) \in Seq(Var(D))
      /\ q = <<>> => Rest(q) = <<>>
      /\ q # <<>> => Len(Rest(q)) = Len(q) - 1 /\ \A i \in 1..Len(Rest(q)) : Rest(q)[i] = q[i + 1]
  BY <1>1, RestIs
<1> DEFINE E == <<>>
<1>3. Len(E) = 0
  OBVIOUS
<1> HIDE DEF E
<1>4. /\ q = E => Rest(q) = E
      /\ q # E => Len(Rest(q)) = Len(q) - 1 /\ \A i \in 1..Len(Rest(q)) : Rest(q)[i] = q[i + 1]
  BY <1>2 DEF E
<1>5. Cell(Rest(q), k, S, D) /\ (k = 0 => Len(Rest(q)) = 0)
  <2>1. CASE q = E
    BY <1>1, <1>2, <1>3, <1>4, <2>1 DEF Cell
  <2>2. CASE q # E
    <3>1. Len(q) # 0
      BY <1>1, <2>2, EmptySeq DEF E
    <3>2. \A i \in 1..Len(Rest(q)) : i + 1 \in 1..Len(q)
      BY <1>1, <1>4, <2>2
    <3>3. \A i \in 1..Len(Rest(q)) : Fits(Rest(q)[i], k, S, D)
      BY <1>1, <1>4, <2>2, <3>2
    <3> QED BY <1>1, <1>2, <1>4, <2>2, <3>1, <3>3 DEF Cell
  <2> QED BY <2>1, <2>2
<1>6. ASSUME NEW r, Cell(r, k, S, D), k = 0 => Len(r) = 0
      PROVE  Cell(<<var>> \o r, k, S, D)
  <2>1. r \in Seq(Var(D)) /\ var \in Var(D) /\ Len(r) \in Nat /\ \A i \in 1..Len(r) : Fits(r[i], k, S, D)
    BY <1>6, LenProperties DEF Cell, Fits
  <2>2. /\ <<var>> \o r \in Seq(Var(D)) /\ Len(<<var>> \o r) = Len(r) + 1
        /\ (<<var>> \o r)[1] = var
        /\ \A i \in 2..Len(r) + 1 : (<<var>> \o r)[i] = r[i - 1]
    BY <2>1, OnTop
  <2> DEFINE t == <<var>> \o r
  <2>3. /\ t \in Seq(Var(D)) /\ Len(t) = Len(r) + 1 /\ t[1] = var
        /\ \A i \in 2..Len(r) + 1 : t[i] = r[i - 1]
    BY <2>2
  <2> HIDE DEF t
  <2>4. \A i \in 1..Len(t) : i = 1 \/ (i \in 2..Len(r) + 1 /\ i - 1 \in 1..Len(r))
    BY <2>1, <2>3
  <2>5. \A i \in 1..Len(t) : Fits(t[i], k, S, D)
    BY <2>1, <2>3, <2>4
  <2>6. k = 0 => Len(t) <= 1
    BY <1>6, <2>3
  <2> QED BY <2>3, <2>5, <2>6 DEF Cell, t
<1>7. Cell(<<var>> \o Rest(q), k, S, D)
  BY <1>5, <1>6
<1>8. k # 0 => Cell(<<var>> \o q, k, S, D)
  BY <1>6
<1>9. Cell(<<var>>, k, S, D)
  <2>1. var \in Var(D)
    BY DEF Fits
  <2>2. <<var>> \in Seq(Var(D)) /\ Len(<<var>>) = 1 /\ <<var>>[1] = var
    BY <2>1
  <2> QED BY <2>2 DEF Cell
<1> QED BY <1>5, <1>7, <1>8, <1>9

(* What Put, Add and Drop make of c *)
IsPut(d, c, k, var, S, D) ==
  /\ d = Changed(c, k, <<var>> \o Rest(c.tab[k]), c.needs)
  /\ CellsOK(d, S, D)
  /\ d.tab[k] = <<var>> \o Rest(c.tab[k])
  /\ d.tab[k] # <<>> /\ At(d, k) = var /\ d.needs = c.needs
  /\ \A j \in 0..Len(S) : j # k => d.tab[j] = c.tab[j]

LEMMA PutIs ==
  ASSUME NEW D \in Nat, NEW S \in Seq(Scopes(D)), NEW c, CellsOK(c, S, D), NEW k \in 0..Len(S),
         NEW var, Fits(var, k, S, D)
  PROVE  IsPut(Put(c, k, var), c, k, var, S, D)
<1>1. c = [tab |-> c.tab, needs |-> c.needs] /\ c.needs \in BOOLEAN /\ DOMAIN c.tab = 0..Len(S)
  BY DEF CellsOK, TabOK
<1>2. Cell(c.tab[k], k, S, D)
  BY CellOf
<1>3. Rest(c.tab[k]) \in Seq(Var(D)) /\ var \in Var(D)
  BY <1>2, RestIs DEF Cell, Fits
<1>4. <<var>> \o Rest(c.tab[k]) # <<>> /\ (<<var>> \o Rest(c.tab[k]))[1] = var
  BY <1>3, OnTop
<1>5. <<var>> \o <<>> = <<var>>
  <2>1. <<var>> \in Seq(Var(D))
    BY <1>3
  <2> QED BY <2>1, ConcatEmptySeq
<1>6. Put(c, k, var) = [c EXCEPT !.tab[k] = <<var>> \o Rest(c.tab[k])]
  BY <1>5 DEF Put, Rest
<1>7. Put(c, k, var) = Changed(c, k, <<var>> \o Rest(c.tab[k]), c.needs)
  BY <1>1, <1>6 DEF Changed
<1>8. Cell(<<var>> \o Rest(c.tab[k]), k, S, D)
  BY <1>2, OnTopFits
<1> DEFINE q == <<var>> \o Rest(c.tab[k])
           d == Changed(c, k, q, c.needs)
<1>q. Cell(q, k, S, D) /\ c.needs \in BOOLEAN
  BY <1>1, <1>8
<1> HIDE DEF q
<1>9. /\ CellsOK(d, S, D) /\ d.tab[k] = q /\ d.needs = c.needs
      /\ \A j \in 0..Len(S) : j # k => d.tab[j] = c.tab[j]
  BY <1>q, ChangedOK
<1>10. Put(c, k, var) = d /\ q # <<>> /\ q[1] = var
  BY <1>4, <1>7 DEF q
<1> HIDE DEF d
<1>11. At(Put(c, k, var), k) = var
  BY <1>9, <1>10 DEF At
<1>12. d = Changed(c, k, <<var>> \o Rest(c.tab[k]), c.needs) /\ q = <<var>> \o Rest(c.tab[k])
  BY DEF d, q
<1> QED BY <1>9, <1>10, <1>11, <1>12 DEF IsPut

WithAttrs(var, attrs) == [var EXCEPT !.attrs = attrs]

LEMMA AttrsFit ==
  ASSUME NEW D, NEW S, NEW k, NEW var, Fits(var, k, S, D), NEW attrs \in SUBSET Attributes
  PROVE  /\ Fits(WithAttrs(var, attrs), k, S, D) /\ WithAttrs(var, attrs).attrs = attrs
         /\ WithAttrs(var, attrs).value = var.value /\ WithAttrs(var, attrs).str = var.str
         /\ WithAttrs(var, attrs).context = var.context
         /\ var.attrs \in SUBSET Attributes /\ var.value \in Vals /\ var.str \in Vals
BY DEF Fits, Var, WithAttrs

LEMMA FirstChanged ==
  ASSUME NEW V, NEW q \in Seq(V), q # <<>>, NEW e \in V
  PROVE  [q EXCEPT ![1] = e] = <<e>> \o Rest(q)
<1> DEFINE E == <<>>
           l == [q EXCEPT ![1] = e]
           r == <<e>> \o Rest(q)
<1>1. q # E /\ Len(q) \in Nat /\ Len(q) # 0
  BY EmptySeq DEF E
<1>2. Rest(q) \in Seq(V) /\ Len(Rest(q)) = Len(q) - 1 /\ \A i \in 1..Len(Rest(q)) : Rest(q)[i] = q[i + 1]
  BY RestIs
<1>3. /\ r \in Seq(V) /\ Len(r) = Len(Rest(q)) + 1 /\ r[1] = e
      /\ \A i \in 2..Len(Rest(q)) + 1 : r[i] = Rest(q)[i - 1]
  BY <1>2, OnTop
<1>4. l \in Seq(V) /\ Len(l) = Len(q) /\ l[1] = e /\ \A i \in 2..Len(q) : l[i] = q[i]
  BY <1>1
<1> HIDE DEF l, r, E
<1>5. Len(r) = Len(q)
  BY <1>1, <1>2, <1>3
<1>6. \A i \in 2..Len(q) : i - 1 \in 1..Len(Rest(q)) /\ i \in 2..Len(Rest(q)) + 1 /\ (i - 1) + 1 = i
  BY <1>1, <1>2
<1>7. \A i \in 2..Len(q) : r[i] = q[i]
  BY <1>2, <1>3, <1>6
<1>8. \A i \in 1..Len(q) : i = 1 \/ i \in 2..Len(q)
  BY <1>1
<1>9. \A i \in 1..Len(q) : l[i] = r[i]
  BY <1>3, <1>4, <1>7, <1>8
<1>10. l = r
  BY <1>3, <1>4, <1>5, <1>9, SeqEqual
<1> QED BY <1>10 DEF l, r

Added(c, k, attrs) == WithAttrs(At(c, k), At(c, k).attrs \cup attrs)

LEMMA AddIs ==
  ASSUME NEW D \in Nat, NEW S \in Seq(Scopes(D)), NEW c, CellsOK(c, S, D), NEW k \in 0..Len(S),
         c.tab[k] # <<>>, NEW attrs \in SUBSET Attributes
  PROVE  IsPut(Add(c, k, attrs), c, k, Added(c, k, attrs), S, D) /\ Fits(Added(c, k, attrs), k, S, D)
<1>1. Fits(At(c, k), k, S, D)
  BY AtFits
<1>a. At(c, k).attrs \cup attrs \in SUBSET Attributes
  BY <1>1 DEF Fits, Var
<1> DEFINE e == Added(c, k, attrs)
<1>2. Fits(e, k, S, D)
  BY <1>1, <1>a, AttrsFit DEF Added
<1>3. c.tab[k] \in Seq(Var(D)) /\ DOMAIN c.tab = 0..Len(S) /\ c = [tab |-> c.tab, needs |-> c.needs]
  BY DEF CellsOK, TabOK
<1>4. [c.tab[k] EXCEPT ![1] = e] = <<e>> \o Rest(c.tab[k])
  <2>1. e \in Var(D)
    BY <1>2 DEF Fits
  <2> HIDE DEF e
  <2> QED BY <1>3, <2>1, FirstChanged
<1>5. Add(c, k, attrs) = [c EXCEPT !.tab = [@ EXCEPT ![k] = [c.tab[k] EXCEPT ![1] = e]]]
  BY <1>3 DEF Add, Added, WithAttrs, At
<1>6. Add(c, k, attrs) = Changed(c, k, <<e>> \o Rest(c.tab[k]), c.needs)
  BY <1>3, <1>4, <1>5 DEF Changed
<1> HIDE DEF e
<1>7. IsPut(Put(c, k, e), c, k, e, S, D)
  BY <1>2, PutIs
<1>8. Add(c, k, attrs) = Put(c, k, e)
  BY <1>6, <1>7 DEF IsPut
<1> QED BY <1>2, <1>7, <1>8 DEF e

Dropped(c, k, attrs) == WithAttrs(At(c, k), At(c, k).attrs \ attrs)

LEMMA DropIs ==
  ASSUME NEW D \in Nat, NEW S \in Seq(Scopes(D)), NEW c, CellsOK(c, S, D), NEW k \in 0..Len(S),
         c.tab[k] # <<>>, NEW attrs
  PROVE  IsPut(Drop(c, k, attrs), c, k, Dropped(c, k, attrs), S, D) /\ Fits(Dropped(c, k, attrs), k, S, D)
<1>1. Fits(At(c, k), k, S, D)
  BY AtFits
<1>a. At(c, k).attrs \ attrs \in SUBSET Attributes
  BY <1>1 DEF Fits, Var
<1> DEFINE e == Dropped(c, k, attrs)
<1>2. Fits(e, k, S, D)
  BY <1>1, <1>a, AttrsFit DEF Dropped
<1>3. c.tab[k] \in Seq(Var(D)) /\ DOMAIN c.tab = 0..Len(S) /\ c = [tab |-> c.tab, needs |-> c.needs]
  BY DEF CellsOK, TabOK
<1>4. [c.tab[k] EXCEPT ![1] = e] = <<e>> \o Rest(c.tab[k])
  <2>1. e \in Var(D)
    BY <1>2 DEF Fits
  <2> HIDE DEF e
  <2> QED BY <1>3, <2>1, FirstChanged
<1>5. Drop(c, k, attrs) = [c EXCEPT !.tab = [@ EXCEPT ![k] = [c.tab[k] EXCEPT ![1] = e]]]
  BY <1>3 DEF Drop, Dropped, WithAttrs, At
<1>6. Drop(c, k, attrs) = Changed(c, k, <<e>> \o Rest(c.tab[k]), c.needs)
  BY <1>3, <1>4, <1>5 DEF Changed
<1> HIDE DEF e
<1>7. IsPut(Put(c, k, e), c, k, e, S, D)
  BY <1>2, PutIs
<1>8. Drop(c, k, attrs) = Put(c, k, e)
  BY <1>6, <1>7 DEF IsPut
<1> QED BY <1>2, <1>7, <1>8 DEF e

LEMMA FlagOK ==
  ASSUME NEW D, NEW S, NEW c, CellsOK(c, S, D), NEW flag \in BOOLEAN
  PROVE  /\ CellsOK([c EXCEPT !.needs = flag], S, D) /\ [c EXCEPT !.needs = flag].tab = c.tab
         /\ [c EXCEPT !.needs = flag].needs = flag
BY DEF CellsOK
-----------------------------------------------------------------------------
(* Binding. *)

LEMMA FitsIs ==
  ASSUME NEW D, NEW S, NEW k, NEW var
  PROVE  Fits(var, k, S, D) <=>
           /\ var = [value |-> var.value, str |-> var.str, attrs |-> var.attrs, context |-> var.context]
           /\ var.value \in Vals /\ var.str \in Vals /\ var.attrs \in SUBSET Attributes
           /\ var.context \in 0..D /\ (k # 0 => var.context = S[k].scope)
BY DEF Fits, Var

LEMMA PutIsTyped ==
  ASSUME NEW D \in Nat, NEW S \in Seq(Scopes(D)), NEW c, CellsOK(c, S, D), NEW k \in 0..Len(S),
         NEW var \in Var(D)
  PROVE  /\ Put(c, k, var) = Changed(c, k, <<var>> \o Rest(c.tab[k]), c.needs)
         /\ Rest(c.tab[k]) \in Seq(Var(D))
         /\ (<<var>> \o Rest(c.tab[k]))[1] = var
         /\ Rest(<<var>> \o Rest(c.tab[k])) = Rest(c.tab[k])
         /\ <<var>> \o Rest(c.tab[k]) # <<>>
<1>1. c = [tab |-> c.tab, needs |-> c.needs] /\ DOMAIN c.tab = 0..Len(S)
  BY DEF CellsOK, TabOK
<1>2. Cell(c.tab[k], k, S, D)
  BY CellOf
<1>3. Rest(c.tab[k]) \in Seq(Var(D))
  BY <1>2, RestIs DEF Cell
<1>4. <<var>> \o Rest(c.tab[k]) # <<>> /\ (<<var>> \o Rest(c.tab[k]))[1] = var
      /\ <<var>> \o Rest(c.tab[k]) \in Seq(Var(D))
  BY <1>3, OnTop
<1>5. <<var>> \o <<>> = <<var>>
  <2>1. <<var>> \in Seq(Var(D))
    OBVIOUS
  <2> QED BY <2>1, ConcatEmptySeq
<1>6. Put(c, k, var) = [c EXCEPT !.tab[k] = <<var>> \o Rest(c.tab[k])]
  BY <1>5 DEF Put, Rest
<1>7. Put(c, k, var) = Changed(c, k, <<var>> \o Rest(c.tab[k]), c.needs)
  BY <1>1, <1>6 DEF Changed
<1> DEFINE r == Rest(c.tab[k])
           q == <<var>> \o r
<1>8. /\ r \in Seq(Var(D)) /\ q \in Seq(Var(D)) /\ q # <<>> /\ Len(q) = Len(r) + 1
      /\ \A i \in 2..Len(r) + 1 : q[i] = r[i - 1]
  BY <1>3, OnTop
<1> HIDE DEF r, q
<1>9. Rest(q) = r
  <2>1. Rest(q) \in Seq(Var(D)) /\ Len(Rest(q)) = Len(q) - 1 /\ \A i \in 1..Len(Rest(q)) : Rest(q)[i] = q[i + 1]
    BY <1>8, RestIs
  <2>2. Len(r) \in Nat
    BY <1>8, LenProperties
  <2>3. Len(Rest(q)) = Len(r)
    BY <1>8, <2>1, <2>2
  <2>4. \A i \in 1..Len(r) : i + 1 \in 2..Len(r) + 1 /\ (i + 1) - 1 = i
    BY <2>2
  <2>5. \A i \in 1..Len(Rest(q)) : Rest(q)[i] = r[i]
    BY <1>8, <2>1, <2>3, <2>4
  <2> QED BY <1>8, <2>1, <2>3, <2>5, SeqEqual
<1> QED BY <1>3, <1>4, <1>7, <1>9 DEF r, q

(* A second Put is all that is left of two. *)
LEMMA PutTwice ==
  ASSUME NEW D \in Nat, NEW S \in Seq(Scopes(D)), NEW c, CellsOK(c, S, D), NEW k \in 0..Len(S),
         NEW one \in Var(D), NEW var, Fits(var, k, S, D), NEW flag \in BOOLEAN
  PROVE  /\ Put([Put(c, k, one) EXCEPT !.needs = flag], k, var) = [Put(c, k, var) EXCEPT !.needs = flag]
         /\ At([Put(c, k, one) EXCEPT !.needs = flag], k) = one
<1> DEFINE q == <<one>> \o Rest(c.tab[k])
           d == [Put(c, k, one) EXCEPT !.needs = flag]
           t == <<var>> \o Rest(c.tab[k])
<1>1. Put(c, k, one) = Changed(c, k, q, c.needs) /\ q[1] = one /\ Rest(q) = Rest(c.tab[k]) /\ q # <<>>
  BY PutIsTyped
<1>2. c = [tab |-> c.tab, needs |-> c.needs] /\ DOMAIN c.tab = 0..Len(S)
  BY DEF CellsOK, TabOK
<1>3. Put(c, k, var) = Changed(c, k, t, c.needs)
  <2>1. IsPut(Put(c, k, var), c, k, var, S, D)
    BY PutIs
  <2> QED BY <2>1 DEF IsPut
<1>v. var \in Var(D)
  BY DEF Fits
<1>4. <<var>> \o <<>> = <<var>>
  <2>1. <<var>> \in Seq(Var(D))
    BY <1>v
  <2> QED BY <2>1, ConcatEmptySeq
<1> HIDE DEF q
<1>5. d = Changed(c, k, q, flag) /\ d.tab[k] = q
  BY <1>1, <1>2 DEF Changed
<1>6. Put(d, k, var) = [d EXCEPT !.tab[k] = <<var>> \o Tail(q)]
  BY <1>1, <1>5 DEF Put
<1>7. Tail(q) = Rest(c.tab[k])
  BY <1>1 DEF Rest
<1> HIDE DEF d, t
<1>8. Put(d, k, var) = [d EXCEPT !.tab[k] = t]
  BY <1>6, <1>7 DEF t
<1>9. [d EXCEPT !.tab[k] = t] = Changed(c, k, t, flag)
  <2> DEFINE u == [c.tab EXCEPT ![k] = q]
  <2>1. d = [tab |-> u, needs |-> flag]
    BY <1>5 DEF Changed
  <2>2. [u EXCEPT ![k] = t] = [c.tab EXCEPT ![k] = t]
    OBVIOUS
  <2> HIDE DEF u
  <2>3. [d EXCEPT !.tab[k] = t] = [tab |-> [u EXCEPT ![k] = t], needs |-> flag]
    BY <2>1
  <2> QED BY <2>2, <2>3 DEF Changed
<1>10. [Changed(c, k, t, c.needs) EXCEPT !.needs = flag] = Changed(c, k, t, flag)
  BY DEF Changed
<1>11. At(d, k) = one
  BY <1>1, <1>5 DEF At
<1> QED BY <1>3, <1>8, <1>9, <1>10, <1>11 DEF d

(* The variable that bind_variable_internal leaves *)
BoundVar(c, k, value) ==
  IF c.tab[k] = <<>> THEN Variable(value)
  ELSE [At(c, k) EXCEPT !.value = value, !.attrs = @ \ {"invisible"}, !.str = None]

BoundVarOK(v, c, k, value, S, D) ==
  /\ v \in Var(D) /\ v.value = value /\ v.str = None
  /\ c.tab[k] = <<>> => v.context = 0 /\ v.attrs = {}
  /\ c.tab[k] # <<>> => v.context = S[k].scope /\ v.attrs = At(c, k).attrs \ {"invisible"}

LEMMA BoundVarTyped ==
  ASSUME NEW D \in Nat, NEW S \in Seq(Scopes(D)), NEW c, CellsOK(c, S, D), NEW k \in 1..Len(S),
         NEW value \in Vals
  PROVE  BoundVarOK(BoundVar(c, k, value), c, k, value, S, D)
<1>1. CASE c.tab[k] = <<>>
  <2>1. BoundVar(c, k, value) = Variable(value)
    BY <1>1 DEF BoundVar
  <2> QED BY <1>1, <2>1 DEF Variable, Var, Vals, BoundVarOK
<1>2. CASE c.tab[k] # <<>>
  <2>1. Fits(At(c, k), k, S, D)
    BY <1>2, AtFits
  <2>2. BoundVar(c, k, value) = [At(c, k) EXCEPT !.value = value, !.attrs = @ \ {"invisible"}, !.str = None]
    BY <1>2 DEF BoundVar
  <2>3. None \in Vals /\ k # 0
    BY DEF Vals
  <2> DEFINE a == At(c, k)
  <2> HIDE DEF a
  <2>4. a \in Var(D) /\ a.context = S[k].scope
    BY <2>1, <2>3 DEF a, Fits
  <2> DEFINE b == [a EXCEPT !.value = value, !.attrs = @ \ {"invisible"}, !.str = None]
  <2>5. b \in Var(D) /\ b.value = value /\ b.str = None /\ b.context = S[k].scope
        /\ b.attrs = a.attrs \ {"invisible"}
    BY <2>3, <2>4 DEF Var
  <2>6. BoundVar(c, k, value) = b
    BY <2>2 DEF a
  <2> HIDE DEF b
  <2> QED BY <1>2, <2>5, <2>6 DEF a, BoundVarOK
<1> QED BY <1>1, <1>2

LEMMA BindInternalIs ==
  ASSUME NEW c, NEW k, NEW value
  PROVE  BindVariableInternal(c, k, value) =
           [Put(c, k, BoundVar(c, k, value)) EXCEPT
              !.needs = Put(c, k, BoundVar(c, k, value)).needs \/ "exported" \in BoundVar(c, k, value).attrs]
BY DEF BindVariableInternal, BoundVar

LEMMA BindInternalOK ==
  ASSUME NEW D \in Nat, NEW S \in Seq(Scopes(D)), NEW c, CellsOK(c, S, D), NEW k \in 1..Len(S),
         NEW value \in Vals, c.tab[k] = <<>> => S[k].scope = 0
  PROVE  /\ CellsOK(BindVariableInternal(c, k, value), S, D)
         /\ BindVariableInternal(c, k, value).tab[k] # <<>>
<1>1. Fits(BoundVar(c, k, value), k, S, D)
  <2>1. BoundVarOK(BoundVar(c, k, value), c, k, value, S, D)
    BY BoundVarTyped
  <2> QED BY <2>1 DEF Fits, BoundVarOK
<1> DEFINE v == BoundVar(c, k, value)
           p == Put(c, k, v)
<1>2. CellsOK(p, S, D) /\ p.tab[k] # <<>> /\ p.needs \in BOOLEAN
  <2> HIDE DEF v
  <2>1. Fits(v, k, S, D) /\ k \in 0..Len(S) /\ c.needs \in BOOLEAN
    BY <1>1 DEF v, CellsOK
  <2>2. IsPut(p, c, k, v, S, D)
    BY <2>1, PutIs
  <2> QED BY <2>1, <2>2 DEF IsPut
<1>3. BindVariableInternal(c, k, value) = [p EXCEPT !.needs = p.needs \/ "exported" \in v.attrs]
  BY BindInternalIs
<1> HIDE DEF p, v
<1> DEFINE flag == p.needs \/ "exported" \in v.attrs
<1>4. flag \in BOOLEAN
  BY <1>2
<1> HIDE DEF flag
<1>5. CellsOK([p EXCEPT !.needs = flag], S, D) /\ [p EXCEPT !.needs = flag].tab = p.tab
  BY <1>2, <1>4, FlagOK
<1> QED BY <1>2, <1>3, <1>5 DEF flag

LEMMA BindTempenvOK ==
  ASSUME NEW D \in Nat, NEW S \in Seq(Scopes(D)), NEW c, CellsOK(c, S, D), NEW value \in Vals
  PROVE  /\ CellsOK(BindTempenvVariable(c, value), S, D)
         /\ \A k \in 1..Len(S) : BindTempenvVariable(c, value).tab[k] = c.tab[k]
         /\ BindTempenvVariable(c, value).needs = c.needs
<1>1. CASE InTempenv(c) /\ value # None
  <2> DEFINE e == [At(c, 0) EXCEPT !.value = value, !.str = None]
  <2>1. 0 \in 0..Len(S) /\ \A k \in 1..Len(S) : k \in 0..Len(S) /\ k # 0
    BY LenProperties
  <2>2. Fits(At(c, 0), 0, S, D)
    BY <1>1, <2>1, AtFits DEF InTempenv
  <2>3. Fits(e, 0, S, D)
    BY <2>2 DEF Fits, Var, Vals
  <2>4. BindTempenvVariable(c, value) = Put(c, 0, e)
    BY <1>1 DEF BindTempenvVariable
  <2> HIDE DEF e
  <2>5. CellsOK(Put(c, 0, e), S, D) /\ Put(c, 0, e).needs = c.needs
        /\ \A j \in 0..Len(S) : j # 0 => Put(c, 0, e).tab[j] = c.tab[j]
    <3>1. IsPut(Put(c, 0, e), c, 0, e, S, D)
      BY <2>1, <2>3, PutIs
    <3> QED BY <3>1 DEF IsPut
  <2> QED BY <2>1, <2>4, <2>5
<1>2. CASE ~(InTempenv(c) /\ value # None)
  BY <1>2 DEF BindTempenvVariable
<1> QED BY <1>1, <1>2

LEMMA BindVariableOK ==
  ASSUME NEW D \in Nat, NEW S \in Seq(Scopes(D)), Len(S) >= 1, S[1].scope = 0,
         NEW c, CellsOK(c, S, D), NEW value \in Vals
  PROVE  /\ CellsOK(BindVariable(c, value), S, D)
         /\ Bound(c) \in 1..Len(S) /\ BindVariable(c, value).tab[Bound(c)] # <<>>
<1> DEFINE d == BindTempenvVariable(c, value)
           k == Bound(c)
<1>1. CellsOK(d, S, D) /\ \A j \in 1..Len(S) : d.tab[j] = c.tab[j]
  BY BindTempenvOK
<1>2. k \in 1..Len(S)
  BY BoundIn
<1>3. c.tab[k] = <<>> => k = 1
  BY Lookup DEF Bound
<1>4. BindVariable(c, value) = BindVariableInternal(d, k, value)
  BY DEF BindVariable
<1> HIDE DEF d, k
<1>5. d.tab[k] = <<>> => S[k].scope = 0
  BY <1>1, <1>2, <1>3
<1>6. CellsOK(BindVariableInternal(d, k, value), S, D) /\ BindVariableInternal(d, k, value).tab[k] # <<>>
  BY <1>1, <1>2, <1>5, BindInternalOK
<1> QED BY <1>2, <1>4, <1>6 DEF k
-----------------------------------------------------------------------------
(* Levels of functions. *)

Funcs(S) == {k \in DOMAIN S : S[k].kind = "func"}

LEMMA FuncsFinite ==
  ASSUME NEW V, NEW S \in Seq(V)
  PROVE  /\ IsFiniteSet(Funcs(S)) /\ Level(S) = Cardinality(Funcs(S)) /\ Level(S) \in Nat
         /\ Level(S) <= Len(S) /\ (Len(S) >= 1 /\ S[1].kind # "func" => Level(S) <= Len(S) - 1)
<1>1. IsFiniteSet(1..Len(S)) /\ Cardinality(1..Len(S)) = Len(S) /\ Len(S) \in Nat
  <2>1. Len(S) \in Nat
    BY LenProperties
  <2> QED BY <2>1, FS_Interval
<1>2. Funcs(S) \subseteq 1..Len(S)
  BY DEF Funcs
<1>3. IsFiniteSet(Funcs(S)) /\ Cardinality(Funcs(S)) <= Len(S) /\ Cardinality(Funcs(S)) \in Nat
  BY <1>1, <1>2, FS_Subset, FS_CardinalityType
<1>4. ASSUME Len(S) >= 1, S[1].kind # "func" PROVE Cardinality(Funcs(S)) <= Len(S) - 1
  <2>1. Funcs(S) \subseteq 2..Len(S)
    BY <1>1, <1>2, <1>4 DEF Funcs
  <2>2. IsFiniteSet(2..Len(S)) /\ Cardinality(2..Len(S)) = Len(S) - 1
    BY <1>1, <1>4, FS_Interval
  <2> QED BY <2>1, <2>2, FS_Subset
<1> QED BY <1>3, <1>4 DEF Level, Funcs

LEMMA LevelAppend ==
  ASSUME NEW V, NEW S \in Seq(V), NEW e \in V
  PROVE  Level(Append(S, e)) = IF e.kind = "func" THEN Level(S) + 1 ELSE Level(S)
<1> DEFINE T == Append(S, e)
<1>1. /\ T \in Seq(V) /\ Len(T) = Len(S) + 1 /\ T[Len(S) + 1] = e /\ Len(S) \in Nat
      /\ \A i \in 1..Len(S) : T[i] = S[i]
  BY AppendProperties, LenProperties
<1> HIDE DEF T
<1>2. DOMAIN T = 1..Len(S) + 1 /\ DOMAIN S = 1..Len(S)
  BY <1>1
<1>3. IsFiniteSet(Funcs(S)) /\ Level(S) = Cardinality(Funcs(S)) /\ Level(T) = Cardinality(Funcs(T))
  BY <1>1, FuncsFinite
<1>4. CASE e.kind = "func"
  <2>1. Funcs(T) = Funcs(S) \cup {Len(S) + 1} /\ Len(S) + 1 \notin Funcs(S)
    BY <1>1, <1>2, <1>4 DEF Funcs
  <2>2. Cardinality(Funcs(T)) = Cardinality(Funcs(S)) + 1
    BY <1>3, <2>1, FS_AddElement
  <2> QED BY <1>3, <1>4, <2>2 DEF T
<1>5. CASE e.kind # "func"
  <2>1. Funcs(T) = Funcs(S)
    BY <1>1, <1>2, <1>5 DEF Funcs
  <2> QED BY <1>3, <1>5, <2>1 DEF T
<1> QED BY <1>4, <1>5

LEMMA ChainAppend ==
  ASSUME NEW D \in Nat, NEW S, ChainOK(S, D), Len(S) < D, NEW e \in Scopes(D),
         e.scope = IF e.kind = "func" THEN Level(S) + 1 ELSE Level(S)
  PROVE  ChainOK(Append(S, e), D)
<1> DEFINE T == Append(S, e)
<1>1. S \in Seq(Scopes(D)) /\ Len(S) \in 1..D /\ S[1].kind = "global" /\ Levels(S)
  BY DEF ChainOK
<1>2. /\ T \in Seq(Scopes(D)) /\ Len(T) = Len(S) + 1 /\ T[Len(S) + 1] = e /\ Len(S) \in Nat
      /\ \A i \in 1..Len(S) : T[i] = S[i]
  BY <1>1, AppendProperties, LenProperties
<1>3. \A k \in 1..Len(S) : SubSeq(T, 1, k) = SubSeq(S, 1, k)
  <2> SUFFICES ASSUME NEW k \in 1..Len(S) PROVE SubSeq(T, 1, k) = SubSeq(S, 1, k)
    OBVIOUS
  <2> HIDE DEF T
  <2>0. k \in Nat /\ k <= Len(S) /\ k <= Len(T) /\ 1..k \subseteq 1..Len(S) /\ 1..k \subseteq 1..Len(T)
    BY <1>1, <1>2
  <2>1. SubSeq(T, 1, k) = [i \in 1..k |-> T[i]] /\ SubSeq(S, 1, k) = [i \in 1..k |-> S[i]]
    BY <1>1, <1>2, <2>0
  <2> QED BY <1>2, <2>0, <2>1
<1>4. SubSeq(T, 1, Len(T)) = T
  BY <1>2, SubSeqFull
<1>5. Level(T) = e.scope
  BY <1>1, LevelAppend
<1> HIDE DEF T
<1>6. \A k \in 1..Len(T) : k \in 1..Len(S) \/ k = Len(S) + 1
  BY <1>2
<1>7. Levels(T)
  BY <1>1, <1>2, <1>3, <1>4, <1>5, <1>6 DEF Levels
<1>8. Len(T) \in 1..D /\ T[1] = S[1]
  BY <1>1, <1>2
<1>9. ChainOK(T, D)
  BY <1>1, <1>2, <1>7, <1>8 DEF ChainOK
<1> QED BY <1>9 DEF T

LEMMA ChainFront ==
  ASSUME NEW D \in Nat, NEW S, ChainOK(S, D), S[Len(S)].kind # "global"
  PROVE  /\ ChainOK(Front(S), D) /\ Len(Front(S)) = Len(S) - 1 /\ Len(S) >= 2
         /\ \A k \in 1..Len(S) - 1 : Front(S)[k] = S[k]
<1>1. S \in Seq(Scopes(D)) /\ Len(S) \in 1..D /\ S[1].kind = "global" /\ Levels(S) /\ Len(S) \in Nat
  BY LenProperties DEF ChainOK
<1>2. Len(S) >= 2 /\ Len(S) - 1 \in 1..Len(S)
  BY <1>1
<1> DEFINE T == Front(S)
<1>3. /\ T = SubSeq(S, 1, Len(S) - 1) /\ T \in Seq(Scopes(D)) /\ Len(T) = Len(S) - 1
      /\ \A k \in 1..Len(S) - 1 : T[k] = S[k]
  BY <1>1, <1>2 DEF Front
<1>4. \A k \in 1..Len(S) - 1 : SubSeq(T, 1, k) = SubSeq(S, 1, k)
  <2> SUFFICES ASSUME NEW k \in 1..Len(S) - 1 PROVE SubSeq(T, 1, k) = SubSeq(S, 1, k)
    OBVIOUS
  <2> HIDE DEF T
  <2>0. k \in Nat /\ k <= Len(S) /\ k <= Len(T) /\ 1..k \subseteq 1..Len(S) /\ 1..k \subseteq 1..Len(T)
        /\ 1..k \subseteq 1..Len(S) - 1
    BY <1>1, <1>3
  <2>1. SubSeq(T, 1, k) = [i \in 1..k |-> T[i]] /\ SubSeq(S, 1, k) = [i \in 1..k |-> S[i]]
    BY <1>1, <1>3, <2>0
  <2> QED BY <1>3, <2>0, <2>1
<1> HIDE DEF T
<1>5. Levels(T)
  <2> SUFFICES ASSUME NEW k \in 1..Len(T) PROVE T[k].scope = Level(SubSeq(T, 1, k))
    BY DEF Levels
  <2>1. k \in 1..Len(S) - 1 /\ k \in 1..Len(S)
    BY <1>2, <1>3
  <2>2. S[k].scope = Level(SubSeq(S, 1, k))
    BY <1>1, <2>1 DEF Levels
  <2> QED BY <1>3, <1>4, <2>1, <2>2
<1>6. Len(T) \in 1..D /\ T[1] = S[1]
  BY <1>1, <1>2, <1>3
<1>7. ChainOK(T, D)
  BY <1>1, <1>3, <1>5, <1>6 DEF ChainOK
<1> QED BY <1>2, <1>3, <1>7 DEF T

(* The context of the current function has its level. *)
LEMMA FuncContextIn ==
  ASSUME NEW D \in Nat, ChainOK(scopes, D)
  PROVE  /\ Context \in 0..D - 1 /\ scopes[Len(scopes)].scope = Context /\ scopes[1].scope = 0
         /\ Context > 0 => FuncContext \in 2..Len(scopes) /\ scopes[FuncContext].kind = "func"
                           /\ scopes[FuncContext].scope = Context
<1> DEFINE S == scopes
<1>1. S \in Seq(Scopes(D)) /\ Len(S) \in 1..D /\ S[1].kind = "global" /\ Levels(S) /\ Len(S) \in Nat
  BY LenProperties DEF ChainOK
<1>2. IsFiniteSet(Funcs(S)) /\ Level(S) = Cardinality(Funcs(S)) /\ Level(S) \in Nat /\ Level(S) <= Len(S) - 1
  BY <1>1, FuncsFinite
<1>3. SubSeq(S, 1, Len(S)) = S
  BY <1>1, SubSeqFull
<1>4. scopes[Len(scopes)].scope = Context
  <2>1. Len(S) \in 1..Len(S)
    BY <1>1
  <2>2. S[Len(S)].scope = Level(SubSeq(S, 1, Len(S)))
    BY <1>1, <2>1 DEF Levels
  <2> QED BY <1>3, <2>2 DEF Context
<1>5. scopes[1].scope = 0
  <2> DEFINE T == SubSeq(S, 1, 1)
  <2>1. 1 \in 1..Len(S)
    BY <1>1
  <2>2. S[1].scope = Level(T)
    BY <1>1, <2>1 DEF Levels
  <2>3. T \in Seq(Scopes(D)) /\ Len(T) = 1 /\ T[1] = S[1]
    BY <1>1, <2>1
  <2> HIDE DEF T
  <2>4. Level(T) <= 0 /\ Level(T) \in Nat
    <3>1. T[1].kind # "func" /\ Len(T) >= 1
      BY <1>1, <2>3
    <3>2. Level(T) \in Nat /\ Level(T) <= Len(T) - 1
      BY <2>3, <3>1, FuncsFinite
    <3> QED BY <2>3, <3>2
  <2>5. Level(T) = 0
    BY <2>4
  <2> QED BY <2>2, <2>5
<1>6. ASSUME Context > 0
      PROVE  FuncContext \in 2..Len(scopes) /\ scopes[FuncContext].kind = "func"
             /\ scopes[FuncContext].scope = Context
  <2> DEFINE f == FuncContext
  <2>1. Funcs(S) # {}
    BY <1>2, <1>6, FS_EmptySet DEF Context
  <2>2. Funcs(S) \in SUBSET Nat /\ Funcs(S) \subseteq 2..Len(S) /\ \A k \in Funcs(S) : k <= Len(S)
    BY <1>1 DEF Funcs
  <2>3. f = Highest(Funcs(S))
    BY DEF FuncContext, Funcs
  <2> HIDE DEF f
  <2>4. f \in Funcs(S) /\ \A j \in Funcs(S) : j <= f
    BY <1>1, <2>1, <2>2, <2>3, HighestIn
  <2>5. f \in 2..Len(S) /\ S[f].kind = "func"
    BY <2>2, <2>4 DEF Funcs
  <2> DEFINE T == SubSeq(S, 1, f)
  <2>6. T \in Seq(Scopes(D)) /\ Len(T) = f /\ (\A k \in 1..f : T[k] = S[k])
    BY <1>1, <2>5
  <2>7. S[f].scope = Level(T)
    BY <1>1, <2>5 DEF Levels
  <2> HIDE DEF T
  <2>8. DOMAIN T = 1..f /\ DOMAIN S = 1..Len(S)
    BY <1>1, <2>6
  <2>9. Funcs(T) = Funcs(S)
    BY <1>1, <2>2, <2>4, <2>5, <2>6, <2>8 DEF Funcs
  <2>10. Level(T) = Level(S)
    BY <1>2, <2>6, <2>9, FuncsFinite
  <2> QED BY <2>5, <2>7, <2>10 DEF Context, f
<1> QED BY <1>1, <1>2, <1>4, <1>5, <1>6 DEF Context
-----------------------------------------------------------------------------
(* What the commands do to a cell. *)

LEMMA DisposeOK ==
  ASSUME NEW D, NEW S, NEW c, CellsOK(c, S, D), NEW var
  PROVE  /\ CellsOK(Dispose(c, var), S, D) /\ Dispose(c, var).tab = c.tab
         /\ Dispose(c, var).needs = (c.needs \/ "exported" \in var.attrs)
<1> DEFINE flag == c.needs \/ "exported" \in var.attrs
<1>1. flag \in BOOLEAN
  BY DEF CellsOK
<1>2. Dispose(c, var) = [c EXCEPT !.needs = flag]
  BY DEF Dispose
<1> HIDE DEF flag
<1>3. CellsOK(Dispose(c, var), S, D) /\ Dispose(c, var).tab = c.tab /\ Dispose(c, var).needs = flag
  BY <1>1, <1>2, FlagOK
<1> QED BY <1>3 DEF flag

AssignedVar(c, value) ==
  [value |-> value, str |-> value, context |-> Context,
   attrs |-> {"exported", "tempvar"} \cup (IF InTempenv(c) THEN At(c, 0).attrs ELSE {})]

LEMMA AssignInEnvOK ==
  ASSUME NEW D \in Nat, NEW S \in Seq(Scopes(D)), NEW c, CellsOK(c, S, D), NEW value \in Vals,
         Context \in 0..D
  PROVE  /\ CellsOK(AssignInEnv(c, value), S, D) /\ AssignInEnv(c, value).needs
         /\ Fits(AssignedVar(c, value), 0, S, D)
         /\ AssignInEnv(c, value) = [Put(c, 0, AssignedVar(c, value)) EXCEPT !.needs = TRUE]
<1> DEFINE e == AssignedVar(c, value)
<1>1. 0 \in 0..Len(S)
  BY LenProperties
<1>2. InTempenv(c) => At(c, 0).attrs \in SUBSET Attributes
  <2>1. InTempenv(c) => Fits(At(c, 0), 0, S, D)
    BY <1>1, AtFits DEF InTempenv
  <2> QED BY <2>1, FitsIs
<1>3. {"exported", "tempvar"} \cup (IF InTempenv(c) THEN At(c, 0).attrs ELSE {}) \in SUBSET Attributes
  BY <1>2 DEF Attributes
<1>4. Fits(e, 0, S, D)
  BY <1>3 DEF Fits, Var, AssignedVar
<1>5. AssignInEnv(c, value) = [Put(c, 0, e) EXCEPT !.needs = TRUE]
  BY DEF AssignInEnv, AssignedVar
<1> HIDE DEF e
<1>6. CellsOK(Put(c, 0, e), S, D)
  <2>1. IsPut(Put(c, 0, e), c, 0, e, S, D)
    BY <1>1, <1>4, PutIs
  <2> QED BY <2>1 DEF IsPut
<1>7. /\ CellsOK([Put(c, 0, e) EXCEPT !.needs = TRUE], S, D)
      /\ [Put(c, 0, e) EXCEPT !.needs = TRUE].needs = TRUE
  BY <1>6, FlagOK
<1>8. CellsOK(AssignInEnv(c, value), S, D) /\ AssignInEnv(c, value).needs = TRUE
  BY <1>5, <1>7
<1> QED BY <1>4, <1>5, <1>8 DEF e

LEMMA DisposeChanged ==
  ASSUME NEW c, c = [tab |-> c.tab, needs |-> c.needs], NEW k, NEW q, NEW var
  PROVE  Dispose([c EXCEPT !.tab[k] = q], var) = Changed(c, k, q, c.needs \/ "exported" \in var.attrs)
<1> DEFINE u == [c EXCEPT !.tab[k] = q]
           t == [c.tab EXCEPT ![k] = q]
<1>1. u = [tab |-> t, needs |-> c.needs]
  OBVIOUS
<1> HIDE DEF u, t
<1>2. u.needs = c.needs /\ u.tab = t
  BY <1>1
<1>3. [u EXCEPT !.needs = c.needs \/ "exported" \in var.attrs] =
        [tab |-> t, needs |-> c.needs \/ "exported" \in var.attrs]
  BY <1>1
<1>4. Dispose(u, var) = [u EXCEPT !.needs = c.needs \/ "exported" \in var.attrs]
  BY <1>2 DEF Dispose
<1> QED BY <1>3, <1>4 DEF Changed, u, t

Blank(var) ==
  [value |-> None, str |-> None, context |-> var.context,
   attrs |-> {"local", "invisible"} \cup (IF {"exported", "tempvar"} \subseteq var.attrs
                                          THEN {"exported"} ELSE {})]

LEMMA BlankFits ==
  ASSUME NEW D, NEW S, NEW k, NEW var, Fits(var, k, S, D)
  PROVE  Fits(Blank(var), k, S, D)
<1>1. {"local", "invisible"} \cup (IF {"exported", "tempvar"} \subseteq var.attrs THEN {"exported"} ELSE {})
        \in SUBSET Attributes
  BY DEF Attributes
<1> QED BY <1>1, FitsIs DEF Fits, Var, Blank, Vals

(* makunbound: the variable goes, or stays as a blank one without the      *)
(* next of its name.                                                       *)
UnboundTo(d, c, k, var) ==
  \/ k = 0 /\ d = c
  \/ k # 0 /\ \E q : /\ q \in {Rest(c.tab[k]), <<Blank(var)>> \o SubSeq(c.tab[k], 3, Len(c.tab[k]))}
                     /\ "local" \notin var.attrs => q = Rest(c.tab[k])
                     /\ d = Changed(c, k, q, c.needs \/ "exported" \in var.attrs)

LEMMA MakunboundIs ==
  ASSUME NEW D \in Nat, NEW S \in Seq(Scopes(D)), NEW c, CellsOK(c, S, D)
  PROVE  UnboundTo(Makunbound(c), c, VarLookup(c), At(c, VarLookup(c)))
<1> DEFINE k == VarLookup(c)
           var == At(c, k)
           blank == Blank(var)
           stays == /\ "local" \in var.attrs
                    /\ var.context = Context \/ (mode.unset /\ var.context < Context)
           flag == c.needs \/ "exported" \in var.attrs
           two == <<blank>> \o SubSeq(c.tab[k], 3, Len(c.tab[k]))
<1>1. c = [tab |-> c.tab, needs |-> c.needs]
  BY DEF CellsOK
<1>2. Makunbound(c) = IF k = 0 THEN c
                      ELSE IF stays THEN Dispose([c EXCEPT !.tab[k] = two], var)
                      ELSE Dispose([c EXCEPT !.tab[k] = Tail(@)], var)
  BY DEF Makunbound, Blank
<1>3. k # 0 => c.tab[k] # <<>>
  BY Lookup
<1>4. k # 0 => Tail(c.tab[k]) = Rest(c.tab[k])
  BY <1>3 DEF Rest
<1> HIDE DEF two, stays
<1>5. Dispose([c EXCEPT !.tab[k] = two], var) = Changed(c, k, two, flag)
  BY <1>1, DisposeChanged
<1>6. k # 0 => Dispose([c EXCEPT !.tab[k] = Tail(@)], var) = Changed(c, k, Rest(c.tab[k]), flag)
  <2>1. Dispose([c EXCEPT !.tab[k] = Rest(c.tab[k])], var) = Changed(c, k, Rest(c.tab[k]), flag)
    BY <1>1, DisposeChanged
  <2> QED BY <1>4, <2>1
<1> HIDE DEF k, var
<1>7. CASE k = 0
  BY <1>2, <1>7 DEF UnboundTo, k, var
<1>8. CASE k # 0 /\ stays
  <2>1. Makunbound(c) = Changed(c, k, two, flag) /\ "local" \in var.attrs
    BY <1>2, <1>5, <1>8 DEF stays
  <2> QED BY <1>8, <2>1 DEF UnboundTo, k, var, two
<1>9. CASE k # 0 /\ ~stays
  <2>1. Makunbound(c) = Changed(c, k, Rest(c.tab[k]), flag)
    BY <1>2, <1>6, <1>9
  <2> QED BY <1>9, <2>1 DEF UnboundTo, k, var
<1> QED BY <1>7, <1>8, <1>9

LEMMA ShortCell ==
  ASSUME NEW D \in Nat, NEW S \in Seq(Scopes(D)), NEW k \in 1..Len(S), NEW q, Cell(q, k, S, D)
  PROVE  Cell(SubSeq(q, 3, Len(q)), k, S, D)
<1>1. q \in Seq(Var(D)) /\ Len(q) \in Nat /\ \A i \in 1..Len(q) : Fits(q[i], k, S, D)
  BY LenProperties DEF Cell
<1> DEFINE r == SubSeq(q, 3, Len(q))
<1>2. CASE Len(q) >= 3
  <2>1. r \in Seq(Var(D)) /\ Len(r) = Len(q) - 2 /\ \A i \in 1..Len(q) - 2 : r[i] = q[3 + i - 1]
    BY <1>1, <1>2
  <2>2. \A i \in 1..Len(q) - 2 : 3 + i - 1 \in 1..Len(q)
    BY <1>1
  <2> HIDE DEF r
  <2>3. \A i \in 1..Len(r) : Fits(r[i], k, S, D)
    BY <1>1, <2>1, <2>2
  <2> QED BY <2>1, <2>3 DEF Cell, r
<1>3. CASE Len(q) < 3
  <2>1. r \in Seq(Var(D)) /\ Len(r) = 0
    BY <1>1, <1>3
  <2> HIDE DEF r
  <2> QED BY <2>1 DEF Cell, r
<1> QED BY <1>1, <1>2, <1>3

LEMMA MakunboundOK ==
  ASSUME NEW D \in Nat, NEW S \in Seq(Scopes(D)), NEW c, CellsOK(c, S, D)
  PROVE  CellsOK(Makunbound(c), S, D)
<1> DEFINE k == VarLookup(c)
           var == At(c, k)
           flag == c.needs \/ "exported" \in var.attrs
           two == <<Blank(var)>> \o SubSeq(c.tab[k], 3, Len(c.tab[k]))
<1>1. UnboundTo(Makunbound(c), c, k, var)
  BY MakunboundIs
<1>2. k \in 0..Len(S) /\ (k # 0 => c.tab[k] # <<>>) /\ Len(S) \in Nat
  BY Lookup, LenProperties
<1>3. flag \in BOOLEAN
  BY DEF CellsOK
<1>4. Cell(c.tab[k], k, S, D)
  BY <1>2, CellOf
<1>5. k # 0 => Fits(var, k, S, D)
  BY <1>2, AtFits
<1> HIDE DEF k, var
<1>6. ASSUME k # 0 PROVE Cell(Rest(c.tab[k]), k, S, D) /\ Cell(two, k, S, D)
  <2>1. k \in 1..Len(S) /\ Fits(Blank(var), k, S, D)
    BY <1>2, <1>5, <1>6, BlankFits
  <2>2. Cell(Rest(c.tab[k]), k, S, D)
    BY <1>2, <1>4, <2>1, OnTopFits
  <2>3. Cell(SubSeq(c.tab[k], 3, Len(c.tab[k])), k, S, D)
    BY <1>4, <2>1, ShortCell
  <2>4. Cell(two, k, S, D)
    BY <1>2, <1>6, <2>1, <2>3, OnTopFits
  <2> QED BY <2>2, <2>4
<1> HIDE DEF two, flag
<1>7. CASE k = 0
  BY <1>1, <1>7 DEF UnboundTo
<1>8. CASE k # 0
  <2>1. PICK q : /\ q \in {Rest(c.tab[k]), two}
                 /\ Makunbound(c) = Changed(c, k, q, flag)
    BY <1>1, <1>8 DEF UnboundTo, two, flag
  <2>2. Cell(q, k, S, D)
    BY <1>6, <1>8, <2>1
  <2> QED BY <1>2, <1>3, <2>1, <2>2, ChangedOK
<1> QED BY <1>7, <1>8
LEMMA AddNone ==
  ASSUME NEW D, NEW S, NEW c, CellsOK(c, S, D), NEW k \in 0..Len(S), c.tab[k] = <<>>, NEW attrs
  PROVE  Add(c, k, attrs) = c
<1>1. c = [tab |-> c.tab, needs |-> c.needs] /\ DOMAIN c.tab = 0..Len(S)
      /\ c.tab = [j \in 0..Len(S) |-> c.tab[j]]
  BY DEF CellsOK, TabOK
<1> DEFINE a == c.tab[k][1].attrs \cup attrs
           q == [c.tab[k] EXCEPT ![1] = [@ EXCEPT !.attrs = a]]
<1>2. q = c.tab[k]
  <2> DEFINE E == <<>>
             e == [c.tab[k][1] EXCEPT !.attrs = a]
  <2> HIDE DEF a, e
  <2>1. [E EXCEPT ![1] = e] = E
    OBVIOUS
  <2>2. q = [E EXCEPT ![1] = e]
    BY DEF e
  <2> QED BY <2>1, <2>2
<1>3. Add(c, k, attrs) = [c EXCEPT !.tab = [@ EXCEPT ![k] = q]]
  BY <1>1 DEF Add
<1> HIDE DEF q
<1>4. [c.tab EXCEPT ![k] = q] = c.tab
  BY <1>1, <1>2
<1> QED BY <1>1, <1>3, <1>4

LEMMA AddAny ==
  ASSUME NEW D \in Nat, NEW S \in Seq(Scopes(D)), NEW c, CellsOK(c, S, D), NEW k \in 0..Len(S),
         NEW attrs \in SUBSET Attributes
  PROVE  CellsOK(Add(c, k, attrs), S, D)
<1>1. CASE c.tab[k] # <<>>
  BY <1>1, AddIs DEF IsPut
<1>2. CASE c.tab[k] = <<>>
  BY <1>2, AddNone
<1> QED BY <1>1, <1>2

LEMMA FindVariableIn ==
  ASSUME NEW D \in Nat, NEW S \in Seq(Scopes(D)), NEW c, CellsOK(c, S, D)
  PROVE  /\ FindVariable(c) \in 0..Len(S)
         /\ Found(c) => c.tab[FindVariable(c)] # <<>>
BY Lookup, LenProperties DEF FindVariable, Found, InTempenv

LEMMA NewLocalFits ==
  ASSUME NEW D \in Nat, NEW S \in Seq(Scopes(D)), NEW c, CellsOK(c, S, D), NEW k \in 1..Len(S),
         S[k].scope = Context, Context \in 0..D
  PROVE  Fits(NewLocal(c), k, S, D)
<1> DEFINE old == At(c, FindVariable(c))
           wasTemp == Found(c) /\ "tempvar" \in old.attrs
           value == IF wasTemp \/ (Found(c) /\ mode.inherit) THEN old.value ELSE None
           inherited == IF ~Found(c) THEN {} ELSE IF mode.inherit THEN old.attrs ELSE old.attrs \cap {"exported"}
           attrs == inherited \cup {"local"} \cup (IF ~wasTemp /\ value = None THEN {"invisible"} ELSE {})
<1>1. NewLocal(c) = [value |-> value, str |-> None, context |-> Context, attrs |-> attrs]
  BY DEF NewLocal
<1>2. ASSUME Found(c) PROVE old.value \in Vals /\ old.attrs \in SUBSET Attributes
  <2>1. Fits(old, FindVariable(c), S, D)
    BY <1>2, FindVariableIn, AtFits
  <2> QED BY <2>1, FitsIs
<1> HIDE DEF old
<1>3. value \in Vals
  BY <1>2 DEF Vals
<1>4. inherited \in SUBSET Attributes
  BY <1>2
<1> HIDE DEF value, inherited
<1>5. attrs \in SUBSET Attributes
  BY <1>4 DEF Attributes
<1>6. None \in Vals
  BY DEF Vals
<1> HIDE DEF attrs
<1>7. NewLocal(c) \in Var(D) /\ NewLocal(c).context = S[k].scope
  BY <1>1, <1>3, <1>5, <1>6 DEF Var
<1> QED BY <1>7 DEF Fits

LEMMA MakeLocalOK ==
  ASSUME NEW D \in Nat, ChainOK(scopes, D), Context > 0, NEW c, CellsOK(c, scopes, D)
  PROVE  /\ CellsOK(MakeLocalVariable(c), scopes, D) /\ LocalPlace(c) \in 1..Len(scopes)
         /\ MakeLocalVariable(c).tab[LocalPlace(c)] # <<>>
         /\ MakeLocalVariable(c).needs = c.needs
<1> DEFINE S == scopes
           k == VarLookup(c)
<1>1. S \in Seq(Scopes(D)) /\ Len(S) \in Nat /\ Len(S) >= 1
  BY LenProperties DEF ChainOK
<1>2. k \in 0..Len(S) /\ (k # 0 => c.tab[k] # <<>>)
  BY <1>1, Lookup
<1>3. ~InTempenv(c) /\ Found(c) => k # 0
  BY DEF Found
<1>4. CASE IsLocalHere(c)
  <2>1. k \in 1..Len(S) /\ c.tab[k] # <<>>
    BY <1>1, <1>2, <1>3, <1>4 DEF IsLocalHere
  <2> QED BY <1>4, <2>1 DEF MakeLocalVariable, LocalPlace
<1>5. CASE ~IsLocalHere(c) /\ IsTempHere(c)
  <2>1. k \in 1..Len(S) /\ c.tab[k] # <<>> /\ k \in 0..Len(S)
    BY <1>1, <1>2, <1>3, <1>5 DEF IsTempHere
  <2> DEFINE off == {"invisible"}
             on == {"local"}
             d == Drop(c, k, off)
  <2>2. MakeLocalVariable(c) = Add(d, k, on) /\ LocalPlace(c) = k /\ on \in SUBSET Attributes
    BY <1>5 DEF MakeLocalVariable, LocalPlace, Attributes
  <2> HIDE DEF d, k, on, off
  <2>3. CellsOK(d, S, D) /\ d.tab[k] # <<>> /\ d.needs = c.needs
    <3>1. IsPut(Drop(c, k, off), c, k, Dropped(c, k, off), S, D)
      BY <1>1, <2>1, DropIs
    <3> QED BY <3>1 DEF d, IsPut
  <2>4. CellsOK(Add(d, k, on), S, D) /\ Add(d, k, on).tab[k] # <<>> /\ Add(d, k, on).needs = d.needs
    <3>1. IsPut(Add(d, k, on), d, k, Added(d, k, on), S, D)
      BY <1>1, <2>1, <2>2, <2>3, AddIs
    <3> QED BY <3>1 DEF IsPut
  <2> QED BY <2>1, <2>2, <2>3, <2>4
<1>6. CASE ~IsLocalHere(c) /\ ~IsTempHere(c)
  <2> DEFINE f == FuncContext
             q == <<NewLocal(c)>> \o c.tab[f]
  <2>1. f \in 2..Len(S) /\ S[f].scope = Context /\ Context \in 0..D
    BY FuncContextIn
  <2>2. MakeLocalVariable(c) = [c EXCEPT !.tab[f] = q] /\ LocalPlace(c) = f
    BY <1>6 DEF MakeLocalVariable, LocalPlace
  <2> HIDE DEF f, k
  <2>3. f \in 0..Len(S) /\ f \in 1..Len(S) /\ f # 0
    BY <1>1, <2>1
  <2>4. Fits(NewLocal(c), f, S, D) /\ Cell(c.tab[f], f, S, D)
    BY <1>1, <2>1, <2>3, NewLocalFits, CellOf
  <2>5. Cell(q, f, S, D)
    BY <1>1, <2>3, <2>4, OnTopFits
  <2>6. q # <<>>
    <3>1. NewLocal(c) \in Var(D) /\ c.tab[f] \in Seq(Var(D))
      BY <2>4 DEF Fits, Cell
    <3> QED BY <3>1, OnTop
  <2>7. c = [tab |-> c.tab, needs |-> c.needs] /\ c.needs \in BOOLEAN
    BY DEF CellsOK
  <2> HIDE DEF q
  <2>8. [c EXCEPT !.tab[f] = q] = Changed(c, f, q, c.needs)
    BY <2>7 DEF Changed
  <2>9. CellsOK(Changed(c, f, q, c.needs), S, D) /\ Changed(c, f, q, c.needs).tab[f] = q
        /\ Changed(c, f, q, c.needs).needs = c.needs
    BY <1>1, <2>3, <2>5, <2>7, ChangedOK
  <2> QED BY <2>2, <2>3, <2>6, <2>8, <2>9
<1> QED BY <1>4, <1>5, <1>6

ValuedVar(var, value) == [var EXCEPT !.value = value, !.str = None, !.attrs = @ \ {"invisible"}]

LEMMA BindValueOK ==
  ASSUME NEW D \in Nat, NEW S \in Seq(Scopes(D)), NEW c, CellsOK(c, S, D), NEW k \in 0..Len(S),
         c.tab[k] # <<>>, NEW value \in Vals
  PROVE  /\ CellsOK(BindVariableValue(c, k, value), S, D)
         /\ BindVariableValue(c, k, value).tab[k] # <<>>
<1> DEFINE v == ValuedVar(At(c, k), value)
           p == Put(c, k, v)
           flag == p.needs \/ "exported" \in v.attrs
<1>1. Fits(v, k, S, D)
  <2>1. Fits(At(c, k), k, S, D)
    BY AtFits
  <2>2. None \in Vals
    BY DEF Vals
  <2> DEFINE a == At(c, k)
  <2> HIDE DEF a
  <2> QED BY <2>1, <2>2 DEF Fits, Var, a, ValuedVar
<1>2. BindVariableValue(c, k, value) = [p EXCEPT !.needs = flag]
  BY DEF BindVariableValue, ValuedVar
<1> HIDE DEF v
<1>3. IsPut(p, c, k, v, S, D)
  BY <1>1, PutIs
<1> HIDE DEF p
<1>4. CellsOK(p, S, D) /\ p.tab[k] # <<>> /\ flag \in BOOLEAN
  BY <1>3 DEF IsPut, CellsOK
<1> HIDE DEF flag
<1> QED BY <1>2, <1>4, FlagOK
-----------------------------------------------------------------------------
(* The ends of contexts. *)

LEMMA LargestOf ==
  ASSUME NEW n \in Nat, NEW s \in SUBSET (1..n), s # {}
  PROVE  Largest(s) \in s
<1>1. s \in SUBSET Nat /\ \A k \in s : k <= n
  OBVIOUS
<1>2. Highest(s) \in s /\ \A j \in s : j <= Highest(s)
  BY <1>1, HighestIn
<1>3. \E i \in s : \A j \in s : i >= j
  BY <1>1, <1>2
<1> QED BY <1>3 DEF Largest

(* d is what the turns of f make of c. *)
EndsAs(d, c, n, f, X) ==
  \E h \in [SUBSET (1..n) -> X] : Turns(h, n, c, f) /\ d = h[1..n]

LEMMA EndsIn ==
  ASSUME NEW d, NEW c, NEW n, NEW f, NEW X, EndsAs(d, c, n, f, X)
  PROVE  d \in X
BY DEF EndsAs

(* A fold with one variable at most *)
LEMMA EndsOnce ==
  ASSUME NEW d, NEW c, NEW n \in 0..1, NEW f, NEW X, EndsAs(d, c, n, f, X)
  PROVE  d = IF n = 0 THEN c ELSE f[c][1]
<1>1. PICK h : Turns(h, n, c, f) /\ d = h[1..n]
  BY DEF EndsAs
<1>2. h = [s \in SUBSET (1..n) |-> IF s = {} THEN c ELSE f[h[s \ {Largest(s)}]][Largest(s)]]
  BY <1>1 DEF Turns
<1>3. {} \in SUBSET (1..n) /\ 1..n \in SUBSET (1..n)
  OBVIOUS
<1>4. h[{}] = c
  BY <1>2, <1>3
<1>5. CASE n = 0
  <2>1. 1..n = {}
    BY <1>5
  <2> QED BY <1>1, <1>4, <1>5, <2>1
<1>6. CASE n = 1
  <2>1. 1..n = {1}
    BY <1>6
  <2>2. Largest({1}) = 1
    BY <1>6, <2>1, LargestOf
  <2>3. {1} \ {Largest({1})} = {} /\ {1} # {}
    BY <2>2
  <2>4. h[{1}] = f[h[{1} \ {Largest({1})}]][Largest({1})]
    BY <1>2, <1>3, <2>1, <2>3
  <2> QED BY <1>1, <1>4, <1>6, <2>1, <2>2, <2>3, <2>4
<1> QED BY <1>5, <1>6

LEMMA EndPosixScope ==
  ASSUME NEW X, NEW c \in X, NEW V, NEW gone \in Seq(V),
         \A d \in X : \A i \in 1..Len(gone) : PushPosixTempvar(d, gone[i], TRUE) \in X
  PROVE  EndsAs(Ended(c, gone, LAMBDA d, e : PushPosixTempvar(d, e, TRUE)), c, Len(gone),
                [x \in X |-> [i \in 1..Len(gone) |-> PushPosixTempvar(x, gone[i], TRUE)]], X)
<1> DEFINE n == Len(gone)
           f == [x \in X |-> [i \in 1..n |-> PushPosixTempvar(x, gone[i], TRUE)]]
           Eq(h) == h = [s \in SUBSET (1..n) |->
                           IF s = {} THEN c ELSE PushPosixTempvar(h[s \ {Largest(s)}], gone[Largest(s)], TRUE)]
           it == CHOOSE h : Eq(h)
<1>n. n \in Nat /\ DOMAIN gone = 1..n
  BY LenProperties
<1>e. Ended(c, gone, LAMBDA d, e : PushPosixTempvar(d, e, TRUE)) = it[1..n]
  BY <1>n DEF Ended, FoldLeft, MapThenFoldSet, Max, Largest
<1>1. /\ f \in [X -> [1..n -> X]]
      /\ \A d \in X : \A i \in 1..n : f[d][i] = PushPosixTempvar(d, gone[i], TRUE)
  OBVIOUS
<1> HIDE DEF n, f
<1>2. PICK g \in [SUBSET (1..n) -> X] : Turns(g, n, c, f)
  BY <1>n, <1>1, SomeTurns
<1>3. \A s \in SUBSET (1..n) : s # {} => Largest(s) \in 1..n /\ s \ {Largest(s)} \in SUBSET (1..n)
  BY <1>n, LargestOf
<1>4. Eq(g)
  <2>1. ASSUME NEW s \in SUBSET (1..n)
        PROVE  g[s] = IF s = {} THEN c ELSE PushPosixTempvar(g[s \ {Largest(s)}], gone[Largest(s)], TRUE)
    <3>1. g[s] = IF s = {} THEN c ELSE f[g[s \ {Largest(s)}]][Largest(s)]
      BY <1>2 DEF Turns
    <3> QED BY <1>1, <1>3, <3>1
  <2> QED BY <2>1
<1>5. Eq(it)
  BY <1>4
<1> HIDE DEF it
<1>6. \A s \in SUBSET (1..n) : it[s] = IF s = {} THEN c ELSE PushPosixTempvar(it[s \ {Largest(s)}], gone[Largest(s)], TRUE)
  BY <1>5
<1>7. \A s \in SUBSET (1..n) : s = {} \/ it[s \ {Largest(s)}] \in X => it[s] \in X
  <2> SUFFICES ASSUME NEW s \in SUBSET (1..n), s = {} \/ it[s \ {Largest(s)}] \in X PROVE it[s] \in X
    OBVIOUS
  <2>1. CASE s = {}
    BY <1>6, <2>1
  <2>2. CASE s # {}
    <3> DEFINE l == Largest(s)
               r == it[s \ {Largest(s)}]
    <3>1. r \in X /\ l \in 1..Len(gone)
      BY <1>3, <2>2 DEF n
    <3>2. it[s] = PushPosixTempvar(r, gone[l], TRUE)
      BY <1>6, <2>2
    <3> HIDE DEF l, r
    <3>3. PushPosixTempvar(r, gone[l], TRUE) \in X
      BY <3>1
    <3> QED BY <3>2, <3>3
  <2> QED BY <2>1, <2>2
<1>8. \A s \in SUBSET (1..n) : it[s] \in X
  BY <1>n, <1>7, TurnsStay
<1>9. \A s \in SUBSET (1..n) : it[s] = IF s = {} THEN c ELSE f[it[s \ {Largest(s)}]][Largest(s)]
  BY <1>1, <1>3, <1>6, <1>8
<1>10. DOMAIN it = SUBSET (1..n) /\ it = [s \in SUBSET (1..n) |-> it[s]]
  BY <1>5
<1>11. Turns(it, n, c, f)
  BY <1>9, <1>10 DEF Turns
<1>12. it \in [SUBSET (1..n) -> X]
  BY <1>8, <1>10
<1>13. EndsAs(Ended(c, gone, LAMBDA d, e : PushPosixTempvar(d, e, TRUE)), c, n, f, X)
  BY <1>e, <1>11, <1>12 DEF EndsAs
<1> QED BY <1>13 DEF n, f

LEMMA EndFunction ==
  ASSUME NEW X, NEW c \in X, NEW V, NEW gone \in Seq(V),
         \A d \in X : \A i \in 1..Len(gone) : PushPosixTempvar(d, gone[i], FALSE) \in X
  PROVE  EndsAs(Ended(c, gone, LAMBDA d, e : PushPosixTempvar(d, e, FALSE)), c, Len(gone),
                [x \in X |-> [i \in 1..Len(gone) |-> PushPosixTempvar(x, gone[i], FALSE)]], X)
<1> DEFINE n == Len(gone)
           f == [x \in X |-> [i \in 1..n |-> PushPosixTempvar(x, gone[i], FALSE)]]
           Eq(h) == h = [s \in SUBSET (1..n) |->
                           IF s = {} THEN c ELSE PushPosixTempvar(h[s \ {Largest(s)}], gone[Largest(s)], FALSE)]
           it == CHOOSE h : Eq(h)
<1>n. n \in Nat /\ DOMAIN gone = 1..n
  BY LenProperties
<1>e. Ended(c, gone, LAMBDA d, e : PushPosixTempvar(d, e, FALSE)) = it[1..n]
  BY <1>n DEF Ended, FoldLeft, MapThenFoldSet, Max, Largest
<1>1. /\ f \in [X -> [1..n -> X]]
      /\ \A d \in X : \A i \in 1..n : f[d][i] = PushPosixTempvar(d, gone[i], FALSE)
  OBVIOUS
<1> HIDE DEF n, f
<1>2. PICK g \in [SUBSET (1..n) -> X] : Turns(g, n, c, f)
  BY <1>n, <1>1, SomeTurns
<1>3. \A s \in SUBSET (1..n) : s # {} => Largest(s) \in 1..n /\ s \ {Largest(s)} \in SUBSET (1..n)
  BY <1>n, LargestOf
<1>4. Eq(g)
  <2>1. ASSUME NEW s \in SUBSET (1..n)
        PROVE  g[s] = IF s = {} THEN c ELSE PushPosixTempvar(g[s \ {Largest(s)}], gone[Largest(s)], FALSE)
    <3>1. g[s] = IF s = {} THEN c ELSE f[g[s \ {Largest(s)}]][Largest(s)]
      BY <1>2 DEF Turns
    <3> QED BY <1>1, <1>3, <3>1
  <2> QED BY <2>1
<1>5. Eq(it)
  BY <1>4
<1> HIDE DEF it
<1>6. \A s \in SUBSET (1..n) : it[s] = IF s = {} THEN c ELSE PushPosixTempvar(it[s \ {Largest(s)}], gone[Largest(s)], FALSE)
  BY <1>5
<1>7. \A s \in SUBSET (1..n) : s = {} \/ it[s \ {Largest(s)}] \in X => it[s] \in X
  <2> SUFFICES ASSUME NEW s \in SUBSET (1..n), s = {} \/ it[s \ {Largest(s)}] \in X PROVE it[s] \in X
    OBVIOUS
  <2>1. CASE s = {}
    BY <1>6, <2>1
  <2>2. CASE s # {}
    <3> DEFINE l == Largest(s)
               r == it[s \ {Largest(s)}]
    <3>1. r \in X /\ l \in 1..Len(gone)
      BY <1>3, <2>2 DEF n
    <3>2. it[s] = PushPosixTempvar(r, gone[l], FALSE)
      BY <1>6, <2>2
    <3> HIDE DEF l, r
    <3>3. PushPosixTempvar(r, gone[l], FALSE) \in X
      BY <3>1
    <3> QED BY <3>2, <3>3
  <2> QED BY <2>1, <2>2
<1>8. \A s \in SUBSET (1..n) : it[s] \in X
  BY <1>n, <1>7, TurnsStay
<1>9. \A s \in SUBSET (1..n) : it[s] = IF s = {} THEN c ELSE f[it[s \ {Largest(s)}]][Largest(s)]
  BY <1>1, <1>3, <1>6, <1>8
<1>10. DOMAIN it = SUBSET (1..n) /\ it = [s \in SUBSET (1..n) |-> it[s]]
  BY <1>5
<1>11. Turns(it, n, c, f)
  BY <1>9, <1>10 DEF Turns
<1>12. it \in [SUBSET (1..n) -> X]
  BY <1>8, <1>10
<1>13. EndsAs(Ended(c, gone, LAMBDA d, e : PushPosixTempvar(d, e, FALSE)), c, n, f, X)
  BY <1>e, <1>11, <1>12 DEF EndsAs
<1> QED BY <1>13 DEF n, f

LEMMA EndScope ==
  ASSUME NEW X, NEW c \in X, NEW V, NEW gone \in Seq(V),
         \A d \in X : \A i \in 1..Len(gone) : PushExportedVar(d, gone[i]) \in X
  PROVE  EndsAs(Ended(c, gone, PushExportedVar), c, Len(gone),
                [x \in X |-> [i \in 1..Len(gone) |-> PushExportedVar(x, gone[i])]], X)
<1> DEFINE n == Len(gone)
           f == [x \in X |-> [i \in 1..n |-> PushExportedVar(x, gone[i])]]
           Eq(h) == h = [s \in SUBSET (1..n) |->
                           IF s = {} THEN c ELSE PushExportedVar(h[s \ {Largest(s)}], gone[Largest(s)])]
           it == CHOOSE h : Eq(h)
<1>n. n \in Nat /\ DOMAIN gone = 1..n
  BY LenProperties
<1>e. Ended(c, gone, PushExportedVar) = it[1..n]
  BY <1>n DEF Ended, FoldLeft, MapThenFoldSet, Max, Largest
<1>1. /\ f \in [X -> [1..n -> X]]
      /\ \A d \in X : \A i \in 1..n : f[d][i] = PushExportedVar(d, gone[i])
  OBVIOUS
<1> HIDE DEF n, f
<1>2. PICK g \in [SUBSET (1..n) -> X] : Turns(g, n, c, f)
  BY <1>n, <1>1, SomeTurns
<1>3. \A s \in SUBSET (1..n) : s # {} => Largest(s) \in 1..n /\ s \ {Largest(s)} \in SUBSET (1..n)
  BY <1>n, LargestOf
<1>4. Eq(g)
  <2>1. ASSUME NEW s \in SUBSET (1..n)
        PROVE  g[s] = IF s = {} THEN c ELSE PushExportedVar(g[s \ {Largest(s)}], gone[Largest(s)])
    <3>1. g[s] = IF s = {} THEN c ELSE f[g[s \ {Largest(s)}]][Largest(s)]
      BY <1>2 DEF Turns
    <3> QED BY <1>1, <1>3, <3>1
  <2> QED BY <2>1
<1>5. Eq(it)
  BY <1>4
<1> HIDE DEF it
<1>6. \A s \in SUBSET (1..n) : it[s] = IF s = {} THEN c ELSE PushExportedVar(it[s \ {Largest(s)}], gone[Largest(s)])
  BY <1>5
<1>7. \A s \in SUBSET (1..n) : s = {} \/ it[s \ {Largest(s)}] \in X => it[s] \in X
  <2> SUFFICES ASSUME NEW s \in SUBSET (1..n), s = {} \/ it[s \ {Largest(s)}] \in X PROVE it[s] \in X
    OBVIOUS
  <2>1. CASE s = {}
    BY <1>6, <2>1
  <2>2. CASE s # {}
    <3> DEFINE l == Largest(s)
               r == it[s \ {Largest(s)}]
    <3>1. r \in X /\ l \in 1..Len(gone)
      BY <1>3, <2>2 DEF n
    <3>2. it[s] = PushExportedVar(r, gone[l])
      BY <1>6, <2>2
    <3> HIDE DEF l, r
    <3>3. PushExportedVar(r, gone[l]) \in X
      BY <3>1
    <3> QED BY <3>2, <3>3
  <2> QED BY <2>1, <2>2
<1>8. \A s \in SUBSET (1..n) : it[s] \in X
  BY <1>n, <1>7, TurnsStay
<1>9. \A s \in SUBSET (1..n) : it[s] = IF s = {} THEN c ELSE f[it[s \ {Largest(s)}]][Largest(s)]
  BY <1>1, <1>3, <1>6, <1>8
<1>10. DOMAIN it = SUBSET (1..n) /\ it = [s \in SUBSET (1..n) |-> it[s]]
  BY <1>5
<1>11. Turns(it, n, c, f)
  BY <1>9, <1>10 DEF Turns
<1>12. it \in [SUBSET (1..n) -> X]
  BY <1>8, <1>10
<1>13. EndsAs(Ended(c, gone, PushExportedVar), c, n, f, X)
  BY <1>e, <1>11, <1>12 DEF EndsAs
<1> QED BY <1>13 DEF n, f

LEMMA EndTempenv ==
  ASSUME NEW X, NEW c \in X, NEW V, NEW gone \in Seq(V),
         \A d \in X : \A i \in 1..Len(gone) : PropagateTempVar(d, gone[i]) \in X
  PROVE  EndsAs(Ended(c, gone, PropagateTempVar), c, Len(gone),
                [x \in X |-> [i \in 1..Len(gone) |-> PropagateTempVar(x, gone[i])]], X)
<1> DEFINE n == Len(gone)
           f == [x \in X |-> [i \in 1..n |-> PropagateTempVar(x, gone[i])]]
           Eq(h) == h = [s \in SUBSET (1..n) |->
                           IF s = {} THEN c ELSE PropagateTempVar(h[s \ {Largest(s)}], gone[Largest(s)])]
           it == CHOOSE h : Eq(h)
<1>n. n \in Nat /\ DOMAIN gone = 1..n
  BY LenProperties
<1>e. Ended(c, gone, PropagateTempVar) = it[1..n]
  BY <1>n DEF Ended, FoldLeft, MapThenFoldSet, Max, Largest
<1>1. /\ f \in [X -> [1..n -> X]]
      /\ \A d \in X : \A i \in 1..n : f[d][i] = PropagateTempVar(d, gone[i])
  OBVIOUS
<1> HIDE DEF n, f
<1>2. PICK g \in [SUBSET (1..n) -> X] : Turns(g, n, c, f)
  BY <1>n, <1>1, SomeTurns
<1>3. \A s \in SUBSET (1..n) : s # {} => Largest(s) \in 1..n /\ s \ {Largest(s)} \in SUBSET (1..n)
  BY <1>n, LargestOf
<1>4. Eq(g)
  <2>1. ASSUME NEW s \in SUBSET (1..n)
        PROVE  g[s] = IF s = {} THEN c ELSE PropagateTempVar(g[s \ {Largest(s)}], gone[Largest(s)])
    <3>1. g[s] = IF s = {} THEN c ELSE f[g[s \ {Largest(s)}]][Largest(s)]
      BY <1>2 DEF Turns
    <3> QED BY <1>1, <1>3, <3>1
  <2> QED BY <2>1
<1>5. Eq(it)
  BY <1>4
<1> HIDE DEF it
<1>6. \A s \in SUBSET (1..n) : it[s] = IF s = {} THEN c ELSE PropagateTempVar(it[s \ {Largest(s)}], gone[Largest(s)])
  BY <1>5
<1>7. \A s \in SUBSET (1..n) : s = {} \/ it[s \ {Largest(s)}] \in X => it[s] \in X
  <2> SUFFICES ASSUME NEW s \in SUBSET (1..n), s = {} \/ it[s \ {Largest(s)}] \in X PROVE it[s] \in X
    OBVIOUS
  <2>1. CASE s = {}
    BY <1>6, <2>1
  <2>2. CASE s # {}
    <3> DEFINE l == Largest(s)
               r == it[s \ {Largest(s)}]
    <3>1. r \in X /\ l \in 1..Len(gone)
      BY <1>3, <2>2 DEF n
    <3>2. it[s] = PropagateTempVar(r, gone[l])
      BY <1>6, <2>2
    <3> HIDE DEF l, r
    <3>3. PropagateTempVar(r, gone[l]) \in X
      BY <3>1
    <3> QED BY <3>2, <3>3
  <2> QED BY <2>1, <2>2
<1>8. \A s \in SUBSET (1..n) : it[s] \in X
  BY <1>n, <1>7, TurnsStay
<1>9. \A s \in SUBSET (1..n) : it[s] = IF s = {} THEN c ELSE f[it[s \ {Largest(s)}]][Largest(s)]
  BY <1>1, <1>3, <1>6, <1>8
<1>10. DOMAIN it = SUBSET (1..n) /\ it = [s \in SUBSET (1..n) |-> it[s]]
  BY <1>5
<1>11. Turns(it, n, c, f)
  BY <1>9, <1>10 DEF Turns
<1>12. it \in [SUBSET (1..n) -> X]
  BY <1>8, <1>10
<1>13. EndsAs(Ended(c, gone, PropagateTempVar), c, n, f, X)
  BY <1>e, <1>11, <1>12 DEF EndsAs
<1> QED BY <1>13 DEF n, f

LEMMA EndPosixTempenv ==
  ASSUME NEW X, NEW c \in X, NEW V, NEW gone \in Seq(V),
         \A d \in X : \A i \in 1..Len(gone) : PushPosixTempVar(d, gone[i]) \in X
  PROVE  EndsAs(Ended(c, gone, PushPosixTempVar), c, Len(gone),
                [x \in X |-> [i \in 1..Len(gone) |-> PushPosixTempVar(x, gone[i])]], X)
<1> DEFINE n == Len(gone)
           f == [x \in X |-> [i \in 1..n |-> PushPosixTempVar(x, gone[i])]]
           Eq(h) == h = [s \in SUBSET (1..n) |->
                           IF s = {} THEN c ELSE PushPosixTempVar(h[s \ {Largest(s)}], gone[Largest(s)])]
           it == CHOOSE h : Eq(h)
<1>n. n \in Nat /\ DOMAIN gone = 1..n
  BY LenProperties
<1>e. Ended(c, gone, PushPosixTempVar) = it[1..n]
  BY <1>n DEF Ended, FoldLeft, MapThenFoldSet, Max, Largest
<1>1. /\ f \in [X -> [1..n -> X]]
      /\ \A d \in X : \A i \in 1..n : f[d][i] = PushPosixTempVar(d, gone[i])
  OBVIOUS
<1> HIDE DEF n, f
<1>2. PICK g \in [SUBSET (1..n) -> X] : Turns(g, n, c, f)
  BY <1>n, <1>1, SomeTurns
<1>3. \A s \in SUBSET (1..n) : s # {} => Largest(s) \in 1..n /\ s \ {Largest(s)} \in SUBSET (1..n)
  BY <1>n, LargestOf
<1>4. Eq(g)
  <2>1. ASSUME NEW s \in SUBSET (1..n)
        PROVE  g[s] = IF s = {} THEN c ELSE PushPosixTempVar(g[s \ {Largest(s)}], gone[Largest(s)])
    <3>1. g[s] = IF s = {} THEN c ELSE f[g[s \ {Largest(s)}]][Largest(s)]
      BY <1>2 DEF Turns
    <3> QED BY <1>1, <1>3, <3>1
  <2> QED BY <2>1
<1>5. Eq(it)
  BY <1>4
<1> HIDE DEF it
<1>6. \A s \in SUBSET (1..n) : it[s] = IF s = {} THEN c ELSE PushPosixTempVar(it[s \ {Largest(s)}], gone[Largest(s)])
  BY <1>5
<1>7. \A s \in SUBSET (1..n) : s = {} \/ it[s \ {Largest(s)}] \in X => it[s] \in X
  <2> SUFFICES ASSUME NEW s \in SUBSET (1..n), s = {} \/ it[s \ {Largest(s)}] \in X PROVE it[s] \in X
    OBVIOUS
  <2>1. CASE s = {}
    BY <1>6, <2>1
  <2>2. CASE s # {}
    <3> DEFINE l == Largest(s)
               r == it[s \ {Largest(s)}]
    <3>1. r \in X /\ l \in 1..Len(gone)
      BY <1>3, <2>2 DEF n
    <3>2. it[s] = PushPosixTempVar(r, gone[l])
      BY <1>6, <2>2
    <3> HIDE DEF l, r
    <3>3. PushPosixTempVar(r, gone[l]) \in X
      BY <3>1
    <3> QED BY <3>2, <3>3
  <2> QED BY <2>1, <2>2
<1>8. \A s \in SUBSET (1..n) : it[s] \in X
  BY <1>n, <1>7, TurnsStay
<1>9. \A s \in SUBSET (1..n) : it[s] = IF s = {} THEN c ELSE f[it[s \ {Largest(s)}]][Largest(s)]
  BY <1>1, <1>3, <1>6, <1>8
<1>10. DOMAIN it = SUBSET (1..n) /\ it = [s \in SUBSET (1..n) |-> it[s]]
  BY <1>5
<1>11. Turns(it, n, c, f)
  BY <1>9, <1>10 DEF Turns
<1>12. it \in [SUBSET (1..n) -> X]
  BY <1>8, <1>10
<1>13. EndsAs(Ended(c, gone, PushPosixTempVar), c, n, f, X)
  BY <1>e, <1>11, <1>12 DEF EndsAs
<1> QED BY <1>13 DEF n, f

-----------------------------------------------------------------------------
(* declare and export. *)

LEMMA AttrsOf ==
  ASSUME NEW D \in Nat, NEW S \in Seq(Scopes(D)), NEW c, CellsOK(c, S, D), NEW k \in 0..Len(S),
         c.tab[k] # <<>>
  PROVE  At(c, k).attrs \in SUBSET Attributes /\ At(c, k).value \in Vals /\ At(c, k).str \in Vals
<1>1. Fits(At(c, k), k, S, D)
  BY AtFits
<1> QED BY <1>1, FitsIs

LEMMA DeclaredInOK ==
  ASSUME NEW D \in Nat, NEW S \in Seq(Scopes(D)), Len(S) >= 1, S[1].scope = 0,
         NEW c, CellsOK(c, S, D), NEW k \in 0..Len(S), c.tab[k] # <<>>, NEW value \in Vals,
         NEW on \in SUBSET {"exported"}, NEW off
  PROVE  CellsOK(DeclaredIn(c, k, value, on, off), S, D)
<1> DEFINE added == Add(c, k, on)
           flagged == Drop(added, k, off)
           valued == IF value = None THEN flagged ELSE BindVariableValue(flagged, k, value)
           var == At(valued, k)
           b == Bound(valued)
           u == BindVariable(valued, var.value)
           more == (var.attrs \ {"tempvar"}) \cup (IF At(u, b).context > 0 THEN {"propagate"} ELSE {})
           copied == IF ~InTempenv(valued) THEN valued ELSE Add(u, b, more)
           prop == {"propagate"}
<1>1. DeclaredIn(c, k, value, on, off) =
        IF on # {} /\ "tempvar" \in var.attrs THEN Add(copied, k, prop) ELSE valued
  BY DEF DeclaredIn
<1>2. on \in SUBSET Attributes /\ prop \in SUBSET Attributes
  BY DEF Attributes
<1> HIDE DEF added
<1>3. CellsOK(added, S, D) /\ added.tab[k] # <<>>
  <2>1. IsPut(Add(c, k, on), c, k, Added(c, k, on), S, D)
    BY <1>2, AddIs
  <2> QED BY <2>1 DEF added, IsPut
<1> HIDE DEF flagged
<1>4. CellsOK(flagged, S, D) /\ flagged.tab[k] # <<>>
  <2>1. IsPut(Drop(added, k, off), added, k, Dropped(added, k, off), S, D)
    BY <1>3, DropIs
  <2> QED BY <2>1 DEF flagged, IsPut
<1>5. CellsOK(valued, S, D) /\ valued.tab[k] # <<>>
  <2>1. CellsOK(BindVariableValue(flagged, k, value), S, D) /\ BindVariableValue(flagged, k, value).tab[k] # <<>>
    BY <1>4, BindValueOK
  <2> QED BY <1>4, <2>1
<1> HIDE DEF valued
<1>6. var.attrs \in SUBSET Attributes /\ var.value \in Vals
  BY <1>5, AttrsOf
<1> HIDE DEF var
<1>7. CellsOK(u, S, D) /\ b \in 1..Len(S)
  BY <1>5, <1>6, BindVariableOK
<1>8. more \in SUBSET Attributes
  BY <1>6 DEF Attributes
<1> HIDE DEF u, b, more
<1>9. CellsOK(copied, S, D)
  <2>1. b \in 0..Len(S)
    BY <1>7
  <2>2. CellsOK(Add(u, b, more), S, D)
    BY <1>7, <1>8, <2>1, AddAny
  <2> QED BY <1>5, <2>2
<1> HIDE DEF copied, prop
<1>10. CellsOK(Add(copied, k, prop), S, D)
  BY <1>2, <1>9, AddAny
<1> QED BY <1>1, <1>5, <1>10

LEMMA DeclareOK ==
  ASSUME NEW D \in Nat, ChainOK(scopes, D), NEW c, CellsOK(c, scopes, D), NEW value \in Vals,
         NEW on \in SUBSET {"exported"}, NEW off
  PROVE  CellsOK(Declare(c, value, on, off), scopes, D)
<1> DEFINE S == scopes
           flag == c.needs \/ on \cup off # {}
           marked == [c EXCEPT !.needs = flag]
           made == BindVariable(marked, None)
           hidden == Add(made, 1, {"invisible"})
           fresh == IF value = None THEN hidden ELSE made
<1>1. S \in Seq(Scopes(D)) /\ Len(S) \in Nat /\ Len(S) >= 1
  BY LenProperties DEF ChainOK
<1>2. S[1].scope = 0
  BY FuncContextIn
<1>3. flag \in BOOLEAN
  BY DEF CellsOK
<1>4. Declare(c, value, on, off) =
        IF Context > 0 THEN DeclaredIn(MakeLocalVariable(marked), LocalPlace(c), value, on, off)
        ELSE IF Found(c) THEN DeclaredIn(marked, FindVariable(c), value, on, off)
        ELSE DeclaredIn(fresh, 1, value, on, off)
  BY DEF Declare
<1> HIDE DEF flag
<1>5. CellsOK(marked, S, D) /\ marked.tab = c.tab
  BY <1>3, FlagOK
<1>6. /\ LocalPlace(marked) = LocalPlace(c) /\ Found(marked) = Found(c)
      /\ FindVariable(marked) = FindVariable(c) /\ Bound(marked) = Bound(c)
  BY <1>5 DEF LocalPlace, IsLocalHere, IsTempHere, Found, FindVariable, Has, At, InTempenv, VarLookup, Bound
<1> HIDE DEF marked
<1>7. CASE Context > 0
  <2> DEFINE m == MakeLocalVariable(marked)
             k == LocalPlace(marked)
  <2>1. CellsOK(m, S, D) /\ k \in 1..Len(S) /\ m.tab[k] # <<>>
    BY <1>5, <1>7, MakeLocalOK
  <2> HIDE DEF m, k
  <2>2. k \in 0..Len(S)
    BY <2>1
  <2>3. CellsOK(DeclaredIn(m, k, value, on, off), S, D)
    BY <1>1, <1>2, <2>1, <2>2, DeclaredInOK
  <2> QED BY <1>4, <1>6, <1>7, <2>3 DEF m, k
<1>8. CASE ~(Context > 0) /\ Found(c)
  <2>1. FindVariable(c) \in 0..Len(S) /\ marked.tab[FindVariable(c)] # <<>>
    BY <1>1, <1>5, <1>6, <1>8, FindVariableIn
  <2>2. CellsOK(DeclaredIn(marked, FindVariable(c), value, on, off), S, D)
    BY <1>1, <1>2, <1>5, <2>1, DeclaredInOK
  <2> QED BY <1>4, <1>8, <2>2
<1>9. CASE ~(Context > 0) /\ ~Found(c)
  <2>1. Bound(marked) = 1
    BY <1>6, <1>9 DEF Bound, Found
  <2>2. None \in Vals /\ 1 \in 0..Len(S) /\ {"invisible"} \in SUBSET Attributes
    BY <1>1 DEF Vals, Attributes
  <2>3. CellsOK(made, S, D) /\ made.tab[1] # <<>>
    BY <1>1, <1>2, <1>5, <2>1, <2>2, BindVariableOK
  <2> HIDE DEF made
  <2>4. CellsOK(hidden, S, D) /\ hidden.tab[1] # <<>>
    <3> DEFINE inv == {"invisible"}
    <3>1. inv \in SUBSET Attributes
      BY <2>2
    <3> HIDE DEF inv
    <3>2. IsPut(Add(made, 1, inv), made, 1, Added(made, 1, inv), S, D)
      BY <1>1, <2>2, <2>3, <3>1, AddIs
    <3> QED BY <3>2 DEF IsPut, inv
  <2> HIDE DEF hidden
  <2>5. CellsOK(fresh, S, D) /\ fresh.tab[1] # <<>>
    BY <2>3, <2>4
  <2> HIDE DEF fresh
  <2>6. CellsOK(DeclaredIn(fresh, 1, value, on, off), S, D)
    BY <1>1, <1>2, <2>2, <2>5, DeclaredInOK
  <2> QED BY <1>4, <1>9, <2>6
<1> QED BY <1>7, <1>8, <1>9

LEMMA ExportOK ==
  ASSUME NEW D \in Nat, NEW S \in Seq(Scopes(D)), Len(S) >= 1, S[1].scope = 0,
         NEW c, CellsOK(c, S, D), NEW undo
  PROVE  CellsOK(Export(c, undo), S, D)
<1> DEFINE marked == [c EXCEPT !.needs = TRUE]
           temp == At(c, 0)
           bound == BindVariable(marked, temp.value)
           b == Bound(marked)
           more == (temp.attrs \ {"tempvar"})
                     \cup (IF mode.posix /\ At(bound, b).context # 0 THEN {"propagate"} ELSE {})
           copied == Add(bound, b, more)
           prop == {"propagate"}
           exp == {"exported"}
           both == {"invisible", "exported"}
           last == {"exported"} \cup (IF At(c, b).context # 0 THEN {"propagate"} ELSE {})
           kept == IF mode.posix THEN Add(copied, 0, prop) ELSE copied
<1>1. Export(c, undo) =
        IF undo THEN IF Found(c) THEN Drop(marked, FindVariable(c), exp) ELSE marked
        ELSE IF InTempenv(c) THEN Add(kept, b, exp)
        ELSE IF VarLookup(c) = 0 THEN Add(BindVariable(marked, None), 1, both)
        ELSE Add(marked, b, last)
  BY DEF Export
<1>2. CellsOK(marked, S, D) /\ marked.tab = c.tab
  BY FlagOK
<1>3. /\ prop \in SUBSET Attributes /\ exp \in SUBSET Attributes /\ both \in SUBSET Attributes
      /\ last \in SUBSET Attributes /\ None \in Vals
  BY DEF Attributes, Vals
<1>4. Len(S) \in Nat /\ 0 \in 0..Len(S) /\ 1 \in 0..Len(S)
  BY LenProperties
<1>5. /\ Found(marked) = Found(c)
      /\ FindVariable(marked) = FindVariable(c)
  BY <1>2 DEF Found, FindVariable, InTempenv, VarLookup
<1> HIDE DEF marked
<1>6. b \in 1..Len(S) /\ b \in 0..Len(S)
  BY <1>2, <1>4, BoundIn
<1>7. CellsOK(BindVariable(marked, None), S, D)
  BY <1>2, <1>3, BindVariableOK
<1> HIDE DEF prop, exp, both, last, b
<1>8. Found(c) => CellsOK(Drop(marked, FindVariable(c), exp), S, D)
  <2> SUFFICES ASSUME Found(c) PROVE CellsOK(Drop(marked, FindVariable(c), exp), S, D)
    OBVIOUS
  <2>1. FindVariable(c) \in 0..Len(S) /\ marked.tab[FindVariable(c)] # <<>>
    BY <1>2, <1>5, FindVariableIn
  <2> DEFINE f == FindVariable(c)
  <2> HIDE DEF f
  <2>2. IsPut(Drop(marked, f, exp), marked, f, Dropped(marked, f, exp), S, D)
    BY <1>2, <2>1, DropIs DEF f
  <2> QED BY <2>2 DEF IsPut, f
<1>9. CellsOK(Add(marked, b, last), S, D)
  BY <1>2, <1>3, <1>6, AddAny
<1>10. CellsOK(Add(BindVariable(marked, None), 1, both), S, D)
  BY <1>3, <1>4, <1>7, AddAny
<1>11. ASSUME InTempenv(c) PROVE CellsOK(Add(kept, b, exp), S, D)
  <2>1. temp.attrs \in SUBSET Attributes /\ temp.value \in Vals
    BY <1>4, <1>11, AttrsOf DEF InTempenv
  <2> HIDE DEF temp
  <2>2. CellsOK(bound, S, D)
    BY <1>2, <2>1, BindVariableOK
  <2>3. more \in SUBSET Attributes
    BY <2>1 DEF Attributes
  <2> HIDE DEF bound, more
  <2>4. CellsOK(copied, S, D)
    BY <1>6, <2>2, <2>3, AddAny
  <2> HIDE DEF copied
  <2>5. CellsOK(Add(copied, 0, prop), S, D)
    BY <1>3, <1>4, <2>4, AddAny
  <2>6. CellsOK(kept, S, D)
    BY <2>4, <2>5
  <2> HIDE DEF kept
  <2> QED BY <1>3, <1>6, <2>6, AddAny
<1> HIDE DEF kept
<1> QED BY <1>1, <1>2, <1>8, <1>9, <1>10, <1>11

-----------------------------------------------------------------------------
(* Handing variables on.  S is the chain that is left. *)

FinalVar(c, k, value, attrs, context) ==
  [BoundVar(c, k, value) EXCEPT !.attrs = @ \cup attrs, !.context = context]

BindInTopFlag(c, value) == c.needs \/ "exported" \in BoundVar(c, Top(c), value).attrs

(* The variable is put in the last table, at the level of that one. *)
IsInTop(d, c, k, var, flag) == d = [Put(c, k, var) EXCEPT !.needs = flag]

LEMMA BindInTopIs ==
  ASSUME NEW D \in Nat, NEW S \in Seq(Scopes(D)), Len(S) >= 1, NEW c, CellsOK(c, S, D),
         scopes[Len(S)].scope = S[Len(S)].scope, NEW value \in Vals, NEW attrs \in SUBSET Attributes
  PROVE  /\ Fits(FinalVar(c, Len(S), value, attrs, S[Len(S)].scope), Len(S), S, D)
         /\ IsInTop(BindInTop(c, value, attrs), c, Len(S),
                    FinalVar(c, Len(S), value, attrs, S[Len(S)].scope), BindInTopFlag(c, value))
<1> DEFINE k == Len(S)
           v == BoundVar(c, k, value)
           p == Put(c, k, v)
           flag == c.needs \/ "exported" \in v.attrs
           e == FinalVar(c, k, value, attrs, S[k].scope)
           d == [p EXCEPT !.needs = flag]
<1>1. k \in Nat /\ k \in 1..Len(S) /\ k \in 0..Len(S) /\ Top(c) = k
  BY Lookup, LenProperties
<1>s. S[k] \in Scopes(D)
  BY <1>1
<1>2. BoundVarOK(v, c, k, value, S, D)
  BY <1>1, BoundVarTyped
<1>3. v \in Var(D)
  BY <1>2 DEF BoundVarOK
<1>4. Fits(e, k, S, D)
  <2> HIDE DEF k
  <2>1. S[k].scope \in 0..D
    BY <1>s DEF Scopes
  <2>2. e = [v EXCEPT !.attrs = @ \cup attrs, !.context = S[k].scope]
    BY DEF FinalVar
  <2> HIDE DEF v, e
  <2> QED BY <1>3, <2>1, <2>2 DEF Fits, Var
<1>5. p.needs = c.needs
  <2> HIDE DEF v
  <2>1. Put(c, k, v) = Changed(c, k, <<v>> \o Rest(c.tab[k]), c.needs)
    BY <1>1, <1>3, PutIsTyped
  <2> QED BY <2>1 DEF Changed
<1>6. BindVariableInternal(c, k, value) = d
  BY <1>5, BindInternalIs
<1>7. flag \in BOOLEAN
  BY DEF CellsOK
<1>8. Put(d, k, e) = [Put(c, k, e) EXCEPT !.needs = flag] /\ At(d, k) = v
  <2> HIDE DEF v, e, flag, k
  <2> QED BY <1>1, <1>3, <1>4, <1>7, PutTwice
<1>9. BindInTop(c, value, attrs) = Put(d, k, [At(d, k) EXCEPT !.attrs = @ \cup attrs, !.context = S[k].scope])
  BY <1>1, <1>6 DEF BindInTop, Bequeath
<1>10. [At(d, k) EXCEPT !.attrs = @ \cup attrs, !.context = S[k].scope] = e
  BY <1>8 DEF FinalVar
<1>11. BindInTopFlag(c, value) = flag
  BY <1>1 DEF BindInTopFlag
<1> HIDE DEF d, e, flag
<1>12. BindInTop(c, value, attrs) = [Put(c, k, e) EXCEPT !.needs = flag]
  BY <1>8, <1>9, <1>10
<1>13. IsInTop(BindInTop(c, value, attrs), c, k, e, flag)
  BY <1>12 DEF IsInTop
<1> QED BY <1>4, <1>11, <1>13 DEF e

LEMMA BindInTopOK ==
  ASSUME NEW D \in Nat, NEW S \in Seq(Scopes(D)), Len(S) >= 1, NEW c, CellsOK(c, S, D),
         scopes[Len(S)].scope = S[Len(S)].scope, NEW value \in Vals, NEW attrs \in SUBSET Attributes
  PROVE  CellsOK(BindInTop(c, value, attrs), S, D)
<1> DEFINE k == Len(S)
           e == FinalVar(c, k, value, attrs, S[k].scope)
           flag == BindInTopFlag(c, value)
<1>1. Fits(e, k, S, D) /\ IsInTop(BindInTop(c, value, attrs), c, k, e, flag)
  BY BindInTopIs
<1>2. flag \in BOOLEAN /\ k \in 0..Len(S)
  BY LenProperties DEF CellsOK, BindInTopFlag
<1> HIDE DEF k, e, flag
<1>3. IsPut(Put(c, k, e), c, k, e, S, D)
  BY <1>1, <1>2, PutIs
<1>4. CellsOK(Put(c, k, e), S, D)
  BY <1>3 DEF IsPut
<1>5. CellsOK([Put(c, k, e) EXCEPT !.needs = flag], S, D)
  BY <1>2, <1>4, FlagOK
<1> QED BY <1>1, <1>5 DEF IsInTop

(* What the handlers for the variables of a context that ends have in      *)
(* common: the chain that is left, and a variable.                         *)
Ending(c, S, D, e) ==
  /\ S \in Seq(Scopes(D)) /\ Len(S) >= 1 /\ S[1].scope = 0
  /\ scopes[Len(S)].scope = S[Len(S)].scope
  /\ CellsOK(c, S, D) /\ e \in Var(D)

LEMMA EndingIs ==
  ASSUME NEW D \in Nat, NEW S, NEW c, NEW e, Ending(c, S, D, e)
  PROVE  /\ S \in Seq(Scopes(D)) /\ Len(S) >= 1 /\ S[1].scope = 0 /\ Top(c) = Len(S)
         /\ scopes[Len(S)].scope = S[Len(S)].scope
         /\ CellsOK(c, S, D) /\ e.value \in Vals /\ e.attrs \in SUBSET Attributes
BY Lookup DEF Ending, Var

LEMMA PropagateTempVarOK ==
  ASSUME NEW D \in Nat, NEW S, NEW c, NEW e, Ending(c, S, D, e)
  PROVE  CellsOK(PropagateTempVar(c, e), S, D)
<1> DEFINE attrs == IF Top(c) = 1 THEN e.attrs \ Passing ELSE e.attrs
           d == IF Passing \subseteq e.attrs THEN BindInTop(c, e.value, attrs) ELSE c
<1>1. attrs \in SUBSET Attributes
  BY EndingIs
<1> HIDE DEF attrs
<1>2. CellsOK(BindInTop(c, e.value, attrs), S, D)
  BY <1>1, EndingIs, BindInTopOK
<1>3. CellsOK(d, S, D)
  BY <1>2 DEF Ending
<1>4. PropagateTempVar(c, e) = Dispose(d, e)
  BY DEF PropagateTempVar, attrs
<1> HIDE DEF d
<1> QED BY <1>3, <1>4, DisposeOK

LEMMA PushExportedVarOK ==
  ASSUME NEW D \in Nat, NEW S, NEW c, NEW e, Ending(c, S, D, e)
  PROVE  CellsOK(PushExportedVar(c, e), S, D)
<1> DEFINE attrs == e.attrs \ (IF Top(c) = 1 THEN Passing ELSE {"tempvar"})
           d == IF Passing \cup {"exported"} \subseteq e.attrs THEN BindInTop(c, e.value, attrs) ELSE c
<1>1. attrs \in SUBSET Attributes
  BY EndingIs
<1> HIDE DEF attrs
<1>2. CellsOK(BindInTop(c, e.value, attrs), S, D)
  BY <1>1, EndingIs, BindInTopOK
<1>3. CellsOK(d, S, D)
  BY <1>2 DEF Ending
<1>4. PushExportedVar(c, e) = Dispose(d, e)
  BY DEF PushExportedVar, attrs
<1> HIDE DEF d
<1> QED BY <1>3, <1>4, DisposeOK

LEMMA PushPosixTempvarOK ==
  ASSUME NEW D \in Nat, NEW S, NEW c, NEW e, Ending(c, S, D, e), NEW special
  PROVE  CellsOK(PushPosixTempvar(c, e, special), S, D)
<1> DEFINE k == Bound(c)
           u == BindVariable(c, e.value)
           merged == Add(u, k, e.attrs)
           attrs == IF Top(c) = 1 THEN e.attrs \ Passing ELSE e.attrs
           dropped == Drop(merged, k, Passing)
           d == IF "tempvar" \in e.attrs /\ mode.posix /\ special
                THEN IF At(merged, k).context = 0 THEN dropped ELSE merged
                ELSE IF Passing \subseteq e.attrs THEN BindInTop(c, e.value, attrs) ELSE c
<1>1. attrs \in SUBSET Attributes
  BY EndingIs
<1> HIDE DEF attrs
<1>2. CellsOK(BindInTop(c, e.value, attrs), S, D)
  BY <1>1, EndingIs, BindInTopOK
<1>3. CellsOK(u, S, D) /\ k \in 1..Len(S) /\ u.tab[k] # <<>>
  BY EndingIs, BindVariableOK
<1> HIDE DEF u, k
<1>4. k \in 0..Len(S)
  BY <1>3
<1>5. CellsOK(merged, S, D) /\ merged.tab[k] # <<>>
  <2> DEFINE a == e.attrs
  <2>1. a \in SUBSET Attributes
    BY EndingIs
  <2> HIDE DEF a
  <2>2. IsPut(Add(u, k, a), u, k, Added(u, k, a), S, D)
    BY <1>3, <1>4, <2>1, EndingIs, AddIs
  <2> QED BY <2>2 DEF IsPut, a
<1> HIDE DEF merged
<1>6. CellsOK(dropped, S, D)
  <2>1. IsPut(Drop(merged, k, Passing), merged, k, Dropped(merged, k, Passing), S, D)
    BY <1>4, <1>5, EndingIs, DropIs
  <2> QED BY <2>1 DEF IsPut
<1>7. PushPosixTempvar(c, e, special) = Dispose(d, e)
  BY DEF PushPosixTempvar, attrs, k, u, merged
<1> HIDE DEF dropped
<1>8. CellsOK(d, S, D)
  BY <1>2, <1>5, <1>6 DEF Ending
<1> HIDE DEF d
<1> QED BY <1>7, <1>8, DisposeOK

LEMMA PushPosixTempVarOK ==
  ASSUME NEW D \in Nat, NEW S, NEW c, NEW e, Ending(c, S, D, e)
  PROVE  CellsOK(PushPosixTempVar(c, e), S, D)
<1> DEFINE k == Bound(c)
           u == BindVariable(c, e.value)
           local == "local" \in At(u, k).attrs
           global == At(u, k).context = 0
           attrs == IF global THEN e.attrs \ Passing ELSE e.attrs
           merged == Add(u, k, attrs)
           prop == {"propagate"}
           d == IF ~global /\ ~local THEN Add(merged, k, prop) ELSE Drop(merged, k, prop)
<1>1. attrs \in SUBSET Attributes /\ prop \in SUBSET Attributes
  BY EndingIs DEF Attributes
<1>2. PushPosixTempVar(c, e) = Dispose(d, e)
  BY DEF PushPosixTempVar
<1>3. CellsOK(u, S, D) /\ k \in 1..Len(S) /\ u.tab[k] # <<>>
  BY EndingIs, BindVariableOK
<1> HIDE DEF u, k, local, global, attrs, prop
<1>4. k \in 0..Len(S)
  BY <1>3
<1>5. CellsOK(merged, S, D) /\ merged.tab[k] # <<>>
  <2>1. IsPut(Add(u, k, attrs), u, k, Added(u, k, attrs), S, D)
    BY <1>1, <1>3, <1>4, EndingIs, AddIs
  <2> QED BY <2>1 DEF IsPut
<1> HIDE DEF merged
<1>6. CellsOK(Drop(merged, k, prop), S, D)
  <2>1. IsPut(Drop(merged, k, prop), merged, k, Dropped(merged, k, prop), S, D)
    BY <1>4, <1>5, EndingIs, DropIs
  <2> QED BY <2>1 DEF IsPut
<1>7. CellsOK(Add(merged, k, prop), S, D)
  BY <1>1, <1>4, <1>5, EndingIs, AddAny
<1>8. CellsOK(d, S, D)
  BY <1>6, <1>7
<1> HIDE DEF d
<1> QED BY <1>2, <1>8, DisposeOK

-----------------------------------------------------------------------------
(* A context comes and goes. *)

CellSet(S, D) == {c \in [tab : [0..Len(S) -> Seq(Var(D))], needs : BOOLEAN] : CellsOK(c, S, D)}

LEMMA InCellSet ==
  ASSUME NEW D, NEW S, NEW c
  PROVE  c \in CellSet(S, D) <=> CellsOK(c, S, D)
<1>1. ASSUME CellsOK(c, S, D) PROVE c \in [tab : [0..Len(S) -> Seq(Var(D))], needs : BOOLEAN]
  BY <1>1 DEF CellsOK, TabOK
<1> QED BY <1>1 DEF CellSet

(* R is what is left of S. *)
Left(R, S, D) ==
  /\ R \in Seq(Scopes(D)) /\ Len(R) >= 1 /\ R[1].scope = 0
  /\ scopes[Len(R)].scope = R[Len(R)].scope
  /\ S \in Seq(Scopes(D)) /\ Len(S) = Len(R) + 1
  /\ \A k \in 1..Len(R) : R[k] = S[k]

LeftOf(c) == [c EXCEPT !.tab = [k \in 0..Top(c) - 1 |-> c.tab[k]]]

LEMMA LeftOfOK ==
  ASSUME NEW D \in Nat, NEW R, NEW S, Left(R, S, D), NEW c, CellsOK(c, S, D)
  PROVE  /\ LeftOf(c) \in CellSet(R, D) /\ c.tab[Top(c)] \in Seq(Var(D))
         /\ LeftOf(c).needs = c.needs /\ Top(c) = Len(R) + 1
         /\ \A k \in 0..Len(R) : LeftOf(c).tab[k] = c.tab[k]
<1> DEFINE n == Len(R)
           tab == [k \in 0..n |-> c.tab[k]]
<1>1. /\ R \in Seq(Scopes(D)) /\ S \in Seq(Scopes(D)) /\ Len(S) = n + 1
      /\ \A k \in 1..n : R[k] = S[k]
  BY DEF Left
<1>2. Top(c) = Len(S) /\ n \in Nat
  BY <1>1, Lookup, LenProperties
<1>3. /\ c = [tab |-> c.tab, needs |-> c.needs] /\ c.needs \in BOOLEAN
      /\ c.tab \in [0..n + 1 -> Seq(Var(D))] /\ Len(c.tab[0]) <= 1
  BY <1>1 DEF CellsOK, TabOK
<1>4. \A k \in 1..n + 1 : \A i \in 1..Len(c.tab[k]) : c.tab[k][i].context = S[k].scope
  BY <1>1 DEF CellsOK, TabOK
<1> HIDE DEF n
<1>5. tab \in [0..n -> Seq(Var(D))] /\ Len(tab[0]) <= 1 /\ \A k \in 0..n : tab[k] = c.tab[k]
  BY <1>2, <1>3
<1>6. \A k \in 1..n : k \in 0..n /\ k \in 1..n + 1
  BY <1>2
<1>7. Top(c) - 1 = n
  BY <1>1, <1>2
<1>a. LeftOf(c) = [c EXCEPT !.tab = tab]
  BY <1>7 DEF LeftOf
<1> HIDE DEF tab
<1>8. LeftOf(c) = [tab |-> tab, needs |-> c.needs]
  BY <1>3, <1>a
<1>9. \A k \in 1..n : \A i \in 1..Len(tab[k]) : tab[k][i].context = R[k].scope
  BY <1>1, <1>4, <1>5, <1>6
<1>10. TabOK(tab, R, D)
  BY <1>5, <1>9 DEF TabOK, n
<1>11. CellsOK(LeftOf(c), R, D)
  BY <1>3, <1>8, <1>10 DEF CellsOK
<1>12. n + 1 \in 0..n + 1
  BY <1>2
<1>13. c.tab[Top(c)] \in Seq(Var(D))
  BY <1>1, <1>2, <1>3, <1>12
<1> QED BY <1>1, <1>2, <1>5, <1>8, <1>11, <1>13, InCellSet DEF n

LEMMA LeftEnding ==
  ASSUME NEW D \in Nat, NEW R, NEW S, Left(R, S, D), NEW gone \in Seq(Var(D)),
         NEW c \in CellSet(R, D), NEW i \in 1..Len(gone)
  PROVE  Ending(c, R, D, gone[i])
BY InCellSet, ElementOfSeq DEF Ending, Left

LEMMA PopScopeOK ==
  ASSUME NEW D \in Nat, NEW R, NEW S, Left(R, S, D), NEW c, CellsOK(c, S, D), NEW keep
  PROVE  CellsOK(PopScope(c, keep), R, D)
<1> DEFINE X == CellSet(R, D)
           base == LeftOf(c)
           gone == c.tab[Top(c)]
           posix == Ended(base, gone, LAMBDA d, e : PushPosixTempvar(d, e, TRUE))
           plain == Ended(base, gone, PushExportedVar)
<1>1. PopScope(c, keep) = IF keep THEN posix ELSE plain
  BY DEF PopScope, Popped, LeftOf
<1>2. base \in X /\ gone \in Seq(Var(D))
  BY LeftOfOK
<1> HIDE DEF gone, base
<1>3. \A d \in X : \A i \in 1..Len(gone) : Ending(d, R, D, gone[i])
  BY <1>2, LeftEnding
<1>4. \A d \in X : \A i \in 1..Len(gone) : PushPosixTempvar(d, gone[i], TRUE) \in X
  <2>1. \A d \in X : \A i \in 1..Len(gone) : CellsOK(PushPosixTempvar(d, gone[i], TRUE), R, D)
    BY <1>3, PushPosixTempvarOK
  <2> QED BY <2>1, InCellSet
<1>5. \A d \in X : \A i \in 1..Len(gone) : PushExportedVar(d, gone[i]) \in X
  <2>1. \A d \in X : \A i \in 1..Len(gone) : CellsOK(PushExportedVar(d, gone[i]), R, D)
    BY <1>3, PushExportedVarOK
  <2> QED BY <2>1, InCellSet
<1> HIDE DEF X
<1>6. posix \in X
  <2>1. EndsAs(posix, base, Len(gone), [x \in X |-> [i \in 1..Len(gone) |-> PushPosixTempvar(x, gone[i], TRUE)]], X)
    BY <1>2, <1>4, EndPosixScope
  <2> QED BY <2>1, EndsIn
<1>7. plain \in X
  <2>1. EndsAs(plain, base, Len(gone), [x \in X |-> [i \in 1..Len(gone) |-> PushExportedVar(x, gone[i])]], X)
    BY <1>2, <1>5, EndScope
  <2> QED BY <2>1, EndsIn
<1> QED BY <1>1, <1>6, <1>7, InCellSet DEF X

LEMMA PopVarContextOK ==
  ASSUME NEW D \in Nat, NEW R, NEW S, Left(R, S, D), NEW c, CellsOK(c, S, D)
  PROVE  CellsOK(PopVarContext(c), R, D)
<1> DEFINE X == CellSet(R, D)
           base == LeftOf(c)
           gone == c.tab[Top(c)]
           all == Ended(base, gone, LAMBDA d, e : PushPosixTempvar(d, e, FALSE))
<1>1. PopVarContext(c) = all
  BY DEF PopVarContext, Popped, LeftOf
<1>2. base \in X /\ gone \in Seq(Var(D))
  BY LeftOfOK
<1> HIDE DEF gone, base
<1>3. \A d \in X : \A i \in 1..Len(gone) : Ending(d, R, D, gone[i])
  BY <1>2, LeftEnding
<1>4. \A d \in X : \A i \in 1..Len(gone) : PushPosixTempvar(d, gone[i], FALSE) \in X
  <2>1. \A d \in X : \A i \in 1..Len(gone) : CellsOK(PushPosixTempvar(d, gone[i], FALSE), R, D)
    BY <1>3, PushPosixTempvarOK
  <2> QED BY <2>1, InCellSet
<1> HIDE DEF X
<1>5. all \in X
  <2>1. EndsAs(all, base, Len(gone), [x \in X |-> [i \in 1..Len(gone) |-> PushPosixTempvar(x, gone[i], FALSE)]], X)
    BY <1>2, <1>4, EndFunction
  <2> QED BY <2>1, EndsIn
<1> QED BY <1>1, <1>5, InCellSet DEF X

(* S is the chain, or what is left of it. *)
Near(S, D) ==
  S \in Seq(Scopes(D)) /\ Len(S) >= 1 /\ S[1].scope = 0 /\ scopes[Len(S)].scope = S[Len(S)].scope

(* The temporary environment ends. *)
LEMMA EmptiedOK ==
  ASSUME NEW D \in Nat, NEW S, Near(S, D), NEW c, CellsOK(c, S, D)
  PROVE  /\ [c EXCEPT !.tab[0] = <<>>] \in CellSet(S, D) /\ c.tab[0] \in Seq(Var(D))
         /\ \A d \in CellSet(S, D) : \A i \in 1..Len(c.tab[0]) : Ending(d, S, D, c.tab[0][i])
<1> DEFINE E == <<>>
<1>1. S \in Seq(Scopes(D)) /\ Len(S) \in Nat /\ Len(S) >= 1 /\ 0 \in 0..Len(S)
  BY LenProperties DEF Near
<1>2. S[1].scope = 0 /\ scopes[Len(S)].scope = S[Len(S)].scope
  BY DEF Near
<1>3. c = [tab |-> c.tab, needs |-> c.needs] /\ c.needs \in BOOLEAN /\ c.tab[0] \in Seq(Var(D))
  BY <1>1 DEF CellsOK, TabOK
<1>4. E \in Seq(Var(D)) /\ Len(E) = 0
  OBVIOUS
<1> HIDE DEF E
<1>5. Cell(E, 0, S, D)
  BY <1>4 DEF Cell
<1>6. [c EXCEPT !.tab[0] = E] = Changed(c, 0, E, c.needs)
  BY <1>3 DEF Changed
<1>7. CellsOK(Changed(c, 0, E, c.needs), S, D)
  BY <1>1, <1>3, <1>5, ChangedOK
<1>8. [c EXCEPT !.tab[0] = E] \in CellSet(S, D)
  BY <1>6, <1>7, InCellSet
<1>9. \A i \in 1..Len(c.tab[0]) : c.tab[0][i] \in Var(D)
  BY <1>3, ElementOfSeq
<1>10. \A d \in CellSet(S, D) : \A i \in 1..Len(c.tab[0]) : Ending(d, S, D, c.tab[0][i])
  BY <1>1, <1>2, <1>9, InCellSet DEF Ending
<1> QED BY <1>3, <1>8, <1>10 DEF E

LEMMA DisposeTempenvOK ==
  ASSUME NEW D \in Nat, NEW S, Near(S, D), NEW c, CellsOK(c, S, D)
  PROVE  /\ CellsOK(DisposeTemporaryEnv(c, PropagateTempVar), S, D)
         /\ CellsOK(DisposeTemporaryEnv(c, PushPosixTempVar), S, D)
         /\ DisposeTemporaryEnv(c, PropagateTempVar).needs = TRUE
         /\ DisposeTemporaryEnv(c, PushPosixTempVar).needs = TRUE
<1> DEFINE X == CellSet(S, D)
           base == [c EXCEPT !.tab[0] = <<>>]
           gone == c.tab[0]
           one == Ended(base, gone, PropagateTempVar)
           two == Ended(base, gone, PushPosixTempVar)
<1>1. /\ DisposeTemporaryEnv(c, PropagateTempVar) = [one EXCEPT !.needs = TRUE]
      /\ DisposeTemporaryEnv(c, PushPosixTempVar) = [two EXCEPT !.needs = TRUE]
  BY DEF DisposeTemporaryEnv
<1>2. base \in X /\ gone \in Seq(Var(D))
  BY EmptiedOK
<1>3. \A d \in X : \A i \in 1..Len(gone) : Ending(d, S, D, gone[i])
  BY EmptiedOK
<1> HIDE DEF gone, base
<1>4. \A d \in X : \A i \in 1..Len(gone) : PropagateTempVar(d, gone[i]) \in X
  <2>1. \A d \in X : \A i \in 1..Len(gone) : CellsOK(PropagateTempVar(d, gone[i]), S, D)
    BY <1>3, PropagateTempVarOK
  <2> QED BY <2>1, InCellSet
<1>5. \A d \in X : \A i \in 1..Len(gone) : PushPosixTempVar(d, gone[i]) \in X
  <2>1. \A d \in X : \A i \in 1..Len(gone) : CellsOK(PushPosixTempVar(d, gone[i]), S, D)
    BY <1>3, PushPosixTempVarOK
  <2> QED BY <2>1, InCellSet
<1> HIDE DEF X
<1>6. one \in X
  <2>1. EndsAs(one, base, Len(gone), [x \in X |-> [i \in 1..Len(gone) |-> PropagateTempVar(x, gone[i])]], X)
    BY <1>2, <1>4, EndTempenv
  <2> QED BY <2>1, EndsIn
<1>7. two \in X
  <2>1. EndsAs(two, base, Len(gone), [x \in X |-> [i \in 1..Len(gone) |-> PushPosixTempVar(x, gone[i])]], X)
    BY <1>2, <1>5, EndPosixTempenv
  <2> QED BY <2>1, EndsIn
<1> HIDE DEF one, two
<1>8. CellsOK(one, S, D) /\ CellsOK(two, S, D)
  BY <1>6, <1>7, InCellSet DEF X
<1>9. /\ CellsOK([one EXCEPT !.needs = TRUE], S, D) /\ [one EXCEPT !.needs = TRUE].needs = TRUE
      /\ CellsOK([two EXCEPT !.needs = TRUE], S, D) /\ [two EXCEPT !.needs = TRUE].needs = TRUE
  <2>1. TRUE \in BOOLEAN
    OBVIOUS
  <2> QED BY <1>8, <2>1, FlagOK
<1> QED BY <1>1, <1>9

LEMMA PushedOK ==
  ASSUME NEW D \in Nat, NEW S \in Seq(Scopes(D)), NEW c, CellsOK(c, S, D), NEW e \in Scopes(D)
  PROVE  /\ CellsOK(Pushed(c, e.scope), Append(S, e), D) /\ Pushed(c, e.scope).needs = c.needs
         /\ Pushed(c, e.scope).tab[0] = <<>>
         /\ \A k \in 1..Len(S) : Pushed(c, e.scope).tab[k] = c.tab[k]
         /\ Pushed(c, e.scope).tab[Len(S) + 1] =
              [i \in DOMAIN c.tab[0] |-> [c.tab[0][i] EXCEPT !.context = e.scope]]
<1> DEFINE n == Len(S)
           T == Append(S, e)
           q == [i \in DOMAIN c.tab[0] |-> [c.tab[0][i] EXCEPT !.context = e.scope]]
           E == <<>>
           tab == [k \in 0..n + 1 |-> IF k = 0 THEN E ELSE IF k <= n THEN c.tab[k] ELSE q]
<1>1. Top(c) = n /\ n \in Nat
  BY Lookup, LenProperties
<1>2. c = [tab |-> c.tab, needs |-> c.needs] /\ c.needs \in BOOLEAN /\ c.tab \in [0..n -> Seq(Var(D))]
  BY DEF CellsOK, TabOK
<1>3. \A k \in 1..n : \A i \in 1..Len(c.tab[k]) : c.tab[k][i].context = S[k].scope
  BY DEF CellsOK, TabOK
<1>a. Pushed(c, e.scope) = [c EXCEPT !.tab = tab]
  BY <1>1 DEF Pushed
<1>4. Pushed(c, e.scope) = [tab |-> tab, needs |-> c.needs]
  <2> HIDE DEF tab
  <2> QED BY <1>2, <1>a
<1>5. c.tab[0] \in Seq(Var(D))
  BY <1>1, <1>2
<1>6. q \in Seq(Var(D)) /\ \A i \in 1..Len(q) : q[i].context = e.scope
  <2> DEFINE g == c.tab[0]
  <2>1. g \in Seq(Var(D)) /\ DOMAIN g = 1..Len(g) /\ Len(g) \in Nat
    BY <1>5, LenProperties
  <2>2. \A i \in 1..Len(g) : g[i] \in Var(D)
    BY <2>1, ElementOfSeq
  <2>3. q = [i \in 1..Len(g) |-> [g[i] EXCEPT !.context = e.scope]]
    BY <2>1
  <2>4. e.scope \in 0..D
    BY DEF Scopes
  <2> HIDE DEF g, q
  <2>5. \A i \in 1..Len(g) : [g[i] EXCEPT !.context = e.scope] \in Var(D)
                             /\ [g[i] EXCEPT !.context = e.scope].context = e.scope
    BY <2>2, <2>4 DEF Var
  <2>6. q \in [1..Len(g) -> Var(D)] /\ \A i \in 1..Len(g) : q[i].context = e.scope
    BY <2>3, <2>5
  <2>7. q \in Seq(Var(D)) /\ Len(q) = Len(g)
    BY <2>1, <2>6
  <2> QED BY <2>6, <2>7
<1>7. /\ Len(T) = n + 1 /\ T[n + 1] = e
      /\ \A k \in 1..n : T[k] = S[k]
  BY AppendProperties
<1>8. E \in Seq(Var(D)) /\ Len(E) = 0
  OBVIOUS
<1> HIDE DEF n, T, q, E
<1>9. /\ tab \in [0..n + 1 -> Seq(Var(D))] /\ tab[0] = E /\ tab[n + 1] = q
      /\ \A k \in 1..n : tab[k] = c.tab[k]
  BY <1>1, <1>2, <1>6, <1>8
<1> HIDE DEF tab
<1>10. \A k \in 1..n + 1 : k \in 1..n \/ k = n + 1
  BY <1>1
<1>11. \A k \in 1..n + 1 : \A i \in 1..Len(tab[k]) : tab[k][i].context = T[k].scope
  BY <1>3, <1>6, <1>7, <1>9, <1>10
<1>12. TabOK(tab, T, D)
  BY <1>7, <1>8, <1>9, <1>11 DEF TabOK
<1>13. CellsOK(Pushed(c, e.scope), T, D) /\ Pushed(c, e.scope).tab = tab /\ Pushed(c, e.scope).needs = c.needs
  BY <1>2, <1>4, <1>12 DEF CellsOK
<1> QED BY <1>9, <1>13 DEF n, T, q, E

-----------------------------------------------------------------------------
(* The environment array. *)

LEMMA LeastOf ==
  ASSUME NEW S \in SUBSET Nat, S # {}
  PROVE  \E i \in S : \A j \in S : i <= j
<1> DEFINE Less == OpToRel(<, Nat)
<1>1. IsWellFoundedOn(Less, Nat)
  BY NatLessThanWellFounded
<1>2. \A x, y \in Nat : <<y, x>> \in Less <=> y < x
  BY DEF OpToRel
<1> HIDE DEF Less
<1>3. PICK x \in S : \A y \in S : ~(<<y, x>> \in Less)
  BY <1>1, WFMin
<1>4. \A j \in S : ~(j < x)
  BY <1>2, <1>3
<1> QED BY <1>3, <1>4

Carries(q) == \E i \in DOMAIN q : Candidate(q[i])

(* The variable whose string is given to children *)
IsChosen(p, c) ==
  \/ p = <<>> /\ \A k \in DOMAIN c.tab : ~Carries(c.tab[k])
  \/ \E k \in DOMAIN c.tab : \E i \in DOMAIN c.tab[k] :
       /\ p = <<k, i>> /\ Candidate(c.tab[k][i])
       /\ k # 0 => /\ ~Carries(c.tab[0])
                   /\ \A j \in DOMAIN c.tab : Carries(c.tab[j]) => j <= k

LEMMA ChosenIs ==
  ASSUME NEW D \in Nat, NEW S \in Seq(Scopes(D)), NEW c, CellsOK(c, S, D)
  PROVE  IsChosen(Chosen(c), c)
<1> DEFINE K == {k \in DOMAIN c.tab : \E i \in DOMAIN c.tab[k] : Candidate(c.tab[k][i])}
           k == IF 0 \in K THEN 0 ELSE Highest(K)
           First(i) == Candidate(c.tab[k][i]) /\ \A j \in 1..i - 1 : ~Candidate(c.tab[k][j])
           i == CHOOSE m \in DOMAIN c.tab[k] : First(m)
<1>1. DOMAIN c.tab = 0..Len(S) /\ Len(S) \in Nat /\ c.tab \in [0..Len(S) -> Seq(Var(D))]
  BY LenProperties DEF CellsOK, TabOK
<1>2. K \in SUBSET Nat /\ \A j \in K : j <= Len(S)
  BY <1>1
<1>3. \A j \in DOMAIN c.tab : j \in K <=> Carries(c.tab[j])
  BY DEF Carries
<1>4. Chosen(c) = IF K = {} THEN <<>> ELSE <<k, i>>
  BY DEF Chosen
<1>5. CASE K = {}
  <2>1. \A j \in DOMAIN c.tab : ~Carries(c.tab[j])
    BY <1>3, <1>5
  <2> QED BY <1>4, <1>5, <2>1 DEF IsChosen
<1>6. CASE K # {}
  <2>1. Highest(K) \in K /\ \A j \in K : j <= Highest(K)
    BY <1>1, <1>2, <1>6, HighestIn
  <2>2. k \in K /\ k \in DOMAIN c.tab /\ (k # 0 => 0 \notin K /\ \A j \in K : j <= k)
    BY <2>1
  <2>3. Carries(c.tab[k])
    BY <1>3, <2>2
  <2> HIDE DEF K, k
  <2>4. \E m \in DOMAIN c.tab[k] : First(m)
    <3> DEFINE q == c.tab[k]
               C == {m \in DOMAIN q : Candidate(q[m])}
    <3>1. q \in Seq(Var(D)) /\ DOMAIN q = 1..Len(q) /\ Len(q) \in Nat
      BY <1>1, <2>2, LenProperties
    <3>2. C # {} /\ C \in SUBSET Nat
      BY <2>3, <3>1 DEF Carries
    <3>3. PICK m \in C : \A j \in C : m <= j
      BY <3>2, LeastOf
    <3>4. \A j \in 1..m - 1 : j \in DOMAIN q /\ ~(m <= j)
      BY <3>1, <3>3
    <3>5. \A j \in 1..m - 1 : ~Candidate(q[j])
      BY <3>3, <3>4
    <3> QED BY <3>3, <3>5
  <2>5. i \in DOMAIN c.tab[k] /\ Candidate(c.tab[k][i])
    BY <2>4
  <2> HIDE DEF i
  <2>6. 0 \in DOMAIN c.tab
    BY <1>1
  <2>7. k # 0 => ~Carries(c.tab[0]) /\ \A j \in DOMAIN c.tab : Carries(c.tab[j]) => j <= k
    BY <1>3, <2>2, <2>6
  <2>8. Chosen(c) = <<k, i>>
    BY <1>4, <1>6
  <2> QED BY <2>2, <2>5, <2>7, <2>8 DEF IsChosen
<1> QED BY <1>5, <1>6

WithStr(var, str) == [var EXCEPT !.str = str]

LEMMA EnvOfOK ==
  ASSUME NEW D \in Nat, NEW S \in Seq(Scopes(D)), NEW c, CellsOK(c, S, D)
  PROVE  EnvOf(c) \in Vals /\ CellsOK(Saved(c), S, D)
<1> DEFINE p == Chosen(c)
           E == <<>>
<1>1. IsChosen(p, c)
  BY ChosenIs
<1>2. DOMAIN c.tab = 0..Len(S) /\ Len(S) \in Nat /\ c = [tab |-> c.tab, needs |-> c.needs] /\ c.needs \in BOOLEAN
  BY LenProperties DEF CellsOK, TabOK
<1>3. /\ EnvOf(c) = IF p = E THEN None ELSE EnvString(c.tab[p[1]][p[2]])
      /\ Saved(c) = IF p = E THEN c ELSE [c EXCEPT !.tab[p[1]][p[2]].str = EnvOf(c)]
  BY DEF EnvOf, Saved
<1>4. None \in Vals
  BY DEF Vals
<1> HIDE DEF p
<1>5. CASE p = E
  BY <1>3, <1>4, <1>5
<1>6. CASE p # E
  <2>1. PICK k \in DOMAIN c.tab : \E i \in DOMAIN c.tab[k] : p = <<k, i>>
    BY <1>1, <1>6 DEF IsChosen
  <2>2. PICK i \in DOMAIN c.tab[k] : p = <<k, i>>
    BY <2>1
  <2>3. p[1] = k /\ p[2] = i
    BY <2>2
  <2> DEFINE q == c.tab[k]
             s == EnvOf(c)
             e == WithStr(q[i], s)
             r == [q EXCEPT ![i] = e]
  <2>4. k \in 0..Len(S)
    BY <1>2
  <2>5. q \in Seq(Var(D)) /\ Cell(q, k, S, D) /\ DOMAIN q = 1..Len(q) /\ Len(q) \in Nat
        /\ i \in 1..Len(q)
    BY <2>4, CellOf, LenProperties DEF Cell
  <2>6. Fits(q[i], k, S, D)
    BY <2>5 DEF Cell
  <2>7. s = EnvString(q[i])
    BY <1>3, <1>6, <2>3
  <2>8. [c EXCEPT !.tab[k][i].str = s] = Changed(c, k, r, c.needs)
    <3>1. [c EXCEPT !.tab[k][i].str = s] = [c EXCEPT !.tab = [@ EXCEPT ![k] = r]]
      BY <1>2 DEF WithStr
    <3> HIDE DEF r
    <3> QED BY <1>2, <3>1 DEF Changed
  <2> HIDE DEF q, s
  <2>9. s \in Vals
    BY <2>6, <2>7 DEF EnvString, Fits, Var
  <2>10. Fits(e, k, S, D)
    BY <2>6, <2>9 DEF Fits, Var, WithStr
  <2> HIDE DEF e
  <2>11. r \in Seq(Var(D)) /\ Len(r) = Len(q) /\ \A j \in 1..Len(q) : r[j] = IF j = i THEN e ELSE q[j]
    <3>1. e \in Var(D)
      BY <2>10 DEF Fits
    <3> QED BY <2>5, <3>1
  <2> HIDE DEF r
  <2>12. Cell(r, k, S, D)
    BY <2>5, <2>10, <2>11 DEF Cell
  <2>13. CellsOK(Changed(c, k, r, c.needs), S, D)
    BY <1>2, <2>4, <2>12, ChangedOK
  <2>14. Saved(c) = Changed(c, k, r, c.needs)
    BY <1>3, <1>6, <2>3, <2>8 DEF s
  <2> QED BY <2>9, <2>13, <2>14 DEF s
<1> QED BY <1>5, <1>6

-----------------------------------------------------------------------------
(* The shell.  Inv1 is the inductive invariant of the first part. *)

TablesOK ==
  /\ needs \in BOOLEAN
  /\ tables = [n \in Names |-> tables[n]]
  /\ \A n \in Names : TabOK(tables[n], scopes, mode.depth)

Inv1 ==
  /\ mode \in Modes /\ at \in {"ready", "prefix", "child"}
  /\ ChainOK(scopes, mode.depth)
  /\ TablesOK
  /\ env \in [Names -> Vals] /\ passed \subseteq Names

ColsOK(cols, S, D) == \A n \in Names : CellsOK(cols[n], S, D)

LEMMA ModeIs ==
  ASSUME mode \in Modes
  PROVE  mode.depth \in Nat \ {0} /\ mode.names \subseteq Names
BY VariablesAssumption

LEMMA ColumnsOK ==
  ASSUME TablesOK
  PROVE  \A n \in Names : CellsOK(InUse(n), scopes, mode.depth)
BY DEF TablesOK, CellsOK, InUse

LEMMA WithOK ==
  ASSUME TablesOK, NEW n \in Names, NEW c, CellsOK(c, scopes, mode.depth)
  PROVE  \A m \in Names : /\ CellsOK(With(n, c)[m], scopes, mode.depth)
                          /\ With(n, c)[m] = IF m = n THEN c ELSE InUse(m)
<1>1. \A m \in Names : With(n, c)[m] = IF m = n THEN c ELSE InUse(m)
  BY DEF With, Columns
<1>2. \A m \in Names : CellsOK(InUse(m), scopes, mode.depth)
  BY ColumnsOK
<1> QED BY <1>1, <1>2

LEMMA BecomeOK ==
  ASSUME NEW cols, Become(cols), ColsOK(cols, scopes', mode'.depth)
  PROVE  TablesOK'
<1>1. /\ tables' = [n \in Names |-> cols[n].tab]
      /\ needs' \in BOOLEAN
  BY DEF Become
<1>2. \A n \in Names : tables'[n] = cols[n].tab
  BY <1>1
<1>3. \A n \in Names : TabOK(cols[n].tab, scopes', mode'.depth)
  BY DEF ColsOK, CellsOK
<1>4. \A n \in Names : TabOK(tables'[n], scopes', mode'.depth)
  BY <1>2, <1>3
<1>5. tables' = [n \in Names |-> tables'[n]]
  BY <1>1
<1> QED BY <1>1, <1>4, <1>5 DEF TablesOK

LEMMA MaybeMakeOK ==
  ASSUME NEW cols, MaybeMakeExportEnv(cols), ColsOK(cols, scopes', mode'.depth),
         mode'.depth \in Nat, scopes' \in Seq(Scopes(mode'.depth)), env \in [Names -> Vals]
  PROVE  TablesOK' /\ env' \in [Names -> Vals]
<1> DEFINE due == \E n \in Names : cols[n].needs
<1>1. /\ tables' = [n \in Names |-> IF due THEN Saved(cols[n]).tab ELSE cols[n].tab]
      /\ env' = IF due THEN [n \in Names |-> EnvOf(cols[n])] ELSE env
      /\ needs' = FALSE
  BY DEF MaybeMakeExportEnv
<1>2. \A n \in Names : CellsOK(cols[n], scopes', mode'.depth) /\ CellsOK(Saved(cols[n]), scopes', mode'.depth)
                       /\ EnvOf(cols[n]) \in Vals
  BY EnvOfOK DEF ColsOK
<1> HIDE DEF due
<1>3. env' \in [Names -> Vals]
  BY <1>1, <1>2
<1>4. \A n \in Names : tables'[n] = IF due THEN Saved(cols[n]).tab ELSE cols[n].tab
  BY <1>1
<1>5. \A n \in Names : TabOK(tables'[n], scopes', mode'.depth)
  BY <1>2, <1>4 DEF CellsOK
<1>6. tables' = [n \in Names |-> tables'[n]]
  BY <1>1
<1> QED BY <1>1, <1>3, <1>5, <1>6 DEF TablesOK

LEMMA EndCommandOK ==
  ASSUME NEW cols, NEW special, EndCommand(cols, special), mode \in Modes, mode' = mode,
         Near(scopes', mode.depth), ColsOK(cols, scopes', mode.depth), env \in [Names -> Vals]
  PROVE  TablesOK' /\ env' \in [Names -> Vals]
<1> DEFINE D == mode.depth
           S == scopes'
           one == [n \in Names |-> DisposeTemporaryEnv(cols[n], PropagateTempVar)]
           two == [n \in Names |-> DisposeTemporaryEnv(cols[n], PushPosixTempVar)]
<1>1. D \in Nat /\ S \in Seq(Scopes(D)) /\ mode' = mode
  BY ModeIs DEF Near
<1>2. \/ at = "ready" /\ Become(cols) /\ UNCHANGED env
      \/ Become(two) /\ UNCHANGED env
      \/ MaybeMakeExportEnv(one)
  BY DEF EndCommand
<1>3. \A n \in Names : /\ CellsOK(DisposeTemporaryEnv(cols[n], PropagateTempVar), S, D)
                       /\ CellsOK(DisposeTemporaryEnv(cols[n], PushPosixTempVar), S, D)
  BY <1>1, DisposeTempenvOK DEF ColsOK
<1>4. ColsOK(one, S, D) /\ ColsOK(two, S, D)
  BY <1>3 DEF ColsOK
<1> HIDE DEF one, two
<1>5. CASE Become(cols) /\ UNCHANGED env
  BY <1>1, <1>5, BecomeOK
<1>6. CASE Become(two) /\ UNCHANGED env
  BY <1>1, <1>4, <1>6, BecomeOK
<1>7. CASE MaybeMakeExportEnv(one)
  BY <1>1, <1>4, <1>7, MaybeMakeOK
<1> QED BY <1>2, <1>5, <1>6, <1>7

(* The chains that a call, an eval, and an end of one make *)
LEMMA ChainGrows ==
  ASSUME mode \in Modes, ChainOK(scopes, mode.depth), NEW e \in Scopes(mode.depth),
         e.scope = IF e.kind = "func" THEN Context + 1 ELSE Context
  PROVE  /\ Append(scopes, e) \in Seq(Scopes(mode.depth))
         /\ Left(scopes, Append(scopes, e), mode.depth)
         /\ Len(scopes) < mode.depth => ChainOK(Append(scopes, e), mode.depth)
<1> DEFINE D == mode.depth
           S == scopes
           T == Append(scopes, e)
<1>1. D \in Nat /\ S \in Seq(Scopes(D)) /\ Len(S) \in Nat /\ Len(S) >= 1
  BY ModeIs, LenProperties DEF ChainOK
<1>2. S[1].scope = 0
  BY <1>1, FuncContextIn
<1>3. T \in Seq(Scopes(D)) /\ Len(T) = Len(S) + 1 /\ \A k \in 1..Len(S) : T[k] = S[k]
  BY <1>1, AppendProperties
<1> HIDE DEF T
<1>4. Left(S, T, D)
  BY <1>1, <1>2, <1>3 DEF Left
<1> HIDE DEF D
<1>5. Len(S) < D => ChainOK(T, D)
  BY <1>1, ChainAppend DEF Context, T, D
<1> QED BY <1>3, <1>4, <1>5 DEF T, D

LEMMA ChainEnds ==
  ASSUME mode \in Modes, ChainOK(scopes, mode.depth), Last(scopes).kind # "global"
  PROVE  /\ ChainOK(Front(scopes), mode.depth)
         /\ Left(Front(scopes), scopes, mode.depth) /\ Near(Front(scopes), mode.depth)
<1> DEFINE D == mode.depth
           S == scopes
           R == Front(scopes)
<1>1. D \in Nat /\ S \in Seq(Scopes(D)) /\ Len(S) \in Nat
  BY ModeIs, LenProperties DEF ChainOK
<1>2. S[1].scope = 0
  BY <1>1, FuncContextIn
<1>3. ChainOK(R, D) /\ Len(R) = Len(S) - 1 /\ Len(S) >= 2 /\ \A k \in 1..Len(S) - 1 : R[k] = S[k]
  BY <1>1, ChainFront DEF Last
<1> HIDE DEF R, D
<1>4. R \in Seq(Scopes(D)) /\ Len(R) >= 1 /\ Len(S) = Len(R) + 1 /\ Len(S) - 1 = Len(R)
  BY <1>1, <1>3 DEF ChainOK
<1>5. \A k \in 1..Len(R) : R[k] = S[k]
  BY <1>3, <1>4
<1>6. 1 \in 1..Len(R) /\ Len(R) \in 1..Len(R)
  BY <1>1, <1>4
<1>7. R[1].scope = 0 /\ S[Len(R)].scope = R[Len(R)].scope
  BY <1>2, <1>5, <1>6
<1>8. Left(R, S, D)
  BY <1>1, <1>4, <1>5, <1>7 DEF Left, D
<1>9. Near(R, D)
  BY <1>4, <1>7 DEF Near
<1> QED BY <1>3, <1>8, <1>9 DEF R, D

LEMMA ChainNear ==
  ASSUME mode \in Modes, ChainOK(scopes, mode.depth)
  PROVE  Near(scopes, mode.depth)
<1>1. mode.depth \in Nat
  BY ModeIs
<1> QED BY <1>1, FuncContextIn DEF Near, ChainOK

-----------------------------------------------------------------------------
(* The commands keep Inv1. *)

LEMMA Inv1Is ==
  ASSUME Inv1
  PROVE  /\ mode \in Modes /\ mode.depth \in Nat \ {0} /\ mode.names \subseteq Names
         /\ ChainOK(scopes, mode.depth) /\ scopes \in Seq(Scopes(mode.depth)) /\ Len(scopes) >= 1
         /\ scopes[1].scope = 0 /\ Context \in 0..mode.depth
         /\ TablesOK /\ (\A n \in Names : CellsOK(InUse(n), scopes, mode.depth))
<1>1. mode \in Modes /\ ChainOK(scopes, mode.depth) /\ TablesOK
  BY DEF Inv1
<1>2. mode.depth \in Nat \ {0} /\ mode.names \subseteq Names
  BY <1>1, ModeIs
<1>3. scopes \in Seq(Scopes(mode.depth)) /\ Len(scopes) >= 1
  BY <1>1, <1>2 DEF ChainOK
<1>4. scopes[1].scope = 0 /\ Context \in 0..mode.depth - 1
  BY <1>1, <1>2, FuncContextIn
<1>5. Context \in 0..mode.depth
  BY <1>2, <1>4
<1>6. \A n \in Names : CellsOK(InUse(n), scopes, mode.depth)
  BY <1>1, ColumnsOK
<1> QED BY <1>1, <1>2, <1>3, <1>4, <1>5, <1>6

(* A command that leaves the chain alone *)
LEMMA Inv1Stays ==
  ASSUME Inv1, TablesOK', UNCHANGED <<mode, scopes>>, at' \in {"ready", "prefix", "child"},
         env' \in [Names -> Vals], passed' \subseteq Names
  PROVE  Inv1'
BY DEF Inv1

LEMMA PrefixKeeps ==
  ASSUME Inv1, NEW n \in mode.names, NEW value \in Values, Prefix(n, value)
  PROVE  Inv1'
<1> DEFINE D == mode.depth
           c == AssignInEnv(InUse(n), value)
<1>1. n \in Names /\ value \in Vals
  BY Inv1Is DEF Vals
<1>2. CellsOK(c, scopes, D)
  <2>1. CellsOK(InUse(n), scopes, D)
    BY <1>1, Inv1Is
  <2> QED BY <1>1, <2>1, Inv1Is, AssignInEnvOK
<1>3. Become(With(n, c)) /\ at' = "prefix" /\ UNCHANGED <<mode, scopes, env, passed>>
  BY DEF Prefix
<1> HIDE DEF c
<1>4. ColsOK(With(n, c), scopes, D)
  BY <1>1, <1>2, Inv1Is, WithOK DEF ColsOK
<1>5. TablesOK'
  BY <1>3, <1>4, BecomeOK
<1> QED BY <1>3, <1>5, Inv1Stays DEF Inv1

LEMMA AssignKeeps ==
  ASSUME Inv1, NEW n \in mode.names, NEW value \in Values, Assign(n, value)
  PROVE  Inv1'
<1> DEFINE D == mode.depth
           c == BindVariable(InUse(n), value)
<1>1. n \in Names /\ value \in Vals
  BY Inv1Is DEF Vals
<1>2. CellsOK(c, scopes, D)
  <2>1. CellsOK(InUse(n), scopes, D)
    BY <1>1, Inv1Is
  <2> QED BY <1>1, <2>1, Inv1Is, BindVariableOK
<1>3. Become(With(n, c)) /\ UNCHANGED <<mode, scopes, env, at, passed>>
  BY DEF Assign
<1> HIDE DEF c
<1>4. ColsOK(With(n, c), scopes, D)
  BY <1>1, <1>2, Inv1Is, WithOK DEF ColsOK
<1>5. TablesOK'
  BY <1>3, <1>4, BecomeOK
<1> QED BY <1>3, <1>5, Inv1Stays DEF Inv1

LEMMA PushedAllOK ==
  ASSUME Inv1, NEW e \in Scopes(mode.depth)
  PROVE  \A n \in Names : CellsOK(Pushed(InUse(n), e.scope), Append(scopes, e), mode.depth)
BY Inv1Is, PushedOK

LEMMA GrowKeeps ==
  ASSUME Inv1, NEW e \in Scopes(mode.depth), e.scope = IF e.kind = "func" THEN Context + 1 ELSE Context,
         Len(scopes) < mode.depth, scopes' = Append(scopes, e),
         Become([n \in Names |-> Pushed(InUse(n), e.scope)]), at' = "ready",
         UNCHANGED <<mode, env, passed>>
  PROVE  Inv1'
<1> DEFINE D == mode.depth
           cols == [n \in Names |-> Pushed(InUse(n), e.scope)]
<1>1. ChainOK(scopes', D)
  BY Inv1Is, ChainGrows
<1>2. ColsOK(cols, scopes', D)
  BY PushedAllOK DEF ColsOK
<1> HIDE DEF cols
<1>3. TablesOK'
  BY <1>2, BecomeOK DEF cols
<1> QED BY <1>1, <1>3 DEF Inv1

LEMMA CallKeeps ==
  ASSUME Inv1, Call
  PROVE  Inv1'
<1> DEFINE e == [kind |-> "func", scope |-> Context + 1, keep |-> FALSE]
<1>1. e \in Scopes(mode.depth) /\ e.scope = (IF e.kind = "func" THEN Context + 1 ELSE Context)
      /\ e.scope = Context + 1
  <2>1. mode.depth \in Nat /\ ChainOK(scopes, mode.depth)
    BY Inv1Is
  <2>2. Context \in 0..mode.depth - 1
    BY <2>1, FuncContextIn
  <2>3. Context + 1 \in 0..mode.depth
    BY <2>1, <2>2
  <2> QED BY <2>3 DEF Scopes, Kinds
<1>2. /\ Len(scopes) < mode.depth /\ scopes' = Append(scopes, e)
      /\ Become([n \in Names |-> Pushed(InUse(n), e.scope)]) /\ at' = "ready"
      /\ UNCHANGED <<mode, env, passed>>
  BY DEF Call
<1> HIDE DEF e
<1> QED BY <1>1, <1>2, GrowKeeps

LEMMA EvalKeeps ==
  ASSUME Inv1, NEW keep \in BOOLEAN, Eval(keep)
  PROVE  Inv1'
<1> DEFINE e == [kind |-> "builtin", scope |-> Context, keep |-> keep]
<1>1. e \in Scopes(mode.depth) /\ e.scope = (IF e.kind = "func" THEN Context + 1 ELSE Context)
      /\ e.scope = Context
  BY Inv1Is DEF Scopes, Kinds
<1>2. /\ Len(scopes) < mode.depth /\ scopes' = Append(scopes, e)
      /\ Become([n \in Names |-> Pushed(InUse(n), e.scope)]) /\ at' = "ready"
      /\ UNCHANGED <<mode, env, passed>>
  BY DEF Eval
<1> HIDE DEF e
<1> QED BY <1>1, <1>2, GrowKeeps

LEMMA EndEvalKeeps ==
  ASSUME Inv1, EndEval
  PROVE  Inv1'
<1> DEFINE D == mode.depth
           R == Front(scopes)
           keep == Last(scopes).keep
           cols == [n \in Names |-> PopScope(InUse(n), keep)]
<1>1. /\ Last(scopes).kind = "builtin" /\ scopes' = R /\ Become(cols)
      /\ UNCHANGED <<mode, env, at, passed>>
  BY DEF EndEval
<1>2. ChainOK(R, D) /\ Left(R, scopes, D) /\ D \in Nat
  BY <1>1, Inv1Is, ChainEnds
<1> HIDE DEF R, keep
<1>3. \A n \in Names : CellsOK(PopScope(InUse(n), keep), R, D)
  BY <1>2, Inv1Is, PopScopeOK
<1>4. ColsOK(cols, R, D)
  BY <1>3 DEF ColsOK
<1> HIDE DEF cols
<1>5. TablesOK'
  BY <1>1, <1>4, BecomeOK
<1> QED BY <1>1, <1>2, <1>5 DEF Inv1

LEMMA HeldIn ==
  ASSUME NEW S, S \subseteq Names
  PROVE  PassOnMerged(S) \/ PassOn(S) => (passed \subseteq Names => passed' \subseteq Names)
BY DEF PassOnMerged, PassOn, Held

LEMMA ReturnKeeps ==
  ASSUME Inv1, Return
  PROVE  Inv1'
<1> DEFINE D == mode.depth
           R == Front(scopes)
           merged == [n \in Names |-> PopVarContext(DisposeTemporaryEnv(InUse(n), PushPosixTempVar))]
           plain == [n \in Names |-> PopVarContext(InUse(n))]
<1>1. /\ Last(scopes).kind = "func" /\ scopes' = R /\ at' = "ready" /\ UNCHANGED mode
      /\ PassOnMerged({})
      /\ \/ Become(merged) /\ UNCHANGED env
         \/ EndCommand(plain, FALSE)
  BY DEF Return
<1>2. ChainOK(R, D) /\ Left(R, scopes, D) /\ Near(R, D) /\ D \in Nat /\ mode \in Modes
      /\ Near(scopes, D)
  BY <1>1, Inv1Is, ChainEnds, ChainNear
<1> HIDE DEF R
<1>3. \A n \in Names : CellsOK(PopVarContext(DisposeTemporaryEnv(InUse(n), PushPosixTempVar)), R, D)
  <2>1. \A n \in Names : CellsOK(DisposeTemporaryEnv(InUse(n), PushPosixTempVar), scopes, D)
    BY <1>2, Inv1Is, DisposeTempenvOK
  <2> QED BY <1>2, <2>1, PopVarContextOK
<1>4. \A n \in Names : CellsOK(PopVarContext(InUse(n)), R, D)
  BY <1>2, Inv1Is, PopVarContextOK
<1>5. passed' \subseteq Names /\ env \in [Names -> Vals]
  BY <1>1, HeldIn DEF Inv1
<1>6. ColsOK(merged, R, D) /\ ColsOK(plain, R, D)
  BY <1>3, <1>4 DEF ColsOK
<1> HIDE DEF merged, plain
<1>7. TablesOK' /\ env' \in [Names -> Vals]
  <2>1. CASE Become(merged) /\ UNCHANGED env
    BY <1>1, <1>5, <1>6, <2>1, BecomeOK
  <2>2. CASE EndCommand(plain, FALSE)
    BY <1>1, <1>2, <1>5, <1>6, <2>2, EndCommandOK
  <2> QED BY <1>1, <2>1, <2>2
<1> QED BY <1>1, <1>2, <1>5, <1>7 DEF Inv1

(* What a command does in a context of its own, made of the temporary      *)
(* environment                                                             *)
LEMMA AroundOK ==
  ASSUME Inv1
  PROVE  \E T \in Seq(Scopes(mode.depth)) :
           /\ Left(scopes, T, mode.depth) /\ Len(T) >= 1 /\ T[1].scope = 0
           /\ \A n \in Names : CellsOK(Pushed(InUse(n), Context), T, mode.depth)
<1> DEFINE D == mode.depth
           e == [kind |-> "builtin", scope |-> Context, keep |-> FALSE]
           T == Append(scopes, e)
<1>1. e \in Scopes(D) /\ e.scope = (IF e.kind = "func" THEN Context + 1 ELSE Context) /\ e.scope = Context
  BY Inv1Is DEF Scopes, Kinds
<1> HIDE DEF e
<1>2. T \in Seq(Scopes(D)) /\ Left(scopes, T, D)
  BY <1>1, Inv1Is, ChainGrows
<1>3. \A n \in Names : CellsOK(Pushed(InUse(n), Context), T, D)
  BY <1>1, PushedAllOK
<1> HIDE DEF T
<1>4. Len(scopes) \in Nat /\ Len(scopes) >= 1 /\ Len(T) = Len(scopes) + 1
      /\ T[1] = scopes[1] /\ scopes[1].scope = 0
  <2>1. /\ Len(T) = Len(scopes) + 1 /\ Len(scopes) >= 1 /\ scopes[1].scope = 0
        /\ \A k \in 1..Len(scopes) : scopes[k] = T[k]
    BY <1>2 DEF Left
  <2>2. Len(scopes) \in Nat
    BY Inv1Is, LenProperties
  <2>3. 1 \in 1..Len(scopes)
    BY <2>1, <2>2
  <2> QED BY <2>1, <2>2, <2>3
<1> QED BY <1>2, <1>3, <1>4

LEMMA ReadKeeps ==
  ASSUME Inv1, NEW n \in mode.names, NEW value \in Values, Read(n, value)
  PROVE  Inv1'
<1> DEFINE D == mode.depth
           cols == [m \in Names |-> LET pushed == Pushed(InUse(m), Context)
                                    IN PopScope(IF m = n THEN BindVariable(pushed, value) ELSE pushed, FALSE)]
<1>1. Become(cols) /\ at' = "ready" /\ UNCHANGED <<mode, scopes, env, passed>>
  BY DEF Read
<1>2. PICK T \in Seq(Scopes(D)) :
           /\ Left(scopes, T, D) /\ Len(T) >= 1 /\ T[1].scope = 0
           /\ \A m \in Names : CellsOK(Pushed(InUse(m), Context), T, D)
  BY AroundOK
<1>3. D \in Nat /\ value \in Vals
  BY Inv1Is DEF Vals
<1>4. \A m \in Names : CellsOK(BindVariable(Pushed(InUse(m), Context), value), T, D)
  BY <1>2, <1>3, BindVariableOK
<1>5. \A m \in Names : CellsOK(cols[m], scopes, D)
  <2> TAKE m \in Names
  <2> DEFINE d == IF m = n THEN BindVariable(Pushed(InUse(m), Context), value) ELSE Pushed(InUse(m), Context)
  <2>1. CellsOK(d, T, D)
    BY <1>2, <1>4
  <2>2. cols[m] = PopScope(d, FALSE)
    OBVIOUS
  <2> HIDE DEF d, cols
  <2>3. CellsOK(PopScope(d, FALSE), scopes, D)
    BY <1>2, <1>3, <2>1, PopScopeOK
  <2> QED BY <2>2, <2>3
<1>6. ColsOK(cols, scopes, D)
  BY <1>5 DEF ColsOK
<1> HIDE DEF cols
<1>7. TablesOK'
  BY <1>1, <1>6, BecomeOK
<1> QED BY <1>1, <1>7, Inv1Stays DEF Inv1

LEMMA UnsetKeeps ==
  ASSUME Inv1, NEW n \in mode.names, Unset(n)
  PROVE  Inv1'
<1> DEFINE D == mode.depth
           c == Makunbound(InUse(n))
           cols == [m \in Names |-> LET pushed == Pushed(InUse(m), Context)
                                    IN PopScope(IF m = n THEN Makunbound(pushed) ELSE pushed, TRUE)]
<1>1. (Become(With(n, c)) \/ Become(cols)) /\ at' = "ready" /\ UNCHANGED <<mode, scopes, env, passed>>
  BY DEF Unset
<1>2. PICK T \in Seq(Scopes(D)) :
           /\ Left(scopes, T, D) /\ Len(T) >= 1 /\ T[1].scope = 0
           /\ \A m \in Names : CellsOK(Pushed(InUse(m), Context), T, D)
  BY AroundOK
<1>3. D \in Nat /\ n \in Names /\ CellsOK(InUse(n), scopes, D) /\ scopes \in Seq(Scopes(D))
  BY Inv1Is
<1>4. \A m \in Names : CellsOK(Makunbound(Pushed(InUse(m), Context)), T, D)
  BY <1>2, <1>3, MakunboundOK
<1>5. \A m \in Names : CellsOK(cols[m], scopes, D)
  <2> TAKE m \in Names
  <2> DEFINE d == IF m = n THEN Makunbound(Pushed(InUse(m), Context)) ELSE Pushed(InUse(m), Context)
  <2>1. CellsOK(d, T, D)
    BY <1>2, <1>4
  <2>2. cols[m] = PopScope(d, TRUE)
    OBVIOUS
  <2> HIDE DEF d, cols
  <2>3. CellsOK(PopScope(d, TRUE), scopes, D)
    BY <1>2, <1>3, <2>1, PopScopeOK
  <2> QED BY <2>2, <2>3
<1>6. ColsOK(cols, scopes, D)
  BY <1>5 DEF ColsOK
<1>7. CellsOK(c, scopes, D)
  BY <1>3, MakunboundOK
<1> HIDE DEF cols, c
<1>8. ColsOK(With(n, c), scopes, D)
  BY <1>3, <1>7, Inv1Is, WithOK DEF ColsOK
<1>9. TablesOK'
  BY <1>1, <1>6, <1>8, BecomeOK
<1> QED BY <1>1, <1>9, Inv1Stays DEF Inv1

LEMMA DeclareKeeps ==
  ASSUME Inv1, NEW n \in mode.names, NEW value \in Vals, NEW on \in SUBSET {"exported"},
         NEW off, DeclareCommand(n, value, on, off)
  PROVE  Inv1'
<1> DEFINE D == mode.depth
           c == Declare(InUse(n), value, on, off)
           S == IF on = {} THEN {} ELSE {n}
<1>1. EndCommand(With(n, c), FALSE) /\ at' = "ready" /\ PassOn(S) /\ UNCHANGED <<mode, scopes>>
  BY DEF DeclareCommand
<1>2. n \in Names /\ D \in Nat /\ CellsOK(InUse(n), scopes, D)
  BY Inv1Is
<1>3. CellsOK(c, scopes, D)
  BY <1>2, Inv1Is, DeclareOK
<1>4. S \subseteq Names
  BY <1>2
<1> HIDE DEF c, S
<1>5. ColsOK(With(n, c), scopes, D)
  BY <1>2, <1>3, Inv1Is, WithOK DEF ColsOK
<1>6. passed' \subseteq Names /\ env \in [Names -> Vals]
  BY <1>1, <1>4, HeldIn DEF Inv1
<1>7. TablesOK' /\ env' \in [Names -> Vals]
  BY <1>1, <1>5, <1>6, Inv1Is, ChainNear, EndCommandOK
<1> QED BY <1>1, <1>6, <1>7, Inv1Stays

LEMMA ExportKeeps ==
  ASSUME Inv1, NEW n \in mode.names, NEW value \in Vals, NEW undo \in BOOLEAN, ExportCommand(n, value, undo)
  PROVE  Inv1'
<1> DEFINE D == mode.depth
           a == IF value = None THEN InUse(n) ELSE BindVariable(InUse(n), value)
           c == Export(a, undo)
           S == IF undo THEN {} ELSE {n}
<1>1. EndCommand(With(n, c), TRUE) /\ at' = "ready" /\ PassOnMerged(S) /\ UNCHANGED <<mode, scopes>>
  BY DEF ExportCommand
<1>2. n \in Names /\ D \in Nat /\ CellsOK(InUse(n), scopes, D)
  BY Inv1Is
<1>3. CellsOK(a, scopes, D)
  <2>1. CellsOK(BindVariable(InUse(n), value), scopes, D)
    BY <1>2, Inv1Is, BindVariableOK
  <2> QED BY <1>2, <2>1
<1> HIDE DEF a
<1>4. CellsOK(c, scopes, D)
  BY <1>2, <1>3, Inv1Is, ExportOK
<1>5. S \subseteq Names
  BY <1>2
<1> HIDE DEF c, S
<1>6. ColsOK(With(n, c), scopes, D)
  BY <1>2, <1>4, Inv1Is, WithOK DEF ColsOK
<1>7. passed' \subseteq Names /\ env \in [Names -> Vals]
  BY <1>1, <1>5, HeldIn DEF Inv1
<1>8. TablesOK' /\ env' \in [Names -> Vals]
  BY <1>1, <1>6, <1>7, Inv1Is, ChainNear, EndCommandOK
<1> QED BY <1>1, <1>7, <1>8, Inv1Stays

LEMMA ColumnsAre ==
  ASSUME Inv1
  PROVE  ColsOK(Columns, scopes, mode.depth) /\ \A n \in Names : Columns[n] = InUse(n)
<1>1. \A n \in Names : Columns[n] = InUse(n)
  BY DEF Columns
<1> QED BY <1>1, Inv1Is DEF ColsOK

LEMMA SpecialKeeps ==
  ASSUME Inv1, Special
  PROVE  Inv1'
<1>1. EndCommand(Columns, TRUE) /\ at' = "ready" /\ PassOnMerged({}) /\ UNCHANGED <<mode, scopes>>
  BY DEF Special
<1>2. passed' \subseteq Names /\ env \in [Names -> Vals]
  BY <1>1, HeldIn DEF Inv1
<1>3. TablesOK' /\ env' \in [Names -> Vals]
  BY <1>1, <1>2, ColumnsAre, Inv1Is, ChainNear, EndCommandOK
<1> QED BY <1>1, <1>2, <1>3, Inv1Stays

LEMMA ExecuteKeeps ==
  ASSUME Inv1, Execute
  PROVE  Inv1'
<1>1. MaybeMakeExportEnv(Columns) /\ at' = (IF at = "prefix" THEN "child" ELSE at) /\ UNCHANGED <<mode, scopes, passed>>
  BY DEF Execute
<1>2. passed \subseteq Names /\ env \in [Names -> Vals] /\ at' \in {"ready", "prefix", "child"}
  BY <1>1 DEF Inv1
<1>3. mode.depth \in Nat /\ scopes \in Seq(Scopes(mode.depth)) /\ scopes' = scopes /\ mode' = mode
  BY <1>1, Inv1Is
<1>4. TablesOK' /\ env' \in [Names -> Vals]
  BY <1>1, <1>2, <1>3, ColumnsAre, MaybeMakeOK
<1> QED BY <1>1, <1>2, <1>4, Inv1Stays

LEMMA EndExecuteKeeps ==
  ASSUME Inv1, EndExecute
  PROVE  Inv1'
<1>1. EndCommand(Columns, FALSE) /\ at' = "ready" /\ UNCHANGED <<mode, scopes, passed>>
  BY DEF EndExecute
<1>2. passed \subseteq Names /\ env \in [Names -> Vals]
  BY DEF Inv1
<1>3. TablesOK' /\ env' \in [Names -> Vals]
  BY <1>1, <1>2, ColumnsAre, Inv1Is, ChainNear, EndCommandOK
<1> QED BY <1>1, <1>2, <1>3, Inv1Stays

LEMMA Inv1Begins ==
  ASSUME Init
  PROVE  Inv1
<1> DEFINE D == mode.depth
           g == [kind |-> "global", scope |-> 0, keep |-> FALSE]
           E == <<>>
<1>1. mode \in Modes /\ D \in Nat \ {0} /\ scopes = <<g>>
  BY ModeIs DEF Init
<1>2. g \in Scopes(D)
  BY <1>1 DEF Scopes, Kinds
<1>3. scopes \in Seq(Scopes(D)) /\ Len(scopes) = 1 /\ scopes[1] = g
  BY <1>1, <1>2
<1>4. Level(scopes) = 0
  <2>1. scopes[1].kind # "func" /\ Len(scopes) >= 1
    BY <1>3
  <2>2. Level(scopes) \in Nat /\ Level(scopes) <= Len(scopes) - 1
    BY <1>3, <2>1, FuncsFinite
  <2> QED BY <1>3, <2>2
<1>5. Levels(scopes)
  <2>1. SubSeq(scopes, 1, Len(scopes)) = scopes
    BY <1>3, SubSeqFull
  <2>2. scopes[1].scope = 0 /\ \A k \in 1..Len(scopes) : k = 1 /\ k = Len(scopes)
    BY <1>3
  <2>3. \A k \in 1..Len(scopes) : scopes[k].scope = 0 /\ SubSeq(scopes, 1, k) = scopes
    BY <2>1, <2>2
  <2> QED BY <1>4, <2>3 DEF Levels
<1>6. ChainOK(scopes, D)
  BY <1>1, <1>3, <1>5 DEF ChainOK
<1>7. E \in Seq(Var(D)) /\ Len(E) = 0
  OBVIOUS
<1>8. tables = [n \in Names |-> [k \in 0..1 |-> E]] /\ needs = TRUE
  BY DEF Init
<1> HIDE DEF E, g
<1>9. \A n \in Names : TabOK(tables[n], scopes, D)
  BY <1>3, <1>7, <1>8 DEF TabOK
<1>10. TablesOK
  BY <1>8, <1>9 DEF TablesOK
<1>11. env \in [Names -> Vals] /\ passed \subseteq Names /\ at = "ready"
  BY DEF Init, Vals
<1> QED BY <1>1, <1>6, <1>10, <1>11 DEF Inv1

LEMMA Inv1Kept ==
  ASSUME Inv1, [Next]_vars
  PROVE  Inv1'
<1>1. ASSUME NEW n \in mode.names, NEW value \in Values, Prefix(n, value) \/ Assign(n, value) \/ Read(n, value)
      PROVE  Inv1'
  BY <1>1, PrefixKeeps, AssignKeeps, ReadKeeps
<1>2. ASSUME NEW n \in mode.names, NEW value \in Values \cup {None},
             NEW on \in SUBSET {"exported"}, NEW off \in SUBSET {"exported"}, DeclareCommand(n, value, on, off)
      PROVE  Inv1'
  BY <1>2, DeclareKeeps DEF Vals
<1>3. ASSUME NEW n \in mode.names, NEW value \in Values \cup {None}, NEW undo \in BOOLEAN,
             ExportCommand(n, value, undo)
      PROVE  Inv1'
  BY <1>3, ExportKeeps DEF Vals
<1>4. ASSUME NEW n \in mode.names, Unset(n) PROVE Inv1'
  BY <1>4, UnsetKeeps
<1>5. ASSUME NEW keep \in BOOLEAN, Eval(keep) PROVE Inv1'
  BY <1>5, EvalKeeps
<1>6. ASSUME Call \/ EndEval \/ Return \/ Special \/ Execute \/ EndExecute PROVE Inv1'
  BY <1>6, CallKeeps, EndEvalKeeps, ReturnKeeps, SpecialKeeps, ExecuteKeeps, EndExecuteKeeps
<1>7. ASSUME UNCHANGED vars PROVE Inv1'
  BY <1>7 DEF vars, Inv1, TablesOK
<1> QED BY <1>1, <1>2, <1>3, <1>4, <1>5, <1>6, <1>7 DEF Next

-----------------------------------------------------------------------------
(* Every state has an inductive invariant: a chain that begins with the    *)
(* global table and knows its levels, a table for every context of it and  *)
(* one for the temporary environment, and in every table variables at the  *)
(* level of its context (variables.c).                                     *)
THEOREM ChainTheorem == Spec => []Inv1
<1>1. Init => Inv1
  BY Inv1Begins
<1>2. Inv1 /\ [Next]_vars => Inv1'
  BY Inv1Kept
<1> QED BY <1>1, <1>2, PTL DEF Spec

(* TypeOK always holds: variables have known attributes and values, and    *)
(* there are as many tables as push_var_context and push_scope have made   *)
(* and pop_var_context and pop_scope have left.                            *)
THEOREM TypeTheorem == Spec => []TypeOK
<1>1. Inv1 => TypeOK
  <2> SUFFICES ASSUME Inv1 PROVE TypeOK
    OBVIOUS
  <2> DEFINE D == mode.depth
  <2>1. /\ mode \in Modes /\ needs \in BOOLEAN /\ at \in {"ready", "prefix", "child"}
        /\ env \in [Names -> Values \cup {None}] /\ passed \subseteq Names
        /\ D \in Nat
    BY Inv1Is DEF Inv1, TablesOK, Vals
  <2>2. scopes \in Seq(Scopes(D)) /\ Len(scopes) \in 1..D
    BY DEF Inv1, ChainOK
  <2>3. \A k \in DOMAIN scopes : scopes[k].kind \in Kinds /\ scopes[k].scope \in 0..D
    <3>1. \A k \in DOMAIN scopes : scopes[k] \in Scopes(D)
      BY <2>2, ElementOfSeq
    <3> QED BY <3>1 DEF Scopes
  <2>4. ASSUME NEW n \in Names
        PROVE  /\ DOMAIN tables[n] = 0..Len(scopes)
               /\ \A k \in DOMAIN tables[n] : \A i \in DOMAIN tables[n][k] : tables[n][k][i] \in Var(D)
               /\ Len(tables[n][0]) <= 1
    <3>1. tables[n] \in [0..Len(scopes) -> Seq(Var(D))] /\ Len(tables[n][0]) <= 1
      BY DEF Inv1, TablesOK, TabOK
    <3>2. \A k \in 0..Len(scopes) : \A i \in DOMAIN tables[n][k] : tables[n][k][i] \in Var(D)
      BY <3>1, ElementOfSeq
    <3> QED BY <3>1, <3>2
  <2>5. Var(D) = [value : Values \cup {None}, str : Values \cup {None},
                  attrs : SUBSET Attributes, context : 0..D]
    BY DEF Var, Vals
  <2> HIDE DEF D
  <2> QED BY <2>1, <2>2, <2>3, <2>4, <2>5 DEF TypeOK, D
<1> QED BY <1>1, ChainTheorem, PTL

(* ContextsTrue always holds: a variable knows the level of the function   *)
(* it belongs to, which push_func_var, push_exported_var and               *)
(* push_temp_var correct when they hand it on, and which unset and local   *)
(* trust.                                                                  *)
THEOREM ContextsTheorem == Spec => []ContextsTrue
<1>1. Inv1 => ContextsTrue
  <2> SUFFICES ASSUME Inv1 PROVE ContextsTrue
    OBVIOUS
  <2>1. Levels(scopes) /\ scopes \in Seq(Scopes(mode.depth))
    BY DEF Inv1, ChainOK
  <2>2. DOMAIN scopes = 1..Len(scopes)
    BY <2>1
  <2>3. ASSUME NEW n \in Names, NEW k \in 1..Len(scopes), NEW i \in DOMAIN tables[n][k]
        PROVE  tables[n][k][i].context = scopes[k].scope
    <3>1. tables[n] \in [0..Len(scopes) -> Seq(Var(mode.depth))]
          /\ \A j \in 1..Len(scopes) : \A m \in 1..Len(tables[n][j]) : tables[n][j][m].context = scopes[j].scope
      BY DEF Inv1, TablesOK, TabOK
    <3>2. tables[n][k] \in Seq(Var(mode.depth))
      BY <3>1
    <3>3. i \in 1..Len(tables[n][k])
      BY <3>2
    <3> QED BY <3>1, <3>3
  <2> QED BY <2>1, <2>2, <2>3 DEF ContextsTrue, Levels
<1> QED BY <1>1, ChainTheorem, PTL
-----------------------------------------------------------------------------
(* What children are told.  A table holds one variable of a name at most,  *)
(* as long as no local adds a second one.  strict is whether a variable of *)
(* a function has to be a local one or of a temporary environment.         *)

Neat(var, k, S, strict) ==
  /\ var.str \in {None, var.value}
  /\ "tempvar" \in var.attrs => "invisible" \notin var.attrs
  /\ k = 0 => "tempvar" \in var.attrs
  /\ strict /\ k # 0 => (S[k].scope # 0 => "local" \in var.attrs \/ "tempvar" \in var.attrs)

Short(q, k, S, strict) == Len(q) <= 1 /\ (q # <<>> => Neat(q[1], k, S, strict))
Tidy(c, S, strict) == \A k \in 0..Len(S) : Short(c.tab[k], k, S, strict)

(* What a table says to children of one name, and what all of them say. *)
Offer(q) == IF q # <<>> /\ Candidate(q[1]) THEN {q[1].value} ELSE {}
Shows(c) == LET p == Chosen(c) IN IF p = <<>> THEN None ELSE c.tab[p[1]][p[2]].value

(* d comes after c: array_needs_making has been set, or the variables say  *)
(* the same, unless that is still to be seen to (loud).                    *)
Follow(c, d, loud) ==
  /\ c.needs => d.needs
  /\ c.tab[0] = <<>> => d.tab[0] = <<>> /\ (loud \/ d.needs \/ Shows(d) = Shows(c))

Good(c, S, D, strict) ==
  /\ S \in Seq(Scopes(D)) /\ Len(S) >= 1 /\ S[1].scope = 0
  /\ CellsOK(c, S, D) /\ Tidy(c, S, strict)
Leads(c, d, S, D, strict, loud) == Good(d, S, D, strict) /\ Follow(c, d, loud)

IsShown(x, c, n) ==
  \/ x = None /\ \A k \in 0..n : Offer(c.tab[k]) = {}
  \/ \E k \in 0..n : /\ Offer(c.tab[k]) = {x}
                     /\ k # 0 => /\ Offer(c.tab[0]) = {}
                                 /\ \A j \in 0..n : Offer(c.tab[j]) # {} => j <= k

LEMMA OfferIs ==
  ASSUME NEW V, NEW q \in Seq(V), Len(q) <= 1
  PROVE  Carries(q) <=> Offer(q) # {}
<1> DEFINE E == <<>>
<1>1. Len(q) \in Nat /\ DOMAIN q = 1..Len(q) /\ (q = E <=> Len(q) = 0)
  BY LenProperties, EmptySeq
<1> HIDE DEF E
<1>2. CASE q = E
  <2>1. Offer(q) = {}
    BY <1>2 DEF Offer, E
  <2> QED BY <1>1, <1>2, <2>1 DEF Carries
<1>3. CASE q # E
  <2>1. DOMAIN q = {1}
    BY <1>1, <1>3
  <2>2. Carries(q) <=> Candidate(q[1])
    BY <2>1 DEF Carries
  <2>3. Offer(q) = IF Candidate(q[1]) THEN {q[1].value} ELSE {}
    BY <1>3 DEF Offer, E
  <2> QED BY <2>2, <2>3
<1> QED BY <1>2, <1>3

LEMMA ShowsIs ==
  ASSUME NEW D \in Nat, NEW S, NEW c, NEW strict, Good(c, S, D, strict)
  PROVE  IsShown(Shows(c), c, Len(S))
<1> DEFINE p == Chosen(c)
           n == Len(S)
           E == <<>>
<1>0. CellsOK(c, S, D) /\ S \in Seq(Scopes(D)) /\ Tidy(c, S, strict)
  BY DEF Good
<1>1. IsChosen(p, c)
  BY <1>0, ChosenIs
<1>2. DOMAIN c.tab = 0..n /\ n \in Nat /\ c.tab \in [0..n -> Seq(Var(D))]
  BY <1>0, LenProperties DEF CellsOK, TabOK
<1>3. \A k \in 0..n : Carries(c.tab[k]) <=> Offer(c.tab[k]) # {}
  BY <1>0, <1>2, OfferIs DEF Tidy, Short
<1>4. Shows(c) = IF p = E THEN None ELSE c.tab[p[1]][p[2]].value
  BY DEF Shows
<1> HIDE DEF p, n
<1>5. CASE p = E /\ \A k \in DOMAIN c.tab : ~Carries(c.tab[k])
  BY <1>2, <1>3, <1>4, <1>5 DEF IsShown, n
<1>6. ASSUME NEW k \in DOMAIN c.tab, NEW i \in DOMAIN c.tab[k],
             p = <<k, i>>, Candidate(c.tab[k][i]),
             k # 0 => /\ ~Carries(c.tab[0])
                      /\ \A j \in DOMAIN c.tab : Carries(c.tab[j]) => j <= k
      PROVE  IsShown(Shows(c), c, n)
  <2> DEFINE q == c.tab[k]
  <2>1. k \in 0..n /\ 0 \in 0..n
    BY <1>2
  <2>2. q \in Seq(Var(D)) /\ Len(q) <= 1 /\ Len(q) \in Nat /\ DOMAIN q = 1..Len(q)
    BY <1>0, <1>2, <2>1, LenProperties DEF Tidy, Short, n
  <2>a. i \in 1..Len(q)
    BY <2>2
  <2>3. i = 1 /\ Len(q) = 1
    <3> HIDE DEF q
    <3> QED BY <2>2, <2>a
  <2>4. q # E
    <3>1. Len(E) = 0
      OBVIOUS
    <3> HIDE DEF E
    <3> QED BY <2>3, <3>1
  <2>5. Offer(q) = {q[1].value}
    BY <1>6, <2>3, <2>4 DEF Offer
  <2>6. Shows(c) = q[1].value
    <3>1. p # E /\ p[1] = k /\ p[2] = i
      BY <1>6
    <3> QED BY <1>4, <2>3, <3>1
  <2>7. k # 0 => /\ Offer(c.tab[0]) = {}
                 /\ \A j \in 0..n : Offer(c.tab[j]) # {} => j <= k
    BY <1>2, <1>3, <1>6, <2>1
  <2>8. Offer(c.tab[k]) = {Shows(c)}
    BY <2>5, <2>6
  <2> QED BY <2>1, <2>7, <2>8 DEF IsShown
<1> QED BY <1>1, <1>5, <1>6 DEF IsChosen, n

(* Tables that say nothing make no difference. *)
LEMMA ShownOnce ==
  ASSUME NEW n \in Nat, NEW m \in Nat, n <= m, NEW c, NEW d, NEW x, NEW y, IsShown(x, c, n), IsShown(y, d, m),
         \A k \in 0..n : Offer(c.tab[k]) = Offer(d.tab[k]),
         \A k \in n + 1..m : Offer(d.tab[k]) = {}
  PROVE  x = y
<1>1. \A k \in 0..m : k \in 0..n \/ k \in n + 1..m
  OBVIOUS
<1>2. CASE x = None /\ \A k \in 0..n : Offer(c.tab[k]) = {}
  <2>1. \A k \in 0..m : Offer(d.tab[k]) = {}
    BY <1>1, <1>2
  <2> QED BY <1>2, <2>1 DEF IsShown
<1>3. ASSUME NEW k \in 0..n, Offer(c.tab[k]) = {x},
             k # 0 => Offer(c.tab[0]) = {} /\ \A j \in 0..n : Offer(c.tab[j]) # {} => j <= k
      PROVE  x = y
  <2>0. k \in 0..m /\ 0 \in 0..n /\ Offer(d.tab[k]) = {x} /\ Offer(d.tab[k]) # {}
    BY <1>3
  <2>1. PICK l \in 0..m : /\ Offer(d.tab[l]) = {y}
                          /\ l # 0 => /\ Offer(d.tab[0]) = {}
                                      /\ \A j \in 0..m : Offer(d.tab[j]) # {} => j <= l
    BY <2>0 DEF IsShown
  <2>2. l \in 0..n /\ Offer(d.tab[l]) # {}
    BY <1>1, <2>1
  <2>3. Offer(c.tab[l]) # {} /\ Offer(c.tab[k]) # {}
    BY <1>3, <2>2
  <2>4. k # 0 => l <= k /\ l # 0
    <3> SUFFICES ASSUME k # 0 PROVE l <= k /\ l # 0
      OBVIOUS
    <3>1. Offer(c.tab[0]) = {} /\ \A j \in 0..n : Offer(c.tab[j]) # {} => j <= k
      BY <1>3
    <3> QED BY <2>2, <2>3, <3>1
  <2>5. l # 0 => k <= l /\ k # 0
    <3> SUFFICES ASSUME l # 0 PROVE k <= l /\ k # 0
      OBVIOUS
    <3>1. Offer(d.tab[0]) = {} /\ \A j \in 0..m : Offer(d.tab[j]) # {} => j <= l
      BY <2>1
    <3> QED BY <2>0, <3>1
  <2>6. l = k
    BY <2>2, <2>4, <2>5
  <2> QED BY <2>0, <2>1, <2>6
<1> QED BY <1>2, <1>3 DEF IsShown

LEMMA SameShows ==
  ASSUME NEW D \in Nat, NEW S, NEW strict, NEW c, NEW d, Good(c, S, D, strict), Good(d, S, D, strict),
         \A k \in 0..Len(S) : Offer(c.tab[k]) = Offer(d.tab[k])
  PROVE  Shows(d) = Shows(c)
<1>1. IsShown(Shows(c), c, Len(S)) /\ IsShown(Shows(d), d, Len(S))
  BY ShowsIs
<1>2. Len(S) \in Nat
  BY LenProperties DEF Good
<1>3. \A k \in Len(S) + 1..Len(S) : Offer(d.tab[k]) = {}
  BY <1>2
<1>4. Shows(c) = Shows(d)
  BY <1>1, <1>2, <1>3, ShownOnce
<1> QED BY <1>4

LEMMA FollowOn ==
  ASSUME NEW c, NEW d, NEW e, NEW loud, Follow(c, d, loud), Follow(d, e, loud)
  PROVE  Follow(c, e, loud)
BY DEF Follow

LEMMA FollowSelf ==
  ASSUME NEW c, NEW loud
  PROVE  Follow(c, c, loud)
BY DEF Follow

LEMMA LeadsOn ==
  ASSUME NEW c, NEW d, NEW e, NEW S, NEW D, NEW strict, NEW loud,
         Leads(c, d, S, D, strict, loud), Leads(d, e, S, D, strict, loud)
  PROVE  Leads(c, e, S, D, strict, loud)
BY FollowOn DEF Leads

LEMMA LeadsSelf ==
  ASSUME NEW c, NEW S, NEW D, NEW strict, NEW loud, Good(c, S, D, strict)
  PROVE  Leads(c, c, S, D, strict, loud)
BY FollowSelf DEF Leads

(* One cell is put in place of another. *)
LEMMA ChangedLeads ==
  ASSUME NEW D \in Nat, NEW S, NEW strict, NEW loud, NEW c, Good(c, S, D, strict),
         NEW k \in 0..Len(S), NEW q, Cell(q, k, S, D), Short(q, k, S, strict),
         NEW flag \in BOOLEAN, c.needs => flag,
         \/ k = 0 /\ c.tab[0] # <<>>
         \/ k # 0 /\ (loud \/ flag \/ Offer(q) = Offer(c.tab[k]))
  PROVE  Leads(c, Changed(c, k, q, flag), S, D, strict, loud)
<1> DEFINE d == Changed(c, k, q, flag)
<1>0. CellsOK(c, S, D) /\ S \in Seq(Scopes(D)) /\ Tidy(c, S, strict) /\ Len(S) >= 1 /\ S[1].scope = 0
  BY DEF Good
<1>1. /\ CellsOK(d, S, D) /\ d.tab[k] = q /\ d.needs = flag
      /\ \A j \in 0..Len(S) : j # k => d.tab[j] = c.tab[j]
  BY <1>0, ChangedOK
<1> HIDE DEF d
<1>2. Tidy(d, S, strict)
  <2> SUFFICES ASSUME NEW j \in 0..Len(S) PROVE Short(d.tab[j], j, S, strict)
    BY DEF Tidy
  <2>1. CASE j = k
    BY <1>1, <2>1
  <2>2. CASE j # k
    BY <1>0, <1>1, <2>2 DEF Tidy
  <2> QED BY <2>1, <2>2
<1>3. Good(d, S, D, strict)
  BY <1>0, <1>1, <1>2 DEF Good
<1>4. 0 \in 0..Len(S)
  BY <1>0, LenProperties
<1>5. ASSUME c.tab[0] = <<>> PROVE d.tab[0] = <<>> /\ (loud \/ flag \/ Shows(d) = Shows(c))
  <2>1. k # 0 /\ (loud \/ flag \/ Offer(q) = Offer(c.tab[k]))
    BY <1>5
  <2>2. d.tab[0] = <<>>
    BY <1>1, <1>4, <1>5, <2>1
  <2>3. ASSUME Offer(q) = Offer(c.tab[k]) PROVE Shows(d) = Shows(c)
    <3>1. \A j \in 0..Len(S) : Offer(c.tab[j]) = Offer(d.tab[j])
      BY <1>1, <2>3
    <3> QED BY <1>3, <3>1, SameShows
  <2> QED BY <2>1, <2>2, <2>3
<1>6. Follow(c, d, loud)
  BY <1>1, <1>5 DEF Follow
<1> QED BY <1>3, <1>6 DEF Leads, d

(* One variable is put in place of another, or where there was none. *)
LEMMA PutLeads ==
  ASSUME NEW D \in Nat, NEW S, NEW strict, NEW loud, NEW c, Good(c, S, D, strict),
         NEW k \in 0..Len(S), NEW var, Fits(var, k, S, D), Neat(var, k, S, strict),
         NEW flag \in BOOLEAN, c.needs => flag,
         \/ k = 0 /\ c.tab[0] # <<>>
         \/ k # 0 /\ (loud \/ flag \/ Offer(<<var>>) = Offer(c.tab[k]))
  PROVE  /\ Leads(c, [Put(c, k, var) EXCEPT !.needs = flag], S, D, strict, loud)
         /\ Put(c, k, var) = Changed(c, k, <<var>>, c.needs)
         /\ [Put(c, k, var) EXCEPT !.needs = flag] = Changed(c, k, <<var>>, flag)
<1> DEFINE E == <<>>
           q == <<var>>
<1>0. CellsOK(c, S, D) /\ S \in Seq(Scopes(D)) /\ Short(c.tab[k], k, S, strict)
  BY DEF Good, Tidy
<1>1. IsPut(Put(c, k, var), c, k, var, S, D)
  BY <1>0, PutIs
<1>2. Put(c, k, var) = Changed(c, k, <<var>> \o Rest(c.tab[k]), c.needs)
  BY <1>1 DEF IsPut
<1>3. Len(c.tab[k]) <= 1 /\ c.tab[k] \in Seq(Var(D)) /\ Len(c.tab[k]) \in Nat /\ var \in Var(D)
  BY <1>0, LenProperties DEF Short, CellsOK, TabOK, Fits
<1>4. Rest(c.tab[k]) = E
  <2>1. /\ Rest(c.tab[k]) \in Seq(Var(D))
        /\ c.tab[k] = E => Rest(c.tab[k]) = E
        /\ c.tab[k] # E => Len(Rest(c.tab[k])) = Len(c.tab[k]) - 1
    BY <1>3, RestIs
  <2>2. c.tab[k] # E => Len(c.tab[k]) # 0
    BY <1>3, EmptySeq
  <2>3. Rest(c.tab[k]) # E => Len(Rest(c.tab[k])) # 0
    BY <2>1, EmptySeq
  <2> HIDE DEF E
  <2> QED BY <1>3, <2>1, <2>2, <2>3
<1>5. q \in Seq(Var(D)) /\ Len(q) = 1 /\ q[1] = var /\ q # E
  <2>1. q \in Seq(Var(D)) /\ Len(q) = 1 /\ q[1] = var
    BY <1>3
  <2>2. Len(E) = 0
    OBVIOUS
  <2> HIDE DEF E, q
  <2> QED BY <2>1, <2>2
<1>6. Put(c, k, var) = Changed(c, k, q, c.needs)
  <2>1. q \o E = q
    BY <1>5, ConcatEmptySeq
  <2> QED BY <1>2, <1>4, <2>1
<1>7. [Put(c, k, var) EXCEPT !.needs = flag] = Changed(c, k, q, flag)
  BY <1>6 DEF Changed
<1>8. Cell(q, k, S, D) /\ Short(q, k, S, strict)
  <2> HIDE DEF q
  <2> QED BY <1>5 DEF Cell, Short
<1>9. Leads(c, Changed(c, k, q, flag), S, D, strict, loud)
  <2>1. \/ k = 0 /\ c.tab[0] # <<>>
        \/ k # 0 /\ (loud \/ flag \/ Offer(q) = Offer(c.tab[k]))
    OBVIOUS
  <2> HIDE DEF q
  <2> QED BY <1>8, <2>1, ChangedLeads
<1> QED BY <1>6, <1>7, <1>9

LEMMA AtNeat ==
  ASSUME NEW D \in Nat, NEW S, NEW strict, NEW c, Good(c, S, D, strict), NEW k \in 0..Len(S), c.tab[k] # <<>>
  PROVE  Neat(At(c, k), k, S, strict) /\ Fits(At(c, k), k, S, D)
<1>1. CellsOK(c, S, D) /\ S \in Seq(Scopes(D)) /\ Short(c.tab[k], k, S, strict)
  BY DEF Good, Tidy
<1>2. Fits(At(c, k), k, S, D)
  BY <1>1, AtFits
<1> QED BY <1>1, <1>2 DEF Short, At

LEMMA OfferOne ==
  ASSUME NEW var
  PROVE  Offer(<<var>>) = IF Candidate(var) THEN {var.value} ELSE {}
<1> DEFINE E == <<>>
           q == <<var>>
<1>1. Len(q) = 1 /\ q[1] = var /\ Len(E) = 0
  OBVIOUS
<1> HIDE DEF E, q
<1>2. q # E
  BY <1>1
<1>3. Offer(q) = IF Candidate(var) THEN {var.value} ELSE {}
  BY <1>1, <1>2 DEF Offer, E
<1> QED BY <1>3 DEF q

LEMMA OfferAt ==
  ASSUME NEW c, NEW k
  PROVE  /\ c.tab[k] # <<>> => Offer(c.tab[k]) = IF Candidate(At(c, k)) THEN {At(c, k).value} ELSE {}
         /\ c.tab[k] = <<>> => Offer(c.tab[k]) = {}
BY DEF Offer, At

(* The flag is left alone. *)
LEMMA PutOnly ==
  ASSUME NEW D \in Nat, NEW S, NEW strict, NEW loud, NEW c, Good(c, S, D, strict),
         NEW k \in 0..Len(S), c.tab[k] # <<>>, NEW var, Fits(var, k, S, D), Neat(var, k, S, strict),
         \/ k = 0 \/ loud \/ c.needs
         \/ var.value = At(c, k).value /\ (Candidate(var) <=> Candidate(At(c, k)))
         \/ ~Candidate(var) /\ ~Candidate(At(c, k))
  PROVE  Leads(c, Put(c, k, var), S, D, strict, loud)
<1> DEFINE flag == c.needs
<1>1. flag \in BOOLEAN
  BY DEF Good, CellsOK
<1>2. /\ Offer(<<var>>) = IF Candidate(var) THEN {var.value} ELSE {}
      /\ Offer(c.tab[k]) = IF Candidate(At(c, k)) THEN {At(c, k).value} ELSE {}
  BY OfferOne, OfferAt
<1>3. \/ k = 0 /\ c.tab[0] # <<>>
      \/ k # 0 /\ (loud \/ flag \/ Offer(<<var>>) = Offer(c.tab[k]))
  BY <1>2
<1> HIDE DEF flag
<1>4. c.needs => flag
  BY DEF flag
<1>5. Leads(c, [Put(c, k, var) EXCEPT !.needs = flag], S, D, strict, loud)
  BY <1>1, <1>3, <1>4, PutLeads
<1>6. [Put(c, k, var) EXCEPT !.needs = flag] = Put(c, k, var)
  <2> DEFINE p == Put(c, k, var)
  <2>1. IsPut(p, c, k, var, S, D)
    BY PutIs DEF Good
  <2> HIDE DEF p
  <2>2. p = [tab |-> p.tab, needs |-> p.needs] /\ p.needs = flag
    BY <2>1 DEF IsPut, CellsOK, flag
  <2>3. [p EXCEPT !.needs = flag] = p
    BY <2>2
  <2> QED BY <2>3 DEF p
<1> QED BY <1>5, <1>6

(* What Add and Drop leave at k *)
IsLed(d, c, k, var, S, D, strict, loud) ==
  /\ Leads(c, d, S, D, strict, loud)
  /\ d.tab[k] # <<>> /\ At(d, k) = var /\ d.needs = c.needs
  /\ \A j \in 0..Len(S) : j # k => d.tab[j] = c.tab[j]

LEMMA AddLeads ==
  ASSUME NEW D \in Nat, NEW S, NEW strict, NEW loud, NEW c, Good(c, S, D, strict),
         NEW k \in 0..Len(S), c.tab[k] # <<>>, NEW attrs \in SUBSET Attributes,
         "tempvar" \in At(c, k).attrs \cup attrs => "invisible" \notin At(c, k).attrs \cup attrs,
         \/ k = 0 \/ loud \/ c.needs
         \/ "exported" \notin attrs /\ "invisible" \notin attrs
         \/ "exported" \notin At(c, k).attrs \cup attrs
  PROVE  IsLed(Add(c, k, attrs), c, k, Added(c, k, attrs), S, D, strict, loud)
<1> DEFINE v == Added(c, k, attrs)
           a == At(c, k)
<1>0. CellsOK(c, S, D) /\ S \in Seq(Scopes(D))
  BY DEF Good
<1>1. IsPut(Add(c, k, attrs), c, k, v, S, D) /\ Fits(v, k, S, D)
  BY <1>0, AddIs
<1>2. Neat(a, k, S, strict) /\ Fits(a, k, S, D)
  BY AtNeat
<1>3. v.attrs = a.attrs \cup attrs /\ v.value = a.value /\ v.str = a.str
  <2> HIDE DEF a
  <2>1. a.attrs \cup attrs \in SUBSET Attributes
    BY <1>2, FitsIs
  <2> QED BY <1>2, <2>1, AttrsFit DEF Added, a
<1> HIDE DEF v, a
<1>4. Neat(v, k, S, strict)
  BY <1>2, <1>3 DEF Neat, a
<1>5. Add(c, k, attrs) = Put(c, k, v)
  <2>1. IsPut(Put(c, k, v), c, k, v, S, D)
    BY <1>0, <1>1, PutIs
  <2> QED BY <1>1, <2>1 DEF IsPut
<1>6. \/ k = 0 \/ loud \/ c.needs
      \/ v.value = At(c, k).value /\ (Candidate(v) <=> Candidate(At(c, k)))
      \/ ~Candidate(v) /\ ~Candidate(At(c, k))
  BY <1>3 DEF Candidate, a
<1>7. Leads(c, Put(c, k, v), S, D, strict, loud)
  BY <1>1, <1>4, <1>6, PutOnly
<1> QED BY <1>1, <1>5, <1>7 DEF IsPut, IsLed, v

LEMMA DropLeads ==
  ASSUME NEW D \in Nat, NEW S, NEW strict, NEW loud, NEW c, Good(c, S, D, strict),
         NEW k \in 0..Len(S), c.tab[k] # <<>>, NEW attrs,
         \/ "tempvar" \notin attrs /\ "local" \notin attrs
         \/ k # 0 /\ S[k].scope = 0,
         \/ k = 0 \/ loud \/ c.needs
         \/ "exported" \notin attrs /\ ("invisible" \notin attrs \/ "tempvar" \in At(c, k).attrs)
  PROVE  IsLed(Drop(c, k, attrs), c, k, Dropped(c, k, attrs), S, D, strict, loud)
<1> DEFINE v == Dropped(c, k, attrs)
           a == At(c, k)
<1>0. CellsOK(c, S, D) /\ S \in Seq(Scopes(D))
  BY DEF Good
<1>1. IsPut(Drop(c, k, attrs), c, k, v, S, D) /\ Fits(v, k, S, D)
  BY <1>0, DropIs
<1>2. Neat(a, k, S, strict) /\ Fits(a, k, S, D)
  BY AtNeat
<1>3. v.attrs = a.attrs \ attrs /\ v.value = a.value /\ v.str = a.str
  <2> HIDE DEF a
  <2>1. a.attrs \ attrs \in SUBSET Attributes
    BY <1>2, FitsIs
  <2> QED BY <1>2, <2>1, AttrsFit DEF Dropped, a
<1> HIDE DEF v, a
<1>4. Neat(v, k, S, strict)
  BY <1>2, <1>3 DEF Neat, a
<1>5. Drop(c, k, attrs) = Put(c, k, v)
  <2>1. IsPut(Put(c, k, v), c, k, v, S, D)
    BY <1>0, <1>1, PutIs
  <2> QED BY <1>1, <2>1 DEF IsPut
<1>6. \/ k = 0 \/ loud \/ c.needs
      \/ v.value = At(c, k).value /\ (Candidate(v) <=> Candidate(At(c, k)))
      \/ ~Candidate(v) /\ ~Candidate(At(c, k))
  BY <1>2, <1>3 DEF Candidate, a, Neat
<1>7. Leads(c, Put(c, k, v), S, D, strict, loud)
  BY <1>1, <1>4, <1>6, PutOnly
<1> QED BY <1>1, <1>5, <1>7 DEF IsPut, IsLed, v

(* bind_variable_internal *)
LEMMA BindInternalLeads ==
  ASSUME NEW D \in Nat, NEW S, NEW strict, NEW loud, NEW c, Good(c, S, D, strict),
         NEW k \in 1..Len(S), NEW value \in Vals, c.tab[k] = <<>> => S[k].scope = 0
  PROVE  /\ Leads(c, BindVariableInternal(c, k, value), S, D, strict, loud)
         /\ BindVariableInternal(c, k, value).tab[k] # <<>>
         /\ At(BindVariableInternal(c, k, value), k) = BoundVar(c, k, value)
<1> DEFINE v == BoundVar(c, k, value)
           p == Put(c, k, v)
           flag == p.needs \/ "exported" \in v.attrs
<1>0. CellsOK(c, S, D) /\ S \in Seq(Scopes(D)) /\ Len(S) \in Nat /\ k \in 0..Len(S) /\ k # 0
  BY LenProperties DEF Good
<1>1. BoundVarOK(v, c, k, value, S, D)
  BY <1>0, BoundVarTyped
<1>2. BindVariableInternal(c, k, value) = [p EXCEPT !.needs = flag]
  BY BindInternalIs
<1> HIDE DEF v
<1>3. Fits(v, k, S, D)
  BY <1>0, <1>1 DEF BoundVarOK, Fits
<1>4. IsPut(p, c, k, v, S, D)
  BY <1>0, <1>3, PutIs
<1>5. p.needs = c.needs /\ c.needs \in BOOLEAN /\ p.tab[k] # <<>> /\ At(p, k) = v /\ CellsOK(p, S, D)
  BY <1>0, <1>4 DEF IsPut, CellsOK
<1>6. Neat(v, k, S, strict) /\ (flag \/ Offer(<<v>>) = Offer(c.tab[k]))
  <2>1. Offer(<<v>>) = IF Candidate(v) THEN {v.value} ELSE {}
    BY OfferOne
  <2>2. CASE c.tab[k] = <<>>
    <3>1. v.str = None /\ v.attrs = {} /\ S[k].scope = 0 /\ Offer(c.tab[k]) = {}
      BY <1>1, <2>2, OfferAt DEF BoundVarOK
    <3> QED BY <1>0, <2>1, <3>1 DEF Neat, Candidate
  <2>3. CASE c.tab[k] # <<>>
    <3>1. Neat(At(c, k), k, S, strict)
      BY <1>0, <2>3, AtNeat
    <3>2. v.str = None /\ v.attrs = At(c, k).attrs \ {"invisible"}
      BY <1>1, <2>3 DEF BoundVarOK
    <3>3. Offer(c.tab[k]) = IF Candidate(At(c, k)) THEN {At(c, k).value} ELSE {}
      BY <2>3, OfferAt
    <3>4. ~flag => ~Candidate(v) /\ ~Candidate(At(c, k))
      BY <3>2 DEF Candidate
    <3> QED BY <1>0, <2>1, <3>1, <3>2, <3>3, <3>4 DEF Neat
  <2> QED BY <2>2, <2>3
<1> HIDE DEF p, flag
<1>7. flag \in BOOLEAN /\ (c.needs => flag)
  BY <1>5 DEF flag
<1>8. Leads(c, [Put(c, k, v) EXCEPT !.needs = flag], S, D, strict, loud)
  BY <1>0, <1>3, <1>6, <1>7, PutLeads
<1>9. [p EXCEPT !.needs = flag].tab = p.tab
  BY <1>5, <1>7, FlagOK
<1>10. [p EXCEPT !.needs = flag].tab[k] # <<>> /\ At([p EXCEPT !.needs = flag], k) = v
  BY <1>5, <1>9 DEF At
<1> QED BY <1>2, <1>8, <1>10 DEF p, v
LEMMA BindTempenvLeads ==
  ASSUME NEW D \in Nat, NEW S, NEW strict, NEW loud, NEW c, Good(c, S, D, strict), NEW value \in Vals
  PROVE  Leads(c, BindTempenvVariable(c, value), S, D, strict, loud)
<1> DEFINE a == At(c, 0)
           v == [a EXCEPT !.value = value, !.str = None]
<1>0. 0 \in 0..Len(S)
  BY LenProperties DEF Good
<1>1. CASE InTempenv(c) /\ value # None
  <2>1. BindTempenvVariable(c, value) = Put(c, 0, v) /\ c.tab[0] # <<>>
    BY <1>1 DEF BindTempenvVariable, InTempenv
  <2>2. Neat(a, 0, S, strict) /\ Fits(a, 0, S, D)
    BY <1>0, <2>1, AtNeat
  <2>3. None \in Vals
    BY DEF Vals
  <2> HIDE DEF a
  <2>4. Fits(v, 0, S, D) /\ Neat(v, 0, S, strict)
    BY <2>2, <2>3 DEF Fits, Var, Neat
  <2> HIDE DEF v
  <2>5. Leads(c, Put(c, 0, v), S, D, strict, loud)
    BY <1>0, <2>1, <2>4, PutOnly
  <2> QED BY <2>1, <2>5
<1>2. CASE ~(InTempenv(c) /\ value # None)
  <2>1. BindTempenvVariable(c, value) = c
    BY <1>2 DEF BindTempenvVariable
  <2> QED BY <2>1, LeadsSelf
<1> QED BY <1>1, <1>2

(* What bind_variable leaves in table k: a variable that can be seen *)
IsBound(d, c, k, S) ==
  /\ k \in 1..Len(S) /\ k \in 0..Len(S) /\ k # 0
  /\ d.tab[k] # <<>> /\ "invisible" \notin At(d, k).attrs
  /\ At(d, k).context = S[k].scope
  /\ c.tab[k] = <<>> => At(d, k).attrs = {} /\ k = 1
  /\ c.tab[k] # <<>> => At(d, k).attrs = At(c, k).attrs \ {"invisible"}

LEMMA BindVariableLeads ==
  ASSUME NEW D \in Nat, NEW S, NEW strict, NEW loud, NEW c, Good(c, S, D, strict), NEW value \in Vals
  PROVE  /\ Leads(c, BindVariable(c, value), S, D, strict, loud)
         /\ IsBound(BindVariable(c, value), c, Bound(c), S)
<1> DEFINE k == Bound(c)
           b == BindTempenvVariable(c, value)
           d == BindVariableInternal(b, k, value)
<1>0. CellsOK(c, S, D) /\ S \in Seq(Scopes(D)) /\ Len(S) \in Nat /\ Len(S) >= 1 /\ S[1].scope = 0
  BY LenProperties DEF Good
<1>1. k \in 1..Len(S) /\ (c.tab[k] = <<>> => k = 1)
  BY <1>0, BoundIn, Lookup DEF Bound
<1>2. Leads(c, b, S, D, strict, loud) /\ \A j \in 1..Len(S) : b.tab[j] = c.tab[j]
  BY <1>0, BindTempenvLeads, BindTempenvOK
<1>3. BindVariable(c, value) = d
  BY DEF BindVariable
<1> HIDE DEF k, b
<1>4. Good(b, S, D, strict) /\ b.tab[k] = c.tab[k] /\ At(b, k) = At(c, k)
  BY <1>1, <1>2 DEF Leads, At
<1>e. b.tab[k] = <<>> => S[k].scope = 0
  BY <1>0, <1>1, <1>4
<1>5. Leads(b, d, S, D, strict, loud) /\ d.tab[k] # <<>> /\ At(d, k) = BoundVar(b, k, value)
  BY <1>1, <1>4, <1>e, BindInternalLeads
<1>6. BoundVarOK(BoundVar(b, k, value), b, k, value, S, D)
  BY <1>0, <1>1, <1>4, BoundVarTyped DEF Good
<1> HIDE DEF d
<1>7. Leads(c, d, S, D, strict, loud)
  BY <1>2, <1>5, LeadsOn
<1>8. IsBound(d, c, k, S)
  <2>1. k \in 0..Len(S) /\ k # 0
    BY <1>0, <1>1
  <2>2. c.tab[k] = <<>> => S[k].scope = 0
    BY <1>0, <1>1
  <2> QED BY <1>1, <1>4, <1>5, <1>6, <2>1, <2>2 DEF IsBound, BoundVarOK
<1> QED BY <1>3, <1>7, <1>8 DEF k

LEMMA BindValueLeads ==
  ASSUME NEW D \in Nat, NEW S, NEW strict, NEW loud, NEW c, Good(c, S, D, strict),
         NEW k \in 0..Len(S), c.tab[k] # <<>>, NEW value \in Vals
  PROVE  /\ Leads(c, BindVariableValue(c, k, value), S, D, strict, loud)
         /\ BindVariableValue(c, k, value).tab[k] # <<>>
<1> DEFINE a == At(c, k)
           v == ValuedVar(a, value)
           p == Put(c, k, v)
           flag == p.needs \/ "exported" \in v.attrs
<1>0. CellsOK(c, S, D) /\ S \in Seq(Scopes(D)) /\ c.needs \in BOOLEAN
  BY DEF Good, CellsOK
<1>1. Neat(a, k, S, strict) /\ Fits(a, k, S, D)
  BY AtNeat
<1>2. None \in Vals
  BY DEF Vals
<1>a. BindVariableValue(c, k, value) = [p EXCEPT !.needs = flag]
  BY DEF BindVariableValue, ValuedVar
<1>b. /\ c.tab[k] # <<>> => Offer(c.tab[k]) = IF Candidate(a) THEN {a.value} ELSE {}
      /\ Offer(<<v>>) = IF Candidate(v) THEN {v.value} ELSE {}
  BY OfferAt, OfferOne
<1> HIDE DEF a
<1>3. Fits(v, k, S, D) /\ Neat(v, k, S, strict) /\ v.attrs = a.attrs \ {"invisible"}
  BY <1>1, <1>2 DEF Fits, Var, ValuedVar, Neat
<1> HIDE DEF v
<1>4. IsPut(p, c, k, v, S, D)
  BY <1>0, <1>3, PutIs
<1> HIDE DEF p
<1>5. p.needs = c.needs /\ CellsOK(p, S, D) /\ p.tab[k] # <<>>
  BY <1>4 DEF IsPut
<1>6. flag \in BOOLEAN /\ (c.needs => flag) /\ (flag \/ Offer(<<v>>) = Offer(c.tab[k]))
  BY <1>0, <1>3, <1>5, <1>b DEF Candidate
<1> HIDE DEF flag
<1>7. \/ k = 0 /\ c.tab[0] # <<>>
      \/ k # 0 /\ (loud \/ flag \/ Offer(<<v>>) = Offer(c.tab[k]))
  BY <1>6
<1>8. Leads(c, [Put(c, k, v) EXCEPT !.needs = flag], S, D, strict, loud)
  BY <1>3, <1>6, <1>7, PutLeads
<1>9. [p EXCEPT !.needs = flag].tab = p.tab
  BY <1>5, <1>6, FlagOK
<1> QED BY <1>5, <1>8, <1>9, <1>a DEF p

(* dispose_variable settles what was still to be seen to. *)
LEMMA DisposeLeads ==
  ASSUME NEW D \in Nat, NEW S, NEW strict, NEW c, NEW d, NEW e,
         Leads(c, d, S, D, strict, "exported" \in e.attrs)
  PROVE  /\ Leads(c, Dispose(d, e), S, D, strict, FALSE)
         /\ "exported" \in e.attrs => Dispose(d, e).needs
<1> DEFINE x == Dispose(d, e)
<1>1. Good(d, S, D, strict) /\ Follow(c, d, "exported" \in e.attrs)
  BY DEF Leads
<1>2. CellsOK(x, S, D) /\ x.tab = d.tab /\ x.needs = (d.needs \/ "exported" \in e.attrs)
  <2>1. CellsOK(d, S, D)
    BY <1>1 DEF Good
  <2> QED BY <2>1, DisposeOK
<1> HIDE DEF x
<1>3. Good(x, S, D, strict)
  BY <1>1, <1>2 DEF Good, Tidy
<1>4. Shows(x) = Shows(d)
  BY <1>2 DEF Shows, Chosen
<1>5. Follow(c, x, FALSE)
  BY <1>1, <1>2, <1>4 DEF Follow
<1> QED BY <1>2, <1>3, <1>5 DEF Leads, x

(* The flag is set. *)
LEMMA FlagLeads ==
  ASSUME NEW D \in Nat, NEW S, NEW strict, NEW loud, NEW c, Good(c, S, D, strict), NEW flag \in BOOLEAN,
         c.needs => flag
  PROVE  Leads(c, [c EXCEPT !.needs = flag], S, D, strict, loud)
<1> DEFINE d == [c EXCEPT !.needs = flag]
<1>1. CellsOK(d, S, D) /\ d.tab = c.tab /\ d.needs = flag
  BY FlagOK DEF Good
<1> HIDE DEF d
<1>2. Good(d, S, D, strict)
  BY <1>1 DEF Good, Tidy
<1>3. Shows(d) = Shows(c)
  BY <1>1 DEF Shows, Chosen
<1>4. Follow(c, d, loud)
  BY <1>1, <1>3 DEF Follow
<1> QED BY <1>2, <1>4 DEF Leads, d
LEMMA AssignInEnvTidy ==
  ASSUME NEW D \in Nat, NEW S, NEW strict, NEW c, Good(c, S, D, strict), NEW value \in Vals, Context \in 0..D
  PROVE  Good(AssignInEnv(c, value), S, D, strict) /\ AssignInEnv(c, value).needs
<1> DEFINE v == AssignedVar(c, value)
           d == AssignInEnv(c, value)
<1>0. CellsOK(c, S, D) /\ S \in Seq(Scopes(D)) /\ 0 \in 0..Len(S) /\ Len(S) >= 1 /\ S[1].scope = 0
      /\ Tidy(c, S, strict)
  BY LenProperties DEF Good
<1>1. CellsOK(d, S, D) /\ d.needs /\ Fits(v, 0, S, D) /\ d = [Put(c, 0, v) EXCEPT !.needs = TRUE]
  BY <1>0, AssignInEnvOK
<1>2. Neat(v, 0, S, strict)
  <2>1. v.str = value /\ v.value = value
        /\ v.attrs = {"exported", "tempvar"} \cup (IF InTempenv(c) THEN At(c, 0).attrs ELSE {})
    BY DEF AssignedVar
  <2>2. InTempenv(c) => "invisible" \notin At(c, 0).attrs
    <3> SUFFICES ASSUME InTempenv(c) PROVE "invisible" \notin At(c, 0).attrs
      OBVIOUS
    <3>1. Neat(At(c, 0), 0, S, strict)
      BY <1>0, AtNeat DEF InTempenv
    <3> QED BY <3>1 DEF Neat
  <2> HIDE DEF v
  <2> QED BY <2>1, <2>2 DEF Neat
<1> HIDE DEF v, d
<1>3. IsPut(Put(c, 0, v), c, 0, v, S, D)
  BY <1>0, <1>1, PutIs
<1>4. d.tab = Put(c, 0, v).tab
  BY <1>1, <1>3 DEF IsPut, CellsOK
<1>5. d.tab[0] # <<>> /\ At(d, 0) = v /\ \A j \in 0..Len(S) : j # 0 => d.tab[j] = c.tab[j]
  BY <1>3, <1>4 DEF IsPut, At
<1>6. Len(d.tab[0]) <= 1
  BY <1>1 DEF CellsOK, TabOK
<1>7. Tidy(d, S, strict)
  <2> SUFFICES ASSUME NEW j \in 0..Len(S) PROVE Short(d.tab[j], j, S, strict)
    BY DEF Tidy
  <2>1. CASE j = 0
    BY <1>2, <1>5, <1>6, <2>1 DEF Short, At
  <2>2. CASE j # 0
    BY <1>0, <1>5, <2>2 DEF Tidy
  <2> QED BY <2>1, <2>2
<1> QED BY <1>0, <1>1, <1>7 DEF Good, d

LEMMA ShortRest ==
  ASSUME NEW V, NEW q \in Seq(V), Len(q) <= 1
  PROVE  Rest(q) = <<>> /\ SubSeq(q, 3, Len(q)) = <<>>
<1> DEFINE E == <<>>
<1>1. Len(q) \in Nat /\ (q = E <=> Len(q) = 0)
  BY LenProperties, EmptySeq
<1>2. /\ Rest(q) \in Seq(V)
      /\ q = E => Rest(q) = E
      /\ q # E => Len(Rest(q)) = Len(q) - 1
  BY RestIs
<1>3. Rest(q) = E <=> Len(Rest(q)) = 0
  BY <1>2, EmptySeq
<1> DEFINE r == SubSeq(q, 3, Len(q))
<1>4. r \in Seq(V) /\ Len(r) = 0
  BY <1>1
<1>5. r = E <=> Len(r) = 0
  BY <1>4, EmptySeq
<1> HIDE DEF E, r
<1>6. Rest(q) = E
  BY <1>1, <1>2, <1>3
<1>7. r = E
  BY <1>4, <1>5
<1> QED BY <1>6, <1>7 DEF E, r

LEMMA MakunboundLeads ==
  ASSUME NEW D \in Nat, NEW S, NEW strict, NEW loud, NEW c, Good(c, S, D, strict)
  PROVE  Leads(c, Makunbound(c), S, D, strict, loud)
<1> DEFINE k == VarLookup(c)
           var == At(c, k)
           flag == c.needs \/ "exported" \in var.attrs
           E == <<>>
           b == <<Blank(var)>>
           two == b \o SubSeq(c.tab[k], 3, Len(c.tab[k]))
<1>0. CellsOK(c, S, D) /\ S \in Seq(Scopes(D)) /\ Len(S) \in Nat /\ Tidy(c, S, strict)
  BY LenProperties DEF Good
<1>1. UnboundTo(Makunbound(c), c, k, var)
  BY <1>0, MakunboundIs
<1>2. k \in 0..Len(S) /\ (k # 0 => c.tab[k] # <<>>)
  BY <1>0, Lookup
<1>3. CASE k = 0
  BY <1>1, <1>3, LeadsSelf DEF UnboundTo
<1>4. CASE k # 0
  <2>1. Fits(var, k, S, D) /\ Cell(c.tab[k], k, S, D) /\ c.tab[k] \in Seq(Var(D)) /\ Len(c.tab[k]) <= 1
    BY <1>0, <1>2, <1>4, AtFits, CellOf DEF Cell, Tidy, Short
  <2>2. Rest(c.tab[k]) = E /\ SubSeq(c.tab[k], 3, Len(c.tab[k])) = E
    BY <2>1, ShortRest
  <2>3. Offer(c.tab[k]) = IF Candidate(var) THEN {var.value} ELSE {}
    BY <1>2, <1>4, OfferAt
  <2>4. flag \in BOOLEAN
    BY <1>0 DEF CellsOK
  <2> HIDE DEF k, var
  <2>5. Fits(Blank(var), k, S, D)
    BY <2>1, BlankFits
  <2>6. Cell(E, k, S, D) /\ Cell(b, k, S, D)
    BY <1>0, <1>2, <2>1, <2>2, <2>5, OnTopFits
  <2>7. b \in Seq(Var(D)) /\ Len(b) = 1 /\ b[1] = Blank(var)
    <3>1. Blank(var) \in Var(D)
      BY <2>5 DEF Fits
    <3> QED BY <3>1
  <2>8. two = b
    BY <2>2, <2>7, ConcatEmptySeq
  <2>9. Blank(var).str = None /\ Blank(var).value = None
        /\ "local" \in Blank(var).attrs /\ "invisible" \in Blank(var).attrs /\ "tempvar" \notin Blank(var).attrs
    BY DEF Blank
  <2>10. Short(b, k, S, strict) /\ Offer(b) = {}
    <3>1. Offer(b) = IF Candidate(Blank(var)) THEN {Blank(var).value} ELSE {}
      BY OfferOne
    <3>2. Neat(Blank(var), k, S, strict)
      BY <1>4, <2>9 DEF Neat
    <3> HIDE DEF b
    <3> QED BY <2>7, <2>9, <3>1, <3>2 DEF Short, Candidate
  <2>11. Short(E, k, S, strict) /\ Offer(E) = {}
    <3>1. Len(E) = 0
      OBVIOUS
    <3> QED BY <3>1 DEF Short, Offer
  <2> HIDE DEF E, b, two
  <2>12. PICK q : q \in {Rest(c.tab[k]), two} /\ Makunbound(c) = Changed(c, k, q, flag)
    <3>1. \E q : /\ q \in {Rest(c.tab[k]), two}
                 /\ "local" \notin var.attrs => q = Rest(c.tab[k])
                 /\ Makunbound(c) = Changed(c, k, q, flag)
      BY <1>1, <1>4 DEF UnboundTo, two, b
    <3> QED BY <3>1
  <2>13. Cell(q, k, S, D) /\ Short(q, k, S, strict) /\ Offer(q) = {}
    BY <2>2, <2>6, <2>8, <2>10, <2>11, <2>12
  <2>14. (c.needs => flag) /\ (flag \/ Offer(q) = Offer(c.tab[k]))
    BY <2>3, <2>13 DEF Candidate
  <2> HIDE DEF flag
  <2>15. \/ k = 0 /\ c.tab[0] # <<>>
         \/ k # 0 /\ (loud \/ flag \/ Offer(q) = Offer(c.tab[k]))
    BY <1>4, <2>14 DEF k
  <2>16. k \in 0..Len(S)
    BY <1>2 DEF k
  <2>17. Leads(c, Changed(c, k, q, flag), S, D, strict, loud)
    BY <2>4, <2>13, <2>14, <2>15, <2>16, ChangedLeads DEF flag
  <2> QED BY <2>12, <2>17
<1> QED BY <1>3, <1>4
(* A new local variable says no more to children than the variable it      *)
(* takes after.                                                            *)
LEMMA NewLocalNeat ==
  ASSUME NEW D \in Nat, NEW S, NEW strict, NEW c, Good(c, S, D, strict), NEW k \in 1..Len(S)
  PROVE  /\ Neat(NewLocal(c), k, S, strict)
         /\ Candidate(NewLocal(c)) => /\ Found(c) /\ Candidate(At(c, FindVariable(c)))
                                      /\ NewLocal(c).value = At(c, FindVariable(c)).value
<1> DEFINE old == At(c, FindVariable(c))
           wasTemp == Found(c) /\ "tempvar" \in old.attrs
           value == IF wasTemp \/ (Found(c) /\ mode.inherit) THEN old.value ELSE None
           inherited == IF ~Found(c) THEN {} ELSE IF mode.inherit THEN old.attrs ELSE old.attrs \cap {"exported"}
           attrs == inherited \cup {"local"} \cup (IF ~wasTemp /\ value = None THEN {"invisible"} ELSE {})
           v == NewLocal(c)
<1>0. CellsOK(c, S, D) /\ S \in Seq(Scopes(D)) /\ k # 0
  BY LenProperties DEF Good
<1>1. v.value = value /\ v.str = None /\ v.attrs = attrs
  BY DEF NewLocal
<1>2. ASSUME Found(c) PROVE Neat(old, FindVariable(c), S, strict)
  BY <1>0, <1>2, FindVariableIn, AtNeat
<1> HIDE DEF old, v
<1>3. wasTemp => "invisible" \notin old.attrs
  BY <1>2 DEF Neat
<1>4. /\ "tempvar" \in attrs => wasTemp
      /\ "local" \in attrs
      /\ wasTemp => "invisible" \notin attrs
  BY <1>3
<1>5. Candidate(v) => Found(c) /\ Candidate(old) /\ value = old.value
  <2> SUFFICES ASSUME Candidate(v) PROVE Found(c) /\ Candidate(old) /\ value = old.value
    OBVIOUS
  <2>1. "exported" \in attrs /\ "invisible" \notin attrs
    BY <1>1 DEF Candidate
  <2>2. Found(c) /\ "exported" \in old.attrs
    BY <2>1
  <2>3. CASE wasTemp
    BY <1>3, <2>2, <2>3 DEF Candidate
  <2>4. CASE ~wasTemp
    <3>1. value # None
      BY <2>1, <2>4
    <3>2. mode.inherit /\ value = old.value /\ inherited = old.attrs
      BY <2>2, <2>4, <3>1
    <3> QED BY <2>1, <2>2, <3>2 DEF Candidate
  <2> QED BY <2>3, <2>4
<1> HIDE DEF wasTemp, value, attrs, inherited
<1>6. Neat(v, k, S, strict)
  BY <1>0, <1>1, <1>4 DEF Neat
<1> QED BY <1>1, <1>5, <1>6 DEF v, old

LEMMA NewLocalLeads ==
  ASSUME NEW D \in Nat, NEW S, NEW strict, NEW loud, NEW c, Good(c, S, D, strict), NEW k \in 1..Len(S),
         c.tab[k] = <<>>, Fits(NewLocal(c), k, S, D)
  PROVE  Leads(c, Changed(c, k, <<NewLocal(c)>>, c.needs), S, D, strict, loud)
<1> DEFINE v == NewLocal(c)
           q == <<v>>
           flag == c.needs
           d == Changed(c, k, q, flag)
           f == FindVariable(c)
           l == VarLookup(c)
           n == Len(S)
<1>0. /\ CellsOK(c, S, D) /\ S \in Seq(Scopes(D)) /\ n \in Nat /\ k # 0 /\ k \in 0..n /\ 0 \in 0..n
  BY LenProperties DEF Good
<1>1. Neat(v, k, S, strict) /\ (Candidate(v) => Found(c) /\ Candidate(At(c, f)) /\ v.value = At(c, f).value)
  BY NewLocalNeat
<1>2. Offer(q) = IF Candidate(v) THEN {v.value} ELSE {}
  BY OfferOne
<1>3. Offer(c.tab[k]) = {}
  BY OfferAt
<1> HIDE DEF v, f
<1>4. Cell(q, k, S, D) /\ Short(q, k, S, strict)
  <2>1. Cell(c.tab[k], k, S, D)
    BY <1>0, CellOf
  <2>2. Cell(q, k, S, D)
    BY <1>0, <2>1, OnTopFits DEF v
  <2>3. Len(q) = 1 /\ q[1] = v
    OBVIOUS
  <2> HIDE DEF q
  <2> QED BY <1>1, <2>2, <2>3 DEF Short
<1>5. flag \in BOOLEAN
  BY <1>0 DEF CellsOK
<1>a. c.needs => flag
  OBVIOUS
<1> HIDE DEF q, flag
<1>6. /\ d.tab[k] = q
      /\ \A j \in 0..n : j # k => d.tab[j] = c.tab[j]
  BY <1>0, <1>4, <1>5, ChangedOK
<1>7. Leads(c, d, S, D, strict, TRUE)
  BY <1>0, <1>4, <1>5, <1>a, ChangedLeads
<1>8. CASE ~Candidate(v)
  <2>1. Offer(q) = Offer(c.tab[k])
    BY <1>2, <1>3, <1>8
  <2> QED BY <1>0, <1>4, <1>5, <1>a, <2>1, ChangedLeads DEF v, q, flag
<1> HIDE DEF d
<1>9. CASE Candidate(v)
  <2> SUFFICES ASSUME c.tab[0] = <<>> PROVE Shows(d) = Shows(c)
    BY <1>7 DEF Leads, Follow, d, v, q, flag
  <2> DEFINE x == v.value
  <2>1. f = l /\ l # 0 /\ ~InTempenv(c)
    BY <1>1, <1>9 DEF InTempenv, Found, FindVariable, f
  <2>2. l \in 0..n /\ c.tab[l] # <<>> /\ \A j \in 1..n : c.tab[j] # <<>> => j <= l
    BY <1>0, <2>1, Lookup
  <2> HIDE DEF l
  <2>3. Offer(c.tab[l]) = {x} /\ Offer(c.tab[0]) = {} /\ l # k
    BY <1>1, <1>9, <2>1, <2>2, OfferAt
  <2>4. Offer(d.tab[k]) = {x} /\ Offer(d.tab[l]) = {x} /\ Offer(d.tab[0]) = {}
    BY <1>0, <1>2, <1>6, <1>9, <2>2, <2>3
  <2>5. \A j \in 0..n : Offer(c.tab[j]) # {} => j <= l
    <3> SUFFICES ASSUME NEW j \in 0..n, Offer(c.tab[j]) # {} PROVE j <= l
      OBVIOUS
    <3>1. c.tab[j] # <<>>
      BY OfferAt
    <3>2. j = 0 \/ j \in 1..n
      BY <1>0
    <3> QED BY <2>2, <3>1, <3>2
  <2>6. \A j \in 0..n : Offer(d.tab[j]) # {} => j <= l \/ j = k
    BY <1>6, <2>5
  <2>7. IsShown(Shows(c), c, n) /\ IsShown(Shows(d), d, n)
    BY <1>7, ShowsIs DEF Leads
  <2> HIDE DEF x
  <2>8. Shows(c) = x
    <3>1. PICK i \in 0..n : /\ Offer(c.tab[i]) = {Shows(c)}
                            /\ i # 0 => \A j \in 0..n : Offer(c.tab[j]) # {} => j <= i
      BY <2>2, <2>3, <2>7 DEF IsShown
    <3>2. i # 0 /\ i <= l
      BY <2>3, <2>5, <3>1
    <3>3. l <= i
      BY <2>2, <2>3, <3>1, <3>2
    <3>4. i = l
      BY <1>0, <2>2, <3>1, <3>2, <3>3
    <3> QED BY <2>3, <3>1, <3>4
  <2>9. Shows(d) = x
    <3>1. PICK i \in 0..n : /\ Offer(d.tab[i]) = {Shows(d)}
                            /\ i # 0 => \A j \in 0..n : Offer(d.tab[j]) # {} => j <= i
      BY <2>2, <2>4, <2>7 DEF IsShown
    <3>2. i # 0 /\ (i <= l \/ i = k)
      BY <2>4, <2>6, <3>1
    <3>3. l <= i
      BY <2>2, <2>4, <3>1, <3>2
    <3>4. i = l \/ i = k
      BY <1>0, <2>2, <3>1, <3>2, <3>3
    <3> QED BY <2>4, <3>1, <3>4
  <2> QED BY <2>8, <2>9
<1> QED BY <1>8, <1>9 DEF d, v, q, flag

LEMMA MakeLocalLeads ==
  ASSUME NEW D \in Nat, NEW strict, NEW loud, ChainOK(scopes, D), Context > 0, NEW c, Good(c, scopes, D, strict),
         IsLocalHere(c) \/ IsTempHere(c) \/ c.tab[FuncContext] = <<>>
  PROVE  Leads(c, MakeLocalVariable(c), scopes, D, strict, loud)
<1> DEFINE S == scopes
           k == VarLookup(c)
<1>1. S \in Seq(Scopes(D)) /\ Len(S) \in Nat /\ Len(S) >= 1 /\ CellsOK(c, S, D)
  BY LenProperties DEF Good
<1>2. k \in 0..Len(S) /\ (k # 0 => c.tab[k] # <<>>)
  BY <1>1, Lookup
<1>3. ~InTempenv(c) /\ Found(c) => k # 0
  BY DEF Found
<1>4. CASE IsLocalHere(c)
  BY <1>4, LeadsSelf DEF MakeLocalVariable
<1>5. CASE ~IsLocalHere(c) /\ IsTempHere(c)
  <2> DEFINE off == {"invisible"}
             on == {"local"}
             d == Drop(c, k, off)
             a == At(c, k)
  <2>1. c.tab[k] # <<>> /\ "tempvar" \in a.attrs
    BY <1>2, <1>3, <1>5 DEF IsTempHere, Has
  <2>2. MakeLocalVariable(c) = Add(d, k, on) /\ on \in SUBSET Attributes
    BY <1>5 DEF MakeLocalVariable, Attributes
  <2>3. /\ "tempvar" \notin off /\ "local" \notin off /\ "exported" \notin off
        /\ "exported" \notin on /\ "invisible" \notin on
    OBVIOUS
  <2>4. Fits(a, k, S, D)
    BY <1>1, <1>2, <2>1, AtFits
  <2>5. Dropped(c, k, off).attrs = a.attrs \ off
    <3> DEFINE w == a.attrs \ off
    <3>1. w \in SUBSET Attributes
      BY <2>4, FitsIs
    <3> HIDE DEF w, a
    <3> QED BY <2>4, <3>1, AttrsFit DEF Dropped, w, a
  <2> HIDE DEF k, off, d, a
  <2>6. IsLed(d, c, k, Dropped(c, k, off), S, D, strict, loud)
    BY <1>2, <2>1, <2>3, DropLeads DEF d, a
  <2>7. Good(d, S, D, strict) /\ d.tab[k] # <<>> /\ At(d, k).attrs = a.attrs \ off /\ Leads(c, d, S, D, strict, loud)
    BY <2>5, <2>6 DEF IsLed, Leads
  <2>8. "invisible" \notin At(d, k).attrs \cup on
    BY <2>3, <2>7 DEF off
  <2> HIDE DEF on
  <2>9. IsLed(Add(d, k, on), d, k, Added(d, k, on), S, D, strict, loud)
    BY <1>2, <2>2, <2>3, <2>7, <2>8, AddLeads
  <2>10. Leads(d, Add(d, k, on), S, D, strict, loud)
    BY <2>9 DEF IsLed
  <2> QED BY <2>2, <2>7, <2>10, LeadsOn
<1>6. CASE ~IsLocalHere(c) /\ ~IsTempHere(c)
  <2> DEFINE f == FuncContext
             q == <<NewLocal(c)>> \o c.tab[f]
  <2>1. f \in 2..Len(S) /\ S[f].scope = Context /\ Context \in 0..D
    BY FuncContextIn
  <2>2. MakeLocalVariable(c) = [c EXCEPT !.tab[f] = q]
    BY <1>6 DEF MakeLocalVariable
  <2>e. c.tab[f] = <<>>
    BY <1>6
  <2> HIDE DEF f, k
  <2>3. f \in 1..Len(S)
    BY <1>1, <2>1
  <2>4. Fits(NewLocal(c), f, S, D)
    BY <1>1, <2>1, <2>3, NewLocalFits
  <2>5. q = <<NewLocal(c)>>
    <3>1. NewLocal(c) \in Var(D)
      BY <2>4 DEF Fits
    <3>2. <<NewLocal(c)>> \in Seq(Var(D))
      BY <3>1
    <3> QED BY <2>e, <3>2, ConcatEmptySeq
  <2>7. c = [tab |-> c.tab, needs |-> c.needs]
    BY <1>1 DEF CellsOK
  <2> HIDE DEF q
  <2>8. [c EXCEPT !.tab[f] = q] = Changed(c, f, q, c.needs)
    BY <2>7 DEF Changed
  <2>9. Leads(c, Changed(c, f, <<NewLocal(c)>>, c.needs), S, D, strict, loud)
    BY <2>3, <2>4, <2>e, NewLocalLeads
  <2> QED BY <2>2, <2>5, <2>8, <2>9
<1> QED BY <1>4, <1>5, <1>6
(* A variable gets attributes that do not hide it, if there is one. *)
LEMMA AddAnyLeads ==
  ASSUME NEW D \in Nat, NEW S, NEW strict, NEW loud, NEW c, Good(c, S, D, strict),
         NEW k \in 0..Len(S), NEW attrs \in SUBSET Attributes,
         "invisible" \notin attrs, "tempvar" \notin attrs, c.needs \/ "exported" \notin attrs
  PROVE  Leads(c, Add(c, k, attrs), S, D, strict, loud)
<1>1. CASE c.tab[k] = <<>>
  <2>1. Add(c, k, attrs) = c
    BY <1>1, AddNone DEF Good
  <2> QED BY <2>1, LeadsSelf
<1>2. CASE c.tab[k] # <<>>
  <2>1. Neat(At(c, k), k, S, strict)
    BY <1>2, AtNeat
  <2>2. "tempvar" \in At(c, k).attrs \cup attrs => "invisible" \notin At(c, k).attrs \cup attrs
    BY <2>1 DEF Neat
  <2>3. IsLed(Add(c, k, attrs), c, k, Added(c, k, attrs), S, D, strict, loud)
    BY <1>2, <2>2, AddLeads
  <2> QED BY <2>3 DEF IsLed
<1> QED BY <1>1, <1>2

(* The same for attributes of a variable that can be seen, once the flag   *)
(* is set. *)
LEMMA AddSeenLeads ==
  ASSUME NEW D \in Nat, NEW S, NEW strict, NEW loud, NEW c, Good(c, S, D, strict), c.needs,
         NEW k \in 0..Len(S), c.tab[k] # <<>>, NEW attrs \in SUBSET Attributes,
         "invisible" \notin attrs, "invisible" \notin At(c, k).attrs
  PROVE  Leads(c, Add(c, k, attrs), S, D, strict, loud)
<1>1. "invisible" \notin At(c, k).attrs \cup attrs
  OBVIOUS
<1>2. IsLed(Add(c, k, attrs), c, k, Added(c, k, attrs), S, D, strict, loud)
  BY <1>1, AddLeads
<1> QED BY <1>2 DEF IsLed

LEMMA LeadsNeeds ==
  ASSUME NEW c, NEW d, NEW S, NEW D, NEW strict, NEW loud, Leads(c, d, S, D, strict, loud)
  PROVE  /\ Good(d, S, D, strict) /\ Follow(c, d, loud)
         /\ c.needs => d.needs
BY DEF Leads, Follow

LEMMA DeclaredInLeads ==
  ASSUME NEW D \in Nat, NEW S, NEW strict, NEW loud, NEW c, Good(c, S, D, strict),
         NEW k \in 0..Len(S), c.tab[k] # <<>>, NEW value \in Vals,
         NEW on \in SUBSET {"exported"}, NEW off \in SUBSET {"exported"}, on \cup off # {} => c.needs
  PROVE  Leads(c, DeclaredIn(c, k, value, on, off), S, D, strict, loud)
<1> DEFINE added == Add(c, k, on)
           flagged == Drop(added, k, off)
           valued == IF value = None THEN flagged ELSE BindVariableValue(flagged, k, value)
           var == At(valued, k)
           b == Bound(valued)
           u == BindVariable(valued, var.value)
           more == (var.attrs \ {"tempvar"}) \cup (IF At(u, b).context > 0 THEN {"propagate"} ELSE {})
           copied == IF ~InTempenv(valued) THEN valued ELSE Add(u, b, more)
           prop == {"propagate"}
<1>1. DeclaredIn(c, k, value, on, off) =
        IF on # {} /\ "tempvar" \in var.attrs THEN Add(copied, k, prop) ELSE valued
  BY DEF DeclaredIn
<1>2. /\ on \in SUBSET Attributes /\ prop \in SUBSET Attributes
      /\ "invisible" \notin on /\ "tempvar" \notin on /\ (c.needs \/ "exported" \notin on)
      /\ "invisible" \notin prop /\ "tempvar" \notin prop /\ "exported" \notin prop
      /\ "tempvar" \notin off /\ "local" \notin off /\ "invisible" \notin off /\ (c.needs \/ "exported" \notin off)
  BY DEF Attributes
<1> HIDE DEF added
<1>3. Leads(c, added, S, D, strict, loud) /\ added.tab[k] # <<>> /\ added.needs = c.needs
  <2>1. Neat(At(c, k), k, S, strict)
    BY AtNeat
  <2>2. "tempvar" \in At(c, k).attrs \cup on => "invisible" \notin At(c, k).attrs \cup on
    BY <1>2, <2>1 DEF Neat
  <2>3. \/ k = 0 \/ loud \/ c.needs
        \/ "exported" \notin on /\ "invisible" \notin on
        \/ "exported" \notin At(c, k).attrs \cup on
    BY <1>2
  <2>4. IsLed(Add(c, k, on), c, k, Added(c, k, on), S, D, strict, loud)
    BY <1>2, <2>2, <2>3, AddLeads
  <2> QED BY <2>4 DEF IsLed, added
<1> HIDE DEF flagged
<1>4. Leads(c, flagged, S, D, strict, loud) /\ flagged.tab[k] # <<>> /\ flagged.needs = c.needs
  <2>1. Good(added, S, D, strict)
    BY <1>3 DEF Leads
  <2>2. /\ \/ "tempvar" \notin off /\ "local" \notin off
           \/ k # 0 /\ S[k].scope = 0
        /\ \/ k = 0 \/ loud \/ added.needs
           \/ "exported" \notin off /\ ("invisible" \notin off \/ "tempvar" \in At(added, k).attrs)
    BY <1>2, <1>3
  <2>3. IsLed(Drop(added, k, off), added, k, Dropped(added, k, off), S, D, strict, loud)
    BY <1>3, <2>1, <2>2, DropLeads
  <2>4. Leads(added, flagged, S, D, strict, loud) /\ flagged.tab[k] # <<>> /\ flagged.needs = added.needs
    BY <2>3 DEF IsLed, flagged
  <2> QED BY <1>3, <2>4, LeadsOn
<1>5. Leads(c, valued, S, D, strict, loud) /\ valued.tab[k] # <<>>
  <2>1. Leads(flagged, BindVariableValue(flagged, k, value), S, D, strict, loud)
        /\ BindVariableValue(flagged, k, value).tab[k] # <<>>
    BY <1>4, BindValueLeads DEF Leads
  <2>2. Leads(c, BindVariableValue(flagged, k, value), S, D, strict, loud)
    BY <1>4, <2>1, LeadsOn
  <2> QED BY <1>4, <2>1, <2>2
<1> HIDE DEF valued
<1>6. Good(valued, S, D, strict) /\ (c.needs => valued.needs)
  BY <1>5, LeadsNeeds
<1>7. Neat(var, k, S, strict) /\ var.attrs \in SUBSET Attributes /\ var.value \in Vals
  BY <1>5, <1>6, AtNeat, AttrsOf DEF Good
<1> HIDE DEF var
<1>8. CASE ~(on # {} /\ "tempvar" \in var.attrs)
  BY <1>1, <1>5, <1>8
<1>9. CASE on # {} /\ "tempvar" \in var.attrs
  <2>1. Leads(valued, u, S, D, strict, loud) /\ IsBound(u, valued, b, S)
    BY <1>6, <1>7, BindVariableLeads
  <2>2. c.needs /\ "invisible" \notin var.attrs
    BY <1>7, <1>9 DEF Neat
  <2>3. more \in SUBSET Attributes /\ "invisible" \notin more
    BY <1>7, <2>2 DEF Attributes
  <2> HIDE DEF u, b, more
  <2>4. Good(u, S, D, strict) /\ u.needs
    BY <1>6, <2>1, <2>2, LeadsNeeds
  <2>5. b \in 0..Len(S) /\ u.tab[b] # <<>> /\ "invisible" \notin At(u, b).attrs
    BY <2>1 DEF IsBound
  <2>6. Leads(u, Add(u, b, more), S, D, strict, loud)
    BY <2>3, <2>4, <2>5, AddSeenLeads
  <2>7. Leads(c, Add(u, b, more), S, D, strict, loud)
    BY <1>5, <2>1, <2>6, LeadsOn
  <2>8. Leads(c, copied, S, D, strict, loud)
    BY <1>5, <2>7
  <2> HIDE DEF copied, prop
  <2>9. Good(copied, S, D, strict)
    BY <2>8 DEF Leads
  <2>10. Leads(copied, Add(copied, k, prop), S, D, strict, loud)
    BY <1>2, <2>9, AddAnyLeads
  <2> QED BY <1>1, <1>9, <2>8, <2>10, LeadsOn
<1> QED BY <1>8, <1>9

(* No second variable of a name is put into the table of a function. *)
OneLocal(c) == Context > 0 => IsLocalHere(c) \/ IsTempHere(c) \/ c.tab[FuncContext] = <<>>

LEMMA DeclareLeads ==
  ASSUME NEW D \in Nat, NEW strict, NEW loud, ChainOK(scopes, D), NEW c, Good(c, scopes, D, strict), OneLocal(c),
         NEW value \in Vals, NEW on \in SUBSET {"exported"}, NEW off \in SUBSET {"exported"}
  PROVE  Leads(c, Declare(c, value, on, off), scopes, D, strict, loud)
<1> DEFINE S == scopes
           flag == c.needs \/ on \cup off # {}
           marked == [c EXCEPT !.needs = flag]
           made == BindVariable(marked, None)
           hidden == Add(made, 1, {"invisible"})
           fresh == IF value = None THEN hidden ELSE made
<1>1. S \in Seq(Scopes(D)) /\ Len(S) \in Nat /\ Len(S) >= 1 /\ S[1].scope = 0 /\ CellsOK(c, S, D)
  BY LenProperties DEF Good
<1>3. flag \in BOOLEAN
  BY <1>1 DEF CellsOK
<1>a. (c.needs => flag) /\ (on \cup off # {} => flag)
  OBVIOUS
<1>4. Declare(c, value, on, off) =
        IF Context > 0 THEN DeclaredIn(MakeLocalVariable(marked), LocalPlace(c), value, on, off)
        ELSE IF Found(c) THEN DeclaredIn(marked, FindVariable(c), value, on, off)
        ELSE DeclaredIn(fresh, 1, value, on, off)
  BY DEF Declare
<1> HIDE DEF flag
<1>5. Leads(c, marked, S, D, strict, loud) /\ CellsOK(marked, S, D) /\ marked.tab = c.tab /\ marked.needs = flag
  BY <1>1, <1>3, <1>a, FlagOK, FlagLeads
<1>6. /\ LocalPlace(marked) = LocalPlace(c) /\ Found(marked) = Found(c)
      /\ FindVariable(marked) = FindVariable(c) /\ Bound(marked) = Bound(c)
      /\ IsLocalHere(marked) = IsLocalHere(c) /\ IsTempHere(marked) = IsTempHere(c)
  BY <1>5 DEF LocalPlace, IsLocalHere, IsTempHere, Found, FindVariable, Has, At, InTempenv, VarLookup, Bound
<1> HIDE DEF marked
<1>b. Good(marked, S, D, strict)
  BY <1>5 DEF Leads
<1>7. CASE Context > 0
  <2> DEFINE m == MakeLocalVariable(marked)
             k == LocalPlace(marked)
  <2>0. IsLocalHere(marked) \/ IsTempHere(marked) \/ marked.tab[FuncContext] = <<>>
    BY <1>5, <1>6, <1>7 DEF OneLocal
  <2>1. CellsOK(m, S, D) /\ k \in 1..Len(S) /\ m.tab[k] # <<>> /\ m.needs = marked.needs
    BY <1>5, <1>7, MakeLocalOK
  <2>a. Leads(marked, m, S, D, strict, loud)
    BY <1>7, <1>b, <2>0, MakeLocalLeads
  <2> HIDE DEF m, k
  <2>2. k \in 0..Len(S) /\ Good(m, S, D, strict) /\ (on \cup off # {} => m.needs)
    BY <1>5, <1>a, <2>1, <2>a DEF Leads
  <2>3. Leads(m, DeclaredIn(m, k, value, on, off), S, D, strict, loud)
    BY <2>1, <2>2, DeclaredInLeads
  <2>4. Leads(c, DeclaredIn(m, k, value, on, off), S, D, strict, loud)
    BY <1>5, <2>3, <2>a, LeadsOn
  <2> QED BY <1>4, <1>6, <1>7, <2>4 DEF m, k
<1>8. CASE ~(Context > 0) /\ Found(c)
  <2>1. FindVariable(c) \in 0..Len(S) /\ marked.tab[FindVariable(c)] # <<>>
    BY <1>1, <1>5, <1>6, <1>8, FindVariableIn
  <2>a. on \cup off # {} => marked.needs
    BY <1>5, <1>a
  <2>2. Leads(marked, DeclaredIn(marked, FindVariable(c), value, on, off), S, D, strict, loud)
    BY <1>b, <2>1, <2>a, DeclaredInLeads
  <2>3. Leads(c, DeclaredIn(marked, FindVariable(c), value, on, off), S, D, strict, loud)
    BY <1>5, <2>2, LeadsOn
  <2> QED BY <1>4, <1>8, <2>3
<1>9. CASE ~(Context > 0) /\ ~Found(c)
  <2> DEFINE inv == {"invisible"}
  <2>1. Bound(marked) = 1 /\ marked.tab[1] = <<>>
    <3>1. Bound(marked) = 1 /\ VarLookup(marked) = 0
      BY <1>6, <1>9 DEF Bound, Found, VarLookup
    <3>2. 1 \in 1..Len(S)
      BY <1>1
    <3>3. \A k \in 1..Len(S) : marked.tab[k] # <<>> => k <= VarLookup(marked)
      BY <1>1, <1>5, Lookup
    <3> QED BY <3>1, <3>2, <3>3
  <2>2. None \in Vals /\ 1 \in 0..Len(S) /\ inv \in SUBSET Attributes /\ "tempvar" \notin inv /\ "exported" \notin inv
    BY <1>1 DEF Vals, Attributes
  <2>3. Leads(marked, made, S, D, strict, loud) /\ IsBound(made, marked, 1, S)
    BY <1>b, <2>1, <2>2, BindVariableLeads
  <2> HIDE DEF made, inv
  <2>4. made.tab[1] # <<>> /\ At(made, 1).attrs = {} /\ Good(made, S, D, strict) /\ (marked.needs => made.needs)
    BY <2>1, <2>3, LeadsNeeds DEF IsBound
  <2>5. /\ "tempvar" \notin At(made, 1).attrs \cup inv
        /\ "exported" \notin At(made, 1).attrs \cup inv
    BY <2>2, <2>4
  <2>6. IsLed(Add(made, 1, inv), made, 1, Added(made, 1, inv), S, D, strict, loud)
    BY <2>2, <2>4, <2>5, AddLeads
  <2>7. Leads(made, hidden, S, D, strict, loud) /\ hidden.tab[1] # <<>> /\ hidden.needs = made.needs
    BY <2>6 DEF IsLed, inv
  <2> HIDE DEF hidden
  <2>8. Leads(made, fresh, S, D, strict, loud) /\ fresh.tab[1] # <<>> /\ fresh.needs = made.needs
    BY <2>4, <2>7, LeadsSelf
  <2> HIDE DEF fresh
  <2>9. Good(fresh, S, D, strict) /\ (on \cup off # {} => fresh.needs)
    BY <1>5, <1>a, <2>4, <2>8 DEF Leads
  <2>10. Leads(fresh, DeclaredIn(fresh, 1, value, on, off), S, D, strict, loud)
    BY <2>2, <2>8, <2>9, DeclaredInLeads
  <2>11. Leads(c, DeclaredIn(fresh, 1, value, on, off), S, D, strict, loud)
    BY <1>5, <2>3, <2>8, <2>10, LeadsOn
  <2> QED BY <1>4, <1>9, <2>11
<1> QED BY <1>7, <1>8, <1>9

LEMMA ExportLeads ==
  ASSUME NEW D \in Nat, NEW S, NEW strict, NEW loud, NEW c, Good(c, S, D, strict), NEW undo
  PROVE  Leads(c, Export(c, undo), S, D, strict, loud)
<1> DEFINE marked == [c EXCEPT !.needs = TRUE]
           temp == At(c, 0)
           bound == BindVariable(marked, temp.value)
           b == Bound(marked)
           more == (temp.attrs \ {"tempvar"})
                     \cup (IF mode.posix /\ At(bound, b).context # 0 THEN {"propagate"} ELSE {})
           copied == Add(bound, b, more)
           prop == {"propagate"}
           exp == {"exported"}
           both == {"invisible", "exported"}
           last == {"exported"} \cup (IF At(c, b).context # 0 THEN {"propagate"} ELSE {})
           kept == IF mode.posix THEN Add(copied, 0, prop) ELSE copied
           new == BindVariable(marked, None)
<1>1. Export(c, undo) =
        IF undo THEN IF Found(c) THEN Drop(marked, FindVariable(c), exp) ELSE marked
        ELSE IF InTempenv(c) THEN Add(kept, b, exp)
        ELSE IF VarLookup(c) = 0 THEN Add(new, 1, both)
        ELSE Add(marked, b, last)
  BY DEF Export
<1>0. CellsOK(c, S, D) /\ S \in Seq(Scopes(D)) /\ Len(S) \in Nat /\ Len(S) >= 1 /\ 0 \in 0..Len(S) /\ 1 \in 0..Len(S)
      /\ 1 \in 1..Len(S)
  BY LenProperties DEF Good
<1>2. CellsOK(marked, S, D) /\ marked.tab = c.tab /\ marked.needs
  BY <1>0, FlagOK
<1>a. Leads(c, marked, S, D, strict, loud)
  BY FlagLeads
<1>3. /\ prop \in SUBSET Attributes /\ exp \in SUBSET Attributes /\ both \in SUBSET Attributes
      /\ last \in SUBSET Attributes /\ None \in Vals
  BY DEF Attributes, Vals
<1>4. /\ "invisible" \notin prop /\ "tempvar" \notin prop /\ "exported" \notin prop
      /\ "invisible" \notin exp /\ "tempvar" \notin exp /\ "local" \notin exp
      /\ "invisible" \notin last /\ "tempvar" \notin last /\ "tempvar" \notin both
  OBVIOUS
<1>5. /\ Found(marked) = Found(c) /\ FindVariable(marked) = FindVariable(c) /\ VarLookup(marked) = VarLookup(c)
  BY <1>2 DEF Found, FindVariable, InTempenv, VarLookup
<1> HIDE DEF marked
<1>6. b \in 1..Len(S) /\ b \in 0..Len(S)
  BY <1>0, <1>2, BoundIn
<1>b. Good(marked, S, D, strict)
  BY <1>a DEF Leads
<1> HIDE DEF prop, exp, both, last
<1>8. ASSUME Found(c) PROVE Leads(marked, Drop(marked, FindVariable(c), exp), S, D, strict, loud)
  <2>1. FindVariable(c) \in 0..Len(S) /\ marked.tab[FindVariable(c)] # <<>>
    BY <1>0, <1>2, <1>5, <1>8, FindVariableIn
  <2> DEFINE f == FindVariable(c)
  <2> HIDE DEF f
  <2>2. /\ \/ "tempvar" \notin exp /\ "local" \notin exp
           \/ f # 0 /\ S[f].scope = 0
        /\ \/ f = 0 \/ loud \/ marked.needs
           \/ "exported" \notin exp /\ ("invisible" \notin exp \/ "tempvar" \in At(marked, f).attrs)
    BY <1>2, <1>4
  <2>3. IsLed(Drop(marked, f, exp), marked, f, Dropped(marked, f, exp), S, D, strict, loud)
    BY <1>b, <2>1, <2>2, DropLeads DEF f
  <2> QED BY <2>3 DEF IsLed, f
<1>9. Leads(marked, Add(marked, b, last), S, D, strict, loud)
  BY <1>2, <1>3, <1>4, <1>6, <1>b, AddAnyLeads
<1>10. ASSUME VarLookup(c) = 0 PROVE Leads(marked, Add(new, 1, both), S, D, strict, loud)
  <2>1. b = 1 /\ marked.tab[1] = <<>>
    <3>1. b = 1
      BY <1>5, <1>10 DEF Bound
    <3>2. \A k \in 1..Len(S) : marked.tab[k] # <<>> => k <= VarLookup(marked)
      BY <1>0, <1>2, Lookup
    <3> QED BY <1>0, <1>5, <1>10, <3>1, <3>2
  <2>2. Leads(marked, new, S, D, strict, loud) /\ IsBound(new, marked, 1, S)
    BY <1>3, <1>b, <2>1, BindVariableLeads
  <2> HIDE DEF new
  <2>3. new.tab[1] # <<>> /\ At(new, 1).attrs = {} /\ Good(new, S, D, strict) /\ new.needs
    BY <1>2, <2>1, <2>2, LeadsNeeds DEF IsBound
  <2>4. "tempvar" \notin At(new, 1).attrs \cup both
    BY <1>4, <2>3
  <2>5. IsLed(Add(new, 1, both), new, 1, Added(new, 1, both), S, D, strict, loud)
    BY <1>0, <1>3, <2>3, <2>4, AddLeads
  <2> QED BY <2>2, <2>5, LeadsOn DEF IsLed
<1>11. ASSUME InTempenv(c) PROVE Leads(marked, Add(kept, b, exp), S, D, strict, loud)
  <2>1. temp.attrs \in SUBSET Attributes /\ temp.value \in Vals /\ "invisible" \notin temp.attrs
    <3>1. c.tab[0] # <<>>
      BY <1>11 DEF InTempenv
    <3>2. Neat(temp, 0, S, strict)
      BY <1>0, <3>1, AtNeat
    <3> QED BY <1>0, <3>1, <3>2, AttrsOf DEF Neat
  <2> HIDE DEF temp
  <2>2. Leads(marked, bound, S, D, strict, loud) /\ IsBound(bound, marked, b, S)
    BY <1>b, <2>1, BindVariableLeads
  <2>3. more \in SUBSET Attributes /\ "invisible" \notin more
    BY <2>1 DEF Attributes
  <2> HIDE DEF bound, more, b
  <2>4. bound.tab[b] # <<>> /\ "invisible" \notin At(bound, b).attrs /\ Good(bound, S, D, strict) /\ bound.needs
    BY <1>2, <2>2, LeadsNeeds DEF IsBound
  <2>5. Leads(bound, copied, S, D, strict, loud)
    BY <1>6, <2>3, <2>4, AddSeenLeads
  <2> HIDE DEF copied
  <2>6. Good(copied, S, D, strict) /\ copied.needs
    BY <2>4, <2>5, LeadsNeeds
  <2>7. Leads(copied, Add(copied, 0, prop), S, D, strict, loud)
    BY <1>0, <1>3, <1>4, <2>6, AddAnyLeads
  <2>8. Leads(copied, kept, S, D, strict, loud)
    BY <2>6, <2>7, LeadsSelf
  <2> HIDE DEF kept
  <2>9. Good(kept, S, D, strict) /\ kept.needs
    BY <2>6, <2>8, LeadsNeeds
  <2>10. Leads(kept, Add(kept, b, exp), S, D, strict, loud)
    BY <1>3, <1>4, <1>6, <2>9, AddAnyLeads
  <2> QED BY <2>2, <2>5, <2>8, <2>10, LeadsOn
<1> HIDE DEF kept, new
<1>12. \/ undo /\ Found(c) /\ Export(c, undo) = Drop(marked, FindVariable(c), exp)
       \/ undo /\ ~Found(c) /\ Export(c, undo) = marked
       \/ InTempenv(c) /\ Export(c, undo) = Add(kept, b, exp)
       \/ VarLookup(c) = 0 /\ Export(c, undo) = Add(new, 1, both)
       \/ Export(c, undo) = Add(marked, b, last)
  BY <1>1
<1>13. Leads(marked, Export(c, undo), S, D, strict, loud)
  BY <1>8, <1>9, <1>10, <1>11, <1>12, <1>b, LeadsSelf
<1> QED BY <1>13, <1>a, LeadsOn
-----------------------------------------------------------------------------
(* The variables of a context that ends are handed on before               *)
(* dispose_variable sets the flag.                                         *)

LEMMA BindInTopLeads ==
  ASSUME NEW D \in Nat, NEW S, NEW strict, NEW loud, NEW c, Good(c, S, D, strict),
         scopes[Len(S)].scope = S[Len(S)].scope, NEW value \in Vals, NEW attrs \in SUBSET Attributes,
         "invisible" \notin attrs, loud \/ "exported" \notin attrs,
         strict /\ S[Len(S)].scope # 0 => "tempvar" \in attrs \/ "local" \in attrs
  PROVE  Leads(c, BindInTop(c, value, attrs), S, D, strict, loud)
<1> DEFINE k == Len(S)
           w == BoundVar(c, k, value)
           v == FinalVar(c, k, value, attrs, S[k].scope)
           flag == BindInTopFlag(c, value)
<1>0. CellsOK(c, S, D) /\ S \in Seq(Scopes(D)) /\ Len(S) \in Nat /\ Len(S) >= 1
  BY LenProperties DEF Good
<1>1. Fits(v, k, S, D) /\ IsInTop(BindInTop(c, value, attrs), c, k, v, flag)
  BY <1>0, BindInTopIs
<1>2. k \in 1..Len(S) /\ k \in 0..Len(S) /\ k # 0 /\ Top(c) = k
  BY <1>0, Lookup
<1>3. BoundVarOK(w, c, k, value, S, D)
  BY <1>0, <1>2, BoundVarTyped
<1>4. flag = (c.needs \/ "exported" \in w.attrs) /\ flag \in BOOLEAN
  BY <1>0, <1>2 DEF BindInTopFlag, CellsOK
<1>5. v.value = value /\ v.str = None /\ v.attrs = w.attrs \cup attrs
  <2>1. v = [w EXCEPT !.attrs = @ \cup attrs, !.context = S[k].scope]
    BY DEF FinalVar
  <2>2. w \in Var(D) /\ w.value = value /\ w.str = None
    BY <1>3 DEF BoundVarOK
  <2> HIDE DEF v, w, k
  <2> QED BY <2>1, <2>2 DEF Var
<1>6. /\ c.tab[k] = <<>> => w.attrs = {} /\ Offer(c.tab[k]) = {}
      /\ c.tab[k] # <<>> => /\ w.attrs = At(c, k).attrs \ {"invisible"}
                            /\ Offer(c.tab[k]) = IF Candidate(At(c, k)) THEN {At(c, k).value} ELSE {}
  BY <1>3, OfferAt DEF BoundVarOK
<1>7. Offer(<<v>>) = IF Candidate(v) THEN {v.value} ELSE {}
  BY OfferOne
<1> HIDE DEF v, w, flag, k
<1>8. "invisible" \notin w.attrs
  BY <1>6
<1>9. Neat(v, k, S, strict)
  BY <1>2, <1>5, <1>8 DEF Neat, k
<1>10. \/ k = 0 /\ c.tab[0] # <<>>
       \/ k # 0 /\ (loud \/ flag \/ Offer(<<v>>) = Offer(c.tab[k]))
  <2> SUFFICES ASSUME ~loud, ~flag PROVE Offer(<<v>>) = Offer(c.tab[k])
    BY <1>2
  <2>1. "exported" \notin v.attrs
    BY <1>4, <1>5
  <2>2. Offer(<<v>>) = {}
    BY <1>7, <2>1 DEF Candidate
  <2>3. Offer(c.tab[k]) = {}
    BY <1>4, <1>6 DEF Candidate
  <2> QED BY <2>2, <2>3
<1>11. c.needs => flag
  BY <1>4
<1>12. Leads(c, [Put(c, k, v) EXCEPT !.needs = flag], S, D, strict, loud)
  BY <1>1, <1>2, <1>4, <1>9, <1>10, <1>11, PutLeads
<1> QED BY <1>1, <1>12 DEF IsInTop

(* The variable e has been seen to, and is disposed of. *)
Settled(c, d, e, S, D, strict) ==
  Leads(c, d, S, D, strict, FALSE) /\ ("exported" \in e.attrs => d.needs)

(* A variable of the temporary environment is not invisible. *)
Plain(e) == "tempvar" \in e.attrs => "invisible" \notin e.attrs

LEMMA SettledIs ==
  ASSUME NEW D \in Nat, NEW S, NEW strict, NEW c, NEW d, NEW e,
         Leads(c, d, S, D, strict, "exported" \in e.attrs)
  PROVE  Settled(c, Dispose(d, e), e, S, D, strict)
BY DisposeLeads DEF Settled

LEMMA PassedLeads ==
  ASSUME NEW D \in Nat, NEW S, NEW strict, NEW c, Good(c, S, D, strict), NEW e, Ending(c, S, D, e), Plain(e),
         NEW attrs, attrs = (IF Top(c) = 1 THEN e.attrs \ Passing ELSE e.attrs), Passing \subseteq e.attrs
  PROVE  Leads(c, BindInTop(c, e.value, attrs), S, D, strict, "exported" \in e.attrs)
<1> DEFINE loud == "exported" \in e.attrs
<1>1. /\ S \in Seq(Scopes(D)) /\ Len(S) >= 1 /\ S[1].scope = 0 /\ Top(c) = Len(S)
      /\ scopes[Len(S)].scope = S[Len(S)].scope
      /\ CellsOK(c, S, D) /\ e.value \in Vals /\ e.attrs \in SUBSET Attributes
  BY EndingIs
<1>2. "tempvar" \in e.attrs /\ "invisible" \notin e.attrs
  BY DEF Passing, Plain
<1>3. attrs \in SUBSET Attributes /\ "invisible" \notin attrs /\ (loud \/ "exported" \notin attrs)
  BY <1>1, <1>2
<1>4. strict /\ S[Len(S)].scope # 0 => "tempvar" \in attrs \/ "local" \in attrs
  BY <1>1, <1>2
<1> HIDE DEF loud
<1>5. Leads(c, BindInTop(c, e.value, attrs), S, D, strict, loud)
  BY <1>1, <1>3, <1>4, BindInTopLeads
<1> QED BY <1>5 DEF loud

LEMMA PropagateTempVarLeads ==
  ASSUME NEW D \in Nat, NEW S, NEW strict, NEW c, Good(c, S, D, strict), NEW e, Ending(c, S, D, e), Plain(e)
  PROVE  Settled(c, PropagateTempVar(c, e), e, S, D, strict)
<1> DEFINE attrs == IF Top(c) = 1 THEN e.attrs \ Passing ELSE e.attrs
           b == BindInTop(c, e.value, attrs)
           d == IF Passing \subseteq e.attrs THEN b ELSE c
           loud == "exported" \in e.attrs
<1>1. PropagateTempVar(c, e) = Dispose(d, e)
  BY DEF PropagateTempVar
<1>2. Passing \subseteq e.attrs => Leads(c, b, S, D, strict, loud)
  BY PassedLeads
<1>3. Leads(c, c, S, D, strict, loud)
  BY LeadsSelf
<1> HIDE DEF b
<1>4. Leads(c, d, S, D, strict, "exported" \in e.attrs)
  BY <1>2, <1>3
<1> HIDE DEF d
<1> QED BY <1>1, <1>4, SettledIs

LEMMA PushExportedVarLeads ==
  ASSUME NEW D \in Nat, NEW S, NEW strict, ~strict, NEW c, Good(c, S, D, strict), NEW e, Ending(c, S, D, e), Plain(e)
  PROVE  Settled(c, PushExportedVar(c, e), e, S, D, strict)
<1> DEFINE attrs == e.attrs \ (IF Top(c) = 1 THEN Passing ELSE {"tempvar"})
           b == BindInTop(c, e.value, attrs)
           d == IF Passing \cup {"exported"} \subseteq e.attrs THEN b ELSE c
           loud == "exported" \in e.attrs
<1>1. PushExportedVar(c, e) = Dispose(d, e)
  BY DEF PushExportedVar
<1>2. ASSUME Passing \cup {"exported"} \subseteq e.attrs PROVE Leads(c, b, S, D, strict, loud)
  <2>1. /\ S \in Seq(Scopes(D)) /\ Len(S) >= 1 /\ scopes[Len(S)].scope = S[Len(S)].scope
        /\ CellsOK(c, S, D) /\ e.value \in Vals /\ e.attrs \in SUBSET Attributes
    BY EndingIs
  <2>2. "tempvar" \in e.attrs /\ "invisible" \notin e.attrs
    BY <1>2 DEF Passing, Plain
  <2>3. attrs \in SUBSET Attributes /\ "invisible" \notin attrs /\ (loud \/ "exported" \notin attrs)
    BY <2>1, <2>2
  <2> HIDE DEF attrs, loud
  <2> QED BY <2>1, <2>3, BindInTopLeads
<1>3. Leads(c, c, S, D, strict, loud)
  BY LeadsSelf
<1> HIDE DEF b
<1>4. Leads(c, d, S, D, strict, "exported" \in e.attrs)
  BY <1>2, <1>3
<1> HIDE DEF d
<1> QED BY <1>1, <1>4, SettledIs

LEMMA PushPosixTempvarLeads ==
  ASSUME NEW D \in Nat, NEW S, NEW strict, NEW c, Good(c, S, D, strict), NEW e, Ending(c, S, D, e), Plain(e),
         NEW special
  PROVE  Settled(c, PushPosixTempvar(c, e, special), e, S, D, strict)
<1> DEFINE k == Bound(c)
           u == BindVariable(c, e.value)
           merged == Add(u, k, e.attrs)
           attrs == IF Top(c) = 1 THEN e.attrs \ Passing ELSE e.attrs
           dropped == Drop(merged, k, Passing)
           b == BindInTop(c, e.value, attrs)
           one == IF At(merged, k).context = 0 THEN dropped ELSE merged
           d == IF "tempvar" \in e.attrs /\ mode.posix /\ special THEN one
                ELSE IF Passing \subseteq e.attrs THEN b ELSE c
           loud == "exported" \in e.attrs
<1>0. /\ S \in Seq(Scopes(D)) /\ Len(S) >= 1 /\ S[1].scope = 0
      /\ CellsOK(c, S, D) /\ e.value \in Vals /\ e.attrs \in SUBSET Attributes
  BY EndingIs
<1>1. PushPosixTempvar(c, e, special) = Dispose(d, e)
  BY DEF PushPosixTempvar
<1>2. Passing \subseteq e.attrs => Leads(c, b, S, D, strict, loud)
  BY PassedLeads
<1>3. Leads(c, c, S, D, strict, loud)
  BY LeadsSelf
<1> HIDE DEF b, attrs
<1>4. ASSUME "tempvar" \in e.attrs PROVE Leads(c, one, S, D, strict, loud)
  <2>1. Leads(c, u, S, D, strict, loud) /\ IsBound(u, c, k, S)
    BY <1>0, BindVariableLeads
  <2> HIDE DEF u, k
  <2>2. /\ k \in 0..Len(S) /\ k # 0 /\ u.tab[k] # <<>> /\ "invisible" \notin At(u, k).attrs
        /\ At(u, k).context = S[k].scope /\ Good(u, S, D, strict)
    BY <2>1 DEF IsBound, Leads
  <2>3. /\ "tempvar" \in At(u, k).attrs \cup e.attrs => "invisible" \notin At(u, k).attrs \cup e.attrs
        /\ \/ k = 0 \/ loud \/ u.needs
           \/ "exported" \notin e.attrs /\ "invisible" \notin e.attrs
           \/ "exported" \notin At(u, k).attrs \cup e.attrs
    BY <1>4, <2>2 DEF Plain
  <2> HIDE DEF loud
  <2>4. IsLed(merged, u, k, Added(u, k, e.attrs), S, D, strict, loud)
    BY <1>0, <2>2, <2>3, AddLeads
  <2> HIDE DEF merged
  <2>5. /\ Leads(u, merged, S, D, strict, loud) /\ Good(merged, S, D, strict) /\ merged.tab[k] # <<>>
        /\ At(merged, k) = Added(u, k, e.attrs)
    BY <2>4 DEF IsLed, Leads
  <2>6. At(merged, k).context = S[k].scope
    <3>1. CellsOK(merged, S, D)
      BY <2>5 DEF Good
    <3>2. Fits(At(merged, k), k, S, D)
      BY <1>0, <2>2, <2>5, <3>1, AtFits
    <3> QED BY <2>2, <3>2 DEF Fits
  <2>7. ASSUME At(merged, k).context = 0 PROVE Leads(merged, dropped, S, D, strict, loud)
    <3>1. /\ \/ "tempvar" \notin Passing /\ "local" \notin Passing
             \/ k # 0 /\ S[k].scope = 0
          /\ \/ k = 0 \/ loud \/ merged.needs
             \/ "exported" \notin Passing /\ ("invisible" \notin Passing \/ "tempvar" \in At(merged, k).attrs)
      BY <2>2, <2>6, <2>7 DEF Passing
    <3>2. IsLed(dropped, merged, k, Dropped(merged, k, Passing), S, D, strict, loud)
      BY <2>2, <2>5, <3>1, DropLeads
    <3> QED BY <3>2 DEF IsLed
  <2>8. Leads(merged, one, S, D, strict, loud)
    BY <2>5, <2>7, LeadsSelf
  <2> QED BY <2>1, <2>5, <2>8, LeadsOn
<1> HIDE DEF one
<1>5. Leads(c, d, S, D, strict, "exported" \in e.attrs)
  BY <1>2, <1>3, <1>4
<1> HIDE DEF d
<1> QED BY <1>1, <1>5, SettledIs

LEMMA PushPosixTempVarLeads ==
  ASSUME NEW D \in Nat, NEW S, NEW strict, NEW c, Good(c, S, D, strict), NEW e, Ending(c, S, D, e),
         Plain(e), "tempvar" \in e.attrs
  PROVE  Settled(c, PushPosixTempVar(c, e), e, S, D, strict)
<1> DEFINE k == Bound(c)
           u == BindVariable(c, e.value)
           local == "local" \in At(u, k).attrs
           global == At(u, k).context = 0
           attrs == IF global THEN e.attrs \ Passing ELSE e.attrs
           merged == Add(u, k, attrs)
           prop == {"propagate"}
           d == IF ~global /\ ~local THEN Add(merged, k, prop) ELSE Drop(merged, k, prop)
           loud == "exported" \in e.attrs
<1>0. /\ S \in Seq(Scopes(D)) /\ Len(S) >= 1
      /\ CellsOK(c, S, D) /\ e.value \in Vals /\ e.attrs \in SUBSET Attributes
  BY EndingIs
<1>1. PushPosixTempVar(c, e) = Dispose(d, e)
  BY DEF PushPosixTempVar
<1>2. Leads(c, u, S, D, strict, loud) /\ IsBound(u, c, k, S)
  BY <1>0, BindVariableLeads
<1>3. /\ attrs \in SUBSET Attributes /\ "invisible" \notin attrs /\ (loud \/ "exported" \notin attrs)
      /\ prop \in SUBSET Attributes /\ "tempvar" \notin prop /\ "local" \notin prop
      /\ "exported" \notin prop /\ "invisible" \notin prop
  BY <1>0 DEF Plain, Attributes
<1> HIDE DEF u, k, local, global, attrs, prop, loud
<1>4. /\ k \in 0..Len(S) /\ k # 0 /\ u.tab[k] # <<>> /\ "invisible" \notin At(u, k).attrs
      /\ Good(u, S, D, strict)
  BY <1>2 DEF IsBound, Leads
<1>5. /\ "invisible" \notin At(u, k).attrs \cup attrs
      /\ \/ k = 0 \/ loud \/ u.needs
         \/ "exported" \notin attrs /\ "invisible" \notin attrs
         \/ "exported" \notin At(u, k).attrs \cup attrs
  BY <1>3, <1>4
<1>6. IsLed(merged, u, k, Added(u, k, attrs), S, D, strict, loud)
  BY <1>3, <1>4, <1>5, AddLeads
<1> HIDE DEF merged
<1>7. Leads(u, merged, S, D, strict, loud) /\ Good(merged, S, D, strict) /\ merged.tab[k] # <<>>
  BY <1>6 DEF IsLed, Leads
<1>8. Leads(merged, Add(merged, k, prop), S, D, strict, loud)
  BY <1>3, <1>4, <1>7, AddAnyLeads
<1>9. Leads(merged, Drop(merged, k, prop), S, D, strict, loud)
  <2>1. IsLed(Drop(merged, k, prop), merged, k, Dropped(merged, k, prop), S, D, strict, loud)
    BY <1>3, <1>4, <1>7, DropLeads
  <2> QED BY <2>1 DEF IsLed
<1>10. Leads(merged, d, S, D, strict, loud)
  BY <1>8, <1>9
<1> HIDE DEF d
<1>11. Leads(c, d, S, D, strict, "exported" \in e.attrs)
  BY <1>2, <1>7, <1>10, LeadsOn DEF loud
<1> QED BY <1>1, <1>11, SettledIs
(* What is left of one name's cells when a context has ended, and the      *)
(* variable of it, if there is one                                         *)
LEMMA LeftGood ==
  ASSUME NEW D \in Nat, NEW R, NEW S, Left(R, S, D), NEW strict, NEW c, Good(c, S, D, strict),
         NEW q, q = c.tab[Top(c)]
  PROVE  /\ Good(LeftOf(c), R, D, strict)
         /\ q \in Seq(Var(D)) /\ Len(q) \in 0..1 /\ (Len(q) = 0 <=> q = <<>>)
         /\ q # <<>> => Plain(q[1]) /\ Ending(LeftOf(c), R, D, q[1])
<1>1. /\ R \in Seq(Scopes(D)) /\ Len(R) >= 1 /\ R[1].scope = 0 /\ Len(R) \in Nat
      /\ S \in Seq(Scopes(D)) /\ Len(S) = Len(R) + 1 /\ \A k \in 1..Len(R) : R[k] = S[k]
  BY LenProperties DEF Left
<1>2. CellsOK(c, S, D) /\ Tidy(c, S, strict)
  BY DEF Good
<1>3. /\ LeftOf(c) \in CellSet(R, D) /\ q \in Seq(Var(D)) /\ Top(c) = Len(R) + 1
      /\ \A k \in 0..Len(R) : LeftOf(c).tab[k] = c.tab[k]
  BY <1>2, LeftOfOK
<1>4. Tidy(LeftOf(c), R, strict)
  <2> SUFFICES ASSUME NEW k \in 0..Len(R) PROVE Short(LeftOf(c).tab[k], k, R, strict)
    BY DEF Tidy
  <2>1. k \in 0..Len(S)
    BY <1>1
  <2>2. Short(c.tab[k], k, S, strict) /\ LeftOf(c).tab[k] = c.tab[k]
    BY <1>2, <1>3, <2>1 DEF Tidy
  <2>3. k # 0 => R[k] = S[k]
    BY <1>1
  <2> QED BY <2>2, <2>3 DEF Short, Neat
<1>5. Good(LeftOf(c), R, D, strict)
  BY <1>1, <1>3, <1>4, InCellSet DEF Good
<1>6. Top(c) \in 0..Len(S)
  BY <1>1, <1>3
<1>7. Short(q, Top(c), S, strict)
  BY <1>2, <1>6 DEF Tidy
<1>8. Len(q) \in 0..1 /\ (Len(q) = 0 <=> q = <<>>)
  <2> DEFINE m == Len(q)
  <2>1. m <= 1
    BY <1>7 DEF Short
  <2>2. m \in Nat
    BY <1>3, LenProperties
  <2>3. m = 0 <=> q = <<>>
    BY <1>3, EmptySeq
  <2> HIDE DEF m
  <2>4. m \in 0..1
    BY <2>1, <2>2
  <2> QED BY <2>3, <2>4 DEF m
<1>9. ASSUME q # <<>> PROVE Plain(q[1]) /\ Ending(LeftOf(c), R, D, q[1])
  <2>1. Plain(q[1])
    BY <1>7, <1>9 DEF Short, Neat, Plain
  <2>2. 1 \in 1..Len(q)
    BY <1>8, <1>9
  <2>3. Ending(LeftOf(c), R, D, q[1])
    BY <1>3, <2>2, LeftEnding
  <2> QED BY <2>1, <2>3
<1> QED BY <1>3, <1>5, <1>8, <1>9

LEMMA AfterPop ==
  ASSUME NEW D \in Nat, NEW R, NEW S, Left(R, S, D), NEW strict, NEW c, Good(c, S, D, strict),
         NEW q, q = c.tab[Top(c)], NEW d,
         \/ q = <<>> /\ d = LeftOf(c)
         \/ q # <<>> /\ Settled(LeftOf(c), d, q[1], R, D, strict)
  PROVE  Leads(c, d, R, D, strict, FALSE)
<1> DEFINE b == LeftOf(c)
           n == Len(R)
<1>1. CellsOK(c, S, D) /\ n \in Nat /\ Len(S) = n + 1 /\ 0 \in 0..n
  BY LenProperties DEF Good, Left
<1>2. /\ b.needs = c.needs /\ Top(c) = n + 1
      /\ \A k \in 0..n : b.tab[k] = c.tab[k]
  BY <1>1, LeftOfOK
<1>3. Good(b, R, D, strict)
  BY LeftGood
<1> HIDE DEF b
<1>4. Leads(b, d, R, D, strict, FALSE)
  BY <1>3, LeadsSelf DEF Settled, b
<1>5. ASSUME Offer(q) = {} PROVE Shows(b) = Shows(c)
  <2>1. IsShown(Shows(b), b, n) /\ IsShown(Shows(c), c, n + 1)
    BY <1>1, <1>3, ShowsIs
  <2>2. \A k \in 0..n : Offer(b.tab[k]) = Offer(c.tab[k])
    BY <1>2
  <2>3. \A k \in n + 1..n + 1 : Offer(c.tab[k]) = {}
    <3>1. \A k \in n + 1..n + 1 : k = n + 1
      BY <1>1
    <3> QED BY <1>2, <1>5, <3>1
  <2> HIDE DEF n
  <2> QED BY <1>1, <2>1, <2>2, <2>3, ShownOnce
<1>6. ~d.needs => Offer(q) = {}
  <2>1. CASE q = <<>>
    BY <2>1 DEF Offer
  <2>2. CASE q # <<>>
    BY <2>2 DEF Offer, Candidate, Settled
  <2> QED BY <2>1, <2>2
<1>7. Good(d, R, D, strict) /\ Follow(b, d, FALSE)
  BY <1>4 DEF Leads
<1>8. Follow(c, d, FALSE)
  BY <1>1, <1>2, <1>5, <1>6, <1>7 DEF Follow
<1> QED BY <1>7, <1>8 DEF Leads

(* pop_scope *)
LEMMA PopScopeLeads ==
  ASSUME NEW D \in Nat, NEW R, NEW S, Left(R, S, D), NEW strict, NEW c, Good(c, S, D, strict), NEW keep,
         strict => keep
  PROVE  Leads(c, PopScope(c, keep), R, D, strict, FALSE)
<1> DEFINE X == CellSet(R, D)
           base == LeftOf(c)
           gone == c.tab[Top(c)]
           n == Len(gone)
           f == [x \in X |-> [i \in 1..n |-> PushPosixTempvar(x, gone[i], TRUE)]]
           g == [x \in X |-> [i \in 1..n |-> PushExportedVar(x, gone[i])]]
           posix == Ended(base, gone, LAMBDA d, e : PushPosixTempvar(d, e, TRUE))
           plain == Ended(base, gone, PushExportedVar)
<1>1. PopScope(c, keep) = IF keep THEN posix ELSE plain
  BY DEF PopScope, Popped, LeftOf
<1>2. base \in X /\ gone \in Seq(Var(D))
  BY LeftOfOK DEF Good
<1>c. gone = c.tab[Top(c)] /\ base = LeftOf(c)
  OBVIOUS
<1> HIDE DEF gone, base
<1>3. /\ Good(base, R, D, strict) /\ n \in 0..1 /\ (n = 0 <=> gone = <<>>)
      /\ gone # <<>> => Plain(gone[1]) /\ Ending(base, R, D, gone[1])
  BY <1>c, LeftGood
<1>4. \A d \in X : \A i \in 1..Len(gone) : Ending(d, R, D, gone[i])
  BY <1>2, LeftEnding
<1>5. \A d \in X : \A i \in 1..Len(gone) : PushPosixTempvar(d, gone[i], TRUE) \in X
  <2>1. \A d \in X : \A i \in 1..Len(gone) : CellsOK(PushPosixTempvar(d, gone[i], TRUE), R, D)
    BY <1>4, PushPosixTempvarOK
  <2> QED BY <2>1, InCellSet
<1>6. \A d \in X : \A i \in 1..Len(gone) : PushExportedVar(d, gone[i]) \in X
  <2>1. \A d \in X : \A i \in 1..Len(gone) : CellsOK(PushExportedVar(d, gone[i]), R, D)
    BY <1>4, PushExportedVarOK
  <2> QED BY <2>1, InCellSet
<1>7. n = 0 \/ (1 \in 1..n /\ n # 0)
  BY <1>3
<1> HIDE DEF X
<1>8. ASSUME keep PROVE Leads(c, posix, R, D, strict, FALSE)
  <2>1. EndsAs(posix, base, n, f, X)
    BY <1>2, <1>5, EndPosixScope
  <2>2. 1 \in 1..n => f[base][1] = PushPosixTempvar(base, gone[1], TRUE)
    BY <1>2
  <2> HIDE DEF posix, f
  <2>3. posix = IF n = 0 THEN base ELSE f[base][1]
    <3> HIDE DEF n
    <3> QED BY <1>3, <2>1, EndsOnce
  <2> HIDE DEF n
  <2>4. gone # <<>> => Settled(base, PushPosixTempvar(base, gone[1], TRUE), gone[1], R, D, strict)
    BY <1>3, PushPosixTempvarLeads
  <2>5. \/ gone = <<>> /\ posix = base
        \/ gone # <<>> /\ Settled(base, posix, gone[1], R, D, strict)
    BY <1>3, <1>7, <2>2, <2>3, <2>4
  <2> QED BY <1>c, <2>5, AfterPop
<1>9. ASSUME ~keep PROVE Leads(c, plain, R, D, strict, FALSE)
  <2>1. EndsAs(plain, base, n, g, X)
    BY <1>2, <1>6, EndScope
  <2>2. 1 \in 1..n => g[base][1] = PushExportedVar(base, gone[1])
    BY <1>2
  <2> HIDE DEF plain, g
  <2>3. plain = IF n = 0 THEN base ELSE g[base][1]
    <3> HIDE DEF n
    <3> QED BY <1>3, <2>1, EndsOnce
  <2> HIDE DEF n
  <2>4. gone # <<>> => Settled(base, PushExportedVar(base, gone[1]), gone[1], R, D, strict)
    BY <1>3, <1>9, PushExportedVarLeads
  <2>5. \/ gone = <<>> /\ plain = base
        \/ gone # <<>> /\ Settled(base, plain, gone[1], R, D, strict)
    BY <1>3, <1>7, <2>2, <2>3, <2>4
  <2> QED BY <1>c, <2>5, AfterPop
<1> HIDE DEF posix, plain
<1> QED BY <1>1, <1>8, <1>9

(* pop_var_context *)
LEMMA PopVarContextLeads ==
  ASSUME NEW D \in Nat, NEW R, NEW S, Left(R, S, D), NEW strict, NEW c, Good(c, S, D, strict)
  PROVE  Leads(c, PopVarContext(c), R, D, strict, FALSE)
<1> DEFINE X == CellSet(R, D)
           base == LeftOf(c)
           gone == c.tab[Top(c)]
           n == Len(gone)
           f == [x \in X |-> [i \in 1..n |-> PushPosixTempvar(x, gone[i], FALSE)]]
           all == Ended(base, gone, LAMBDA d, e : PushPosixTempvar(d, e, FALSE))
<1>1. PopVarContext(c) = all
  BY DEF PopVarContext, Popped, LeftOf
<1>2. base \in X /\ gone \in Seq(Var(D))
  BY LeftOfOK DEF Good
<1>c. gone = c.tab[Top(c)] /\ base = LeftOf(c)
  OBVIOUS
<1> HIDE DEF gone, base
<1>3. /\ Good(base, R, D, strict) /\ n \in 0..1 /\ (n = 0 <=> gone = <<>>)
      /\ gone # <<>> => Plain(gone[1]) /\ Ending(base, R, D, gone[1])
  BY <1>c, LeftGood
<1>4. \A d \in X : \A i \in 1..Len(gone) : Ending(d, R, D, gone[i])
  BY <1>2, LeftEnding
<1>5. \A d \in X : \A i \in 1..Len(gone) : PushPosixTempvar(d, gone[i], FALSE) \in X
  <2>1. \A d \in X : \A i \in 1..Len(gone) : CellsOK(PushPosixTempvar(d, gone[i], FALSE), R, D)
    BY <1>4, PushPosixTempvarOK
  <2> QED BY <2>1, InCellSet
<1>7. n = 0 \/ (1 \in 1..n /\ n # 0)
  BY <1>3
<1> HIDE DEF X
<1>8. EndsAs(all, base, n, f, X)
  BY <1>2, <1>5, EndFunction
<1>9. 1 \in 1..n => f[base][1] = PushPosixTempvar(base, gone[1], FALSE)
  BY <1>2
<1> HIDE DEF all, f
<1>10. all = IF n = 0 THEN base ELSE f[base][1]
  <2> HIDE DEF n
  <2> QED BY <1>3, <1>8, EndsOnce
<1> HIDE DEF n
<1>11. gone # <<>> => Settled(base, PushPosixTempvar(base, gone[1], FALSE), gone[1], R, D, strict)
  BY <1>3, PushPosixTempvarLeads
<1>12. \/ gone = <<>> /\ all = base
       \/ gone # <<>> /\ Settled(base, all, gone[1], R, D, strict)
  BY <1>3, <1>7, <1>9, <1>10, <1>11
<1>13. Leads(c, all, R, D, strict, FALSE)
  BY <1>c, <1>12, AfterPop
<1> QED BY <1>1, <1>13

(* dispose_temporary_env: nothing is left of it, and the array has to be   *)
(* made again.                                                             *)
Cleared(d, S, D, strict) == Good(d, S, D, strict) /\ d.needs /\ d.tab[0] = <<>>

LEMMA DisposeTempenvClears ==
  ASSUME NEW D \in Nat, NEW S, Near(S, D), NEW strict, NEW c, Good(c, S, D, strict)
  PROVE  /\ Cleared(DisposeTemporaryEnv(c, PropagateTempVar), S, D, strict)
         /\ Cleared(DisposeTemporaryEnv(c, PushPosixTempVar), S, D, strict)
<1> DEFINE X == CellSet(S, D)
           base == [c EXCEPT !.tab[0] = <<>>]
           gone == c.tab[0]
           n == Len(gone)
           f == [x \in X |-> [i \in 1..n |-> PropagateTempVar(x, gone[i])]]
           g == [x \in X |-> [i \in 1..n |-> PushPosixTempVar(x, gone[i])]]
           one == Ended(base, gone, PropagateTempVar)
           two == Ended(base, gone, PushPosixTempVar)
           E == <<>>
<1>1. /\ DisposeTemporaryEnv(c, PropagateTempVar) = [one EXCEPT !.needs = TRUE]
      /\ DisposeTemporaryEnv(c, PushPosixTempVar) = [two EXCEPT !.needs = TRUE]
  BY DEF DisposeTemporaryEnv
<1>0. /\ CellsOK(c, S, D) /\ S \in Seq(Scopes(D)) /\ 0 \in 0..Len(S) /\ Tidy(c, S, strict)
      /\ Len(S) >= 1 /\ S[1].scope = 0
  BY LenProperties DEF Good
<1>2. base \in X /\ gone \in Seq(Var(D))
  BY <1>0, EmptiedOK
<1>3. \A d \in X : \A i \in 1..Len(gone) : Ending(d, S, D, gone[i])
  BY <1>0, EmptiedOK
<1>4. base = Changed(c, 0, E, c.needs)
  <2>1. c = [tab |-> c.tab, needs |-> c.needs]
    BY <1>0 DEF CellsOK
  <2> QED BY <2>1 DEF Changed
<1>5. Len(E) = 0 /\ E \in Seq(Var(D))
  OBVIOUS
<1> HIDE DEF E
<1>6. Short(E, 0, S, strict) /\ Cell(E, 0, S, D)
  BY <1>5 DEF Short, Cell, E
<1>7. base.tab[0] = E /\ CellsOK(base, S, D) /\ \A j \in 0..Len(S) : j # 0 => base.tab[j] = c.tab[j]
  <2>1. c.needs \in BOOLEAN
    BY <1>0 DEF CellsOK
  <2> HIDE DEF base
  <2> QED BY <1>0, <1>4, <1>6, <2>1, ChangedOK
<1> HIDE DEF base
<1>8. Good(base, S, D, strict)
  <2>1. Tidy(base, S, strict)
    <3> SUFFICES ASSUME NEW j \in 0..Len(S) PROVE Short(base.tab[j], j, S, strict)
      BY DEF Tidy
    <3>1. CASE j = 0
      BY <1>6, <1>7, <3>1
    <3>2. CASE j # 0
      BY <1>0, <1>7, <3>2 DEF Tidy
    <3> QED BY <3>1, <3>2
  <2> QED BY <1>0, <1>7, <2>1 DEF Good
<1>9. Short(gone, 0, S, strict) /\ n \in 0..1 /\ (n = 0 <=> gone = E)
  <2>1. Short(gone, 0, S, strict)
    BY <1>0 DEF Tidy
  <2>2. Len(gone) \in Nat /\ (gone = E <=> Len(gone) = 0)
    BY <1>2, LenProperties, EmptySeq DEF E
  <2>3. Len(gone) <= 1
    BY <2>1 DEF Short
  <2> HIDE DEF gone
  <2> QED BY <2>1, <2>2, <2>3
<1>10. gone # E => Plain(gone[1]) /\ "tempvar" \in gone[1].attrs
  BY <1>9 DEF Short, Neat, Plain, E
<1>11. n = 0 \/ (1 \in 1..n /\ n # 0)
  BY <1>9
<1> HIDE DEF gone
<1>12. \A d \in X : \A i \in 1..Len(gone) : PropagateTempVar(d, gone[i]) \in X
  <2>1. \A d \in X : \A i \in 1..Len(gone) : CellsOK(PropagateTempVar(d, gone[i]), S, D)
    BY <1>3, PropagateTempVarOK
  <2> QED BY <2>1, InCellSet
<1>13. \A d \in X : \A i \in 1..Len(gone) : PushPosixTempVar(d, gone[i]) \in X
  <2>1. \A d \in X : \A i \in 1..Len(gone) : CellsOK(PushPosixTempVar(d, gone[i]), S, D)
    BY <1>3, PushPosixTempVarOK
  <2> QED BY <2>1, InCellSet
<1>14. 1 \in 1..n => Ending(base, S, D, gone[1])
  BY <1>2, <1>3
<1> HIDE DEF X
<1>15. Leads(base, one, S, D, strict, FALSE)
  <2>1. EndsAs(one, base, n, f, X)
    BY <1>2, <1>12, EndTempenv
  <2>2. 1 \in 1..n => f[base][1] = PropagateTempVar(base, gone[1])
    BY <1>2
  <2> HIDE DEF one, f
  <2>3. one = IF n = 0 THEN base ELSE f[base][1]
    <3> HIDE DEF n
    <3> QED BY <1>9, <2>1, EndsOnce
  <2> HIDE DEF n
  <2>4. 1 \in 1..n /\ n # 0 => Leads(base, PropagateTempVar(base, gone[1]), S, D, strict, FALSE)
    BY <1>8, <1>9, <1>10, <1>14, PropagateTempVarLeads DEF Settled
  <2> QED BY <1>8, <1>11, <2>2, <2>3, <2>4, LeadsSelf
<1>16. Leads(base, two, S, D, strict, FALSE)
  <2>1. EndsAs(two, base, n, g, X)
    BY <1>2, <1>13, EndPosixTempenv
  <2>2. 1 \in 1..n => g[base][1] = PushPosixTempVar(base, gone[1])
    BY <1>2
  <2> HIDE DEF two, g
  <2>3. two = IF n = 0 THEN base ELSE g[base][1]
    <3> HIDE DEF n
    <3> QED BY <1>9, <2>1, EndsOnce
  <2> HIDE DEF n
  <2>4. 1 \in 1..n /\ n # 0 => Leads(base, PushPosixTempVar(base, gone[1]), S, D, strict, FALSE)
    BY <1>8, <1>9, <1>10, <1>14, PushPosixTempVarLeads DEF Settled
  <2> QED BY <1>8, <1>11, <2>2, <2>3, <2>4, LeadsSelf
<1> HIDE DEF one, two, n
<1>17. ASSUME NEW d, Leads(base, d, S, D, strict, FALSE)
       PROVE  Cleared([d EXCEPT !.needs = TRUE], S, D, strict)
  <2>1. Good(d, S, D, strict) /\ d.tab[0] = E /\ CellsOK(d, S, D)
    BY <1>7, <1>17 DEF Leads, Follow, Good, E
  <2>2. TRUE \in BOOLEAN
    OBVIOUS
  <2>3. Leads(d, [d EXCEPT !.needs = TRUE], S, D, strict, FALSE)
    BY <2>1, FlagLeads
  <2>4. [d EXCEPT !.needs = TRUE].needs = TRUE
    BY <2>1, <2>2, FlagOK
  <2> QED BY <2>1, <2>3, <2>4 DEF Leads, Follow, Cleared, E
<1> QED BY <1>1, <1>15, <1>16, <1>17
LEMMA PushedLeads ==
  ASSUME NEW D \in Nat, NEW S, NEW strict, NEW c, Good(c, S, D, strict), NEW e \in Scopes(D)
  PROVE  /\ Leads(c, Pushed(c, e.scope), Append(S, e), D, strict, FALSE)
         /\ Pushed(c, e.scope).tab[0] = <<>>
<1> DEFINE n == Len(S)
           T == Append(S, e)
           d == Pushed(c, e.scope)
           g == c.tab[0]
           q == [i \in DOMAIN g |-> [g[i] EXCEPT !.context = e.scope]]
           E == <<>>
<1>0. /\ CellsOK(c, S, D) /\ S \in Seq(Scopes(D)) /\ n \in Nat /\ n >= 1 /\ S[1].scope = 0
      /\ Tidy(c, S, strict) /\ 0 \in 0..n /\ g \in Seq(Var(D))
  BY LenProperties DEF Good, CellsOK, TabOK
<1>1. /\ CellsOK(d, T, D) /\ d.needs = c.needs /\ d.tab[0] = E /\ d.tab[n + 1] = q
      /\ \A k \in 1..n : d.tab[k] = c.tab[k]
  BY <1>0, PushedOK
<1>2. /\ T \in Seq(Scopes(D)) /\ Len(T) = n + 1
      /\ \A k \in 1..n : T[k] = S[k]
  BY <1>0, AppendProperties
<1>3. T[1].scope = 0
  BY <1>0, <1>2
<1>4. DOMAIN g = 1..Len(g) /\ Len(g) \in Nat /\ (g = E <=> Len(g) = 0)
  BY <1>0, LenProperties, EmptySeq
<1>5. Short(g, 0, S, strict)
  BY <1>0 DEF Tidy
<1>6. q \in Seq(Var(D)) /\ Len(q) \in Nat /\ (q = E <=> Len(q) = 0)
  <2>1. n + 1 \in 0..n + 1
    BY <1>0
  <2>2. q \in Seq(Var(D))
    <3> HIDE DEF q
    <3> QED BY <1>1, <1>2, <2>1 DEF CellsOK, TabOK
  <2> HIDE DEF q
  <2> QED BY <2>2, LenProperties, EmptySeq
<1>7. Len(q) = Len(g) /\ (Len(g) = 1 => q[1] = [g[1] EXCEPT !.context = e.scope])
  <2>1. DOMAIN q = 1..Len(q) /\ DOMAIN q = 1..Len(g)
    <3>1. DOMAIN q = 1..Len(g)
      BY <1>4
    <3> HIDE DEF q
    <3> QED BY <1>6, <3>1, LenProperties
  <2>2. Len(g) = 1 => q[1] = [g[1] EXCEPT !.context = e.scope]
    <3> SUFFICES ASSUME Len(g) = 1 PROVE q[1] = [g[1] EXCEPT !.context = e.scope]
      OBVIOUS
    <3>1. 1 \in DOMAIN g
      BY <1>4
    <3> QED BY <3>1
  <2>3. Len(q) = Len(g)
    <3> DEFINE m == Len(g)
               l == Len(q)
    <3>1. m \in Nat /\ l \in Nat /\ 1..l = 1..m
      <4> HIDE DEF q, g
      <4> QED BY <1>4, <1>6, <2>1
    <3> HIDE DEF m, l, q, g
    <3>2. l = m
      BY <3>1
    <3> QED BY <3>2 DEF m, l
  <2> QED BY <2>2, <2>3
<1> HIDE DEF q, d, T, E
<1>8. Short(q, n + 1, T, strict)
  <2> DEFINE m == Len(g)
  <2>1. m <= 1 /\ m \in Nat /\ (q # E => m # 0)
    BY <1>4, <1>5, <1>6, <1>7 DEF Short
  <2> HIDE DEF m
  <2>2. CASE q = E
    <3>1. Len(E) = 0
      BY DEF E
    <3> QED BY <2>2, <3>1 DEF Short, E
  <2>3. CASE q # E
    <3>1. m = 1 /\ n + 1 # 0
      BY <1>0, <2>1, <2>3
    <3>2. Neat(g[1], 0, S, strict) /\ g[1] \in Var(D)
      <4>1. g # E /\ Len(g) = 1
        BY <1>4, <3>1 DEF m
      <4>2. 1 \in 1..Len(g)
        BY <4>1
      <4> QED BY <1>0, <1>5, <4>1, <4>2, ElementOfSeq DEF Short, E
    <3>3. q[1] = [g[1] EXCEPT !.context = e.scope]
      BY <1>7, <3>1 DEF m
    <3>4. q[1].attrs = g[1].attrs /\ q[1].str = g[1].str /\ q[1].value = g[1].value
      BY <3>2, <3>3 DEF Var
    <3>5. Neat(q[1], n + 1, T, strict)
      BY <3>1, <3>2, <3>4 DEF Neat
    <3> QED BY <1>7, <3>1, <3>5 DEF Short, m
  <2> QED BY <2>2, <2>3
<1>a. \A k \in 0..n + 1 : k = 0 \/ k \in 1..n \/ k = n + 1
  BY <1>0
<1>9. Tidy(d, T, strict)
  <2> SUFFICES ASSUME NEW k \in 0..n + 1 PROVE Short(d.tab[k], k, T, strict)
    BY <1>2 DEF Tidy
  <2>1. CASE k = 0
    <3>1. Len(E) = 0
      BY DEF E
    <3> QED BY <1>1, <2>1, <3>1 DEF Short, E
  <2>2. CASE k \in 1..n
    <3>1. k \in 0..n /\ T[k] = S[k] /\ d.tab[k] = c.tab[k]
      BY <1>0, <1>1, <1>2, <2>2
    <3>2. Short(c.tab[k], k, S, strict)
      BY <1>0, <3>1 DEF Tidy
    <3> QED BY <3>1, <3>2 DEF Short, Neat
  <2>3. CASE k = n + 1
    BY <1>1, <1>8, <2>3
  <2> QED BY <1>a, <2>1, <2>2, <2>3
<1>10. Good(d, T, D, strict)
  BY <1>0, <1>1, <1>2, <1>3, <1>9 DEF Good
<1>11. ASSUME g = E PROVE Shows(d) = Shows(c)
  <2>1. IsShown(Shows(c), c, n) /\ IsShown(Shows(d), d, n + 1)
    BY <1>2, <1>10, ShowsIs
  <2>2. q = E
    BY <1>4, <1>6, <1>7, <1>11
  <2>3. Offer(q) = {} /\ Offer(d.tab[0]) = {} /\ Offer(c.tab[0]) = {}
    BY <1>1, <1>11, <2>2 DEF Offer, E
  <2>4. \A k \in 0..n : Offer(c.tab[k]) = Offer(d.tab[k])
    <3> SUFFICES ASSUME NEW k \in 0..n PROVE Offer(c.tab[k]) = Offer(d.tab[k])
      OBVIOUS
    <3>1. k = 0 \/ k \in 1..n
      BY <1>0
    <3> QED BY <1>1, <2>3, <3>1
  <2>5. \A k \in n + 1..n + 1 : Offer(d.tab[k]) = {}
    <3>1. \A k \in n + 1..n + 1 : k = n + 1
      BY <1>0
    <3> QED BY <1>1, <2>3, <3>1
  <2>6. n <= n + 1 /\ n + 1 \in Nat
    BY <1>0
  <2>7. Shows(c) = Shows(d)
    BY <1>0, <2>1, <2>4, <2>5, <2>6, ShownOnce
  <2> QED BY <2>7
<1>12. Follow(c, d, FALSE)
  BY <1>1, <1>11 DEF Follow, g, E
<1> QED BY <1>1, <1>10, <1>12 DEF Leads, d, T, E

(* make_env_array_from_var_list caches the string it gives away. *)
LEMMA SavedShows ==
  ASSUME NEW D \in Nat, NEW S, NEW strict, NEW c, Good(c, S, D, strict)
  PROVE  /\ Good(Saved(c), S, D, strict)
         /\ Shows(Saved(c)) = Shows(c) /\ EnvOf(c) = Shows(c)
         /\ Saved(c).tab[0] = <<>> <=> c.tab[0] = <<>>
<1> DEFINE p == Chosen(c)
           E == <<>>
<1>0. CellsOK(c, S, D) /\ S \in Seq(Scopes(D)) /\ Tidy(c, S, strict)
  BY DEF Good
<1>1. IsChosen(p, c)
  BY <1>0, ChosenIs
<1>2. /\ DOMAIN c.tab = 0..Len(S) /\ c.tab \in [0..Len(S) -> Seq(Var(D))]
      /\ c = [tab |-> c.tab, needs |-> c.needs] /\ c.needs \in BOOLEAN
  BY <1>0 DEF CellsOK, TabOK
<1>3. /\ EnvOf(c) = IF p = E THEN None ELSE EnvString(c.tab[p[1]][p[2]])
      /\ Saved(c) = IF p = E THEN c ELSE [c EXCEPT !.tab[p[1]][p[2]].str = EnvOf(c)]
      /\ Shows(c) = IF p = E THEN None ELSE c.tab[p[1]][p[2]].value
  BY DEF EnvOf, Saved, Shows
<1> HIDE DEF p
<1>4. CASE p = E
  BY <1>3, <1>4
<1>5. CASE p # E
  <2>1. PICK k \in DOMAIN c.tab : \E i \in DOMAIN c.tab[k] : p = <<k, i>> /\ Candidate(c.tab[k][i])
    BY <1>1, <1>5 DEF IsChosen
  <2>2. PICK i \in DOMAIN c.tab[k] : p = <<k, i>> /\ Candidate(c.tab[k][i])
    BY <2>1
  <2>3. p[1] = k /\ p[2] = i
    BY <2>2
  <2> DEFINE q == c.tab[k]
             s == EnvOf(c)
             v == q[1]
             e == WithStr(v, s)
             r == [q EXCEPT ![1] = e]
             o == <<e>>
  <2>4. k \in 0..Len(S)
    BY <1>2
  <2>5. q \in Seq(Var(D)) /\ Short(q, k, S, strict) /\ DOMAIN q = 1..Len(q) /\ Len(q) \in Nat
        /\ (q = E <=> Len(q) = 0)
    BY <1>0, <1>2, <2>4, LenProperties, EmptySeq DEF Tidy
  <2>6. i = 1 /\ Len(q) = 1 /\ q # E
    <3>1. i \in 1..Len(q) /\ Len(q) <= 1
      BY <2>2, <2>5 DEF Short
    <3> HIDE DEF q
    <3> QED BY <2>5, <3>1
  <2>7. Fits(v, k, S, D) /\ Neat(v, k, S, strict) /\ v = At(c, k)
    <3>1. v = At(c, k)
      BY DEF At
    <3> QED BY <2>4, <2>6, <3>1, AtNeat
  <2>8. s = EnvString(v) /\ Shows(c) = v.value
    BY <1>3, <1>5, <2>3, <2>6
  <2>9. [c EXCEPT !.tab[k][1].str = s] = Changed(c, k, r, c.needs)
    <3>1. [c EXCEPT !.tab[k][1].str = s] = [c EXCEPT !.tab = [@ EXCEPT ![k] = r]]
      BY <1>2, <2>6 DEF WithStr
    <3> HIDE DEF r, q, v, s, e, o
    <3> DEFINE t == [c.tab EXCEPT ![k] = r]
    <3>2. [c EXCEPT !.tab = [@ EXCEPT ![k] = r]] = [tab |-> t, needs |-> c.needs]
      <4>1. [c EXCEPT !.tab = [@ EXCEPT ![k] = r]] = [c EXCEPT !.tab = t]
        OBVIOUS
      <4>2. c = [tab |-> c.tab, needs |-> c.needs]
        BY <1>2
      <4> HIDE DEF t
      <4>3. [c EXCEPT !.tab = t] = [tab |-> t, needs |-> c.needs]
        BY <4>2
      <4> QED BY <4>1, <4>3
    <3>3. Changed(c, k, r, c.needs) = [tab |-> [c.tab EXCEPT ![k] = r], needs |-> c.needs]
      BY <1>2 DEF Changed
    <3> QED BY <3>1, <3>2, <3>3
  <2>10. Saved(c) = Changed(c, k, r, c.needs)
    BY <1>3, <1>5, <2>3, <2>6, <2>9
  <2>b. /\ Offer(c.tab[k]) = IF Candidate(v) THEN {v.value} ELSE {}
        /\ Offer(o) = IF Candidate(e) THEN {e.value} ELSE {}
    BY <2>6, <2>7, OfferAt, OfferOne
  <2> HIDE DEF v, s
  <2>11. s = v.value
    <3>1. v.str \in {None, v.value}
      BY <2>7 DEF Neat
    <3> QED BY <2>8, <3>1 DEF EnvString
  <2>12. e \in Var(D) /\ e.value = v.value /\ e.str = v.value /\ e.attrs = v.attrs /\ e.context = v.context
    <3>1. v \in Var(D) /\ v.value \in Vals
      BY <2>7 DEF Fits, Var
    <3> QED BY <2>11, <3>1 DEF WithStr, Var
  <2>13. Fits(e, k, S, D) /\ Neat(e, k, S, strict)
    BY <2>7, <2>12 DEF Fits, Neat
  <2> HIDE DEF e
  <2>14. r = o
    <3>1. r = <<e>> \o Rest(q)
      <4> HIDE DEF q
      <4> QED BY <2>5, <2>6, <2>12, FirstChanged
    <3>2. Rest(q) = E
      <4>1. Len(q) <= 1
        BY <2>5 DEF Short
      <4> HIDE DEF q
      <4> QED BY <2>5, <4>1, ShortRest
    <3>3. o \in Seq(Var(D))
      BY <2>12
    <3> HIDE DEF o, r
    <3>4. o \o E = o
      BY <3>3, ConcatEmptySeq
    <3> QED BY <3>1, <3>2, <3>4 DEF o
  <2> HIDE DEF r
  <2>15. Cell(o, k, S, D) /\ Short(o, k, S, strict) /\ o # E /\ Offer(o) = Offer(c.tab[k])
    <3>1. Len(o) = 1 /\ o[1] = e /\ o \in Seq(Var(D)) /\ Len(E) = 0
      BY <2>12
    <3>2. Offer(o) = Offer(c.tab[k])
      BY <2>12, <2>b DEF Candidate
    <3>a. Len(o) = 1 /\ Len(E) = 0
      BY <3>1
    <3> HIDE DEF o, E
    <3>3. o # E
      BY <3>a
    <3> QED BY <2>13, <3>1, <3>2, <3>3 DEF Cell, Short
  <2> HIDE DEF o
  <2> DEFINE d == Changed(c, k, o, c.needs)
  <2>16. \/ k = 0 /\ c.tab[0] # <<>>
         \/ k # 0 /\ (FALSE \/ c.needs \/ Offer(o) = Offer(c.tab[k]))
    BY <2>6, <2>15
  <2>17. Leads(c, d, S, D, strict, FALSE)
    <3> DEFINE flag == c.needs
    <3>1. flag \in BOOLEAN /\ (c.needs => flag)
      BY <1>2
    <3>2. \/ k = 0 /\ c.tab[0] # <<>>
          \/ k # 0 /\ (FALSE \/ flag \/ Offer(o) = Offer(c.tab[k]))
      BY <2>16
    <3> HIDE DEF flag
    <3>3. Leads(c, Changed(c, k, o, flag), S, D, strict, FALSE)
      BY <2>4, <2>15, <3>1, <3>2, ChangedLeads
    <3> QED BY <3>3 DEF flag
  <2>18. d.tab[k] = o /\ \A j \in 0..Len(S) : j # k => d.tab[j] = c.tab[j]
    BY <1>0, <1>2, <2>4, <2>15, ChangedOK
  <2>19. Saved(c) = d
    BY <2>10, <2>14
  <2> HIDE DEF d
  <2>20. Good(d, S, D, strict)
    BY <2>17 DEF Leads
  <2>21. Shows(d) = Shows(c)
    <3>1. \A j \in 0..Len(S) : Offer(c.tab[j]) = Offer(d.tab[j])
      BY <2>15, <2>18
    <3> QED BY <2>20, <3>1, SameShows
  <2>22. d.tab[0] = E <=> c.tab[0] = E
    <3>1. 0 \in 0..Len(S)
      BY <1>0, LenProperties
    <3>2. k = 0 => d.tab[0] # E /\ c.tab[0] # E
      BY <2>6, <2>15, <2>18
    <3> QED BY <2>18, <3>1, <3>2
  <2> QED BY <2>8, <2>11, <2>19, <2>20, <2>21, <2>22 DEF s, E
<1> QED BY <1>4, <1>5
-----------------------------------------------------------------------------
(* The shell again.  Inv2 is the inductive invariant of the second part;   *)
(* strict is the case that no scope drops its variables when it ends.      *)

Told(strict) ==
  /\ \A n \in Names : Good(InUse(n), scopes, mode.depth, strict)
  /\ ~needs => \A n \in Names : env[n] = Shows(InUse(n))

Timed ==
  /\ at = "ready" => \A n \in Names : tables[n][0] = <<>>
  /\ at = "prefix" => needs

AllKept == \A k \in DOMAIN scopes : scopes[k].kind = "builtin" => scopes[k].keep

Inv2(strict) == Inv1 /\ Told(strict) /\ Timed /\ (strict => AllKept)

(* What a command leaves of every name *)
Led(cols, S, D, strict) == \A n \in Names : Leads(InUse(n), cols[n], S, D, strict, FALSE)

Carried(c, d) == (c.needs => d.needs) /\ (d.needs \/ Shows(d) = Shows(c))

LEMMA SameTab ==
  ASSUME NEW D, NEW S, NEW strict, NEW c, Good(c, S, D, strict), NEW t, t = c.tab, NEW flag \in BOOLEAN
  PROVE  Good([tab |-> t, needs |-> flag], S, D, strict) /\ Shows([tab |-> t, needs |-> flag]) = Shows(c)
<1> DEFINE d == [tab |-> t, needs |-> flag]
<1>1. d.tab = c.tab /\ d.needs = flag /\ d = [tab |-> d.tab, needs |-> d.needs]
  OBVIOUS
<1> HIDE DEF d
<1>2. CellsOK(c, S, D) /\ Tidy(c, S, strict)
  BY DEF Good
<1>3. CellsOK(d, S, D)
  BY <1>1, <1>2 DEF CellsOK
<1>4. Tidy(d, S, strict)
  BY <1>1, <1>2 DEF Tidy
<1>5. Chosen(d) = Chosen(c)
  BY <1>1 DEF Chosen
<1>6. Shows(d) = Shows(c)
  BY <1>1, <1>5 DEF Shows
<1> QED BY <1>3, <1>4, <1>6 DEF Good, d

LEMMA BecomeTold ==
  ASSUME NEW strict, Told(strict), NEW cols, Become(cols), UNCHANGED <<mode, env>>,
         \A n \in Names : Good(cols[n], scopes', mode.depth, strict) /\ Carried(InUse(n), cols[n])
  PROVE  Told(strict)' /\ \A n \in Names : tables'[n] = cols[n].tab
<1>1. /\ \A n \in Names : tables'[n] = cols[n].tab
      /\ needs' = (\E n \in Names : cols[n].needs) /\ needs' \in BOOLEAN
  BY DEF Become
<1>2. ASSUME NEW n \in Names
      PROVE  /\ Good([tab |-> tables'[n], needs |-> needs'], scopes', mode.depth, strict)
             /\ Shows([tab |-> tables'[n], needs |-> needs']) = Shows(cols[n])
  <2> DEFINE c == cols[n]
             t == tables'[n]
             flag == needs'
             D == mode.depth
             S == scopes'
  <2>1. Good(c, S, D, strict) /\ t = c.tab /\ flag \in BOOLEAN
    BY <1>1
  <2> HIDE DEF c, t, flag, D, S
  <2>2. Good([tab |-> t, needs |-> flag], S, D, strict) /\ Shows([tab |-> t, needs |-> flag]) = Shows(c)
    BY <2>1, SameTab
  <2> QED BY <2>2 DEF c, t, flag, D, S
<1>3. ASSUME ~needs', NEW n \in Names PROVE env[n] = Shows(cols[n])
  <2>1. ~cols[n].needs
    BY <1>1, <1>3
  <2>2. ~InUse(n).needs /\ Shows(cols[n]) = Shows(InUse(n))
    BY <2>1 DEF Carried
  <2>3. ~needs
    BY <2>2 DEF InUse
  <2> QED BY <2>2, <2>3 DEF Told
<1> QED BY <1>1, <1>2, <1>3 DEF Told, InUse

LEMMA MaybeMakeTold ==
  ASSUME NEW strict, Told(strict), NEW cols, MaybeMakeExportEnv(cols), mode' = mode, mode.depth \in Nat,
         \A n \in Names : Good(cols[n], scopes', mode.depth, strict) /\ Carried(InUse(n), cols[n])
  PROVE  /\ Told(strict)' /\ needs' = FALSE
         /\ \A n \in Names : tables'[n][0] = <<>> <=> cols[n].tab[0] = <<>>
<1> DEFINE due == \E n \in Names : cols[n].needs
           Kept(n) == IF due THEN Saved(cols[n]) ELSE cols[n]
           E == <<>>
<1>1. /\ \A n \in Names : tables'[n] = Kept(n).tab
      /\ env' = (IF due THEN [n \in Names |-> EnvOf(cols[n])] ELSE env)
      /\ needs' = FALSE
  BY DEF MaybeMakeExportEnv
<1>2. ASSUME NEW n \in Names
      PROVE  /\ Good(Kept(n), scopes', mode.depth, strict) /\ Shows(Kept(n)) = Shows(cols[n])
             /\ Kept(n).tab[0] = E <=> cols[n].tab[0] = E
             /\ EnvOf(cols[n]) = Shows(cols[n])
  <2> DEFINE c == cols[n]
             D == mode.depth
             S == scopes'
  <2>1. Good(c, S, D, strict) /\ D \in Nat
    OBVIOUS
  <2> HIDE DEF c, D, S
  <2>2. /\ Good(Saved(c), S, D, strict) /\ Shows(Saved(c)) = Shows(c) /\ EnvOf(c) = Shows(c)
        /\ Saved(c).tab[0] = <<>> <=> c.tab[0] = <<>>
    BY <2>1, SavedShows
  <2> HIDE DEF E
  <2>3. /\ Good(Saved(c), S, D, strict) /\ Shows(Saved(c)) = Shows(c) /\ EnvOf(c) = Shows(c)
        /\ Saved(c).tab[0] = E <=> c.tab[0] = E
    BY <2>2 DEF E
  <2>4. Kept(n) = IF due THEN Saved(c) ELSE c
    BY DEF c
  <2> HIDE DEF Kept, due
  <2> QED BY <2>1, <2>3, <2>4 DEF c, D, S
<1>3. ASSUME NEW n \in Names PROVE env'[n] = Shows(cols[n])
  <2>1. CASE due
    BY <1>1, <1>2, <2>1
  <2>2. CASE ~due
    <3>1. ~cols[n].needs
      BY <2>2
    <3>2. ~InUse(n).needs /\ Shows(cols[n]) = Shows(InUse(n))
      BY <3>1 DEF Carried
    <3>3. ~needs /\ env' = env
      BY <1>1, <2>2, <3>2 DEF InUse
    <3> QED BY <3>2, <3>3 DEF Told
  <2> QED BY <2>1, <2>2
<1> HIDE DEF Kept, due
<1>4. ASSUME NEW n \in Names
      PROVE  /\ Good([tab |-> tables'[n], needs |-> needs'], scopes', mode.depth, strict)
             /\ Shows([tab |-> tables'[n], needs |-> needs']) = Shows(cols[n])
  <2> DEFINE c == Kept(n)
             t == tables'[n]
             flag == needs'
             D == mode.depth
             S == scopes'
  <2>1. Good(c, S, D, strict) /\ t = c.tab /\ flag \in BOOLEAN /\ Shows(c) = Shows(cols[n])
    BY <1>1, <1>2
  <2> HIDE DEF c, t, flag, D, S
  <2>2. Good([tab |-> t, needs |-> flag], S, D, strict) /\ Shows([tab |-> t, needs |-> flag]) = Shows(c)
    BY <2>1, SameTab
  <2> QED BY <2>1, <2>2 DEF c, t, flag, D, S
<1>5. Told(strict)'
  BY <1>3, <1>4 DEF Told, InUse
<1> QED BY <1>1, <1>2, <1>5

LEMMA LedCarried ==
  ASSUME NEW strict, Inv2(strict), at = "ready" \/ at = "prefix", NEW cols, NEW S, Led(cols, S, mode.depth, strict)
  PROVE  \A n \in Names : /\ Good(cols[n], S, mode.depth, strict) /\ Carried(InUse(n), cols[n])
                          /\ at = "ready" => cols[n].tab[0] = <<>>
<1> DEFINE E == <<>>
<1> SUFFICES ASSUME NEW n \in Names
             PROVE  /\ Good(cols[n], S, mode.depth, strict) /\ Carried(InUse(n), cols[n])
                    /\ at = "ready" => cols[n].tab[0] = E
  OBVIOUS
<1>1. /\ InUse(n).needs = needs /\ InUse(n).tab = tables[n]
      /\ at = "ready" => tables[n][0] = E
      /\ at = "prefix" => needs
  BY DEF InUse, Inv2, Timed
<1>2. Good(cols[n], S, mode.depth, strict) /\ Follow(InUse(n), cols[n], FALSE)
  BY DEF Led, Leads
<1>3. /\ InUse(n).needs => cols[n].needs
      /\ InUse(n).tab[0] = E => cols[n].tab[0] = E /\ (cols[n].needs \/ Shows(cols[n]) = Shows(InUse(n)))
  BY <1>2 DEF Follow
<1> HIDE DEF E
<1> QED BY <1>1, <1>2, <1>3 DEF Carried

(* A command that ends no temporary environment *)
LEMMA LedTold ==
  ASSUME NEW strict, Inv2(strict), at = "ready" \/ at = "prefix", NEW cols, Become(cols), UNCHANGED <<mode, env>>,
         Led(cols, scopes', mode.depth, strict)
  PROVE  /\ Told(strict)' /\ \A n \in Names : tables'[n] = cols[n].tab
         /\ at = "ready" => \A n \in Names : tables'[n][0] = <<>>
<1>1. \A n \in Names : /\ Good(cols[n], scopes', mode.depth, strict) /\ Carried(InUse(n), cols[n])
                       /\ at = "ready" => cols[n].tab[0] = <<>>
  BY LedCarried
<1>2. Told(strict)
  BY DEF Inv2
<1>3. Told(strict)' /\ \A n \in Names : tables'[n] = cols[n].tab
  BY <1>1, <1>2, BecomeTold
<1> QED BY <1>1, <1>3

(* The end of a command *)
LEMMA EndCommandTold ==
  ASSUME NEW strict, Inv2(strict), NEW cols, NEW special, EndCommand(cols, special), mode' = mode,
         Near(scopes', mode.depth), Led(cols, scopes', mode.depth, strict)
  PROVE  Told(strict)' /\ \A n \in Names : tables'[n][0] = <<>>
<1> DEFINE D == mode.depth
           one == [n \in Names |-> DisposeTemporaryEnv(cols[n], PropagateTempVar)]
           two == [n \in Names |-> DisposeTemporaryEnv(cols[n], PushPosixTempVar)]
<1>1. D \in Nat /\ Told(strict)
  BY Inv1Is DEF Inv2
<1>2. \/ at = "ready" /\ Become(cols) /\ UNCHANGED env
      \/ Become(two) /\ UNCHANGED env
      \/ MaybeMakeExportEnv(one)
  BY DEF EndCommand
<1>3. \A n \in Names : Cleared(one[n], scopes', D, strict) /\ Cleared(two[n], scopes', D, strict)
  <2>1. \A n \in Names : Good(cols[n], scopes', D, strict)
    BY DEF Led, Leads
  <2>2. \A n \in Names : /\ Cleared(DisposeTemporaryEnv(cols[n], PropagateTempVar), scopes', D, strict)
                         /\ Cleared(DisposeTemporaryEnv(cols[n], PushPosixTempVar), scopes', D, strict)
    BY <1>1, <2>1, DisposeTempenvClears
  <2> QED BY <2>2
<1> HIDE DEF one, two
<1>4. \A n \in Names : /\ Good(one[n], scopes', D, strict) /\ Carried(InUse(n), one[n]) /\ one[n].tab[0] = <<>>
                       /\ Good(two[n], scopes', D, strict) /\ Carried(InUse(n), two[n]) /\ two[n].tab[0] = <<>>
  BY <1>3 DEF Cleared, Carried
<1>5. CASE at = "ready" /\ Become(cols) /\ UNCHANGED env
  BY <1>5, LedTold
<1>6. CASE Become(two) /\ UNCHANGED env
  <2>1. Told(strict)' /\ \A n \in Names : tables'[n] = two[n].tab
    BY <1>1, <1>4, <1>6, BecomeTold
  <2> QED BY <1>4, <2>1
<1>7. CASE MaybeMakeExportEnv(one)
  <2>1. Told(strict)' /\ \A n \in Names : tables'[n][0] = <<>> <=> one[n].tab[0] = <<>>
    BY <1>1, <1>4, <1>7, MaybeMakeTold
  <2> QED BY <1>4, <2>1
<1> QED BY <1>2, <1>5, <1>6, <1>7

(* The commands keep Inv2. *)

LEMMA Inv2Is ==
  ASSUME NEW strict, Inv2(strict)
  PROVE  /\ Inv1 /\ mode.depth \in Nat /\ mode \in Modes /\ mode.names \subseteq Names
         /\ ChainOK(scopes, mode.depth) /\ Near(scopes, mode.depth) /\ Context \in 0..mode.depth
         /\ \A n \in Names : Good(InUse(n), scopes, mode.depth, strict)
         /\ at = "prefix" => \A n \in Names : InUse(n).needs
<1>1. Inv1 /\ Told(strict) /\ Timed
  BY DEF Inv2
<1> QED BY <1>1, Inv1Is, ChainNear DEF Told, Timed, InUse

LEMMA WithLed ==
  ASSUME NEW strict, Inv2(strict), NEW n \in Names, NEW c, Leads(InUse(n), c, scopes, mode.depth, strict, FALSE)
  PROVE  Led(With(n, c), scopes, mode.depth, strict)
<1>1. \A m \in Names : With(n, c)[m] = IF m = n THEN c ELSE InUse(m)
  BY DEF With, Columns
<1>2. \A m \in Names : Leads(InUse(m), InUse(m), scopes, mode.depth, strict, FALSE)
  BY Inv2Is, LeadsSelf
<1> QED BY <1>1, <1>2 DEF Led

LEMMA ColumnsLed ==
  ASSUME NEW strict, Inv2(strict)
  PROVE  Led(Columns, scopes, mode.depth, strict)
<1>1. \A n \in Names : Leads(InUse(n), InUse(n), scopes, mode.depth, strict, FALSE)
  BY Inv2Is, LeadsSelf
<1> QED BY <1>1 DEF Led, Columns

LEMMA PrefixTold ==
  ASSUME NEW strict, Inv2(strict), NEW n \in mode.names, NEW value \in Values, Prefix(n, value)
  PROVE  Told(strict)' /\ Timed'
<1> DEFINE D == mode.depth
           c == AssignInEnv(InUse(n), value)
           cols == With(n, c)
<1>1. n \in Names /\ value \in Vals
  BY Inv2Is DEF Vals
<1>2. Good(c, scopes, D, strict) /\ c.needs
  BY <1>1, Inv2Is, AssignInEnvTidy
<1>3. Become(cols) /\ at' = "prefix" /\ UNCHANGED <<mode, scopes, env>>
  BY DEF Prefix
<1> HIDE DEF c
<1>4. \A m \in Names : cols[m] = IF m = n THEN c ELSE InUse(m)
  BY DEF With, Columns
<1> HIDE DEF cols
<1>5. \A m \in Names : Good(cols[m], scopes', D, strict) /\ Carried(InUse(m), cols[m])
  BY <1>2, <1>3, <1>4, Inv2Is DEF Carried
<1>6. Told(strict)
  BY DEF Inv2
<1>7. Told(strict)'
  BY <1>3, <1>5, <1>6, BecomeTold
<1>8. needs'
  BY <1>1, <1>2, <1>3, <1>4 DEF Become
<1> QED BY <1>3, <1>7, <1>8 DEF Timed

LEMMA AssignTold ==
  ASSUME NEW strict, Inv2(strict), NEW n \in mode.names, NEW value \in Values, Assign(n, value)
  PROVE  Told(strict)' /\ Timed'
<1> DEFINE D == mode.depth
           c == BindVariable(InUse(n), value)
<1>1. n \in Names /\ value \in Vals
  BY Inv2Is DEF Vals
<1>2. Leads(InUse(n), c, scopes, D, strict, FALSE)
  BY <1>1, Inv2Is, BindVariableLeads
<1>3. at = "ready" /\ Become(With(n, c)) /\ UNCHANGED <<mode, scopes, env, at>>
  BY DEF Assign
<1> HIDE DEF c
<1>4. Led(With(n, c), scopes', D, strict)
  BY <1>1, <1>2, <1>3, WithLed
<1>5. Told(strict)' /\ \A m \in Names : tables'[m][0] = <<>>
  BY <1>3, <1>4, LedTold
<1> QED BY <1>3, <1>5 DEF Timed

LEMMA PushedAllLed ==
  ASSUME NEW strict, Inv2(strict), NEW e \in Scopes(mode.depth)
  PROVE  \A n \in Names : /\ Leads(InUse(n), Pushed(InUse(n), e.scope), Append(scopes, e), mode.depth, strict, FALSE)
                          /\ Pushed(InUse(n), e.scope).tab[0] = <<>>
BY Inv2Is, PushedLeads

LEMMA GrowTold ==
  ASSUME NEW strict, Inv2(strict), at = "ready" \/ at = "prefix", NEW e \in Scopes(mode.depth),
         scopes' = Append(scopes, e), Become([n \in Names |-> Pushed(InUse(n), e.scope)]), at' = "ready",
         UNCHANGED <<mode, env>>
  PROVE  Told(strict)' /\ Timed'
<1> DEFINE D == mode.depth
           E == <<>>
           cols == [n \in Names |-> Pushed(InUse(n), e.scope)]
<1>1. \A n \in Names : cols[n] = Pushed(InUse(n), e.scope)
  OBVIOUS
<1>2. \A n \in Names : /\ Leads(InUse(n), Pushed(InUse(n), e.scope), scopes', D, strict, FALSE)
                       /\ Pushed(InUse(n), e.scope).tab[0] = E
  BY PushedAllLed
<1> HIDE DEF cols, E
<1>3. Led(cols, scopes', D, strict) /\ \A n \in Names : cols[n].tab[0] = E
  BY <1>1, <1>2 DEF Led
<1>4. Told(strict)' /\ \A n \in Names : tables'[n] = cols[n].tab
  BY <1>3, LedTold DEF cols
<1>5. \A n \in Names : tables'[n][0] = E
  BY <1>3, <1>4
<1> QED BY <1>4, <1>5 DEF Timed, E

LEMMA CallTold ==
  ASSUME NEW strict, Inv2(strict), Call
  PROVE  Told(strict)' /\ Timed'
<1> DEFINE e == [kind |-> "func", scope |-> Context + 1, keep |-> FALSE]
<1>1. e \in Scopes(mode.depth) /\ e.scope = Context + 1
  <2>1. mode.depth \in Nat /\ ChainOK(scopes, mode.depth)
    BY Inv2Is
  <2>2. Context \in 0..mode.depth - 1
    BY <2>1, FuncContextIn
  <2>3. Context + 1 \in 0..mode.depth
    BY <2>1, <2>2
  <2> QED BY <2>3 DEF Scopes, Kinds
<1>2. /\ at = "ready" \/ at = "prefix"
      /\ scopes' = Append(scopes, e) /\ at' = "ready" /\ UNCHANGED <<mode, env>>
      /\ Become([n \in Names |-> Pushed(InUse(n), e.scope)])
  BY DEF Call
<1> HIDE DEF e
<1> QED BY <1>1, <1>2, GrowTold

LEMMA EvalTold ==
  ASSUME NEW strict, Inv2(strict), NEW keep \in BOOLEAN, Eval(keep)
  PROVE  Told(strict)' /\ Timed'
<1> DEFINE e == [kind |-> "builtin", scope |-> Context, keep |-> keep]
<1>1. e \in Scopes(mode.depth) /\ e.scope = Context
  BY Inv2Is DEF Scopes, Kinds
<1>2. /\ at = "prefix"
      /\ scopes' = Append(scopes, e) /\ at' = "ready" /\ UNCHANGED <<mode, env>>
      /\ Become([n \in Names |-> Pushed(InUse(n), e.scope)])
  BY DEF Eval
<1> HIDE DEF e
<1> QED BY <1>1, <1>2, GrowTold

LEMMA EndEvalTold ==
  ASSUME NEW strict, Inv2(strict), EndEval
  PROVE  Told(strict)' /\ Timed'
<1> DEFINE D == mode.depth
           R == Front(scopes)
           keep == Last(scopes).keep
           cols == [n \in Names |-> PopScope(InUse(n), keep)]
<1>1. /\ at = "ready" /\ Last(scopes).kind = "builtin" /\ scopes' = R /\ Become(cols)
      /\ UNCHANGED <<mode, env, at>>
  BY DEF EndEval
<1>2. Left(R, scopes, D) /\ D \in Nat
  BY <1>1, Inv2Is, ChainEnds
<1>3. strict => keep
  <2>1. scopes \in Seq(Scopes(D)) /\ Len(scopes) >= 1 /\ (strict => AllKept)
    BY Inv1Is DEF Inv2
  <2>2. Len(scopes) \in DOMAIN scopes /\ Last(scopes) = scopes[Len(scopes)]
    <3>1. Len(scopes) \in Nat /\ DOMAIN scopes = 1..Len(scopes)
      BY <2>1, LenProperties
    <3> QED BY <2>1, <3>1 DEF Last
  <2> QED BY <1>1, <2>1, <2>2 DEF AllKept
<1> HIDE DEF R, keep
<1>4. \A n \in Names : Leads(InUse(n), PopScope(InUse(n), keep), R, D, strict, FALSE)
  BY <1>2, <1>3, Inv2Is, PopScopeLeads
<1>5. Led(cols, scopes', D, strict)
  BY <1>1, <1>4 DEF Led
<1> HIDE DEF cols
<1>6. Told(strict)' /\ \A m \in Names : tables'[m][0] = <<>>
  BY <1>1, <1>5, LedTold
<1> QED BY <1>1, <1>6 DEF Timed

LEMMA ReturnTold ==
  ASSUME NEW strict, Inv2(strict), Return
  PROVE  Told(strict)' /\ Timed'
<1> DEFINE D == mode.depth
           R == Front(scopes)
           E == <<>>
           merged == [n \in Names |-> PopVarContext(DisposeTemporaryEnv(InUse(n), PushPosixTempVar))]
           plain == [n \in Names |-> PopVarContext(InUse(n))]
<1>1. /\ Last(scopes).kind = "func" /\ scopes' = R /\ at' = "ready" /\ UNCHANGED mode
      /\ \/ Become(merged) /\ UNCHANGED env
         \/ EndCommand(plain, FALSE)
  BY DEF Return
<1>2. Left(R, scopes, D) /\ Near(R, D) /\ D \in Nat /\ Near(scopes, D) /\ Told(strict)
  BY <1>1, Inv2Is, ChainEnds DEF Inv2
<1> HIDE DEF R
<1>3. CASE Become(merged) /\ UNCHANGED env
  <2>1. ASSUME NEW n \in Names
        PROVE  Good(merged[n], R, D, strict) /\ Carried(InUse(n), merged[n]) /\ merged[n].tab[0] = E
    <3> DEFINE d == DisposeTemporaryEnv(InUse(n), PushPosixTempVar)
               m == PopVarContext(d)
    <3>1. Cleared(d, scopes, D, strict)
      BY <1>2, Inv2Is, DisposeTempenvClears
    <3>2. merged[n] = m
      OBVIOUS
    <3> HIDE DEF d, merged
    <3>3. Good(d, scopes, D, strict) /\ d.needs /\ d.tab[0] = E
      BY <3>1 DEF Cleared
    <3>4. Leads(d, m, R, D, strict, FALSE)
      BY <1>2, <3>3, PopVarContextLeads
    <3> HIDE DEF m
    <3>5. Good(m, R, D, strict) /\ m.needs /\ m.tab[0] = E
      BY <3>3, <3>4 DEF Leads, Follow
    <3> QED BY <3>2, <3>5 DEF Carried
  <2> HIDE DEF merged, E
  <2>2. \A n \in Names : Good(merged[n], scopes', D, strict) /\ Carried(InUse(n), merged[n])
    BY <1>1, <2>1
  <2>3. Told(strict)' /\ \A n \in Names : tables'[n] = merged[n].tab
    BY <1>1, <1>2, <1>3, <2>2, BecomeTold
  <2>4. \A n \in Names : tables'[n][0] = E
    BY <2>1, <2>3
  <2> QED BY <1>1, <2>3, <2>4 DEF Timed, E
<1>4. CASE EndCommand(plain, FALSE)
  <2>1. \A n \in Names : Leads(InUse(n), PopVarContext(InUse(n)), R, D, strict, FALSE)
    BY <1>2, Inv2Is, PopVarContextLeads
  <2>2. Led(plain, scopes', D, strict)
    BY <1>1, <2>1 DEF Led
  <2> HIDE DEF plain
  <2>3. Told(strict)' /\ \A n \in Names : tables'[n][0] = <<>>
    BY <1>1, <1>2, <1>4, <2>2, EndCommandTold
  <2> QED BY <1>1, <2>3 DEF Timed
<1> QED BY <1>1, <1>3, <1>4

(* What a command does in a context of its own, made of the temporary      *)
(* environment                                                             *)
LEMMA AroundLed ==
  ASSUME NEW strict, Inv2(strict)
  PROVE  \E T \in Seq(Scopes(mode.depth)) :
           /\ Left(scopes, T, mode.depth)
           /\ \A n \in Names : Leads(InUse(n), Pushed(InUse(n), Context), T, mode.depth, strict, FALSE)
<1> DEFINE D == mode.depth
           e == [kind |-> "builtin", scope |-> Context, keep |-> FALSE]
           T == Append(scopes, e)
<1>1. e \in Scopes(D) /\ e.scope = (IF e.kind = "func" THEN Context + 1 ELSE Context) /\ e.scope = Context
  BY Inv2Is DEF Scopes, Kinds
<1> HIDE DEF e
<1>2. T \in Seq(Scopes(D)) /\ Left(scopes, T, D)
  BY <1>1, Inv2Is, ChainGrows
<1>3. \A n \in Names : Leads(InUse(n), Pushed(InUse(n), Context), T, D, strict, FALSE)
  BY <1>1, PushedAllLed
<1> QED BY <1>2, <1>3

NoTemp(c) == c.tab[0] = <<>>

LEMMA EndsLed ==
  ASSUME NEW D, NEW R, NEW T, NEW strict, NEW c, NEW p, NEW d, NEW q,
         Leads(c, p, T, D, strict, FALSE), Leads(p, d, T, D, strict, FALSE), Leads(d, q, R, D, strict, FALSE),
         c.needs, NoTemp(p)
  PROVE  Good(q, R, D, strict) /\ Carried(c, q) /\ NoTemp(q)
<1> DEFINE E == <<>>
<1>1. Good(d, T, D, strict) /\ d.needs /\ (p.tab[0] = E => d.tab[0] = E)
  BY DEF Leads, Follow
<1> HIDE DEF E
<1>3. Good(q, R, D, strict) /\ q.needs /\ (d.tab[0] = E => q.tab[0] = E)
  BY <1>1 DEF Leads, Follow, E
<1>4. Carried(c, q)
  BY <1>3 DEF Carried
<1>5. NoTemp(q)
  BY <1>1, <1>3 DEF NoTemp, E
<1> QED BY <1>3, <1>4, <1>5

LEMMA ReadTold ==
  ASSUME NEW strict, ~strict, Inv2(strict), NEW n \in mode.names, NEW value \in Values, Read(n, value)
  PROVE  Told(strict)' /\ Timed'
<1> DEFINE D == mode.depth
           E == <<>>
           Pushing(m) == Pushed(InUse(m), Context)
           Doing(m) == IF m = n THEN BindVariable(Pushing(m), value) ELSE Pushing(m)
           cols == [m \in Names |-> LET pushed == Pushed(InUse(m), Context)
                                    IN PopScope(IF m = n THEN BindVariable(pushed, value) ELSE pushed, FALSE)]
<1>1. at = "prefix" /\ Become(cols) /\ at' = "ready" /\ UNCHANGED <<mode, scopes, env>>
  BY DEF Read
<1>2. PICK T \in Seq(Scopes(D)) :
           /\ Left(scopes, T, D)
           /\ \A m \in Names : Leads(InUse(m), Pushing(m), T, D, strict, FALSE)
  BY AroundLed
<1>3. D \in Nat /\ value \in Vals /\ n \in Names /\ \A m \in Names : InUse(m).needs
  BY <1>1, Inv2Is DEF Vals
<1>4. ASSUME NEW m \in Names PROVE Leads(Pushing(m), Doing(m), T, D, strict, FALSE) /\ Pushing(m).tab[0] = E
  <2> DEFINE p == Pushing(m)
  <2>1. Good(p, T, D, strict)
    BY <1>2 DEF Leads
  <2>2. p.tab[0] = E
    <3> DEFINE e == [kind |-> "builtin", scope |-> Context, keep |-> FALSE]
    <3>1. e \in Scopes(D) /\ e.scope = Context
      BY Inv2Is DEF Scopes, Kinds
    <3> HIDE DEF e
    <3> QED BY <3>1, PushedAllLed
  <2> HIDE DEF p
  <2>3. Leads(p, BindVariable(p, value), T, D, strict, FALSE) /\ Leads(p, p, T, D, strict, FALSE)
    BY <1>3, <2>1, BindVariableLeads, LeadsSelf
  <2> QED BY <2>2, <2>3 DEF p
<1>5. \A m \in Names : cols[m] = PopScope(Doing(m), FALSE)
  OBVIOUS
<1> HIDE DEF cols, Doing, Pushing, E
<1>6. ASSUME NEW m \in Names
      PROVE  Good(cols[m], scopes, D, strict) /\ Carried(InUse(m), cols[m]) /\ cols[m].tab[0] = E
  <2> DEFINE c0 == InUse(m)
             p == Pushing(m)
             d == Doing(m)
             keep == FALSE
             q == PopScope(d, keep)
  <2>1. Leads(c0, p, T, D, strict, FALSE) /\ Leads(p, d, T, D, strict, FALSE) /\ c0.needs /\ Left(scopes, T, D) /\ D \in Nat
    BY <1>2, <1>3, <1>4
  <2>2. NoTemp(p)
    BY <1>4 DEF NoTemp, E
  <2>a. strict => keep
    OBVIOUS
  <2>d. Good(d, T, D, strict)
    BY <2>1 DEF Leads
  <2>4. cols[m] = q
    BY <1>5
  <2> HIDE DEF c0, p, d, keep
  <2>b. Leads(d, q, scopes, D, strict, FALSE)
    BY <2>1, <2>a, <2>d, PopScopeLeads
  <2>3. Good(q, scopes, D, strict) /\ Carried(c0, q) /\ NoTemp(q)
    BY <2>1, <2>2, <2>b, EndsLed
  <2> QED BY <2>3, <2>4 DEF NoTemp, E, c0
<1>7. \A m \in Names : Good(cols[m], scopes', D, strict) /\ Carried(InUse(m), cols[m])
  BY <1>1, <1>6
<1>8. Told(strict)
  BY DEF Inv2
<1>9. Told(strict)' /\ \A m \in Names : tables'[m] = cols[m].tab
  BY <1>1, <1>7, <1>8, BecomeTold
<1>10. \A m \in Names : tables'[m][0] = E
  BY <1>6, <1>9
<1> QED BY <1>1, <1>9, <1>10 DEF Timed, E

LEMMA UnsetTold ==
  ASSUME NEW strict, Inv2(strict), NEW n \in mode.names, Unset(n)
  PROVE  Told(strict)' /\ Timed'
<1> DEFINE D == mode.depth
           E == <<>>
           c == Makunbound(InUse(n))
           Pushing(m) == Pushed(InUse(m), Context)
           Doing(m) == IF m = n THEN Makunbound(Pushing(m)) ELSE Pushing(m)
           cols == [m \in Names |-> LET pushed == Pushed(InUse(m), Context)
                                    IN PopScope(IF m = n THEN Makunbound(pushed) ELSE pushed, TRUE)]
<1>1. /\ \/ at = "ready" /\ Become(With(n, c))
         \/ at = "prefix" /\ Become(cols)
      /\ at' = "ready" /\ UNCHANGED <<mode, scopes, env>>
  BY DEF Unset
<1>3. D \in Nat /\ n \in Names /\ (at = "prefix" => \A m \in Names : InUse(m).needs) /\ Told(strict)
  BY Inv2Is DEF Inv2
<1>a. CASE at = "ready" /\ Become(With(n, c))
  <2>1. Leads(InUse(n), c, scopes, D, strict, FALSE)
    BY <1>3, Inv2Is, MakunboundLeads
  <2> HIDE DEF c
  <2>2. Led(With(n, c), scopes', D, strict)
    BY <1>1, <1>3, <2>1, WithLed
  <2>3. Told(strict)' /\ \A m \in Names : tables'[m][0] = <<>>
    BY <1>1, <1>a, <2>2, LedTold
  <2> QED BY <1>1, <2>3 DEF Timed
<1>b. CASE at = "prefix" /\ Become(cols)
  <2>2. PICK T \in Seq(Scopes(D)) :
             /\ Left(scopes, T, D)
             /\ \A m \in Names : Leads(InUse(m), Pushing(m), T, D, strict, FALSE)
    BY AroundLed
  <2>4. ASSUME NEW m \in Names PROVE Leads(Pushing(m), Doing(m), T, D, strict, FALSE) /\ Pushing(m).tab[0] = E
    <3> DEFINE p == Pushing(m)
    <3>1. Good(p, T, D, strict)
      BY <2>2 DEF Leads
    <3>2. p.tab[0] = E
      <4> DEFINE e == [kind |-> "builtin", scope |-> Context, keep |-> FALSE]
      <4>1. e \in Scopes(D) /\ e.scope = Context
        BY Inv2Is DEF Scopes, Kinds
      <4> HIDE DEF e
      <4> QED BY <4>1, PushedAllLed
    <3> HIDE DEF p
    <3>3. Leads(p, Makunbound(p), T, D, strict, FALSE) /\ Leads(p, p, T, D, strict, FALSE)
      BY <1>3, <3>1, MakunboundLeads, LeadsSelf
    <3> QED BY <3>2, <3>3 DEF p
  <2>5. \A m \in Names : cols[m] = PopScope(Doing(m), TRUE)
    OBVIOUS
  <2> HIDE DEF cols, Doing, Pushing, E
  <2>6. ASSUME NEW m \in Names
        PROVE  Good(cols[m], scopes, D, strict) /\ Carried(InUse(m), cols[m]) /\ cols[m].tab[0] = E
    <3> DEFINE c0 == InUse(m)
               p == Pushing(m)
               d == Doing(m)
               q == PopScope(d, TRUE)
    <3>1. Leads(c0, p, T, D, strict, FALSE) /\ Leads(p, d, T, D, strict, FALSE) /\ c0.needs /\ Left(scopes, T, D) /\ D \in Nat
      BY <1>b, <2>2, <1>3, <2>4
    <3>2. NoTemp(p)
      BY <2>4 DEF NoTemp, E
    <3>d. Good(d, T, D, strict)
      BY <3>1 DEF Leads
    <3> HIDE DEF c0, p, d
    <3>b. Leads(d, q, scopes, D, strict, FALSE)
      BY <3>1, <3>d, PopScopeLeads
    <3>3. Good(q, scopes, D, strict) /\ Carried(c0, q) /\ NoTemp(q)
      BY <3>1, <3>2, <3>b, EndsLed
    <3>4. cols[m] = q
      BY <2>5 DEF d
    <3> QED BY <3>3, <3>4 DEF NoTemp, E, c0
  <2>7. \A m \in Names : Good(cols[m], scopes', D, strict) /\ Carried(InUse(m), cols[m])
    BY <1>1, <2>6
  <2>9. Told(strict)' /\ \A m \in Names : tables'[m] = cols[m].tab
    BY <1>1, <1>b, <2>7, <1>3, BecomeTold
  <2>10. \A m \in Names : tables'[m][0] = E
    BY <2>6, <2>9
  <2> QED BY <1>1, <2>9, <2>10 DEF Timed, E
<1> QED BY <1>1, <1>a, <1>b

LEMMA DeclareTold ==
  ASSUME NEW strict, Inv2(strict), NEW n \in mode.names, NEW value \in Vals, NEW on \in SUBSET {"exported"},
         NEW off \in SUBSET {"exported"}, DeclareCommand(n, value, on, off), OneLocal(InUse(n))
  PROVE  Told(strict)' /\ Timed'
<1> DEFINE D == mode.depth
           c == Declare(InUse(n), value, on, off)
<1>1. EndCommand(With(n, c), FALSE) /\ at' = "ready" /\ UNCHANGED <<mode, scopes>>
  BY DEF DeclareCommand
<1>2. n \in Names /\ Near(scopes', D)
  BY <1>1, Inv2Is
<1>3. Leads(InUse(n), c, scopes, D, strict, FALSE)
  BY <1>2, Inv2Is, DeclareLeads
<1> HIDE DEF c
<1>4. Led(With(n, c), scopes', D, strict)
  BY <1>1, <1>2, <1>3, WithLed
<1>5. Told(strict)' /\ \A m \in Names : tables'[m][0] = <<>>
  BY <1>1, <1>2, <1>4, EndCommandTold
<1> QED BY <1>1, <1>5 DEF Timed

LEMMA ExportTold ==
  ASSUME NEW strict, Inv2(strict), NEW n \in mode.names, NEW value \in Vals, NEW undo \in BOOLEAN,
         ExportCommand(n, value, undo)
  PROVE  Told(strict)' /\ Timed'
<1> DEFINE D == mode.depth
           a == IF value = None THEN InUse(n) ELSE BindVariable(InUse(n), value)
           c == Export(a, undo)
<1>1. EndCommand(With(n, c), TRUE) /\ at' = "ready" /\ UNCHANGED <<mode, scopes>>
  BY DEF ExportCommand
<1>2. n \in Names /\ Near(scopes', D) /\ D \in Nat /\ Good(InUse(n), scopes, D, strict)
  BY <1>1, Inv2Is
<1>3. Leads(InUse(n), a, scopes, D, strict, FALSE)
  <2>1. Leads(InUse(n), BindVariable(InUse(n), value), scopes, D, strict, FALSE)
    BY <1>2, BindVariableLeads
  <2>2. Leads(InUse(n), InUse(n), scopes, D, strict, FALSE)
    BY <1>2, LeadsSelf
  <2> QED BY <2>1, <2>2
<1> HIDE DEF a
<1>4. Leads(a, c, scopes, D, strict, FALSE)
  <2>1. Good(a, scopes, D, strict)
    BY <1>3 DEF Leads
  <2> QED BY <1>2, <2>1, ExportLeads
<1> HIDE DEF c
<1>5. Leads(InUse(n), c, scopes, D, strict, FALSE)
  BY <1>3, <1>4, LeadsOn
<1>6. Led(With(n, c), scopes', D, strict)
  BY <1>1, <1>2, <1>5, WithLed
<1>7. Told(strict)' /\ \A m \in Names : tables'[m][0] = <<>>
  BY <1>1, <1>2, <1>6, EndCommandTold
<1> QED BY <1>1, <1>7 DEF Timed

LEMMA SpecialTold ==
  ASSUME NEW strict, Inv2(strict), Special \/ EndExecute
  PROVE  Told(strict)' /\ Timed'
<1>1. (EndCommand(Columns, TRUE) \/ EndCommand(Columns, FALSE)) /\ at' = "ready" /\ UNCHANGED <<mode, scopes>>
  BY DEF Special, EndExecute
<1>2. Near(scopes', mode.depth) /\ Led(Columns, scopes', mode.depth, strict)
  BY <1>1, Inv2Is, ColumnsLed
<1>3. Told(strict)' /\ \A m \in Names : tables'[m][0] = <<>>
  BY <1>1, <1>2, EndCommandTold
<1> QED BY <1>1, <1>3 DEF Timed

LEMMA ExecuteTold ==
  ASSUME NEW strict, Inv2(strict), Execute
  PROVE  Told(strict)' /\ Timed'
<1> DEFINE E == <<>>
<1>1. /\ at = "ready" \/ at = "prefix"
      /\ MaybeMakeExportEnv(Columns) /\ at' = (IF at = "prefix" THEN "child" ELSE at) /\ UNCHANGED <<mode, scopes>>
  BY DEF Execute
<1>2. Told(strict) /\ mode.depth \in Nat
  BY Inv2Is DEF Inv2
<1>3. \A n \in Names : /\ Good(Columns[n], scopes', mode.depth, strict) /\ Carried(InUse(n), Columns[n])
                       /\ at = "ready" => Columns[n].tab[0] = E
  BY <1>1, ColumnsLed, LedCarried
<1> HIDE DEF E
<1>4. Told(strict)' /\ \A n \in Names : tables'[n][0] = E <=> Columns[n].tab[0] = E
  BY <1>1, <1>2, <1>3, MaybeMakeTold DEF E
<1>5. at' = "ready" => \A n \in Names : tables'[n][0] = E
  BY <1>1, <1>3, <1>4
<1>6. at' # "prefix"
  BY <1>1
<1> QED BY <1>4, <1>5, <1>6 DEF Timed, E

(* The contexts above the one of the current function have its level. *)
LEMMA AboveFunc ==
  ASSUME NEW D \in Nat, ChainOK(scopes, D), Context > 0, NEW k \in 1..Len(scopes), FuncContext <= k
  PROVE  scopes[k].scope = Context
<1> DEFINE S == scopes
           f == FuncContext
           T == SubSeq(S, 1, k)
<1>1. S \in Seq(Scopes(D)) /\ Levels(S) /\ Len(S) \in Nat
  BY LenProperties DEF ChainOK
<1>2. IsFiniteSet(Funcs(S)) /\ Level(S) = Cardinality(Funcs(S)) /\ Level(S) \in Nat
  BY <1>1, FuncsFinite DEF ChainOK
<1>3. Funcs(S) # {}
  BY <1>2, FS_EmptySet DEF Context
<1>4. Funcs(S) \in SUBSET Nat /\ \A j \in Funcs(S) : j <= Len(S)
  BY <1>1 DEF Funcs
<1>5. f = Highest(Funcs(S))
  BY DEF FuncContext, Funcs
<1>a. f <= k /\ k \in 1..Len(S)
  OBVIOUS
<1> HIDE DEF f
<1>6. f \in Funcs(S) /\ \A j \in Funcs(S) : j <= f
  BY <1>1, <1>3, <1>4, <1>5, HighestIn
<1>7. T \in Seq(Scopes(D)) /\ Len(T) = k /\ (\A j \in 1..k : T[j] = S[j])
  BY <1>1
<1>8. S[k].scope = Level(T)
  BY <1>1 DEF Levels
<1> HIDE DEF T
<1>9. DOMAIN T = 1..k /\ DOMAIN S = 1..Len(S)
  BY <1>1, <1>7
<1>10. Funcs(T) = Funcs(S)
  <2>1. \A j \in 1..Len(S) : j \in Funcs(S) => j \in 1..k
    BY <1>1, <1>4, <1>6, <1>a
  <2>2. \A j \in 1..k : j \in 1..Len(S)
    BY <1>1, <1>a
  <2> QED BY <1>7, <1>9, <2>1, <2>2 DEF Funcs
<1>11. Level(T) = Level(S)
  <2>1. Level(T) = Cardinality(Funcs(T))
    BY DEF Level, Funcs
  <2> QED BY <1>2, <1>10, <2>1
<1> QED BY <1>8, <1>11 DEF Context

LEMMA OneLocalHere ==
  ASSUME Inv2(TRUE), NEW n \in Names, ~Misplaced(InUse(n))
  PROVE  OneLocal(InUse(n))
<1> DEFINE c == InUse(n)
           D == mode.depth
           f == FuncContext
           v == VarLookup(c)
           E == <<>>
<1> SUFFICES ASSUME Context > 0, c.tab[f] # E PROVE IsLocalHere(c) \/ IsTempHere(c)
  BY DEF OneLocal
<1>1. D \in Nat /\ ChainOK(scopes, D) /\ Good(c, scopes, D, TRUE)
  BY Inv2Is
<1>2. scopes \in Seq(Scopes(D)) /\ CellsOK(c, scopes, D) /\ Len(scopes) \in Nat
  BY <1>1, LenProperties DEF Good
<1>3. Context \in 0..D - 1 /\ f \in 2..Len(scopes)
  BY <1>1, FuncContextIn
<1>4. ~InTempenv(c)
  BY DEF Misplaced
<1> HIDE DEF c, D, f
<1>5. /\ v \in 0..Len(scopes) /\ (v # 0 => c.tab[v] # E)
      /\ \A k \in 1..Len(scopes) : c.tab[k] # E => k <= v
  BY <1>1, <1>2, Lookup
<1> HIDE DEF v
<1>6. f <= v /\ v \in 1..Len(scopes) /\ v # 0 /\ c.tab[v] # E
  BY <1>2, <1>3, <1>5
<1>7. scopes[v].scope = Context
  BY <1>1, <1>6, AboveFunc DEF f
<1>8. Neat(At(c, v), v, scopes, TRUE) /\ Fits(At(c, v), v, scopes, D)
  BY <1>1, <1>5, <1>6, AtNeat
<1>9. "local" \in At(c, v).attrs \/ "tempvar" \in At(c, v).attrs
  BY <1>3, <1>6, <1>7, <1>8 DEF Neat
<1>10. At(c, v).context = Context /\ Found(c)
  BY <1>6, <1>7, <1>8 DEF Fits, Found, v
<1> QED BY <1>4, <1>6, <1>9, <1>10 DEF IsLocalHere, IsTempHere, Has, v

LEMMA KeptGrows ==
  ASSUME Inv1, AllKept, NEW e, scopes' = Append(scopes, e), e.kind = "builtin" => e.keep
  PROVE  AllKept'
<1> DEFINE T == Append(scopes, e)
           n == Len(scopes)
<1>1. DOMAIN scopes = 1..n /\ n \in Nat /\ DOMAIN T = 1..n + 1 /\ (\A k \in 1..n : T[k] = scopes[k]) /\ T[n + 1] = e
  <2>1. scopes \in Seq(Scopes(mode.depth))
    BY Inv1Is
  <2> QED BY <2>1
<1>2. scopes' = T
  OBVIOUS
<1> HIDE DEF T, n
<1>3. \A k \in 1..n + 1 : k \in 1..n \/ k = n + 1
  BY <1>1
<1> QED BY <1>1, <1>2, <1>3 DEF AllKept

LEMMA KeptEnds ==
  ASSUME Inv1, AllKept, scopes' = Front(scopes), Last(scopes).kind # "global"
  PROVE  AllKept'
<1> DEFINE T == Front(scopes)
           n == Len(scopes)
<1>1. mode.depth \in Nat /\ ChainOK(scopes, mode.depth) /\ scopes \in Seq(Scopes(mode.depth))
  BY Inv1Is
<1>2. Len(T) = n - 1 /\ \A k \in 1..n - 1 : T[k] = scopes[k]
  BY <1>1, ChainFront DEF Last
<1>3. ChainOK(T, mode.depth)
  BY <1>1, ChainFront DEF Last
<1>4. scopes' = T
  OBVIOUS
<1> HIDE DEF T
<1>5. DOMAIN T = 1..n - 1 /\ DOMAIN scopes = 1..n /\ n \in Nat
  <2>1. T \in Seq(Scopes(mode.depth))
    BY <1>3 DEF ChainOK
  <2> QED BY <1>1, <1>2, <2>1, LenProperties
<1> HIDE DEF n
<1>6. \A k \in 1..n - 1 : k \in 1..n
  BY <1>5
<1> QED BY <1>2, <1>4, <1>5, <1>6 DEF AllKept

(* A second variable of a name is never put in the table of a function,    *)
(* which the comment at make_local_variable rules out.                     *)
NoSecondLocal ==
  \A n \in Names, value \in Vals : \A on, off \in SUBSET {"exported"} :
    DeclareCommand(n, value, on, off) => OneLocal(InUse(n))

(* No scope drops its variables when it ends. *)
Dropless == ~Uses("command eval") /\ ~Uses("read")

LEMMA KeptKept ==
  ASSUME Inv1, AllKept, Dropless, [Next]_vars
  PROVE  AllKept'
<1>1. CASE UNCHANGED scopes
  BY <1>1 DEF AllKept
<1>2. ASSUME Call PROVE AllKept'
  <2> DEFINE e == [kind |-> "func", scope |-> Context + 1, keep |-> FALSE]
  <2>1. scopes' = Append(scopes, e) /\ e.kind = "func"
    BY <1>2 DEF Call
  <2> HIDE DEF e
  <2> QED BY <2>1, KeptGrows
<1>3. ASSUME NEW keep \in BOOLEAN, Eval(keep) PROVE AllKept'
  <2> DEFINE e == [kind |-> "builtin", scope |-> Context, keep |-> keep]
  <2>1. scopes' = Append(scopes, e) /\ e.keep = keep /\ Uses(IF keep THEN "eval" ELSE "command eval")
    BY <1>3 DEF Eval
  <2>2. keep
    BY <2>1 DEF Dropless
  <2>3. e.keep
    BY <2>1, <2>2
  <2> HIDE DEF e
  <2> QED BY <2>1, <2>3, KeptGrows
<1>4. ASSUME EndEval \/ Return PROVE AllKept'
  <2>1. scopes' = Front(scopes) /\ Last(scopes).kind # "global"
    BY <1>4 DEF EndEval, Return
  <2> QED BY <2>1, KeptEnds
<1>5. ASSUME NEW n, NEW value, Prefix(n, value) \/ Assign(n, value) \/ Read(n, value) PROVE UNCHANGED scopes
  BY <1>5 DEF Prefix, Assign, Read
<1>6. ASSUME NEW n, NEW value, NEW on, NEW off, DeclareCommand(n, value, on, off) PROVE UNCHANGED scopes
  BY <1>6 DEF DeclareCommand
<1>7. ASSUME NEW n, NEW value, NEW undo, ExportCommand(n, value, undo) PROVE UNCHANGED scopes
  BY <1>7 DEF ExportCommand
<1>8. ASSUME NEW n, Unset(n) PROVE UNCHANGED scopes
  BY <1>8 DEF Unset
<1>9. Special \/ Execute \/ EndExecute => UNCHANGED scopes
  BY DEF Special, Execute, EndExecute
<1>10. UNCHANGED vars => UNCHANGED scopes
  BY DEF vars
<1> QED BY <1>1, <1>2, <1>3, <1>4, <1>5, <1>6, <1>7, <1>8, <1>9, <1>10 DEF Next

LEMMA ToldKept ==
  ASSUME NEW strict, Inv2(strict), strict => Dropless, NoSecondLocal, [Next]_vars
  PROVE  Told(strict)' /\ Timed'
<1> DEFINE Goal == Told(strict)' /\ Timed'
<1>0. mode.names \subseteq Names
  BY Inv2Is
<1>1. ASSUME NEW n \in mode.names, NEW value \in Values, Prefix(n, value) \/ Assign(n, value) PROVE Goal
  BY <1>1, PrefixTold, AssignTold
<1>2. ASSUME NEW n \in mode.names, NEW value \in Values, Read(n, value) PROVE Goal
  <2>1. ~strict
    BY <1>2 DEF Read, Dropless
  <2> QED BY <1>2, <2>1, ReadTold
<1>3. ASSUME NEW n \in mode.names, NEW value \in Values \cup {None},
             NEW on \in SUBSET {"exported"}, NEW off \in SUBSET {"exported"}, DeclareCommand(n, value, on, off)
      PROVE  Goal
  <2>1. n \in Names /\ value \in Vals
    BY <1>0 DEF Vals
  <2>2. OneLocal(InUse(n))
    BY <1>3, <2>1 DEF NoSecondLocal
  <2> QED BY <1>3, <2>1, <2>2, DeclareTold
<1>4. ASSUME NEW n \in mode.names, NEW value \in Values \cup {None}, NEW undo \in BOOLEAN,
             ExportCommand(n, value, undo)
      PROVE  Goal
  BY <1>4, ExportTold DEF Vals
<1>5. ASSUME NEW n \in mode.names, Unset(n) PROVE Goal
  BY <1>5, UnsetTold
<1>6. ASSUME NEW keep \in BOOLEAN, Eval(keep) PROVE Goal
  BY <1>6, EvalTold
<1>7. ASSUME Call \/ EndEval \/ Return \/ Special \/ Execute \/ EndExecute PROVE Goal
  BY <1>7, CallTold, EndEvalTold, ReturnTold, SpecialTold, ExecuteTold
<1>8. ASSUME UNCHANGED vars PROVE Goal
  BY <1>8 DEF vars, Inv2, Told, Timed, InUse
<1> HIDE DEF Goal
<1>9. Goal
  BY <1>1, <1>2, <1>3, <1>4, <1>5, <1>6, <1>7, <1>8 DEF Next
<1> QED BY <1>9 DEF Goal

LEMMA Inv2Kept ==
  ASSUME NEW strict, Inv2(strict), strict => Dropless, NoSecondLocal, [Next]_vars
  PROVE  Inv2(strict)'
<1>1. Inv1'
  BY Inv1Kept DEF Inv2
<1>2. Told(strict)' /\ Timed'
  BY ToldKept
<1>3. ASSUME strict PROVE AllKept'
  BY <1>3, KeptKept DEF Inv2
<1> QED BY <1>1, <1>2, <1>3 DEF Inv2

LEMMA Inv2Begins ==
  ASSUME NEW strict, Init
  PROVE  Inv2(strict)
<1> DEFINE D == mode.depth
           E == <<>>
           g == [kind |-> "global", scope |-> 0, keep |-> FALSE]
<1>1. Inv1 /\ needs = TRUE /\ at = "ready"
  BY Inv1Begins DEF Init
<1>2. scopes = <<g>> /\ \A n \in Names : tables[n] = [k \in 0..1 |-> E]
  BY DEF Init
<1>3. scopes \in Seq(Scopes(D)) /\ Len(scopes) >= 1 /\ scopes[1].scope = 0
      /\ \A n \in Names : CellsOK(InUse(n), scopes, D)
  BY <1>1, Inv1Is
<1>4. Len(scopes) = 1 /\ DOMAIN scopes = {1} /\ scopes[1] = g
  BY <1>2
<1>5. Len(E) = 0
  OBVIOUS
<1>6. AllKept
  BY <1>4 DEF AllKept
<1>7. \A n \in Names : InUse(n).tab = tables[n]
  BY DEF InUse
<1> HIDE DEF E, g
<1>8. \A n \in Names : \A k \in 0..Len(scopes) : tables[n][k] = E
  BY <1>2, <1>4
<1>9. \A n \in Names : Tidy(InUse(n), scopes, strict)
  BY <1>5, <1>7, <1>8 DEF Tidy, Short, E
<1>10. \A n \in Names : Good(InUse(n), scopes, D, strict)
  BY <1>3, <1>9 DEF Good
<1>11. Told(strict)
  BY <1>1, <1>10 DEF Told
<1>12. Timed
  BY <1>1, <1>4, <1>8 DEF Timed, E
<1> QED BY <1>1, <1>6, <1>11, <1>12 DEF Inv2

LEMMA EnvFollows ==
  ASSUME NEW strict, Inv2(strict)
  PROVE  EnvTrue
<1>1. ~needs => \A n \in Names : env[n] = Shows(InUse(n))
  BY DEF Inv2, Told
<1>2. \A n \in Names : InUse(n).tab = tables[n]
  BY DEF InUse
<1> QED BY <1>1, <1>2 DEF EnvTrue, Shows

LEMMA Inv2Stutters ==
  ASSUME NEW strict, Inv2(strict), UNCHANGED vars
  PROVE  Inv2(strict)'
<1>1. Inv1'
  BY Inv1Kept DEF Inv2
<1> QED BY <1>1 DEF vars, Inv2, Told, Timed, InUse, AllKept

-----------------------------------------------------------------------------
(* EnvTrue always holds where no second variable of a name is put in the   *)
(* table of a function (make_local_variable): while array_needs_making is  *)
(* false, export_env gives children the strings of the variables that are  *)
(* exported and seen, of every name, whatever was cached in them, declared *)
(* around them, unset, or handed on by the contexts that have ended.       *)
THEOREM EnvTheorem == Spec /\ [][NoSecondLocal]_vars => []EnvTrue
<1>1. Init => Inv2(FALSE)
  BY Inv2Begins
<1>2. Inv2(FALSE) /\ [Next]_vars /\ [NoSecondLocal]_vars => Inv2(FALSE)'
  <2> SUFFICES ASSUME Inv2(FALSE), [Next]_vars, [NoSecondLocal]_vars PROVE Inv2(FALSE)'
    OBVIOUS
  <2>1. CASE NoSecondLocal
    <3> DEFINE strict == FALSE
    <3>1. Inv2(strict) /\ (strict => Dropless)
      OBVIOUS
    <3> HIDE DEF strict
    <3>2. Inv2(strict)'
      BY <2>1, <3>1, Inv2Kept
    <3> QED BY <3>2 DEF strict
  <2>2. CASE UNCHANGED vars
    BY <2>2, Inv2Stutters
  <2> QED BY <2>1, <2>2
<1>3. Inv2(FALSE) => EnvTrue
  BY EnvFollows
<1> QED BY <1>1, <1>2, <1>3, PTL DEF Spec

(* What a script may use for the same without the hypothesis: a second     *)
(* variable would need one in the table of the function that is neither    *)
(* local nor of the temporary environment, and only push_exported_var, at  *)
(* the end of a read or a command eval, leaves one there.                  *)
Separate == ~Uses("misplaced") /\ (Uses("declare") \/ Uses("declare -x") => Dropless)

Inv3 ==
  /\ Separate
  /\ Uses("declare") \/ Uses("declare -x") => Inv2(TRUE)
  /\ ~(Uses("declare") \/ Uses("declare -x")) => Inv2(FALSE)

LEMMA NoneSecond ==
  ASSUME Inv2(TRUE), ~Uses("misplaced")
  PROVE  NoSecondLocal
<1> SUFFICES ASSUME NEW n \in Names, NEW value \in Vals, NEW on \in SUBSET {"exported"},
                    NEW off \in SUBSET {"exported"}, DeclareCommand(n, value, on, off)
             PROVE  OneLocal(InUse(n))
  BY DEF NoSecondLocal
<1>1. ~Misplaced(InUse(n))
  BY DEF DeclareCommand
<1> QED BY <1>1, OneLocalHere

LEMMA ModeStays ==
  ASSUME [Next]_vars
  PROVE  mode' = mode
BY DEF Next, vars, Prefix, Assign, Read, DeclareCommand, ExportCommand, Unset, Eval, Call, EndEval, Return,
       Special, Execute, EndExecute

LEMMA Inv3Kept ==
  ASSUME Inv3, [Next]_vars
  PROVE  Inv3'
<1>1. mode' = mode
  BY ModeStays
<1>2. \A command : Uses(command)' <=> Uses(command)
  BY <1>1 DEF Uses
<1>3. Separate'
  BY <1>2 DEF Separate, Inv3, Dropless
<1>4. CASE Uses("declare") \/ Uses("declare -x")
  <2> DEFINE strict == TRUE
  <2>1. Inv2(TRUE) /\ Dropless /\ ~Uses("misplaced")
    BY <1>4 DEF Inv3, Separate
  <2>2. NoSecondLocal
    BY <2>1, NoneSecond
  <2>3. Inv2(strict) /\ (strict => Dropless)
    BY <2>1
  <2> HIDE DEF strict
  <2>4. Inv2(strict)'
    BY <2>2, <2>3, Inv2Kept
  <2>5. Inv2(TRUE)'
    BY <2>4 DEF strict
  <2> QED BY <1>2, <1>3, <1>4, <2>5 DEF Inv3
<1>5. CASE ~(Uses("declare") \/ Uses("declare -x"))
  <2> DEFINE strict == FALSE
  <2>1. NoSecondLocal
    <3>1. ASSUME NEW n, NEW value, NEW on, NEW off, DeclareCommand(n, value, on, off) PROVE FALSE
      BY <1>5, <3>1 DEF DeclareCommand
    <3> QED BY <3>1 DEF NoSecondLocal
  <2>2. Inv2(strict) /\ (strict => Dropless)
    BY <1>5 DEF Inv3
  <2> HIDE DEF strict
  <2>3. Inv2(strict)'
    BY <2>1, <2>2, Inv2Kept
  <2>4. Inv2(FALSE)'
    BY <2>3 DEF strict
  <2> QED BY <1>2, <1>3, <1>5, <2>4 DEF Inv3
<1> QED BY <1>4, <1>5

(* EnvTrue always holds in a script in which declare and local come        *)
(* together with no read and no command eval that has assignments before   *)
(* it, and never in the two cases that the comment at make_local_variable  *)
(* rules out: what children are given is what the variables say whenever   *)
(* array_needs_making is false.                                            *)
THEOREM ScriptTheorem == Spec /\ Separate => []EnvTrue
<1>1. Init /\ Separate => Inv3
  BY Inv2Begins DEF Inv3
<1>2. Inv3 /\ [Next]_vars => Inv3'
  BY Inv3Kept
<1>3. Inv3 => EnvTrue
  BY EnvFollows DEF Inv3
<1> QED BY <1>1, <1>2, <1>3, PTL DEF Spec

=============================================================================
