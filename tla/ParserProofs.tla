----------------------------- MODULE ParserProofs -----------------------------
(***************************************************************************)
(* The tables of constants, imports and used types that parse returns are  *)
(* those of the text, so are its functions with their label blocks and     *)
(* orders, and a sound text is parsed within its bounds, for any lines and *)
(* texts of any length.                                                    *)
(***************************************************************************)
EXTENDS Parser, FiniteSetTheorems, NaturalsInduction, WellFoundedInduction, TLAPS

-----------------------------------------------------------------------------
(***************************************************************************)
(* What Definitions says of a text, for any sequence of lines.             *)
(***************************************************************************)
\* The last keyword kw before position p of c; 0 when there is none.
LastIn(c, kw, p) == Max({q \in 1 .. p - 1 : c[q].kind = kw} \cup {0})

\* Where the section that begins at p ends.
EndIn(c, p) == Min({q \in p .. Len(c) : c[q].kind = "$end"} \cup {Len(c) + 1})

\* The entries of the section of kw that counts at p.
AtIn(c, kw, e, p) ==
  LET from == LastIn(c, kw, p)
  IN IF from = 0 THEN {} ELSE {k \in from + 1 .. EndIn(c, from) - 1 : c[k].kind = e}

\* The last entry of every index.
IndexIn(c, at) ==
  [i \in {c[k].index : k \in at} |-> Max({k \in at : c[k].index = i})]

DefsIn(c, kw, e, p) == IndexIn(c, AtIn(c, kw, e, p))

\* No section of kw is open at p.
ClosedIn(c, kw, p) ==
  \/ LastIn(c, kw, p) = 0
  \/ \E q \in LastIn(c, kw, p) + 1 .. p - 1 : c[q].kind = "$end"

\* The last section of c, of kw, is open.
OpenIn(c, kw) ==
  LET from == LastIn(c, kw, Len(c) + 1)
  IN from # 0 /\ \A q \in from .. Len(c) : c[q].kind # "$end"

\* Indexes from 0 on, none left out.
Dense(t) == DOMAIN t = 0 .. Cardinality(DOMAIN t) - 1
Bounded(t) == \E m \in Nat : DOMAIN t \subseteq 0 .. m

\* A table has for every index what the line that defines it stands for.
Matches(t, d, V) == DOMAIN t = DOMAIN d /\ \A i \in DOMAIN t : t[i] = V[d[i]]

\* Table t, or the map that is to become it, after the text c.  V says what
\* lines stand for, those whose names were known when they were read.
TableOK(c, end, kw, e, reading, t, V) ==
  /\ IF reading THEN OpenIn(c, kw)
     ELSE Dense(t) /\ (end = {} => ClosedIn(c, kw, Len(c) + 1))
  /\ Bounded(t)
  /\ AtIn(c, kw, e, Len(c) + 1) \subseteq DOMAIN V
  /\ Matches(t, DefsIn(c, kw, e, Len(c) + 1), V)

\* The greatest of a set of numbers up to a bound.
LEMMA MaxOf ==
  ASSUME NEW n \in Nat, NEW S \in SUBSET (0 .. n), S # {}
  PROVE  Max(S) \in S /\ \A x \in S : x <= Max(S)
  <1> DEFINE less == {ss \in Nat \X Nat : ss[1] < ss[2]}
             T == {m \in Nat : n - m \in S}
  <1>1. IsWellFoundedOn(less, Nat)
    BY NatLessThanWellFounded DEF OpToRel
  <1>2. T \in SUBSET Nat /\ T # {}
    <2>1. PICK k \in S : TRUE
      OBVIOUS
    <2>2. n - k \in Nat /\ n - (n - k) = k
      OBVIOUS
    <2> QED
      BY <2>1, <2>2
  <1>3. PICK m \in T : \A l \in T : <<l, m>> \notin less
    <2> HIDE DEF less, T
    <2> QED
      BY <1>1, <1>2, WFMin
  <1>4. n - m \in S /\ m \in Nat
    BY <1>3
  <1>5. ASSUME NEW l \in S PROVE l <= n - m
    <2>1. l \in 0 .. n /\ n - l \in Nat /\ n - (n - l) = l
      OBVIOUS
    <2>2. n - l \in T
      BY <2>1
    <2>3. ~(n - l < m)
      BY <1>3, <1>4, <2>1, <2>2
    <2> QED
      BY <1>4, <2>1, <2>3
  <1>6. \E x \in S : \A y \in S : x >= y
    BY <1>4, <1>5
  <1>7. Max(S) \in S /\ \A y \in S : Max(S) >= y
    BY <1>6 DEF Max
  <1> QED
    BY <1>7

\* The least of a set of numbers.
LEMMA MinOf ==
  ASSUME NEW S \in SUBSET Nat, S # {}
  PROVE  Min(S) \in S /\ \A x \in S : Min(S) <= x
  <1> DEFINE less == {ss \in Nat \X Nat : ss[1] < ss[2]}
  <1>1. IsWellFoundedOn(less, Nat)
    BY NatLessThanWellFounded DEF OpToRel
  <1>2. PICK m \in S : \A l \in S : <<l, m>> \notin less
    <2> HIDE DEF less
    <2> QED
      BY <1>1, WFMin
  <1>3. ASSUME NEW l \in S PROVE m <= l
    <2>1. l < m => <<l, m>> \in less
      OBVIOUS
    <2> HIDE DEF less
    <2> QED
      BY <1>2, <2>1
  <1> QED
    BY <1>3 DEF Min

\* The last keyword before a position.
LEMMA LastFacts ==
  ASSUME NEW c, Len(c) \in Nat, NEW kw, NEW p \in 1 .. Len(c) + 1
  PROVE  /\ LastIn(c, kw, p) \in 0 .. p - 1
         /\ LastIn(c, kw, p) # 0 => c[LastIn(c, kw, p)].kind = kw
         /\ \A q \in 1 .. p - 1 : c[q].kind = kw => q <= LastIn(c, kw, p)
  <1> DEFINE S == {q \in 1 .. p - 1 : c[q].kind = kw} \cup {0}
  <1>1. S \in SUBSET (0 .. p - 1) /\ S # {} /\ p - 1 \in Nat
    OBVIOUS
  <1>2. Max(S) \in S /\ \A x \in S : x <= Max(S)
    <2> HIDE DEF S
    <2> QED
      BY <1>1, MaxOf
  <1> QED
    BY <1>1, <1>2 DEF LastIn

\* These facts determine it.
LEMMA LastIs ==
  ASSUME NEW c, Len(c) \in Nat, NEW kw, NEW p \in 1 .. Len(c) + 1, NEW n \in 0 .. p - 1,
         n # 0 => c[n].kind = kw, \A q \in n + 1 .. p - 1 : c[q].kind # kw
  PROVE  LastIn(c, kw, p) = n
  <1>1. /\ LastIn(c, kw, p) \in 0 .. p - 1
        /\ LastIn(c, kw, p) # 0 => c[LastIn(c, kw, p)].kind = kw
        /\ \A q \in 1 .. p - 1 : c[q].kind = kw => q <= LastIn(c, kw, p)
    BY LastFacts
  <1>2. n <= LastIn(c, kw, p)
    BY <1>1
  <1>3. LastIn(c, kw, p) <= n
    BY <1>1
  <1> QED
    BY <1>1, <1>2, <1>3

\* The end of a section.
LEMMA EndFacts ==
  ASSUME NEW c, Len(c) \in Nat, NEW p \in 1 .. Len(c)
  PROVE  /\ EndIn(c, p) \in p .. Len(c) + 1
         /\ EndIn(c, p) # Len(c) + 1 => c[EndIn(c, p)].kind = "$end"
         /\ \A q \in p .. Len(c) : c[q].kind = "$end" => EndIn(c, p) <= q
  <1> DEFINE S == {q \in p .. Len(c) : c[q].kind = "$end"} \cup {Len(c) + 1}
  <1>1. S \in SUBSET Nat /\ S # {}
    OBVIOUS
  <1>2. Min(S) \in S /\ \A x \in S : Min(S) <= x
    <2> HIDE DEF S
    <2> QED
      BY <1>1, MinOf
  <1> QED
    BY <1>1, <1>2 DEF EndIn

\* These facts determine it.
LEMMA EndIs ==
  ASSUME NEW c, Len(c) \in Nat, NEW p \in 1 .. Len(c), NEW n \in p .. Len(c) + 1,
         n # Len(c) + 1 => c[n].kind = "$end",
         \A q \in p .. n - 1 : c[q].kind # "$end"
  PROVE  EndIn(c, p) = n
  <1>1. /\ EndIn(c, p) \in p .. Len(c) + 1
        /\ EndIn(c, p) # Len(c) + 1 => c[EndIn(c, p)].kind = "$end"
        /\ \A q \in p .. Len(c) : c[q].kind = "$end" => EndIn(c, p) <= q
    BY EndFacts
  <1>2. n <= EndIn(c, p)
    BY <1>1
  <1>3. EndIn(c, p) <= n
    BY <1>1
  <1> QED
    BY <1>1, <1>2, <1>3

\* d is c and one line more.
Longer(c, d, line) ==
  /\ Len(c) \in Nat /\ Len(d) = Len(c) + 1
  /\ \A q \in 1 .. Len(c) : d[q] = c[q]
  /\ d[Len(c) + 1] = line

\* What stands before a position stays.
LEMMA LastStays ==
  ASSUME NEW c, NEW d, NEW line, Longer(c, d, line), NEW kw, NEW p \in 1 .. Len(c) + 1
  PROVE  LastIn(d, kw, p) = LastIn(c, kw, p)
  <1>1. Len(c) \in Nat /\ Len(d) = Len(c) + 1 /\ \A q \in 1 .. Len(c) : d[q] = c[q]
    BY DEF Longer
  <1>2. PICK n : n = LastIn(c, kw, p)
    OBVIOUS
  <1>3. /\ n \in 0 .. p - 1
        /\ n # 0 => c[n].kind = kw
        /\ \A q \in 1 .. p - 1 : c[q].kind = kw => q <= n
    BY <1>1, <1>2, LastFacts
  <1>4. p \in 1 .. Len(d) + 1 /\ (n # 0 => d[n].kind = kw)
    BY <1>1, <1>3
  <1>5. \A q \in n + 1 .. p - 1 : d[q].kind # kw
    BY <1>1, <1>3
  <1>6. LastIn(d, kw, p) = n
    BY <1>1, <1>3, <1>4, <1>5, LastIs
  <1> QED
    BY <1>2, <1>6

\* The entries of a section stand between its keyword and the position.
LEMMA AtFacts ==
  ASSUME NEW c, Len(c) \in Nat, NEW kw, NEW e, NEW p \in 1 .. Len(c) + 1
  PROVE  /\ AtIn(c, kw, e, p) \subseteq 1 .. Len(c)
         /\ \A k \in AtIn(c, kw, e, p) : c[k].kind = e
  <1>1. PICK n : n = LastIn(c, kw, p)
    OBVIOUS
  <1>2. n \in 0 .. Len(c)
    BY <1>1, LastFacts
  <1>3. CASE n = 0
    BY <1>1, <1>3 DEF AtIn
  <1>4. CASE n # 0
    <2>1. EndIn(c, n) \in n .. Len(c) + 1
      BY <1>2, <1>4, EndFacts
    <2>2. AtIn(c, kw, e, p) = {k \in n + 1 .. EndIn(c, n) - 1 : c[k].kind = e}
      BY <1>1, <1>4 DEF AtIn
    <2> QED
      BY <1>2, <1>4, <2>1, <2>2
  <1> QED
    BY <1>3, <1>4

\* So does a section that is closed.
LEMMA ClosedStays ==
  ASSUME NEW c, NEW d, NEW line, Longer(c, d, line), NEW kw, NEW e, NEW p \in 1 .. Len(c) + 1,
         ClosedIn(c, kw, p)
  PROVE  /\ ClosedIn(d, kw, p)
         /\ AtIn(d, kw, e, p) = AtIn(c, kw, e, p)
  <1>1. Len(c) \in Nat /\ Len(d) = Len(c) + 1 /\ \A q \in 1 .. Len(c) : d[q] = c[q]
    BY DEF Longer
  <1>2. PICK n : n = LastIn(c, kw, p) /\ n = LastIn(d, kw, p)
    BY LastStays
  <1>3. n \in 0 .. p - 1
    BY <1>1, <1>2, LastFacts
  <1>4. CASE n = 0
    BY <1>2, <1>4 DEF AtIn, ClosedIn
  <1>5. CASE n # 0
    <2>1. PICK q \in n + 1 .. p - 1 : c[q].kind = "$end"
      BY <1>2, <1>5 DEF ClosedIn
    <2>2. PICK x : x = EndIn(c, n)
      OBVIOUS
    <2>3. /\ x \in n .. Len(c) + 1 /\ x <= q
          /\ x # Len(c) + 1 => c[x].kind = "$end"
          /\ \A r \in n .. Len(c) : c[r].kind = "$end" => x <= r
      BY <1>1, <1>3, <1>5, <2>1, <2>2, EndFacts
    <2>4. /\ n \in 1 .. Len(c) /\ x \in n .. Len(c)
          /\ n \in 1 .. Len(d) /\ x \in n .. Len(d) + 1
      BY <1>1, <1>3, <1>5, <2>1, <2>3
    <2>5. d[x] = c[x] /\ c[x].kind = "$end"
      BY <1>1, <2>3, <2>4
    <2>6. ASSUME NEW r \in n .. x - 1 PROVE d[r].kind # "$end"
      <3>1. r \in n .. Len(c) /\ r \in 1 .. Len(c) /\ ~(x <= r)
        BY <1>1, <2>4
      <3> QED
        BY <1>1, <2>3, <3>1
    <2>7. EndIn(d, n) = x
      <3>1. Len(d) \in Nat
        BY <1>1
      <3> QED
        BY <2>4, <2>5, <2>6, <3>1, EndIs
    <2>8. \A k \in n + 1 .. x - 1 : c[k] = d[k]
      BY <1>1, <1>3, <2>1, <2>3
    <2>9. AtIn(c, kw, e, p) = {k \in n + 1 .. x - 1 : c[k].kind = e}
      BY <1>2, <1>5, <2>2 DEF AtIn
    <2>10. AtIn(d, kw, e, p) = {k \in n + 1 .. x - 1 : d[k].kind = e}
      BY <1>2, <1>5, <2>7 DEF AtIn
    <2>11. d[q].kind = "$end"
      BY <1>1, <1>3, <2>1
    <2> QED
      BY <1>2, <2>1, <2>8, <2>9, <2>10, <2>11 DEF ClosedIn
  <1> QED
    BY <1>4, <1>5

\* A line that opens no section of kw, after a text that has closed its own.
LEMMA LineBetween ==
  ASSUME NEW c, NEW d, NEW line, Longer(c, d, line), NEW kw, NEW e,
         ClosedIn(c, kw, Len(c) + 1), line.kind # kw
  PROVE  /\ ClosedIn(d, kw, Len(d) + 1)
         /\ AtIn(d, kw, e, Len(d) + 1) = AtIn(c, kw, e, Len(c) + 1)
  <1>1. /\ Len(c) \in Nat /\ Len(d) = Len(c) + 1 /\ Len(d) \in Nat
        /\ Len(c) + 1 \in 1 .. Len(c) + 1 /\ d[Len(c) + 1] = line
    BY DEF Longer
  <1>2. /\ ClosedIn(d, kw, Len(c) + 1)
        /\ AtIn(d, kw, e, Len(c) + 1) = AtIn(c, kw, e, Len(c) + 1)
    BY <1>1, ClosedStays
  <1>3. PICK n : n = LastIn(d, kw, Len(c) + 1)
    OBVIOUS
  <1>4. /\ n \in 0 .. Len(c)
        /\ n # 0 => d[n].kind = kw
        /\ \A q \in 1 .. Len(c) : d[q].kind = kw => q <= n
    BY <1>1, <1>3, LastFacts
  <1>5. LastIn(d, kw, Len(d) + 1) = n
    <2>1. n \in 0 .. (Len(d) + 1) - 1 /\ Len(d) + 1 \in 1 .. Len(d) + 1
      BY <1>1, <1>4
    <2>2. ASSUME NEW q \in n + 1 .. (Len(d) + 1) - 1 PROVE d[q].kind # kw
      <3>1. q = Len(c) + 1 \/ (q \in 1 .. Len(c) /\ ~(q <= n))
        BY <1>1, <1>4
      <3> QED
        BY <1>1, <1>4, <3>1
    <2> QED
      BY <1>1, <1>4, <2>1, <2>2, LastIs
  <1>6. AtIn(d, kw, e, Len(d) + 1) = AtIn(d, kw, e, Len(c) + 1)
    BY <1>3, <1>5 DEF AtIn
  <1>7. ClosedIn(d, kw, Len(d) + 1)
    <2>1. CASE n = 0
      BY <1>5, <2>1 DEF ClosedIn
    <2>2. CASE n # 0
      <3>1. PICK q \in n + 1 .. (Len(c) + 1) - 1 : d[q].kind = "$end"
        BY <1>2, <1>3, <2>2 DEF ClosedIn
      <3>2. q \in n + 1 .. (Len(d) + 1) - 1
        BY <1>1, <1>4, <3>1
      <3> QED
        BY <1>5, <3>1, <3>2 DEF ClosedIn
    <2> QED
      BY <2>1, <2>2
  <1> QED
    BY <1>2, <1>6, <1>7

\* The keyword of a section.
LEMMA LineOpens ==
  ASSUME NEW c, NEW d, NEW line, Longer(c, d, line), NEW kw, NEW e, line.kind = kw, kw # "$end"
  PROVE  OpenIn(d, kw) /\ AtIn(d, kw, e, Len(d) + 1) = {}
  <1>1. /\ Len(c) \in Nat /\ Len(d) = Len(c) + 1 /\ Len(d) \in Nat
        /\ Len(d) + 1 \in 1 .. Len(d) + 1 /\ d[Len(d)].kind = kw
        /\ Len(d) \in 1 .. Len(d) /\ Len(d) # 0
    BY DEF Longer
  <1>2. LastIn(d, kw, Len(d) + 1) = Len(d)
    <2>1. Len(d) \in 0 .. (Len(d) + 1) - 1
      BY <1>1
    <2>2. \A q \in Len(d) + 1 .. (Len(d) + 1) - 1 : d[q].kind # kw
      BY <1>1
    <2> QED
      BY <1>1, <2>1, <2>2, LastIs
  <1>3. \A q \in Len(d) .. Len(d) : q = Len(d)
    BY <1>1
  <1>4. OpenIn(d, kw)
    BY <1>1, <1>2, <1>3 DEF OpenIn
  <1>5. EndIn(d, Len(d)) \in Len(d) .. Len(d) + 1
    BY <1>1, EndFacts
  <1>6. Len(d) + 1 .. EndIn(d, Len(d)) - 1 = {}
    BY <1>1, <1>5
  <1>7. AtIn(d, kw, e, Len(d) + 1) = {}
    BY <1>1, <1>2, <1>6 DEF AtIn
  <1> QED
    BY <1>4, <1>7

With(S, x) == S \cup {x}

\* A line in an open section.
LEMMA LineInside ==
  ASSUME NEW c, NEW d, NEW line, Longer(c, d, line), NEW kw, NEW e, OpenIn(c, kw),
         line.kind # kw, kw # "$end", e # "$end"
  PROVE  /\ line.kind = "$end" => /\ ClosedIn(d, kw, Len(d) + 1)
                                  /\ AtIn(d, kw, e, Len(d) + 1) = AtIn(c, kw, e, Len(c) + 1)
         /\ line.kind # "$end" => OpenIn(d, kw)
         /\ line.kind \notin {"$end", e} =>
              AtIn(d, kw, e, Len(d) + 1) = AtIn(c, kw, e, Len(c) + 1)
         /\ line.kind = e =>
              AtIn(d, kw, e, Len(d) + 1) = With(AtIn(c, kw, e, Len(c) + 1), Len(c) + 1)
  <1>1. /\ Len(c) \in Nat /\ Len(d) = Len(c) + 1 /\ Len(d) \in Nat
        /\ Len(c) + 1 \in 1 .. Len(c) + 1 /\ Len(d) + 1 \in 1 .. Len(d) + 1
        /\ d[Len(d)] = line /\ \A q \in 1 .. Len(c) : d[q] = c[q]
    BY DEF Longer
  <1>2. PICK n : n = LastIn(c, kw, Len(c) + 1)
    OBVIOUS
  <1>3. /\ n \in 1 .. Len(c) /\ c[n].kind = kw
        /\ \A q \in 1 .. Len(c) : c[q].kind = kw => q <= n
        /\ \A q \in n .. Len(c) : c[q].kind # "$end"
    <2>1. n # 0 /\ \A q \in n .. Len(c) : c[q].kind # "$end"
      BY <1>2 DEF OpenIn
    <2>2. /\ n \in 0 .. (Len(c) + 1) - 1
          /\ n # 0 => c[n].kind = kw
          /\ \A q \in 1 .. (Len(c) + 1) - 1 : c[q].kind = kw => q <= n
      BY <1>1, <1>2, LastFacts
    <2> QED
      BY <1>1, <2>1, <2>2
  <1>4. n \in 1 .. Len(d) /\ d[n].kind = kw
    BY <1>1, <1>3
  <1>5. LastIn(d, kw, Len(d) + 1) = n
    <2>1. n \in 0 .. (Len(d) + 1) - 1
      BY <1>1, <1>4
    <2>2. ASSUME NEW q \in n + 1 .. (Len(d) + 1) - 1 PROVE d[q].kind # kw
      <3>1. q = Len(d) \/ (q \in 1 .. Len(c) /\ ~(q <= n))
        <4>1. /\ Len(c) \in Nat /\ Len(d) = Len(c) + 1 /\ n \in 1 .. Len(c)
          BY <1>1, <1>3
        <4> QED
          BY <4>1
      <3> QED
        BY <1>1, <1>3, <3>1
    <2> QED
      BY <1>1, <1>4, <2>1, <2>2, LastIs
  <1>6. \A q \in n .. Len(c) : d[q].kind # "$end"
    BY <1>1, <1>3
  <1>7. AtIn(c, kw, e, Len(c) + 1) = {k \in n + 1 .. Len(c) : c[k].kind = e}
    <2>1. EndIn(c, n) = Len(c) + 1
      <3>1. \A q \in n .. (Len(c) + 1) - 1 : c[q].kind # "$end"
        BY <1>1, <1>3
      <3>2. Len(c) + 1 \in n .. Len(c) + 1
        BY <1>1, <1>3
      <3> QED
        BY <1>1, <1>3, <3>1, <3>2, EndIs
    <2>2. n + 1 .. EndIn(c, n) - 1 = n + 1 .. Len(c) /\ n # 0
      BY <1>1, <1>3, <2>1
    <2> QED
      BY <1>2, <2>2 DEF AtIn
  <1>8. CASE line.kind = "$end"
    <2>1. EndIn(d, n) = Len(d)
      <3>1. \A q \in n .. Len(d) - 1 : d[q].kind # "$end"
        BY <1>1, <1>3, <1>6
      <3>2. Len(d) \in n .. Len(d) + 1 /\ d[Len(d)].kind = "$end"
        BY <1>1, <1>4, <1>8
      <3> QED
        BY <1>1, <1>4, <3>1, <3>2, EndIs
    <2>2. n + 1 .. EndIn(d, n) - 1 = n + 1 .. Len(c) /\ n # 0
      BY <1>1, <1>3, <2>1
    <2>3. AtIn(d, kw, e, Len(d) + 1) = {k \in n + 1 .. Len(c) : d[k].kind = e}
      BY <1>5, <2>2 DEF AtIn
    <2>4. \A k \in n + 1 .. Len(c) : d[k] = c[k]
      BY <1>1, <1>3
    <2>5. Len(d) \in n + 1 .. (Len(d) + 1) - 1 /\ d[Len(d)].kind = "$end"
      BY <1>1, <1>3, <1>8
    <2>6. ClosedIn(d, kw, Len(d) + 1)
      BY <1>5, <2>5 DEF ClosedIn
    <2> QED
      BY <1>7, <1>8, <2>3, <2>4, <2>6
  <1>9. CASE line.kind # "$end"
    <2>1. \A q \in n .. Len(d) : d[q].kind # "$end"
      <3> TAKE q \in n .. Len(d)
      <3>1. q = Len(d) \/ q \in n .. Len(c)
        BY <1>1, <1>3
      <3> QED
        BY <1>1, <1>6, <1>9, <3>1
    <2>2. EndIn(d, n) = Len(d) + 1
      <3>1. \A q \in n .. (Len(d) + 1) - 1 : d[q].kind # "$end"
        BY <1>1, <2>1
      <3>2. Len(d) + 1 \in n .. Len(d) + 1
        BY <1>1, <1>4
      <3> QED
        BY <1>1, <1>4, <3>1, <3>2, EndIs
    <2>3. n + 1 .. EndIn(d, n) - 1 = n + 1 .. Len(d) /\ n # 0
      BY <1>1, <1>3, <2>2
    <2>4. AtIn(d, kw, e, Len(d) + 1) = {k \in n + 1 .. Len(d) : d[k].kind = e}
      BY <1>5, <2>3 DEF AtIn
    <2>5. n + 1 .. Len(d) = (n + 1 .. Len(c)) \cup {Len(d)}
      BY <1>1, <1>3
    <2>6. \A k \in n + 1 .. Len(c) : d[k] = c[k]
      BY <1>1, <1>3
    <2>7. OpenIn(d, kw)
      BY <1>5, <2>1, <2>3 DEF OpenIn
    <2>8. CASE line.kind = e
      <3>1. AtIn(d, kw, e, Len(d) + 1) = {k \in n + 1 .. Len(c) : c[k].kind = e} \cup {Len(d)}
        BY <1>1, <2>4, <2>5, <2>6, <2>8
      <3> QED
        BY <1>1, <1>7, <1>9, <2>7, <2>8, <3>1 DEF With
    <2>9. CASE line.kind # e
      <3>1. AtIn(d, kw, e, Len(d) + 1) = {k \in n + 1 .. Len(c) : c[k].kind = e}
        BY <1>1, <2>4, <2>5, <2>6, <2>9
      <3> QED
        BY <1>1, <1>7, <1>9, <2>7, <2>9, <3>1
    <2> QED
      BY <2>8, <2>9
  <1> QED
    BY <1>8, <1>9

-----------------------------------------------------------------------------
(***************************************************************************)
(* Tables, line by line.                                                   *)
(***************************************************************************)
\* The definition of an index is the last entry with that index.
IsIndex(c, at, f) ==
  /\ DOMAIN f = {c[k].index : k \in at}
  /\ \A i \in DOMAIN f : /\ f[i] \in at /\ c[f[i]].index = i
                         /\ \A k \in at : c[k].index = i => k <= f[i]

\* So Definitions says.
LEMMA IndexFacts ==
  ASSUME NEW c, Len(c) \in Nat, NEW at \in SUBSET (1 .. Len(c))
  PROVE  IsIndex(c, at, IndexIn(c, at))
  <1>1. DOMAIN IndexIn(c, at) = {c[k].index : k \in at}
    BY DEF IndexIn
  <1>2. ASSUME NEW i \in {c[k].index : k \in at}
        PROVE  /\ IndexIn(c, at)[i] \in at
               /\ c[IndexIn(c, at)[i]].index = i
               /\ \A k \in at : c[k].index = i => k <= IndexIn(c, at)[i]
    <2> DEFINE S == {k \in at : c[k].index = i}
    <2>1. IndexIn(c, at)[i] = Max(S)
      BY DEF IndexIn
    <2>2. S \in SUBSET (0 .. Len(c)) /\ S # {}
      <3>1. PICK k \in at : c[k].index = i
        OBVIOUS
      <3>2. \A x \in at : x \in 0 .. Len(c)
        OBVIOUS
      <3> QED
        BY <3>1, <3>2
    <2>3. Max(S) \in S /\ \A x \in S : x <= Max(S)
      <3> HIDE DEF S
      <3> QED
        BY <2>2, MaxOf
    <2> QED
      BY <2>1, <2>3
  <1> QED
    BY <1>1, <1>2 DEF IsIndex

\* Lines after them change no definitions.
LEMMA IndexStays ==
  ASSUME NEW c, NEW d, NEW line, Longer(c, d, line), NEW at \in SUBSET (1 .. Len(c))
  PROVE  IndexIn(d, at) = IndexIn(c, at)
  <1>1. \A k \in at : d[k] = c[k]
    BY DEF Longer
  <1>2. {d[k].index : k \in at} = {c[k].index : k \in at}
    BY <1>1
  <1>3. ASSUME NEW i PROVE {k \in at : d[k].index = i} = {k \in at : c[k].index = i}
    BY <1>1
  <1> QED
    BY <1>2, <1>3 DEF IndexIn

\* A new entry is the definition of its index.
LEMMA IndexNew ==
  ASSUME NEW c, NEW d, NEW line, Longer(c, d, line), NEW at \in SUBSET (1 .. Len(c))
  PROVE  IndexIn(d, at \cup {Len(c) + 1}) = Put(IndexIn(c, at), line.index, Len(c) + 1)
  <1> DEFINE all == at \cup {Len(c) + 1}
             old == IndexIn(c, at)
             f == IndexIn(d, all)
             g == Put(old, line.index, Len(c) + 1)
  <1>1. /\ Len(c) \in Nat /\ Len(d) \in Nat /\ Len(d) = Len(c) + 1 /\ d[Len(c) + 1] = line
        /\ \A k \in 1 .. Len(c) : d[k] = c[k]
    BY DEF Longer
  <1>2. /\ \A k \in at : d[k] = c[k] /\ k \in 1 .. Len(c)
        /\ all \in SUBSET (1 .. Len(d))
    <2>1. \A k \in at : k \in 1 .. Len(c) /\ k \in 1 .. Len(d)
      BY <1>1
    <2>2. Len(c) + 1 \in 1 .. Len(d)
      BY <1>1
    <2> QED
      BY <1>1, <2>1, <2>2
  <1>3. IsIndex(c, at, old)
    BY <1>1, IndexFacts
  <1>4. IsIndex(d, all, f)
    <2> HIDE DEF all
    <2>1. Len(d) \in Nat
      BY <1>1
    <2> QED
      BY <1>2, <2>1, IndexFacts
  <1>5. /\ DOMAIN g = DOMAIN old \cup {line.index}
        /\ \A i \in DOMAIN g : g[i] = IF i = line.index THEN Len(c) + 1 ELSE old[i]
        /\ g = [i \in DOMAIN g |-> g[i]]
    <2> HIDE DEF old
    <2> QED
      BY DEF Put
  <1>6. f = [i \in DOMAIN f |-> f[i]]
    BY DEF IndexIn
  <1> HIDE DEF f, g, old
  <1>7. DOMAIN f = DOMAIN g
    BY <1>1, <1>2, <1>3, <1>4, <1>5 DEF IsIndex
  <1>8. ASSUME NEW i \in DOMAIN f PROVE f[i] = g[i]
    <2>1. CASE i = line.index
      <3>1. g[i] = Len(c) + 1
        BY <1>5, <1>7, <2>1
      <3>2. Len(c) + 1 <= f[i] /\ f[i] \in all
        BY <1>1, <1>4, <2>1 DEF IsIndex
      <3>3. f[i] \in 1 .. Len(c) + 1
        BY <1>1, <1>2, <3>2
      <3> QED
        BY <1>1, <3>1, <3>2, <3>3
    <2>2. CASE i # line.index
      <3>1. i \in DOMAIN old /\ g[i] = old[i]
        BY <1>5, <1>7, <2>2
      <3>2. f[i] \in at
        BY <1>1, <1>4, <2>2 DEF IsIndex
      <3>3. g[i] \in at /\ c[g[i]].index = i /\ g[i] \in all
        BY <1>3, <3>1 DEF IsIndex
      <3>4. d[g[i]].index = i /\ c[f[i]].index = i
        BY <1>2, <1>4, <3>2, <3>3 DEF IsIndex
      <3>5. g[i] <= f[i]
        BY <1>4, <3>3, <3>4 DEF IsIndex
      <3>6. f[i] <= g[i]
        BY <1>3, <3>1, <3>2, <3>4 DEF IsIndex
      <3>7. f[i] \in 1 .. Len(c) /\ g[i] \in 1 .. Len(c)
        BY <1>2, <3>2, <3>3
      <3> QED
        BY <1>1, <3>5, <3>6, <3>7
    <2> QED
      BY <2>1, <2>2
  <1>9. f = g
    BY <1>5, <1>6, <1>7, <1>8
  <1> QED
    BY <1>9 DEF f, g, old

\* W says what V says.
Agree(V, W) == \A p \in DOMAIN V : p \in DOMAIN W /\ V[p] = W[p]

\* A definition is an entry of its section.
LEMMA DefsFacts ==
  ASSUME NEW c, Len(c) \in Nat, NEW kw, NEW e, NEW p \in 1 .. Len(c) + 1,
         NEW i \in DOMAIN DefsIn(c, kw, e, p)
  PROVE  /\ DefsIn(c, kw, e, p)[i] \in AtIn(c, kw, e, p)
         /\ DefsIn(c, kw, e, p)[i] \in 1 .. Len(c)
         /\ c[DefsIn(c, kw, e, p)[i]].kind = e
         /\ c[DefsIn(c, kw, e, p)[i]].index = i
  <1>1. PICK at \in SUBSET (1 .. Len(c)) :
          at = AtIn(c, kw, e, p) /\ \A k \in at : c[k].kind = e
    BY AtFacts
  <1>2. PICK f : f = DefsIn(c, kw, e, p) /\ f = IndexIn(c, at)
    BY <1>1 DEF DefsIn
  <1>3. IsIndex(c, at, f)
    BY <1>2, IndexFacts
  <1>4. f[i] \in at /\ c[f[i]].index = i
    BY <1>2, <1>3 DEF IsIndex
  <1>5. f[i] \in 1 .. Len(c) /\ c[f[i]].kind = e
    BY <1>1, <1>4
  <1> QED
    BY <1>1, <1>2, <1>4, <1>5

\* A table goes on matching when what its entries stand for stays.
LEMMA MatchesStays ==
  ASSUME NEW c, Len(c) \in Nat, NEW kw, NEW e, NEW V, NEW W, NEW t, Agree(V, W),
         AtIn(c, kw, e, Len(c) + 1) \subseteq DOMAIN V,
         Matches(t, DefsIn(c, kw, e, Len(c) + 1), V)
  PROVE  /\ Matches(t, DefsIn(c, kw, e, Len(c) + 1), W)
         /\ AtIn(c, kw, e, Len(c) + 1) \subseteq DOMAIN W
  <1>1. PICK f : f = DefsIn(c, kw, e, Len(c) + 1)
    OBVIOUS
  <1>2. Len(c) + 1 \in 1 .. Len(c) + 1
    OBVIOUS
  <1>3. \A i \in DOMAIN f : f[i] \in DOMAIN V
    BY <1>1, <1>2, DefsFacts
  <1>4. DOMAIN t = DOMAIN f /\ \A i \in DOMAIN t : t[i] = V[f[i]]
    BY <1>1 DEF Matches
  <1>5. \A i \in DOMAIN t : t[i] = W[f[i]]
    BY <1>3, <1>4 DEF Agree
  <1> QED
    BY <1>1, <1>4, <1>5 DEF Matches, Agree

\* The definitions stay when the entries do.
LEMMA DefsStay ==
  ASSUME NEW c, NEW d, NEW line, Longer(c, d, line), NEW kw, NEW e,
         NEW p \in 1 .. Len(c) + 1, NEW q,
         AtIn(d, kw, e, q) = AtIn(c, kw, e, p)
  PROVE  DefsIn(d, kw, e, q) = DefsIn(c, kw, e, p)
  <1>1. Len(c) \in Nat
    BY DEF Longer
  <1>2. PICK at \in SUBSET (1 .. Len(c)) : at = AtIn(c, kw, e, p) /\ at = AtIn(d, kw, e, q)
    BY <1>1, AtFacts
  <1>3. IndexIn(d, at) = IndexIn(c, at)
    BY IndexStays
  <1> QED
    BY <1>2, <1>3 DEF DefsIn

\* How long a table is whose indexes are less than SizeMax.
LEMMA LengthOf ==
  ASSUME NEW t, Bounded(t), SizeMax \notin DOMAIN t
  PROVE  /\ Length(t) \in Nat
         /\ \A x \in DOMAIN t : x \in 0 .. Length(t) - 1
         /\ Length(t) # 0 => Length(t) - 1 \in DOMAIN t
  <1>1. PICK m \in Nat : DOMAIN t \subseteq 0 .. m
    BY DEF Bounded
  <1> DEFINE S == DOMAIN t \cup {-1}
  <1>2. PICK n \in S : \A x \in S : n >= x
    <2>1. CASE DOMAIN t = {}
      BY <2>1
    <2>2. CASE DOMAIN t # {}
      <3>1. PICK n \in DOMAIN t : \A x \in DOMAIN t : x <= n
        BY <1>1, <2>2, MaxOf
      <3> QED
        BY <1>1, <3>1
    <2> QED
      BY <2>1, <2>2
  <1>3. \A x \in S : x \in Int /\ x >= -1
    BY <1>1
  <1>4. Max(S) = n
    <2> HIDE DEF S
    <2>1. PICK x \in S : x = Max(S) /\ \A y \in S : x >= y
      BY <1>2 DEF Max
    <2> QED
      BY <1>2, <1>3, <2>1
  <1>5. Length(t) = n + 1
    BY <1>4 DEF Length
  <1> QED
    BY <1>1, <1>2, <1>3, <1>5

\* Every index is there and the length has not wrapped.
Whole(t) == NoGap(t) /\ SizeMax \notin DOMAIN t

\* A table without gaps has the indexes up to its length.
LEMMA WholeDense ==
  ASSUME NEW t, Whole(t), Bounded(t)
  PROVE  /\ DOMAIN t = 0 .. Length(t) - 1
         /\ Dense(t)
  <1>1. PICK n \in Nat : n = Length(t) /\ \A x \in DOMAIN t : x \in 0 .. n - 1
    BY LengthOf DEF Whole
  <1>2. DOMAIN t = 0 .. n - 1
    BY <1>1 DEF Whole, NoGap
  <1>3. Cardinality(0 .. n - 1) = n
    <2>1. CASE n = 0
      BY <2>1, FS_EmptySet
    <2>2. CASE n # 0
      <3>1. 0 \in Int /\ n - 1 \in Int /\ 0 <= n - 1 + 1
        BY <2>2
      <3>2. Cardinality(0 .. n - 1) = (n - 1) - 0 + 1
        BY <2>2, <3>1, FS_Interval
      <3> QED
        BY <3>2
    <2> QED
      BY <2>1, <2>2
  <1> QED
    BY <1>1, <1>2, <1>3 DEF Dense

\* A line that is not about the table.
LEMMA TableBetween ==
  ASSUME NEW c, NEW d, NEW line, Longer(c, d, line), NEW kw, NEW e, NEW t, NEW V, NEW W,
         TableOK(c, {}, kw, e, FALSE, t, V), line.kind # kw, Agree(V, W)
  PROVE  TableOK(d, {}, kw, e, FALSE, t, W)
  <1>1. Len(c) \in Nat /\ Len(c) + 1 \in 1 .. Len(c) + 1
    BY DEF Longer
  <1>2. /\ ClosedIn(c, kw, Len(c) + 1) /\ Dense(t) /\ Bounded(t)
        /\ Matches(t, DefsIn(c, kw, e, Len(c) + 1), V)
        /\ AtIn(c, kw, e, Len(c) + 1) \subseteq DOMAIN V
    BY DEF TableOK
  <1>3. /\ ClosedIn(d, kw, Len(d) + 1)
        /\ AtIn(d, kw, e, Len(d) + 1) = AtIn(c, kw, e, Len(c) + 1)
    BY <1>2, LineBetween
  <1>4. DefsIn(d, kw, e, Len(d) + 1) = DefsIn(c, kw, e, Len(c) + 1)
    BY <1>1, <1>3, DefsStay
  <1>5. /\ Matches(t, DefsIn(c, kw, e, Len(c) + 1), W)
        /\ AtIn(c, kw, e, Len(c) + 1) \subseteq DOMAIN W
    BY <1>1, <1>2, MatchesStays
  <1> QED
    BY <1>2, <1>3, <1>4, <1>5 DEF TableOK

\* The keyword of its section.
LEMMA TableOpens ==
  ASSUME NEW c, NEW d, NEW line, Longer(c, d, line), NEW kw, NEW e, NEW t, NEW W,
         line.kind = kw, kw # "$end", DOMAIN t = {}
  PROVE  TableOK(d, {}, kw, e, TRUE, t, W)
  <1>1. OpenIn(d, kw) /\ AtIn(d, kw, e, Len(d) + 1) = {}
    BY LineOpens
  <1>2. DOMAIN DefsIn(d, kw, e, Len(d) + 1) = {}
    BY <1>1 DEF DefsIn, IndexIn
  <1>3. Matches(t, DefsIn(d, kw, e, Len(d) + 1), W)
    BY <1>2 DEF Matches
  <1>4. Bounded(t)
    BY DEF Bounded
  <1> QED
    BY <1>1, <1>3, <1>4 DEF TableOK

\* A line of its section that is no entry, or its end.
LEMMA TableInside ==
  ASSUME NEW c, NEW d, NEW line, Longer(c, d, line), NEW kw, NEW e, NEW t, NEW V, NEW W,
         TableOK(c, {}, kw, e, TRUE, t, V), line.kind \notin {kw, e}, kw # "$end", e # "$end",
         Agree(V, W)
  PROVE  /\ line.kind # "$end" => TableOK(d, {}, kw, e, TRUE, t, W)
         /\ line.kind = "$end" /\ Whole(t) => TableOK(d, {}, kw, e, FALSE, t, W)
  <1>1. Len(c) \in Nat /\ Len(c) + 1 \in 1 .. Len(c) + 1
    BY DEF Longer
  <1>2. /\ OpenIn(c, kw) /\ Bounded(t)
        /\ Matches(t, DefsIn(c, kw, e, Len(c) + 1), V)
        /\ AtIn(c, kw, e, Len(c) + 1) \subseteq DOMAIN V
    BY DEF TableOK
  <1>3. /\ line.kind = "$end" => ClosedIn(d, kw, Len(d) + 1)
        /\ line.kind # "$end" => OpenIn(d, kw)
        /\ AtIn(d, kw, e, Len(d) + 1) = AtIn(c, kw, e, Len(c) + 1)
    BY <1>2, LineInside
  <1>4. DefsIn(d, kw, e, Len(d) + 1) = DefsIn(c, kw, e, Len(c) + 1)
    BY <1>1, <1>3, DefsStay
  <1>5. /\ Matches(t, DefsIn(c, kw, e, Len(c) + 1), W)
        /\ AtIn(c, kw, e, Len(c) + 1) \subseteq DOMAIN W
    BY <1>1, <1>2, MatchesStays
  <1>6. Whole(t) => Dense(t)
    BY <1>2, WholeDense
  <1> QED
    BY <1>2, <1>3, <1>4, <1>5, <1>6 DEF TableOK

\* An entry.
LEMMA TableEntry ==
  ASSUME NEW c, NEW d, NEW line, Longer(c, d, line), NEW kw, NEW e, NEW t, NEW V, NEW W,
         TableOK(c, {}, kw, e, TRUE, t, V), line.kind = e, kw # e, kw # "$end", e # "$end",
         line.index \in Nat, Agree(V, W), Len(c) + 1 \in DOMAIN W
  PROVE  TableOK(d, {}, kw, e, TRUE, Put(t, line.index, W[Len(c) + 1]), W)
  <1>1. Len(c) \in Nat /\ Len(c) + 1 \in 1 .. Len(c) + 1
    BY DEF Longer
  <1>2. /\ OpenIn(c, kw) /\ Bounded(t)
        /\ Matches(t, DefsIn(c, kw, e, Len(c) + 1), V)
        /\ AtIn(c, kw, e, Len(c) + 1) \subseteq DOMAIN V
    BY DEF TableOK
  <1>3. /\ OpenIn(d, kw)
        /\ AtIn(d, kw, e, Len(d) + 1) = AtIn(c, kw, e, Len(c) + 1) \cup {Len(c) + 1}
    <2>1. line.kind # kw /\ line.kind # "$end"
      OBVIOUS
    <2>2. OpenIn(d, kw)
      BY <1>2, <2>1, LineInside
    <2>3. AtIn(d, kw, e, Len(d) + 1) = With(AtIn(c, kw, e, Len(c) + 1), Len(c) + 1)
      BY <1>2, <2>1, LineInside
    <2> QED
      BY <2>2, <2>3 DEF With
  <1>4. PICK at \in SUBSET (1 .. Len(c)) : at = AtIn(c, kw, e, Len(c) + 1)
    BY <1>1, AtFacts
  <1>5. IndexIn(d, at \cup {Len(c) + 1}) = Put(IndexIn(c, at), line.index, Len(c) + 1)
    BY IndexNew
  <1>6. PICK f : f = DefsIn(c, kw, e, Len(c) + 1)
    OBVIOUS
  <1>7. DefsIn(d, kw, e, Len(d) + 1) = Put(f, line.index, Len(c) + 1)
    BY <1>3, <1>4, <1>5, <1>6 DEF DefsIn
  <1>8. Matches(t, f, W) /\ AtIn(c, kw, e, Len(c) + 1) \subseteq DOMAIN W
    BY <1>1, <1>2, <1>6, MatchesStays
  <1>9. Matches(Put(t, line.index, W[Len(c) + 1]), Put(f, line.index, Len(c) + 1), W)
    BY <1>8 DEF Matches, Put
  <1>10. Bounded(Put(t, line.index, W[Len(c) + 1]))
    <2>1. PICK m \in Nat : DOMAIN t \subseteq 0 .. m
      BY <1>2 DEF Bounded
    <2>2. PICK n \in Nat : m <= n /\ line.index <= n
      BY <2>1
    <2>3. DOMAIN Put(t, line.index, W[Len(c) + 1]) = DOMAIN t \cup {line.index}
      BY DEF Put
    <2>4. DOMAIN t \cup {line.index} \subseteq 0 .. n
      BY <2>1, <2>2
    <2> QED
      BY <2>3, <2>4 DEF Bounded
  <1> QED
    BY <1>3, <1>7, <1>8, <1>9, <1>10 DEF TableOK

\* The end of the text.
LEMMA TableAtEnd ==
  ASSUME NEW c, NEW end, NEW more, more # {}, NEW kw, NEW e, NEW reading, NEW t, NEW V,
         TableOK(c, end, kw, e, reading, t, V), reading = FALSE \/ Whole(t)
  PROVE  TableOK(c, more, kw, e, FALSE, t, V)
  BY WholeDense DEF TableOK

\* What the reader copies of its map.
LEMMA TableCopied ==
  ASSUME NEW c, NEW end, NEW kw, NEW e, NEW reading, NEW t, NEW V,
         TableOK(c, end, kw, e, reading, t, V), Whole(t)
  PROVE  TableOK(c, end, kw, e, reading, Table(t), V)
  <1>1. Bounded(t) /\ Matches(t, DefsIn(c, kw, e, Len(c) + 1), V)
    BY DEF TableOK
  <1>2. DOMAIN t = 0 .. Length(t) - 1
    BY <1>1, WholeDense
  <1>3. DOMAIN Table(t) = DOMAIN t /\ \A i \in DOMAIN t : Table(t)[i] = t[i]
    BY <1>2 DEF Table
  <1>4. Bounded(Table(t)) /\ (Dense(t) => Dense(Table(t)))
    BY <1>1, <1>3 DEF Bounded, Dense
  <1>5. Matches(Table(t), DefsIn(c, kw, e, Len(c) + 1), V)
    BY <1>1, <1>3 DEF Matches
  <1> QED
    BY <1>4, <1>5 DEF TableOK

-----------------------------------------------------------------------------
(***************************************************************************)
(* The invariant of the parser.                                            *)
(***************************************************************************)
AllLines == UNION {Lines[k][r] : k \in DOMAIN Lines, r \in Readers}

\* The name an import takes was known where it stands.
KnownImport(p) ==
  /\ ClosedIn(code, "$const", p)
  /\ code[p].target \in {"this", "const", "other"}
  /\ code[p].target = "const" => Defined(p, code[p].number)

ConstV == [p \in DOMAIN code |-> ConstText(p)]
ImportV == [p \in {q \in DOMAIN code : KnownImport(q)} |-> ImportText(p)]
TypeV == [p \in DOMAIN code |-> TypeText(p)]

ConstOK ==
  IF reader = "$const" THEN TableOK(code, ended, "$const", "const", TRUE, map, ConstV)
  ELSE TableOK(code, ended, "$const", "const", FALSE, const_values, ConstV)
ImportOK ==
  IF reader = "$import" THEN TableOK(code, ended, "$import", "import", TRUE, map, ImportV)
  ELSE TableOK(code, ended, "$import", "import", FALSE, import_module_names, ImportV)
UsedOK ==
  IF reader = "$type" THEN TableOK(code, ended, "$type", "type", TRUE, map, TypeV)
  ELSE TableOK(code, ended, "$type", "type", FALSE, using_types, TypeV)

\* Index i stands on a line of the text.
OnLine(i) == \E p \in DOMAIN code : i \in Indexes(code[p])

IndexInv ==
  /\ \A i \in DOMAIN map : OnLine(i)
  /\ reader \in {"labels", "orders"} => OnLine(function.index)

TextInv ==
  /\ kind \in DOMAIN Lines
  /\ code \in Seq(AllLines)
  /\ ended \subseteq EndOfText
  /\ result # "parsing" => reader = ""
  /\ IndexInv

TablesInv == result \in {"parsing", "module"} /\ Unwrapped => ConstOK /\ ImportOK /\ UsedOK

ParserInv == TextInv /\ TablesInv /\ SafeOnSoundText

\* Definitions is DefsIn of the text.
LEMMA DefsText ==
  ASSUME NEW kw, NEW e, NEW p
  PROVE  /\ Definitions(kw, e, p) = DefsIn(code, kw, e, p)
         /\ Definitions(kw, e, p)' = DefsIn(code', kw, e, p)
  <1>1. Definitions(kw, e, p) = DefsIn(code, kw, e, p)
    BY DEF Definitions, DefsIn, IndexIn, AtIn, LastSection, LastIn, Between, End, EndIn
  <1>2. Definitions(kw, e, p)' = DefsIn(code', kw, e, p)
    BY DEF Definitions, DefsIn, IndexIn, AtIn, LastSection, LastIn, Between, End, EndIn
  <1> QED
    BY <1>1, <1>2

\* A line is read.
LEMMA LineRead ==
  ASSUME TextInv, reader \in Readers, NEW line \in Lines[kind][reader], ReadLine(line)
  PROVE  /\ LineOK(line) /\ line.kind # "eof" /\ Longer(code, code', line)
         /\ ended = {} /\ ended' = {} /\ kind' = kind /\ code' \in Seq(AllLines)
  <1>1. kind \in DOMAIN Lines /\ code \in Seq(AllLines) /\ ended \subseteq EndOfText
    BY DEF TextInv
  <1>2. LineOK(line) /\ line \in AllLines
    BY <1>1, LineAssumption DEF AllLines
  <1>3. line.kind # "eof"
    BY <1>2 DEF LineOK
  <1>4. line \notin EndOfText
    BY <1>3 DEF EndOfText
  <1>5. code' = Append(code, line) /\ kind' = kind /\ (ended = {} \/ ended = {line})
        /\ ended' = {line} \cap EndOfText
    BY <1>4 DEF ReadLine
  <1>6. ended = {} /\ ended' = {}
    BY <1>1, <1>4, <1>5
  <1>7. Longer(code, code', line) /\ code' \in Seq(AllLines)
    BY <1>1, <1>2, <1>5 DEF Longer
  <1> QED
    BY <1>2, <1>3, <1>5, <1>6, <1>7

\* The end of the text is met, again perhaps.
LEMMA EndRead ==
  ASSUME TextInv, NEW line \in EndOfText, ReadLine(line)
  PROVE  line.kind = "eof" /\ code' = code /\ kind' = kind /\ ended' = {line} /\ ended' # {}
  BY DEF ReadLine, EndOfText

\* Constants that were there for a line stay there.
LEMMA KnownStays ==
  ASSUME code \in Seq(AllLines), NEW line, Longer(code, code', line),
         NEW p \in 1 .. Len(code) + 1, ClosedIn(code, "$const", p)
  PROVE  /\ ClosedIn(code', "$const", p)
         /\ Constants(p)' = Constants(p)
         /\ \A n \in DOMAIN Constants(p) : TextOf(p, n)' = TextOf(p, n)
  <1>1. /\ ClosedIn(code', "$const", p)
        /\ AtIn(code', "$const", "const", p) = AtIn(code, "$const", "const", p)
    BY ClosedStays
  <1>2. DefsIn(code', "$const", "const", p) = DefsIn(code, "$const", "const", p)
    BY <1>1, DefsStay
  <1>3. Constants(p)' = Constants(p)
    BY <1>2, DefsText DEF Constants
  <1>4. Len(code) \in Nat /\ \A q \in 1 .. Len(code) : code'[q] = code[q]
    BY DEF Longer
  <1>5. ASSUME NEW n \in DOMAIN Constants(p) PROVE TextOf(p, n)' = TextOf(p, n)
    <2>1. Constants(p)[n] \in 1 .. Len(code)
      BY <1>4, <1>5, DefsText, DefsFacts DEF Constants
    <2>2. code'[Constants(p)[n]] = code[Constants(p)[n]]
      BY <1>4, <2>1
    <2> QED
      BY <1>3, <2>2 DEF TextOf
  <1> QED
    BY <1>1, <1>3, <1>5

\* What a line stands for stays.
LEMMA ValuesStay ==
  ASSUME code \in Seq(AllLines), code' \in Seq(AllLines), NEW line, Longer(code, code', line)
  PROVE  /\ Agree(ConstV, ConstV') /\ Agree(ImportV, ImportV') /\ Agree(TypeV, TypeV')
         /\ DOMAIN code' = 1 .. Len(code) + 1
  <1>1. /\ Len(code) \in Nat /\ DOMAIN code = 1 .. Len(code)
        /\ \A q \in 1 .. Len(code) : code'[q] = code[q]
        /\ Len(code') = Len(code) + 1
    BY DEF Longer
  <1>2. DOMAIN code' = 1 .. Len(code) + 1
    BY <1>1
  <1>3. \A q \in DOMAIN code : q \in DOMAIN code' /\ code'[q] = code[q] /\ q \in 1 .. Len(code) + 1
    BY <1>1, <1>2
  <1>4. Agree(ConstV, ConstV')
    BY <1>3 DEF Agree, ConstV, ConstText
  <1>5. Agree(TypeV, TypeV')
    BY <1>3 DEF Agree, TypeV, TypeText
  <1>6. ASSUME NEW q \in DOMAIN code, KnownImport(q)
        PROVE  KnownImport(q)' /\ ImportText(q)' = ImportText(q)
    <2>1. ClosedIn(code, "$const", q)
      BY <1>6 DEF KnownImport
    <2>2. /\ ClosedIn(code', "$const", q)
          /\ Constants(q)' = Constants(q)
          /\ \A n \in DOMAIN Constants(q) : TextOf(q, n)' = TextOf(q, n)
      BY <1>3, <2>1, KnownStays
    <2>3. code'[q] = code[q]
      BY <1>3
    <2>4. KnownImport(q)'
      BY <1>6, <2>2, <2>3 DEF KnownImport, Defined
    <2>5. ImportText(q)' = ImportText(q)
      BY <1>6, <2>2, <2>3 DEF KnownImport, Defined, ImportText
    <2> QED
      BY <2>4, <2>5
  <1>7. ASSUME NEW q \in DOMAIN ImportV
        PROVE  q \in DOMAIN ImportV' /\ ImportV[q] = ImportV'[q]
    <2>1. q \in DOMAIN code /\ KnownImport(q) /\ ImportV[q] = ImportText(q)
      BY DEF ImportV
    <2>2. q \in DOMAIN code' /\ KnownImport(q)' /\ ImportText(q)' = ImportText(q)
      BY <1>3, <1>6, <2>1
    <2>3. ImportV' = [r \in {x \in DOMAIN code' : KnownImport(x)'} |-> ImportText(r)']
      BY DEF ImportV
    <2> QED
      BY <2>1, <2>2, <2>3
  <1>8. Agree(ImportV, ImportV')
    BY <1>7 DEF Agree
  <1> QED
    BY <1>2, <1>4, <1>5, <1>8

\* Between sections of constants the table is that of the constants before the
\* line that is read.
LEMMA ConstKnown ==
  ASSUME code \in Seq(AllLines), NEW line, Longer(code, code', line),
         ConstOK, reader # "$const", ended = {}, NEW p, p = Len(code) + 1
  PROVE  /\ ClosedIn(code', "$const", p)
         /\ DOMAIN const_values = DOMAIN Constants(p)'
         /\ \A n \in DOMAIN const_values : ConstString(n) = TextOf(p, n)'
         /\ \A n \in DOMAIN const_values :
              Readable(const_values[n]) <=> Readable(code'[Constants(p)'[n]])
  <1>1. Len(code) \in Nat /\ Len(code) + 1 \in 1 .. Len(code) + 1 /\ DOMAIN code = 1 .. Len(code)
    BY DEF Longer
  <1>2. /\ ClosedIn(code, "$const", Len(code) + 1)
        /\ Matches(const_values, DefsIn(code, "$const", "const", Len(code) + 1), ConstV)
    BY DEF ConstOK, TableOK
  <1>3. p \in 1 .. Len(code) + 1
    BY <1>1
  <1>4. /\ ClosedIn(code', "$const", p)
        /\ Constants(p)' = Constants(p)
        /\ \A n \in DOMAIN Constants(p) : TextOf(p, n)' = TextOf(p, n)
    BY <1>2, <1>3, KnownStays
  <1>5. Constants(p) = DefsIn(code, "$const", "const", p)
    BY DefsText DEF Constants
  <1>6. DOMAIN const_values = DOMAIN Constants(p)
        /\ \A n \in DOMAIN const_values : const_values[n] = ConstV[Constants(p)[n]]
    BY <1>2, <1>3, <1>5 DEF Matches
  <1>7. ASSUME NEW n \in DOMAIN const_values
        PROVE  /\ ConstString(n) = TextOf(p, n)
               /\ Readable(const_values[n]) <=> Readable(code'[Constants(p)[n]])
    <2>1. Constants(p)[n] \in DOMAIN code
      BY <1>1, <1>5, <1>6, DefsFacts
    <2>2. const_values[n] = ConstText(Constants(p)[n])
      BY <1>6, <2>1 DEF ConstV
    <2>3. code'[Constants(p)[n]] = code[Constants(p)[n]]
      BY <1>1, <2>1 DEF Longer
    <2> QED
      BY <2>2, <2>3 DEF ConstString, TextOf, ConstText, Readable
  <1>8. /\ \A n \in DOMAIN const_values : ConstString(n) = TextOf(p, n)'
        /\ \A n \in DOMAIN const_values :
             Readable(const_values[n]) <=> Readable(code'[Constants(p)'[n]])
    BY <1>4, <1>6, <1>7
  <1> QED
    BY <1>3, <1>4, <1>6, <1>8

-----------------------------------------------------------------------------
(***************************************************************************)
(* The tables, line by line.                                               *)
(***************************************************************************)
\* What reading does to the text: a line more, or its end.
Moves(line) ==
  \/ /\ Longer(code, code', line) /\ code' \in Seq(AllLines) /\ LineOK(line)
     /\ line.kind # "eof" /\ ended = {} /\ ended' = {}
  \/ line.kind = "eof" /\ code' = code /\ ended' = {line}

\* At the end lines stand for what they did.
LEMMA ValuesSame ==
  ASSUME code' = code
  PROVE  ConstV' = ConstV /\ ImportV' = ImportV /\ TypeV' = TypeV
  <1>1. ConstV' = ConstV
    BY DEF ConstV, ConstText
  <1>2. TypeV' = TypeV
    BY DEF TypeV, TypeText
  <1>3. \A p : Constants(p)' = Constants(p)
    BY DefsText DEF Constants
  <1>4. \A p : KnownImport(p)' <=> KnownImport(p)
    BY <1>3 DEF KnownImport, Defined
  <1>5. \A p : ImportText(p)' = ImportText(p)
    BY <1>3 DEF ImportText, TextOf
  <1>6. ImportV' = [r \in {x \in DOMAIN code' : KnownImport(x)'} |-> ImportText(r)']
    BY DEF ImportV
  <1>7. ImportV' = [r \in {x \in DOMAIN code : KnownImport(x)} |-> ImportText(r)]
    BY <1>4, <1>5, <1>6
  <1>8. ImportV' = ImportV
    BY <1>7 DEF ImportV
  <1> QED
    BY <1>1, <1>2, <1>8

\* Lines that are not of its section leave a table alone.
LEMMA TableStays ==
  ASSUME NEW c, NEW d, NEW end, NEW more, NEW line, NEW kw, NEW e, NEW t, NEW V, NEW W,
         TableOK(c, end, kw, e, FALSE, t, V), line.kind # kw,
         \/ Longer(c, d, line) /\ end = {} /\ more = {} /\ Agree(V, W)
         \/ d = c /\ more # {} /\ W = V
  PROVE  TableOK(d, more, kw, e, FALSE, t, W)
  <1>1. CASE Longer(c, d, line) /\ end = {} /\ more = {} /\ Agree(V, W)
    BY <1>1, TableBetween
  <1>2. CASE d = c /\ more # {} /\ W = V
    BY <1>2, TableAtEnd
  <1> QED
    BY <1>1, <1>2

\* Lines outside a section of constants leave const_values alone.
LEMMA ConstStays ==
  ASSUME TextInv, ConstOK, NEW line, Moves(line), line.kind # "$const",
         reader # "$const", reader' # "$const", const_values' = const_values
  PROVE  ConstOK'
  <1>1. TableOK(code, ended, "$const", "const", FALSE, const_values, ConstV)
    BY DEF ConstOK
  <1>2. \/ Longer(code, code', line) /\ ended = {} /\ ended' = {} /\ Agree(ConstV, ConstV')
        \/ code' = code /\ ended' # {} /\ ConstV' = ConstV
    BY ValuesStay, ValuesSame DEF Moves, TextInv
  <1>3. TableOK(code', ended', "$const", "const", FALSE, const_values, ConstV')
    BY <1>1, <1>2, TableStays
  <1> QED
    BY <1>3 DEF ConstOK

\* Lines outside a section of imports leave import_module_names alone.
LEMMA ImportStays ==
  ASSUME TextInv, ImportOK, NEW line, Moves(line), line.kind # "$import",
         reader # "$import", reader' # "$import", import_module_names' = import_module_names
  PROVE  ImportOK'
  <1>1. TableOK(code, ended, "$import", "import", FALSE, import_module_names, ImportV)
    BY DEF ImportOK
  <1>2. \/ Longer(code, code', line) /\ ended = {} /\ ended' = {} /\ Agree(ImportV, ImportV')
        \/ code' = code /\ ended' # {} /\ ImportV' = ImportV
    BY ValuesStay, ValuesSame DEF Moves, TextInv
  <1>3. TableOK(code', ended', "$import", "import", FALSE, import_module_names, ImportV')
    BY <1>1, <1>2, TableStays
  <1> QED
    BY <1>3 DEF ImportOK

\* Lines outside a section of used types leave using_types alone.
LEMMA UsedStays ==
  ASSUME TextInv, UsedOK, NEW line, Moves(line), line.kind # "$type",
         reader # "$type", reader' # "$type", using_types' = using_types
  PROVE  UsedOK'
  <1>1. TableOK(code, ended, "$type", "type", FALSE, using_types, TypeV)
    BY DEF UsedOK
  <1>2. \/ Longer(code, code', line) /\ ended = {} /\ ended' = {} /\ Agree(TypeV, TypeV')
        \/ code' = code /\ ended' # {} /\ TypeV' = TypeV
    BY ValuesStay, ValuesSame DEF Moves, TextInv
  <1>3. TableOK(code', ended', "$type", "type", FALSE, using_types, TypeV')
    BY <1>1, <1>2, TableStays
  <1> QED
    BY <1>3 DEF UsedOK

\* The indexes of a line are numbers that size_t has.
LEMMA LineSizes ==
  ASSUME NEW line, LineOK(line)
  PROVE  Indexes(line) \subseteq 0 .. SizeMax
  BY DEF LineOK, Indexes

\* What the map of a section has of the text.
LEMMA MapSizes ==
  ASSUME TextInv
  PROVE  DOMAIN map \subseteq 0 .. SizeMax /\ (Unwrapped => SizeMax \notin DOMAIN map)
  <1>1. code \in Seq(AllLines) /\ \A i \in DOMAIN map : OnLine(i)
    BY DEF TextInv, IndexInv
  <1> SUFFICES ASSUME NEW i \in DOMAIN map
               PROVE  i \in 0 .. SizeMax /\ (Unwrapped => i # SizeMax)
    OBVIOUS
  <1>2. PICK p \in DOMAIN code : i \in Indexes(code[p])
    BY <1>1 DEF OnLine
  <1>3. code[p] \in AllLines
    BY <1>1
  <1>4. LineOK(code[p])
    BY <1>3, LineAssumption DEF AllLines
  <1> QED
    BY <1>2, <1>4, LineSizes DEF Unwrapped

\* What a vector or an array of constants comes to.
LEMMA VectorOutcomes ==
  ASSUME NEW t
  PROVE  /\ VectorOutcome(t) \in {"ok", "nullptr", "terminated"}
         /\ VectorOutcome(t) = "ok" => NoGap(t)
         /\ CallocOutcomes(t) \subseteq {"ok", "nullptr", "terminated", "wild"}
         /\ "ok" \in CallocOutcomes(t) => NoGap(t)
         /\ Length(t) <= MaxEntries =>
              VectorOutcome(t) # "terminated" /\ CallocOutcomes(t) = {VectorOutcome(t)}
  BY DEF VectorOutcome, CallocOutcomes

\* The end of a section of constants.
LEMMA ConstCloses ==
  ASSUME TextInv, Unwrapped, NEW line, ParseConst(line), Closes(line, "$end"),
         result' \in {"parsing", "module"}
  PROVE  Whole(map) /\ reader' = "top" /\ const_values' = Table(map)
  <1>1. PICK outcome \in CallocOutcomes(map) :
          IF outcome = "ok" THEN GoOn("top") /\ const_values' = Table(map)
          ELSE Return(outcome) /\ UNCHANGED const_values
    BY DEF ParseConst, CloseTable, Return
  <1>2. outcome = "ok"
    BY <1>1, VectorOutcomes DEF Return
  <1> QED
    BY <1>1, <1>2, VectorOutcomes, MapSizes DEF GoOn, Whole

\* The end of a section of imports.
LEMMA ImportCloses ==
  ASSUME TextInv, Unwrapped, NEW line, ParseImport(line), Closes(line, "$end"),
         result' \in {"parsing", "module"}
  PROVE  Whole(map) /\ reader' = "top" /\ import_module_names' = Table(map)
  <1>1. IF VectorOutcome(map) = "ok" THEN GoOn("top") /\ import_module_names' = Table(map)
        ELSE Return(VectorOutcome(map)) /\ UNCHANGED import_module_names
    BY DEF ParseImport, CloseTable
  <1>2. VectorOutcome(map) = "ok"
    BY <1>1, VectorOutcomes DEF Return
  <1> QED
    BY <1>1, <1>2, VectorOutcomes, MapSizes DEF GoOn, Whole

\* The end of a section of used types.
LEMMA TypeCloses ==
  ASSUME TextInv, Unwrapped, NEW line, ParseType(line), Closes(line, "$end"),
         result' \in {"parsing", "module"}
  PROVE  Whole(map) /\ reader' = "top" /\ using_types' = Table(map)
  <1>1. IF VectorOutcome(map) = "ok" THEN GoOn("top") /\ using_types' = Table(map)
        ELSE Return(VectorOutcome(map)) /\ UNCHANGED using_types
    BY DEF ParseType, CloseTable
  <1>2. VectorOutcome(map) = "ok"
    BY <1>1, VectorOutcomes DEF Return
  <1> QED
    BY <1>1, <1>2, VectorOutcomes, MapSizes DEF GoOn, Whole

\* A line of a section of constants.
LEMMA ConstSection ==
  ASSUME TextInv, Unwrapped, ConstOK, NEW line, Moves(line), ParseConst(line),
         result' \in {"parsing", "module"}
  PROVE  ConstOK' /\ line.kind \notin Keywords /\ reader' \in {"$const", "top"}
  <1>1. /\ reader = "$const"
        /\ TableOK(code, ended, "$const", "const", TRUE, map, ConstV)
    BY DEF ParseConst, ConstOK
  <1>2. CASE line.kind = "eof"
    <2>1. code' = code /\ ended' # {} /\ ConstV' = ConstV
      BY <1>2, ValuesSame DEF Moves
    <2>2. Whole(map) /\ reader' = "top" /\ const_values' = Table(map)
      BY <1>2, ConstCloses DEF Closes
    <2>3. TableOK(code, ended', "$const", "const", FALSE, Table(map), ConstV)
      BY <1>1, <2>1, <2>2, TableAtEnd, TableCopied
    <2> QED
      BY <1>2, <2>1, <2>2, <2>3 DEF ConstOK, Keywords
  <1>3. CASE line.kind # "eof"
    <2>1. /\ Longer(code, code', line) /\ code' \in Seq(AllLines) /\ LineOK(line)
          /\ ended = {} /\ ended' = {} /\ code \in Seq(AllLines)
      BY <1>3 DEF Moves, TextInv
    <2>2. Agree(ConstV, ConstV') /\ DOMAIN code' = 1 .. Len(code) + 1
      BY <2>1, ValuesStay
    <2>3. TableOK(code, {}, "$const", "const", TRUE, map, ConstV)
      BY <1>1, <2>1
    <2>4. CASE line.kind = "$end"
      <3>1. Whole(map) /\ reader' = "top" /\ const_values' = Table(map)
        BY <2>4, ConstCloses DEF Closes
      <3>2. TableOK(code', {}, "$const", "const", FALSE, Table(map), ConstV')
        BY <2>1, <2>2, <2>3, <2>4, <3>1, TableInside, TableCopied
      <3> QED
        BY <2>1, <2>4, <3>1, <3>2 DEF ConstOK, Keywords
    <2>5. CASE line.kind = "blank"
      <3>1. reader' = reader /\ map' = map
        BY <2>5 DEF ParseConst, Closes, Entry
      <3>2. TableOK(code', {}, "$const", "const", TRUE, map, ConstV')
        BY <2>1, <2>2, <2>3, <2>5, TableInside
      <3> QED
        BY <1>1, <2>1, <2>5, <3>1, <3>2 DEF ConstOK, Keywords
    <2>6. CASE line.kind = "const"
      <3>1. Entry(line, "const", ConstOutcome(line), ConstValue(line))
        BY <2>6 DEF ParseConst, Closes
      <3>2. ConstOutcome(line) \in {"ok", "terminated", "nullptr"}
        BY DEF ConstOutcome
      <3>3. ConstOutcome(line) = "ok"
        BY <2>6, <3>1, <3>2 DEF Entry, Return
      <3>4. /\ map' = Put(map, line.index, ConstValue(line))
            /\ reader' = reader
        BY <2>6, <3>1, <3>3 DEF Entry
      <3>5. Len(code) + 1 \in DOMAIN code' /\ code'[Len(code) + 1] = line
        BY <2>1, <2>2 DEF Longer
      <3>6. /\ Len(code) + 1 \in DOMAIN ConstV'
            /\ ConstV'[Len(code) + 1] = ConstValue(line)
        BY <3>5 DEF ConstV, ConstText, ConstValue
      <3>7. line.index \in Nat
        BY <2>1, <2>6, SizeAssumption DEF LineOK
      <3>8. TableOK(code', {}, "$const", "const", TRUE,
                    Put(map, line.index, ConstV'[Len(code) + 1]), ConstV')
        BY <2>1, <2>2, <2>3, <2>6, <3>6, <3>7, TableEntry
      <3>9. TableOK(code', {}, "$const", "const", TRUE, map', ConstV')
        BY <3>4, <3>6, <3>8
      <3> QED
        BY <1>1, <2>1, <2>6, <3>4, <3>9 DEF ConstOK, Keywords
    <2>7. CASE line.kind \notin {"$end", "blank", "const"}
      <3>1. result' = "nullptr"
        BY <1>3, <2>7 DEF ParseConst, Closes, Entry, Return
      <3> QED
        BY <3>1
    <2> QED
      BY <2>4, <2>5, <2>6, <2>7
  <1> QED
    BY <1>2, <1>3

\* A line of a section of used types.
LEMMA UsedSection ==
  ASSUME TextInv, Unwrapped, UsedOK, NEW line, Moves(line), ParseType(line),
         result' \in {"parsing", "module"}
  PROVE  UsedOK' /\ line.kind \notin Keywords /\ reader' \in {"$type", "top"}
  <1>1. /\ reader = "$type"
        /\ TableOK(code, ended, "$type", "type", TRUE, map, TypeV)
    BY DEF ParseType, UsedOK
  <1>2. CASE line.kind = "eof"
    <2>1. code' = code /\ ended' # {} /\ TypeV' = TypeV
      BY <1>2, ValuesSame DEF Moves
    <2>2. Whole(map) /\ reader' = "top" /\ using_types' = Table(map)
      BY <1>2, TypeCloses DEF Closes
    <2>3. TableOK(code, ended', "$type", "type", FALSE, Table(map), TypeV)
      BY <1>1, <2>1, <2>2, TableAtEnd, TableCopied
    <2> QED
      BY <1>2, <2>1, <2>2, <2>3 DEF UsedOK, Keywords
  <1>3. CASE line.kind # "eof"
    <2>1. /\ Longer(code, code', line) /\ code' \in Seq(AllLines) /\ LineOK(line)
          /\ ended = {} /\ ended' = {} /\ code \in Seq(AllLines)
      BY <1>3 DEF Moves, TextInv
    <2>2. Agree(TypeV, TypeV') /\ DOMAIN code' = 1 .. Len(code) + 1
      BY <2>1, ValuesStay
    <2>3. TableOK(code, {}, "$type", "type", TRUE, map, TypeV)
      BY <1>1, <2>1
    <2>4. CASE line.kind = "$end"
      <3>1. Whole(map) /\ reader' = "top" /\ using_types' = Table(map)
        BY <2>4, TypeCloses DEF Closes
      <3>2. TableOK(code', {}, "$type", "type", FALSE, Table(map), TypeV')
        BY <2>1, <2>2, <2>3, <2>4, <3>1, TableInside, TableCopied
      <3> QED
        BY <2>1, <2>4, <3>1, <3>2 DEF UsedOK, Keywords
    <2>5. CASE line.kind = "blank"
      <3>1. reader' = reader /\ map' = map
        BY <2>5 DEF ParseType, Closes, Entry
      <3>2. TableOK(code', {}, "$type", "type", TRUE, map, TypeV')
        BY <2>1, <2>2, <2>3, <2>5, TableInside
      <3> QED
        BY <1>1, <2>1, <2>5, <3>1, <3>2 DEF UsedOK, Keywords
    <2>6. CASE line.kind = "type"
      <3>1. Entry(line, "type", "ok",
                  [import_index |-> line.import_index, type_name |-> line.number])
        BY <2>6 DEF ParseType, Closes
      <3>2. /\ map' = Put(map, line.index,
                          [import_index |-> line.import_index, type_name |-> line.number])
            /\ reader' = reader
        BY <2>6, <3>1 DEF Entry
      <3>3. Len(code) + 1 \in DOMAIN code' /\ code'[Len(code) + 1] = line
        BY <2>1, <2>2 DEF Longer
      <3>4. /\ Len(code) + 1 \in DOMAIN TypeV'
            /\ TypeV'[Len(code) + 1]
                 = [import_index |-> line.import_index, type_name |-> line.number]
        BY <3>3 DEF TypeV, TypeText
      <3>5. line.index \in Nat
        BY <2>1, <2>6 DEF LineOK
      <3>6. TableOK(code', {}, "$type", "type", TRUE,
                    Put(map, line.index, TypeV'[Len(code) + 1]), TypeV')
        BY <2>1, <2>2, <2>3, <2>6, <3>4, <3>5, TableEntry
      <3>7. TableOK(code', {}, "$type", "type", TRUE, map', TypeV')
        BY <3>2, <3>4, <3>6
      <3> QED
        BY <1>1, <2>1, <2>6, <3>2, <3>7 DEF UsedOK, Keywords
    <2>7. CASE line.kind \notin {"$end", "blank", "type"}
      <3>1. result' = "nullptr"
        BY <1>3, <2>7 DEF ParseType, Closes, Entry, Return
      <3> QED
        BY <3>1
    <2> QED
      BY <2>4, <2>5, <2>6, <2>7
  <1> QED
    BY <1>2, <1>3

\* A line of a section of imports, whose names are in const_values.
LEMMA ImportSection ==
  ASSUME TextInv, Unwrapped, ConstOK, ImportOK, NEW line, Moves(line), ParseImport(line),
         result' \in {"parsing", "module"}
  PROVE  ImportOK' /\ line.kind \notin Keywords /\ reader' \in {"$import", "top"}
  <1>1. /\ reader = "$import"
        /\ TableOK(code, ended, "$import", "import", TRUE, map, ImportV)
    BY DEF ParseImport, ImportOK
  <1>2. CASE line.kind = "eof"
    <2>1. code' = code /\ ended' # {} /\ ImportV' = ImportV
      BY <1>2, ValuesSame DEF Moves
    <2>2. Whole(map) /\ reader' = "top" /\ import_module_names' = Table(map)
      BY <1>2, ImportCloses DEF Closes
    <2>3. TableOK(code, ended', "$import", "import", FALSE, Table(map), ImportV)
      BY <1>1, <2>1, <2>2, TableAtEnd, TableCopied
    <2> QED
      BY <1>2, <2>1, <2>2, <2>3 DEF ImportOK, Keywords
  <1>3. CASE line.kind # "eof"
    <2>1. /\ Longer(code, code', line) /\ code' \in Seq(AllLines) /\ LineOK(line)
          /\ ended = {} /\ ended' = {} /\ code \in Seq(AllLines)
      BY <1>3 DEF Moves, TextInv
    <2>2. Agree(ImportV, ImportV') /\ DOMAIN code' = 1 .. Len(code) + 1
      BY <2>1, ValuesStay
    <2>3. TableOK(code, {}, "$import", "import", TRUE, map, ImportV)
      BY <1>1, <2>1
    <2>4. CASE line.kind = "$end"
      <3>1. Whole(map) /\ reader' = "top" /\ import_module_names' = Table(map)
        BY <2>4, ImportCloses DEF Closes
      <3>2. TableOK(code', {}, "$import", "import", FALSE, Table(map), ImportV')
        BY <2>1, <2>2, <2>3, <2>4, <3>1, TableInside, TableCopied
      <3> QED
        BY <2>1, <2>4, <3>1, <3>2 DEF ImportOK, Keywords
    <2>5. CASE line.kind = "blank"
      <3>1. reader' = reader /\ map' = map
        BY <2>5 DEF ParseImport, Closes, Entry
      <3>2. TableOK(code', {}, "$import", "import", TRUE, map, ImportV')
        BY <2>1, <2>2, <2>3, <2>5, TableInside
      <3> QED
        BY <1>1, <2>1, <2>5, <3>1, <3>2 DEF ImportOK, Keywords
    <2>6. CASE line.kind = "import"
      <3>1. Entry(line, "import", ImportOutcome(line), ImportName(line))
        BY <2>6 DEF ParseImport, Closes
      <3>2. ImportOutcome(line) \in {"ok", "wild"}
        BY DEF ImportOutcome, ConstFound
      <3>3. ImportOutcome(line) = "ok"
        BY <2>6, <3>1, <3>2 DEF Entry, Return
      <3>4. map' = Put(map, line.index, ImportName(line)) /\ reader' = reader
        BY <2>6, <3>1, <3>3 DEF Entry
      <3>5. PICK p : p = Len(code) + 1
        OBVIOUS
      <3>6. p \in DOMAIN code' /\ code'[p] = line
        BY <2>1, <2>2, <3>5 DEF Longer
      <3>7. /\ ClosedIn(code', "$const", p)
            /\ DOMAIN const_values = DOMAIN Constants(p)'
            /\ \A n \in DOMAIN const_values : ConstString(n) = TextOf(p, n)'
        BY <1>1, <2>1, <3>5, ConstKnown
      <3>8. /\ line.target \in {"this", "const", "other"}
            /\ line.target = "const" => line.number \in DOMAIN const_values
        BY <2>1, <2>6, <3>3 DEF LineOK, ImportOutcome, ConstFound
      <3>9. KnownImport(p)'
        BY <3>6, <3>7, <3>8 DEF KnownImport, Defined
      <3>10. ImportText(p)' = ImportName(line)
        BY <3>6, <3>7, <3>8 DEF ImportText, ImportName
      <3>11. ImportV' = [r \in {x \in DOMAIN code' : KnownImport(x)'} |-> ImportText(r)']
        BY DEF ImportV
      <3>12. Len(code) + 1 \in DOMAIN ImportV' /\ ImportV'[Len(code) + 1] = ImportName(line)
        BY <3>5, <3>6, <3>9, <3>10, <3>11
      <3>13. line.index \in Nat
        BY <2>1, <2>6, SizeAssumption DEF LineOK
      <3>14. TableOK(code', {}, "$import", "import", TRUE,
                     Put(map, line.index, ImportV'[Len(code) + 1]), ImportV')
        BY <2>1, <2>2, <2>3, <2>6, <3>12, <3>13, TableEntry
      <3>15. TableOK(code', {}, "$import", "import", TRUE, map', ImportV')
        BY <3>4, <3>12, <3>14
      <3> QED
        BY <1>1, <2>1, <2>6, <3>4, <3>15 DEF ImportOK, Keywords
    <2>7. CASE line.kind \notin {"$end", "blank", "import"}
      <3>1. result' = "nullptr"
        BY <1>3, <2>7 DEF ParseImport, Closes, Entry, Return
      <3> QED
        BY <3>1
    <2> QED
      BY <2>4, <2>5, <2>6, <2>7
  <1> QED
    BY <1>2, <1>3

\* Between sections.
LEMMA TablesBetween ==
  ASSUME TextInv, ConstOK, ImportOK, UsedOK, NEW line, Moves(line), Parse(line)
  PROVE  ConstOK' /\ ImportOK' /\ UsedOK'
  <1>1. /\ reader = "top"
        /\ const_values' = const_values /\ import_module_names' = import_module_names
        /\ using_types' = using_types
        /\ line.kind \in Keywords => reader' = line.kind /\ map' = NoTable
        /\ line.kind \notin Keywords => reader' \in {"top", ""}
    <2>1. /\ reader = "top"
          /\ const_values' = const_values /\ import_module_names' = import_module_names
          /\ using_types' = using_types
      BY DEF Parse
    <2>2. line.kind \in Keywords => reader' = line.kind /\ map' = NoTable
      BY DEF Parse, GoOn, Keywords
    <2>3. line.kind \notin Keywords => reader' \in {"top", ""}
      BY <2>1 DEF Parse, Return
    <2> QED
      BY <2>1, <2>2, <2>3
  <1>2. line.kind \in Keywords => Longer(code, code', line) /\ ended' = {}
    BY DEF Moves, Keywords
  <1>3. DOMAIN NoTable = {}
    BY DEF NoTable
  <1>4. ConstOK'
    <2>1. CASE line.kind = "$const"
      <3>1. reader' = "$const" /\ map' = NoTable /\ Longer(code, code', line) /\ ended' = {}
        BY <1>1, <1>2, <2>1 DEF Keywords
      <3>2. TableOK(code', {}, "$const", "const", TRUE, NoTable, ConstV')
        BY <1>3, <2>1, <3>1, TableOpens
      <3> QED
        BY <3>1, <3>2 DEF ConstOK
    <2>2. CASE line.kind # "$const"
      BY <1>1, <2>2, ConstStays
    <2> QED
      BY <2>1, <2>2
  <1>5. ImportOK'
    <2>1. CASE line.kind = "$import"
      <3>1. reader' = "$import" /\ map' = NoTable /\ Longer(code, code', line) /\ ended' = {}
        BY <1>1, <1>2, <2>1 DEF Keywords
      <3>2. TableOK(code', {}, "$import", "import", TRUE, NoTable, ImportV')
        BY <1>3, <2>1, <3>1, TableOpens
      <3> QED
        BY <3>1, <3>2 DEF ImportOK
    <2>2. CASE line.kind # "$import"
      BY <1>1, <2>2, ImportStays
    <2> QED
      BY <2>1, <2>2
  <1>6. UsedOK'
    <2>1. CASE line.kind = "$type"
      <3>1. reader' = "$type" /\ map' = NoTable /\ Longer(code, code', line) /\ ended' = {}
        BY <1>1, <1>2, <2>1 DEF Keywords
      <3>2. TableOK(code', {}, "$type", "type", TRUE, NoTable, TypeV')
        BY <1>3, <2>1, <3>1, TableOpens
      <3> QED
        BY <3>1, <3>2 DEF UsedOK
    <2>2. CASE line.kind # "$type"
      BY <1>1, <2>2, UsedStays
    <2> QED
      BY <2>1, <2>2
  <1> QED
    BY <1>4, <1>5, <1>6

Numbered == {"$const", "$import", "$type"}
ReadsElsewhere(line) ==
  \/ ParseTypeDefine(line) \/ ParseFunction(line) \/ ParseLabelBlocks(line) \/ ParseOrders(line)

\* The other readers refuse a keyword.
LEMMA KeywordRefused ==
  ASSUME NEW line, result' \in {"parsing", "module"}, ReadsElsewhere(line)
  PROVE  /\ line.kind \notin Keywords
         /\ reader \notin Numbered /\ reader' \notin Numbered
         /\ const_values' = const_values /\ import_module_names' = import_module_names
         /\ using_types' = using_types
  <1>1. CASE ParseTypeDefine(line)
    <2>1. line.kind \in Keywords => result' = "nullptr"
      BY <1>1 DEF ParseTypeDefine, Closes, Return, Keywords
    <2>2. reader = "$typedef" /\ reader' \in {"$typedef", "top", ""}
      BY <1>1 DEF ParseTypeDefine, Closes, Return, GoOn
    <2> QED
      BY <1>1, <2>1, <2>2 DEF ParseTypeDefine, Numbered
  <1>2. CASE ParseFunction(line)
    <2>1. line.kind \in Keywords => result' = "nullptr"
      BY <1>2 DEF ParseFunction, Closes, Return, Keywords
    <2>2. reader = "$function" /\ reader' \in {"$function", "labels", "top", ""}
      BY <1>2 DEF ParseFunction, Closes, CloseTable, Return, GoOn
    <2> QED
      BY <1>2, <2>1, <2>2 DEF ParseFunction, Numbered
  <1>3. CASE ParseLabelBlocks(line)
    <2>1. line.kind \in Keywords => result' = "nullptr"
      BY <1>3 DEF ParseLabelBlocks, Closes, Return, Keywords, Brace
    <2>2. reader = "labels" /\ reader' \in {"$function", "labels", "orders", ""}
      BY <1>3 DEF ParseLabelBlocks, Closes, Return, GoOn
    <2> QED
      BY <1>3, <2>1, <2>2 DEF ParseLabelBlocks, Numbered, tables
  <1>4. CASE ParseOrders(line)
    <2>1. line.kind \in Keywords => result' = "nullptr"
      BY <1>4 DEF ParseOrders, Return, Keywords
    <2>2. reader = "orders" /\ reader' \in {"labels", "orders", ""}
      BY <1>4 DEF ParseOrders, Return, GoOn
    <2> QED
      BY <1>4, <2>1, <2>2 DEF ParseOrders, Numbered, tables
  <1> QED
    BY <1>1, <1>2, <1>3, <1>4 DEF ReadsElsewhere

\* A text that goes on without SizeMax had none.
LEMMA UnwrappedBefore ==
  ASSUME TextInv, NEW line, Moves(line), Unwrapped'
  PROVE  Unwrapped
  <1> SUFFICES ASSUME NEW p \in DOMAIN code PROVE SizeMax \notin Indexes(code[p])
    BY DEF Unwrapped
  <1>1. code \in Seq(AllLines)
    BY DEF TextInv
  <1>2. p \in DOMAIN code' /\ code'[p] = code[p]
    BY <1>1 DEF Moves, Longer
  <1> QED
    BY <1>2 DEF Unwrapped

\* Every step keeps the tables.
LEMMA TablesStep ==
  ASSUME TextInv, TablesInv, result = "parsing", NEW line, Moves(line), Step(line)
  PROVE  TablesInv'
  <1> SUFFICES ASSUME result' \in {"parsing", "module"}, Unwrapped'
               PROVE  ConstOK' /\ ImportOK' /\ UsedOK'
    BY DEF TablesInv
  <1>0. Unwrapped
    BY UnwrappedBefore
  <1>1. ConstOK /\ ImportOK /\ UsedOK
    BY <1>0 DEF TablesInv
  <1>2. CASE Parse(line)
    BY <1>1, <1>2, TablesBetween
  <1>3. CASE ParseConst(line)
    <2>1. ConstOK' /\ line.kind \notin Keywords /\ reader' \in {"$const", "top"}
      BY <1>0, <1>1, <1>3, ConstSection
    <2>2. /\ reader = "$const" /\ import_module_names' = import_module_names
          /\ using_types' = using_types
      BY <1>3 DEF ParseConst
    <2>3. line.kind \notin {"$import", "$type"}
      BY <2>1 DEF Keywords
    <2> QED
      BY <1>1, <2>1, <2>2, <2>3, ImportStays, UsedStays
  <1>4. CASE ParseImport(line)
    <2>1. ImportOK' /\ line.kind \notin Keywords /\ reader' \in {"$import", "top"}
      BY <1>0, <1>1, <1>4, ImportSection
    <2>2. reader = "$import" /\ const_values' = const_values /\ using_types' = using_types
      BY <1>4 DEF ParseImport
    <2>3. line.kind \notin {"$const", "$type"}
      BY <2>1 DEF Keywords
    <2> QED
      BY <1>1, <2>1, <2>2, <2>3, ConstStays, UsedStays
  <1>5. CASE ParseType(line)
    <2>1. UsedOK' /\ line.kind \notin Keywords /\ reader' \in {"$type", "top"}
      BY <1>0, <1>1, <1>5, UsedSection
    <2>2. /\ reader = "$type" /\ const_values' = const_values
          /\ import_module_names' = import_module_names
      BY <1>5 DEF ParseType
    <2>3. line.kind \notin {"$const", "$import"}
      BY <2>1 DEF Keywords
    <2> QED
      BY <1>1, <2>1, <2>2, <2>3, ConstStays, ImportStays
  <1>6. CASE ReadsElsewhere(line)
    <2>1. /\ line.kind \notin Keywords
          /\ reader \notin Numbered /\ reader' \notin Numbered
          /\ const_values' = const_values /\ import_module_names' = import_module_names
          /\ using_types' = using_types
      BY <1>6, KeywordRefused
    <2>2. /\ line.kind \notin {"$const", "$import", "$type"}
          /\ reader \notin {"$const", "$import", "$type"}
          /\ reader' \notin {"$const", "$import", "$type"}
      BY <2>1 DEF Keywords, Numbered
    <2> QED
      BY <1>1, <2>1, <2>2, ConstStays, ImportStays, UsedStays
  <1> QED
    BY <1>2, <1>3, <1>4, <1>5, <1>6 DEF Step, ReadsElsewhere

-----------------------------------------------------------------------------
(***************************************************************************)
(* Sound lines are parsed within their bounds.                             *)
(***************************************************************************)
Fine == {"ok", "nullptr"}

\* What Sound asks of the line that is read, in terms of the table.
SoundHere(line) ==
  /\ \A n \in ConstRefs(line) : ConstFound(n) = "ok"
  /\ line.kind = "order" /\ line.name = "iadd" => Len(line.args) > 2
  /\ Numeric(line)

\* A sound text has sound lines.
LEMMA SoundLine ==
  ASSUME TextInv, ConstOK, NEW line, Moves(line), line.kind # "eof", Sound'
  PROVE  /\ Numeric(line) /\ (reader # "$const" => SoundHere(line))
         /\ \A i \in Indexes(line) : i < MaxEntries
  <1>1. /\ Longer(code, code', line) /\ code' \in Seq(AllLines) /\ code \in Seq(AllLines)
        /\ ended = {}
    BY DEF Moves, TextInv
  <1>2. PICK p : p = Len(code) + 1
    OBVIOUS
  <1>3. p \in DOMAIN code' /\ code'[p] = line
    <2>1. Len(code) \in Nat /\ Len(code') = Len(code) + 1 /\ code'[Len(code) + 1] = line
      BY <1>1 DEF Longer
    <2> QED
      BY <1>1, <1>2, <2>1
  <1>4. /\ \A n \in ConstRefs(line) : Defined(p, n)' /\ Readable(code'[Constants(p)'[n]])
        /\ \A i \in Indexes(line) : i < MaxEntries
        /\ line.kind = "order" /\ line.name = "iadd" => Len(line.args) > 2
        /\ Numeric(line)
    BY <1>3 DEF Sound
  <1>5. ASSUME reader # "$const" PROVE \A n \in ConstRefs(line) : ConstFound(n) = "ok"
    <2>1. /\ DOMAIN const_values = DOMAIN Constants(p)'
          /\ \A n \in DOMAIN const_values :
               Readable(const_values[n]) <=> Readable(code'[Constants(p)'[n]])
      BY <1>1, <1>2, <1>5, ConstKnown
    <2> QED
      BY <1>4, <2>1 DEF Defined, ConstFound
  <1> QED
    BY <1>4, <1>5 DEF SoundHere

\* The first failure is one of the outcomes.
LEMMA FirstFailureIn ==
  ASSUME NEW S, "ok" \in S, NEW outcomes \in Seq(S)
  PROVE  FirstFailure(outcomes) \in S
  <1> DEFINE wrong == {k \in DOMAIN outcomes : outcomes[k] # "ok"}
  <1>1. CASE wrong = {}
    BY <1>1 DEF FirstFailure
  <1>2. CASE wrong # {}
    <2>1. wrong \in SUBSET Nat
      OBVIOUS
    <2>2. Min(wrong) \in wrong
      <3> HIDE DEF wrong
      <3> QED
        BY <1>2, <2>1, MinOf
    <2>3. FirstFailure(outcomes) = outcomes[Min(wrong)]
      BY <1>2 DEF FirstFailure
    <2>4. Min(wrong) \in DOMAIN outcomes
      BY <2>2
    <2> QED
      BY <2>3, <2>4
  <1> QED
    BY <1>1, <1>2

\* The same for outcomes that come in three parts.
LEMMA FirstOfThree ==
  ASSUME NEW S, "ok" \in S, NEW r \in Seq(S), NEW s \in Seq(S), NEW t \in Seq(S)
  PROVE  FirstFailure(r \o s \o t) \in S
  <1>1. r \o s \o t \in Seq(S)
    OBVIOUS
  <1> QED
    BY <1>1, FirstFailureIn

\* A type: its constants are there.
LEMMA TypeSafe ==
  ASSUME NEW line, LineOK(line), SoundHere(line), line.kind = "typedef"
  PROVE  TypeOutcome(line) \in Fine
  <1>1. /\ ConstRefs(line) = {line.number} \cup Range(line.parent)
             \cup {f.type_name : f \in {g \in Range(line.fields) : g.kind = "user"}}
        /\ \A n \in ConstRefs(line) : ConstFound(n) = "ok"
    BY DEF ConstRefs, SoundHere
  <1>2. line.parent \in Seq(Range(line.parent)) /\ line.fields \in Seq(Range(line.fields))
    BY DEF LineOK
  <1>3. <<ConstFound(line.number)>> \in Seq(Fine)
    BY <1>1 DEF Fine
  <1>4. [k \in DOMAIN line.parent |-> ConstFound(line.parent[k])] \in Seq(Fine)
    <2>1. \A k \in DOMAIN line.parent : ConstFound(line.parent[k]) = "ok"
      BY <1>1 DEF Range
    <2>2. \A k \in DOMAIN line.parent : ConstFound(line.parent[k]) \in Fine
      BY <2>1 DEF Fine
    <2> QED
      BY <1>2, <2>2
  <1>5. [k \in DOMAIN line.fields |-> FieldOutcome(line.fields[k])] \in Seq(Fine)
    <2>1. \A k \in DOMAIN line.fields : line.fields[k].kind = "user" =>
            ConstFound(line.fields[k].type_name) = "ok"
      BY <1>1 DEF Range
    <2>2. \A k \in DOMAIN line.fields : FieldOutcome(line.fields[k]) \in Fine
      BY <2>1 DEF FieldOutcome, TypeFound, Fine
    <2> QED
      BY <1>2, <2>2
  <1>6. <<"nullptr">> \in Seq(Fine) /\ "ok" \in Fine
    BY DEF Fine
  <1>7. (IF line.fields = <<>> THEN <<"nullptr">>
         ELSE [k \in DOMAIN line.fields |-> FieldOutcome(line.fields[k])]) \in Seq(Fine)
    BY <1>5, <1>6
  <1>8. PICK r \in Seq(Fine) : r = <<ConstFound(line.number)>>
    BY <1>3
  <1>9. PICK s \in Seq(Fine) : s = [k \in DOMAIN line.parent |-> ConstFound(line.parent[k])]
    BY <1>4
  <1>10. PICK t \in Seq(Fine) :
           t = IF line.fields = <<>> THEN <<"nullptr">>
               ELSE [k \in DOMAIN line.fields |-> FieldOutcome(line.fields[k])]
    BY <1>7
  <1>11. TypeOutcome(line) = FirstFailure(r \o s \o t)
    BY <1>8, <1>9, <1>10 DEF TypeOutcome
  <1> QED
    BY <1>6, <1>11, FirstOfThree

\* The arguments of a function are a sequence.
LEMMA ArgumentsSeq ==
  ASSUME NEW line, line.args \in Seq(Range(line.args))
  PROVE  Arguments(line) \in Seq(Range(line.args))
  <1> DEFINE empty == {k \in DOMAIN line.args : line.args[k].kind = "empty"}
  <1>1. CASE empty = {}
    BY <1>1 DEF Arguments
  <1>2. CASE empty # {}
    <2>1. empty \in SUBSET Nat
      OBVIOUS
    <2>2. Min(empty) \in empty
      <3> HIDE DEF empty
      <3> QED
        BY <1>2, <2>1, MinOf
    <2>3. PICK m \in DOMAIN line.args : m = Min(empty)
      BY <2>2
    <2>4. Arguments(line) = SubSeq(line.args, 1, m - 1)
      BY <1>2, <2>3 DEF Arguments
    <2>5. SubSeq(line.args, 1, m - 1) \in Seq(Range(line.args))
      OBVIOUS
    <2> QED
      BY <2>4, <2>5
  <1> QED
    BY <1>1, <1>2

\* The head of a function.
LEMMA HeadSafe ==
  ASSUME NEW line, LineOK(line), SoundHere(line), line.kind = "function"
  PROVE  HeadOutcome(line) \in Fine
  <1>1. ConstRefs(line) = {line.number} /\ \A n \in ConstRefs(line) : ConstFound(n) = "ok"
    BY DEF ConstRefs, SoundHere
  <1>2. Arguments(line) \in Seq(Range(line.args))
    BY ArgumentsSeq DEF LineOK
  <1>3. <<ConstFound(line.number)>> \in Seq(Fine)
    BY <1>1 DEF Fine
  <1>4. [k \in DOMAIN Arguments(line) |-> ArgumentOutcome(Arguments(line)[k])] \in Seq(Fine)
    <2>1. \A a : ArgumentOutcome(a) \in Fine
      BY DEF ArgumentOutcome, TypeFound, Fine
    <2> QED
      BY <1>2, <2>1
  <1>5. <<TypeFound(line.type)>> \in Seq(Fine) /\ "ok" \in Fine
    BY DEF TypeFound, Fine
  <1>6. PICK r \in Seq(Fine) : r = <<ConstFound(line.number)>>
    BY <1>3
  <1>7. PICK s \in Seq(Fine) :
          s = [k \in DOMAIN Arguments(line) |-> ArgumentOutcome(Arguments(line)[k])]
    BY <1>4
  <1>8. PICK t \in Seq(Fine) : t = <<TypeFound(line.type)>>
    BY <1>5
  <1>9. HeadOutcome(line) = FirstFailure(r \o s \o t)
    BY <1>6, <1>7, <1>8 DEF HeadOutcome
  <1> QED
    BY <1>5, <1>9, FirstOfThree

\* Nothing failed.
LEMMA NoneFailed ==
  ASSUME NEW S, NEW outcomes \in Seq(S), FirstFailure(outcomes) = "ok"
  PROVE  \A k \in DOMAIN outcomes : outcomes[k] = "ok"
  <1> DEFINE wrong == {k \in DOMAIN outcomes : outcomes[k] # "ok"}
  <1>1. CASE wrong = {}
    BY <1>1
  <1>2. CASE wrong # {}
    <2>1. wrong \in SUBSET Nat
      OBVIOUS
    <2>2. Min(wrong) \in wrong
      <3> HIDE DEF wrong
      <3> QED
        BY <1>2, <2>1, MinOf
    <2>3. FirstFailure(outcomes) = outcomes[Min(wrong)]
      BY <1>2 DEF FirstFailure
    <2> QED
      BY <2>2, <2>3
  <1> QED
    BY <1>1, <1>2

\* A head that is taken has its name among the constants, and arguments only.
LEMMA HeadNamed ==
  ASSUME NEW line, LineOK(line), line.kind = "function", HeadOutcome(line) = "ok"
  PROVE  /\ line.number \in DOMAIN const_values
         /\ \A k \in DOMAIN Arguments(line) : Arguments(line)[k].kind = "argument"
  <1>1. Arguments(line) \in Seq(Range(line.args))
    BY ArgumentsSeq DEF LineOK
  <1>2. PICK S : S = {"ok", "nullptr", "wild"}
    OBVIOUS
  <1>3. ConstFound(line.number) \in S /\ TypeFound(line.type) \in S
    BY <1>2 DEF ConstFound, TypeFound
  <1>4. PICK r \in Seq(S) : r = <<ConstFound(line.number)>>
    <2>1. <<ConstFound(line.number)>> \in Seq(S)
      BY <1>3
    <2> QED
      BY <2>1
  <1>5. PICK s \in Seq(S) :
          s = [k \in DOMAIN Arguments(line) |-> ArgumentOutcome(Arguments(line)[k])]
    <2>1. \A a : ArgumentOutcome(a) \in S
      BY <1>2 DEF ArgumentOutcome, TypeFound
    <2>2. [k \in DOMAIN Arguments(line) |-> ArgumentOutcome(Arguments(line)[k])] \in Seq(S)
      BY <1>1, <2>1
    <2> QED
      BY <2>2
  <1>6. PICK t \in Seq(S) : t = <<TypeFound(line.type)>>
    <2>1. <<TypeFound(line.type)>> \in Seq(S)
      BY <1>3
    <2> QED
      BY <2>1
  <1>7. FirstFailure(r \o s \o t) = "ok"
    BY <1>4, <1>5, <1>6 DEF HeadOutcome
  <1>8. r \o s \o t \in Seq(S) /\ 1 \in DOMAIN (r \o s \o t)
    BY <1>4
  <1>9. (r \o s \o t)[1] = ConstFound(line.number)
    BY <1>4
  <1>10. (r \o s \o t)[1] = "ok"
    BY <1>7, <1>8, NoneFailed
  <1>11. ASSUME NEW k \in DOMAIN s PROVE s[k] = "ok"
    <2>1. Len(r) = 1 /\ k \in 1 .. Len(s) /\ Len(s) \in Nat /\ Len(t) \in Nat
      BY <1>4
    <2>2. PICK u \in Seq(S) : u = r \o s
      <3>1. r \o s \in Seq(S)
        OBVIOUS
      <3> QED
        BY <3>1
    <2>3. Len(u) = 1 + Len(s) /\ u[k + 1] = s[k]
      <3>1. k + 1 \in 1 .. Len(r) + Len(s) /\ k + 1 > Len(r) /\ (k + 1) - Len(r) = k
        BY <2>1
      <3>2. (r \o s)[k + 1] = s[(k + 1) - Len(r)]
        BY <3>1
      <3>3. Len(r \o s) = Len(r) + Len(s)
        OBVIOUS
      <3>4. u[k + 1] = s[k]
        BY <2>2, <3>1, <3>2
      <3>5. Len(u) = 1 + Len(s)
        BY <2>1, <2>2, <3>3
      <3> QED
        BY <3>4, <3>5
    <2>4. k + 1 \in DOMAIN (u \o t) /\ (u \o t)[k + 1] = u[k + 1]
      BY <2>1, <2>3
    <2> QED
      BY <1>7, <1>8, <2>2, <2>3, <2>4, NoneFailed
  <1>12. \A k \in DOMAIN Arguments(line) : ArgumentOutcome(Arguments(line)[k]) = "ok"
    BY <1>5, <1>11
  <1> QED
    BY <1>9, <1>10, <1>12 DEF ConstFound, ArgumentOutcome

\* The indexes of its arguments.
LEMMA ArgumentIndexes ==
  ASSUME NEW line, LineOK(line), line.kind = "function", HeadOutcome(line) = "ok"
  PROVE  /\ DOMAIN ArgumentTypes(line) \subseteq Indexes(line)
         /\ DOMAIN ArgumentTypes(line) \subseteq 0 .. SizeMax
  <1>1. Arguments(line) \in Seq(Range(line.args))
    BY ArgumentsSeq DEF LineOK
  <1>2. \A k \in DOMAIN Arguments(line) :
          Arguments(line)[k] \in Range(line.args) /\ Arguments(line)[k].kind = "argument"
    BY <1>1, HeadNamed
  <1>3. DOMAIN ArgumentTypes(line) = {Arguments(line)[k].index : k \in DOMAIN Arguments(line)}
    BY DEF ArgumentTypes
  <1>4. Indexes(line) =
          {line.index} \cup {a.index : a \in {b \in Range(line.args) : b.kind = "argument"}}
    BY DEF Indexes
  <1> QED
    BY <1>2, <1>3, <1>4, LineSizes

\* Indexes for which there is memory.
LEMMA LengthFits ==
  ASSUME NEW t, DOMAIN t \subseteq 0 .. SizeMax, \A i \in DOMAIN t : i < MaxEntries
  PROVE  Length(t) <= MaxEntries
  <1>1. Bounded(t) /\ SizeMax \notin DOMAIN t
    BY SizeAssumption DEF Bounded
  <1>2. Length(t) \in Nat /\ (Length(t) # 0 => Length(t) - 1 \in DOMAIN t)
    BY <1>1, LengthOf
  <1> QED
    BY <1>2, SizeAssumption

\* A function with its arguments.
LEMMA FunctionSafe ==
  ASSUME NEW line, LineOK(line), SoundHere(line), line.kind = "function",
         \A i \in Indexes(line) : i < MaxEntries
  PROVE  FunctionOutcome(line) \in Fine
  <1>1. HeadOutcome(line) \in Fine
    BY HeadSafe
  <1>2. ASSUME HeadOutcome(line) = "ok" PROVE VectorOutcome(ArgumentTypes(line)) \in Fine
    <2>1. Length(ArgumentTypes(line)) <= MaxEntries
      BY <1>2, ArgumentIndexes, LengthFits
    <2> QED
      BY <2>1, VectorOutcomes DEF Fine
  <1> QED
    BY <1>1, <1>2 DEF FunctionOutcome

ReadKinds == {"name", "register", "bool", "using_type", "const_string", "primitive", "stoull"}

\* What an order reads is a sequence.
LEMMA ReadsSeq ==
  ASSUME NEW order \in OrderNames
  PROVE  Reads(order) \in Seq(ReadKinds)
  <1>1. CASE order = "jump_to"
    <2>1. Reads(order) = <<"name">>
      BY <1>1 DEF Reads
    <2> QED
      BY <2>1 DEF ReadKinds
  <1>2. CASE order = "ret"
    <2>1. Reads(order) = <<"register">>
      BY <1>2 DEF Reads
    <2> QED
      BY <2>1 DEF ReadKinds
  <1>3. CASE order = "set_field"
    <2>1. Reads(order) = <<"register", "register", "bool", "using_type", "const_string">>
      BY <1>3 DEF Reads
    <2> QED
      BY <2>1 DEF ReadKinds
  <1>4. CASE order = "const"
    <2>1. Reads(order) = <<"primitive", "stoull">>
      BY <1>4 DEF Reads
    <2> QED
      BY <2>1 DEF ReadKinds
  <1>5. CASE order = "arg"
    <2>1. Reads(order) = <<"stoull">>
      BY <1>5 DEF Reads
    <2> QED
      BY <2>1 DEF ReadKinds
  <1>6. CASE order = "iadd"
    <2>1. Reads(order) = <<"primitive", "register", "register">>
      BY <1>6 DEF Reads
    <2> QED
      BY <2>1 DEF ReadKinds
  <1> QED
    BY <1>1, <1>2, <1>3, <1>4, <1>5, <1>6 DEF OrderNames

\* What parse_order finds of one argument.
LEMMA ArgumentSafe ==
  ASSUME NEW line, LineOK(line), SoundHere(line), line.kind = "order", line.name \in OrderNames,
         Len(line.args) >= AskedFor(line.name), NEW k \in DOMAIN Reads(line.name)
  PROVE  /\ k <= Len(line.args)
         /\ ArgOutcome(Reads(line.name)[k], line.args[k]) \in Fine
  <1>1. line.args \in Seq(Range(line.args))
    BY DEF LineOK
  <1>2. k \in DOMAIN line.args
    <2>1. CASE line.name = "iadd"
      <3>1. Len(line.args) > 2 /\ Reads(line.name) = <<"primitive", "register", "register">>
        BY <2>1 DEF SoundHere, Reads
      <3>2. k \in 1 .. 3
        BY <3>1
      <3> QED
        BY <1>1, <3>1, <3>2
    <2>2. CASE line.name # "iadd"
      <3>1. Len(line.args) >= Len(Reads(line.name))
        BY <2>2 DEF AskedFor
      <3>2. Len(Reads(line.name)) \in Nat /\ k \in 1 .. Len(Reads(line.name))
        BY DEF Reads, OrderNames
      <3> QED
        BY <1>1, <3>1, <3>2
    <2> QED
      BY <2>1, <2>2
  <1>3. k <= Len(line.args)
    BY <1>1, <1>2
  <1>4. ASSUME NEW read, read # "const_string", read # "stoull", NEW arg
        PROVE  ArgOutcome(read, arg) \in Fine
    BY <1>4 DEF ArgOutcome, Fine
  <1>5. CASE line.name = "set_field" /\ k = 5
    <2>1. Reads(line.name)[k] = "const_string"
      BY <1>5 DEF Reads
    <2>2. line.args[k].kind \in {"const", "number"} => line.args[k].number \in ConstRefs(line)
      BY <1>2, <1>5 DEF ConstRefs
    <2>3. line.args[k].kind \in Accepted("const_string") =>
            ConstFound(line.args[k].number) = "ok"
      BY <2>2 DEF Accepted, SoundHere
    <2> QED
      BY <1>3, <2>1, <2>3 DEF ArgOutcome, Fine
  <1>6. CASE <<line.name, k>> \in {<<"const", 2>>, <<"arg", 1>>}
    <2>1. Reads(line.name)[k] = "stoull"
      BY <1>6 DEF Reads
    <2>2. line.args[k].kind = "number"
      BY <1>2, <1>6 DEF SoundHere, Numeric
    <2>3. line.args[k].kind \in Accepted("stoull")
      BY <2>2 DEF Accepted
    <2> QED
      BY <1>3, <2>1, <2>3 DEF ArgOutcome, Fine
  <1>7. CASE /\ ~(line.name = "set_field" /\ k = 5)
             /\ <<line.name, k>> \notin {<<"const", 2>>, <<"arg", 1>>}
    <2>1. Reads(line.name)[k] \notin {"const_string", "stoull"}
      BY <1>7 DEF Reads, OrderNames
    <2> QED
      BY <1>3, <1>4, <2>1
  <1> QED
    BY <1>5, <1>6, <1>7

\* An order.
LEMMA OrderSafe ==
  ASSUME NEW line, LineOK(line), SoundHere(line), line.kind = "order"
  PROVE  OrderOutcome(line) \in Fine
  <1> DEFINE reads == Reads(line.name)
             outcomes == [k \in DOMAIN reads |->
               IF k > Len(line.args) THEN "wild" ELSE ArgOutcome(reads[k], line.args[k])]
  <1>1. CASE line.name \in OrderNames /\ Len(line.args) >= AskedFor(line.name)
    <2>1. \A k \in DOMAIN reads : k <= Len(line.args)
                                  /\ ArgOutcome(reads[k], line.args[k]) \in Fine
      BY <1>1, ArgumentSafe
    <2>2. DOMAIN reads = 1 .. Len(reads) /\ Len(reads) \in Nat
      <3>1. reads \in Seq(ReadKinds)
        BY <1>1, ReadsSeq
      <3> HIDE DEF reads
      <3> QED
        BY <3>1
    <2>3. Len(line.args) \in Nat
      BY DEF LineOK
    <2>4. \A k \in DOMAIN reads : outcomes[k] \in Fine
      BY <2>1, <2>2, <2>3
    <2>5. outcomes \in Seq(Fine) /\ "ok" \in Fine
      BY <2>2, <2>4 DEF Fine
    <2>6. FirstFailure(outcomes) \in Fine
      BY <2>5, FirstFailureIn
    <2>7. OrderOutcome(line) \in {"nullptr", FirstFailure(outcomes)}
      BY DEF OrderOutcome
    <2> QED
      BY <2>6, <2>7 DEF Fine
  <1>2. CASE line.name \notin OrderNames
    BY <1>2 DEF OrderOutcome, Fine
  <1>3. CASE line.name \in OrderNames /\ ~(Len(line.args) >= AskedFor(line.name))
    <2>1. Len(line.args) \in Nat
      BY DEF LineOK
    <2>2. AskedFor(line.name) \in Nat
      BY <1>3 DEF AskedFor, Reads, OrderNames
    <2>3. Len(line.args) < AskedFor(line.name)
      BY <1>3, <2>1, <2>2
    <2> QED
      BY <2>3 DEF OrderOutcome, Fine
  <1> QED
    BY <1>1, <1>2, <1>3

\* In a sound text the map of a section is no longer than there is memory for.
LEMMA MapFits ==
  ASSUME TextInv, NEW line, Moves(line), Sound'
  PROVE  /\ Unwrapped
         /\ VectorOutcome(map) \in Fine
         /\ CallocOutcomes(map) \subseteq Fine
  <1>1. code \in Seq(AllLines)
    BY DEF TextInv
  <1>2. ASSUME NEW p \in DOMAIN code, NEW i \in Indexes(code[p]) PROVE i < MaxEntries
    <2>1. p \in DOMAIN code' /\ code'[p] = code[p]
      BY <1>1 DEF Moves, Longer
    <2> QED
      BY <1>2, <2>1 DEF Sound
  <1>3. Unwrapped
    BY <1>2, SizeAssumption DEF Unwrapped
  <1>4. \A i \in DOMAIN map : i < MaxEntries
    BY <1>2 DEF TextInv, IndexInv, OnLine
  <1>5. Length(map) <= MaxEntries
    BY <1>4, MapSizes, LengthFits
  <1> QED
    BY <1>3, <1>5, VectorOutcomes DEF Fine

\* No step on a sound text leaves the bounds.
LEMMA SafeStep ==
  ASSUME TextInv, TablesInv, result = "parsing", NEW line, Moves(line), Step(line)
  PROVE  SafeOnSoundText'
  <1> SUFFICES ASSUME result' \in {"wild", "terminated"}, Sound'
               PROVE  FALSE
    BY DEF SafeOnSoundText
  <1>0. /\ Unwrapped /\ VectorOutcome(map) \in Fine /\ CallocOutcomes(map) \subseteq Fine
        /\ result' \notin Fine
    BY MapFits DEF Fine
  <1>1. ConstOK
    BY <1>0 DEF TablesInv
  <1>2. CASE line.kind = "eof"
    <2>1. code' = code /\ ended' = {line}
      BY <1>2 DEF Moves
    <2>2. ParseConst(line) /\ RunsOff(line)
      <3>1. ~Parse(line)
        BY <1>2 DEF Parse, Keywords, Return
      <3>2. ~ParseImport(line) /\ ~ParseType(line)
        BY <1>0, <1>2 DEF ParseImport, ParseType, Closes, CloseTable, GoOn, Return
      <3>3. ~ParseTypeDefine(line) /\ ~ParseLabelBlocks(line) /\ ~ParseOrders(line)
        BY <1>2 DEF ParseTypeDefine, ParseLabelBlocks, ParseOrders, Closes, GoOn
      <3>4. ~ParseFunction(line)
        BY <1>0, <1>2 DEF ParseFunction, Closes, CloseTable, GoOn, Return
      <3>5. ParseConst(line)
        BY <3>1, <3>2, <3>3, <3>4 DEF Step
      <3>6. RunsOff(line)
        BY <1>0, <1>2, <3>5 DEF ParseConst, Closes, CloseTable, GoOn, Return
      <3> QED
        BY <3>5, <3>6
    <2>3. ~line.newline /\ code # <<>> /\ Last(code).kind = "const"
      BY <2>2 DEF RunsOff
    <2>4. code' # <<>> /\ Last(code').kind = "const"
      BY <2>1, <2>3
    <2>5. \E e \in ended' : e.newline
      BY <2>4 DEF Sound
    <2> QED
      BY <2>1, <2>3, <2>5
  <1>3. CASE line.kind # "eof"
    <2>1. LineOK(line)
      BY <1>3 DEF Moves
    <2>2. /\ Numeric(line) /\ (reader # "$const" => SoundHere(line))
          /\ \A i \in Indexes(line) : i < MaxEntries
      BY <1>1, <1>3, SoundLine
    <2>3. ~Parse(line)
      BY <1>3 DEF Parse, GoOn
    <2>4. ~ParseConst(line)
      <3> SUFFICES ASSUME ParseConst(line) PROVE FALSE
        OBVIOUS
      <3>1. line.kind # "$end"
        BY <1>0, <1>3 DEF ParseConst, Closes, CloseTable, RunsOff, GoOn, Return
      <3>2. Entry(line, "const", ConstOutcome(line), ConstValue(line))
        BY <1>3, <3>1 DEF ParseConst, Closes
      <3>3. line.kind = "const" /\ ConstOutcome(line) = result'
        BY <3>2 DEF Entry, Return
      <3>4. line.value = "no number"
        BY <3>3 DEF ConstOutcome
      <3> QED
        BY <2>2, <3>3, <3>4 DEF Numeric
    <2>5. ~ParseImport(line)
      <3> SUFFICES ASSUME ParseImport(line) PROVE FALSE
        OBVIOUS
      <3>1. line.kind # "$end" /\ reader = "$import"
        BY <1>0, <1>3 DEF ParseImport, Closes, CloseTable, GoOn, Return
      <3>2. Entry(line, "import", ImportOutcome(line), ImportName(line))
        BY <1>3, <3>1 DEF ParseImport, Closes
      <3>3. line.kind = "import" /\ ImportOutcome(line) = result'
        BY <3>2 DEF Entry, Return
      <3>4. line.target = "const" /\ ConstFound(line.number) # "ok"
        BY <3>3 DEF ImportOutcome
      <3>5. line.number \in ConstRefs(line)
        BY <3>3, <3>4 DEF ConstRefs
      <3> QED
        BY <2>2, <3>1, <3>4, <3>5 DEF SoundHere
    <2>6. ~ParseType(line)
      BY <1>0, <1>3 DEF ParseType, Closes, CloseTable, Entry, GoOn, Return
    <2>7. ~ParseTypeDefine(line)
      <3> SUFFICES ASSUME ParseTypeDefine(line) PROVE FALSE
        OBVIOUS
      <3>1. reader = "$typedef"
        BY DEF ParseTypeDefine
      <3>2. line.kind = "typedef" /\ TypeOutcome(line) = result'
        BY <1>3 DEF ParseTypeDefine, Closes, GoOn, Return
      <3>3. TypeOutcome(line) \in Fine
        BY <2>1, <2>2, <3>1, <3>2, TypeSafe
      <3> QED
        BY <3>2, <3>3 DEF Fine
    <2>8. ~ParseFunction(line)
      <3> SUFFICES ASSUME ParseFunction(line) PROVE FALSE
        OBVIOUS
      <3>1. reader = "$function"
        BY DEF ParseFunction
      <3>2. line.kind = "function" /\ FunctionOutcome(line) = result'
        BY <1>0, <1>3 DEF ParseFunction, Closes, CloseTable, GoOn, Return
      <3>3. FunctionOutcome(line) \in Fine
        BY <2>1, <2>2, <3>1, <3>2, FunctionSafe
      <3> QED
        BY <3>2, <3>3 DEF Fine
    <2>9. ~ParseLabelBlocks(line)
      BY <1>3 DEF ParseLabelBlocks, Closes, GoOn, Return
    <2>10. ~ParseOrders(line)
      <3> SUFFICES ASSUME ParseOrders(line) PROVE FALSE
        OBVIOUS
      <3>1. reader = "orders"
        BY DEF ParseOrders
      <3>2. line.kind = "order" /\ OrderOutcome(line) = result'
        BY <1>3 DEF ParseOrders, GoOn, Return
      <3>3. OrderOutcome(line) \in Fine
        BY <2>1, <2>2, <3>1, <3>2, OrderSafe
      <3> QED
        BY <3>2, <3>3 DEF Fine
    <2> QED
      BY <2>3, <2>4, <2>5, <2>6, <2>7, <2>8, <2>9, <2>10 DEF Step
  <1> QED
    BY <1>2, <1>3

-----------------------------------------------------------------------------
(***************************************************************************)
(* The invariant holds.                                                    *)
(***************************************************************************)
\* No text, no entries.
LEMMA TableEmpty ==
  ASSUME NEW kw, NEW e, NEW V
  PROVE  TableOK(<<>>, {}, kw, e, FALSE, <<>>, V)
  <1>1. PICK c : c = <<>>
    OBVIOUS
  <1>2. Len(c) = 0 /\ Len(c) \in Nat /\ Len(c) + 1 \in 1 .. Len(c) + 1 /\ DOMAIN c = {}
    BY <1>1
  <1>3. LastIn(c, kw, Len(c) + 1) = 0
    <2>1. LastIn(c, kw, Len(c) + 1) \in 0 .. (Len(c) + 1) - 1
      BY <1>2, LastFacts
    <2> QED
      BY <1>2, <2>1
  <1>4. ClosedIn(c, kw, Len(c) + 1) /\ AtIn(c, kw, e, Len(c) + 1) = {}
    BY <1>3 DEF ClosedIn, AtIn
  <1>5. DOMAIN DefsIn(c, kw, e, Len(c) + 1) = {}
    BY <1>4 DEF DefsIn, IndexIn
  <1>6. Matches(c, DefsIn(c, kw, e, Len(c) + 1), V) /\ Bounded(c)
    BY <1>2, <1>5 DEF Matches, Bounded
  <1>7. Dense(c)
    <2>1. Cardinality(DOMAIN c) = 0
      BY <1>2, FS_EmptySet
    <2>2. 0 .. 0 - 1 = {}
      OBVIOUS
    <2> QED
      BY <1>2, <2>1, <2>2 DEF Dense
  <1>8. TableOK(c, {}, kw, e, FALSE, c, V)
    BY <1>4, <1>6, <1>7 DEF TableOK
  <1> QED
    BY <1>1, <1>8

\* An empty text.
LEMMA InitInv ==
  ASSUME Init
  PROVE  ParserInv
  <1>1. /\ kind \in DOMAIN Lines /\ code = <<>> /\ ended = {} /\ reader = "top"
        /\ const_values = <<>> /\ import_module_names = <<>> /\ using_types = <<>>
        /\ result = "parsing" /\ map = <<>>
    BY DEF Init, NoTable
  <1>2. TextInv
    <2>1. DOMAIN map = {}
      BY <1>1
    <2>2. IndexInv
      BY <1>1, <2>1 DEF IndexInv
    <2> QED
      BY <1>1, <2>2 DEF TextInv
  <1>3. ConstOK
    <2>1. TableOK(<<>>, {}, "$const", "const", FALSE, <<>>, ConstV)
      BY TableEmpty
    <2> QED
      BY <1>1, <2>1 DEF ConstOK
  <1>4. ImportOK
    <2>1. TableOK(<<>>, {}, "$import", "import", FALSE, <<>>, ImportV)
      BY TableEmpty
    <2> QED
      BY <1>1, <2>1 DEF ImportOK
  <1>5. UsedOK
    <2>1. TableOK(<<>>, {}, "$type", "type", FALSE, <<>>, TypeV)
      BY TableEmpty
    <2> QED
      BY <1>1, <2>1 DEF UsedOK
  <1>6. SafeOnSoundText
    BY <1>1 DEF SafeOnSoundText
  <1> QED
    BY <1>2, <1>3, <1>4, <1>5, <1>6 DEF ParserInv, TablesInv

\* Only a reader takes steps.
LEMMA StepReads ==
  ASSUME NEW line, Step(line)
  PROVE  reader \in Readers
  BY DEF Step, Readers, Keywords, Parse, ParseConst, ParseImport, ParseType, ParseTypeDefine,
         ParseFunction, ParseLabelBlocks, ParseOrders

\* A step that ends the parsing leaves no reader.
LEMMA StepReturns ==
  ASSUME NEW line, Step(line), result' # result
  PROVE  reader' = ""
  <1>1. CASE Parse(line)
    BY <1>1 DEF Parse, GoOn, Return
  <1>2. CASE ParseConst(line)
    BY <1>2 DEF ParseConst, Entry, CloseTable, GoOn, Return
  <1>3. CASE ParseImport(line)
    BY <1>3 DEF ParseImport, Entry, CloseTable, GoOn, Return
  <1>4. CASE ParseType(line)
    BY <1>4 DEF ParseType, Entry, CloseTable, GoOn, Return
  <1>5. CASE ParseTypeDefine(line)
    BY <1>5 DEF ParseTypeDefine, GoOn, Return
  <1>6. CASE ParseFunction(line)
    BY <1>6 DEF ParseFunction, CloseTable, GoOn, Return
  <1>7. CASE ParseLabelBlocks(line)
    BY <1>7 DEF ParseLabelBlocks, GoOn, Return
  <1>8. CASE ParseOrders(line)
    BY <1>8 DEF ParseOrders, GoOn, Return
  <1> QED
    BY <1>1, <1>2, <1>3, <1>4, <1>5, <1>6, <1>7, <1>8 DEF Step

\* The indexes in the map come from lines.
LEMMA IndexStep ==
  ASSUME code \in Seq(AllLines), IndexInv, NEW line, Moves(line), Step(line)
  PROVE  IndexInv'
  <1>1. ASSUME NEW i, OnLine(i) PROVE OnLine(i)'
    <2>1. PICK p \in DOMAIN code : i \in Indexes(code[p])
      BY <1>1 DEF OnLine
    <2>2. p \in DOMAIN code' /\ code'[p] = code[p]
      BY DEF Moves, Longer
    <2> QED
      BY <2>1, <2>2 DEF OnLine
  <1>2. ASSUME line.kind # "eof", NEW i \in Indexes(line) PROVE OnLine(i)'
    <2>1. PICK p : p = Len(code) + 1
      OBVIOUS
    <2>2. p \in DOMAIN code' /\ code'[p] = line
      BY <1>2, <2>1 DEF Moves, Longer
    <2> QED
      BY <1>2, <2>2 DEF OnLine
  <1>3. ASSUME NEW i \in DOMAIN map'
        PROVE  \/ i \in DOMAIN map
               \/ line.kind # "eof" /\ i \in Indexes(line)
               \/ reader = "labels" /\ i = function.index
    <2>1. CASE Parse(line)
      <3>1. DOMAIN NoTable = {}
        BY DEF NoTable
      <3> QED
        BY <2>1, <3>1 DEF Parse, Keywords
    <2>2. CASE ParseConst(line)
      BY <2>2 DEF ParseConst, Entry, CloseTable, Put, Indexes
    <2>3. CASE ParseImport(line)
      BY <2>3 DEF ParseImport, Entry, CloseTable, Put, Indexes
    <2>4. CASE ParseType(line)
      BY <2>4 DEF ParseType, Entry, CloseTable, Put, Indexes
    <2>5. CASE ParseTypeDefine(line) \/ ParseFunction(line) \/ ParseOrders(line)
      BY <2>5 DEF ParseTypeDefine, ParseFunction, ParseOrders
    <2>6. CASE ParseLabelBlocks(line)
      BY <2>6 DEF ParseLabelBlocks, Put
    <2> QED
      BY <2>1, <2>2, <2>3, <2>4, <2>5, <2>6 DEF Step
  <1>4. ASSUME reader' \in {"labels", "orders"}
        PROVE  \/ reader \in {"labels", "orders"} /\ function' = function
               \/ line.kind = "function" /\ function'.index = line.index
    <2>1. CASE Parse(line)
      BY <1>4, <2>1 DEF Parse, GoOn, Return, Keywords
    <2>2. CASE ParseConst(line)
      BY <1>4, <2>2 DEF ParseConst, Entry, CloseTable, GoOn, Return
    <2>3. CASE ParseImport(line)
      BY <1>4, <2>3 DEF ParseImport, Entry, CloseTable, GoOn, Return
    <2>4. CASE ParseType(line)
      BY <1>4, <2>4 DEF ParseType, Entry, CloseTable, GoOn, Return
    <2>5. CASE ParseTypeDefine(line)
      BY <1>4, <2>5 DEF ParseTypeDefine, GoOn, Return
    <2>6. CASE ParseFunction(line)
      <3>1. CASE Closes(line, "$end")
        <4>1. line.kind \notin {"blank", "function"}
          BY <3>1 DEF Closes
        <4>2. CloseTable(functions, {VectorOutcome(map)})
          BY <2>6, <3>1, <4>1 DEF ParseFunction
        <4>3. reader' \in {"top", ""}
          BY <4>2 DEF CloseTable, GoOn, Return
        <4> QED
          BY <1>4, <4>3
      <3>2. CASE ~Closes(line, "$end") /\ (line.kind # "function" \/ FunctionOutcome(line) # "ok")
        BY <1>4, <2>6, <3>2 DEF ParseFunction, Return
      <3>3. CASE ~Closes(line, "$end") /\ line.kind = "function" /\ FunctionOutcome(line) = "ok"
        BY <2>6, <3>3 DEF ParseFunction
      <3> QED
        BY <3>1, <3>2, <3>3
    <2>7. CASE ParseLabelBlocks(line) \/ ParseOrders(line)
      BY <2>7 DEF ParseLabelBlocks, ParseOrders
    <2> QED
      BY <2>1, <2>2, <2>3, <2>4, <2>5, <2>6, <2>7 DEF Step
  <1>5. line.kind = "function" => line.kind # "eof" /\ line.index \in Indexes(line)
    BY DEF Indexes
  <1>6. \A i \in DOMAIN map' : OnLine(i)'
    BY <1>1, <1>2, <1>3 DEF IndexInv
  <1>7. ASSUME reader' \in {"labels", "orders"} PROVE OnLine(function.index)'
    <2>1. PICK i : i = function'.index
      OBVIOUS
    <2>2. OnLine(i)'
      BY <1>1, <1>2, <1>4, <1>5, <1>7, <2>1 DEF IndexInv
    <2> QED
      BY <2>1, <2>2 DEF OnLine
  <1> QED
    BY <1>6, <1>7 DEF IndexInv

\* A line or the end of the text.
LEMMA NextInv ==
  ASSUME ParserInv, Next
  PROVE  ParserInv'
  <1>1. PICK line \in Lines[kind][reader] \cup EndOfText : ReadLine(line) /\ Step(line)
    BY DEF Next
  <1>2. TextInv /\ TablesInv /\ result = "parsing" /\ reader \in Readers
    BY <1>1, StepReads DEF ParserInv, Next
  <1>3. Moves(line) /\ TextInv'
    <2>1. /\ result' # "parsing" => reader' = ""
          /\ Moves(line) => IndexInv'
      BY <1>1, <1>2, StepReturns, IndexStep DEF TextInv
    <2>2. CASE line \in Lines[kind][reader]
      <3>1. /\ LineOK(line) /\ line.kind # "eof" /\ Longer(code, code', line)
            /\ ended = {} /\ ended' = {} /\ kind' = kind /\ code' \in Seq(AllLines)
        BY <1>1, <1>2, <2>2, LineRead
      <3> QED
        BY <1>2, <2>1, <3>1 DEF Moves, TextInv
    <2>3. CASE line \in EndOfText
      <3>1. line.kind = "eof" /\ code' = code /\ kind' = kind /\ ended' = {line} /\ ended' # {}
        BY <1>1, <1>2, <2>3, EndRead
      <3> QED
        BY <1>2, <2>3, <2>1, <3>1 DEF Moves, TextInv
    <2> QED
      BY <1>1, <2>2, <2>3
  <1>4. TablesInv'
    BY <1>1, <1>2, <1>3, TablesStep
  <1>5. SafeOnSoundText'
    BY <1>1, <1>2, <1>3, SafeStep
  <1> QED
    BY <1>3, <1>4, <1>5 DEF ParserInv

\* No step.
LEMMA StutterInv ==
  ASSUME ParserInv, UNCHANGED vars
  PROVE  ParserInv'
  <1>1. /\ kind' = kind /\ code' = code /\ ended' = ended /\ reader' = reader /\ map' = map
        /\ const_values' = const_values /\ import_module_names' = import_module_names
        /\ using_types' = using_types /\ result' = result /\ function' = function
    BY DEF vars, tables, body
  <1>2. ConstV' = ConstV /\ ImportV' = ImportV /\ TypeV' = TypeV
    BY <1>1, ValuesSame
  <1>3. TextInv'
    BY <1>1 DEF ParserInv, TextInv, IndexInv, OnLine
  <1>4. TablesInv'
    BY <1>1, <1>2 DEF ParserInv, TablesInv, Unwrapped, ConstOK, ImportOK, UsedOK
  <1>5. \A p : Constants(p)' = Constants(p)
    BY <1>1, DefsText DEF Constants
  <1>6. Sound' <=> Sound
    BY <1>1, <1>5 DEF Sound, Defined
  <1>7. SafeOnSoundText'
    BY <1>1, <1>6 DEF ParserInv, SafeOnSoundText
  <1> QED
    BY <1>3, <1>4, <1>7 DEF ParserInv

\* The invariant of the parser holds of every text.
THEOREM ParserIsInvariant == Spec => []ParserInv
  <1>1. Init => ParserInv
    BY InitInv
  <1>2. ParserInv /\ [Next]_vars => ParserInv'
    BY NextInv, StutterInv
  <1> QED
    BY <1>1, <1>2, PTL DEF Spec

\* A table that is the text's.
Finished(t, d, V) ==
  /\ DOMAIN t = DOMAIN d
  /\ DOMAIN t = 0 .. Cardinality(DOMAIN t) - 1
  /\ \A i \in DOMAIN t : d[i] \in DOMAIN V /\ t[i] = V[d[i]]

\* What TableOK says of a table that is not being read.
LEMMA TableRead ==
  ASSUME NEW c, Len(c) \in Nat, NEW end, NEW kw, NEW e, NEW t, NEW V,
         TableOK(c, end, kw, e, FALSE, t, V)
  PROVE  Finished(t, DefsIn(c, kw, e, Len(c) + 1), V)
  <1>1. /\ Dense(t) /\ AtIn(c, kw, e, Len(c) + 1) \subseteq DOMAIN V
        /\ Matches(t, DefsIn(c, kw, e, Len(c) + 1), V)
    BY DEF TableOK
  <1>2. Len(c) + 1 \in 1 .. Len(c) + 1
    OBVIOUS
  <1>3. \A i \in DOMAIN DefsIn(c, kw, e, Len(c) + 1) :
          DefsIn(c, kw, e, Len(c) + 1)[i] \in AtIn(c, kw, e, Len(c) + 1)
    BY <1>2, DefsFacts
  <1> QED
    BY <1>1, <1>3 DEF Dense, Matches, Finished

\* The constants of a text that has been read.
LEMMA ConstRead ==
  ASSUME code \in Seq(AllLines), ConstOK, reader \notin Numbered
  PROVE  Agrees(const_values, Definitions("$const", "const", EndPosition), ConstText)
  <1>1. PICK p : p = Len(code) + 1
    OBVIOUS
  <1>2. PICK d : d = DefsIn(code, "$const", "const", p)
    OBVIOUS
  <1>3. TableOK(code, ended, "$const", "const", FALSE, const_values, ConstV)
    BY DEF ConstOK, Numbered
  <1>4. Len(code) \in Nat
    OBVIOUS
  <1>5. Finished(const_values, DefsIn(code, "$const", "const", Len(code) + 1), ConstV)
    BY <1>3, <1>4, TableRead
  <1>6. Finished(const_values, d, ConstV)
    BY <1>1, <1>2, <1>5
  <1>7. \A i \in DOMAIN const_values : const_values[i] = ConstText(d[i])
    BY <1>6 DEF Finished, ConstV
  <1>8. Definitions("$const", "const", EndPosition) = d
    BY <1>1, <1>2, DefsText DEF EndPosition
  <1> QED
    BY <1>6, <1>7, <1>8 DEF Agrees, Finished

\* The imports of a text that has been read.
LEMMA ImportRead ==
  ASSUME code \in Seq(AllLines), ImportOK, reader \notin Numbered
  PROVE  Agrees(import_module_names, Definitions("$import", "import", EndPosition), ImportText)
  <1>1. PICK p : p = Len(code) + 1
    OBVIOUS
  <1>2. PICK d : d = DefsIn(code, "$import", "import", p)
    OBVIOUS
  <1>3. TableOK(code, ended, "$import", "import", FALSE, import_module_names, ImportV)
    BY DEF ImportOK, Numbered
  <1>4. Len(code) \in Nat
    OBVIOUS
  <1>5. Finished(import_module_names, DefsIn(code, "$import", "import", Len(code) + 1), ImportV)
    BY <1>3, <1>4, TableRead
  <1>6. Finished(import_module_names, d, ImportV)
    BY <1>1, <1>2, <1>5
  <1>7. \A i \in DOMAIN import_module_names : import_module_names[i] = ImportText(d[i])
    BY <1>6 DEF Finished, ImportV
  <1>8. Definitions("$import", "import", EndPosition) = d
    BY <1>1, <1>2, DefsText DEF EndPosition
  <1> QED
    BY <1>6, <1>7, <1>8 DEF Agrees, Finished

\* The used types of a text that has been read.
LEMMA UsedRead ==
  ASSUME code \in Seq(AllLines), UsedOK, reader \notin Numbered
  PROVE  Agrees(using_types, Definitions("$type", "type", EndPosition), TypeText)
  <1>1. PICK p : p = Len(code) + 1
    OBVIOUS
  <1>2. PICK d : d = DefsIn(code, "$type", "type", p)
    OBVIOUS
  <1>3. TableOK(code, ended, "$type", "type", FALSE, using_types, TypeV)
    BY DEF UsedOK, Numbered
  <1>4. Len(code) \in Nat
    OBVIOUS
  <1>5. Finished(using_types, DefsIn(code, "$type", "type", Len(code) + 1), TypeV)
    BY <1>3, <1>4, TableRead
  <1>6. Finished(using_types, d, TypeV)
    BY <1>1, <1>2, <1>5
  <1>7. \A i \in DOMAIN using_types : using_types[i] = TypeText(d[i])
    BY <1>6 DEF Finished, TypeV
  <1>8. Definitions("$type", "type", EndPosition) = d
    BY <1>1, <1>2, DefsText DEF EndPosition
  <1> QED
    BY <1>6, <1>7, <1>8 DEF Agrees, Finished

\* parse returns the constants, imports and used types of its text, whatever
\* the order of its sections, however often an index or a section is repeated,
\* and wherever the text ends.
THEOREM TablesAreTheText == Spec => []TablesFromText
  <1>1. ASSUME ParserInv, result = "module", Unwrapped PROVE TablesFromText
    <2>1. code \in Seq(AllLines) /\ reader \notin Numbered
      BY <1>1 DEF ParserInv, TextInv, Numbered
    <2>2. ConstOK /\ ImportOK /\ UsedOK
      BY <1>1 DEF ParserInv, TablesInv
    <2>3. Agrees(const_values, Constants(EndPosition), ConstText)
      BY <2>1, <2>2, ConstRead DEF Constants
    <2>4. Agrees(import_module_names,
                 Definitions("$import", "import", EndPosition), ImportText)
      BY <2>1, <2>2, ImportRead
    <2>5. Agrees(using_types, Definitions("$type", "type", EndPosition), TypeText)
      BY <2>1, <2>2, UsedRead
    <2> QED
      BY <2>3, <2>4, <2>5 DEF TablesFromText
  <1>2. ParserInv => TablesFromText
    BY <1>1 DEF TablesFromText
  <1> QED
    BY <1>2, ParserIsInvariant, PTL

\* parse reads only what is there and lets no exception of the library out as
\* long as its text is sound.
THEOREM SoundTextIsSafe == Spec => []SafeOnSoundText
  <1>1. ParserInv => SafeOnSoundText
    BY DEF ParserInv
  <1> QED
    BY <1>1, ParserIsInvariant, PTL

-----------------------------------------------------------------------------
(***************************************************************************)
(* Values in the order of their positions.                                 *)
(***************************************************************************)
\* A set of positions before x.
Before(S, x) == x \in Nat /\ S \subseteq 1 .. x - 1

\* Ranks in a finite set, and in one with a greater element more.
LEMMA RankNew ==
  ASSUME NEW S, NEW x, Before(S, x)
  PROVE  /\ IsFiniteSet(S) /\ Cardinality(S) \in Nat /\ x \notin S
         /\ Cardinality(S \cup {x}) = Cardinality(S) + 1
         /\ Rank(S \cup {x}, x) = Cardinality(S) + 1
         /\ \A y \in S : Rank(S \cup {x}, y) = Rank(S, y)
         /\ \A y \in S : Rank(S, y) \in 0 .. Cardinality(S)
  <1>1. x \in Nat /\ \A y \in S : y \in Nat /\ y < x
    BY DEF Before
  <1>2. IsFiniteSet(1 .. x - 1)
    BY <1>1, FS_Interval
  <1>3. IsFiniteSet(S) /\ Cardinality(S) \in Nat
    BY <1>2, FS_Subset, FS_CardinalityType DEF Before
  <1>4. x \notin S
    BY <1>1
  <1>5. Cardinality(S \cup {x}) = Cardinality(S) + 1
    BY <1>3, <1>4, FS_AddElement
  <1>6. {y \in S \cup {x} : y <= x} = S \cup {x}
    BY <1>1
  <1>7. \A y \in S : {z \in S \cup {x} : z <= y} = {z \in S : z <= y}
    BY <1>1
  <1>8. ASSUME NEW y \in S PROVE Rank(S, y) \in 0 .. Cardinality(S)
    <2>1. {z \in S : z <= y} \subseteq S
      OBVIOUS
    <2>2. PICK T : T = {z \in S : z <= y} /\ T \subseteq S
      BY <2>1
    <2>3. IsFiniteSet(T) /\ Cardinality(T) <= Cardinality(S) /\ Cardinality(T) \in Nat
      BY <1>3, <2>2, FS_Subset, FS_CardinalityType
    <2> QED
      BY <1>3, <2>2, <2>3 DEF Rank
  <1> QED
    BY <1>3, <1>4, <1>5, <1>6, <1>7, <1>8 DEF Rank

\* Every rank up to their number is that of an element.
LEMMA RankTaken ==
  ASSUME NEW S, NEW x, Before(S, x), NEW k \in 1 .. Cardinality(S)
  PROVE  \E y \in S : Rank(S, y) = k
  <1> DEFINE T == {y \in S : Rank(S, y) >= k}
             n == Cardinality(S)
  <1>1. /\ IsFiniteSet(S) /\ n \in Nat
        /\ \A y \in S : Rank(S, y) \in 0 .. n
    BY RankNew
  <1>2. x \in Nat /\ S \subseteq 1 .. x - 1 /\ S \subseteq 0 .. x /\ S \in SUBSET Nat
    BY DEF Before
  <1>3. S # {}
    <2>1. S = {} => n = 0
      BY FS_EmptySet
    <2> QED
      BY <2>1
  <1>4. PICK z \in S : \A y \in S : y <= z
    BY <1>2, <1>3, MaxOf
  <1>5. Rank(S, z) = n
    <2>1. {y \in S : y <= z} = S
      BY <1>4
    <2> QED
      BY <2>1 DEF Rank
  <1>6. T # {} /\ T \in SUBSET Nat
    <2>1. n >= k
      BY <1>1
    <2>2. z \in T
      BY <1>4, <1>5, <2>1
    <2>3. \A y \in T : y \in Nat
      BY <1>2
    <2> QED
      BY <2>2, <2>3
  <1>7. PICK m \in T : \A y \in T : m <= y
    <2> HIDE DEF T
    <2> QED
      BY <1>6, MinOf
  <1>8. m \in S /\ Rank(S, m) >= k /\ Rank(S, m) \in Nat /\ m \in Nat
    BY <1>1, <1>2, <1>7
  <1> DEFINE U == {y \in S : y < m}
  <1>9. IsFiniteSet(U) /\ Cardinality(U) \in Nat /\ Rank(S, m) = Cardinality(U) + 1
    <2>1. U \subseteq S /\ m \notin U
      BY <1>8
    <2>2. {y \in S : y <= m} = U \cup {m}
      <3>1. \A y \in S : y <= m <=> y < m \/ y = m
        BY <1>2, <1>8
      <3> QED
        BY <1>8, <3>1
    <2> HIDE DEF U
    <2>3. IsFiniteSet(U) /\ Cardinality(U) \in Nat
      BY <1>1, <2>1, FS_Subset, FS_CardinalityType
    <2>4. Cardinality(U \cup {m}) = Cardinality(U) + 1
      BY <2>1, <2>3, FS_AddElement
    <2> QED
      BY <2>2, <2>3, <2>4 DEF Rank
  <1>10. CASE U = {}
    <2>1. Cardinality(U) = 0
      BY <1>10, FS_EmptySet
    <2>2. Rank(S, m) = k
      BY <1>8, <1>9, <2>1
    <2> QED
      BY <1>8, <2>2
  <1>11. CASE U # {}
    <2>1. U \in SUBSET (0 .. x)
      BY <1>2
    <2>2. PICK p \in U : \A y \in U : y <= p
      <3> HIDE DEF U
      <3> QED
        BY <1>2, <1>11, <2>1, MaxOf
    <2>3. p \in S /\ p < m /\ p \in Nat
      BY <1>2, <2>2
    <2>4. {y \in S : y <= p} = U
      <3>1. \A y \in S : y \in Nat
        BY <1>2
      <3>2. \A y \in S : y <= p => y < m
        BY <1>8, <2>3, <3>1
      <3>3. \A y \in S : y < m => y <= p
        BY <2>2
      <3> QED
        BY <3>2, <3>3
    <2>5. Rank(S, p) = Cardinality(U)
      BY <2>4 DEF Rank
    <2>6. p \notin T
      BY <1>7, <1>8, <2>3
    <2>7. ~(Cardinality(U) >= k)
      BY <2>3, <2>5, <2>6
    <2>8. Rank(S, m) = k
      BY <1>8, <1>9, <2>7
    <2> QED
      BY <1>8, <2>8
  <1> QED
    BY <1>10, <1>11

\* Nothing is nothing in order.
LEMMA InOrderEmpty ==
  ASSUME NEW f, DOMAIN f = {}
  PROVE  InOrder(f) = <<>>
  <1>1. Cardinality(DOMAIN f) = 0
    BY FS_EmptySet
  <1>2. 1 .. 0 = {}
    OBVIOUS
  <1>3. InOrder(f) = [k \in {} |-> f[CHOOSE x \in DOMAIN f : Rank(DOMAIN f, x) = k]]
    BY <1>1, <1>2 DEF InOrder
  <1> QED
    BY <1>3

\* A value at the end.
LEMMA InOrderNew ==
  ASSUME NEW f, NEW g, NEW x, Before(DOMAIN f, x), DOMAIN g = DOMAIN f \cup {x},
         \A k \in DOMAIN f : g[k] = f[k]
  PROVE  InOrder(g) = Append(InOrder(f), g[x])
  <1> DEFINE D == DOMAIN f
             n == Cardinality(D)
             F(k) == CHOOSE y \in D : Rank(D, y) = k
             G(k) == CHOOSE y \in D \cup {x} : Rank(D \cup {x}, y) = k
  <1>1. /\ IsFiniteSet(D) /\ n \in Nat /\ x \notin D /\ Cardinality(D \cup {x}) = n + 1
        /\ Rank(D \cup {x}, x) = n + 1
        /\ \A y \in D : Rank(D \cup {x}, y) = Rank(D, y)
        /\ \A y \in D : Rank(D, y) \in 0 .. n
    BY RankNew
  <1>2. G(n + 1) = x
    <2>1. \A y : y \in D \cup {x} /\ Rank(D \cup {x}, y) = n + 1 <=> y = x
      <3> HIDE DEF D
      <3> QED
        BY <1>1
    <2> QED
      BY <2>1
  <1>3. ASSUME NEW k \in 1 .. n PROVE G(k) = F(k) /\ F(k) \in D
    <2>1. k # n + 1
      BY <1>1
    <2>2. \A y : y \in D \cup {x} /\ Rank(D \cup {x}, y) = k <=> y \in D /\ Rank(D, y) = k
      <3> HIDE DEF D
      <3> QED
        BY <1>1, <2>1
    <2>3. G(k) = F(k)
      BY <2>2, Zenon
    <2>4. \E y \in D : Rank(D, y) = k
      BY RankTaken
    <2> QED
      BY <2>3, <2>4
  <1>4. /\ InOrder(f) = [k \in 1 .. n |-> f[F(k)]]
        /\ InOrder(g) = [k \in 1 .. n + 1 |-> g[G(k)]]
    <2>1. InOrder(f) = [k \in 1 .. n |-> f[F(k)]]
      BY DEF InOrder
    <2>2. InOrder(g) = [k \in 1 .. n + 1 |-> g[G(k)]]
      BY <1>1 DEF InOrder
    <2> QED
      BY <2>1, <2>2
  <1> HIDE DEF n, F, G
  <1>5. \A k \in 1 .. n : g[G(k)] = f[F(k)]
    BY <1>3
  <1>6. Append(InOrder(f), g[x]) = [k \in 1 .. n + 1 |-> IF k = n + 1 THEN g[x] ELSE f[F(k)]]
    <2>1. PICK s : s = InOrder(f)
      OBVIOUS
    <2>2. s = [k \in 1 .. n |-> f[F(k)]]
      BY <1>4, <2>1
    <2>3. PICK v : v = g[x]
      OBVIOUS
    <2>4. PICK R : R = {f[F(k)] : k \in 1 .. n} \cup {v}
      OBVIOUS
    <2>5. s \in Seq(R) /\ Len(s) = n /\ v \in R /\ n \in Nat
      BY <1>1, <2>2, <2>4
    <2>6. Append(s, v) = [k \in 1 .. n + 1 |-> IF k = n + 1 THEN v ELSE s[k]]
      <3>1. PICK a : a = Append(s, v)
        OBVIOUS
      <3>2. a \in Seq(R) /\ Len(a) = n + 1
        BY <2>5, <3>1
      <3>3. \A k \in 1 .. n + 1 : a[k] = IF k = n + 1 THEN v ELSE s[k]
        BY <2>5, <3>1
      <3>4. DOMAIN a = 1 .. n + 1 /\ a = [k \in DOMAIN a |-> a[k]]
        BY <2>5, <3>2
      <3> QED
        BY <3>1, <3>3, <3>4
    <2>7. \A k \in 1 .. n + 1 : k # n + 1 => k \in 1 .. n
      BY <1>1
    <2>8. Append(s, v) = [k \in 1 .. n + 1 |-> IF k = n + 1 THEN v ELSE f[F(k)]]
      BY <2>2, <2>6, <2>7
    <2> QED
      BY <2>1, <2>3, <2>8
  <1>7. \A k \in 1 .. n + 1 : g[G(k)] = IF k = n + 1 THEN g[x] ELSE f[F(k)]
    <2>1. \A k \in 1 .. n + 1 : k # n + 1 => k \in 1 .. n
      BY <1>1
    <2> QED
      BY <1>2, <1>5, <2>1
  <1> QED
    BY <1>4, <1>6, <1>7

-----------------------------------------------------------------------------
(***************************************************************************)
(* The blocks of a body.  Its labels N and its orders O are functions from *)
(* the lines they stand at; x is the line that ends it or is read next.    *)
(***************************************************************************)
\* The labels that open a block, and where a block ends.
OpensIn(L) == {l \in L : Rank(L, l) % 2 = 1}
NextIn(L, x, l) == Min({m \in L : m > l} \cup {x})

OrdersIn(O, l, to) == InOrder([k \in {r \in DOMAIN O : l < r /\ r < to} |-> O[k]])
BlockIn(N, O, x, l) == [name |-> N[l], orders |-> OrdersIn(O, l, NextIn(DOMAIN N, x, l))]
BlocksIn(N, O, x) == InOrder([l \in OpensIn(DOMAIN N) |-> BlockIn(N, O, x, l)])

\* The blocks that were closed while the one at l is being read.
BlocksBut(N, O, x, l) == InOrder([k \in OpensIn(DOMAIN N) \ {l} |-> BlockIn(N, O, x, k)])

\* Every block that was opened is closed, and blocks has them all.
BetweenBlocks(N, O, x, blocks) ==
  blocks = BlocksIn(N, O, x) /\ Cardinality(DOMAIN N) % 2 = 0

\* The last label opens a block, the one that is being read; blocks has the others.
InBlock(N, O, x, blocks, nm, ords) ==
  \E l \in OpensIn(DOMAIN N) :
    /\ \A m \in DOMAIN N : m <= l
    /\ blocks = BlocksBut(N, O, x, l)
    /\ nm = N[l]
    /\ ords = OrdersIn(O, l, x)

\* G is F and perhaps one value more, at x.
Grows(F, G, x) ==
  /\ Before(DOMAIN F, x) /\ DOMAIN G \in {DOMAIN F, DOMAIN F \cup {x}}
  /\ \A k \in DOMAIN F : G[k] = F[k]

\* Which labels open a block does not depend on what follows.
LEMMA OpensNew ==
  ASSUME NEW L, NEW x, Before(L, x)
  PROVE  /\ OpensIn(L) \subseteq L
         /\ Cardinality(L) % 2 = 0 => OpensIn(L \cup {x}) = OpensIn(L) \cup {x}
         /\ Cardinality(L) % 2 = 1 => OpensIn(L \cup {x}) = OpensIn(L)
  <1>1. /\ Cardinality(L) \in Nat /\ x \notin L
        /\ Rank(L \cup {x}, x) = Cardinality(L) + 1
        /\ \A y \in L : Rank(L \cup {x}, y) = Rank(L, y)
    BY RankNew
  <1>2. Cardinality(L) % 2 = 0 => (Cardinality(L) + 1) % 2 = 1
    BY <1>1
  <1>3. Cardinality(L) % 2 = 1 => (Cardinality(L) + 1) % 2 # 1
    BY <1>1
  <1>4. OpensIn(L) \subseteq L
    BY DEF OpensIn
  <1>5. \A y \in L : y \in OpensIn(L \cup {x}) <=> y \in OpensIn(L)
    BY <1>1 DEF OpensIn
  <1>6. OpensIn(L \cup {x}) \subseteq L \cup {x}
    BY DEF OpensIn
  <1>7. x \in OpensIn(L \cup {x}) <=> (Cardinality(L) + 1) % 2 = 1
    BY <1>1 DEF OpensIn
  <1> QED
    BY <1>1, <1>2, <1>3, <1>4, <1>5, <1>6, <1>7

\* The last label opens a block when their number is odd.
LEMMA LastOpens ==
  ASSUME NEW L, NEW x, Before(L, x), NEW l \in OpensIn(L)
  PROVE  /\ (\A m \in L : m <= l) => Cardinality(L) % 2 = 1
         /\ Cardinality(L) % 2 = 0 => \E m \in L : l < m
  <1>1. l \in L /\ Rank(L, l) % 2 = 1
    BY DEF OpensIn
  <1>2. \A m \in L : m \in Nat
    BY DEF Before
  <1>3. ASSUME \A m \in L : m <= l PROVE Cardinality(L) % 2 = 1
    <2>1. {m \in L : m <= l} = L
      BY <1>3
    <2> QED
      BY <1>1, <2>1 DEF Rank
  <1>4. ASSUME Cardinality(L) % 2 = 0 PROVE \E m \in L : l < m
    <2>1. ~(\A m \in L : m <= l)
      BY <1>3, <1>4
    <2>2. PICK m \in L : ~(m <= l)
      BY <2>1
    <2> QED
      BY <1>1, <1>2, <2>2
  <1> QED
    BY <1>3, <1>4

\* Where a block ends.
LEMMA NextFacts ==
  ASSUME NEW L, NEW x, Before(L, x), NEW l \in L
  PROVE  /\ NextIn(L, x, l) \in 1 .. x
         /\ (\A m \in L : m <= l) => NextIn(L, x, l) = x
         /\ NextIn(L \cup {x}, x + 1, l) = NextIn(L, x, l)
         /\ \A e \in L : l < e => NextIn(L, x + 1, l) = NextIn(L, x, l)
  <1>1. x \in Nat /\ l \in Nat /\ l < x /\ l > 0 /\ \A m \in L : m \in 1 .. x - 1
    BY DEF Before
  <1> DEFINE S == {m \in L : m > l}
             A == S \cup {x}
  <1>2. PICK n \in A : n = Min(A) /\ \A m \in A : n <= m
    <2>1. A \in SUBSET Nat /\ A # {}
      <3>1. \A m \in A : m \in Nat
        BY <1>1
      <3> QED
        BY <3>1
    <2> HIDE DEF A
    <2> QED
      BY <2>1, MinOf
  <1>3. n = NextIn(L, x, l)
    BY <1>2 DEF NextIn
  <1>4. n \in 1 .. x
    BY <1>1, <1>2
  <1>5. ASSUME \A m \in L : m <= l PROVE n = x
    <2>1. \A m \in L : ~(m > l)
      BY <1>1, <1>5
    <2> QED
      BY <1>2, <2>1
  <1>6. NextIn(L \cup {x}, x + 1, l) = n
    <2> DEFINE B == {m \in L \cup {x} : m > l} \cup {x + 1}
    <2>1. B = A \cup {x + 1}
      BY <1>1
    <2>2. n \in B /\ \A m \in B : n <= m /\ m \in Nat
      BY <1>1, <1>2, <2>1
    <2>3. Min(B) = n
      <3> HIDE DEF B, A
      <3>1. B \in SUBSET Nat /\ B # {}
        BY <2>2
      <3>2. Min(B) \in B /\ \A m \in B : Min(B) <= m
        BY <3>1, MinOf
      <3>3. Min(B) \in Nat /\ n \in Nat /\ Min(B) <= n /\ n <= Min(B)
        BY <2>2, <3>2
      <3> QED
        BY <3>3
    <2> QED
      BY <2>3 DEF NextIn
  <1>7. ASSUME NEW e \in L, l < e PROVE NextIn(L, x + 1, l) = n
    <2> DEFINE B == S \cup {x + 1}
    <2>1. e \in S /\ e \in A
      BY <1>1, <1>7
    <2>2. n <= e /\ n # x
      BY <1>1, <1>2, <2>1
    <2>3. n \in B
      BY <1>2, <2>2
    <2>4. \A m \in B : n <= m /\ m \in Nat
      BY <1>1, <1>2
    <2>5. Min(B) = n
      <3> HIDE DEF B, A, S
      <3>1. B \in SUBSET Nat /\ B # {}
        BY <2>3, <2>4
      <3>2. Min(B) \in B /\ \A m \in B : Min(B) <= m
        BY <3>1, MinOf
      <3>3. Min(B) \in Nat /\ n \in Nat /\ Min(B) <= n /\ n <= Min(B)
        BY <2>3, <2>4, <3>2
      <3> QED
        BY <3>3
    <2> QED
      BY <2>5 DEF NextIn
  <1> QED
    BY <1>3, <1>4, <1>5, <1>6, <1>7

\* The orders before a line do not depend on what follows.
LEMMA OrdersStay ==
  ASSUME NEW O, NEW P, NEW x, Grows(O, P, x), NEW l, NEW to \in 1 .. x
  PROVE  OrdersIn(P, l, to) = OrdersIn(O, l, to)
  <1>1. x \in Nat /\ \A k \in DOMAIN O : P[k] = O[k]
    BY DEF Grows, Before
  <1>2. {r \in DOMAIN P : l < r /\ r < to} = {r \in DOMAIN O : l < r /\ r < to}
    <2>1. ~(x < to)
      BY <1>1
    <2> QED
      BY <2>1 DEF Grows
  <1>3. [k \in {r \in DOMAIN P : l < r /\ r < to} |-> P[k]]
          = [k \in {r \in DOMAIN O : l < r /\ r < to} |-> O[k]]
    BY <1>1, <1>2
  <1> QED
    BY <1>3 DEF OrdersIn

\* A block that is closed, or is closed by the line, stays.
LEMMA BlockStays ==
  ASSUME NEW N, NEW M, NEW O, NEW P, NEW x, Grows(N, M, x), Grows(O, P, x), NEW l \in DOMAIN N,
         x \in DOMAIN M \/ \E e \in DOMAIN N : l < e
  PROVE  BlockIn(M, P, x + 1, l) = BlockIn(N, O, x, l)
  <1>1. Before(DOMAIN N, x) /\ M[l] = N[l] /\ x \notin DOMAIN N
    BY RankNew DEF Grows
  <1>2. DOMAIN M = DOMAIN N \/ DOMAIN M = DOMAIN N \cup {x}
    BY DEF Grows
  <1>3. PICK to \in 1 .. x : to = NextIn(DOMAIN N, x, l)
    BY <1>1, NextFacts
  <1>4. NextIn(DOMAIN M, x + 1, l) = to
    <2>1. CASE DOMAIN M = DOMAIN N \cup {x}
      BY <1>1, <1>3, <2>1, NextFacts
    <2>2. CASE DOMAIN M = DOMAIN N
      <3>1. PICK e \in DOMAIN N : l < e
        BY <1>1, <2>2
      <3>2. NextIn(DOMAIN N, x + 1, l) = NextIn(DOMAIN N, x, l)
        BY <1>1, <3>1, NextFacts
      <3> QED
        BY <1>3, <2>2, <3>2
    <2> QED
      BY <1>2, <2>1, <2>2
  <1>5. OrdersIn(P, l, to) = OrdersIn(O, l, to)
    BY OrdersStay
  <1> QED
    BY <1>1, <1>3, <1>4, <1>5 DEF BlockIn

\* So do all of them.
LEMMA BlocksStay ==
  ASSUME NEW N, NEW M, NEW O, NEW P, NEW x, Grows(N, M, x), Grows(O, P, x),
         NEW S \in SUBSET DOMAIN N,
         x \in DOMAIN M \/ \A l \in S : \E e \in DOMAIN N : l < e
  PROVE  InOrder([l \in S |-> BlockIn(M, P, x + 1, l)]) = InOrder([l \in S |-> BlockIn(N, O, x, l)])
  <1>1. ASSUME NEW l \in S PROVE BlockIn(M, P, x + 1, l) = BlockIn(N, O, x, l)
    <2>1. l \in DOMAIN N /\ (x \in DOMAIN M \/ \E e \in DOMAIN N : l < e)
      OBVIOUS
    <2> QED
      BY <2>1, BlockStays
  <1>2. [l \in S |-> BlockIn(M, P, x + 1, l)] = [l \in S |-> BlockIn(N, O, x, l)]
    BY <1>1
  <1> QED
    BY <1>2

\* At the head of a function.
LEMMA BodyBegins ==
  ASSUME NEW N, NEW O, NEW x, DOMAIN N = {}
  PROVE  BetweenBlocks(N, O, x, <<>>)
  <1>1. OpensIn(DOMAIN N) = {}
    BY DEF OpensIn
  <1>2. DOMAIN [l \in OpensIn(DOMAIN N) |-> BlockIn(N, O, x, l)] = {}
    BY <1>1
  <1>3. BlocksIn(N, O, x) = <<>>
    BY <1>2, InOrderEmpty DEF BlocksIn
  <1>4. Cardinality(DOMAIN N) = 0
    BY FS_EmptySet
  <1> QED
    BY <1>3, <1>4 DEF BetweenBlocks

\* A blank line between blocks.
LEMMA BlankBetween ==
  ASSUME NEW N, NEW O, NEW P, NEW x, NEW b, Grows(N, N, x), Grows(O, P, x),
         BetweenBlocks(N, O, x, b)
  PROVE  BetweenBlocks(N, P, x + 1, b)
  <1>1. PICK S : S = OpensIn(DOMAIN N)
    OBVIOUS
  <1>2. Before(DOMAIN N, x) /\ Cardinality(DOMAIN N) % 2 = 0
    BY DEF Grows, BetweenBlocks
  <1>3. S \subseteq DOMAIN N
    BY <1>1, <1>2, OpensNew
  <1>4. \A l \in S : \E e \in DOMAIN N : l < e
    BY <1>1, <1>2, LastOpens
  <1>5. InOrder([l \in S |-> BlockIn(N, P, x + 1, l)]) = InOrder([l \in S |-> BlockIn(N, O, x, l)])
    BY <1>3, <1>4, BlocksStay
  <1> QED
    BY <1>1, <1>5 DEF BetweenBlocks, BlocksIn

\* A label between blocks opens one.
LEMMA LabelOpens ==
  ASSUME NEW N, NEW M, NEW O, NEW x, NEW b, Grows(N, M, x), DOMAIN M = DOMAIN N \cup {x},
         Grows(O, O, x), BetweenBlocks(N, O, x, b)
  PROVE  InBlock(M, O, x + 1, b, M[x], <<>>)
  <1>1. PICK S : S = OpensIn(DOMAIN N)
    OBVIOUS
  <1>2. Before(DOMAIN N, x) /\ Cardinality(DOMAIN N) % 2 = 0
    BY DEF Grows, BetweenBlocks
  <1>3. /\ x \in Nat /\ x \notin DOMAIN N
        /\ (\A m \in DOMAIN N : m \in Nat /\ m < x)
        /\ (\A m \in DOMAIN O : m \in Nat /\ m < x)
    BY DEF Grows, Before
  <1>4. S \subseteq DOMAIN N /\ OpensIn(DOMAIN M) = S \cup {x}
    BY <1>1, <1>2, OpensNew
  <1>5. InOrder([l \in S |-> BlockIn(M, O, x + 1, l)]) = InOrder([l \in S |-> BlockIn(N, O, x, l)])
    BY <1>4, BlocksStay
  <1>6. OpensIn(DOMAIN M) \ {x} = S
    BY <1>3, <1>4
  <1>7. b = BlocksBut(M, O, x + 1, x)
    BY <1>1, <1>5, <1>6 DEF BetweenBlocks, BlocksIn, BlocksBut
  <1>8. <<>> = OrdersIn(O, x, x + 1)
    <2>1. {r \in DOMAIN O : x < r /\ r < x + 1} = {}
      BY <1>3
    <2>2. DOMAIN [k \in {r \in DOMAIN O : x < r /\ r < x + 1} |-> O[k]] = {}
      BY <2>1
    <2> QED
      BY <2>2, InOrderEmpty DEF OrdersIn
  <1>9. \A m \in DOMAIN M : m <= x
    BY <1>3
  <1> QED
    BY <1>4, <1>7, <1>8, <1>9 DEF InBlock

\* An order, or a blank line, in a block.
LEMMA LineInBlock ==
  ASSUME NEW N, NEW O, NEW P, NEW x, NEW b, NEW nm, NEW os, Grows(N, N, x), Grows(O, P, x),
         InBlock(N, O, x, b, nm, os)
  PROVE  InBlock(N, P, x + 1, b, nm, IF x \in DOMAIN P THEN Append(os, P[x]) ELSE os)
  <1>1. PICK l \in OpensIn(DOMAIN N) :
          /\ \A m \in DOMAIN N : m <= l
          /\ b = BlocksBut(N, O, x, l)
          /\ nm = N[l]
          /\ os = OrdersIn(O, l, x)
    BY DEF InBlock
  <1>2. PICK S : S = OpensIn(DOMAIN N) \ {l}
    OBVIOUS
  <1>3. /\ x \in Nat /\ x \notin DOMAIN O
        /\ (\A m \in DOMAIN N : m \in Nat /\ m < x)
        /\ (\A m \in DOMAIN O : m \in Nat /\ m < x)
        /\ DOMAIN P = DOMAIN O \/ DOMAIN P = DOMAIN O \cup {x}
        /\ \A k \in DOMAIN O : P[k] = O[k]
    BY DEF Grows, Before
  <1>4. l \in DOMAIN N /\ S \subseteq DOMAIN N /\ l \notin S
    BY <1>1, <1>2 DEF OpensIn
  <1>5. \A k \in S : l \in DOMAIN N /\ k < l
    <2> SUFFICES ASSUME NEW k \in S PROVE k < l
      BY <1>4
    <2>1. k \in DOMAIN N /\ k # l /\ k \in Nat /\ l \in Nat /\ k <= l
      BY <1>1, <1>3, <1>4
    <2> QED
      BY <2>1
  <1>6. InOrder([k \in S |-> BlockIn(N, P, x + 1, k)]) = InOrder([k \in S |-> BlockIn(N, O, x, k)])
    BY <1>4, <1>5, BlocksStay
  <1>7. b = BlocksBut(N, P, x + 1, l)
    BY <1>1, <1>2, <1>6 DEF BlocksBut
  <1> DEFINE f == [k \in {r \in DOMAIN O : l < r /\ r < x} |-> O[k]]
             g == [k \in {r \in DOMAIN P : l < r /\ r < x + 1} |-> P[k]]
  <1>8. os = InOrder(f) /\ OrdersIn(P, l, x + 1) = InOrder(g)
    BY <1>1 DEF OrdersIn
  <1>9. l < x /\ \A k \in DOMAIN O : k < x /\ k < x + 1
    BY <1>3, <1>4
  <1>10. CASE x \in DOMAIN P
    <2>1. DOMAIN P = DOMAIN O \cup {x}
      BY <1>3, <1>10
    <2>2. x < x + 1
      BY <1>3
    <2>3. DOMAIN g = DOMAIN f \cup {x}
      BY <1>9, <2>1, <2>2
    <2>4. \A k \in DOMAIN f : g[k] = f[k]
      BY <1>3, <2>3
    <2>5. Before(DOMAIN f, x)
      BY DEF Grows, Before
    <2>6. g[x] = P[x]
      BY <2>3
    <2>7. InOrder(g) = Append(InOrder(f), g[x])
      <3> HIDE DEF f, g
      <3> QED
        BY <2>3, <2>4, <2>5, InOrderNew
    <2>8. OrdersIn(P, l, x + 1) = Append(os, P[x])
      BY <1>8, <2>6, <2>7
    <2> QED
      BY <1>1, <1>7, <1>10, <2>8 DEF InBlock
  <1>11. CASE x \notin DOMAIN P
    <2>1. DOMAIN P = DOMAIN O
      BY <1>3, <1>11
    <2>2. DOMAIN g = DOMAIN f
      BY <1>9, <2>1
    <2>3. f = g
      BY <1>3, <2>1, <2>2
    <2>4. OrdersIn(P, l, x + 1) = os
      BY <1>8, <2>3
    <2> QED
      BY <1>1, <1>7, <1>11, <2>4 DEF InBlock
  <1> QED
    BY <1>10, <1>11

\* The block that is being read is the last one.
LEMMA BlockEnds ==
  ASSUME NEW N, NEW O, NEW x, NEW b, NEW nm, NEW os, Before(DOMAIN N, x),
         InBlock(N, O, x, b, nm, os)
  PROVE  /\ Append(b, [name |-> nm, orders |-> os]) = BlocksIn(N, O, x)
         /\ Cardinality(DOMAIN N) % 2 = 1
  <1>1. PICK l \in OpensIn(DOMAIN N) :
          /\ \A m \in DOMAIN N : m <= l
          /\ b = BlocksBut(N, O, x, l)
          /\ nm = N[l]
          /\ os = OrdersIn(O, l, x)
    BY DEF InBlock
  <1>2. x \in Nat /\ \A m \in DOMAIN N : m \in Nat /\ m < x /\ m > 0
    BY DEF Before
  <1>3. l \in DOMAIN N /\ OpensIn(DOMAIN N) \subseteq DOMAIN N
    BY DEF OpensIn
  <1>4. NextIn(DOMAIN N, x, l) = x
    BY <1>1, <1>3, NextFacts
  <1>5. BlockIn(N, O, x, l) = [name |-> nm, orders |-> os]
    BY <1>1, <1>4 DEF BlockIn
  <1> DEFINE f == [k \in OpensIn(DOMAIN N) \ {l} |-> BlockIn(N, O, x, k)]
             g == [k \in OpensIn(DOMAIN N) |-> BlockIn(N, O, x, k)]
  <1>6. Before(DOMAIN f, l)
    <2>1. ASSUME NEW k \in DOMAIN f PROVE k \in 1 .. l - 1
      <3>1. k \in DOMAIN N /\ k # l
        BY <1>3
      <3>2. k <= l /\ k \in Nat /\ l \in Nat /\ k > 0
        BY <1>1, <1>2, <1>3, <3>1
      <3> QED
        BY <3>1, <3>2
    <2> QED
      BY <1>2, <1>3, <2>1 DEF Before
  <1>7. /\ DOMAIN g = DOMAIN f \cup {l} /\ \A k \in DOMAIN f : g[k] = f[k]
        /\ g[l] = BlockIn(N, O, x, l)
    BY <1>1
  <1>8. InOrder(g) = Append(InOrder(f), g[l])
    <2> HIDE DEF f, g
    <2> QED
      BY <1>6, <1>7, InOrderNew
  <1>9. InOrder(f) = b /\ InOrder(g) = BlocksIn(N, O, x)
    BY <1>1 DEF BlocksBut, BlocksIn
  <1>10. Cardinality(DOMAIN N) % 2 = 1
    BY <1>1, LastOpens
  <1> QED
    BY <1>5, <1>7, <1>8, <1>9, <1>10

\* A label that closes the block.
LEMMA LabelCloses ==
  ASSUME NEW N, NEW M, NEW O, NEW x, NEW b, NEW nm, NEW os,
         Grows(N, M, x), DOMAIN M = DOMAIN N \cup {x}, Grows(O, O, x),
         InBlock(N, O, x, b, nm, os)
  PROVE  BetweenBlocks(M, O, x + 1, Append(b, [name |-> nm, orders |-> os]))
  <1>1. Before(DOMAIN N, x)
    BY DEF Grows
  <1>2. /\ Append(b, [name |-> nm, orders |-> os]) = BlocksIn(N, O, x)
        /\ Cardinality(DOMAIN N) % 2 = 1
    BY <1>1, BlockEnds
  <1>3. PICK S : S = OpensIn(DOMAIN N)
    OBVIOUS
  <1>4. S \subseteq DOMAIN N /\ OpensIn(DOMAIN M) = S
    BY <1>1, <1>2, <1>3, OpensNew
  <1>5. InOrder([l \in S |-> BlockIn(M, O, x + 1, l)]) = InOrder([l \in S |-> BlockIn(N, O, x, l)])
    BY <1>4, BlocksStay
  <1>6. BlocksIn(M, O, x + 1) = BlocksIn(N, O, x)
    BY <1>3, <1>4, <1>5 DEF BlocksIn
  <1>7. Cardinality(DOMAIN N) \in Nat /\ Cardinality(DOMAIN M) = Cardinality(DOMAIN N) + 1
    BY <1>1, RankNew
  <1>8. Cardinality(DOMAIN M) % 2 = 0
    BY <1>2, <1>7
  <1> QED
    BY <1>2, <1>6, <1>8 DEF BetweenBlocks

-----------------------------------------------------------------------------
(***************************************************************************)
(* What FunctionText says of a text, for any sequence of lines.            *)
(***************************************************************************)
\* Where the body of the function at p ends, and its lines of a kind.
StopIn(c, p) == Min({q \in p .. Len(c) : c[q].kind = Brace} \cup {Len(c) + 1})
LinesIn(c, p, w) == {k \in p + 1 .. StopIn(c, p) - 1 : c[k].kind = w}

\* The constants at p and the string of one of them.
ConstIn(c, p) == DefsIn(c, "$const", "const", p)
TextIn(c, p, n) ==
  LET line == c[ConstIn(c, p)[n]] IN IF line.type = "s" THEN line.value ELSE "bytes"

OrderIn(c, p, k) ==
  [name |-> c[k].name, args |-> c[k].args,
   field_name |-> IF c[k].name = "set_field" THEN TextIn(c, p, c[k].args[5].number) ELSE NoName]
NamesIn(c, p) == [l \in LinesIn(c, p, "label") |-> c[l].name]
BodyIn(c, p) == [k \in LinesIn(c, p, "order") |-> OrderIn(c, p, k)]
FunctionIn(c, p) ==
  [name |-> TextIn(c, p, c[p].number), argument_types |-> ArgumentTypes(c[p]),
   label_blocks |-> BlocksIn(NamesIn(c, p), BodyIn(c, p), StopIn(c, p))]

\* The constant that names the field an order sets is among them.
FieldKnown(c, p, k) ==
  c[k].name = "set_field" => c[k].args[5].number \in DOMAIN ConstIn(c, p)

\* The names of a function and of the fields in it were known at its head.
KnownIn(c, p) ==
  /\ ClosedIn(c, "$const", p)
  /\ c[p].kind = "function" /\ c[p].number \in DOMAIN ConstIn(c, p)
  /\ \A k \in LinesIn(c, p, "order") : FieldKnown(c, p, k)

FunctionsIn(c) == [p \in {q \in 1 .. Len(c) : KnownIn(c, q)} |-> FunctionIn(c, p)]

\* A body that has come to its end, and one that has not.
ClosedBody(c, p) == \E q \in p + 1 .. Len(c) : c[q].kind = Brace
OpenBody(c, p) ==
  p \in 1 .. Len(c) /\ c[p].kind = "function" /\ \A q \in p + 1 .. Len(c) : c[q].kind # Brace

\* The line that closes a function is of no other kind.
LEMMA BraceDiffers ==
  Brace \notin {"function", "label", "order", "blank", "eof", "$end", "$const", "$function"}
  BY Zenon DEF Brace

\* The end of a body.
LEMMA StopFacts ==
  ASSUME NEW c, Len(c) \in Nat, NEW p \in 1 .. Len(c)
  PROVE  /\ StopIn(c, p) \in p .. Len(c) + 1
         /\ StopIn(c, p) # Len(c) + 1 => c[StopIn(c, p)].kind = Brace
         /\ \A q \in p .. Len(c) : c[q].kind = Brace => StopIn(c, p) <= q
  <1> DEFINE S == {q \in p .. Len(c) : c[q].kind = Brace} \cup {Len(c) + 1}
  <1>1. S \in SUBSET Nat /\ S # {}
    OBVIOUS
  <1>2. Min(S) \in S /\ \A x \in S : Min(S) <= x
    <2> HIDE DEF S
    <2> QED
      BY <1>1, MinOf
  <1> QED
    BY <1>1, <1>2 DEF StopIn

\* These facts determine it.
LEMMA StopIs ==
  ASSUME NEW c, Len(c) \in Nat, NEW p \in 1 .. Len(c), NEW n \in p .. Len(c) + 1,
         n # Len(c) + 1 => c[n].kind = Brace,
         \A q \in p .. n - 1 : c[q].kind # Brace
  PROVE  StopIn(c, p) = n
  <1>1. /\ StopIn(c, p) \in p .. Len(c) + 1
        /\ StopIn(c, p) # Len(c) + 1 => c[StopIn(c, p)].kind = Brace
        /\ \A q \in p .. Len(c) : c[q].kind = Brace => StopIn(c, p) <= q
    BY StopFacts
  <1>2. n <= StopIn(c, p)
    BY <1>1
  <1>3. StopIn(c, p) <= n
    BY <1>1
  <1> QED
    BY <1>1, <1>2, <1>3

\* An open body goes up to the end of the text.
LEMMA StopOpen ==
  ASSUME NEW c, Len(c) \in Nat, NEW p, OpenBody(c, p)
  PROVE  StopIn(c, p) = Len(c) + 1
  <1>1. p \in 1 .. Len(c) /\ c[p].kind # Brace /\ \A q \in p + 1 .. Len(c) : c[q].kind # Brace
    BY BraceDiffers DEF OpenBody
  <1>2. Len(c) + 1 \in p .. Len(c) + 1
    BY <1>1
  <1>3. ASSUME NEW q \in p .. (Len(c) + 1) - 1 PROVE c[q].kind # Brace
    <2>1. q = p \/ q \in p + 1 .. Len(c)
      BY <1>1
    <2> QED
      BY <1>1, <2>1
  <1> QED
    BY <1>1, <1>2, <1>3, StopIs

\* A body that is closed, or is closed by the line, ends where it did.
LEMMA StopStays ==
  ASSUME NEW c, NEW d, NEW line, Longer(c, d, line), NEW p \in 1 .. Len(c),
         \/ ClosedBody(c, p)
         \/ OpenBody(c, p) /\ line.kind = Brace
  PROVE  /\ StopIn(d, p) = StopIn(c, p) /\ StopIn(c, p) \in p .. Len(c) + 1
         /\ ClosedBody(d, p)
  <1>1. /\ Len(c) \in Nat /\ Len(d) = Len(c) + 1 /\ (\A q \in 1 .. Len(c) : d[q] = c[q])
        /\ d[Len(c) + 1] = line /\ Len(d) \in Nat /\ p \in 1 .. Len(d)
    BY DEF Longer
  <1>2. PICK n : n = StopIn(c, p)
    OBVIOUS
  <1>3. /\ n \in p .. Len(c) + 1
        /\ n # Len(c) + 1 => c[n].kind = Brace
        /\ \A q \in p .. Len(c) : c[q].kind = Brace => n <= q
    BY <1>1, <1>2, StopFacts
  <1>4. d[n].kind = Brace
    <2>1. CASE ClosedBody(c, p)
      <3>1. PICK q \in p + 1 .. Len(c) : c[q].kind = Brace
        BY <2>1 DEF ClosedBody
      <3>2. n <= q /\ n \in 1 .. Len(c) /\ n # Len(c) + 1
        BY <1>1, <1>3, <3>1
      <3> QED
        BY <1>1, <1>3, <3>2
    <2>2. CASE OpenBody(c, p) /\ line.kind = Brace
      <3>1. n = Len(c) + 1
        BY <1>1, <1>2, <2>2, StopOpen
      <3> QED
        BY <1>1, <2>2, <3>1
    <2> QED
      BY <2>1, <2>2
  <1>5. ASSUME NEW q \in p .. n - 1 PROVE d[q].kind # Brace
    <2>1. q \in p .. Len(c) /\ q \in 1 .. Len(c) /\ ~(n <= q)
      BY <1>1, <1>3
    <2> QED
      BY <1>1, <1>3, <2>1
  <1>6. StopIn(d, p) = n
    <2>1. n \in p .. Len(d) + 1
      BY <1>1, <1>3
    <2> QED
      BY <1>1, <1>4, <1>5, <2>1, StopIs
  <1>7. ClosedBody(d, p)
    <2>1. CASE ClosedBody(c, p)
      <3>1. PICK q \in p + 1 .. Len(c) : c[q].kind = Brace
        BY <2>1 DEF ClosedBody
      <3>2. q \in p + 1 .. Len(d) /\ d[q] = c[q]
        BY <1>1, <3>1
      <3> QED
        BY <3>1, <3>2 DEF ClosedBody
    <2>2. CASE line.kind = Brace
      <3>1. Len(c) + 1 \in p + 1 .. Len(d)
        BY <1>1
      <3> QED
        BY <1>1, <2>2, <3>1 DEF ClosedBody
    <2> QED
      BY <2>1, <2>2
  <1> QED
    BY <1>2, <1>3, <1>6, <1>7

\* So it has the same lines.
LEMMA LinesStay ==
  ASSUME NEW c, NEW d, NEW line, Longer(c, d, line), NEW p \in 1 .. Len(c), NEW w,
         StopIn(d, p) = StopIn(c, p), StopIn(c, p) \in p .. Len(c) + 1
  PROVE  LinesIn(d, p, w) = LinesIn(c, p, w) /\ LinesIn(c, p, w) \subseteq 1 .. Len(c)
  <1>1. Len(c) \in Nat /\ \A q \in 1 .. Len(c) : d[q] = c[q]
    BY DEF Longer
  <1>2. PICK n \in p .. Len(c) + 1 : n = StopIn(c, p)
    OBVIOUS
  <1>3. \A k \in p + 1 .. n - 1 : k \in 1 .. Len(c) /\ d[k] = c[k]
    BY <1>1
  <1> QED
    BY <1>2, <1>3 DEF LinesIn

\* Any other line goes on with an open body.
LEMMA LinesGrow ==
  ASSUME NEW c, NEW d, NEW line, Longer(c, d, line), NEW p, OpenBody(c, p), line.kind # Brace
  PROVE  /\ OpenBody(d, p)
         /\ StopIn(c, p) = Len(c) + 1 /\ StopIn(d, p) = Len(c) + 2
         /\ \A w : /\ Before(LinesIn(c, p, w), Len(c) + 1)
                   /\ line.kind = w => LinesIn(d, p, w) = LinesIn(c, p, w) \cup {Len(c) + 1}
                   /\ line.kind # w => LinesIn(d, p, w) = LinesIn(c, p, w)
  <1>1. /\ Len(c) \in Nat /\ Len(d) = Len(c) + 1 /\ (\A q \in 1 .. Len(c) : d[q] = c[q])
        /\ d[Len(c) + 1] = line /\ Len(d) \in Nat
    BY DEF Longer
  <1>2. p \in 1 .. Len(c) /\ c[p].kind = "function" /\ \A q \in p + 1 .. Len(c) : c[q].kind # Brace
    BY DEF OpenBody
  <1>3. OpenBody(d, p)
    <2>1. ASSUME NEW q \in p + 1 .. Len(d) PROVE d[q].kind # Brace
      <3>1. q = Len(c) + 1 \/ (q \in p + 1 .. Len(c) /\ q \in 1 .. Len(c))
        BY <1>1, <1>2
      <3> QED
        BY <1>1, <1>2, <3>1
    <2> QED
      BY <1>1, <1>2, <2>1 DEF OpenBody
  <1>4. StopIn(c, p) = Len(c) + 1 /\ StopIn(d, p) = Len(c) + 2
    <2>1. StopIn(c, p) = Len(c) + 1 /\ StopIn(d, p) = Len(d) + 1
      BY <1>1, <1>3, StopOpen
    <2> QED
      BY <1>1, <2>1
  <1>5. ASSUME NEW w
        PROVE  /\ Before(LinesIn(c, p, w), Len(c) + 1)
               /\ line.kind = w => LinesIn(d, p, w) = LinesIn(c, p, w) \cup {Len(c) + 1}
               /\ line.kind # w => LinesIn(d, p, w) = LinesIn(c, p, w)
    <2>1. LinesIn(c, p, w) = {k \in p + 1 .. Len(c) : c[k].kind = w}
      <3>1. (Len(c) + 1) - 1 = Len(c)
        BY <1>1
      <3> QED
        BY <1>4, <3>1 DEF LinesIn
    <2>2. LinesIn(d, p, w) = {k \in p + 1 .. Len(c) + 1 : d[k].kind = w}
      <3>1. (Len(c) + 2) - 1 = Len(c) + 1
        BY <1>1
      <3> QED
        BY <1>4, <3>1 DEF LinesIn
    <2>3. p + 1 .. Len(c) + 1 = (p + 1 .. Len(c)) \cup {Len(c) + 1}
      BY <1>1, <1>2
    <2>4. \A k \in p + 1 .. Len(c) : d[k] = c[k] /\ k \in 1 .. (Len(c) + 1) - 1
      BY <1>1, <1>2
    <2>5. Before(LinesIn(c, p, w), Len(c) + 1)
      BY <1>1, <2>1, <2>4 DEF Before
    <2>6. LinesIn(d, p, w) = {k \in p + 1 .. Len(c) : c[k].kind = w}
                             \cup {k \in {Len(c) + 1} : line.kind = w}
      BY <1>1, <2>2, <2>3, <2>4
    <2> QED
      BY <2>1, <2>5, <2>6
  <1> QED
    BY <1>3, <1>4, <1>5

\* Constants that were there for a line stay there, for any text.
LEMMA ConstInStays ==
  ASSUME NEW c, NEW d, NEW line, Longer(c, d, line), NEW p \in 1 .. Len(c) + 1,
         ClosedIn(c, "$const", p)
  PROVE  /\ ClosedIn(d, "$const", p) /\ ConstIn(d, p) = ConstIn(c, p)
         /\ \A n \in DOMAIN ConstIn(c, p) : TextIn(d, p, n) = TextIn(c, p, n)
  <1>1. /\ ClosedIn(d, "$const", p)
        /\ AtIn(d, "$const", "const", p) = AtIn(c, "$const", "const", p)
    BY ClosedStays
  <1>2. ConstIn(d, p) = ConstIn(c, p)
    BY <1>1, DefsStay DEF ConstIn
  <1>3. Len(c) \in Nat /\ \A q \in 1 .. Len(c) : d[q] = c[q]
    BY DEF Longer
  <1>4. ASSUME NEW n \in DOMAIN ConstIn(c, p) PROVE TextIn(d, p, n) = TextIn(c, p, n)
    <2>1. ConstIn(c, p)[n] \in 1 .. Len(c)
      BY <1>3, DefsFacts DEF ConstIn
    <2>2. d[ConstIn(c, p)[n]] = c[ConstIn(c, p)[n]]
      BY <1>3, <2>1
    <2> QED
      BY <1>2, <2>2 DEF TextIn
  <1> QED
    BY <1>1, <1>2, <1>4

\* An order of a function stays what it is.
LEMMA OrderStays ==
  ASSUME NEW c, NEW d, NEW line, Longer(c, d, line), NEW p \in 1 .. Len(c), NEW k \in 1 .. Len(c),
         ClosedIn(c, "$const", p), FieldKnown(c, p, k)
  PROVE  FieldKnown(d, p, k) /\ OrderIn(d, p, k) = OrderIn(c, p, k)
  <1>1. d[k] = c[k] /\ p \in 1 .. Len(c) + 1
    BY DEF Longer
  <1>2. /\ ConstIn(d, p) = ConstIn(c, p)
        /\ \A n \in DOMAIN ConstIn(c, p) : TextIn(d, p, n) = TextIn(c, p, n)
    BY <1>1, ConstInStays
  <1> QED
    BY <1>1, <1>2 DEF FieldKnown, OrderIn

\* A function stays what it is when its body is over.
LEMMA FunctionStays ==
  ASSUME NEW c, NEW d, NEW line, Longer(c, d, line), NEW p \in 1 .. Len(c), KnownIn(c, p),
         \/ ClosedBody(c, p)
         \/ OpenBody(c, p) /\ line.kind = Brace
  PROVE  KnownIn(d, p) /\ FunctionIn(d, p) = FunctionIn(c, p)
  <1>1. d[p] = c[p] /\ p \in 1 .. Len(c) + 1
    BY DEF Longer
  <1>2. /\ ClosedIn(c, "$const", p) /\ c[p].kind = "function"
        /\ c[p].number \in DOMAIN ConstIn(c, p)
        /\ \A k \in LinesIn(c, p, "order") : FieldKnown(c, p, k)
    BY DEF KnownIn
  <1>3. /\ ClosedIn(d, "$const", p) /\ ConstIn(d, p) = ConstIn(c, p)
        /\ \A n \in DOMAIN ConstIn(c, p) : TextIn(d, p, n) = TextIn(c, p, n)
    BY <1>1, <1>2, ConstInStays
  <1>4. StopIn(d, p) = StopIn(c, p) /\ StopIn(c, p) \in p .. Len(c) + 1
    BY StopStays
  <1>5. \A w : LinesIn(d, p, w) = LinesIn(c, p, w) /\ LinesIn(c, p, w) \subseteq 1 .. Len(c)
    BY <1>4, LinesStay
  <1>6. \A k \in LinesIn(c, p, "order") : FieldKnown(d, p, k) /\ OrderIn(d, p, k) = OrderIn(c, p, k)
    BY <1>2, <1>5, OrderStays
  <1>7. KnownIn(d, p)
    BY <1>1, <1>2, <1>3, <1>5, <1>6 DEF KnownIn
  <1>8. NamesIn(d, p) = NamesIn(c, p)
    <2>1. \A l \in LinesIn(c, p, "label") : d[l] = c[l]
      BY <1>5 DEF Longer
    <2> QED
      BY <1>5, <2>1 DEF NamesIn
  <1>9. BodyIn(d, p) = BodyIn(c, p)
    BY <1>5, <1>6 DEF BodyIn
  <1>10. TextIn(d, p, d[p].number) = TextIn(c, p, c[p].number)
    BY <1>1, <1>2, <1>3
  <1>11. FunctionIn(d, p) = FunctionIn(c, p)
    BY <1>1, <1>4, <1>8, <1>9, <1>10 DEF FunctionIn
  <1> QED
    BY <1>7, <1>11

\* What a line of a body at x adds to it.
BodyGoesOn(c, d, line, p, x) ==
  /\ KnownIn(d, p)
  /\ Grows(NamesIn(c, p), NamesIn(d, p), x) /\ Grows(BodyIn(c, p), BodyIn(d, p), x)
  /\ line.kind # "label" => NamesIn(d, p) = NamesIn(c, p)
  /\ line.kind # "order" => BodyIn(d, p) = BodyIn(c, p)
  /\ line.kind = "label" => /\ DOMAIN NamesIn(d, p) = DOMAIN NamesIn(c, p) \cup {x}
                            /\ NamesIn(d, p)[x] = line.name
  /\ line.kind = "order" => /\ DOMAIN BodyIn(d, p) = DOMAIN BodyIn(c, p) \cup {x}
                            /\ BodyIn(d, p)[x] = OrderIn(d, p, x)
  /\ TextIn(d, p, d[p].number) = TextIn(c, p, c[p].number)

\* A line of the body that is being read.
LEMMA BodyGrows ==
  ASSUME NEW c, NEW d, NEW line, Longer(c, d, line), NEW p, OpenBody(c, p), KnownIn(c, p),
         line.kind # Brace, NEW x, x = Len(c) + 1,
         line.kind = "order" => FieldKnown(d, p, x)
  PROVE  BodyGoesOn(c, d, line, p, x)
  <1>1. /\ p \in 1 .. Len(c) /\ p \in 1 .. Len(c) + 1 /\ d[p] = c[p] /\ d[x] = line
        /\ \A q \in 1 .. Len(c) : d[q] = c[q]
    BY DEF Longer, OpenBody
  <1>2. /\ ClosedIn(c, "$const", p) /\ c[p].kind = "function"
        /\ c[p].number \in DOMAIN ConstIn(c, p)
        /\ \A k \in LinesIn(c, p, "order") : FieldKnown(c, p, k)
    BY DEF KnownIn
  <1>3. /\ ClosedIn(d, "$const", p) /\ ConstIn(d, p) = ConstIn(c, p)
        /\ \A n \in DOMAIN ConstIn(c, p) : TextIn(d, p, n) = TextIn(c, p, n)
    BY <1>1, <1>2, ConstInStays
  <1>4. \A w : /\ Before(LinesIn(c, p, w), x)
               /\ line.kind = w => LinesIn(d, p, w) = LinesIn(c, p, w) \cup {x}
               /\ line.kind # w => LinesIn(d, p, w) = LinesIn(c, p, w)
    BY LinesGrow
  <1>5. \A w : \A k \in LinesIn(c, p, w) : k \in 1 .. Len(c) /\ d[k] = c[k]
    <2>1. x - 1 = Len(c)
      BY DEF Longer
    <2> QED
      BY <1>1, <1>4, <2>1 DEF Before
  <1>6. \A k \in LinesIn(c, p, "order") : FieldKnown(d, p, k) /\ OrderIn(d, p, k) = OrderIn(c, p, k)
    BY <1>1, <1>2, <1>5, OrderStays
  <1>7. KnownIn(d, p)
    <2>1. \A k \in LinesIn(d, p, "order") : FieldKnown(d, p, k)
      BY <1>4, <1>6
    <2> QED
      BY <1>1, <1>2, <1>3, <2>1 DEF KnownIn
  <1>8. /\ DOMAIN NamesIn(c, p) = LinesIn(c, p, "label")
        /\ DOMAIN NamesIn(d, p) = LinesIn(d, p, "label")
        /\ \A l \in LinesIn(c, p, "label") : NamesIn(c, p)[l] = c[l].name
        /\ \A l \in LinesIn(d, p, "label") : NamesIn(d, p)[l] = d[l].name
    BY DEF NamesIn
  <1>9. /\ DOMAIN BodyIn(c, p) = LinesIn(c, p, "order")
        /\ DOMAIN BodyIn(d, p) = LinesIn(d, p, "order")
        /\ \A k \in LinesIn(c, p, "order") : BodyIn(c, p)[k] = OrderIn(c, p, k)
        /\ \A k \in LinesIn(d, p, "order") : BodyIn(d, p)[k] = OrderIn(d, p, k)
    BY DEF BodyIn
  <1>10. Grows(NamesIn(c, p), NamesIn(d, p), x)
    BY <1>4, <1>5, <1>8 DEF Grows
  <1>11. Grows(BodyIn(c, p), BodyIn(d, p), x)
    BY <1>4, <1>6, <1>9 DEF Grows
  <1>12. line.kind # "label" => NamesIn(d, p) = NamesIn(c, p)
    BY <1>4, <1>5 DEF NamesIn
  <1>13. line.kind # "order" => BodyIn(d, p) = BodyIn(c, p)
    BY <1>4, <1>6 DEF BodyIn
  <1>14. line.kind = "label" => /\ DOMAIN NamesIn(d, p) = DOMAIN NamesIn(c, p) \cup {x}
                                /\ NamesIn(d, p)[x] = line.name
    BY <1>1, <1>4, <1>8
  <1>15. line.kind = "order" => /\ DOMAIN BodyIn(d, p) = DOMAIN BodyIn(c, p) \cup {x}
                                /\ BodyIn(d, p)[x] = OrderIn(d, p, x)
    BY <1>4, <1>9
  <1>16. TextIn(d, p, d[p].number) = TextIn(c, p, c[p].number)
    BY <1>1, <1>2, <1>3
  <1> QED
    BY <1>7, <1>10, <1>11, <1>12, <1>13, <1>14, <1>15, <1>16 DEF BodyGoesOn

-----------------------------------------------------------------------------
(***************************************************************************)
(* The table of functions.  Only what its own entries stand for matters.   *)
(***************************************************************************)
\* W says of the lines in S what V says.
SameOn(S, V, W) == \A k \in S : k \in DOMAIN W /\ W[k] = V[k]

\* A table by other values that are the same for its entries.
LEMMA TableValues ==
  ASSUME NEW c, Len(c) \in Nat, NEW end, NEW kw, NEW e, NEW reading, NEW t, NEW V, NEW W,
         TableOK(c, end, kw, e, reading, t, V), SameOn(AtIn(c, kw, e, Len(c) + 1), V, W)
  PROVE  TableOK(c, end, kw, e, reading, t, W)
  <1>1. PICK f : f = DefsIn(c, kw, e, Len(c) + 1)
    OBVIOUS
  <1>2. PICK at : at = AtIn(c, kw, e, Len(c) + 1)
    OBVIOUS
  <1>3. Len(c) + 1 \in 1 .. Len(c) + 1
    OBVIOUS
  <1>4. \A i \in DOMAIN f : f[i] \in at
    BY <1>1, <1>2, <1>3, DefsFacts
  <1>5. DOMAIN t = DOMAIN f /\ \A i \in DOMAIN t : t[i] = V[f[i]]
    BY <1>1 DEF TableOK, Matches
  <1>6. at \subseteq DOMAIN W /\ \A i \in DOMAIN t : t[i] = W[f[i]]
    BY <1>2, <1>4, <1>5 DEF SameOn
  <1>7. Matches(t, f, W)
    BY <1>5, <1>6 DEF Matches
  <1> QED
    BY <1>1, <1>2, <1>6, <1>7 DEF TableOK

\* The value of the last entry, h, changes.
LEMMA TableChange ==
  ASSUME NEW c, Len(c) \in Nat, NEW end, NEW kw, NEW e, NEW t, NEW V, NEW W, NEW h,
         h \in AtIn(c, kw, e, Len(c) + 1), \A k \in AtIn(c, kw, e, Len(c) + 1) : k <= h,
         TableOK(c, end, kw, e, TRUE, Put(t, c[h].index, V[h]), V),
         SameOn(AtIn(c, kw, e, Len(c) + 1) \ {h}, V, W), h \in DOMAIN W
  PROVE  TableOK(c, end, kw, e, TRUE, Put(t, c[h].index, W[h]), W)
  <1>1. PICK at \in SUBSET (1 .. Len(c)) : at = AtIn(c, kw, e, Len(c) + 1)
    <2>1. Len(c) + 1 \in 1 .. Len(c) + 1
      OBVIOUS
    <2> QED
      BY <2>1, AtFacts
  <1>2. PICK f : f = DefsIn(c, kw, e, Len(c) + 1) /\ f = IndexIn(c, at)
    BY <1>1 DEF DefsIn
  <1>3. IsIndex(c, at, f)
    BY <1>2, IndexFacts
  <1>4. PICK i : i = c[h].index
    OBVIOUS
  <1>5. PICK s : s = Put(t, i, V[h])
    OBVIOUS
  <1>6. PICK r : r = Put(t, i, W[h])
    OBVIOUS
  <1>7. /\ OpenIn(c, kw) /\ Bounded(s)
        /\ DOMAIN s = DOMAIN f /\ \A j \in DOMAIN s : s[j] = V[f[j]]
    BY <1>2, <1>4, <1>5 DEF TableOK, Matches
  <1>8. DOMAIN r = DOMAIN s /\ r[i] = W[h] /\ \A j \in DOMAIN s : j # i => r[j] = s[j]
    BY <1>5, <1>6 DEF Put
  <1>9. h \in at /\ i \in DOMAIN f
    BY <1>1, <1>3, <1>4 DEF IsIndex
  <1>10. f[i] = h
    <2>1. f[i] \in at /\ h <= f[i]
      BY <1>3, <1>4, <1>9 DEF IsIndex
    <2>2. f[i] <= h /\ f[i] \in 1 .. Len(c) /\ h \in 1 .. Len(c)
      BY <1>1, <1>9, <2>1
    <2> QED
      BY <2>1, <2>2
  <1>11. \A j \in DOMAIN f : j # i => f[j] \in at \ {h}
    BY <1>3, <1>4 DEF IsIndex
  <1>12. \A j \in DOMAIN r : r[j] = W[f[j]]
    <2> SUFFICES ASSUME NEW j \in DOMAIN r PROVE r[j] = W[f[j]]
      OBVIOUS
    <2>1. CASE j = i
      BY <1>8, <1>10, <2>1
    <2>2. CASE j # i
      <3>1. r[j] = V[f[j]] /\ f[j] \in at \ {h}
        BY <1>7, <1>8, <1>11, <2>2
      <3> QED
        BY <1>1, <3>1 DEF SameOn
    <2> QED
      BY <2>1, <2>2
  <1>13. at \subseteq DOMAIN W
    BY <1>1 DEF SameOn
  <1>14. Matches(r, f, W) /\ Bounded(r)
    BY <1>7, <1>8, <1>12 DEF Matches, Bounded
  <1> QED
    BY <1>1, <1>2, <1>4, <1>6, <1>7, <1>13, <1>14 DEF TableOK

\* The last line of a kind, when another line is read, and when one of the kind is.
LEMMA LastMoves ==
  ASSUME NEW c, NEW d, NEW line, Longer(c, d, line), NEW kw
  PROVE  /\ line.kind # kw => LastIn(d, kw, Len(d) + 1) = LastIn(c, kw, Len(c) + 1)
         /\ line.kind = kw => LastIn(d, kw, Len(d) + 1) = Len(c) + 1
  <1>1. /\ Len(c) \in Nat /\ Len(d) = Len(c) + 1 /\ Len(d) \in Nat
        /\ (\A q \in 1 .. Len(c) : d[q] = c[q]) /\ d[Len(c) + 1] = line
        /\ Len(c) + 1 \in 1 .. Len(c) + 1 /\ Len(d) + 1 \in 1 .. Len(d) + 1
    BY DEF Longer
  <1>2. PICK n : n = LastIn(c, kw, Len(c) + 1)
    OBVIOUS
  <1>3. /\ n \in 0 .. Len(c)
        /\ n # 0 => c[n].kind = kw
        /\ \A q \in 1 .. Len(c) : c[q].kind = kw => q <= n
    BY <1>1, <1>2, LastFacts
  <1>4. ASSUME line.kind # kw PROVE LastIn(d, kw, Len(d) + 1) = n
    <2>1. n \in 0 .. (Len(d) + 1) - 1 /\ (n # 0 => d[n].kind = kw)
      BY <1>1, <1>3
    <2>2. ASSUME NEW q \in n + 1 .. (Len(d) + 1) - 1 PROVE d[q].kind # kw
      <3>1. q = Len(c) + 1 \/ (q \in 1 .. Len(c) /\ ~(q <= n))
        BY <1>1, <1>3
      <3> QED
        BY <1>1, <1>3, <1>4, <3>1
    <2> QED
      BY <1>1, <2>1, <2>2, LastIs
  <1>5. ASSUME line.kind = kw PROVE LastIn(d, kw, Len(d) + 1) = Len(c) + 1
    <2>1. Len(c) + 1 \in 0 .. (Len(d) + 1) - 1 /\ d[Len(c) + 1].kind = kw
      BY <1>1, <1>5
    <2>2. \A q \in (Len(c) + 1) + 1 .. (Len(d) + 1) - 1 : d[q].kind # kw
      BY <1>1
    <2> QED
      BY <1>1, <2>1, <2>2, LastIs
  <1> QED
    BY <1>2, <1>4, <1>5

\* Functions whose bodies are over.
LEMMA FunctionsStay ==
  ASSUME NEW c, NEW d, NEW line, Longer(c, d, line), NEW S \in SUBSET DOMAIN FunctionsIn(c),
         \A k \in S : ClosedBody(c, k) \/ (OpenBody(c, k) /\ line.kind = Brace)
  PROVE  SameOn(S, FunctionsIn(c), FunctionsIn(d)) /\ \A k \in S : ClosedBody(d, k)
  <1>1. ASSUME NEW k \in S
        PROVE  /\ k \in DOMAIN FunctionsIn(d) /\ FunctionsIn(d)[k] = FunctionsIn(c)[k]
               /\ ClosedBody(d, k)
    <2>1. k \in 1 .. Len(c) /\ KnownIn(c, k) /\ FunctionsIn(c)[k] = FunctionIn(c, k)
      BY DEF FunctionsIn
    <2>2. k \in 1 .. Len(d)
      BY <2>1 DEF Longer
    <2>3. KnownIn(d, k) /\ FunctionIn(d, k) = FunctionIn(c, k)
      BY <2>1, FunctionStays
    <2>4. ClosedBody(d, k)
      BY <2>1, StopStays
    <2> QED
      BY <2>1, <2>2, <2>3, <2>4 DEF FunctionsIn
  <1> QED
    BY <1>1 DEF SameOn

\* The functions of the last section, and their table.
FunctionsAt(c) == AtIn(c, "$function", "function", Len(c) + 1)
FunctionTable(c, end, reading, t) ==
  TableOK(c, end, "$function", "function", reading, t, FunctionsIn(c))
AllClosed(c) == \A k \in FunctionsAt(c) : ClosedBody(c, k)

\* The function that is being read has its head at p: f is what was made of
\* it, m the map without it.
HeadOK(c, p, f, m) ==
  /\ p = LastIn(c, "function", Len(c) + 1) /\ p \in FunctionsAt(c) /\ OpenBody(c, p)
  /\ LastIn(c, "$const", p) = LastIn(c, "$const", Len(c) + 1)
  /\ f = [index |-> c[p].index, name |-> TextIn(c, p, c[p].number),
          argument_types |-> ArgumentTypes(c[p])]
  /\ \A k \in FunctionsAt(c) \ {p} : ClosedBody(c, k)
  /\ FunctionTable(c, {}, TRUE, Put(m, c[p].index, FunctionsIn(c)[p]))

\* A line outside the sections of functions.
LEMMA FunctionsBetween ==
  ASSUME NEW c, NEW d, NEW line, Longer(c, d, line), NEW t, line.kind # "$function",
         FunctionTable(c, {}, FALSE, t), AllClosed(c)
  PROVE  FunctionTable(d, {}, FALSE, t) /\ AllClosed(d)
  <1>1. Len(c) \in Nat
    BY DEF Longer
  <1>2. PICK S : S = FunctionsAt(c)
    OBVIOUS
  <1>3. S \in SUBSET DOMAIN FunctionsIn(c) /\ ClosedIn(c, "$function", Len(c) + 1)
    BY <1>2 DEF FunctionTable, TableOK, FunctionsAt
  <1>4. SameOn(S, FunctionsIn(c), FunctionsIn(d)) /\ \A k \in S : ClosedBody(d, k)
    BY <1>2, <1>3, FunctionsStay DEF AllClosed
  <1>5. FunctionsAt(d) = S
    BY <1>2, <1>3, LineBetween DEF FunctionsAt
  <1>6. TableOK(c, {}, "$function", "function", FALSE, t, FunctionsIn(d))
    BY <1>1, <1>2, <1>4, TableValues DEF FunctionTable, FunctionsAt
  <1>7. TableOK(d, {}, "$function", "function", FALSE, t, FunctionsIn(d))
    <2>1. Agree(FunctionsIn(d), FunctionsIn(d))
      BY DEF Agree
    <2> QED
      BY <1>6, <2>1, TableBetween
  <1> QED
    BY <1>4, <1>5, <1>7 DEF FunctionTable, AllClosed

\* A line between functions, or the end of their section.
LEMMA FunctionsInside ==
  ASSUME NEW c, NEW d, NEW line, Longer(c, d, line), NEW m,
         line.kind \notin {"$function", "function"},
         FunctionTable(c, {}, TRUE, m), AllClosed(c)
  PROVE  /\ line.kind # "$end" => FunctionTable(d, {}, TRUE, m)
         /\ line.kind = "$end" /\ Whole(m) => FunctionTable(d, {}, FALSE, m)
         /\ AllClosed(d)
  <1>1. Len(c) \in Nat
    BY DEF Longer
  <1>2. PICK S : S = FunctionsAt(c)
    OBVIOUS
  <1>3. S \in SUBSET DOMAIN FunctionsIn(c) /\ OpenIn(c, "$function")
    BY <1>2 DEF FunctionTable, TableOK, FunctionsAt
  <1>4. SameOn(S, FunctionsIn(c), FunctionsIn(d)) /\ \A k \in S : ClosedBody(d, k)
    BY <1>2, <1>3, FunctionsStay DEF AllClosed
  <1>5. FunctionsAt(d) = S
    BY <1>2, <1>3, LineInside DEF FunctionsAt
  <1>6. TableOK(c, {}, "$function", "function", TRUE, m, FunctionsIn(d))
    BY <1>1, <1>2, <1>4, TableValues DEF FunctionTable, FunctionsAt
  <1>7. Agree(FunctionsIn(d), FunctionsIn(d))
    BY DEF Agree
  <1>8. line.kind # "$end" => TableOK(d, {}, "$function", "function", TRUE, m, FunctionsIn(d))
    BY <1>6, <1>7, TableInside
  <1>9. line.kind = "$end" /\ Whole(m) =>
          TableOK(d, {}, "$function", "function", FALSE, m, FunctionsIn(d))
    BY <1>6, <1>7, TableInside
  <1> QED
    BY <1>4, <1>5, <1>8, <1>9 DEF FunctionTable, AllClosed

\* The head of a function.
LEMMA HeadBegins ==
  ASSUME NEW c, NEW d, NEW line, Longer(c, d, line), NEW m, NEW f, NEW p, p = Len(c) + 1,
         line.kind = "function", line.index \in Nat,
         FunctionTable(c, {}, TRUE, m), AllClosed(c),
         ClosedIn(d, "$const", p), line.number \in DOMAIN ConstIn(d, p),
         f = [index |-> line.index, name |-> TextIn(d, p, line.number),
              argument_types |-> ArgumentTypes(line)]
  PROVE  HeadOK(d, p, f, m) /\ DOMAIN NamesIn(d, p) = {}
  <1>1. /\ Len(c) \in Nat /\ Len(d) = Len(c) + 1 /\ Len(d) \in Nat /\ d[p] = line
        /\ p \in 1 .. Len(d) /\ p \in 1 .. Len(c) + 1
    BY DEF Longer
  <1>2. PICK S : S = FunctionsAt(c)
    OBVIOUS
  <1>3. S \in SUBSET DOMAIN FunctionsIn(c) /\ OpenIn(c, "$function")
    BY <1>2 DEF FunctionTable, TableOK, FunctionsAt
  <1>4. SameOn(S, FunctionsIn(c), FunctionsIn(d)) /\ \A k \in S : ClosedBody(d, k)
    BY <1>2, <1>3, FunctionsStay DEF AllClosed
  <1>5. FunctionsAt(d) = With(S, p)
    BY <1>2, <1>3, LineInside DEF FunctionsAt
  <1>6. OpenBody(d, p)
    BY <1>1 DEF OpenBody
  <1>7. \A w : LinesIn(d, p, w) = {}
    <2>1. StopIn(d, p) = Len(d) + 1
      BY <1>1, <1>6, StopOpen
    <2>2. p + 1 .. (Len(d) + 1) - 1 = {}
      BY <1>1
    <2> QED
      BY <2>1, <2>2 DEF LinesIn
  <1>8. KnownIn(d, p)
    BY <1>1, <1>7 DEF KnownIn
  <1>9. p \in DOMAIN FunctionsIn(d)
    BY <1>1, <1>8 DEF FunctionsIn
  <1>10. TableOK(c, {}, "$function", "function", TRUE, m, FunctionsIn(d))
    BY <1>1, <1>2, <1>4, TableValues DEF FunctionTable, FunctionsAt
  <1>11. TableOK(d, {}, "$function", "function", TRUE,
                 Put(m, line.index, FunctionsIn(d)[Len(c) + 1]), FunctionsIn(d))
    <2>1. Agree(FunctionsIn(d), FunctionsIn(d))
      BY DEF Agree
    <2> QED
      BY <1>9, <1>10, <2>1, TableEntry
  <1>12. p = LastIn(d, "function", Len(d) + 1)
    BY LastMoves
  <1>13. LastIn(d, "$const", p) = LastIn(d, "$const", Len(d) + 1)
    <2>1. LastIn(d, "$const", p) = LastIn(c, "$const", p)
      BY <1>1, LastStays
    <2>2. LastIn(d, "$const", Len(d) + 1) = LastIn(c, "$const", Len(c) + 1)
      BY LastMoves
    <2> QED
      BY <2>1, <2>2
  <1>14. DOMAIN NamesIn(d, p) = {}
    BY <1>7 DEF NamesIn
  <1> QED
    BY <1>1, <1>4, <1>5, <1>6, <1>11, <1>12, <1>13, <1>14 DEF HeadOK, With, FunctionTable

\* The function that is being read was known.
LEMMA HeadKnown ==
  ASSUME NEW c, Len(c) \in Nat, NEW p, NEW f, NEW m, HeadOK(c, p, f, m)
  PROVE  /\ KnownIn(c, p) /\ p \in 1 .. Len(c) /\ OpenBody(c, p)
         /\ p \in DOMAIN FunctionsIn(c) /\ FunctionsIn(c)[p] = FunctionIn(c, p)
         /\ FunctionsAt(c) \subseteq DOMAIN FunctionsIn(c) /\ OpenIn(c, "$function")
         /\ \A k \in FunctionsAt(c) : k <= p
  <1>1. /\ p \in FunctionsAt(c) /\ OpenBody(c, p) /\ p = LastIn(c, "function", Len(c) + 1)
        /\ FunctionsAt(c) \subseteq DOMAIN FunctionsIn(c) /\ OpenIn(c, "$function")
    BY DEF HeadOK, FunctionTable, TableOK, FunctionsAt
  <1>2. p \in 1 .. Len(c)
    BY <1>1 DEF OpenBody
  <1>3. Len(c) + 1 \in 1 .. Len(c) + 1
    OBVIOUS
  <1>4. \A k \in FunctionsAt(c) : k \in 1 .. Len(c) /\ c[k].kind = "function"
    BY <1>3, AtFacts DEF FunctionsAt
  <1>5. \A q \in 1 .. (Len(c) + 1) - 1 : c[q].kind = "function" => q <= p
    BY <1>1, <1>3, LastFacts
  <1>6. \A k \in FunctionsAt(c) : k <= p
    BY <1>4, <1>5
  <1> QED
    BY <1>1, <1>2, <1>6 DEF FunctionsIn

\* A line in the body that is being read.
LEMMA HeadStays ==
  ASSUME NEW c, NEW d, NEW line, Longer(c, d, line), NEW p, NEW f, NEW m, HeadOK(c, p, f, m),
         line.kind \in {"blank", "label", "order"},
         line.kind = "order" => FieldKnown(d, p, Len(c) + 1)
  PROVE  HeadOK(d, p, f, m)
  <1>1. /\ Len(c) \in Nat /\ Len(d) = Len(c) + 1 /\ Len(d) \in Nat
        /\ \A q \in 1 .. Len(c) : d[q] = c[q]
    BY DEF Longer
  <1>2. /\ KnownIn(c, p) /\ p \in 1 .. Len(c) /\ OpenBody(c, p)
        /\ FunctionsAt(c) \subseteq DOMAIN FunctionsIn(c) /\ OpenIn(c, "$function")
        /\ \A k \in FunctionsAt(c) : k <= p
    BY <1>1, HeadKnown
  <1>3. line.kind # Brace /\ line.kind \notin {"$function", "function", "$end", "$const"}
    BY BraceDiffers
  <1>4. KnownIn(d, p) /\ TextIn(d, p, d[p].number) = TextIn(c, p, c[p].number)
    <2>1. PICK x : x = Len(c) + 1
      OBVIOUS
    <2>2. line.kind = "order" => FieldKnown(d, p, x)
      BY <2>1
    <2>3. BodyGoesOn(c, d, line, p, x)
      BY <1>2, <1>3, <2>1, <2>2, BodyGrows
    <2> QED
      BY <2>3 DEF BodyGoesOn
  <1>5. OpenBody(d, p)
    BY <1>2, <1>3, LinesGrow
  <1>6. FunctionsAt(d) = FunctionsAt(c)
    BY <1>2, <1>3, LineInside DEF FunctionsAt
  <1>7. PICK S : S = FunctionsAt(c) \ {p}
    OBVIOUS
  <1>8. S \in SUBSET DOMAIN FunctionsIn(c) /\ \A k \in S : ClosedBody(c, k)
    BY <1>2, <1>7 DEF HeadOK
  <1>9. SameOn(S, FunctionsIn(c), FunctionsIn(d)) /\ \A k \in S : ClosedBody(d, k)
    BY <1>8, FunctionsStay
  <1>10. p \in DOMAIN FunctionsIn(d) /\ d[p] = c[p]
    <2>1. p \in 1 .. Len(d) /\ d[p] = c[p]
      BY <1>1, <1>2
    <2> QED
      BY <1>4, <2>1 DEF FunctionsIn
  <1>11. TableOK(c, {}, "$function", "function", TRUE,
                 Put(m, c[p].index, FunctionsIn(d)[p]), FunctionsIn(d))
    <2>1. /\ p \in AtIn(c, "$function", "function", Len(c) + 1)
          /\ \A k \in AtIn(c, "$function", "function", Len(c) + 1) : k <= p
          /\ TableOK(c, {}, "$function", "function", TRUE,
                     Put(m, c[p].index, FunctionsIn(c)[p]), FunctionsIn(c))
          /\ SameOn(AtIn(c, "$function", "function", Len(c) + 1) \ {p},
                    FunctionsIn(c), FunctionsIn(d))
      BY <1>2, <1>7, <1>9 DEF HeadOK, FunctionTable, FunctionsAt
    <2> QED
      BY <1>1, <1>10, <2>1, TableChange
  <1>12. TableOK(d, {}, "$function", "function", TRUE,
                 Put(m, d[p].index, FunctionsIn(d)[p]), FunctionsIn(d))
    <2>1. Agree(FunctionsIn(d), FunctionsIn(d))
      BY DEF Agree
    <2>2. PICK t : t = Put(m, c[p].index, FunctionsIn(d)[p])
      OBVIOUS
    <2>3. TableOK(c, {}, "$function", "function", TRUE, t, FunctionsIn(d))
      BY <1>11, <2>2
    <2>4. TableOK(d, {}, "$function", "function", TRUE, t, FunctionsIn(d))
      BY <1>3, <2>1, <2>3, TableInside
    <2> QED
      BY <1>10, <2>2, <2>4
  <1>13. p = LastIn(d, "function", Len(d) + 1)
    BY <1>3, LastMoves DEF HeadOK
  <1>14. LastIn(d, "$const", p) = LastIn(d, "$const", Len(d) + 1)
    <2>1. LastIn(d, "$const", p) = LastIn(c, "$const", p)
      BY <1>1, <1>2, LastStays
    <2>2. LastIn(d, "$const", Len(d) + 1) = LastIn(c, "$const", Len(c) + 1)
      BY <1>3, LastMoves
    <2> QED
      BY <2>1, <2>2 DEF HeadOK
  <1>15. f = [index |-> d[p].index, name |-> TextIn(d, p, d[p].number),
              argument_types |-> ArgumentTypes(d[p])]
    BY <1>4, <1>10 DEF HeadOK
  <1>16. p \in FunctionsAt(d) /\ \A k \in FunctionsAt(d) \ {p} : ClosedBody(d, k)
    BY <1>6, <1>7, <1>9 DEF HeadOK
  <1> QED
    BY <1>5, <1>12, <1>13, <1>14, <1>15, <1>16 DEF HeadOK, FunctionTable

\* The function that is being read is over, at the end of its body or of the text.
LEMMA HeadEnds ==
  ASSUME NEW c, Len(c) \in Nat, NEW p, NEW f, NEW m, HeadOK(c, p, f, m), NEW v,
         v = [name |-> f.name, argument_types |-> f.argument_types,
              label_blocks |-> BlocksIn(NamesIn(c, p), BodyIn(c, p), Len(c) + 1)]
  PROVE  /\ \A end : FunctionTable(c, end, TRUE, Put(m, f.index, v))
         /\ \A d, line : Longer(c, d, line) /\ line.kind = Brace =>
              FunctionTable(d, {}, TRUE, Put(m, f.index, v)) /\ AllClosed(d)
  <1>1. /\ p \in 1 .. Len(c) /\ OpenBody(c, p) /\ FunctionsIn(c)[p] = FunctionIn(c, p)
        /\ FunctionsAt(c) \subseteq DOMAIN FunctionsIn(c) /\ OpenIn(c, "$function")
    BY HeadKnown
  <1>2. StopIn(c, p) = Len(c) + 1
    BY <1>1, StopOpen
  <1>3. f.index = c[p].index /\ v = FunctionsIn(c)[p]
    BY <1>1, <1>2 DEF HeadOK, FunctionIn
  <1>4. FunctionTable(c, {}, TRUE, Put(m, f.index, v))
    BY <1>3 DEF HeadOK
  <1>5. \A end : FunctionTable(c, end, TRUE, Put(m, f.index, v))
    BY <1>4 DEF FunctionTable, TableOK
  <1>6. ASSUME NEW d, NEW line, Longer(c, d, line), line.kind = Brace
        PROVE  FunctionTable(d, {}, TRUE, Put(m, f.index, v)) /\ AllClosed(d)
    <2>1. line.kind \notin {"$function", "function", "$end"}
      BY <1>6, BraceDiffers
    <2>2. PICK S : S = FunctionsAt(c)
      OBVIOUS
    <2>3. \A k \in S : ClosedBody(c, k) \/ (OpenBody(c, k) /\ line.kind = Brace)
      BY <1>1, <1>6, <2>2 DEF HeadOK
    <2>4. SameOn(S, FunctionsIn(c), FunctionsIn(d)) /\ \A k \in S : ClosedBody(d, k)
      BY <1>1, <1>6, <2>2, <2>3, FunctionsStay
    <2>5. FunctionsAt(d) = S
      BY <1>1, <1>6, <2>1, <2>2, LineInside DEF FunctionsAt
    <2>6. TableOK(c, {}, "$function", "function", TRUE, Put(m, f.index, v), FunctionsIn(d))
      BY <1>4, <2>2, <2>4, TableValues DEF FunctionTable, FunctionsAt
    <2>7. Agree(FunctionsIn(d), FunctionsIn(d))
      BY DEF Agree
    <2>8. TableOK(d, {}, "$function", "function", TRUE, Put(m, f.index, v), FunctionsIn(d))
      <3>1. PICK t : t = Put(m, f.index, v)
        OBVIOUS
      <3>2. TableOK(c, {}, "$function", "function", TRUE, t, FunctionsIn(d))
        BY <2>6, <3>1
      <3>3. TableOK(d, {}, "$function", "function", TRUE, t, FunctionsIn(d))
        BY <1>6, <2>1, <2>7, <3>2, TableInside
      <3> QED
        BY <3>1, <3>3
    <2> QED
      BY <2>4, <2>5, <2>8 DEF FunctionTable, AllClosed
  <1> QED
    BY <1>5, <1>6

-----------------------------------------------------------------------------
(***************************************************************************)
(* The invariant of the readers of functions.                              *)
(***************************************************************************)
\* In the body of the function at p.  Once the text has ended the block that
\* was being read is closed, whatever the number of labels.
BodyOK(p) ==
  /\ HeadOK(code, p, function, map)
  /\ reader = "orders" =>
       InBlock(NamesIn(code, p), BodyIn(code, p), Len(code) + 1, label_blocks, label_name, orders)
  /\ reader = "labels" =>
       IF ended = {}
       THEN BetweenBlocks(NamesIn(code, p), BodyIn(code, p), Len(code) + 1, label_blocks)
       ELSE label_blocks = BlocksIn(NamesIn(code, p), BodyIn(code, p), Len(code) + 1)

FunctionOK ==
  IF reader \in {"labels", "orders"} THEN \E p \in DOMAIN code : BodyOK(p)
  ELSE /\ ended = {} => AllClosed(code)
       /\ IF reader = "$function" THEN FunctionTable(code, ended, TRUE, map)
          ELSE FunctionTable(code, ended, FALSE, functions)

FunctionInv == result \in {"parsing", "module"} /\ Unwrapped => FunctionOK

\* An order that is taken has the name of its field among the constants.
LEMMA FieldNamed ==
  ASSUME NEW line, LineOK(line), line.kind = "order", OrderOutcome(line) = "ok",
         line.name = "set_field"
  PROVE  line.args[5].number \in DOMAIN const_values
  <1> DEFINE reads == Reads(line.name)
             outcomes == [k \in DOMAIN reads |->
               IF k > Len(line.args) THEN "wild" ELSE ArgOutcome(reads[k], line.args[k])]
  <1>1. reads = <<"register", "register", "bool", "using_type", "const_string">>
    BY DEF Reads
  <1>2. DOMAIN reads = 1 .. 5 /\ reads[5] = "const_string"
    BY <1>1
  <1>3. FirstFailure(outcomes) = "ok"
    BY DEF OrderOutcome
  <1>4. outcomes \in Seq({outcomes[k] : k \in 1 .. 5})
    BY <1>2
  <1>5. 5 \in DOMAIN outcomes
    BY <1>2
  <1>6. outcomes[5] = "ok"
    <2> HIDE DEF outcomes
    <2> QED
      BY <1>3, <1>4, <1>5, NoneFailed
  <1>7. ArgOutcome("const_string", line.args[5]) = "ok"
    BY <1>2, <1>6
  <1> QED
    BY <1>7 DEF ArgOutcome, ConstFound

\* const_values has the constants at the line that is read.
LEMMA ConstHere ==
  ASSUME code \in Seq(AllLines), NEW line, Longer(code, code', line),
         ConstOK, reader # "$const", ended = {}, NEW x, x = Len(code) + 1
  PROVE  /\ ClosedIn(code', "$const", x)
         /\ DOMAIN const_values = DOMAIN ConstIn(code', x)
         /\ \A n \in DOMAIN const_values : ConstString(n) = TextIn(code', x, n)
  <1>1. /\ ClosedIn(code', "$const", x)
        /\ DOMAIN const_values = DOMAIN Constants(x)'
        /\ \A n \in DOMAIN const_values : ConstString(n) = TextOf(x, n)'
    BY ConstKnown
  <1>2. Constants(x)' = ConstIn(code', x)
    BY DefsText DEF Constants, ConstIn
  <1>3. ASSUME NEW n PROVE TextOf(x, n)' = TextIn(code', x, n)
    BY <1>2 DEF TextOf, TextIn
  <1> QED
    BY <1>1, <1>2, <1>3

\* No constants stand between the head of a function and its orders.
LEMMA ConstAtHead ==
  ASSUME NEW c, NEW d, NEW line, Longer(c, d, line), NEW p, NEW f, NEW m, HeadOK(c, p, f, m),
         NEW x, x = Len(c) + 1
  PROVE  ConstIn(d, x) = ConstIn(d, p) /\ \A n : TextIn(d, x, n) = TextIn(d, p, n)
  <1>1. Len(c) \in Nat /\ x \in 1 .. Len(c) + 1 /\ p \in 1 .. Len(c) + 1
    BY HeadKnown DEF Longer
  <1>2. LastIn(d, "$const", x) = LastIn(d, "$const", p)
    BY <1>1, LastStays DEF HeadOK
  <1>3. ConstIn(d, x) = ConstIn(d, p)
    BY <1>2 DEF ConstIn, DefsIn, AtIn
  <1> QED
    BY <1>3 DEF TextIn

\* An order that is taken is the order of the text.
LEMMA OrderRead ==
  ASSUME code \in Seq(AllLines), NEW line, Longer(code, code', line), LineOK(line),
         ConstOK, reader # "$const", ended = {}, NEW p, NEW f, NEW m, HeadOK(code, p, f, m),
         line.kind = "order", OrderOutcome(line) = "ok", NEW x, x = Len(code) + 1
  PROVE  FieldKnown(code', p, x) /\ OrderIn(code', p, x) = NewOrder(line)
  <1>1. /\ DOMAIN const_values = DOMAIN ConstIn(code', x)
        /\ \A n \in DOMAIN const_values : ConstString(n) = TextIn(code', x, n)
    BY ConstHere
  <1>2. ConstIn(code', x) = ConstIn(code', p) /\ \A n : TextIn(code', x, n) = TextIn(code', p, n)
    BY ConstAtHead
  <1>3. code'[x] = line
    BY DEF Longer
  <1>4. line.name = "set_field" => line.args[5].number \in DOMAIN const_values
    BY FieldNamed
  <1>5. FieldKnown(code', p, x)
    BY <1>1, <1>2, <1>3, <1>4 DEF FieldKnown
  <1>6. line.name = "set_field" =>
          ConstString(line.args[5].number) = TextIn(code', p, line.args[5].number)
    BY <1>1, <1>2, <1>4
  <1>7. OrderIn(code', p, x) = NewOrder(line)
    BY <1>3, <1>6 DEF OrderIn, NewOrder
  <1> QED
    BY <1>5, <1>7

\* What a line can come to: none of these is a module.
Outcomes == {"ok", "nullptr", "wild", "terminated"}

\* An order is taken, or refused with one of these.
LEMMA OrderRefused ==
  ASSUME NEW line
  PROVE  OrderOutcome(line) \in Outcomes
  <1> DEFINE reads == Reads(line.name)
             outcomes == [k \in DOMAIN reads |->
               IF k > Len(line.args) THEN "wild" ELSE ArgOutcome(reads[k], line.args[k])]
  <1>1. CASE line.name \in OrderNames
    <2>1. reads \in Seq(ReadKinds)
      BY <1>1, ReadsSeq
    <2>2. \A r, a : ArgOutcome(r, a) \in Outcomes
      BY DEF ArgOutcome, ConstFound, Outcomes
    <2>3. outcomes \in Seq(Outcomes) /\ "ok" \in Outcomes
      <3> HIDE DEF reads
      <3>1. "ok" \in Outcomes /\ "wild" \in Outcomes
        BY DEF Outcomes
      <3> QED
        BY <2>1, <2>2, <3>1
    <2>4. FirstFailure(outcomes) \in Outcomes
      <3> HIDE DEF outcomes
      <3> QED
        BY <2>3, FirstFailureIn
    <2>5. OrderOutcome(line) \in {"nullptr", FirstFailure(outcomes)}
      BY DEF OrderOutcome
    <2> QED
      BY <2>4, <2>5 DEF Outcomes
  <1>2. CASE line.name \notin OrderNames
    BY <1>2 DEF OrderOutcome, Outcomes
  <1> QED
    BY <1>1, <1>2

\* And the head of a function.
LEMMA HeadRefused ==
  ASSUME NEW line, LineOK(line), line.kind = "function"
  PROVE  HeadOutcome(line) \in Outcomes
  <1>1. Arguments(line) \in Seq(Range(line.args))
    BY ArgumentsSeq DEF LineOK
  <1>2. ConstFound(line.number) \in Outcomes /\ TypeFound(line.type) \in Outcomes
        /\ "ok" \in Outcomes
    BY DEF ConstFound, TypeFound, Outcomes
  <1>3. PICK r \in Seq(Outcomes) : r = <<ConstFound(line.number)>>
    <2>1. <<ConstFound(line.number)>> \in Seq(Outcomes)
      BY <1>2
    <2> QED
      BY <2>1
  <1>4. PICK s \in Seq(Outcomes) :
          s = [k \in DOMAIN Arguments(line) |-> ArgumentOutcome(Arguments(line)[k])]
    <2>1. \A a : ArgumentOutcome(a) \in Outcomes
      BY DEF ArgumentOutcome, TypeFound, Outcomes
    <2>2. [k \in DOMAIN Arguments(line) |-> ArgumentOutcome(Arguments(line)[k])] \in Seq(Outcomes)
      BY <1>1, <2>1
    <2> QED
      BY <2>2
  <1>5. PICK t \in Seq(Outcomes) : t = <<TypeFound(line.type)>>
    <2>1. <<TypeFound(line.type)>> \in Seq(Outcomes)
      BY <1>2
    <2> QED
      BY <2>1
  <1>6. HeadOutcome(line) = FirstFailure(r \o s \o t)
    BY <1>3, <1>4, <1>5 DEF HeadOutcome
  <1> QED
    BY <1>2, <1>6, FirstOfThree

\* A line in the body of a function, outside a block.
LEMMA LabelsStep ==
  ASSUME TextInv, FunctionOK, NEW line, Moves(line), ParseLabelBlocks(line),
         result' \in {"parsing", "module"}
  PROVE  FunctionOK'
  <1>1. reader = "labels" /\ function' = function /\ label_blocks' = label_blocks
    BY DEF ParseLabelBlocks
  <1>2. code \in Seq(AllLines) /\ Len(code) \in Nat
    <2>1. code \in Seq(AllLines)
      BY DEF TextInv
    <2> QED
      BY <2>1
  <1>3. PICK p \in DOMAIN code : BodyOK(p)
    BY <1>1 DEF FunctionOK
  <1>4. HeadOK(code, p, function, map)
    BY <1>3 DEF BodyOK
  <1>5. PICK N : N = NamesIn(code, p)
    OBVIOUS
  <1>6. PICK O : O = BodyIn(code, p)
    OBVIOUS
  <1>7. PICK x : x = Len(code) + 1
    OBVIOUS
  <1>8. /\ ended = {} => BetweenBlocks(N, O, x, label_blocks)
        /\ label_blocks = BlocksIn(N, O, x)
    BY <1>1, <1>3, <1>5, <1>6, <1>7 DEF BodyOK, BetweenBlocks
  <1>9. /\ \A end : FunctionTable(code, end, TRUE, Put(map, function.index, NewFunction))
        /\ \A d, ln : Longer(code, d, ln) /\ ln.kind = Brace =>
             FunctionTable(d, {}, TRUE, Put(map, function.index, NewFunction)) /\ AllClosed(d)
    <2>1. NewFunction =
            [name |-> function.name, argument_types |-> function.argument_types,
             label_blocks |-> BlocksIn(NamesIn(code, p), BodyIn(code, p), Len(code) + 1)]
      BY <1>5, <1>6, <1>7, <1>8 DEF NewFunction
    <2>2. PICK v : v = NewFunction
      OBVIOUS
    <2> QED
      BY <1>2, <1>4, <2>1, <2>2, HeadEnds
  <1>10. CASE line.kind = "eof"
    <2>1. code' = code /\ ended' # {}
      BY <1>10 DEF Moves
    <2>2. reader' = "$function" /\ map' = Put(map, function.index, NewFunction)
      BY <1>10 DEF ParseLabelBlocks, Closes, GoOn
    <2>3. FunctionTable(code', ended', TRUE, map')
      BY <1>9, <2>1, <2>2
    <2> QED
      BY <2>1, <2>2, <2>3 DEF FunctionOK
  <1>11. CASE line.kind # "eof"
    <2>1. Longer(code, code', line) /\ ended = {} /\ ended' = {} /\ code' \in Seq(AllLines)
      BY <1>11 DEF Moves
    <2>2. CASE line.kind = Brace
      <3>1. reader' = "$function" /\ map' = Put(map, function.index, NewFunction)
        <4>1. Closes(line, Brace) /\ line.kind \notin {"label", "blank"}
          BY <2>2, BraceDiffers DEF Closes
        <4> QED
          BY <4>1 DEF ParseLabelBlocks, GoOn
      <3>2. FunctionTable(code', ended', TRUE, map') /\ AllClosed(code')
        BY <1>9, <2>1, <2>2, <3>1
      <3> QED
        BY <3>1, <3>2 DEF FunctionOK
    <2>3. ASSUME line.kind \in {"label", "blank"}
          PROVE  /\ HeadOK(code', p, function, map) /\ BodyGoesOn(code, code', line, p, x)
                 /\ p \in DOMAIN code' /\ Len(code') + 1 = x + 1 /\ line.kind # Brace
      <3>1. line.kind # "order" /\ line.kind # Brace /\ line.kind \in {"blank", "label", "order"}
        BY <2>3, BraceDiffers
      <3>2. HeadOK(code', p, function, map)
        BY <1>4, <2>1, <3>1, HeadStays
      <3>3. KnownIn(code, p) /\ OpenBody(code, p)
        BY <1>2, <1>4, HeadKnown
      <3>4. BodyGoesOn(code, code', line, p, x)
        BY <1>7, <2>1, <3>1, <3>3, BodyGrows
      <3>5. p \in DOMAIN code' /\ Len(code') + 1 = x + 1
        BY <1>2, <1>7, <2>1 DEF Longer
      <3> QED
        BY <3>1, <3>2, <3>4, <3>5
    <2>4. CASE line.kind = "label"
      <3>1. /\ HeadOK(code', p, function, map) /\ BodyGoesOn(code, code', line, p, x)
            /\ p \in DOMAIN code' /\ Len(code') + 1 = x + 1 /\ line.kind # Brace
        BY <2>3, <2>4
      <3>2. reader' = "orders" /\ label_name' = line.name /\ orders' = <<>> /\ map' = map
        BY <1>11, <2>4, <3>1 DEF ParseLabelBlocks, Closes, GoOn
      <3>3. PICK M : M = NamesIn(code', p)
        OBVIOUS
      <3>4. /\ Grows(N, M, x) /\ DOMAIN M = DOMAIN N \cup {x} /\ M[x] = line.name
            /\ BodyIn(code', p) = O /\ Grows(O, O, x)
        BY <1>5, <1>6, <2>4, <3>1, <3>3 DEF BodyGoesOn
      <3>5. InBlock(M, O, x + 1, label_blocks, M[x], <<>>)
        BY <1>8, <2>1, <3>4, LabelOpens
      <3>6. InBlock(NamesIn(code', p), BodyIn(code', p), Len(code') + 1,
                    label_blocks', label_name', orders')
        BY <1>1, <3>1, <3>2, <3>3, <3>4, <3>5
      <3>7. BodyOK(p)'
        BY <1>1, <3>1, <3>2, <3>6 DEF BodyOK
      <3> QED
        BY <3>1, <3>2, <3>7 DEF FunctionOK
    <2>5. CASE line.kind = "blank"
      <3>1. /\ HeadOK(code', p, function, map) /\ BodyGoesOn(code, code', line, p, x)
            /\ p \in DOMAIN code' /\ Len(code') + 1 = x + 1 /\ line.kind # Brace
        BY <2>3, <2>5
      <3>2. reader' = "labels" /\ map' = map
        BY <1>1, <1>11, <2>5, <3>1 DEF ParseLabelBlocks, Closes
      <3>3. NamesIn(code', p) = N /\ BodyIn(code', p) = O /\ Grows(N, N, x) /\ Grows(O, O, x)
        BY <1>5, <1>6, <2>5, <3>1 DEF BodyGoesOn
      <3>4. BetweenBlocks(N, O, x + 1, label_blocks)
        BY <1>8, <2>1, <3>3, BlankBetween
      <3>5. BetweenBlocks(NamesIn(code', p), BodyIn(code', p), Len(code') + 1, label_blocks')
        BY <1>1, <3>1, <3>3, <3>4
      <3>6. BodyOK(p)'
        BY <1>1, <2>1, <3>1, <3>2, <3>5 DEF BodyOK
      <3> QED
        BY <3>1, <3>2, <3>6 DEF FunctionOK
    <2>6. CASE line.kind \notin {Brace, "label", "blank"}
      <3>1. result' = "nullptr"
        BY <1>11, <2>6 DEF ParseLabelBlocks, Closes, Return
      <3> QED
        BY <3>1
    <2> QED
      BY <2>2, <2>4, <2>5, <2>6
  <1> QED
    BY <1>10, <1>11

\* A line in a block.
LEMMA OrdersStep ==
  ASSUME TextInv, ConstOK, FunctionOK, NEW line, Moves(line), ParseOrders(line),
         result' \in {"parsing", "module"}, result = "parsing"
  PROVE  FunctionOK'
  <1>1. /\ reader = "orders" /\ function' = function /\ label_name' = label_name /\ map' = map
    BY DEF ParseOrders
  <1>2. code \in Seq(AllLines) /\ Len(code) \in Nat
    <2>1. code \in Seq(AllLines)
      BY DEF TextInv
    <2> QED
      BY <2>1
  <1>3. PICK p \in DOMAIN code : BodyOK(p)
    BY <1>1 DEF FunctionOK
  <1>4. HeadOK(code, p, function, map)
    BY <1>3 DEF BodyOK
  <1>5. PICK N : N = NamesIn(code, p)
    OBVIOUS
  <1>6. PICK O : O = BodyIn(code, p)
    OBVIOUS
  <1>7. PICK x : x = Len(code) + 1
    OBVIOUS
  <1>8. InBlock(N, O, x, label_blocks, label_name, orders)
    BY <1>1, <1>3, <1>5, <1>6, <1>7 DEF BodyOK
  <1>9. KnownIn(code, p) /\ OpenBody(code, p)
    BY <1>2, <1>4, HeadKnown
  <1>10. CASE line.kind = "eof"
    <2>1. code' = code /\ ended' # {}
      BY <1>10 DEF Moves
    <2>2. /\ reader' = "labels"
          /\ label_blocks' = Append(label_blocks, [name |-> label_name, orders |-> orders])
      BY <1>10 DEF ParseOrders, GoOn
    <2>3. Before(DOMAIN N, x)
      <3>1. DOMAIN N = LinesIn(code, p, "label") /\ p \in 1 .. Len(code)
        BY <1>5, <1>9 DEF NamesIn, OpenBody
      <3>2. StopIn(code, p) = x
        BY <1>2, <1>7, <1>9, StopOpen
      <3>3. \A k \in p + 1 .. x - 1 : k \in 1 .. x - 1
        BY <1>2, <1>7, <3>1
      <3> QED
        BY <1>2, <1>7, <3>1, <3>2, <3>3 DEF LinesIn, Before
    <2>4. Append(label_blocks, [name |-> label_name, orders |-> orders]) = BlocksIn(N, O, x)
      BY <1>8, <2>3, BlockEnds
    <2>5. label_blocks' = BlocksIn(NamesIn(code', p), BodyIn(code', p), Len(code') + 1)
      BY <1>5, <1>6, <1>7, <2>1, <2>2, <2>4
    <2>6. BodyOK(p)'
      BY <1>1, <1>4, <2>1, <2>2, <2>5 DEF BodyOK
    <2> QED
      BY <1>3, <2>1, <2>2, <2>6 DEF FunctionOK
  <1>11. CASE line.kind # "eof"
    <2>1. /\ Longer(code, code', line) /\ ended = {} /\ ended' = {} /\ code' \in Seq(AllLines)
          /\ LineOK(line)
      BY <1>11 DEF Moves
    <2>2. p \in DOMAIN code' /\ Len(code') + 1 = x + 1
      BY <1>2, <1>7, <2>1 DEF Longer
    <2>3. ASSUME line.kind \in {"label", "blank", "order"},
                 line.kind = "order" => OrderOutcome(line) = "ok"
          PROVE  /\ HeadOK(code', p, function, map) /\ BodyGoesOn(code, code', line, p, x)
                 /\ line.kind = "order" => OrderIn(code', p, x) = NewOrder(line)
      <3>1. line.kind # Brace
        BY <2>3, BraceDiffers
      <3>2. line.kind = "order" => /\ FieldKnown(code', p, x)
                                   /\ OrderIn(code', p, x) = NewOrder(line)
        BY <1>1, <1>2, <1>4, <1>7, <2>1, <2>3, OrderRead
      <3>3. HeadOK(code', p, function, map)
        BY <1>4, <1>7, <2>1, <2>3, <3>2, HeadStays
      <3>4. BodyGoesOn(code, code', line, p, x)
        BY <1>7, <1>9, <2>1, <3>1, <3>2, BodyGrows
      <3> QED
        BY <3>2, <3>3, <3>4
    <2>4. CASE line.kind = "label"
      <3>1. HeadOK(code', p, function, map) /\ BodyGoesOn(code, code', line, p, x)
        BY <2>3, <2>4
      <3>2. line.name = "end"
        BY <1>11, <2>4 DEF ParseOrders, Return
      <3>3. /\ reader' = "labels"
            /\ label_blocks' = Append(label_blocks, [name |-> label_name, orders |-> orders])
        BY <2>4, <3>2 DEF ParseOrders, GoOn
      <3>4. PICK M : M = NamesIn(code', p)
        OBVIOUS
      <3>5. /\ Grows(N, M, x) /\ DOMAIN M = DOMAIN N \cup {x}
            /\ BodyIn(code', p) = O /\ Grows(O, O, x)
        BY <1>5, <1>6, <2>4, <3>1, <3>4 DEF BodyGoesOn
      <3>6. BetweenBlocks(M, O, x + 1,
                          Append(label_blocks, [name |-> label_name, orders |-> orders]))
        BY <1>8, <3>5, LabelCloses
      <3>7. BetweenBlocks(NamesIn(code', p), BodyIn(code', p), Len(code') + 1, label_blocks')
        BY <2>2, <3>3, <3>4, <3>5, <3>6
      <3>8. BodyOK(p)'
        BY <1>1, <2>1, <3>1, <3>3, <3>7 DEF BodyOK
      <3> QED
        BY <2>2, <3>3, <3>8 DEF FunctionOK
    <2>5. CASE line.kind \in {"blank", "order"}
      <3>1. line.kind = "order" => OrderOutcome(line) = "ok"
        <4>1. OrderOutcome(line) \in Outcomes
          BY OrderRefused
        <4>2. line.kind = "order" /\ OrderOutcome(line) # "ok" => result' = OrderOutcome(line)
          BY DEF ParseOrders, Return
        <4> QED
          BY <4>1, <4>2 DEF Outcomes
      <3>2. /\ HeadOK(code', p, function, map) /\ BodyGoesOn(code, code', line, p, x)
            /\ line.kind = "order" => OrderIn(code', p, x) = NewOrder(line)
        BY <2>3, <2>5, <3>1
      <3>3. /\ reader' = "orders" /\ label_blocks' = label_blocks
            /\ orders' = IF line.kind = "order" THEN Append(orders, NewOrder(line)) ELSE orders
        BY <1>1, <2>5, <3>1 DEF ParseOrders
      <3>4. PICK P : P = BodyIn(code', p)
        OBVIOUS
      <3>5. /\ Grows(N, N, x) /\ Grows(O, P, x) /\ NamesIn(code', p) = N
            /\ line.kind = "order" => x \in DOMAIN P /\ P[x] = NewOrder(line)
            /\ line.kind # "order" => P = O
        BY <1>5, <1>6, <2>5, <3>2, <3>4 DEF BodyGoesOn
      <3>6. line.kind # "order" => x \notin DOMAIN P
        BY <3>5, RankNew DEF Grows
      <3>7. InBlock(N, P, x + 1, label_blocks, label_name,
                    IF x \in DOMAIN P THEN Append(orders, P[x]) ELSE orders)
        BY <1>8, <3>5, LineInBlock
      <3>8. orders' = IF x \in DOMAIN P THEN Append(orders, P[x]) ELSE orders
        BY <3>3, <3>5, <3>6
      <3>9. InBlock(NamesIn(code', p), BodyIn(code', p), Len(code') + 1,
                    label_blocks', label_name', orders')
        BY <1>1, <2>2, <3>3, <3>4, <3>5, <3>7, <3>8
      <3>10. BodyOK(p)'
        BY <1>1, <3>2, <3>3, <3>9 DEF BodyOK
      <3> QED
        BY <2>2, <3>3, <3>10 DEF FunctionOK
    <2>6. CASE line.kind \notin {"label", "blank", "order"}
      <3>1. result' = "nullptr"
        BY <1>11, <2>6 DEF ParseOrders, Return
      <3> QED
        BY <3>1
    <2> QED
      BY <2>4, <2>5, <2>6
  <1> QED
    BY <1>10, <1>11

\* A line between functions.
LEMMA FunctionStep ==
  ASSUME TextInv, Unwrapped', ConstOK, FunctionOK, NEW line, Moves(line), ParseFunction(line),
         result' \in {"parsing", "module"}
  PROVE  FunctionOK'
  <1>1. reader = "$function" /\ map' = map
    BY DEF ParseFunction
  <1>2. code \in Seq(AllLines) /\ Len(code) \in Nat
    <2>1. code \in Seq(AllLines)
      BY DEF TextInv
    <2> QED
      BY <2>1
  <1>3. FunctionTable(code, ended, TRUE, map) /\ (ended = {} => AllClosed(code))
    BY <1>1 DEF FunctionOK
  <1>4. ASSUME Closes(line, "$end")
        PROVE  Whole(map) /\ reader' = "top" /\ functions' = Table(map)
    <2>1. line.kind \notin {"blank", "function"}
      BY <1>4 DEF Closes
    <2>2. IF VectorOutcome(map) = "ok" THEN GoOn("top") /\ functions' = Table(map)
          ELSE Return(VectorOutcome(map)) /\ UNCHANGED functions
      BY <1>4, <2>1 DEF ParseFunction, CloseTable
    <2>3. VectorOutcome(map) = "ok"
      BY <2>2, VectorOutcomes DEF Return
    <2> QED
      BY <2>2, <2>3, VectorOutcomes, UnwrappedBefore, MapSizes DEF GoOn, Whole
  <1>5. CASE line.kind = "eof"
    <2>1. code' = code /\ ended' # {}
      BY <1>5 DEF Moves
    <2>2. Whole(map) /\ reader' = "top" /\ functions' = Table(map)
      BY <1>4, <1>5 DEF Closes
    <2>3. FunctionTable(code, ended', FALSE, Table(map))
      BY <1>3, <2>1, <2>2, TableAtEnd, TableCopied DEF FunctionTable
    <2>4. FunctionTable(code', ended', FALSE, functions')
      BY <2>1, <2>2, <2>3
    <2> QED
      BY <2>1, <2>2, <2>4 DEF FunctionOK
  <1>6. CASE line.kind # "eof"
    <2>1. /\ Longer(code, code', line) /\ ended = {} /\ ended' = {} /\ code' \in Seq(AllLines)
          /\ LineOK(line)
      BY <1>6 DEF Moves
    <2>2. FunctionTable(code, {}, TRUE, map) /\ AllClosed(code)
      BY <1>3, <2>1
    <2>3. CASE line.kind = "$end"
      <3>1. Whole(map) /\ reader' = "top" /\ functions' = Table(map)
        BY <1>4, <2>3 DEF Closes
      <3>2. FunctionTable(code', {}, FALSE, map) /\ AllClosed(code')
        BY <2>1, <2>2, <2>3, <3>1, FunctionsInside
      <3>3. FunctionTable(code', {}, FALSE, Table(map))
        BY <3>1, <3>2, TableCopied DEF FunctionTable
      <3> QED
        BY <2>1, <3>1, <3>2, <3>3 DEF FunctionOK
    <2>4. CASE line.kind = "blank"
      <3>1. reader' = "$function"
        BY <1>1, <2>4 DEF ParseFunction, Closes
      <3>2. FunctionTable(code', {}, TRUE, map) /\ AllClosed(code')
        BY <2>1, <2>2, <2>4, FunctionsInside
      <3> QED
        BY <1>1, <2>1, <3>1, <3>2 DEF FunctionOK
    <2>5. CASE line.kind = "function"
      <3>1. HeadOutcome(line) \in Outcomes
        BY <2>1, <2>5, HeadRefused
      <3>2. ~Closes(line, "$end")
        BY <2>5 DEF Closes
      <3>3. FunctionOutcome(line) = "ok" /\ HeadOutcome(line) = "ok"
        <4>1. FunctionOutcome(line) # "ok" => result' = FunctionOutcome(line)
          BY <2>5, <3>2 DEF ParseFunction, Return
        <4>2. FunctionOutcome(line) \in {HeadOutcome(line), VectorOutcome(ArgumentTypes(line))}
          BY DEF FunctionOutcome
        <4>3. FunctionOutcome(line) \notin {"parsing", "module"}
          BY <3>1, <4>2, VectorOutcomes DEF Outcomes
        <4> QED
          BY <4>1, <4>3 DEF FunctionOutcome
      <3>4. Table(ArgumentTypes(line)) = ArgumentTypes(line)
        <4>1. PICK t : t = ArgumentTypes(line)
          OBVIOUS
        <4>2. NoGap(t) /\ DOMAIN t \subseteq Indexes(line) /\ DOMAIN t \subseteq 0 .. SizeMax
          BY <2>1, <2>5, <3>3, <4>1, ArgumentIndexes, VectorOutcomes DEF FunctionOutcome
        <4>3. SizeMax \notin Indexes(line)
          BY <1>2, <2>1 DEF Unwrapped, Longer
        <4>4. Whole(t) /\ Bounded(t)
          BY <4>2, <4>3, SizeAssumption DEF Whole, Bounded
        <4>5. DOMAIN t = 0 .. Length(t) - 1
          BY <4>4, WholeDense
        <4>6. t = [i \in DOMAIN t |-> t[i]]
          BY <4>1 DEF ArgumentTypes
        <4> QED
          BY <4>1, <4>5, <4>6 DEF Table
      <3>5. /\ reader' = "labels" /\ label_blocks' = <<>>
            /\ function' = [index |-> line.index, name |-> ConstString(line.number),
                            argument_types |-> ArgumentTypes(line)]
        BY <2>5, <3>2, <3>3, <3>4 DEF ParseFunction, GoOn
      <3>6. PICK p : p = Len(code) + 1
        OBVIOUS
      <3>7. line.number \in DOMAIN const_values /\ line.index \in Nat
        BY <2>1, <2>5, <3>3, HeadNamed, SizeAssumption DEF LineOK
      <3>8. /\ ClosedIn(code', "$const", p)
            /\ DOMAIN const_values = DOMAIN ConstIn(code', p)
            /\ \A n \in DOMAIN const_values : ConstString(n) = TextIn(code', p, n)
        BY <1>1, <1>2, <2>1, <3>6, ConstHere
      <3>9. function' = [index |-> line.index, name |-> TextIn(code', p, line.number),
                         argument_types |-> ArgumentTypes(line)]
        BY <3>5, <3>7, <3>8
      <3>10. HeadOK(code', p, function', map) /\ DOMAIN NamesIn(code', p) = {}
        BY <2>1, <2>2, <2>5, <3>6, <3>7, <3>8, <3>9, HeadBegins
      <3>11. BetweenBlocks(NamesIn(code', p), BodyIn(code', p), Len(code') + 1, label_blocks')
        BY <3>5, <3>10, BodyBegins
      <3>12. p \in DOMAIN code'
        BY <1>2, <2>1, <3>6 DEF Longer
      <3>13. BodyOK(p)'
        BY <1>1, <2>1, <3>5, <3>10, <3>11 DEF BodyOK
      <3> QED
        BY <3>5, <3>12, <3>13 DEF FunctionOK
    <2>6. CASE line.kind \notin {"$end", "blank", "function"}
      <3>1. result' = "nullptr"
        BY <1>6, <2>6 DEF ParseFunction, Closes, Return
      <3> QED
        BY <3>1
    <2> QED
      BY <2>3, <2>4, <2>5, <2>6
  <1> QED
    BY <1>5, <1>6

\* Elsewhere the table of functions stays.
LEMMA FunctionsKept ==
  ASSUME FunctionOK, NEW line, Moves(line), line.kind # "$function", functions' = functions,
         reader \notin {"$function", "labels", "orders"},
         reader' \notin {"$function", "labels", "orders"}
  PROVE  FunctionOK'
  <1>1. FunctionTable(code, ended, FALSE, functions) /\ (ended = {} => AllClosed(code))
    BY DEF FunctionOK
  <1>2. CASE line.kind = "eof"
    <2>1. code' = code /\ ended' # {}
      BY <1>2 DEF Moves
    <2>2. FunctionTable(code, ended', FALSE, functions)
      BY <1>1, <2>1, TableAtEnd DEF FunctionTable
    <2>3. FunctionTable(code', ended', FALSE, functions')
      BY <2>1, <2>2
    <2> QED
      BY <2>1, <2>3 DEF FunctionOK
  <1>3. CASE line.kind # "eof"
    <2>1. Longer(code, code', line) /\ ended = {} /\ ended' = {}
      BY <1>3 DEF Moves
    <2>2. FunctionTable(code, {}, FALSE, functions) /\ AllClosed(code)
      BY <1>1, <2>1
    <2>3. FunctionTable(code', {}, FALSE, functions) /\ AllClosed(code')
      BY <2>1, <2>2, FunctionsBetween
    <2>4. FunctionTable(code', ended', FALSE, functions')
      BY <2>1, <2>3
    <2> QED
      BY <2>3, <2>4 DEF FunctionOK
  <1> QED
    BY <1>2, <1>3

\* Between sections.
LEMMA TopStep ==
  ASSUME FunctionOK, NEW line, Moves(line), Parse(line)
  PROVE  FunctionOK'
  <1>1. /\ reader = "top" /\ functions' = functions
        /\ line.kind \in Keywords => reader' = line.kind /\ map' = NoTable
        /\ line.kind \notin Keywords => reader' \in {"top", ""}
    <2>1. reader = "top" /\ functions' = functions
      BY DEF Parse
    <2>2. line.kind \in Keywords => reader' = line.kind /\ map' = NoTable
      BY DEF Parse, GoOn, Keywords
    <2>3. line.kind \notin Keywords => reader' \in {"top", ""}
      BY <2>1 DEF Parse, Return
    <2> QED
      BY <2>1, <2>2, <2>3
  <1>2. CASE line.kind = "$function"
    <2>1. reader' = "$function" /\ map' = NoTable
      BY <1>1, <1>2 DEF Keywords
    <2>2. Longer(code, code', line) /\ ended' = {}
      BY <1>2 DEF Moves
    <2>3. DOMAIN NoTable = {}
      BY DEF NoTable
    <2>4. FunctionTable(code', {}, TRUE, NoTable)
      BY <1>2, <2>2, <2>3, TableOpens DEF FunctionTable
    <2>5. FunctionsAt(code') = {}
      BY <1>2, <2>2, LineOpens DEF FunctionsAt
    <2>6. AllClosed(code')
      BY <2>5 DEF AllClosed
    <2> QED
      BY <2>1, <2>2, <2>4, <2>6 DEF FunctionOK
  <1>3. CASE line.kind # "$function"
    <2>1. reader' \notin {"$function", "labels", "orders"}
      BY <1>1, <1>3 DEF Keywords
    <2> QED
      BY <1>1, <1>3, <2>1, FunctionsKept
  <1> QED
    BY <1>2, <1>3

\* Every step keeps the functions.
LEMMA FunctionsStep ==
  ASSUME TextInv, TablesInv, FunctionInv, result = "parsing", NEW line, Moves(line), Step(line)
  PROVE  FunctionInv'
  <1> SUFFICES ASSUME result' \in {"parsing", "module"}, Unwrapped'
               PROVE  FunctionOK'
    BY DEF FunctionInv
  <1>0. Unwrapped
    BY UnwrappedBefore
  <1>1. ConstOK /\ ImportOK /\ UsedOK /\ FunctionOK
    BY <1>0 DEF TablesInv, FunctionInv
  <1>2. CASE Parse(line)
    BY <1>1, <1>2, TopStep
  <1>3. CASE ParseConst(line)
    <2>1. line.kind \notin Keywords /\ reader' \in {"$const", "top"}
      BY <1>0, <1>1, <1>3, ConstSection
    <2>2. reader = "$const" /\ functions' = functions
      BY <1>3 DEF ParseConst
    <2>3. line.kind # "$function"
      BY <2>1 DEF Keywords
    <2> QED
      BY <1>1, <2>1, <2>2, <2>3, FunctionsKept
  <1>4. CASE ParseImport(line)
    <2>1. line.kind \notin Keywords /\ reader' \in {"$import", "top"}
      BY <1>0, <1>1, <1>4, ImportSection
    <2>2. reader = "$import" /\ functions' = functions
      BY <1>4 DEF ParseImport
    <2>3. line.kind # "$function"
      BY <2>1 DEF Keywords
    <2> QED
      BY <1>1, <2>1, <2>2, <2>3, FunctionsKept
  <1>5. CASE ParseType(line)
    <2>1. line.kind \notin Keywords /\ reader' \in {"$type", "top"}
      BY <1>0, <1>1, <1>5, UsedSection
    <2>2. reader = "$type" /\ functions' = functions
      BY <1>5 DEF ParseType
    <2>3. line.kind # "$function"
      BY <2>1 DEF Keywords
    <2> QED
      BY <1>1, <2>1, <2>2, <2>3, FunctionsKept
  <1>6. CASE ParseTypeDefine(line)
    <2>1. line.kind \notin Keywords
      BY <1>6, KeywordRefused DEF ReadsElsewhere
    <2>2. reader = "$typedef" /\ functions' = functions
      BY <1>6 DEF ParseTypeDefine
    <2>3. reader' \in {"$typedef", "top", ""}
      BY <1>6 DEF ParseTypeDefine, Closes, Return, GoOn
    <2>4. reader' \notin {"$function", "labels", "orders"}
      BY <2>3
    <2>5. line.kind # "$function"
      BY <2>1 DEF Keywords
    <2> QED
      BY <1>1, <2>2, <2>4, <2>5, FunctionsKept
  <1>7. CASE ParseFunction(line)
    BY <1>1, <1>7, FunctionStep
  <1>8. CASE ParseLabelBlocks(line)
    BY <1>1, <1>8, LabelsStep
  <1>9. CASE ParseOrders(line)
    BY <1>1, <1>9, OrdersStep
  <1> QED
    BY <1>2, <1>3, <1>4, <1>5, <1>6, <1>7, <1>8, <1>9 DEF Step

\* FunctionText is FunctionIn of the text.
LEMMA FunctionIsText ==
  ASSUME code \in Seq(AllLines), NEW p \in DOMAIN code
  PROVE  FunctionText(p) = FunctionIn(code, p)
  <1>1. Len(code) \in Nat /\ p \in 1 .. Len(code)
    OBVIOUS
  <1>2. PICK x : x = StopIn(code, p)
    OBVIOUS
  <1>3. x \in p .. Len(code) + 1 /\ x \in Nat
    BY <1>1, <1>2, StopFacts
  <1>4. End(p, Brace) = x
    BY <1>2 DEF End, StopIn
  <1>5. PICK L : L = LinesIn(code, p, "label")
    OBVIOUS
  <1>6. L = {k \in p + 1 .. x - 1 : code[k].kind = "label"} /\ Labels(p) = L
    BY <1>2, <1>4, <1>5 DEF LinesIn, Labels, Between
  <1>7. Before(L, x) /\ \A l \in L : l \in Nat /\ p < l
    BY <1>1, <1>3, <1>6 DEF Before
  <1>8. PICK N : N = NamesIn(code, p)
    OBVIOUS
  <1>9. PICK O : O = BodyIn(code, p)
    OBVIOUS
  <1>10. DOMAIN N = L /\ \A l \in L : N[l] = code[l].name
    BY <1>5, <1>8 DEF NamesIn
  <1>11. PICK K : K = LinesIn(code, p, "order")
    OBVIOUS
  <1>12. K = {k \in p + 1 .. x - 1 : code[k].kind = "order"}
    BY <1>2, <1>11 DEF LinesIn
  <1>13. DOMAIN O = K /\ \A k \in K : O[k] = OrderIn(code, p, k)
    BY <1>9, <1>11 DEF BodyIn
  <1>14. \A n : TextOf(p, n) = TextIn(code, p, n)
    BY DefsText DEF TextOf, TextIn, Constants, ConstIn
  <1>15. \A k : OrderText(p, k) = OrderIn(code, p, k)
    BY <1>14 DEF OrderText, OrderIn
  <1>16. Opening(p) = OpensIn(L)
    BY <1>6 DEF Opening, OpensIn
  <1>17. ASSUME NEW l \in OpensIn(L) PROVE BlockText(p, l) = BlockIn(N, O, x, l)
    <2>1. l \in L
      BY DEF OpensIn
    <2>2. PICK to \in 1 .. x : to = NextIn(L, x, l)
      BY <1>7, <2>1, NextFacts
    <2>3. BlockEnd(p, l) = to
      BY <1>4, <1>6, <2>2 DEF BlockEnd, NextIn
    <2>4. Between(l, to, "order") = {r \in K : l < r /\ r < to}
      <3>1. /\ x \in Nat /\ to \in Nat /\ to <= x /\ l \in Nat /\ p < l
            /\ p \in Nat
        BY <1>1, <1>3, <1>7, <2>1, <2>2
      <3>2. \A k \in l + 1 .. to - 1 : k \in p + 1 .. x - 1 /\ l < k /\ k < to
        BY <3>1
      <3>3. \A k \in p + 1 .. x - 1 : l < k /\ k < to => k \in l + 1 .. to - 1
        BY <3>1
      <3> QED
        BY <1>12, <3>2, <3>3 DEF Between
    <2>5. [k \in Between(l, to, "order") |-> OrderText(p, k)]
            = [k \in {r \in DOMAIN O : l < r /\ r < to} |-> O[k]]
      BY <1>13, <1>15, <2>4
    <2>6. BlockText(p, l) = [name |-> code[l].name, orders |-> OrdersIn(O, l, to)]
      BY <2>3, <2>5 DEF BlockText, OrdersIn
    <2> QED
      BY <1>10, <2>1, <2>2, <2>6 DEF BlockIn
  <1>18. [l \in Opening(p) |-> BlockText(p, l)] = [l \in OpensIn(L) |-> BlockIn(N, O, x, l)]
    BY <1>16, <1>17
  <1>19. InOrder([l \in Opening(p) |-> BlockText(p, l)]) = BlocksIn(N, O, x)
    BY <1>10, <1>18 DEF BlocksIn
  <1> QED
    BY <1>2, <1>8, <1>9, <1>14, <1>19 DEF FunctionText, FunctionIn

\* No text, no functions.
LEMMA FunctionInit ==
  ASSUME Init
  PROVE  FunctionInv
  <1>1. code = <<>> /\ ended = {} /\ reader = "top" /\ functions = <<>>
    BY DEF Init, NoTable
  <1>2. FunctionTable(code, ended, FALSE, functions)
    <2>1. TableOK(<<>>, {}, "$function", "function", FALSE, <<>>, FunctionsIn(code))
      BY TableEmpty
    <2> QED
      BY <1>1, <2>1 DEF FunctionTable
  <1>3. AllClosed(code)
    <2>1. Len(code) = 0 /\ Len(code) \in Nat /\ Len(code) + 1 \in 1 .. Len(code) + 1
      BY <1>1
    <2>2. FunctionsAt(code) \subseteq 1 .. Len(code)
      BY <2>1, AtFacts DEF FunctionsAt
    <2>3. FunctionsAt(code) = {}
      BY <2>1, <2>2
    <2> QED
      BY <2>3 DEF AllClosed
  <1> QED
    BY <1>1, <1>2, <1>3 DEF FunctionInv, FunctionOK

\* A line or the end of the text is read.
LEMMA ReadMoves ==
  ASSUME TextInv, reader \in Readers, NEW line \in Lines[kind][reader] \cup EndOfText,
         ReadLine(line)
  PROVE  Moves(line)
  <1>1. CASE line \in Lines[kind][reader]
    <2>1. /\ LineOK(line) /\ line.kind # "eof" /\ Longer(code, code', line)
          /\ ended = {} /\ ended' = {} /\ code' \in Seq(AllLines)
      BY <1>1, LineRead
    <2> QED
      BY <2>1 DEF Moves
  <1>2. CASE line \in EndOfText
    <2>1. line.kind = "eof" /\ code' = code /\ ended' = {line}
      BY <1>2, EndRead
    <2> QED
      BY <2>1 DEF Moves
  <1> QED
    BY <1>1, <1>2

\* The functions in the map, the one that is being read and those of the
\* module are the text's in every state.
THEOREM FunctionsAreRead == Spec => []FunctionInv
  <1>1. Init => FunctionInv
    BY FunctionInit
  <1>2. ASSUME ParserInv, FunctionInv, Next PROVE FunctionInv'
    <2>1. PICK line \in Lines[kind][reader] \cup EndOfText : ReadLine(line) /\ Step(line)
      BY <1>2 DEF Next
    <2>2. TextInv /\ TablesInv /\ result = "parsing" /\ reader \in Readers
      BY <1>2, <2>1, StepReads DEF ParserInv, Next
    <2>3. Moves(line)
      BY <2>1, <2>2, ReadMoves
    <2> QED
      BY <1>2, <2>1, <2>2, <2>3, FunctionsStep
  <1>3. ASSUME FunctionInv, UNCHANGED vars PROVE FunctionInv'
    <2>1. /\ code' = code /\ ended' = ended /\ reader' = reader /\ map' = map
          /\ functions' = functions /\ function' = function /\ label_blocks' = label_blocks
          /\ label_name' = label_name /\ orders' = orders /\ result' = result
      BY <1>3 DEF vars, tables, body
    <2> QED
      BY <1>3, <2>1 DEF FunctionInv, Unwrapped, FunctionOK, BodyOK
  <1>4. ParserInv /\ FunctionInv /\ [Next]_vars => FunctionInv'
    BY <1>2, <1>3
  <1> QED
    BY <1>1, <1>4, ParserIsInvariant, PTL DEF Spec

\* parse returns the functions of its text, each with its own blocks and orders
\* in their order and the names that stood before it, also when the text ends
\* before they are closed.
THEOREM FunctionsAreTheText == Spec => []FunctionsFromText
  <1>1. ASSUME ParserInv, FunctionInv, result = "module", Unwrapped PROVE FunctionsFromText
    <2>1. code \in Seq(AllLines) /\ reader \notin {"$function", "labels", "orders"}
      BY <1>1 DEF ParserInv, TextInv
    <2>2. Len(code) \in Nat /\ DOMAIN code = 1 .. Len(code)
      BY <2>1
    <2>3. TableOK(code, ended, "$function", "function", FALSE, functions, FunctionsIn(code))
      BY <1>1, <2>1 DEF FunctionInv, FunctionOK, FunctionTable
    <2>4. PICK d : d = DefsIn(code, "$function", "function", Len(code) + 1)
      OBVIOUS
    <2>5. Finished(functions, d, FunctionsIn(code))
      BY <2>2, <2>3, <2>4, TableRead
    <2>6. \A i \in DOMAIN functions : functions[i] = FunctionText(d[i])
      <3> SUFFICES ASSUME NEW i \in DOMAIN functions PROVE functions[i] = FunctionText(d[i])
        OBVIOUS
      <3>1. d[i] \in DOMAIN FunctionsIn(code) /\ functions[i] = FunctionsIn(code)[d[i]]
        BY <2>5 DEF Finished
      <3>2. d[i] \in DOMAIN code /\ functions[i] = FunctionIn(code, d[i])
        BY <2>2, <3>1 DEF FunctionsIn
      <3>3. PICK p \in DOMAIN code : p = d[i]
        BY <3>2
      <3>4. FunctionText(p) = FunctionIn(code, p)
        BY <2>1, FunctionIsText
      <3> QED
        BY <3>2, <3>3, <3>4
    <2>7. Definitions("$function", "function", EndPosition) = d
      <3>1. PICK p : p = Len(code) + 1
        OBVIOUS
      <3> QED
        BY <2>4, <3>1, DefsText DEF EndPosition
    <2> QED
      BY <2>5, <2>6, <2>7 DEF FunctionsFromText, Agrees, Finished
  <1>2. ParserInv /\ FunctionInv => FunctionsFromText
    BY <1>1 DEF FunctionsFromText
  <1> QED
    BY <1>2, ParserIsInvariant, FunctionsAreRead, PTL

==============================================================================
