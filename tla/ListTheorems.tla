---------------------------- MODULE ListTheorems ----------------------------
(***************************************************************************)
(* Facts the proofs share.  Induction and recursion on the natural         *)
(* numbers, stated with sets and functions, so that they can be cited for  *)
(* a recursive function of the model: the function that its definition     *)
(* describes exists, hence the definition may be unfolded.  Multiples,     *)
(* quotients and remainders.  And the operators of Fifo: what adding,      *)
(* taking the first and taking out any member does to a line and to the    *)
(* linked list that represents it.                                         *)
(***************************************************************************)
EXTENDS Fifo, FiniteSets, FiniteSetTheorems, SequenceTheorems, WellFoundedInduction, TLAPS

Below == {p \in Nat \X Nat : p[1] < p[2]}

LEMMA BelowIsWellFounded == IsWellFoundedOn(Below, Nat)
<1>1. OpToRel(<, Nat) = Below
  BY Zenon DEF OpToRel, Below
<1>2. QED
  BY <1>1, NatLessThanWellFounded, Zenon

(* The least number principle, for sets of natural numbers. *)
LEMMA LeastNumber ==
  ASSUME NEW T \in SUBSET Nat, T # {}
  PROVE  \E x \in T : \A y \in T : x <= y
<1>1. PICK x \in T : \A y \in T : <<y, x>> \notin Below
  BY BelowIsWellFounded, WFMin
<1>2. ASSUME NEW y \in T
      PROVE  x <= y
  <2>1. x \in Nat /\ y \in Nat /\ <<y, x>> \notin Below
    BY <1>1
  <2>2. QED
    BY <2>1 DEF Below
<1>3. QED
  BY <1>2

(* Induction, for the set of the numbers that have the property. *)
LEMMA NaturalInduction ==
  ASSUME NEW S, 0 \in S, \A k \in Nat : k \in S => k + 1 \in S
  PROVE  Nat \subseteq S
<1>1. SUFFICES ASSUME Nat \ S # {}
               PROVE  FALSE
  OBVIOUS
<1>2. PICK x \in Nat \ S : \A y \in Nat \ S : x <= y
  BY <1>1, LeastNumber
<1>3. x # 0
  OBVIOUS
<1>4. x - 1 \in Nat /\ x - 1 \in S /\ (x - 1) + 1 = x
  BY <1>2, <1>3
<1>5. QED
  BY <1>4

-----------------------------------------------------------------------------
(* A function on Nat whose value at k is start[k], or else comes from its  *)
(* value at prev[k] by step.                                               *)
Unfolds(f, k, stop, start, prev, step) ==
  f[k] = IF k \in stop THEN start[k] ELSE step[<<k, f[prev[k]]>>]

Descent(V, stop, start, prev, step) ==
  /\ stop \subseteq Nat
  /\ start \in [Nat -> V]
  /\ prev \in [Nat -> Nat]
  /\ step \in [Nat \X V -> V]
  /\ \A k \in Nat \ stop : prev[k] < k

(* Functions that satisfy the equation below m. *)
Approx(m, V, stop, start, prev, step) ==
  {f \in [Nat -> V] : \A k \in Nat : k < m => Unfolds(f, k, stop, start, prev, step)}

LEMMA ApproxExists ==
  ASSUME NEW V, NEW stop, NEW start, NEW prev, NEW step,
         Descent(V, stop, start, prev, step)
  PROVE  \A m \in Nat : Approx(m, V, stop, start, prev, step) # {}
<1> DEFINE S == {m \in Nat : Approx(m, V, stop, start, prev, step) # {}}
<1>1. 0 \in S
  <2>1. start \in [Nat -> V] /\ \A k \in Nat : ~ (k < 0)
    BY DEF Descent
  <2>2. start \in Approx(0, V, stop, start, prev, step)
    BY <2>1 DEF Approx
  <2>3. QED
    BY <2>2
<1>2. ASSUME NEW m \in Nat, m \in S
      PROVE  m + 1 \in S
  <2>1. PICK f \in Approx(m, V, stop, start, prev, step) : TRUE
    BY <1>2
  <2>2. f \in [Nat -> V] /\ \A k \in Nat : k < m => Unfolds(f, k, stop, start, prev, step)
    BY <2>1 DEF Approx
  <2> DEFINE v == IF m \in stop THEN start[m] ELSE step[<<m, f[prev[m]]>>]
             g == [f EXCEPT ![m] = v]
  <2>3. v \in V
    <3>1. start[m] \in V /\ prev[m] \in Nat
      BY DEF Descent
    <3>2. <<m, f[prev[m]]>> \in Nat \X V
      BY <2>2, <3>1
    <3>3. step[<<m, f[prev[m]]>>] \in V
      BY <3>2 DEF Descent
    <3>4. QED
      BY <3>1, <3>3
  <2> HIDE DEF v
  <2>4. g \in [Nat -> V] /\ g[m] = v /\ \A k \in Nat : k # m => g[k] = f[k]
    BY <2>2, <2>3
  <2> HIDE DEF g
  <2>5. ASSUME NEW k \in Nat, k < m + 1
        PROVE  Unfolds(g, k, stop, start, prev, step)
    <3>1. k \notin stop => prev[k] \in Nat /\ prev[k] < k
      BY DEF Descent
    <3>2. k \notin stop => g[prev[k]] = f[prev[k]]
      BY <2>4, <2>5, <3>1
    <3>3. CASE k = m
      BY <2>4, <3>2, <3>3 DEF Unfolds, v
    <3>4. CASE k # m
      <4>1. k < m
        BY <2>5, <3>4
      <4>2. Unfolds(f, k, stop, start, prev, step) /\ g[k] = f[k]
        BY <2>2, <2>4, <4>1
      <4>3. QED
        BY <3>2, <4>2 DEF Unfolds
    <3>5. QED
      BY <3>3, <3>4
  <2>6. g \in Approx(m + 1, V, stop, start, prev, step)
    BY <2>4, <2>5 DEF Approx
  <2>7. QED
    BY <2>6
<1> HIDE DEF S
<1>3. Nat \subseteq S
  BY <1>1, <1>2, NaturalInduction
<1>4. QED
  BY <1>3 DEF S

(* Two of them agree where both satisfy it. *)
LEMMA ApproxAgrees ==
  ASSUME NEW V, NEW stop, NEW start, NEW prev, NEW step,
         Descent(V, stop, start, prev, step),
         NEW a \in Nat, NEW f \in Approx(a, V, stop, start, prev, step),
         NEW b \in Nat, NEW g \in Approx(b, V, stop, start, prev, step)
  PROVE  \A k \in Nat : k < a /\ k < b => f[k] = g[k]
<1> DEFINE T == {k \in Nat : k < a /\ k < b /\ f[k] # g[k]}
<1>1. SUFFICES ASSUME T # {}
               PROVE  FALSE
  OBVIOUS
<1>2. PICK x \in T : \A y \in T : x <= y
  BY <1>1, LeastNumber
<1>3. /\ x \in Nat /\ x < a /\ x < b
      /\ Unfolds(f, x, stop, start, prev, step) /\ Unfolds(g, x, stop, start, prev, step)
  BY DEF Approx
<1>4. x \notin stop => f[prev[x]] = g[prev[x]]
  <2>1. ASSUME x \notin stop
        PROVE  prev[x] \in Nat /\ prev[x] < x
    BY <1>3, <2>1 DEF Descent
  <2>2. QED
    BY <1>2, <1>3, <2>1
<1>5. f[x] = g[x]
  BY <1>3, <1>4 DEF Unfolds
<1>6. QED
  BY <1>5

THEOREM DescentDefines ==
  ASSUME NEW V, NEW stop, NEW start, NEW prev, NEW step,
         Descent(V, stop, start, prev, step)
  PROVE  \E f \in [Nat -> V] : \A k \in Nat : Unfolds(f, k, stop, start, prev, step)
<1> DEFINE A(m) == Approx(m, V, stop, start, prev, step)
           h(k) == CHOOSE f \in A(k + 1) : TRUE
           F == [k \in Nat |-> h(k)[k]]
<1>1. ASSUME NEW k \in Nat
      PROVE  h(k) \in A(k + 1) /\ h(k) \in [Nat -> V]
  <2>1. A(k + 1) # {}
    BY ApproxExists
  <2>2. QED
    BY <2>1 DEF Approx
<1>2. F \in [Nat -> V]
  BY <1>1
<1>3. ASSUME NEW k \in Nat
      PROVE  Unfolds(F, k, stop, start, prev, step)
  <2>1. Unfolds(h(k), k, stop, start, prev, step)
    BY <1>1 DEF Approx
  <2>2. k \notin stop => F[prev[k]] = h(k)[prev[k]]
    <3>1. SUFFICES ASSUME k \notin stop
                   PROVE  F[prev[k]] = h(k)[prev[k]]
      OBVIOUS
    <3> DEFINE q == prev[k]
    <3>2. q \in Nat /\ q < k
      BY <3>1 DEF Descent
    <3> HIDE DEF q
    <3>3. h(q) \in A(q + 1) /\ h(k) \in A(k + 1) /\ q + 1 \in Nat /\ k + 1 \in Nat
      BY <1>1, <3>2
    <3>4. q < q + 1 /\ q < k + 1
      BY <3>2
    <3> HIDE DEF h
    <3>5. h(q)[q] = h(k)[q]
      BY <3>2, <3>3, <3>4, ApproxAgrees
    <3>6. F[q] = h(q)[q]
      BY <3>2
    <3>7. QED
      BY <3>5, <3>6 DEF q
  <2>3. F[k] = h(k)[k]
    OBVIOUS
  <2> HIDE DEF F, h
  <2>4. QED
    BY <2>1, <2>2, <2>3 DEF Unfolds
<1>4. QED
  BY <1>2, <1>3

-----------------------------------------------------------------------------
(* Multiples of a positive number. *)
LEMMA Multiples ==
  ASSUME NEW b \in Nat \ {0}, NEW m \in Nat, NEW k \in Nat
  PROVE  /\ b * m \in Nat /\ b * (m + 1) = b * m + b
         /\ m < k => b * m + b <= b * k
         /\ m <= k => b * m <= b * k
<1>1. b * m \in Nat /\ b * (m + 1) = b * m + b
  OBVIOUS
<1>2. m < k => b * m + b <= b * k
  <2> SUFFICES ASSUME m < k PROVE b * (m + 1) <= b * k
    BY <1>1
  <2>1. k = (m + 1) + (k - (m + 1)) /\ k - (m + 1) \in Nat
    OBVIOUS
  <2>2. b * k = b * (m + 1) + b * (k - (m + 1))
    OBVIOUS
  <2>3. b * (k - (m + 1)) \in Nat
    BY <2>1
  <2> QED
    BY <2>2, <2>3, <1>1
<1> QED
  BY <1>1, <1>2

(* Quotient and remainder. *)
LEMMA QuotientRemainder ==
  ASSUME NEW b \in Nat \ {0}, NEW a \in Nat
  PROVE  a = b * (a \div b) + (a % b) /\ a \div b \in Nat /\ a % b \in 0..(b - 1)
  OBVIOUS

(* They are determined by that. *)
LEMMA QuotientIs ==
  ASSUME NEW b \in Nat \ {0}, NEW m \in Nat, NEW r \in 0..(b - 1)
  PROVE  (b * m + r) \div b = m /\ (b * m + r) % b = r
<1> DEFINE a == b * m + r
<1>1. a \in Nat
  BY Multiples
<1>2. a = b * (a \div b) + (a % b) /\ a \div b \in Nat /\ a % b \in 0..(b - 1)
  <2> HIDE DEF a
  <2> QED
    BY <1>1, QuotientRemainder
<1> DEFINE n == a \div b
           s == a % b
<1>3. b * n + s = b * m + r /\ n \in Nat /\ s \in 0..(b - 1)
  BY <1>2
<1> HIDE DEF n, s, a
<1>4. ~ n < m
  BY <1>3, Multiples
<1>5. ~ m < n
  BY <1>3, Multiples
<1>6. n = m
  BY <1>3, <1>4, <1>5
<1>7. s = r
  BY <1>3, <1>6
<1> QED
  BY <1>6, <1>7 DEF n, s, a

-----------------------------------------------------------------------------
(* A property that holds of the first member of a sequence and passes from *)
(* each to the next holds of all.                                          *)
LEMMA AlongSequence ==
  ASSUME NEW n \in Nat, NEW s, NEW S,
         n > 0 => s[1] \in S,
         \A i \in 1..(n - 1) : s[i] \in S => s[i + 1] \in S
  PROVE  \A i \in 1..n : s[i] \in S
<1> DEFINE X == {i \in 1..n : s[i] \notin S}
<1> SUFFICES ASSUME X # {} PROVE FALSE
  OBVIOUS
<1>1. X \in SUBSET Nat
  OBVIOUS
<1>2. PICK x \in X : \A y \in X : x <= y
  <2> HIDE DEF X
  <2> QED
    BY <1>1, LeastNumber
<1>3. x # 1
  OBVIOUS
<1>4. x - 1 \notin X
  BY <1>2
<1> QED
  BY <1>3, <1>4

(* What Append does to the members of a line. *)
LEMMA AppendFacts ==
  ASSUME NEW T, NEW s \in Seq(T), NEW t \in T
  PROVE  /\ Append(s, t) \in Seq(T)
         /\ Append(s, t) # <<>>
         /\ Len(Append(s, t)) = Len(s) + 1
         /\ \A i \in 1..Len(s) : Append(s, t)[i] = s[i]
         /\ Append(s, t)[Len(s) + 1] = t
         /\ Members(Append(s, t)) = Members(s) \cup {t}
         /\ NoRepeats(s) /\ t \notin Members(s) => NoRepeats(Append(s, t))
<1>1. /\ Append(s, t) \in Seq(T)
      /\ Append(s, t) # <<>>
      /\ Len(Append(s, t)) = Len(s) + 1
      /\ \A i \in 1..Len(s) : Append(s, t)[i] = s[i]
      /\ Append(s, t)[Len(s) + 1] = t
      /\ Len(s) \in Nat
  OBVIOUS
<1>2. Members(Append(s, t)) = Members(s) \cup {t}
  <2>1. 1..(Len(s) + 1) = 1..Len(s) \cup {Len(s) + 1}
    BY <1>1
  <2> QED
    BY <1>1, <2>1 DEF Members
<1>3. NoRepeats(s) /\ t \notin Members(s) => NoRepeats(Append(s, t))
  BY <1>1 DEF Members, NoRepeats
<1> QED
  BY <1>1, <1>2, <1>3

(* What taking out the k-th member does to a line. *)
LEMMA WithoutFacts ==
  ASSUME NEW T, NEW s \in Seq(T), NoRepeats(s), NEW k \in 1..Len(s)
  PROVE  /\ Without(s, s[k]) = Omit(s, k)
         /\ Omit(s, k) \in Seq(T)
         /\ Len(Omit(s, k)) = Len(s) - 1
         /\ \A i \in 1..(Len(s) - 1) :
              Omit(s, k)[i] = IF i < k THEN s[i] ELSE s[i + 1]
         /\ NoRepeats(Omit(s, k))
         /\ Members(Omit(s, k)) = Members(s) \ {s[k]}
<1>1. Without(s, s[k]) = Omit(s, k)
  <2>1. s[k] \in Members(s)
    BY DEF Members
  <2>2. (CHOOSE i \in 1..Len(s) : s[i] = s[k]) = k
    BY DEF NoRepeats
  <2> QED
    BY <2>1, <2>2 DEF Without
<1>2. /\ Omit(s, k) \in Seq(T)
      /\ Len(Omit(s, k)) = Len(s) - 1
      /\ \A i \in 1..(Len(s) - 1) :
           Omit(s, k)[i] = IF i < k THEN s[i] ELSE s[i + 1]
  BY DEF Omit
<1>3. NoRepeats(Omit(s, k))
  <2> DEFINE o == Omit(s, k)
             At(i) == IF i < k THEN i ELSE i + 1
  <2>1. Len(s) \in Nat /\ k \in Nat
    OBVIOUS
  <2>2. \A i \in 1..(Len(s) - 1) : At(i) \in 1..Len(s) /\ o[i] = s[At(i)]
    BY <1>2, <2>1
  <2>3. \A i, j \in 1..(Len(s) - 1) : At(i) = At(j) => i = j
    BY <2>1
  <2> HIDE DEF o, At
  <2>4. \A i, j \in 1..(Len(s) - 1) : o[i] = o[j] => i = j
    BY <2>2, <2>3 DEF NoRepeats
  <2>5. Len(o) = Len(s) - 1
    BY <1>2 DEF o
  <2>6. NoRepeats(o)
    BY <2>4, <2>5 DEF NoRepeats
  <2> QED
    BY <2>6 DEF o
<1>4. Members(Omit(s, k)) = Members(s) \ {s[k]}
  <2>1. ASSUME NEW x \in Members(Omit(s, k)) PROVE x \in Members(s) \ {s[k]}
    BY <1>2 DEF Members, NoRepeats
  <2>2. ASSUME NEW x \in Members(s) \ {s[k]} PROVE x \in Members(Omit(s, k))
    <3>1. PICK j \in 1..Len(s) : x = s[j]
      BY DEF Members
    <3>2. CASE j < k
      BY <1>2, <3>1, <3>2 DEF Members
    <3>3. CASE j > k
      <4>1. j - 1 \in 1..(Len(s) - 1) /\ Omit(s, k)[j - 1] = x
        BY <1>2, <3>1, <3>3
      <4> QED
        BY <4>1, <1>2 DEF Members
    <3> QED
      BY <3>1, <3>2, <3>3, <2>2
  <2> QED
    BY <2>1, <2>2
<1> QED
  BY <1>1, <1>2, <1>3, <1>4

(* A thread that is not in the list, linked in behind the cached tail (or  *)
(* as head of the empty list), becomes its last cell.                      *)
LEMMA EnqueueList ==
  ASSUME NEW T, NEW null, null \notin T,
         NEW s \in Seq(T), NEW hd, NEW tl,
         NEW nx \in [T -> T \cup {null}],
         IsList(s, hd, tl, nx, null),
         NEW t \in T, t \notin Members(s)
  PROVE  IsList(Append(s, t),
                IF hd = null THEN t ELSE hd,
                t,
                IF hd = null THEN [nx EXCEPT ![t] = null]
                             ELSE [nx EXCEPT ![t] = null, ![tl] = t],
                null)
<1> DEFINE a == Append(s, t)
<1>1. /\ a \in Seq(T) /\ a # <<>> /\ Len(a) = Len(s) + 1
      /\ \A i \in 1..Len(s) : a[i] = s[i]
      /\ a[Len(s) + 1] = t
      /\ NoRepeats(a)
  BY AppendFacts DEF IsList
<1>2. Len(s) \in Nat /\ \A i \in 1..Len(s) : s[i] \in T /\ s[i] # t
  BY DEF Members
<1>3. CASE s = <<>>
  <2>1. hd = null
    BY <1>3 DEF IsList
  <2>2. Len(s) = 0
    BY <1>3
  <2> DEFINE n == [nx EXCEPT ![t] = null]
  <2>3. n[t] = null
    OBVIOUS
  <2>4. a[1] = t /\ Len(a) = 1
    BY <1>1, <2>2
  <2> HIDE DEF a, n
  <2>5. IsList(a, t, t, n, null)
    BY <1>1, <2>3, <2>4 DEF IsList
  <2> QED
    BY <2>1, <2>5 DEF a, n
<1>4. CASE s # <<>>
  <2>1. /\ hd = s[1] /\ tl = s[Len(s)] /\ nx[tl] = null
        /\ \A i \in 1..(Len(s) - 1) : nx[s[i]] = s[i + 1]
        /\ NoRepeats(s)
    BY <1>4 DEF IsList
  <2>2. Len(s) > 0
    BY <1>4
  <2>3. hd # null /\ tl \in T /\ tl # t
    BY <1>2, <2>1, <2>2
  <2> DEFINE n == [nx EXCEPT ![t] = null, ![tl] = t]
  <2>4. /\ n[t] = null /\ n[tl] = t
        /\ \A u \in T : u # t /\ u # tl => n[u] = nx[u]
    BY <2>3
  <2>5. \A i \in 1..(Len(s) - 1) : s[i] # tl
    BY <2>1, <2>2 DEF NoRepeats
  <2>6. ASSUME NEW i \in 1..(Len(a) - 1) PROVE n[a[i]] = a[i + 1]
    <3>1. CASE i = Len(s)
      BY <1>1, <2>1, <2>2, <2>4, <3>1
    <3>2. CASE i # Len(s)
      <4>1. i \in 1..(Len(s) - 1) /\ a[i] = s[i] /\ a[i + 1] = s[i + 1]
        BY <1>1, <1>2, <3>2
      <4>2. n[s[i]] = nx[s[i]]
        BY <1>2, <2>4, <2>5, <4>1
      <4> QED
        BY <2>1, <4>1, <4>2
    <3> QED
      BY <3>1, <3>2
  <2>7. a[1] = hd /\ n[a[Len(a)]] = null
    BY <1>1, <2>1, <2>2, <2>4
  <2> HIDE DEF a, n
  <2>8. IsList(a, hd, t, n, null)
    BY <1>1, <2>6, <2>7 DEF IsList
  <2> QED
    BY <2>3, <2>8 DEF n, a
<1> QED
  BY <1>3, <1>4

(* Taking the head off a list leaves the list of the others, with the      *)
(* cached tail as it was.                                                  *)
LEMMA DequeueList ==
  ASSUME NEW T, NEW null, null \notin T,
         NEW s \in Seq(T), NEW hd, NEW tl,
         NEW nx \in [T -> T \cup {null}],
         IsList(s, hd, tl, nx, null),
         hd # null
  PROVE  /\ s # <<>> /\ hd = s[1] /\ hd \in T
         /\ Without(s, hd) = Omit(s, 1)
         /\ IsList(Without(s, hd), nx[hd], tl, [nx EXCEPT ![hd] = null], null)
<1>1. s # <<>> /\ hd = s[1] /\ tl = s[Len(s)] /\ nx[tl] = null /\ NoRepeats(s)
  BY DEF IsList
<1>2. Len(s) \in Nat /\ Len(s) > 0 /\ 1 \in 1..Len(s)
  BY <1>1
<1>3. hd \in T /\ \A i \in 1..Len(s) : s[i] \in T
  BY <1>1, <1>2
<1> DEFINE w == Omit(s, 1)
           n == [nx EXCEPT ![hd] = null]
<1>4. /\ Without(s, hd) = w /\ w \in Seq(T) /\ Len(w) = Len(s) - 1
      /\ \A i \in 1..(Len(s) - 1) : w[i] = s[i + 1]
      /\ NoRepeats(w)
  BY <1>1, <1>2, WithoutFacts
<1>5. \A i \in 2..Len(s) : n[s[i]] = nx[s[i]]
  BY <1>1, <1>2, <1>3 DEF NoRepeats
<1>6. \A i \in 1..(Len(w) - 1) : n[w[i]] = w[i + 1]
  BY <1>2, <1>4, <1>5 DEF IsList
<1> HIDE DEF w, n
<1>7. IsList(w, nx[hd], tl, n, null)
  <2>1. CASE Len(s) = 1
    <3>1. w = <<>> /\ nx[hd] = null
      BY <1>1, <1>4, <2>1
    <3> QED
      BY <1>4, <1>6, <3>1 DEF IsList
  <2>2. CASE Len(s) > 1
    <3>1. w # <<>> /\ w[1] = s[2] /\ w[Len(w)] = tl
      BY <1>1, <1>2, <1>4, <2>2
    <3>2. nx[hd] = s[2]
      BY <1>1, <1>2, <2>2 DEF IsList
    <3>3. n[w[Len(w)]] = null
      BY <1>1, <1>2, <1>5, <2>2, <3>1
    <3> QED
      BY <1>4, <1>6, <3>1, <3>2, <3>3 DEF IsList
  <2>3. \A m \in Nat : m > 0 => m = 1 \/ m > 1
    OBVIOUS
  <2> QED
    BY <1>2, <2>1, <2>2, <2>3
<1>8. IsList(Without(s, hd), nx[hd], tl, [nx EXCEPT ![hd] = null], null)
  BY <1>4, <1>7 DEF n
<1> QED
  BY <1>1, <1>3, <1>4, <1>8 DEF w

(* The cells reached from the head are the members of the line. *)
LEMMA ReachedIsMembers ==
  ASSUME NEW T, NEW null, null \notin T,
         NEW s \in Seq(T), NEW hd, NEW tl,
         NEW nx \in [T -> T \cup {null}],
         IsList(s, hd, tl, nx, null)
  PROVE  Reached(T, hd, nx, null) = Members(s)
<1>1. Len(s) \in Nat /\ \A i \in 1..Len(s) : s[i] \in T
  OBVIOUS
<1>2. Members(s) \in SUBSET T
  BY <1>1 DEF Members
<1>3. Closed(Members(s), hd, nx, null)
  <2>1. hd # null => hd \in Members(s)
    BY DEF IsList, Members
  <2>2. ASSUME NEW u \in Members(s), nx[u] # null PROVE nx[u] \in Members(s)
    <3>1. PICK i \in 1..Len(s) : u = s[i]
      BY DEF Members
    <3>2. i # Len(s)
      BY <2>2, <3>1 DEF IsList
    <3>3. nx[u] = s[i + 1] /\ i + 1 \in 1..Len(s)
      BY <1>1, <3>1, <3>2 DEF IsList
    <3> QED
      BY <3>3 DEF Members
  <2> QED
    BY <2>1, <2>2 DEF Closed
<1>4. ASSUME NEW S \in SUBSET T, Closed(S, hd, nx, null)
      PROVE  \A i \in 1..Len(s) : s[i] \in S
  <2>1. Len(s) > 0 => s[1] \in S
    BY <1>1, <1>4 DEF IsList, Closed
  <2>2. \A i \in 1..(Len(s) - 1) : s[i] \in S => s[i + 1] \in S
    BY <1>1, <1>4 DEF IsList, Closed
  <2> QED
    BY <1>1, <2>1, <2>2, AlongSequence
<1>5. Reached(T, hd, nx, null) \subseteq Members(s)
  BY <1>2, <1>3 DEF Reached
<1>6. Members(s) \subseteq Reached(T, hd, nx, null)
  BY <1>1, <1>4 DEF Reached, Members
<1> QED
  BY <1>5, <1>6

(* Unlinking a cell as thread_destroy does, for a cell that is not the     *)
(* last of a longer list: what is left is the list of the others.          *)
LEMMA UnlinkList ==
  ASSUME NEW T, NEW null, null \notin T,
         NEW s \in Seq(T), NEW hd, NEW tl,
         NEW nx \in [T -> T \cup {null}],
         IsList(s, hd, tl, nx, null),
         NEW t \in T,
         t = tl => hd \in {t, null}
  PROVE  IsList(Without(s, t),
                IF hd = t THEN nx[t] ELSE hd,
                tl,
                [u \in T |-> IF hd # t /\ u \in Reached(T, hd, nx, null) /\ nx[u] = t
                             THEN nx[t] ELSE nx[u]],
                null)
<1> DEFINE n == [u \in T |-> IF hd # t /\ u \in Members(s) /\ nx[u] = t
                             THEN nx[t] ELSE nx[u]]
           h == IF hd = t THEN nx[t] ELSE hd
<1>1. SUFFICES IsList(Without(s, t), h, tl, n, null)
  BY ReachedIsMembers
<1>2. Len(s) \in Nat /\ \A i \in 1..Len(s) : s[i] \in T /\ s[i] \in Members(s)
  BY DEF Members
<1>3. /\ NoRepeats(s)
      /\ s = <<>> => hd = null
      /\ s # <<>> => hd = s[1] /\ tl = s[Len(s)] /\ nx[s[Len(s)]] = null
      /\ \A i \in 1..(Len(s) - 1) : nx[s[i]] = s[i + 1]
  BY DEF IsList
<1>4. CASE t \notin Members(s)
  <2>1. Without(s, t) = s
    BY <1>4 DEF Without
  <2>2. hd # t
    BY <1>2, <1>3, <1>4
  <2>3. \A i \in 1..Len(s) : nx[s[i]] # t
    BY <1>2, <1>3, <1>4
  <2>4. \A i \in 1..Len(s) : n[s[i]] = nx[s[i]]
    BY <1>2, <2>3
  <2>5. h = hd
    BY <2>2
  <2> HIDE DEF n, h
  <2> QED
    BY <1>2, <1>3, <2>1, <2>4, <2>5 DEF IsList
<1>5. ASSUME NEW k \in 1..Len(s), t = s[k]
      PROVE  IsList(Without(s, t), h, tl, n, null)
  <2> DEFINE w == Omit(s, k)
  <2>1. /\ Without(s, t) = w /\ w \in Seq(T) /\ Len(w) = Len(s) - 1
        /\ \A i \in 1..(Len(s) - 1) : w[i] = IF i < k THEN s[i] ELSE s[i + 1]
        /\ NoRepeats(w)
    BY <1>3, <1>5, WithoutFacts
  <2>2. s # <<>> /\ Len(s) > 0
    BY <1>2
  <2>3. CASE k = 1
    <3>1. hd = t /\ h = nx[t]
      BY <1>3, <1>5, <2>2, <2>3
    <3>2. \A i \in 1..Len(s) : n[s[i]] = nx[s[i]]
      BY <1>2, <3>1
    <3>3. \A i \in 1..(Len(s) - 1) : w[i] = s[i + 1]
      BY <2>1, <2>3
    <3>4. Len(s) = 1 => w = <<>> /\ h = null
      BY <1>3, <1>5, <2>1, <2>2, <2>3, <3>1
    <3>5. Len(s) > 1 => w # <<>> /\ h = w[1] /\ tl = w[Len(w)] /\ n[w[Len(w)]] = null
      BY <1>2, <1>3, <1>5, <2>1, <2>2, <2>3, <3>1, <3>2, <3>3
    <3> HIDE DEF w, n, h
    <3>6. ASSUME NEW i \in 1..(Len(w) - 1) PROVE n[w[i]] = w[i + 1]
      <4>1. i \in 1..(Len(s) - 2) /\ i + 1 \in 1..(Len(s) - 1)
        BY <1>2, <2>1
      <4>2. w[i] = s[i + 1] /\ w[i + 1] = s[(i + 1) + 1]
        BY <1>2, <3>3, <4>1
      <4>3. n[s[i + 1]] = nx[s[i + 1]] /\ nx[s[i + 1]] = s[(i + 1) + 1]
        BY <1>2, <1>3, <3>2, <4>1
      <4> QED
        BY <4>2, <4>3
    <3> QED
      BY <1>2, <2>1, <2>2, <3>4, <3>5, <3>6 DEF IsList
  <2>4. CASE k > 1
    <3>1. hd # t /\ h = hd
      BY <1>2, <1>3, <1>5, <2>2, <2>4 DEF NoRepeats
    <3>2. hd # null
      BY <1>2, <1>3, <2>2
    <3>3. k < Len(s)
      BY <1>2, <1>3, <1>5, <2>2, <3>1, <3>2
    <3>4. n[s[k - 1]] = s[k + 1]
      BY <1>2, <1>3, <1>5, <2>4, <3>1, <3>3
    <3>5. ASSUME NEW i \in 1..Len(s), i # k - 1 PROVE n[s[i]] = nx[s[i]]
      <4>1. nx[s[i]] # t
        BY <1>2, <1>3, <1>5, <3>3, <3>5 DEF NoRepeats
      <4> QED
        BY <1>2, <4>1
    <3>6. w # <<>> /\ h = w[1] /\ tl = w[Len(w)]
      BY <1>2, <1>3, <2>1, <2>2, <2>4, <3>1, <3>3
    <3> HIDE DEF w, n, h
    <3>7. n[w[Len(w)]] = null
      <4>1. Len(s) \in 1..Len(s) /\ Len(s) # k - 1
        BY <1>2, <2>2, <3>3
      <4>2. n[s[Len(s)]] = nx[s[Len(s)]]
        BY <3>5, <4>1
      <4> QED
        BY <1>3, <2>2, <3>6, <4>2
    <3>8. ASSUME NEW i \in 1..(Len(w) - 1) PROVE n[w[i]] = w[i + 1]
      <4>0. i \in 1..(Len(s) - 2) /\ i \in Int /\ k \in Int
        BY <1>2, <2>1
      <4>1. CASE i < k - 1
        <5>1. w[i] = s[i] /\ w[i + 1] = s[i + 1]
          BY <1>2, <2>1, <4>0, <4>1
        <5>2. i \in 1..Len(s) /\ i # k - 1 /\ i \in 1..(Len(s) - 1)
          BY <1>2, <4>0, <4>1
        <5>3. n[s[i]] = nx[s[i]]
          BY <3>5, <5>2
        <5> QED
          BY <1>3, <5>1, <5>2, <5>3
      <4>2. CASE i = k - 1
        <5>1. w[i] = s[k - 1] /\ w[i + 1] = s[k + 1]
          BY <1>2, <2>1, <4>0, <4>2
        <5> QED
          BY <3>4, <5>1
      <4>3. CASE i > k - 1
        <5>1. w[i] = s[i + 1] /\ w[i + 1] = s[(i + 1) + 1]
          BY <1>2, <2>1, <4>0, <4>3
        <5>2. i + 1 \in 1..Len(s) /\ i + 1 # k - 1 /\ i + 1 \in 1..(Len(s) - 1)
          BY <1>2, <4>0, <4>3
        <5>3. n[s[i + 1]] = nx[s[i + 1]]
          BY <3>5, <5>2
        <5> QED
          BY <1>3, <5>1, <5>2, <5>3
      <4> QED
        BY <4>0, <4>1, <4>2, <4>3
    <3> QED
      BY <2>1, <3>6, <3>7, <3>8 DEF IsList
  <2> QED
    BY <1>2, <2>3, <2>4
<1> QED
  BY <1>4, <1>5 DEF Members

(* Dropping the first member is Tail. *)
LEMMA SkipFirst ==
  ASSUME NEW T, NEW s \in Seq(T), s # <<>>
  PROVE  Omit(s, 1) = Tail(s)
<1>1. Len(s) \in Nat /\ Len(s) > 0
  OBVIOUS
<1>2. /\ Tail(s) \in Seq(T) /\ Len(Tail(s)) = Len(s) - 1
      /\ \A i \in 1..(Len(s) - 1) : Tail(s)[i] = s[i + 1]
  BY <1>1
<1>3. /\ Omit(s, 1) \in Seq(T) /\ Len(Omit(s, 1)) = Len(s) - 1
      /\ \A i \in 1..(Len(s) - 1) : Omit(s, 1)[i] = s[i + 1]
  BY <1>1 DEF Omit
<1> QED
  BY <1>1, <1>2, <1>3, SeqEqual

(* The line without the member that was just added at its end. *)
LEMMA FrontOfAppend ==
  ASSUME NEW T, NEW s \in Seq(T), NEW t \in T
  PROVE  Front(Append(s, t)) = s
<1>1. Len(s) \in Nat /\ Len(Append(s, t)) = Len(s) + 1 /\ Append(s, t) \in Seq(T)
  OBVIOUS
<1>2. /\ Front(Append(s, t)) \in Seq(T) /\ Len(Front(Append(s, t))) = Len(s)
      /\ \A i \in 1..Len(s) : Front(Append(s, t))[i] = s[i]
  BY <1>1 DEF Front
<1> QED
  BY <1>1, <1>2, SeqEqual

(* Moving the first member of a line behind the others, seen from the line *)
(* that already has the newcomer at its end.                               *)
LEMMA RotateLine ==
  ASSUME NEW T, NEW s \in Seq(T), Len(s) > 1
  PROVE  /\ Front(s) \in Seq(T) /\ Front(s) # <<>>
         /\ Head(Front(s)) = s[1]
         /\ Append(Tail(Front(s)), s[Len(s)]) = Omit(s, 1)
<1>1. Len(s) \in Nat /\ \A i \in 1..Len(s) : s[i] \in T
  OBVIOUS
<1>2. /\ Front(s) \in Seq(T) /\ Len(Front(s)) = Len(s) - 1
      /\ \A i \in 1..(Len(s) - 1) : Front(s)[i] = s[i]
  BY <1>1 DEF Front
<1>3. Front(s) # <<>> /\ Head(Front(s)) = s[1]
  BY <1>1, <1>2
<1> DEFINE u == Tail(Front(s))
           a == Append(u, s[Len(s)])
<1>4. /\ u \in Seq(T) /\ Len(u) = Len(s) - 2
      /\ \A i \in 1..(Len(s) - 2) : u[i] = s[i + 1]
  BY <1>1, <1>2, <1>3
<1>5. /\ a \in Seq(T) /\ Len(a) = Len(s) - 1
      /\ \A i \in 1..(Len(s) - 1) : a[i] = s[i + 1]
  <2> HIDE DEF u
  <2>1. Len(s) \in 1..Len(s) /\ s[Len(s)] \in T
    BY <1>1
  <2>2. /\ a \in Seq(T) /\ Len(a) = Len(u) + 1
        /\ \A i \in 1..Len(u) : a[i] = u[i]
        /\ a[Len(u) + 1] = s[Len(s)]
    BY <1>4, <2>1, AppendFacts
  <2> HIDE DEF a
  <2>3. Len(u) + 1 = Len(s) - 1 /\ (Len(u) + 1) + 1 = Len(s)
    BY <1>1, <1>4
  <2>4. ASSUME NEW i \in 1..(Len(s) - 1) PROVE a[i] = s[i + 1]
    <3>1. CASE i = Len(u) + 1
      BY <2>2, <2>3, <3>1
    <3>2. CASE i # Len(u) + 1
      <4>1. i \in 1..(Len(s) - 2) /\ i \in 1..Len(u)
        BY <1>1, <1>4, <2>3, <3>2
      <4> QED
        BY <1>4, <2>2, <4>1
    <3> QED
      BY <3>1, <3>2
  <2> QED
    BY <2>2, <2>3, <2>4
<1>6. /\ Omit(s, 1) \in Seq(T) /\ Len(Omit(s, 1)) = Len(s) - 1
      /\ \A i \in 1..(Len(s) - 1) : Omit(s, 1)[i] = s[i + 1]
  BY <1>1 DEF Omit
<1>7. a = Omit(s, 1)
  <2> HIDE DEF a
  <2> QED
    BY <1>5, <1>6, SeqEqual
<1> QED
  BY <1>2, <1>3, <1>7

-----------------------------------------------------------------------------
(* Lists whose end is not known, or not where the cached tail says: from   *)
(* the head every cell is reached through one other cell at most, and the  *)
(* head through none.                                                      *)
IsPath(T, hd, nx, null) ==
  /\ \A u \in Reached(T, hd, nx, null) : nx[u] # hd
  /\ \A u, v \in Reached(T, hd, nx, null) : nx[u] = nx[v] /\ nx[u] # null => u = v

(* The cells reached are the smallest closed set. *)
LEMMA ReachedIsLeast ==
  ASSUME NEW T, NEW null, null \notin T, NEW hd \in T \cup {null},
         NEW nx \in [T -> T \cup {null}]
  PROVE  /\ Reached(T, hd, nx, null) \in SUBSET T
         /\ Closed(Reached(T, hd, nx, null), hd, nx, null)
         /\ \A S \in SUBSET T : Closed(S, hd, nx, null) => Reached(T, hd, nx, null) \subseteq S
<1>1. Reached(T, hd, nx, null) \in SUBSET T
  BY DEF Reached
<1>2. ASSUME hd # null PROVE hd \in Reached(T, hd, nx, null)
  BY <1>2 DEF Reached, Closed
<1>3. ASSUME NEW u \in Reached(T, hd, nx, null), nx[u] # null
      PROVE  nx[u] \in Reached(T, hd, nx, null)
  BY <1>3 DEF Reached, Closed
<1> QED
  BY <1>1, <1>2, <1>3 DEF Reached, Closed

(* Nothing is reached from a null head. *)
LEMMA ReachedFromNull ==
  ASSUME NEW T, NEW null, null \notin T, NEW nx \in [T -> T \cup {null}]
  PROVE  Reached(T, null, nx, null) = {} /\ IsPath(T, null, nx, null)
<1>1. Closed({}, null, nx, null)
  BY DEF Closed
<1>2. Reached(T, null, nx, null) = {}
  BY <1>1, ReachedIsLeast
<1> QED
  BY <1>2 DEF IsPath

(* Links of other cells do not matter. *)
LEMMA PathFrame ==
  ASSUME NEW T, NEW null, null \notin T, NEW hd \in T \cup {null},
         NEW nx \in [T -> T \cup {null}], NEW ny \in [T -> T \cup {null}],
         \A u \in Reached(T, hd, nx, null) : ny[u] = nx[u]
  PROVE  /\ Reached(T, hd, ny, null) = Reached(T, hd, nx, null)
         /\ IsPath(T, hd, nx, null) => IsPath(T, hd, ny, null)
<1> DEFINE R == Reached(T, hd, nx, null)
           Q == Reached(T, hd, ny, null)
<1>1. /\ R \in SUBSET T /\ Closed(R, hd, nx, null)
      /\ \A S \in SUBSET T : Closed(S, hd, nx, null) => R \subseteq S
  BY ReachedIsLeast
<1>2. /\ Q \in SUBSET T /\ Closed(Q, hd, ny, null)
      /\ \A S \in SUBSET T : Closed(S, hd, ny, null) => Q \subseteq S
  BY ReachedIsLeast
<1>3. \A u \in R : ny[u] = nx[u]
  OBVIOUS
<1> SUFFICES Q = R /\ (IsPath(T, hd, nx, null) => IsPath(T, hd, ny, null))
  OBVIOUS
<1>4. Q \subseteq R
  <2> HIDE DEF Q, R
  <2> QED
    BY <1>1, <1>2, <1>3 DEF Closed
<1>5. R \subseteq Q
  <2> HIDE DEF Q, R
  <2>1. Closed(Q, hd, nx, null)
    BY <1>2, <1>3, <1>4 DEF Closed
  <2> QED
    BY <1>1, <1>2, <2>1
<1> QED
  BY <1>3, <1>4, <1>5 DEF IsPath

(* Going on from the head: one cell less. *)
LEMMA PathTail ==
  ASSUME NEW T, NEW null, null \notin T, NEW hd \in T,
         NEW nx \in [T -> T \cup {null}], IsPath(T, hd, nx, null)
  PROVE  /\ Reached(T, nx[hd], nx, null) = Reached(T, hd, nx, null) \ {hd}
         /\ IsPath(T, nx[hd], nx, null)
<1> DEFINE R == Reached(T, hd, nx, null)
           Q == Reached(T, nx[hd], nx, null)
<1>1. /\ R \in SUBSET T /\ Closed(R, hd, nx, null)
      /\ \A S \in SUBSET T : Closed(S, hd, nx, null) => R \subseteq S
  BY ReachedIsLeast
<1>2. /\ Q \in SUBSET T /\ Closed(Q, nx[hd], nx, null)
      /\ \A S \in SUBSET T : Closed(S, nx[hd], nx, null) => Q \subseteq S
  BY ReachedIsLeast
<1>3. /\ \A u \in R : nx[u] # hd
      /\ \A u, v \in R : nx[u] = nx[v] /\ nx[u] # null => u = v
  BY DEF IsPath
<1>4. nx[hd] = null => Q = {}
  BY ReachedFromNull
<1> SUFFICES Q = R \ {hd} /\ IsPath(T, nx[hd], nx, null)
  OBVIOUS
<1>5. hd \in R
  BY <1>1 DEF Closed
<1>6. Closed(R \ {hd}, nx[hd], nx, null)
  <2> HIDE DEF Q, R
  <2> QED
    BY <1>1, <1>3, <1>5 DEF Closed
<1>7. Closed(Q \cup {hd}, hd, nx, null)
  <2> HIDE DEF Q, R
  <2> QED
    BY <1>2 DEF Closed
<1>8. Q \subseteq R \ {hd}
  <2> HIDE DEF Q, R
  <2> QED
    BY <1>1, <1>2, <1>6
<1>9. R \ {hd} \subseteq Q
  <2> HIDE DEF Q, R
  <2> QED
    BY <1>1, <1>2, <1>7
<1>10. IsPath(T, nx[hd], nx, null)
  <2>1. \A u \in Q : u \in R /\ u # hd /\ nx[hd] # null
    BY <1>4, <1>8
  <2> SUFFICES /\ \A u \in Q : nx[u] # nx[hd]
               /\ \A u, v \in Q : nx[u] = nx[v] /\ nx[u] # null => u = v
    BY DEF IsPath
  <2> HIDE DEF Q, R
  <2> QED
    BY <1>3, <1>5, <2>1
<1> QED
  BY <1>8, <1>9, <1>10

(* A new cell in front of the head. *)
LEMMA PathPush ==
  ASSUME NEW T, NEW null, null \notin T, NEW hd \in T \cup {null},
         NEW nx \in [T -> T \cup {null}], IsPath(T, hd, nx, null),
         NEW t \in T, t \notin Reached(T, hd, nx, null)
  PROVE  /\ Reached(T, t, [nx EXCEPT ![t] = hd], null) = Reached(T, hd, nx, null) \cup {t}
         /\ IsPath(T, t, [nx EXCEPT ![t] = hd], null)
<1> DEFINE ny == [nx EXCEPT ![t] = hd]
           R == Reached(T, hd, nx, null)
           Q == Reached(T, t, ny, null)
           P == Reached(T, hd, ny, null)
<1>1. ny \in [T -> T \cup {null}] /\ ny[t] = hd /\ \A u \in T \ {t} : ny[u] = nx[u]
  OBVIOUS
<1> HIDE DEF ny
<1>2. /\ R \in SUBSET T /\ Closed(R, hd, nx, null)
  BY ReachedIsLeast
<1>3. P = R /\ IsPath(T, hd, ny, null)
  <2>1. \A u \in R : ny[u] = nx[u]
    BY <1>1, <1>2
  <2> QED
    BY <1>1, <2>1, PathFrame
<1>4. /\ Q \in SUBSET T /\ Closed(Q, t, ny, null)
      /\ \A S \in SUBSET T : Closed(S, t, ny, null) => Q \subseteq S
  BY <1>1, ReachedIsLeast
<1>5. /\ P \in SUBSET T /\ Closed(P, hd, ny, null)
      /\ \A S \in SUBSET T : Closed(S, hd, ny, null) => P \subseteq S
  BY <1>1, ReachedIsLeast
<1> SUFFICES Q = R \cup {t} /\ IsPath(T, t, ny, null)
  BY DEF ny
<1>6. Closed(R \cup {t}, t, ny, null)
  <2> HIDE DEF P, Q, R
  <2> QED
    BY <1>1, <1>2, <1>3, <1>5 DEF Closed
<1>7. Closed(Q, hd, ny, null) /\ t \in Q
  <2> HIDE DEF P, Q, R
  <2> QED
    BY <1>1, <1>4 DEF Closed
<1>8. Q = R \cup {t}
  <2> HIDE DEF P, Q, R
  <2> QED
    BY <1>2, <1>3, <1>4, <1>5, <1>6, <1>7
<1>9. IsPath(T, t, ny, null)
  <2>1. /\ \A u \in R : ny[u] # hd /\ ny[u] # t
        /\ \A u, v \in R : ny[u] = ny[v] /\ ny[u] # null => u = v
    <3>1. \A u \in R : ny[u] # null => ny[u] \in R
      BY <1>3, <1>5 DEF Closed
    <3> QED
      BY <1>3, <3>1 DEF IsPath
  <2>2. hd # t
    <3>1. hd # null => hd \in R
      BY <1>2 DEF Closed
    <3> QED
      BY <3>1
  <2> SUFFICES /\ \A u \in Q : ny[u] # t
               /\ \A u, v \in Q : ny[u] = ny[v] /\ ny[u] # null => u = v
    BY DEF IsPath
  <2> HIDE DEF P, Q, R
  <2> QED
    BY <1>1, <1>8, <2>1, <2>2
<1> QED
  BY <1>8, <1>9

(* A cell linked behind any cell tl, as scheduler_post does with a cached  *)
(* tail that may be wrong: at most this cell is reached in addition.       *)
LEMMA PathLinkBehind ==
  ASSUME NEW T, NEW null, null \notin T, NEW hd \in T,
         NEW nx \in [T -> T \cup {null}], IsPath(T, hd, nx, null),
         NEW t \in T, t \notin Reached(T, hd, nx, null), NEW tl \in T
  PROVE  /\ Reached(T, hd, [nx EXCEPT ![t] = null, ![tl] = t], null)
              \subseteq Reached(T, hd, nx, null) \cup {t}
         /\ IsPath(T, hd, [nx EXCEPT ![t] = null, ![tl] = t], null)
<1> DEFINE ny == [nx EXCEPT ![t] = null, ![tl] = t]
           R == Reached(T, hd, nx, null)
           Q == Reached(T, hd, ny, null)
<1>1. /\ ny \in [T -> T \cup {null}] /\ ny[tl] = t /\ (tl # t => ny[t] = null)
      /\ \A u \in T \ {t, tl} : ny[u] = nx[u]
  OBVIOUS
<1> HIDE DEF ny
<1>2. /\ R \in SUBSET T /\ Closed(R, hd, nx, null)
  BY ReachedIsLeast
<1>3. /\ \A u \in R : nx[u] # hd
      /\ \A u, v \in R : nx[u] = nx[v] /\ nx[u] # null => u = v
  BY DEF IsPath
<1>4. /\ Q \in SUBSET T
      /\ \A S \in SUBSET T : Closed(S, hd, ny, null) => Q \subseteq S
  BY <1>1, ReachedIsLeast
<1> SUFFICES Q \subseteq R \cup {t} /\ IsPath(T, hd, ny, null)
  BY DEF ny
<1>5. CASE tl \notin R
  <2>1. \A u \in R : ny[u] = nx[u]
    BY <1>1, <1>2, <1>5
  <2> QED
    BY <1>1, <2>1, PathFrame
<1>6. CASE tl \in R
  <2>1. tl # t /\ hd # t /\ hd \in R
    BY <1>2, <1>6 DEF Closed
  <2>2. Closed(R \cup {t}, hd, ny, null)
    <3> HIDE DEF Q, R
    <3> QED
      BY <1>1, <1>2, <1>6, <2>1 DEF Closed
  <2>3. Q \subseteq R \cup {t}
    <3> HIDE DEF Q, R
    <3> QED
      BY <1>2, <1>4, <2>2
  <2>4. \A u \in R : nx[u] # t
    BY <1>2 DEF Closed
  <2>5. /\ \A u \in Q : ny[u] # hd
        /\ \A u, v \in Q : ny[u] = ny[v] /\ ny[u] # null => u = v
    <3> HIDE DEF Q, R
    <3> QED
      BY <1>1, <1>2, <1>3, <2>1, <2>3, <2>4
  <2> QED
    BY <2>3, <2>5 DEF IsPath
<1> QED
  BY <1>5, <1>6

(* Unlinking any cell, as thread_destroy does: it is reached no more, and  *)
(* nothing is that was not.                                                *)
LEMMA PathUnlink ==
  ASSUME NEW T, NEW null, null \notin T, NEW hd \in T \cup {null},
         NEW nx \in [T -> T \cup {null}], IsPath(T, hd, nx, null), NEW t \in T
  PROVE  LET h == IF hd = t THEN nx[t] ELSE hd
             ny == [u \in T |-> IF hd # t /\ u \in Reached(T, hd, nx, null) /\ nx[u] = t
                                THEN nx[t] ELSE nx[u]]
         IN  /\ Reached(T, h, ny, null) \subseteq Reached(T, hd, nx, null) \ {t}
             /\ IsPath(T, h, ny, null)
<1> DEFINE R == Reached(T, hd, nx, null)
           h == IF hd = t THEN nx[t] ELSE hd
           ny == [u \in T |-> IF hd # t /\ u \in R /\ nx[u] = t THEN nx[t] ELSE nx[u]]
           Q == Reached(T, h, ny, null)
<1>1. /\ ny \in [T -> T \cup {null}]
      /\ \A u \in T : ny[u] = IF hd # t /\ u \in R /\ nx[u] = t THEN nx[t] ELSE nx[u]
  OBVIOUS
<1>2. h \in T \cup {null} /\ (hd # t => h = hd) /\ (hd = t => h = nx[t])
  OBVIOUS
<1> SUFFICES Q \subseteq R \ {t} /\ IsPath(T, h, ny, null)
  OBVIOUS
<1> HIDE DEF ny, h
<1>3. /\ R \in SUBSET T /\ Closed(R, hd, nx, null)
      /\ \A S \in SUBSET T : Closed(S, hd, nx, null) => R \subseteq S
  BY ReachedIsLeast
<1>4. /\ \A u \in R : nx[u] # hd
      /\ \A u, v \in R : nx[u] = nx[v] /\ nx[u] # null => u = v
  BY DEF IsPath
<1>5. /\ Q \in SUBSET T
      /\ \A S \in SUBSET T : Closed(S, h, ny, null) => Q \subseteq S
  BY <1>1, <1>2, ReachedIsLeast
<1>6. CASE hd = t
  <2>1. ny = nx
    BY <1>1, <1>6
  <2>2. Reached(T, nx[hd], nx, null) = R \ {hd} /\ IsPath(T, nx[hd], nx, null)
    BY <1>6, PathTail
  <2> QED
    BY <1>2, <1>6, <2>1, <2>2
<1>7. CASE hd # t /\ t \notin R
  <2>1. \A u \in R : nx[u] # t
    BY <1>3, <1>7 DEF Closed
  <2>2. \A u \in R : ny[u] = nx[u]
    BY <1>1, <1>3, <2>1
  <2>3. Reached(T, hd, ny, null) = R /\ IsPath(T, hd, ny, null)
    BY <1>1, <2>2, PathFrame
  <2> QED
    BY <1>2, <1>7, <2>3
<1>8. CASE hd # t /\ t \in R
  <2>1. nx[t] # t
    <3> HIDE DEF Q, R
    <3>1. nx[t] = t => Closed(R \ {t}, hd, nx, null)
      BY <1>3, <1>4, <1>8 DEF Closed
    <3> QED
      BY <1>3, <1>8, <3>1
  <2>2. Closed(R \ {t}, h, ny, null)
    <3> HIDE DEF Q, R
    <3>1. h # null => h \in R \ {t}
      BY <1>2, <1>3, <1>8 DEF Closed
    <3>2. ASSUME NEW u \in R \ {t}, ny[u] # null PROVE ny[u] \in R \ {t}
      BY <1>1, <1>3, <1>8, <2>1, <3>2 DEF Closed
    <3> QED
      BY <3>1, <3>2 DEF Closed
  <2>3. Q \subseteq R \ {t}
    <3> HIDE DEF Q, R
    <3> QED
      BY <1>3, <1>5, <2>2
  <2>4. /\ \A u \in Q : ny[u] # h
        /\ \A u, v \in Q : ny[u] = ny[v] /\ ny[u] # null => u = v
    <3> HIDE DEF Q, R
    <3> QED
      BY <1>1, <1>2, <1>3, <1>4, <1>8, <2>3
  <2> QED
    BY <2>3, <2>4 DEF IsPath
<1> QED
  BY <1>6, <1>7, <1>8
=============================================================================
