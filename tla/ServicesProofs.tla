--------------------------- MODULE ServicesProofs ---------------------------
(***************************************************************************)
(* What TLAPS proves of the parts that Services puts side by side, each by  *)
(* itself and for all values of its constants: the cache, for every set of  *)
(* keys and values and every bound on the size, notification, accounts, the *)
(* library; WatcherProofs has the watcher.  The theorems speak of the       *)
(* properties of Services, which are those of the parts.                    *)
(***************************************************************************)
EXTENDS WatcherProofs

-----------------------------------------------------------------------------
(* Sums.  The folds of the community modules are recursive functions on the  *)
(* subsets of a finite set; what they add up to is proved by induction on    *)
(* the number of elements, as the absence of a smallest counterexample.      *)

\* The element a fold takes next.
Chosen(s) == CHOOSE x \in s : TRUE

\* g adds up h over the sets of D, an element at a time.
Adds(g, h, D) ==
    g = [s \in D |-> IF s = {} THEN 0 ELSE h[Chosen(s)] + g[s \ {Chosen(s)}]]

\* The function of the fold over S, and its value.
Adding(g, h, S) == IsFiniteSet(S) /\ Adds(g, h, SUBSET S)
Adder(h, S) == CHOOSE g : Adds(g, h, SUBSET S)
Total(h, S) == Adder(h, S)[S]

\* A set of numbers that is not empty has a smallest one.
LEMMA Smallest ==
    ASSUME NEW J \in SUBSET Nat, J # {}
    PROVE  \E n \in J : \A m \in J : n <= m
<1>1. PICK n \in J : \A m \in J : ~(<<m, n>> \in OpToRel(<, Nat))
  BY WFMin, NatLessThanWellFounded
<1>2. \A m \in J : ~(m < n)
  BY <1>1 DEF OpToRel
<1> QED BY <1>2

\* What is chosen is an element, and the rest is smaller by it.
LEMMA Rest ==
    ASSUME NEW s, IsFiniteSet(s), s # {}
    PROVE  /\ Chosen(s) \in s /\ IsFiniteSet(s \ {Chosen(s)})
           /\ Cardinality(s) \in Nat /\ Cardinality(s \ {Chosen(s)}) \in Nat
           /\ Cardinality(s) = Cardinality(s \ {Chosen(s)}) + 1
<1>1. Chosen(s) \in s
  BY DEF Chosen
<1>2. \A x \in s : /\ IsFiniteSet(s \ {x})
                   /\ Cardinality(s \ {x}) = Cardinality(s) - 1
  BY FS_RemoveElement
<1>3. IsFiniteSet(s \ {Chosen(s)}) /\ Cardinality(s \ {Chosen(s)}) = Cardinality(s) - 1
  BY <1>1, <1>2
<1>4. Cardinality(s) \in Nat /\ Cardinality(s \ {Chosen(s)}) \in Nat
  BY <1>3, FS_CardinalityType
<1> QED BY <1>1, <1>3, <1>4

\* The recursion of the fold defines a function.
LEMMA AdderExists ==
    ASSUME NEW S, IsFiniteSet(S), NEW h, \A x \in S : h[x] \in Nat
    PROVE  \E g \in [SUBSET S -> Nat] : Adds(g, h, SUBSET S)
<1> DEFINE Small(n) == {s \in SUBSET S : Cardinality(s) <= n}
           Good(n) == \E g \in [Small(n) -> Nat] : Adds(g, h, Small(n))
           Bad == {n \in Nat : ~Good(n)}
<1>1. \A s \in SUBSET S : IsFiniteSet(s) /\ Cardinality(s) \in Nat
  BY FS_Subset, FS_CardinalityType
<1>2. Good(0)
  <2>1. \A s \in Small(0) : s = {}
    BY <1>1, FS_EmptySet
  <2> DEFINE g == [s \in Small(0) |-> 0]
  <2>2. Adds(g, h, Small(0)) /\ g \in [Small(0) -> Nat]
    BY <2>1 DEF Adds
  <2> QED BY <2>2
<1>3. ASSUME NEW n \in Nat, Good(n) PROVE Good(n + 1)
  <2>1. PICK g \in [Small(n) -> Nat] : Adds(g, h, Small(n))
    BY <1>3
  <2> DEFINE f == [s \in Small(n + 1) |-> IF s = {} THEN 0 ELSE h[Chosen(s)] + g[s \ {Chosen(s)}]]
  <2>2. ASSUME NEW s \in Small(n + 1), s # {}
        PROVE  Chosen(s) \in S /\ s \ {Chosen(s)} \in Small(n) /\ s \ {Chosen(s)} \in Small(n + 1)
    BY <1>1, <2>2, Rest
  <2>3. \A s \in Small(n) : g[s] = IF s = {} THEN 0 ELSE h[Chosen(s)] + g[s \ {Chosen(s)}]
    BY <2>1 DEF Adds
  <2>4. \A s \in Small(n) : s \in Small(n + 1)
    BY <1>1
  <2> HIDE DEF Small
  <2>5. \A s \in Small(n) : f[s] = g[s]
    BY <2>3, <2>4
  <2>6. f \in [Small(n + 1) -> Nat]
    BY <2>1, <2>2
  <2>7. Adds(f, h, Small(n + 1))
    <3>1. \A s \in Small(n + 1) : s # {} => f[s \ {Chosen(s)}] = g[s \ {Chosen(s)}]
      BY <2>2, <2>5
    <3> QED BY <3>1 DEF Adds
  <2> QED BY <2>6, <2>7
<1>4. Bad = {}
  <2> HIDE DEF Good
  <2> SUFFICES ASSUME Bad # {} PROVE FALSE
    OBVIOUS
  <2>1. PICK n \in Bad : \A m \in Bad : n <= m
    BY Smallest
  <2>2. n # 0 /\ n - 1 \in Nat /\ n - 1 \notin Bad
    BY <1>2, <2>1
  <2> QED BY <1>3, <2>1, <2>2
<1>5. Good(Cardinality(S)) /\ Small(Cardinality(S)) = SUBSET S
  BY <1>1, <1>4, FS_Subset, FS_CardinalityType
<1> QED BY <1>5

\* Where two such functions are both defined they agree.
LEMMA AddersAgree ==
    ASSUME NEW f, NEW h, NEW S, Adding(f, h, S), NEW g, NEW k, NEW T, Adding(g, k, T),
           T \subseteq S, \A x \in T : h[x] = k[x]
    PROVE  \A s \in SUBSET T : f[s] = g[s]
<1> IsFiniteSet(S) /\ Adds(f, h, SUBSET S) /\ Adds(g, k, SUBSET T)
  BY DEF Adding
<1> DEFINE Bad == {n \in Nat : \E s \in SUBSET T : Cardinality(s) = n /\ f[s] # g[s]}
<1>1. \A s \in SUBSET T : IsFiniteSet(s) /\ Cardinality(s) \in Nat
  BY FS_Subset, FS_CardinalityType
<1>2. ASSUME Bad # {} PROVE FALSE
  <2>1. PICK n \in Bad : \A m \in Bad : n <= m
    BY <1>2, Smallest
  <2>2. PICK s \in SUBSET T : Cardinality(s) = n /\ f[s] # g[s]
    OBVIOUS
  <2>3. s # {}
    <3>1. {} \in SUBSET S /\ {} \in SUBSET T
      OBVIOUS
    <3>2. f[{}] = 0 /\ g[{}] = 0
      BY <3>1 DEF Adds
    <3> QED BY <2>2, <3>2
  <2> DEFINE t == s \ {Chosen(s)}
  <2>4. Chosen(s) \in s /\ t \in SUBSET T /\ Cardinality(t) \in Nat /\ n = Cardinality(t) + 1
    BY <1>1, <2>2, <2>3, Rest
  <2>5. f[t] = g[t]
    <3> HIDE DEF t
    <3> QED BY <2>1, <2>4
  <2>6. f[s] = h[Chosen(s)] + f[t]
    <3>1. s \in SUBSET S
      OBVIOUS
    <3> QED BY <2>3, <3>1 DEF Adds
  <2>7. g[s] = k[Chosen(s)] + g[t]
    BY <2>3 DEF Adds
  <2> QED BY <2>2, <2>4, <2>5, <2>6, <2>7
<1> QED BY <1>1, <1>2

\* What the fold yields does not depend on the order.
LEMMA AdderAdds ==
    ASSUME NEW S, IsFiniteSet(S), NEW h, \A x \in S : h[x] \in Nat
    PROVE  Adds(Adder(h, S), h, SUBSET S) /\ Total(h, S) \in Nat
<1>1. PICK g \in [SUBSET S -> Nat] : Adds(g, h, SUBSET S)
  BY AdderExists
<1>2. Adds(Adder(h, S), h, SUBSET S)
  BY <1>1 DEF Adder
<1>3. \A s \in SUBSET S : Adder(h, S)[s] = g[s]
  <2> DEFINE f == Adder(h, S)
  <2>1. Adding(f, h, S) /\ Adding(g, h, S)
    BY <1>1, <1>2 DEF Adding
  <2>2. S \subseteq S /\ \A x \in S : h[x] = h[x]
    OBVIOUS
  <2> HIDE DEF f
  <2>3. \A s \in SUBSET S : f[s] = g[s]
    BY <2>1, <2>2, AddersAgree
  <2> QED BY <2>3 DEF f
<1>4. Total(h, S) = g[S] /\ g[S] \in Nat
  BY <1>1, <1>3 DEF Total
<1> QED BY <1>2, <1>4

\* Nothing adds up to zero.
LEMMA TotalEmpty == ASSUME NEW h PROVE Total(h, {}) = 0
<1>1. IsFiniteSet({}) /\ \A x \in {} : h[x] \in Nat
  BY FS_EmptySet
<1>2. Adds(Adder(h, {}), h, SUBSET {})
  BY <1>1, AdderAdds
<1>3. {} \in SUBSET {}
  OBVIOUS
<1> QED BY <1>2, <1>3 DEF Adds, Total

\* The total depends on the numbers of the elements alone.
LEMMA TotalSame ==
    ASSUME NEW S, IsFiniteSet(S), NEW h, \A x \in S : h[x] \in Nat,
           NEW k, \A x \in S : k[x] = h[x]
    PROVE  Total(k, S) = Total(h, S)
<1>1. Adds(Adder(h, S), h, SUBSET S) /\ Adds(Adder(k, S), k, SUBSET S)
  BY AdderAdds
<1>2. S \in SUBSET S
  OBVIOUS
<1> DEFINE f == Adder(h, S)
           g == Adder(k, S)
<1>3. Adding(f, h, S) /\ Adding(g, k, S)
  BY <1>1 DEF Adding
<1> HIDE DEF f, g
<1>4. \A s \in SUBSET S : f[s] = g[s]
  <2>1. S \subseteq S /\ \A x \in S : h[x] = k[x]
    OBVIOUS
  <2> QED BY <1>3, <2>1, AddersAgree
<1>5. f[S] = g[S]
  BY <1>2, <1>4
<1> QED BY <1>5 DEF Total, f, g

\* The total is the element chosen first and the total of the rest.
LEMMA TotalFirst ==
    ASSUME NEW S, IsFiniteSet(S), S # {}, NEW h, \A x \in S : h[x] \in Nat
    PROVE  Total(h, S) = h[Chosen(S)] + Total(h, S \ {Chosen(S)})
<1> DEFINE T == S \ {Chosen(S)}
<1>1. T \in SUBSET S /\ IsFiniteSet(T) /\ (\A x \in T : h[x] \in Nat) /\ T \in SUBSET T /\ S \in SUBSET S
  BY Rest
<1> HIDE DEF T
<1>2. Adds(Adder(h, S), h, SUBSET S) /\ Adds(Adder(h, T), h, SUBSET T)
  BY <1>1, AdderAdds
<1>3. Adder(h, S)[T] = Adder(h, T)[T]
  <2> DEFINE f == Adder(h, S)
             g == Adder(h, T)
  <2>1. Adding(f, h, S) /\ Adding(g, h, T) /\ T \subseteq S /\ \A x \in T : h[x] = h[x]
    BY <1>1, <1>2 DEF Adding
  <2> HIDE DEF f, g
  <2>2. \A s \in SUBSET T : f[s] = g[s]
    BY <2>1, AddersAgree
  <2>3. f[T] = g[T]
    BY <1>1, <2>2
  <2> QED BY <2>3 DEF f, g
<1>4. Adder(h, S)[S] = h[Chosen(S)] + Adder(h, S)[T]
  BY <1>1, <1>2 DEF Adds, T
<1> QED BY <1>3, <1>4 DEF Total, T

\* Any element may be the one taken out.
LEMMA TotalRemove ==
    ASSUME NEW S, IsFiniteSet(S), NEW h, \A x \in S : h[x] \in Nat, NEW x \in S
    PROVE  Total(h, S) = h[x] + Total(h, S \ {x})
<1> DEFINE Right(s) == \A y \in s : Total(h, s) = h[y] + Total(h, s \ {y})
           Bad == {n \in Nat : \E s \in SUBSET S : Cardinality(s) = n /\ ~Right(s)}
<1>1. \A s \in SUBSET S : IsFiniteSet(s) /\ Cardinality(s) \in Nat /\ \A y \in s : h[y] \in Nat
  BY FS_Subset, FS_CardinalityType
<1>2. ASSUME Bad # {} PROVE FALSE
  <2>1. PICK n \in Bad : \A m \in Bad : n <= m
    BY <1>2, Smallest
  <2>2. PICK s \in SUBSET S : Cardinality(s) = n /\ ~Right(s)
    OBVIOUS
  <2>3. \A t \in SUBSET S : Cardinality(t) < Cardinality(s) => Right(t)
    <3> HIDE DEF Right
    <3> QED BY <1>1, <2>1, <2>2
  <2>4. PICK y \in s : Total(h, s) # h[y] + Total(h, s \ {y})
    BY <2>2
  <2> DEFINE c == Chosen(s)
  <2>5. c \in s /\ Total(h, s) = h[c] + Total(h, s \ {c})
    BY <1>1, <2>4, TotalFirst, Rest
  <2> HIDE DEF c
  <2>6. c # y
    BY <2>4, <2>5
  <2>7. Cardinality(s \ {c}) < Cardinality(s) /\ Cardinality(s \ {y}) < Cardinality(s)
    <3>1. IsFiniteSet(s) /\ Cardinality(s) \in Nat
      BY <1>1
    <3>2. \A w \in s : Cardinality(s \ {w}) = Cardinality(s) - 1
      BY <3>1, FS_RemoveElement
    <3> QED BY <2>4, <2>5, <3>1, <3>2
  <2>8. Total(h, s \ {c}) = h[y] + Total(h, (s \ {c}) \ {y})
    BY <2>3, <2>4, <2>6, <2>7
  <2>9. Total(h, s \ {y}) = h[c] + Total(h, (s \ {y}) \ {c})
    BY <2>3, <2>5, <2>6, <2>7
  <2>10. (s \ {c}) \ {y} = (s \ {y}) \ {c} /\ h[c] \in Nat /\ h[y] \in Nat
    BY <1>1, <2>4, <2>5
  <2>11. Total(h, (s \ {c}) \ {y}) \in Nat
    <3> DEFINE w == (s \ {c}) \ {y}
    <3>1. IsFiniteSet(w) /\ \A z \in w : h[z] \in Nat
      <4>1. w \in SUBSET S
        OBVIOUS
      <4> QED BY <1>1, <4>1
    <3> HIDE DEF w
    <3>2. Total(h, w) \in Nat
      BY <3>1, AdderAdds
    <3> QED BY <3>2 DEF w
  <2> DEFINE p == Total(h, (s \ {c}) \ {y})
  <2>12. /\ Total(h, s \ {c}) = h[y] + p /\ Total(h, s \ {y}) = h[c] + p
         /\ p \in Nat /\ h[c] \in Nat /\ h[y] \in Nat
    BY <2>8, <2>9, <2>10, <2>11
  <2> HIDE DEF p
  <2> QED BY <2>4, <2>5, <2>12
<1>3. Right(S)
  <2>1. S \in SUBSET S
    OBVIOUS
  <2> QED BY <1>1, <1>2, <2>1
<1> QED BY <1>3

\* What is taken out has its total, what stays the rest.
LEMMA TotalSplit ==
    ASSUME NEW S, IsFiniteSet(S), NEW h, \A x \in S : h[x] \in Nat, NEW T \in SUBSET S
    PROVE  Total(h, S) = Total(h, T) + Total(h, S \ T)
<1> DEFINE Right(t) == Total(h, S) = Total(h, t) + Total(h, S \ t)
           Bad == {n \in Nat : \E t \in SUBSET S : Cardinality(t) = n /\ ~Right(t)}
<1>1. \A s \in SUBSET S : IsFiniteSet(s) /\ Cardinality(s) \in Nat /\ \A y \in s : h[y] \in Nat
  BY FS_Subset, FS_CardinalityType
<1>2. \A s \in SUBSET S : Total(h, s) \in Nat
  BY <1>1, AdderAdds
<1>3. ASSUME Bad # {} PROVE FALSE
  <2>1. PICK n \in Bad : \A m \in Bad : n <= m
    BY <1>3, Smallest
  <2>2. PICK t \in SUBSET S : Cardinality(t) = n /\ ~Right(t)
    OBVIOUS
  <2>3. CASE t = {}
    <3>1. Total(h, t) = 0 /\ S \ t = S /\ Total(h, S) \in Nat
      BY <2>3, <1>2, TotalEmpty
    <3> QED BY <2>2, <3>1
  <2>4. ASSUME NEW x \in t PROVE FALSE
    <3> DEFINE u == t \ {x}
               v == S \ t
    <3>1. u \in SUBSET S /\ v \in SUBSET S /\ v \cup {x} = S \ u /\ (S \ u) \ {x} = v /\ x \in S \ u
      BY <2>4
    <3>2. IsFiniteSet(t) /\ Cardinality(u) = Cardinality(t) - 1
      BY <1>1, <2>2, <2>4, FS_RemoveElement
    <3>3. Cardinality(u) \in Nat /\ Cardinality(u) < n
      BY <1>1, <2>2, <3>1, <3>2
    <3>4. Right(u)
      <4> HIDE DEF Right, u
      <4> QED BY <2>1, <3>1, <3>3
    <3>5. Total(h, t) = h[x] + Total(h, u)
      BY <1>1, <2>2, <2>4, TotalRemove
    <3>6. Total(h, S \ u) = h[x] + Total(h, (S \ u) \ {x})
      <4> DEFINE w == S \ u
      <4>1. x \in w /\ IsFiniteSet(w) /\ \A y \in w : h[y] \in Nat
        BY <1>1, <3>1
      <4> HIDE DEF w
      <4>2. Total(h, w) = h[x] + Total(h, w \ {x})
        BY <4>1, TotalRemove
      <4> QED BY <4>2 DEF w
    <3>7. h[x] \in Nat /\ Total(h, u) \in Nat /\ Total(h, v) \in Nat
      BY <1>1, <1>2, <2>4, <3>1
    <3>8. Total(h, (S \ u) \ {x}) = Total(h, v)
      BY <3>1
    <3> QED BY <2>2, <3>4, <3>5, <3>6, <3>7, <3>8
  <2> QED BY <2>3, <2>4
<1> QED BY <1>1, <1>3

-----------------------------------------------------------------------------
(* EndpointCache: its list. *)

\* Taking keys out of the list takes them, and nothing else, out of it.
LEMMA WithoutKeeps ==
    ASSUME lru \in Seq(Key), NEW S
    PROVE  /\ Without(S) \in Seq(Key) /\ ToSet(Without(S)) = ToSet(lru) \ S
           /\ IsInjective(lru) => IsInjective(Without(S))
<1> DEFINE kept == {i \in DOMAIN lru : lru[i] \notin S}
           w == Without(S)
<1>1. kept \in SUBSET DOMAIN lru /\ w = Picked(lru, kept)
  BY DEF Without
<1>2. \A i \in DOMAIN lru : i \in kept <=> lru[i] \notin S
  OBVIOUS
<1> HIDE DEF kept, w
<1>3. w \in Seq(Key) /\ \A i \in kept : \E k \in DOMAIN w : w[k] = lru[i]
  BY <1>1, PickedFrom
<1>4. PICK from \in [DOMAIN w -> kept] :
        /\ \A k \in DOMAIN w : w[k] = lru[from[k]]
        /\ \A k, l \in DOMAIN w : k < l => from[k] < from[l]
  BY <1>1, PickedFrom
<1>5. ToSet(w) = ToSet(lru) \ S
  <2>1. ASSUME NEW x \in ToSet(w) PROVE x \in ToSet(lru) \ S
    BY <1>1, <1>2, <1>4 DEF ToSet
  <2>2. ASSUME NEW x \in ToSet(lru), x \notin S PROVE x \in ToSet(w)
    <3>1. PICK i \in DOMAIN lru : lru[i] = x
      BY DEF ToSet
    <3> QED BY <2>2, <3>1, <1>2, <1>3 DEF ToSet
  <2> QED BY <2>1, <2>2
<1>6. ASSUME IsInjective(lru) PROVE IsInjective(w)
  <2>1. DOMAIN w = 1..Len(w) /\ DOMAIN lru = 1..Len(lru) /\ Len(w) \in Nat /\ Len(lru) \in Nat
    BY <1>3
  <2>2. ASSUME NEW a \in DOMAIN w, NEW b \in DOMAIN w, a < b PROVE w[a] # w[b]
    <3>1. from[a] \in DOMAIN lru /\ from[b] \in DOMAIN lru /\ from[a] < from[b]
      BY <2>2, <1>1, <1>4
    <3>2. from[a] # from[b]
      BY <2>1, <3>1
    <3> QED BY <3>1, <3>2, <2>2, <1>4, <1>6 DEF IsInjective
  <2>3. \A a, b \in DOMAIN w : w[a] = w[b] => a = b
    BY <2>1, <2>2
  <2> QED BY <2>3 DEF IsInjective
<1> QED BY <1>3, <1>5, <1>6 DEF w

\* A key that was not in the list goes to its front.
LEMMA InFront ==
    ASSUME NEW s \in Seq(Key), NEW k \in Key, k \notin ToSet(s), IsInjective(s)
    PROVE  /\ <<k>> \o s \in Seq(Key) /\ ToSet(<<k>> \o s) = ToSet(s) \cup {k}
           /\ IsInjective(<<k>> \o s)
<1> DEFINE t == <<k>> \o s
<1>1. /\ t \in Seq(Key) /\ Len(t) = Len(s) + 1 /\ t[1] = k
      /\ \A i \in 2..Len(t) : t[i] = s[i - 1]
      /\ Len(t) \in Nat
  OBVIOUS
<1>2. DOMAIN t = 1..Len(t) /\ DOMAIN s = 1..Len(s) /\ Len(s) \in Nat
  BY <1>1
<1> HIDE DEF t
<1>3. \A i \in DOMAIN s : i + 1 \in 2..Len(t) /\ t[i + 1] = s[i]
  BY <1>1, <1>2
<1>4. \A i \in DOMAIN t : i = 1 \/ (i \in 2..Len(t) /\ i - 1 \in DOMAIN s)
  BY <1>1, <1>2
<1>5. ToSet(t) = ToSet(s) \cup {k}
  <2>1. ASSUME NEW x \in ToSet(t) PROVE x \in ToSet(s) \cup {k}
    BY <1>1, <1>4, <2>1 DEF ToSet
  <2>2. ASSUME NEW x \in ToSet(s) PROVE x \in ToSet(t)
    BY <1>1, <1>2, <1>3, <2>2 DEF ToSet
  <2>3. k \in ToSet(t)
    BY <1>1, <1>2 DEF ToSet
  <2> QED BY <2>1, <2>2, <2>3
<1>6. IsInjective(t)
  <2> SUFFICES ASSUME NEW a \in DOMAIN t, NEW b \in DOMAIN t, t[a] = t[b] PROVE a = b
    BY DEF IsInjective
  <2>1. \A i \in 2..Len(t) : t[i] # k
    BY <1>1, <1>2, <1>4 DEF ToSet
  <2>2. CASE a = 1 \/ b = 1
    BY <1>1, <1>4, <2>1, <2>2
  <2>3. CASE a # 1 /\ b # 1
    <3>1. a - 1 \in DOMAIN s /\ b - 1 \in DOMAIN s /\ s[a - 1] = s[b - 1]
      BY <1>1, <1>4, <2>3
    <3> QED BY <1>2, <3>1 DEF IsInjective
  <2> QED BY <2>2, <2>3
<1> QED BY <1>1, <1>5, <1>6 DEF t

-----------------------------------------------------------------------------
(* EndpointCache: its size. *)

\* The size of the entries of S in a map v, as SizeOf folds it, and the sizes
\* that it adds up.
SizeBy(v, S) == MapThenSumSet(LAMBDA k : EntrySize(k, v[k]), S)
Sizes(v) == [k \in Key |-> EntrySize(k, v[k])]

\* An entry has a size.
LEMMA SizesFit ==
    ASSUME NEW v, NEW k \in Key, v[k] \in Value
    PROVE  EntrySize(k, v[k]) \in Nat /\ Sizes(v)[k] = EntrySize(k, v[k])
BY LengthAssumption DEF EntrySize, Sizes

\* The fold adds up the sizes.
LEMMA SizeIsTotal ==
    ASSUME NEW v, NEW S \in SUBSET Key, IsFiniteSet(S), \A k \in S : v[k] \in Value
    PROVE  SizeBy(v, S) = Total(Sizes(v), S)
<1> DEFINE Iter(g) == g = [s \in SUBSET S |-> IF s = {} THEN 0
                             ELSE EntrySize(Chosen(s), v[Chosen(s)]) + g[s \ {Chosen(s)}]]
           iter == CHOOSE g : Iter(g)
           h == Sizes(v)
<1>1. SizeBy(v, S) = iter[S]
  BY DEF SizeBy, MapThenSumSet, MapThenFoldSet, Chosen
<1>2. \A x \in S : h[x] \in Nat /\ h[x] = EntrySize(x, v[x])
  BY SizesFit
<1>3. Adds(Adder(h, S), h, SUBSET S)
  <2> HIDE DEF h
  <2> QED BY <1>2, AdderAdds
<1>4. \A s \in SUBSET S : s # {} => Chosen(s) \in S
  BY DEF Chosen
<1>5. \A g : Iter(g) <=> Adds(g, h, SUBSET S)
  <2> SUFFICES ASSUME NEW g PROVE Iter(g) <=> Adds(g, h, SUBSET S)
    OBVIOUS
  <2> DEFINE f1(s) == IF s = {} THEN 0 ELSE EntrySize(Chosen(s), v[Chosen(s)]) + g[s \ {Chosen(s)}]
             f2(s) == IF s = {} THEN 0 ELSE h[Chosen(s)] + g[s \ {Chosen(s)}]
  <2>1. \A s \in SUBSET S : f1(s) = f2(s)
    BY <1>2, <1>4
  <2>2. (Iter(g) <=> g = [s \in SUBSET S |-> f1(s)]) /\ (Adds(g, h, SUBSET S) <=> g = [s \in SUBSET S |-> f2(s)])
    BY DEF Adds
  <2> HIDE DEF f1, f2, Iter
  <2>3. [s \in SUBSET S |-> f1(s)] = [s \in SUBSET S |-> f2(s)]
    BY <2>1
  <2> QED BY <2>2, <2>3
<1>6. Iter(iter)
  <2> HIDE DEF Iter
  <2>1. Iter(Adder(h, S))
    BY <1>3, <1>5
  <2> QED BY <2>1
<1> DEFINE a == Adder(h, S)
<1>7. Adding(iter, h, S) /\ Adding(a, h, S)
  <2> HIDE DEF iter, Iter
  <2> QED BY <1>3, <1>5, <1>6 DEF Adding
<1>8. \A s \in SUBSET S : iter[s] = a[s]
  <2>1. S \subseteq S /\ \A x \in S : h[x] = h[x]
    OBVIOUS
  <2> HIDE DEF iter, a, h
  <2> QED BY <1>7, <2>1, AddersAgree
<1> QED BY <1>1, <1>8 DEF Total

-----------------------------------------------------------------------------
(* EndpointCache: list, map and size. *)

\* What Consistent needs to be inductive: the types, that the map is finite,
\* and that what is being set fits at all.
CacheInv ==
    /\ TypeOK /\ Consistent /\ IsFiniteSet(Cached)
    /\ setting # None => EntrySize(setting.key, setting.value) <= MaxSize

\* What CacheInv says of list, map and size.
Fitting ==
    /\ value \in [Key -> {None} \cup Value] /\ lru \in Seq(Key) /\ currentSize \in Nat
    /\ IsInjective(lru) /\ ToSet(lru) = Cached /\ IsFiniteSet(Cached)
    /\ currentSize = SizeOf(Cached) /\ currentSize <= MaxSize

\* A set of cached keys has a size, which is part of that of all of them.
LEMMA PartSize ==
    ASSUME NEW v \in [Key -> {None} \cup Value], NEW U, U = {k \in Key : v[k] # None},
           IsFiniteSet(U), NEW S \in SUBSET U
    PROVE  /\ SizeBy(v, S) \in Nat /\ SizeBy(v, U \ S) \in Nat
           /\ SizeBy(v, U) = SizeBy(v, S) + SizeBy(v, U \ S)
<1> DEFINE h == Sizes(v)
           T == U \ S
<1>1. S \in SUBSET U /\ T \in SUBSET U /\ U \in SUBSET U /\ \A s \in SUBSET U : IsFiniteSet(s)
  BY FS_Subset
<1>2. \A x \in U : x \in Key /\ v[x] \in Value /\ h[x] \in Nat
  BY SizesFit
<1> HIDE DEF h, T
<1>3. \A s \in SUBSET U : SizeBy(v, s) = Total(h, s) /\ Total(h, s) \in Nat
  <2> SUFFICES ASSUME NEW s \in SUBSET U PROVE SizeBy(v, s) = Total(h, s) /\ Total(h, s) \in Nat
    OBVIOUS
  <2>1. IsFiniteSet(s) /\ s \in SUBSET Key /\ (\A x \in s : h[x] \in Nat) /\ \A x \in s : v[x] \in Value
    BY <1>1, <1>2
  <2>2. Total(h, s) \in Nat
    BY <2>1, AdderAdds
  <2>3. SizeBy(v, s) = Total(h, s)
    BY <2>1, SizeIsTotal DEF h
  <2> QED BY <2>2, <2>3
<1>4. Total(h, U) = Total(h, S) + Total(h, U \ S)
  BY <1>1, <1>2, TotalSplit
<1> QED BY <1>1, <1>3, <1>4 DEF T

\* Entries that leave the map leave the list, and their size the sum.
LEMMA DropFits ==
    ASSUME Fitting, NEW S \in SUBSET Cached, Drop(S)
    PROVE  Fitting' /\ Cached' = Cached \ S
<1>1. value' = [k \in Key |-> IF k \in S THEN None ELSE value[k]]
  BY DEF Drop
<1>2. value' \in [Key -> {None} \cup Value] /\ Cached' = Cached \ S
  BY <1>1 DEF Fitting, Cached
<1>3. lru' = Without(S) /\ lru \in Seq(Key)
  BY DEF Drop, Fitting
<1>4. lru' \in Seq(Key) /\ ToSet(lru') = Cached' /\ IsInjective(lru')
  <2>1. Without(S) \in Seq(Key) /\ ToSet(Without(S)) = ToSet(lru) \ S
        /\ (IsInjective(lru) => IsInjective(Without(S)))
    BY <1>3, WithoutKeeps
  <2> QED BY <1>2, <1>3, <2>1 DEF Fitting
<1>5. IsFiniteSet(Cached') /\ Cached' \in SUBSET Cached
  BY <1>2, FS_Subset DEF Fitting
<1> DEFINE U == Cached
           B == Cached \ S
<1>6. /\ SizeBy(value, S) \in Nat /\ SizeBy(value, B) \in Nat
      /\ SizeBy(value, U) = SizeBy(value, S) + SizeBy(value, B)
  <2>1. /\ value \in [Key -> {None} \cup Value] /\ U = {k \in Key : value[k] # None}
        /\ IsFiniteSet(U) /\ S \in SUBSET U
    BY DEF Fitting, Cached
  <2> HIDE DEF U
  <2>2. /\ SizeBy(value, S) \in Nat /\ SizeBy(value, U \ S) \in Nat
        /\ SizeBy(value, U) = SizeBy(value, S) + SizeBy(value, U \ S)
    BY <2>1, PartSize
  <2> QED BY <2>2 DEF U
<1>7. SizeBy(value', B) = SizeBy(value, B)
  <2>1. B \in SUBSET Key /\ IsFiniteSet(B) /\ \A k \in B : value[k] \in Value /\ value'[k] = value[k]
    BY <1>1, <1>2, <1>5 DEF Fitting, Cached
  <2>2. \A k \in B : Sizes(value)[k] = Sizes(value')[k] /\ Sizes(value)[k] \in Nat
    BY <2>1, SizesFit DEF Sizes
  <2> DEFINE g == Sizes(value)
             h == Sizes(value')
  <2>3. \A x \in B : g[x] \in Nat /\ h[x] = g[x]
    BY <2>2
  <2> HIDE DEF g, h, B
  <2>4. Total(h, B) = Total(g, B)
    BY <2>1, <2>3, TotalSame
  <2>5. SizeBy(value, B) = Total(g, B)
    BY <2>1, SizeIsTotal DEF g
  <2>6. SizeBy(value', B) = Total(h, B)
    <3>1. \A k \in B : value'[k] \in Value
      BY <2>1
    <3> QED BY <2>1, <3>1, SizeIsTotal DEF h
  <2> QED BY <2>4, <2>5, <2>6
<1>8. currentSize' = SizeBy(value', Cached') /\ currentSize' \in Nat /\ currentSize' <= MaxSize
  <2>1. currentSize' = currentSize - SizeBy(value, S) /\ currentSize = SizeBy(value, U)
        /\ currentSize \in Nat /\ currentSize <= MaxSize
    BY DEF Drop, Fitting, SizeOf, SizeBy
  <2>2. currentSize' = SizeBy(value, B)
    BY <1>6, <2>1
  <2> QED BY <1>2, <1>6, <1>7, <2>1, <2>2, LengthAssumption
<1>9. currentSize' = SizeOf(Cached)'
  <2>1. SizeOf(Cached)' = SizeBy(value', Cached')
    BY DEF SizeOf, SizeBy, MapThenSumSet, MapThenFoldSet
  <2> QED BY <1>8, <2>1
<1> QED BY <1>2, <1>4, <1>5, <1>8, <1>9 DEF Fitting

\* The types say that a key and a value are set, and None is neither.
LEMMA SettingFits ==
    ASSUME CacheInv, setting # None
    PROVE  setting.key \in Key /\ setting.value \in Value /\ setting.value # None
BY NoneAssumption DEF CacheInv, TypeOK

\* Insert adds an entry to the map, the list and the size, and there is room:
\* the list is empty only when nothing is cached.
LEMMA InsertFits ==
    ASSUME CacheInv, Insert PROVE Fitting'
<1> DEFINE k == setting.key
           v == setting.value
           size == EntrySize(k, v)
<1>1. /\ k \in Key /\ v \in Value /\ v # None /\ setting # None /\ k \notin Cached
  BY SettingFits DEF Insert, CacheInv, Consistent
<1>2. /\ value' = [value EXCEPT ![k] = v] /\ lru' = <<k>> \o lru
      /\ currentSize' = currentSize + size
  BY DEF Insert
<1>3. /\ value \in [Key -> {None} \cup Value] /\ lru \in Seq(Key) /\ currentSize \in Nat
      /\ IsInjective(lru) /\ ToSet(lru) = Cached /\ IsFiniteSet(Cached)
      /\ currentSize = SizeOf(Cached) /\ currentSize <= MaxSize /\ size <= MaxSize
  BY <1>1 DEF CacheInv, TypeOK, Consistent
<1> HIDE DEF k, v, size
<1>4. value' \in [Key -> {None} \cup Value] /\ Cached' = Cached \cup {k}
  BY <1>1, <1>2, <1>3 DEF Cached
<1>5. lru' \in Seq(Key) /\ IsInjective(lru') /\ ToSet(lru') = Cached'
  <2>1. k \notin ToSet(lru)
    BY <1>1, <1>3
  <2> QED BY <1>1, <1>2, <1>3, <1>4, <2>1, InFront
<1>6. IsFiniteSet(Cached')
  BY <1>3, <1>4, FS_AddElement
<1> DEFINE U == Cached
           C == Cached'
<1>7. SizeBy(value, U) = currentSize
  BY <1>3 DEF SizeOf, SizeBy
<1>8. SizeBy(value', C) = SizeBy(value, U) + size
  <2> DEFINE g == Sizes(value)
             h == Sizes(value')
  <2>1. /\ U \in SUBSET Key /\ IsFiniteSet(U) /\ C \in SUBSET Key /\ IsFiniteSet(C)
        /\ k \in C /\ C \ {k} = U
    BY <1>1, <1>3, <1>4, <1>6 DEF Cached
  <2>2. (\A x \in U : value[x] \in Value /\ value'[x] = value[x]) /\ \A x \in C : value'[x] \in Value
    BY <1>1, <1>2, <1>3, <1>4 DEF Cached
  <2>3. value'[k] = v
    BY <1>1, <1>2, <1>3
  <2>4. \A x \in C : x \in Key /\ h[x] \in Nat
    BY <2>1, <2>2, SizesFit
  <2>5. \A x \in U : g[x] \in Nat /\ h[x] = g[x]
    BY <2>1, <2>2, SizesFit DEF Sizes
  <2>6. h[k] = size /\ h[k] \in Nat
    BY <1>1, <2>1, <2>3, <2>4 DEF size, Sizes
  <2>7. SizeBy(value, U) = Total(g, U)
    BY <2>1, <2>2, SizeIsTotal
  <2>8. SizeBy(value', C) = Total(h, C)
    <3> HIDE DEF C
    <3> QED BY <2>1, <2>2, SizeIsTotal
  <2> HIDE DEF g, h, U, C
  <2>9. Total(h, C) = h[k] + Total(h, C \ {k})
    BY <2>1, <2>4, TotalRemove
  <2>10. Total(h, U) = Total(g, U)
    BY <2>1, <2>5, TotalSame
  <2>11. Total(g, U) \in Nat
    BY <2>1, <2>5, AdderAdds
  <2> QED BY <2>1, <2>6, <2>7, <2>8, <2>9, <2>10, <2>11
<1>9. size \in Nat
  BY <1>1, LengthAssumption DEF size, EntrySize
<1>10. currentSize + size <= MaxSize
  <2>1. CASE Fits
    BY <2>1 DEF Fits, size, k, v
  <2>2. CASE lru = <<>>
    <3>1. ToSet(lru) = {}
      BY <2>2 DEF ToSet
    <3>2. SizeOf(Cached) = Total(Sizes(value), {})
      <4>1. Cached = {} /\ IsFiniteSet({}) /\ {} \in SUBSET Key
        BY <1>3, <3>1, FS_EmptySet
      <4>2. SizeBy(value, {}) = Total(Sizes(value), {})
        BY <4>1, SizeIsTotal
      <4> QED BY <1>3, <1>7, <4>1, <4>2
    <3>3. currentSize = 0
      BY <1>3, <3>2, TotalEmpty
    <3> QED BY <1>3, <1>9, <3>3, LengthAssumption
  <2> QED BY <2>1, <2>2 DEF Insert
<1>11. currentSize' = SizeOf(Cached)' /\ currentSize' \in Nat /\ currentSize' <= MaxSize
  <2>1. SizeOf(Cached)' = SizeBy(value', Cached')
    BY DEF SizeOf, SizeBy, MapThenSumSet, MapThenFoldSet
  <2> QED BY <1>2, <1>3, <1>7, <1>8, <1>9, <1>10, <2>1
<1> QED BY <1>4, <1>5, <1>6, <1>11 DEF Fitting

\* A key that is read goes to the front of the list.
LEMMA HitFits ==
    ASSUME CacheInv, NEW k \in Key, Hit(k) PROVE Fitting'
<1>1. lru' = <<k>> \o Without({k}) /\ UNCHANGED <<value, currentSize>> /\ k \in Cached
  BY DEF Hit
<1>2. lru \in Seq(Key) /\ IsInjective(lru) /\ ToSet(lru) = Cached
  BY DEF CacheInv, TypeOK, Consistent
<1>3. Without({k}) \in Seq(Key) /\ ToSet(Without({k})) = Cached \ {k} /\ IsInjective(Without({k}))
  BY <1>2, WithoutKeeps
<1>4. lru' \in Seq(Key) /\ IsInjective(lru') /\ ToSet(lru') = (Cached \ {k}) \cup {k}
  <2> DEFINE s == Without({k})
  <2>1. s \in Seq(Key) /\ k \notin ToSet(s) /\ IsInjective(s) /\ lru' = <<k>> \o s
    BY <1>1, <1>3
  <2>2. ToSet(s) = Cached \ {k}
    BY <1>3
  <2> HIDE DEF s
  <2> QED BY <2>1, <2>2, InFront
<1>5. Cached' = Cached /\ SizeOf(Cached)' = SizeOf(Cached)
  BY <1>1 DEF Cached, SizeOf, MapThenSumSet, MapThenFoldSet
<1>6. ToSet(lru') = Cached'
  BY <1>1, <1>4, <1>5
<1> QED BY <1>1, <1>4, <1>5, <1>6 DEF CacheInv, TypeOK, Consistent, Fitting

\* An empty cache is consistent.
LEMMA CacheInit == Init => CacheInv
<1> SUFFICES ASSUME Init PROVE CacheInv
  OBVIOUS
<1>1. Cached = {} /\ lru = <<>> /\ ToSet(lru) = {} /\ IsInjective(lru) /\ lru \in Seq(Key)
  BY DEF Init, Cached, ToSet, IsInjective
<1>2. SizeOf({}) = 0
  <2>1. IsFiniteSet({}) /\ {} \in SUBSET Key
    BY FS_EmptySet
  <2>2. SizeBy(value, {}) = Total(Sizes(value), {})
    BY <2>1, SizeIsTotal
  <2> QED BY <2>2, TotalEmpty DEF SizeOf, SizeBy
<1>3. left \in [Key -> 0..TTL] /\ value \in [Key -> {None} \cup Value]
  BY TTLAssumption DEF Init
<1> QED BY <1>1, <1>2, <1>3, FS_EmptySet, LengthAssumption DEF Init, CacheInv, TypeOK, Consistent

\* CacheInv is inductive.
LEMMA CacheStep == ASSUME CacheInv, [Next]_vars PROVE CacheInv'
<1>f. Fitting
  BY DEF CacheInv, TypeOK, Consistent, Fitting
<1>t. /\ left \in [Key -> 0..TTL] /\ setting \in {None} \cup [key : Key, value : Value]
      /\ call \in {None} \cup [op : {"set", "get"}, key : Key, value : {None} \cup Value]
      /\ value \in [Key -> {None} \cup Value]
      /\ setting # None => /\ setting.key \notin Cached
                           /\ EntrySize(setting.key, setting.value) <= MaxSize
  BY DEF CacheInv, TypeOK, Consistent
<1>p. ASSUME Fitting', (left \in [Key -> 0..TTL])',
             (setting \in {None} \cup [key : Key, value : Value])',
             (call \in {None} \cup [op : {"set", "get"}, key : Key, value : {None} \cup Value])',
             (setting # None => /\ setting.key \notin Cached
                                /\ EntrySize(setting.key, setting.value) <= MaxSize)'
      PROVE  CacheInv'
  BY <1>p DEF Fitting, CacheInv, TypeOK, Consistent
<1>s. SizeOf(Cached)' = SizeBy(value', Cached') /\ SizeOf(Cached) = SizeBy(value, Cached)
  BY DEF SizeOf, SizeBy, MapThenSumSet, MapThenFoldSet
<1>1. CASE UNCHANGED vars
  <2>1. Fitting'
    <3>1. UNCHANGED <<value, lru, currentSize, Cached>>
      BY <1>1 DEF vars, Cached
    <3> QED BY <1>f, <1>s, <3>1 DEF Fitting
  <2> QED BY <1>1, <1>p, <1>t, <2>1 DEF vars, Cached
<1>2. CASE Evict
  <2>1. {lru[Len(lru)]} \cap Cached \in SUBSET Cached /\ Drop({lru[Len(lru)]} \cap Cached)
        /\ UNCHANGED <<left, setting, call>>
    BY <1>2 DEF Evict
  <2>2. Fitting' /\ Cached' \subseteq Cached
    <3> DEFINE S == {lru[Len(lru)]} \cap Cached
    <3>1. S \in SUBSET Cached /\ Drop(S)
      BY <2>1
    <3> HIDE DEF S
    <3> QED BY <1>f, <3>1, DropFits
  <2> QED BY <1>p, <1>t, <2>1, <2>2
<1>3. CASE Insert
  <2>1. Fitting' /\ UNCHANGED call /\ setting' = None
    BY <1>3, InsertFits DEF Insert
  <2>2. left' \in [Key -> 0..TTL]
    BY <1>3, <1>t, SettingFits, TTLAssumption DEF Insert
  <2> QED BY <1>p, <1>t, <2>1, <2>2
<1>4. CASE Clean
  <2> DEFINE S == {k \in Cached : Expired(k)}
  <2>1. S \in SUBSET Cached /\ Drop(S) /\ UNCHANGED <<left, setting, call>> /\ setting = None
    BY <1>4 DEF Clean
  <2> HIDE DEF S
  <2>2. Fitting'
    BY <1>f, <2>1, DropFits
  <2> QED BY <1>p, <1>t, <2>1, <2>2
<1>5. CASE Tick
  <2>1. UNCHANGED <<value, lru, currentSize, setting, call, Cached>>
    BY <1>5 DEF Tick, Cached
  <2>2. Fitting'
    BY <1>f, <1>s, <2>1 DEF Fitting
  <2>3. left' \in [Key -> 0..TTL]
    BY <1>5, <1>t, TTLAssumption DEF Tick
  <2> QED BY <1>p, <1>t, <2>1, <2>2, <2>3 DEF Cached
<1>6. ASSUME NEW k \in Key, Get(k) PROVE CacheInv'
  <2>1. UNCHANGED <<left, setting>> /\ setting = None
    BY <1>6 DEF Get
  <2>2. Fitting'
    <3>1. CASE Hit(k)
      BY <3>1, HitFits
    <3>2. CASE Miss(k)
      <4> DEFINE S == {k} \cap Cached
      <4>1. S \in SUBSET Cached /\ Drop(S)
        BY <3>2 DEF Miss
      <4> HIDE DEF S
      <4> QED BY <1>f, <4>1, DropFits
    <3> QED BY <1>6, <3>1, <3>2 DEF Get
  <2>3. call' \in [op : {"set", "get"}, key : Key, value : {None} \cup Value]
    BY <1>6, <1>t DEF Get, Hit, Miss, Called
  <2> QED BY <1>p, <1>t, <2>1, <2>2, <2>3
<1>7. ASSUME NEW k \in Key, NEW v \in Value, SetBegins(k, v) PROVE CacheInv'
  <2> DEFINE S == {k} \cap Cached
  <2>1. /\ S \in SUBSET Cached /\ Drop(S) /\ UNCHANGED left
        /\ call' = [op |-> "set", key |-> k, value |-> v]
        /\ setting' = IF EntrySize(k, v) > MaxSize THEN None ELSE [key |-> k, value |-> v]
    BY <1>7 DEF SetBegins, Called
  <2>2. Fitting' /\ Cached' = Cached \ {k}
    <3> HIDE DEF S
    <3>1. Fitting' /\ Cached' = Cached \ S
      BY <1>f, <2>1, DropFits
    <3> QED BY <3>1 DEF S
  <2>3. EntrySize(k, v) \in Nat /\ MaxSize \in Nat
    BY LengthAssumption DEF EntrySize
  <2>4. /\ setting' \in {None} \cup [key : Key, value : Value]
        /\ setting' # None => /\ setting'.key = k /\ setting'.value = v
                              /\ EntrySize(k, v) <= MaxSize
    BY <2>1, <2>3
  <2>5. (setting # None => /\ setting.key \notin Cached
                           /\ EntrySize(setting.key, setting.value) <= MaxSize)'
    BY <2>2, <2>4 DEF EntrySize
  <2> QED BY <1>p, <1>t, <2>1, <2>2, <2>4, <2>5
<1> QED BY <1>1, <1>2, <1>3, <1>4, <1>5, <1>6, <1>7 DEF Next

\* Values, list, size and calls have their types (TypeOK).
THEOREM TypeCorrect == Spec => []TypeOK
<1>1. CacheInv /\ [Next]_vars => CacheInv'
  BY CacheStep
<1>2. CacheInv => TypeOK
  BY DEF CacheInv
<1> QED BY <1>1, <1>2, CacheInit, PTL DEF Spec

\* The list has the keys of the map, each once, and the size is the sum of the
\* entries, within the bound (Consistent): set() can evict what the list ends
\* with, and has room when the list is empty.
THEOREM ListMapSize == Spec => []Consistent
<1>1. CacheInv /\ [Next]_vars => CacheInv'
  BY CacheStep
<1>2. CacheInv => Consistent
  BY DEF CacheInv
<1> QED BY <1>1, <1>2, CacheInit, PTL DEF Spec

-----------------------------------------------------------------------------
(* EndpointCache: the map it implements. *)

\* The part of TypeOK the refinement needs; it says nothing of list and size.
MapType ==
    /\ value \in [Key -> {None} \cup Value]
    /\ setting \in {None} \cup [key : Key, value : Value]

\* The map that is promised.
Promised == IF setting = None THEN value ELSE [value EXCEPT ![setting.key] = setting.value]

\* What Drop does to the map.
LEMMA DropForgets ==
    ASSUME NEW S, Drop(S)
    PROVE  value' = [k \in Key |-> IF k \in S THEN None ELSE value[k]]
BY DEF Drop

\* MapType is inductive.
LEMMA MapTypeStep == MapType /\ [Next]_vars => MapType'
<1> SUFFICES ASSUME MapType, [Next]_vars PROVE MapType'
  OBVIOUS
<1>1. CASE UNCHANGED vars
  BY <1>1 DEF vars, MapType
<1>2. ASSUME NEW S, Drop(S) PROVE value' \in [Key -> {None} \cup Value]
  BY <1>2, DropForgets DEF MapType
<1>3. CASE Evict
  BY <1>3, <1>2 DEF Evict, MapType
<1>4. CASE Insert
  BY <1>4 DEF Insert, MapType
<1>5. CASE Clean
  BY <1>5, <1>2 DEF Clean, MapType
<1>6. CASE Tick
  BY <1>6 DEF Tick, MapType
<1>7. ASSUME NEW k \in Key, Get(k) PROVE MapType'
  <2>1. CASE Hit(k)
    BY <1>7, <2>1 DEF Get, Hit, MapType
  <2>2. CASE Miss(k)
    BY <1>7, <1>2, <2>2 DEF Get, Miss, MapType
  <2>3. QED
    BY <1>7, <2>1, <2>2 DEF Get
<1>8. ASSUME NEW k \in Key, NEW v \in Value, SetBegins(k, v) PROVE MapType'
  BY <1>8, <1>2 DEF SetBegins, MapType
<1>9. QED
  BY <1>1, <1>3, <1>4, <1>5, <1>6, <1>7, <1>8 DEF Next

\* An empty cache keeps an empty promise.
LEMMA InitRefines == Init => MapType /\ Abstract!Init
BY DEF Init, MapType, Abstract!Init

\* Entries that leave the map are forgotten.
LEMMA DropRefines ==
    ASSUME MapType, NEW S \in SUBSET Key, Drop(S), UNCHANGED <<setting, call>>
    PROVE  Abstract!Forget
<1>1. value' = [k \in Key |-> IF k \in S THEN None ELSE value[k]]
  BY DropForgets
<1>2. CASE setting = None
  BY <1>1, <1>2 DEF Abstract!Forget
<1>3. CASE setting # None
  <2> DEFINE T == S \ {setting.key}
  <2>1. setting.key \in Key /\ setting' = setting
    BY <1>3 DEF MapType
  <2>2. Promised' = [k \in Key |-> IF k \in T THEN None ELSE Promised[k]]
    BY <1>1, <1>3, <2>1 DEF Promised, MapType
  <2>3. QED
    BY <2>2, <1>3 DEF Abstract!Forget, Promised
<1>4. QED
  BY <1>2, <1>3

\* Every step of the cache is one of the promised map, or changes nothing there.
LEMMA StepRefines ==
    MapType /\ [Next]_vars => [Abstract!Next]_(<<Promised, call>>)
<1> SUFFICES ASSUME MapType, [Next]_vars
             PROVE  Abstract!Next \/ UNCHANGED <<Promised, call>>
  OBVIOUS
<1>1. CASE UNCHANGED vars
  BY <1>1 DEF vars, Promised
<1>2. CASE Evict
  <2>1. /\ {lru[Len(lru)]} \cap Cached \in SUBSET Key /\ Drop({lru[Len(lru)]} \cap Cached)
        /\ UNCHANGED <<setting, call>>
    BY <1>2 DEF Evict, Cached
  <2>2. QED
    BY <2>1, DropRefines DEF Abstract!Next
<1>3. CASE Insert
  BY <1>3 DEF Insert, Promised, MapType
<1>4. CASE Clean
  <2>1. /\ {k \in Cached : Expired(k)} \in SUBSET Key /\ Drop({k \in Cached : Expired(k)})
        /\ UNCHANGED <<setting, call>>
    BY <1>4 DEF Clean, Cached
  <2>2. QED
    BY <2>1, DropRefines DEF Abstract!Next
<1>5. CASE Tick
  BY <1>5 DEF Tick, Promised
<1>6. ASSUME NEW k \in Key, Get(k) PROVE Abstract!Next \/ UNCHANGED <<Promised, call>>
  <2>1. setting = None /\ setting' = None
    BY <1>6 DEF Get
  <2>2. CASE Hit(k)
    <3>1. call' = [op |-> "get", key |-> k, value |-> value[k]] /\ value' = value
      BY <2>2 DEF Hit, Called
    <3>2. QED
      BY <2>1, <3>1 DEF Abstract!Next, Abstract!Get
  <2>3. CASE Miss(k)
    <3>1. call' = [op |-> "get", key |-> k, value |-> None]
      BY <2>3 DEF Miss, Called
    <3>2. value' = [value EXCEPT ![k] = None]
      BY <2>3, DropForgets DEF Miss, Cached, MapType
    <3>3. QED
      BY <2>1, <3>1, <3>2 DEF Abstract!Next, Abstract!Get
  <2>4. QED
    BY <1>6, <2>2, <2>3 DEF Get
<1>7. ASSUME NEW k \in Key, NEW v \in Value, SetBegins(k, v)
      PROVE  Abstract!Next
  <2>1. setting = None /\ call' = [op |-> "set", key |-> k, value |-> v]
    BY <1>7 DEF SetBegins, Called
  <2>2. value' = [value EXCEPT ![k] = None]
    BY <1>7, DropForgets DEF SetBegins, Cached, MapType
  <2>3. CASE setting' = None
    <3>1. \E kept \in {v, None} : value' = [value EXCEPT ![k] = kept]
      BY <2>2
    <3>2. QED
      BY <2>1, <2>3, <3>1 DEF Abstract!Next, Abstract!Set
  <2>4. CASE setting' = [key |-> k, value |-> v]
    <3>1. setting' # None
      BY <2>4, NoneAssumption
    <3>2. [value' EXCEPT ![setting'.key] = setting'.value] = [value EXCEPT ![k] = v]
      BY <2>2, <2>4 DEF MapType
    <3>3. QED
      BY <2>1, <3>1, <3>2 DEF Abstract!Next, Abstract!Set
  <2>5. QED
    BY <1>7, <2>3, <2>4 DEF SetBegins
<1>8. QED
  BY <1>1, <1>2, <1>3, <1>4, <1>5, <1>6, <1>7 DEF Next

\* The cache is a map that may forget (IsVolatileMap): get() returns the value
\* set last or nothing, whatever was evicted, cleaned, expired or too large.
THEOREM CacheIsVolatileMap == Spec => IsVolatileMap
<1>1. MapType /\ [Next]_vars => [Abstract!Next]_(<<Promised, call>>)
  BY StepRefines
<1>2. QED
  BY <1>1, InitRefines, MapTypeStep, PTL DEF Spec, IsVolatileMap, Abstract!Spec, Promised

-----------------------------------------------------------------------------
(* Notification: an event answers every poll that waits. *)

-----------------------------------------------------------------------------
\* The types of what a poll is made of.
PollType ==
    /\ subs \in [Server -> SUBSET N!Poll]
    /\ pc \in [Device -> {"poll", "wait", "sleep"}]
    /\ at \in [Device -> {None} \cup Server]
    /\ answer \in [Device -> {None} \cup N!Message]
    /\ posts \subseteq Event \X Server

\* A device that waits without an answer has an open poll where it waits:
\* whatever removes the poll answers it, or breaks its connection.
WaitsOpen ==
    \A d \in Device : pc[d] = "wait" =>
        /\ at[d] \in Server
        /\ answer[d] = None => <<d, "open">> \in subs[at[d]]

PollInv == PollType /\ WaitsOpen

\* Nobody waits and nothing is posted at first.
LEMMA InitPoll == N!Init => PollInv
BY DEF N!Init, PollInv, PollType, WaitsOpen

\* PollInv is inductive.
LEMMA PollStep == ASSUME PollInv, [N!Next]_(N!vars) PROVE PollInv'
<1> USE DEF PollInv, PollType, WaitsOpen
<1>1. CASE UNCHANGED <<subs, pc, at, answer>> /\ posts' \subseteq Event \X Server
  BY <1>1
<1>2. ASSUME NEW e \in Event, NEW s \in Server, N!Broadcast(e, s) PROVE PollInv'
  <2>1. /\ UNCHANGED <<pc, at>> /\ posts' \subseteq posts /\ subs' = [subs EXCEPT ![s] = {}]
        /\ answer' = [d \in Device |-> IF <<d, "open">> \in subs[s] THEN e ELSE answer[d]]
    BY <1>2 DEF N!Broadcast, N!device
  <2>2. answer' \in [Device -> {None} \cup N!Message] /\ subs' \in [Server -> SUBSET N!Poll]
    BY <2>1 DEF N!Message
  <2>3. ASSUME NEW d \in Device, pc'[d] = "wait"
        PROVE  at'[d] \in Server /\ (answer'[d] = None => <<d, "open">> \in subs'[at'[d]])
    BY <2>1, <2>3, PollsFit
  <2>4. QED
    BY <2>1, <2>2, <2>3
<1>3. ASSUME NEW d \in Device, N!Expire(d) PROVE PollInv'
  <2>1. /\ UNCHANGED <<pc, at, posts>> /\ answer' = [answer EXCEPT ![d] = "false"]
        /\ subs' = [subs EXCEPT ![at[d]] = (@ \ {<<d, "open">>}) \cup {<<d, "expired">>}]
        /\ at[d] \in Server
    BY <1>3 DEF N!Expire, N!device
  <2>2. answer' \in [Device -> {None} \cup N!Message] /\ subs' \in [Server -> SUBSET N!Poll]
    BY <2>1 DEF N!Message, N!Poll
  <2>3. ASSUME NEW c \in Device, pc'[c] = "wait"
        PROVE  at'[c] \in Server /\ (answer'[c] = None => <<c, "open">> \in subs'[at'[c]])
    BY <2>1, <2>3, PollsFit
  <2>4. QED
    BY <2>1, <2>2, <2>3
<1>4. ASSUME NEW s \in Server, N!Stop(s) PROVE PollInv'
  <2>1. /\ UNCHANGED <<posts, answer>> /\ subs' = [subs EXCEPT ![s] = {}]
        /\ pc' = [d \in Device |-> IF <<d, "open">> \in subs[s] THEN "sleep" ELSE pc[d]]
        /\ at' = [d \in Device |-> IF <<d, "open">> \in subs[s] THEN None ELSE at[d]]
    BY <1>4 DEF N!Stop
  <2>2. QED
    BY <2>1
<1>5. ASSUME NEW d \in Device, N!OpenPoll(d) PROVE PollInv'
  <2>1. UNCHANGED <<posts, answer>> /\ pc[d] = "poll"
    BY <1>5 DEF N!OpenPoll
  <2>2. CASE pc' = [pc EXCEPT ![d] = "sleep"] /\ UNCHANGED <<at, subs>>
    BY <2>1, <2>2
  <2>3. CASE \E s \in Server : /\ at' = [at EXCEPT ![d] = s] /\ pc' = [pc EXCEPT ![d] = "wait"]
                               /\ subs' = [subs EXCEPT ![s] = @ \cup {<<d, "open">>}]
    <3>1. PICK s \in Server : /\ at' = [at EXCEPT ![d] = s] /\ pc' = [pc EXCEPT ![d] = "wait"]
                              /\ subs' = [subs EXCEPT ![s] = @ \cup {<<d, "open">>}]
      BY <2>3
    <3>2. <<d, "open">> \in N!Poll
      BY DEF N!Poll
    <3>3. subs' \in [Server -> SUBSET N!Poll] /\ \A z \in Server : subs[z] \subseteq subs'[z]
      BY <3>1, <3>2
    <3>4. QED
      BY <2>1, <3>1, <3>3
  <2>4. QED
    BY <1>5, <2>2, <2>3 DEF N!OpenPoll
<1>6. ASSUME NEW d \in Device, N!Wakes(d) \/ N!Receive(d) PROVE PollInv'
  BY <1>6 DEF N!Wakes, N!Receive
<1>7. QED
  BY <1>1, <1>2, <1>3, <1>4, <1>5, <1>6
     DEF N!Next, N!vars, N!device, N!Emit, N!PostFails, N!Start, N!Takes, N!Handles

\* An event that a server is told of answers every poll that waits there
\* (ReachesOpen), whatever other polls of the user expired before.
THEOREM PollsReached == N!Spec => ReachesOpen
<1>1. PollInv /\ [N!Next]_(N!vars) => PollInv'
  BY PollStep
<1>2. PollInv /\ [N!Next]_(N!vars) =>
        [\A e \in Event, s \in Server :
           <<e, s>> \in posts \ posts' /\ up[s] =>
              \A d \in Device : pc[d] = "wait" /\ at[d] = s /\ answer[d] = None
                                  => answer'[d] = e]_(N!vars)
  <2> SUFFICES ASSUME PollInv, N!Next, NEW e \in Event, NEW s \in Server,
                      <<e, s>> \in posts \ posts', up[s],
                      NEW d \in Device, pc[d] = "wait", at[d] = s, answer[d] = None
               PROVE  answer'[d] = e
    OBVIOUS
  <2>1. <<d, "open">> \in subs[s]
    BY DEF PollInv, WaitsOpen
  <2>2. PICK c \in Event, z \in Server : N!PostFails(c, z) \/ N!Broadcast(c, z)
    BY DEF N!Next, N!Emit, N!Stop, N!Start, N!Expire, N!OpenPoll, N!Wakes, N!Receive, N!Takes, N!Handles
  <2>3. posts' = posts \ {<<c, z>>} /\ c = e /\ z = s
    BY <2>2 DEF N!PostFails, N!Broadcast
  <2>4. QED
    BY <2>1, <2>2, <2>3 DEF N!PostFails, N!Broadcast, PollInv, PollType
<1>3. QED
  BY <1>1, <1>2, InitPoll, PTL DEF N!Spec, N!ReachesOpen, ReachesOpen

-----------------------------------------------------------------------------
(* Notification: its types. *)

\* A device that processes events has one; what it has processed are events.
PollTypes == PollInv /\ N!TypeOK /\ handled \in [Device -> SUBSET Event]
              /\ \A d \in Device : holds[d] => queue[d] # <<>>

\* The types are right at first.
LEMMA PollTypesInit == N!Init => PollTypes
BY InitPoll, PollsFit DEF N!Init, PollTypes, N!TypeOK

\* PollTypes is inductive.
LEMMA PollTypesStep == ASSUME PollTypes, [N!Next]_(N!vars) PROVE PollTypes'
<1>1. PollInv'
  BY PollStep DEF PollTypes
<1>2. /\ emitted \subseteq Event /\ up \in [Server -> BOOLEAN] /\ stops \in 0..MaxStops /\ MaxStops \in Nat
      /\ queue \in [Device -> Seq(N!Message)] /\ holds \in [Device -> BOOLEAN]
      /\ answer \in [Device -> {None} \cup N!Message]
      /\ handled \in [Device -> SUBSET Event] /\ \A d \in Device : holds[d] => queue[d] # <<>>
  BY PollsFit DEF PollTypes, N!TypeOK
<1> DEFINE Kept == /\ emitted' \subseteq Event /\ up' \in [Server -> BOOLEAN] /\ stops' \in 0..MaxStops
                   /\ queue' \in [Device -> Seq(N!Message)] /\ holds' \in [Device -> BOOLEAN]
                   /\ handled' \in [Device -> SUBSET Event]
                   /\ \A d \in Device : holds'[d] => queue'[d] # <<>>
<1>3. ASSUME UNCHANGED <<queue, holds, handled>>, emitted' \subseteq Event, up' \in [Server -> BOOLEAN],
             stops' \in 0..MaxStops
      PROVE  Kept
  BY <1>2, <1>3
<1>4. ASSUME NEW d \in Device, N!Receive(d) PROVE Kept
  <2>1. /\ queue' = [queue EXCEPT ![d] = Append(queue[d], answer[d])] /\ answer[d] \in N!Message
        /\ UNCHANGED <<emitted, up, stops, holds, handled>> /\ ~holds[d]
    BY <1>2, <1>4 DEF N!Receive
  <2>2. Append(queue[d], answer[d]) \in Seq(N!Message)
    BY <1>2, <2>1
  <2> QED BY <1>2, <2>1, <2>2
<1>5. ASSUME NEW d \in Device, N!Takes(d) PROVE Kept
  BY <1>2, <1>5 DEF N!Takes
<1>6. ASSUME NEW d \in Device, N!Handles(d) PROVE Kept
  <2>1. /\ queue' = [queue EXCEPT ![d] = Tail(queue[d])] /\ holds' = [holds EXCEPT ![d] = queue'[d] # <<>>]
        /\ handled' = [handled EXCEPT ![d] = handled[d] \cup ({Head(queue[d])} \cap Event)]
        /\ UNCHANGED <<emitted, up, stops>> /\ queue[d] # <<>>
    BY <1>2, <1>6 DEF N!Handles
  <2>2. Tail(queue[d]) \in Seq(N!Message)
    BY <1>2, <2>1
  <2>3. queue' \in [Device -> Seq(N!Message)] /\ \A c \in Device : c # d => queue'[c] = queue[c]
    BY <1>2, <2>1, <2>2
  <2>4. holds' \in [Device -> BOOLEAN] /\ \A c \in Device : holds'[c] => queue'[c] # <<>>
    <3> DEFINE b == queue'[d] # <<>>
    <3>1. b \in BOOLEAN /\ holds' = [holds EXCEPT ![d] = b]
      BY <2>1
    <3> HIDE DEF b
    <3>2. /\ holds' \in [Device -> BOOLEAN] /\ holds'[d] = b
          /\ \A c \in Device : c # d => holds'[c] = holds[c]
      BY <1>2, <3>1
    <3>3. \A c \in Device : holds'[c] => queue'[c] # <<>>
      <4>1. holds'[d] => queue'[d] # <<>>
        BY <3>2 DEF b
      <4>2. ASSUME NEW c \in Device, c # d, holds'[c] PROVE queue'[c] # <<>>
        <5>1. holds[c] /\ queue'[c] = queue[c]
          BY <2>3, <3>2, <4>2
        <5>2. queue[c] # <<>>
          BY <1>2, <5>1
        <5> QED BY <5>1, <5>2
      <4> QED BY <4>1, <4>2
    <3> QED BY <3>2, <3>3
  <2>5. handled' \in [Device -> SUBSET Event]
    BY <1>2, <2>1
  <2>6. emitted' \subseteq Event /\ up' \in [Server -> BOOLEAN] /\ stops' \in 0..MaxStops
    BY <1>2, <2>1
  <2> QED BY <2>3, <2>4, <2>5, <2>6
<1>7. ASSUME NEW s \in Server, N!Stop(s) \/ N!Start(s) PROVE Kept
  <2>1. CASE N!Stop(s)
    <3>1. /\ stops < MaxStops /\ stops' = stops + 1 /\ up' = [up EXCEPT ![s] = FALSE]
          /\ UNCHANGED <<emitted, queue, holds, handled>>
      BY <2>1 DEF N!Stop
    <3>2. stops' \in 0..MaxStops
      BY <1>2, <3>1
    <3>3. up' \in [Server -> BOOLEAN] /\ emitted' \subseteq Event
      BY <1>2, <3>1
    <3> HIDE DEF Kept
    <3> QED BY <1>3, <3>1, <3>2, <3>3
  <2>2. CASE N!Start(s)
    <3>1. up' = [up EXCEPT ![s] = TRUE] /\ UNCHANGED <<emitted, stops, queue, holds, handled>>
      BY <2>2 DEF N!Start, N!device
    <3>2. up' \in [Server -> BOOLEAN] /\ emitted' \subseteq Event /\ stops' \in 0..MaxStops
      BY <1>2, <3>1
    <3> HIDE DEF Kept
    <3> QED BY <1>3, <3>1, <3>2
  <2> QED BY <1>7, <2>1, <2>2
<1>8. ASSUME NEW e \in Event, N!Emit(e) \/ (\E s \in Server : N!PostFails(e, s) \/ N!Broadcast(e, s))
      PROVE  Kept
  BY <1>2, <1>3, <1>8 DEF N!Emit, N!PostFails, N!Broadcast, N!device
<1>9. ASSUME NEW d \in Device, N!Expire(d) \/ N!OpenPoll(d) \/ N!Wakes(d) PROVE Kept
  BY <1>2, <1>3, <1>9 DEF N!Expire, N!OpenPoll, N!Wakes, N!device
<1>10. CASE UNCHANGED N!vars
  <2>1. Kept
    BY <1>2, <1>3, <1>10 DEF N!vars
  <2> QED BY <1>1, <2>1 DEF PollTypes, PollInv, PollType, N!TypeOK
<1> HIDE DEF Kept
<1>11. CASE N!Next
  <2>1. Kept
    BY <1>4, <1>5, <1>6, <1>7, <1>8, <1>9, <1>11 DEF N!Next
  <2> QED BY <1>1, <2>1 DEF Kept, PollTypes, PollInv, PollType, N!TypeOK
<1> QED BY <1>10, <1>11

-----------------------------------------------------------------------------
(* Account: its types. *)

\* A system nobody has signed up to has the types.
LEMMA AccountTypeInit == A!Init => A!TypeOK
BY AccountsFit DEF A!Init, A!TypeOK

\* Every step keeps the types.
LEMMA AccountTypeStep == ASSUME A!TypeOK, [A!Next]_(A!vars) PROVE A!TypeOK'
<1> USE AccountsFit DEF A!TypeOK, A!users
<1>1. CASE UNCHANGED A!vars
  BY <1>1 DEF A!vars
<1>2. ASSUME NEW d \in Device, A!Reserve(d) PROVE A!TypeOK'
  BY <1>2 DEF A!Reserve, A!Answer
<1>3. ASSUME NEW d \in Device, A!MakeRoot(d) PROVE A!TypeOK'
  <2>1. faults' \in 0..MaxFaults
    BY <1>3 DEF A!MakeRoot
  <2>2. used' \subseteq root' /\ root' \subseteq UserName /\ broken' \subseteq UserName /\ late' \subseteq UserName
    BY <1>3 DEF A!MakeRoot
  <2>3. signup' \in [Device -> {"no", "sent", "make", "ok", "refused"}]
    BY <1>3 DEF A!MakeRoot, A!Answer
  <2>4. QED
    BY <1>3, <2>1, <2>2, <2>3 DEF A!MakeRoot
<1>4. ASSUME NEW d \in Device, A!Joins(d) \/ A!Request(d) \/ A!Login(d) PROVE A!TypeOK'
  BY <1>4 DEF A!Joins, A!Request, A!Login, A!Goes
<1>5. ASSUME NEW d \in Device, A!Send(d) PROVE A!TypeOK'
  BY <1>5 DEF A!Send, A!Goes
<1>6. ASSUME NEW d \in Device, A!Expires(d) PROVE A!TypeOK'
  BY <1>6 DEF A!Expires
<1>7. ASSUME NEW n \in UserName, A!LateRoot(n) PROVE A!TypeOK'
  BY <1>7 DEF A!LateRoot
<1>8. QED
  BY <1>1, <1>2, <1>3, <1>4, <1>5, <1>6, <1>7 DEF A!Next

-----------------------------------------------------------------------------
(* Names and roots. *)

\* The device that took a name in Redis, until its signup has failed.
Owns(d) == signup[d] \in {"make", "ok"}

\* What NameIsTheirs needs to be inductive: ownership begins when the name is
\* taken, before the root is made; a name that is not taken has no root.
OwnerInv ==
    /\ A!TypeOK /\ A!NameIsTheirs
    /\ \A d \in Device : Owns(d) => /\ redis[name[d]] = password[d]
                                    /\ \A e \in Device : name[e] = name[d] /\ Owns(e) => e = d
    /\ \A n \in root \cup late : redis[n] # None
    /\ \A d \in Device : signup[d] = "make" => name[d] \notin root \cup late

\* OwnerInv is inductive.
LEMMA OwnerStep ==
    ASSUME OwnerInv, [A!Next]_(A!vars) PROVE OwnerInv'
<1>t. A!TypeOK /\ A!TypeOK'
  BY AccountTypeStep DEF OwnerInv
<1>1. CASE UNCHANGED <<name, password, redis, root, signup, broken, late>>
  BY <1>1, <1>t DEF OwnerInv, A!NameIsTheirs, Owns
<1>2. ASSUME NEW d \in Device, A!Reserve(d) PROVE OwnerInv'
  <2>1. UNCHANGED <<name, password, root, broken, late>> /\ signup[d] = "sent"
    BY <1>2 DEF A!Reserve, A!users
  <2>2. CASE redis[name[d]] # None
    <3>1. signup' = [signup EXCEPT ![d] = "refused"] /\ redis' = redis
      BY <1>2, <2>2 DEF A!Reserve, A!Answer
    <3>2. QED
      BY <1>t, <2>1, <3>1 DEF OwnerInv, A!NameIsTheirs, Owns, A!TypeOK
  <2>3. CASE redis[name[d]] = None
    <3>1. signup' = [signup EXCEPT ![d] = "make"]
          /\ redis' = [redis EXCEPT ![name[d]] = password[d]]
      BY <1>2, <2>3 DEF A!Reserve
    <3>2. \A e \in Device : Owns(e) => name[e] # name[d]
      BY <1>t, <2>3, AccountsFit DEF OwnerInv, A!TypeOK
    <3>3. name[d] \notin root \cup late
      BY <2>3 DEF OwnerInv
    <3>4. QED
      BY <1>t, <2>1, <3>1, <3>2, <3>3 DEF OwnerInv, A!NameIsTheirs, Owns, A!TypeOK
  <2>4. QED
    BY <2>2, <2>3
<1>3. ASSUME NEW d \in Device, A!MakeRoot(d) PROVE OwnerInv'
  <2>1. UNCHANGED <<name, password, redis>> /\ signup[d] = "make"
    BY <1>3 DEF A!MakeRoot, A!users
  <2>2. signup' \in {[signup EXCEPT ![d] = "ok"], [signup EXCEPT ![d] = "refused"]}
    BY <1>3 DEF A!MakeRoot, A!Answer
  <2>3. /\ root \subseteq root' /\ broken \subseteq broken' /\ name[d] \in root' \cup broken'
        /\ root' \cup late' \subseteq root \cup late \cup {name[d]}
    BY <1>3 DEF A!MakeRoot
  <2>4. redis[name[d]] # None
    BY <1>t, <2>1, AccountsFit DEF OwnerInv, Owns, A!TypeOK
  <2>5. \A e \in Device : e # d /\ Owns(e) => name[e] # name[d]
    BY <2>1 DEF OwnerInv, Owns
  <2>6. \A e \in Device : /\ e # d => signup'[e] = signup[e]
                          /\ signup'[d] \in {"ok", "refused"}
    BY <1>t, <2>2 DEF A!TypeOK
  <2>7. \A e \in Device : Owns(e)' => Owns(e)
    BY <2>1, <2>6 DEF Owns
  <2>8. A!NameIsTheirs'
    BY <2>1, <2>3, <2>6, <2>7 DEF OwnerInv, A!NameIsTheirs, Owns
  <2>9. \A e \in Device : signup'[e] = "make" => name'[e] \notin root' \cup late'
    BY <2>1, <2>3, <2>5, <2>6 DEF OwnerInv, Owns
  <2>10. QED
    BY <1>t, <2>1, <2>3, <2>4, <2>7, <2>8, <2>9 DEF OwnerInv
<1>4. ASSUME NEW n \in UserName, A!LateRoot(n) PROVE OwnerInv'
  <2>1. /\ UNCHANGED <<name, password, redis, signup, broken>>
        /\ root' = root \cup {n} /\ n \in late /\ late' \subseteq late
    BY <1>4 DEF A!LateRoot, A!users
  <2>2. QED
    BY <1>t, <2>1 DEF OwnerInv, A!NameIsTheirs, Owns
<1>5. QED
  BY <1>1, <1>2, <1>3, <1>4
     DEF A!Next, A!vars, A!users, A!Joins, A!Request, A!Login, A!Send, A!Expires

\* OwnerInv holds when nobody has signed up.
LEMMA OwnerInit == A!Init => OwnerInv
<1>1. A!Init => A!NameIsTheirs
  BY DEF A!Init, A!NameIsTheirs
<1>2. A!Init => \A d \in Device : ~Owns(d)
  BY DEF A!Init, Owns
<1>3. QED
  BY <1>1, <1>2, AccountTypeInit DEF A!Init, OwnerInv

\* A name belongs to the device that was told so, and only to it, with the
\* password it chose, and it has a root unless making it failed (NameIsTheirs).
THEOREM OneOwner ==
    A!Spec => []NameIsTheirs
<1>1. OwnerInv /\ [A!Next]_(A!vars) => OwnerInv'
  BY OwnerStep
<1>2. OwnerInv => NameIsTheirs
  BY DEF OwnerInv, NameIsTheirs
<1>3. QED
  BY <1>1, <1>2, OwnerInit, PTL DEF A!Spec

\* Another signup never empties a root that is in use (RootKept); only the set
\* of a signup that timed out may, when it is made late.
THEOREM RootsStay ==
    A!Spec => RootKept
<1>1. OwnerInv /\ [A!Next]_(A!vars) => OwnerInv'
  BY OwnerStep
<1>2. OwnerInv /\ [A!Next]_(A!vars) => [\A n \in used : n \in used' \/ n \in late]_(A!vars)
  <2> SUFFICES ASSUME OwnerInv, [A!Next]_(A!vars), NEW n \in used, n \notin used', n \notin late
               PROVE  FALSE
    OBVIOUS
  <2>1. ASSUME NEW d \in Device, A!MakeRoot(d) PROVE FALSE
    <3>1. n = name[d] /\ signup[d] = "make"
      BY <2>1 DEF A!MakeRoot
    <3>2. QED
      BY <3>1 DEF OwnerInv, A!TypeOK
  <2>2. ASSUME NEW m \in UserName, A!LateRoot(m) PROVE FALSE
    BY <2>2 DEF A!LateRoot
  <2>3. ASSUME NEW d \in Device, A!Send(d) PROVE FALSE
    BY <2>3 DEF A!Send
  <2>4. used' = used \/ (\E d \in Device : A!MakeRoot(d) \/ A!Send(d)) \/ \E m \in UserName : A!LateRoot(m)
    BY DEF A!Next, A!vars, A!Reserve, A!Joins, A!Request, A!Login, A!Expires
  <2>5. QED
    BY <2>1, <2>2, <2>3, <2>4
<1>3. QED
  BY <1>1, <1>2, OwnerInit, PTL DEF A!Spec, A!RootKept, RootKept

-----------------------------------------------------------------------------
(* KVClient: how often a put is done. *)

\* The puts that leaders work on after the timeout, in all.
LateTotal == Total(unfinished, Replica)

\* The servers that the call has tried.
Tried == Cardinality(Replica \ untried)

\* What OncePerServer needs to be inductive: until the call returns, the put
\* may be done once more than it was, and the server at hand is tried.
CallInv ==
    /\ K!TypeOK
    /\ done + LateTotal <= Tried
    /\ phase # "returned" => done + LateTotal < Tried

\* The fold of OncePerServer.
LEMMA LateFold ==
    ASSUME K!TypeOK
    PROVE  K!OncePerServer <=> done + LateTotal + (IF phase = "wait" THEN 1 ELSE 0) <= Tried
BY DEF K!TypeOK, K!OncePerServer, LateTotal, Tried, Total, Adder, Adds, Chosen,
       K!SumFunction, K!SumFunctionOnSet, K!FoldFunctionOnSet, K!MapThenFoldSet,
       K!Cardinality, Cardinality

\* Another number of one element changes the total by as much.
LEMMA TotalExcept ==
    ASSUME NEW S, IsFiniteSet(S), NEW h \in [S -> Nat], NEW x \in S, NEW c \in Nat
    PROVE  /\ Total(h, S) \in Nat
           /\ Total([h EXCEPT ![x] = c], S) + h[x] = Total(h, S) + c
<1> DEFINE g == [h EXCEPT ![x] = c]
           T == S \ {x}
<1>1. /\ IsFiniteSet(T) /\ g[x] = c /\ h[x] \in Nat /\ (\A y \in S : h[y] \in Nat)
      /\ (\A y \in S : g[y] \in Nat) /\ \A y \in T : g[y] = h[y] /\ h[y] \in Nat
  BY FS_RemoveElement
<1> HIDE DEF g
<1>2. Total(h, S) = h[x] + Total(h, S \ {x}) /\ Total(g, S) = g[x] + Total(g, S \ {x})
  BY <1>1, TotalRemove
<1> HIDE DEF T
<1>3. Total(g, T) = Total(h, T) /\ Total(h, T) \in Nat
  BY <1>1, TotalSame, AdderAdds
<1> QED BY <1>1, <1>2, <1>3 DEF g, T

\* The next server of the list is one more that is tried; without one the call
\* returns.
LEMMA TriesNext ==
    ASSUME K!TypeOK, K!TryNext
    PROVE  /\ url' \in Replica /\ untried' \subseteq Replica /\ Tried \in Nat /\ Tried' \in Nat
           /\ result' \in {"none", "success", "fail", "error"}
           /\ \/ phase' = "returned" /\ Tried' = Tried
              \/ phase' = "send" /\ Tried' = Tried + 1
<1>1. untried \subseteq Replica /\ url \in Replica /\ result \in {"none", "success", "fail", "error"}
  BY DEF K!TypeOK
<1>2. IsFiniteSet(Replica \ untried) /\ Tried \in Nat
  BY FS_Difference, FS_CardinalityType, ServersFit DEF Tried
<1>3. CASE untried = {} /\ K!Returns("error")
  <2>1. phase' = "returned" /\ result' = "error" /\ UNCHANGED <<url, untried>>
    BY <1>3 DEF K!Returns
  <2>2. Tried' = Tried
    BY <2>1 DEF Tried
  <2> QED BY <1>1, <1>2, <2>1, <2>2
<1>4. CASE url' \in untried /\ untried' = untried \ {url'} /\ phase' = "send" /\ UNCHANGED result
  <2> DEFINE T == Replica \ untried
  <2>1. Replica \ untried' = T \cup {url'} /\ url' \notin T
    BY <1>1, <1>4
  <2>2. Cardinality(T \cup {url'}) = Cardinality(T) + 1
    BY <1>2, <2>1, FS_AddElement
  <2>3. Tried' = Tried + 1
    BY <2>1, <2>2 DEF Tried
  <2> QED BY <1>1, <1>2, <1>4, <2>3
<1> QED BY <1>3, <1>4 DEF K!TryNext

\* A call that has not begun has tried one server.
LEMMA CallInit == K!Init => CallInv
<1> SUFFICES ASSUME K!Init PROVE CallInv
  OBVIOUS
<1>1. K!TypeOK
  BY DEF K!Init, K!TypeOK, K!GroupInit, K!GroupType
<1>2. Replica \ untried = {url} /\ phase = "idle" /\ done = 0
  BY DEF K!Init
<1>3. Tried = 1
  BY <1>2, FS_Singleton DEF Tried
<1>4. LateTotal = 0
  <2> DEFINE Bad == {n \in Nat : \E S \in SUBSET Replica : Cardinality(S) = n /\ Total(unfinished, S) # 0}
  <2>1. unfinished = [n \in Replica |-> 0]
    BY DEF K!Init
  <2>2. \A S \in SUBSET Replica : IsFiniteSet(S) /\ Cardinality(S) \in Nat
    BY FS_Subset, FS_CardinalityType, ServersFit
  <2>3. ASSUME Bad # {} PROVE FALSE
    <3>1. PICK n \in Bad : \A m \in Bad : n <= m
      BY <2>3, Smallest
    <3>2. PICK S \in SUBSET Replica : Cardinality(S) = n /\ Total(unfinished, S) # 0
      OBVIOUS
    <3>3. S # {}
      BY <3>2, TotalEmpty
    <3>4. PICK x \in S : TRUE
      BY <3>3
    <3>5. Total(unfinished, S) = unfinished[x] + Total(unfinished, S \ {x})
      <4>1. IsFiniteSet(S) /\ \A y \in S : unfinished[y] \in Nat
        BY <2>1, <2>2
      <4> QED BY <3>4, <4>1, TotalRemove
    <3>6. Cardinality(S \ {x}) = n - 1 /\ Cardinality(S \ {x}) \in Nat
      BY <2>2, <3>2, <3>4, FS_RemoveElement, FS_CardinalityType
    <3>7. Total(unfinished, S \ {x}) = 0
      <4> DEFINE T == S \ {x}
      <4>1. T \in SUBSET Replica /\ Cardinality(T) \in Nat /\ Cardinality(T) < n
        BY <3>6
      <4> HIDE DEF T
      <4>2. Total(unfinished, T) = 0
        BY <3>1, <4>1
      <4> QED BY <4>2 DEF T
    <3>8. unfinished[x] = 0
      BY <2>1, <3>4
    <3> QED BY <3>2, <3>5, <3>7, <3>8
  <2>4. Replica \in SUBSET Replica
    OBVIOUS
  <2> QED BY <2>2, <2>3, <2>4 DEF LateTotal
<1> QED BY <1>1, <1>2, <1>3, <1>4 DEF CallInv

\* A put that is done now: what is done and late stays within the bound.
LEMMA DoneNow ==
    ASSUME NEW d \in Nat, NEW l \in Nat, NEW t \in Nat, NEW e \in {d, d + 1}
    PROVE  d + l < t => e + l <= t
OBVIOUS

\* A late put that ends.
LEMMA LateEnded ==
    ASSUME NEW d \in Nat, NEW l \in Nat, NEW t \in Nat, NEW m \in Nat, NEW e \in {d, d + 1}
    PROVE  m = l - 1 => /\ d + l <= t => e + m <= t
                        /\ d + l < t => e + m < t
OBVIOUS

\* Late puts that are lost.
LEMMA LateLost ==
    ASSUME NEW d \in Nat, NEW l \in Nat, NEW t \in Nat, NEW m \in Nat
    PROVE  m <= l => /\ d + l <= t => d + m <= t
                     /\ d + l < t => d + m < t
OBVIOUS

\* CallInv is inductive.
LEMMA CallStep == ASSUME CallInv, [K!Next]_(K!vars) PROVE CallInv'
<1>t. /\ K!GroupType /\ phase \in {"idle", "send", "wait", "returned"}
      /\ url \in Replica /\ untried \subseteq Replica
      /\ result \in {"none", "success", "fail", "error"}
      /\ unfinished \in [Replica -> Nat] /\ done \in Nat
  BY DEF CallInv, K!TypeOK
<1>n. Tried \in Nat
  BY FS_Difference, FS_CardinalityType, ServersFit DEF Tried
<1>l. ASSUME NEW x \in Replica, NEW c \in Nat, unfinished' = [unfinished EXCEPT ![x] = c]
      PROVE  LateTotal \in Nat /\ LateTotal' \in Nat /\ LateTotal' + unfinished[x] = LateTotal + c
             /\ unfinished' \in [Replica -> Nat]
  <2>1. unfinished' \in [Replica -> Nat]
    BY <1>t, <1>l
  <2>2. Total(unfinished, Replica) \in Nat
        /\ Total(unfinished', Replica) + unfinished[x] = Total(unfinished, Replica) + c
    BY <1>t, <1>l, TotalExcept, ServersFit
  <2>3. Total(unfinished', Replica) \in Nat
    <3> DEFINE u == unfinished'
    <3>1. \A y \in Replica : u[y] \in Nat
      BY <2>1
    <3> HIDE DEF u
    <3> QED BY <3>1, AdderAdds, ServersFit DEF u
  <2> QED BY <2>1, <2>2, <2>3 DEF LateTotal
<1>m. LateTotal \in Nat
  <2>1. \A y \in Replica : unfinished[y] \in Nat
    BY <1>t
  <2> QED BY <2>1, AdderAdds, ServersFit DEF LateTotal
<1>c. done + LateTotal <= Tried /\ (phase # "returned" => done + LateTotal < Tried)
  BY DEF CallInv
<1>g. ASSUME UNCHANGED K!group \/ (\E n \in Replica : K!GroupStep(n) \/ K!Restarts(n)) \/ K!Silent
      PROVE  K!GroupType'
  <2>1. CASE UNCHANGED K!group \/ K!Silent
    BY <1>t, <2>1 DEF K!group, K!Silent, K!Quieter, K!GroupType
  <2>2. ASSUME NEW n \in Replica, K!GroupStep(n) \/ K!Restarts(n) PROVE K!GroupType'
    BY <1>t, <2>2 DEF K!GroupStep, K!Campaigns, K!Wins, K!Follows, K!StepsDown, K!Restarts,
                      K!Quieter, K!GroupType
  <2> QED BY <1>g, <2>1, <2>2
<1>q. ASSUME K!GroupType', (phase \in {"idle", "send", "wait", "returned"})',
             (url \in Replica)', (untried \subseteq Replica)',
             (result \in {"none", "success", "fail", "error"})',
             (unfinished \in [Replica -> Nat])', (done \in Nat)',
             (done + LateTotal <= Tried)', (phase # "returned" => done + LateTotal < Tried)'
      PROVE  CallInv'
  BY <1>q DEF CallInv, K!TypeOK
<1>1. CASE UNCHANGED K!call /\ K!GroupType'
  <2>1. UNCHANGED <<phase, url, untried, result, unfinished, done, LateTotal, Tried>>
    BY <1>1 DEF K!call, LateTotal, Tried
  <2> QED BY <1>1, <1>t, <1>c, <1>q, <2>1
<1>2. CASE K!Begin \/ K!Redirect \/ K!Takes
  <2>1. K!GroupType' /\ UNCHANGED <<untried, result, unfinished, done, LateTotal, Tried>>
    BY <1>2, <1>g DEF K!Begin, K!Redirect, K!Takes, LateTotal, Tried
  <2>2. phase # "returned" /\ phase' \in {"send", "wait"}
    BY <1>2 DEF K!Begin, K!Redirect, K!Takes
  <2>3. url' \in Replica
    BY <1>2, <1>t DEF K!Begin, K!Redirect, K!Takes, K!GroupType
  <2> QED BY <1>t, <1>c, <1>q, <2>1, <2>2, <2>3
<1>3. CASE K!Fails \/ K!NotNow \/ K!Answers
  <2>1. K!GroupType' /\ UNCHANGED <<unfinished, LateTotal>>
    BY <1>3, <1>g DEF K!Fails, K!NotNow, K!Answers, LateTotal
  <2>2. CASE K!Fails
    <3>1. UNCHANGED done /\ phase = "send" /\ K!TryNext /\ K!TypeOK
      BY <2>2 DEF K!Fails, CallInv
    <3> QED BY <1>t, <1>c, <1>m, <1>q, <2>1, <3>1, TriesNext
  <2>3. CASE K!NotNow \/ K!Answers
    <3>1. /\ phase # "returned" /\ phase' = "returned" /\ UNCHANGED <<url, untried, Tried>>
          /\ result' \in {"success", "fail"} /\ done' \in {done, done + 1}
      BY <2>3 DEF K!NotNow, K!Answers, K!Returns, Tried
    <3>2. done' + LateTotal' <= Tried'
      <4>1. LateTotal' = LateTotal /\ Tried' = Tried /\ done + LateTotal < Tried
        BY <1>c, <2>1, <3>1
      <4>2. done \in Nat /\ LateTotal \in Nat /\ Tried \in Nat
        BY <1>t, <1>m, <1>n
      <4> QED BY <3>1, <4>1, <4>2, DoneNow
    <3> QED BY <1>t, <1>q, <2>1, <3>1, <3>2
  <2> QED BY <1>3, <2>2, <2>3
<1>4. CASE K!TimesOut
  <2>1. K!GroupType' /\ UNCHANGED done /\ phase = "wait" /\ K!TryNext /\ K!TypeOK
        /\ unfinished' = [unfinished EXCEPT ![url] = unfinished[url] + 1]
    BY <1>4, <1>g DEF K!TimesOut, CallInv
  <2>2. LateTotal' = LateTotal + 1 /\ unfinished' \in [Replica -> Nat] /\ unfinished[url] \in Nat
    <3>1. unfinished[url] \in Nat /\ unfinished[url] + 1 \in Nat
      BY <1>t
    <3>2. /\ LateTotal' + unfinished[url] = LateTotal + (unfinished[url] + 1)
          /\ LateTotal' \in Nat /\ unfinished' \in [Replica -> Nat]
      BY <1>l, <1>t, <2>1, <3>1
    <3> QED BY <1>m, <3>1, <3>2
  <2> QED BY <1>t, <1>c, <1>m, <1>q, <2>1, <2>2, TriesNext
<1>5. ASSUME NEW n \in Replica, K!LateEnds(n) PROVE CallInv'
  <2>1. /\ K!GroupType' /\ UNCHANGED <<phase, url, untried, result, Tried>>
        /\ unfinished[n] > 0 /\ unfinished' = [unfinished EXCEPT ![n] = unfinished[n] - 1]
        /\ done' \in {done, done + 1}
    BY <1>5, <1>g DEF K!LateEnds, Tried
  <2>2. unfinished[n] \in Nat /\ unfinished[n] - 1 \in Nat
    BY <1>t, <2>1
  <2>3. /\ LateTotal' + unfinished[n] = LateTotal + (unfinished[n] - 1)
        /\ LateTotal' \in Nat /\ unfinished' \in [Replica -> Nat]
    BY <1>l, <2>1, <2>2
  <2>4. LateTotal' = LateTotal - 1
    BY <1>m, <2>2, <2>3
  <2>5. done' + LateTotal' <= Tried' /\ (phase' # "returned" => done' + LateTotal' < Tried')
    <3>1. done \in Nat /\ LateTotal \in Nat /\ Tried \in Nat
      BY <1>t, <1>m, <1>n
    <3>2. /\ LateTotal' \in Nat /\ LateTotal' = LateTotal - 1 /\ Tried' = Tried
          /\ done' \in {done, done + 1}
      BY <2>1, <2>3, <2>4
    <3>3. /\ done + LateTotal <= Tried => done' + LateTotal' <= Tried
          /\ done + LateTotal < Tried => done' + LateTotal' < Tried
      BY <3>1, <3>2, LateEnded
    <3> QED BY <1>c, <2>1, <3>2, <3>3
  <2> QED BY <1>t, <1>q, <2>1, <2>3, <2>5
<1>6. ASSUME NEW n \in Replica, K!Crashes(n) PROVE CallInv'
  <2>1. K!GroupType' /\ unfinished' = [unfinished EXCEPT ![n] = 0] /\ UNCHANGED done /\ K!TypeOK
    BY <1>6, <1>g DEF K!Crashes, CallInv
  <2>2. LateTotal' <= LateTotal /\ LateTotal' \in Nat /\ unfinished' \in [Replica -> Nat]
    <3>1. LateTotal' + unfinished[n] = LateTotal + 0 /\ LateTotal' \in Nat
          /\ unfinished' \in [Replica -> Nat]
      BY <1>l, <2>1
    <3>2. unfinished[n] \in Nat
      BY <1>t
    <3> QED BY <1>m, <3>1, <3>2
  <2>3. CASE phase = "wait" /\ K!TryNext
    BY <1>t, <1>c, <1>m, <1>q, <2>1, <2>2, <2>3, TriesNext
  <2>4. CASE UNCHANGED <<phase, url, untried, result>>
    <3>1. Tried' = Tried
      BY <2>4 DEF Tried
    <3>2. done' + LateTotal' <= Tried' /\ (phase' # "returned" => done' + LateTotal' < Tried')
      <4>1. done \in Nat /\ LateTotal \in Nat /\ Tried \in Nat
        BY <1>t, <1>m, <1>n
      <4>2. /\ LateTotal' \in Nat /\ LateTotal' <= LateTotal /\ Tried' = Tried /\ done' = done
        BY <2>1, <2>2, <3>1
      <4>3. /\ done + LateTotal <= Tried => done' + LateTotal' <= Tried
            /\ done + LateTotal < Tried => done' + LateTotal' < Tried
        BY <4>1, <4>2, LateLost
      <4> QED BY <1>c, <2>4, <4>2, <4>3
    <3> QED BY <1>t, <1>q, <2>1, <2>2, <2>4, <3>2
  <2> QED BY <1>6, <2>3, <2>4 DEF K!Crashes
<1>7. CASE UNCHANGED K!vars
  BY <1>1, <1>7, <1>g DEF K!vars
<1>8. ASSUME K!Next PROVE CallInv'
  BY <1>8, <1>1, <1>2, <1>3, <1>4, <1>5, <1>6, <1>g DEF K!Next, K!Library
<1> QED BY <1>7, <1>8

\* A call has its put done at most once for each server it tried, however often
\* it is redirected, times out or outlives a leader (OncePerServer).
THEOREM PutsBounded == K!Spec => []OncePerServer
<1>1. CallInv /\ [K!Next]_(K!vars) => CallInv'
  BY CallStep
<1>2. CallInv => OncePerServer
  <2> SUFFICES ASSUME CallInv PROVE K!OncePerServer
    BY DEF OncePerServer
  <2>1. K!TypeOK /\ done + LateTotal <= Tried /\ (phase # "returned" => done + LateTotal < Tried)
    BY DEF CallInv
  <2>2. LateTotal \in Nat /\ Tried \in Nat /\ done \in Nat
    <3>1. \A y \in Replica : unfinished[y] \in Nat
      BY <2>1 DEF K!TypeOK
    <3>2. Total(unfinished, Replica) \in Nat
      BY <3>1, AdderAdds, ServersFit
    <3> QED BY <2>1, <3>2, FS_Difference, FS_CardinalityType, ServersFit DEF Tried, LateTotal, K!TypeOK
  <2>3. done + LateTotal + (IF phase = "wait" THEN 1 ELSE 0) <= Tried
    BY <2>1, <2>2
  <2> QED BY <2>1, <2>3, LateFold
<1> QED BY <1>1, <1>2, CallInit, PTL DEF K!Spec

-----------------------------------------------------------------------------
(* All parts side by side. *)

\* Every part keeps its types (TypesOK), in the specification that TLC checks:
\* the step of one part leaves the others as they are.
THEOREM TypesCorrect == MCSpec => []TypesOK
<1> DEFINE Inv == CacheInv /\ PollTypes /\ WatcherType /\ A!TypeOK /\ CallInv
<1>1. MCInit => Inv
  BY CacheInit, PollTypesInit, WatcherTypeInit, AccountTypeInit, CallInit DEF MCInit
<1>2. Inv /\ [MCNext]_all => Inv'
  <2> SUFFICES ASSUME Inv, [MCNext]_all PROVE Inv'
    OBVIOUS
  <2>1. [Next]_vars
    BY DEF MCNext, all
  <2>2. [N!Next]_(N!vars)
    BY DEF MCNext, MCNotification, all, notification, N!vars
  <2>3. [W!Next]_(W!vars)
    BY DEF MCNext, all, watching, W!vars, W!tree, W!watcher, W!sync
  <2>4. [A!Next]_(A!vars)
    BY DEF MCNext, all, account, A!vars
  <2>5. [K!Next]_(K!vars)
    BY DEF MCNext, all, calling, K!vars, K!group, K!call
  <2>6. CacheInv'
    BY <2>1, CacheStep
  <2>7. PollTypes'
    BY <2>2, PollTypesStep
  <2>8. WatcherType'
    BY <2>3, WatcherTypeStep
  <2>9. A!TypeOK'
    BY <2>4, AccountTypeStep
  <2>10. CallInv'
    BY <2>5, CallStep
  <2> QED BY <2>6, <2>7, <2>8, <2>9, <2>10
<1>3. Inv => TypesOK
  BY DEF TypesOK, CacheInv, PollTypes, WatcherType, CallInv
<1> HIDE DEF Inv
<1> QED BY <1>1, <1>2, <1>3, PTL DEF MCSpec
=============================================================================
