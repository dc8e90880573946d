---------------------------- MODULE CommonFacts ----------------------------
(***************************************************************************)
(* Facts that the proofs of several components use.  About queues (the     *)
(* ready queue of the thread library, the connections a listener has not   *)
(* accepted, the lines stdio has read ahead): what appending at the end    *)
(* and removing the front does.  About finite sets, where they take        *)
(* induction: the least of some numbers exists; the sum of a function over *)
(* a finite set (SumFunction of the community modules) does not depend on  *)
(* the order, and changes with one value.                                  *)
(***************************************************************************)
EXTENDS Integers, Sequences, Functions, FiniteSetTheorems, WellFoundedInduction, TLAPS

-----------------------------------------------------------------------------
(***************************************************************************)
(* Queues.                                                                 *)
(***************************************************************************)
\* The members of a queue belong to the set it is over.
LEMMA RangeInSet ==
    ASSUME NEW S, NEW q \in Seq(S)
    PROVE  Range(q) \subseteq S
BY DEF Range

\* The empty queue has no member.
LEMMA EmptyQueue ==
    /\ Range(<<>>) = {}
    /\ IsInjective(<<>>)
BY DEF Range, IsInjective

\* en_queue adds its argument, and keeps the queue free of duplicates if the
\* argument was not in it.
LEMMA Enqueued ==
    ASSUME NEW S, NEW q \in Seq(S), NEW x \in S
    PROVE  /\ Append(q, x) \in Seq(S)
           /\ Append(q, x) # <<>>
           /\ Len(Append(q, x)) = Len(q) + 1
           /\ Range(Append(q, x)) = Range(q) \cup {x}
           /\ IsInjective(q) /\ x \notin Range(q) => IsInjective(Append(q, x))
<1>1. Append(q, x) \in Seq(S) /\ Len(Append(q, x)) = Len(q) + 1
  OBVIOUS
<1>2. /\ \A i \in 1 .. Len(q) : Append(q, x)[i] = q[i]
      /\ Append(q, x)[Len(q) + 1] = x
  OBVIOUS
<1>3. DOMAIN Append(q, x) = 1 .. Len(q) + 1 /\ DOMAIN q = 1 .. Len(q)
  OBVIOUS
<1>4. Range(Append(q, x)) = Range(q) \cup {x}
  BY <1>2, <1>3 DEF Range
<1>5. IsInjective(q) /\ x \notin Range(q) => IsInjective(Append(q, x))
  BY <1>2, <1>3 DEF Range, IsInjective
<1>6. Append(q, x) # <<>>
  <2>1. Len(q) \in Nat /\ Len(<<>>) = 0
    OBVIOUS
  <2> QED
    BY <2>1, <1>1
<1> QED
  BY <1>1, <1>4, <1>5, <1>6

\* de_queue removes the front and only the front.
LEMMA Dequeued ==
    ASSUME NEW S, NEW q \in Seq(S), q # <<>>
    PROVE  /\ Head(q) \in S
           /\ Tail(q) \in Seq(S)
           /\ Len(q) > 0
           /\ Len(Tail(q)) = Len(q) - 1
           /\ Range(q) = Range(Tail(q)) \cup {Head(q)}
           /\ IsInjective(q) => IsInjective(Tail(q)) /\ Head(q) \notin Range(Tail(q))
<1>1. /\ Head(q) \in S /\ Tail(q) \in Seq(S)
      /\ Len(q) > 0 /\ Len(Tail(q)) = Len(q) - 1
  OBVIOUS
<1>2. /\ Head(q) = q[1]
      /\ \A i \in 1 .. Len(q) - 1 : Tail(q)[i] = q[i + 1]
  OBVIOUS
<1>3. DOMAIN Tail(q) = 1 .. Len(q) - 1 /\ DOMAIN q = 1 .. Len(q)
  OBVIOUS
<1>4. Range(q) = Range(Tail(q)) \cup {Head(q)}
  <2>1. ASSUME NEW x \in Range(q)
        PROVE  x \in Range(Tail(q)) \cup {Head(q)}
    <3>1. PICK i \in 1 .. Len(q) : x = q[i]
      BY <1>3 DEF Range
    <3>2. CASE i = 1
      BY <3>1, <3>2, <1>2
    <3>3. CASE i # 1
      <4>1. i - 1 \in 1 .. Len(q) - 1 /\ Tail(q)[i - 1] = q[i]
        BY <3>3, <1>2
      <4> QED
        BY <4>1, <3>1, <1>3 DEF Range
    <3> QED
      BY <3>2, <3>3
  <2>2. ASSUME NEW x \in Range(Tail(q)) \cup {Head(q)}
        PROVE  x \in Range(q)
    BY <1>1, <1>2, <1>3 DEF Range
  <2> QED
    BY <2>1, <2>2
<1>5. ASSUME IsInjective(q)
      PROVE  IsInjective(Tail(q)) /\ Head(q) \notin Range(Tail(q))
  <2>1. IsInjective(Tail(q))
    BY <1>1, <1>2, <1>3, <1>5 DEF IsInjective
  <2>2. Head(q) \notin Range(Tail(q))
    BY <1>1, <1>2, <1>3, <1>5 DEF IsInjective, Range
  <2> QED
    BY <2>1, <2>2
<1> QED
  BY <1>1, <1>4, <1>5

\* Appending nothing, or a queue of one.
LEMMA Concat ==
    ASSUME NEW S, NEW q \in Seq(S), NEW x \in S
    PROVE  /\ q \o (<<>> \o <<>>) = q
           /\ q \o (<<x>> \o <<>>) = Append(q, x)
           /\ q \o (<<>> \o <<x>>) = Append(q, x)
           /\ q \o <<x>> = Append(q, x)
OBVIOUS

-----------------------------------------------------------------------------
(***************************************************************************)
(* Finite sets.                                                            *)
(***************************************************************************)
\* Induction over finite sets, without an operator: of any sets of a finite set's
\* elements, one has none of the others in it.
LEMMA Smallest ==
    ASSUME NEW S, IsFiniteSet(S), NEW C \in SUBSET SUBSET S, C # {}
    PROVE  \E T \in C : \A U \in C : U \subseteq T => U = T
<1> DEFINE R == StrictSubsetOrdering(S)
<1>1. IsWellFoundedOn(R, SUBSET S)
  BY FS_FiniteSubsetsOfFinite, FS_StrictSubsetOrderingWellFounded
<1>2. PICK T \in C : \A U \in C : <<U, T>> \notin R
  <2> HIDE DEF R
  <2> QED
    BY <1>1, WFMin
<1>3. \A U \in C : U \subseteq T => U = T
  BY <1>2 DEF StrictSubsetOrdering
<1> QED
  BY <1>3

\* Of some natural numbers one is the least.
LEMMA LeastNumber ==
    ASSUME NEW C \in SUBSET Nat, C # {}
    PROVE  \E n \in C : \A m \in C : n <= m
<1>1. PICK c \in C : TRUE
  OBVIOUS
<1> DEFINE B == {m \in C : m <= c}
           D == {0 .. n : n \in B}
<1>2. IsFiniteSet(0 .. c)
  BY FS_Interval
<1>3. D \in SUBSET SUBSET (0 .. c) /\ D # {}
  <2>1. c \in B /\ \A n \in B : n \in Nat /\ n <= c
    BY <1>1
  <2>2. \A n \in B : 0 .. n \in SUBSET (0 .. c)
    BY <1>1, <2>1
  <2> HIDE DEF B
  <2> QED
    BY <2>1, <2>2
<1>4. PICK T \in D : \A U \in D : U \subseteq T => U = T
  <2> DEFINE S == 0 .. c
  <2>1. IsFiniteSet(S) /\ D \in SUBSET SUBSET S /\ D # {}
    BY <1>2, <1>3
  <2> HIDE DEF D, S
  <2> QED
    BY <2>1, Smallest
<1>5. PICK n \in B : T = 0 .. n
  OBVIOUS
<1>6. ASSUME NEW m \in C, m < n PROVE FALSE
  <2>1. m \in B /\ m \in Nat /\ n \in Nat
    BY <1>1, <1>5, <1>6
  <2>2. 0 .. m \in D
    <3> HIDE DEF B
    <3> QED
      BY <2>1
  <2>3. 0 .. m \subseteq 0 .. n /\ n \in 0 .. n /\ n \notin 0 .. m
    BY <1>6, <2>1
  <2> HIDE DEF D, B
  <2> QED
    BY <1>4, <1>5, <2>2, <2>3
<1> QED
  BY <1>1, <1>5, <1>6

-----------------------------------------------------------------------------
(***************************************************************************)
(* The recursive function behind the sum.                                  *)
(***************************************************************************)
Some(s) == CHOOSE x \in s : TRUE
IsIter(g, f, S) ==
    g = [s \in SUBSET S |-> IF s = {} THEN 0 ELSE f[Some(s)] + g[s \ {Some(s)}]]
Iter(f, S) == CHOOSE g : IsIter(g, f, S)

LEMMA SomeIsIn == \A s : s # {} => Some(s) \in s
BY DEF Some

LEMMA SumIsIter == \A f, S : SumFunctionOnSet(f, S) = Iter(f, S)[S]
BY DEF SumFunctionOnSet, FoldFunctionOnSet, MapThenFoldSet, Iter, IsIter, Some

\* There is one such function at most, also on the subsets of a subset.
LEMMA IterUnique ==
    ASSUME NEW S, IsFiniteSet(S), NEW U \in SUBSET S, NEW f, NEW g, NEW h,
           IsIter(g, f, S), IsIter(h, f, U)
    PROVE  \A s \in SUBSET U : g[s] = h[s]
<1> DEFINE C == {s \in SUBSET U : g[s] # h[s]}
<1>1. SUFFICES ASSUME C # {} PROVE FALSE
  OBVIOUS
<1>2. C \in SUBSET SUBSET U /\ IsFiniteSet(U)
  BY FS_Subset
<1>3. PICK T \in C : \A V \in C : V \subseteq T => V = T
  <2> HIDE DEF C
  <2> QED
    BY <1>1, <1>2, Smallest
<1>4. /\ g[T] = IF T = {} THEN 0 ELSE f[Some(T)] + g[T \ {Some(T)}]
      /\ h[T] = IF T = {} THEN 0 ELSE f[Some(T)] + h[T \ {Some(T)}]
  <2>1. T \in SUBSET U /\ T \in SUBSET S
    OBVIOUS
  <2> HIDE DEF C
  <2> QED
    BY <2>1 DEF IsIter
<1>5. T # {} => Some(T) \in T
  BY SomeIsIn
<1>6. T # {} => g[T \ {Some(T)}] = h[T \ {Some(T)}]
  <2>1. T # {} => T \ {Some(T)} # T /\ T \ {Some(T)} \subseteq T
    BY <1>5
  <2> QED
    BY <1>3, <2>1
<1> QED
  BY <1>4, <1>6

\* There is one.
LEMMA IterExists ==
    ASSUME NEW S, IsFiniteSet(S), NEW f
    PROVE  IsIter(Iter(f, S), f, S)
<1> DEFINE C == {T \in SUBSET S : ~ \E g : IsIter(g, f, T)}
<1>1. SUFFICES ASSUME C # {} PROVE FALSE
  <2>1. C = {} => \E g : IsIter(g, f, S)
    OBVIOUS
  <2> QED
    BY <2>1 DEF Iter
<1>2. PICK T \in C : \A V \in C : V \subseteq T => V = T
  <2>1. C \in SUBSET SUBSET S
    OBVIOUS
  <2> HIDE DEF C
  <2> QED
    BY <1>1, <2>1, Smallest
<1>3. T \in SUBSET S /\ ~ \E g : IsIter(g, f, T)
  OBVIOUS
<1>4. ASSUME NEW U \in SUBSET T, U # T
      PROVE  IsIter(Iter(f, U), f, U)
  <2>1. \E g : IsIter(g, f, U)
    BY <1>2, <1>4
  <2> QED
    BY <2>1 DEF Iter
<1> HIDE DEF C
<1> DEFINE At(s) == IF s = {} THEN 0
                    ELSE f[Some(s)] + Iter(f, s \ {Some(s)})[s \ {Some(s)}]
           g == [s \in SUBSET T |-> At(s)]
<1>5. ASSUME NEW U \in SUBSET T, U # T
      PROVE  At(U) = Iter(f, U)[U]
  <2>1. IsIter(Iter(f, U), f, U)
    BY <1>4, <1>5
  <2>2. Iter(f, U)[U] = IF U = {} THEN 0
                        ELSE f[Some(U)] + Iter(f, U)[U \ {Some(U)}]
    <3>1. U \in SUBSET U
      OBVIOUS
    <3> QED
      BY <2>1, <3>1 DEF IsIter
  <2>3. CASE U # {}
    <3> DEFINE V == U \ {Some(U)}
    <3>1. Some(U) \in U
      BY <2>3, SomeIsIn
    <3>2. V \in SUBSET U /\ V \in SUBSET T /\ V # T /\ V \in SUBSET V
      BY <3>1
    <3>3. IsIter(Iter(f, V), f, V) /\ IsFiniteSet(U)
      BY <1>3, <1>4, <3>2, FS_Subset
    <3> HIDE DEF V
    <3>4. Iter(f, U)[V] = Iter(f, V)[V]
      BY <2>1, <3>2, <3>3, IterUnique
    <3> QED
      BY <2>2, <2>3, <3>4 DEF V
  <2> QED
    BY <2>2, <2>3
<1>6. ASSUME NEW s \in SUBSET T, s # {}
      PROVE  At(s) = f[Some(s)] + At(s \ {Some(s)})
  <2>1. Some(s) \in s
    BY <1>6, SomeIsIn
  <2>2. s \ {Some(s)} \in SUBSET T /\ s \ {Some(s)} # T
    BY <2>1
  <2>3. At(s \ {Some(s)}) = Iter(f, s \ {Some(s)})[s \ {Some(s)}]
    <3> HIDE DEF At
    <3> QED
      BY <1>5, <2>2
  <2>4. At(s) = f[Some(s)] + Iter(f, s \ {Some(s)})[s \ {Some(s)}]
    BY <1>6
  <2> HIDE DEF At
  <2> QED
    BY <2>3, <2>4
<1>7. At({}) = 0
  OBVIOUS
<1> HIDE DEF At
<1>8. IsIter(g, f, T)
  <2>1. \A s \in SUBSET T :
           At(s) = IF s = {} THEN 0 ELSE f[Some(s)] + g[s \ {Some(s)}]
    BY <1>6, <1>7
  <2> QED
    BY <2>1 DEF IsIter
<1> QED
  BY <1>3, <1>8

-----------------------------------------------------------------------------
(***************************************************************************)
(* The sum, one element at a time.                                         *)
(***************************************************************************)
LEMMA SumOfNone == \A f : SumFunctionOnSet(f, {}) = 0
<1> TAKE f
<1>1. IsIter(Iter(f, {}), f, {})
  BY FS_EmptySet, IterExists
<1>2. {} \in SUBSET {}
  OBVIOUS
<1> QED
  BY <1>1, <1>2, SumIsIter DEF IsIter

LEMMA SumOfSome ==
    ASSUME NEW S, IsFiniteSet(S), S # {}, NEW f
    PROVE  /\ Some(S) \in S
           /\ SumFunctionOnSet(f, S)
                = f[Some(S)] + SumFunctionOnSet(f, S \ {Some(S)})
<1>1. Some(S) \in S
  BY SomeIsIn
<1> DEFINE U == S \ {Some(S)}
<1>2. U \in SUBSET S /\ IsFiniteSet(U) /\ S \in SUBSET S /\ U \in SUBSET U
  BY FS_Subset
<1>3. IsIter(Iter(f, S), f, S) /\ IsIter(Iter(f, U), f, U)
  BY <1>2, IterExists
<1>4. Iter(f, S)[S] = f[Some(S)] + Iter(f, S)[U]
  BY <1>2, <1>3 DEF IsIter
<1>5. Iter(f, S)[U] = Iter(f, U)[U]
  <2> HIDE DEF U
  <2> QED
    BY <1>2, <1>3, IterUnique
<1> QED
  BY <1>1, <1>4, <1>5, SumIsIter

\* Only what the function is on the set counts.
LEMMA SumAgrees ==
    ASSUME NEW S, IsFiniteSet(S), NEW f, NEW g, \A x \in S : f[x] = g[x]
    PROVE  SumFunctionOnSet(f, S) = SumFunctionOnSet(g, S)
<1> DEFINE C == {T \in SUBSET S : SumFunctionOnSet(f, T) # SumFunctionOnSet(g, T)}
<1>1. SUFFICES ASSUME C # {} PROVE FALSE
  OBVIOUS
<1>2. PICK T \in C : \A V \in C : V \subseteq T => V = T
  <2>1. C \in SUBSET SUBSET S
    OBVIOUS
  <2> HIDE DEF C
  <2> QED
    BY <1>1, <2>1, Smallest
<1>3. T # {}
  BY SumOfNone
<1>4. T \in SUBSET S /\ IsFiniteSet(T)
  BY FS_Subset
<1> DEFINE V == T \ {Some(T)}
<1>5. /\ Some(T) \in T
      /\ SumFunctionOnSet(f, T) = f[Some(T)] + SumFunctionOnSet(f, V)
      /\ SumFunctionOnSet(g, T) = g[Some(T)] + SumFunctionOnSet(g, V)
  BY <1>3, <1>4, SumOfSome
<1>6. V \in SUBSET S /\ V # T /\ V \subseteq T
  BY <1>4, <1>5
<1>7. SumFunctionOnSet(f, V) = SumFunctionOnSet(g, V)
  BY <1>2, <1>6
<1>8. f[Some(T)] = g[Some(T)]
  BY <1>4, <1>5
<1> QED
  BY <1>5, <1>7, <1>8

\* Any element may be taken first.
LEMMA SumWithout ==
    ASSUME NEW S, IsFiniteSet(S), NEW f, \A x \in S : f[x] \in Int
    PROVE  /\ SumFunctionOnSet(f, S) \in Int
           /\ \A x \in S : SumFunctionOnSet(f, S)
                             = f[x] + SumFunctionOnSet(f, S \ {x})
<1> DEFINE Good(T) == /\ SumFunctionOnSet(f, T) \in Int
                      /\ \A x \in T : SumFunctionOnSet(f, T)
                                        = f[x] + SumFunctionOnSet(f, T \ {x})
           C == {T \in SUBSET S : ~Good(T)}
<1>1. SUFFICES ASSUME C # {} PROVE FALSE
  OBVIOUS
<1>2. PICK T \in C : \A V \in C : V \subseteq T => V = T
  <2>1. C \in SUBSET SUBSET S
    OBVIOUS
  <2> HIDE DEF C
  <2> QED
    BY <1>1, <2>1, Smallest
<1>3. T \in SUBSET S /\ IsFiniteSet(T) /\ ~Good(T)
  BY FS_Subset
<1>4. \A V \in SUBSET T : V # T => Good(V)
  <2>1. \A V \in SUBSET T : V # T => V \notin C
    BY <1>2
  <2> HIDE DEF Good
  <2> QED
    BY <1>3, <2>1
<1>5. T # {}
  <2>1. Good({})
    BY SumOfNone
  <2> HIDE DEF Good
  <2> QED
    BY <1>3, <2>1
<1> HIDE DEF C
<1> DEFINE y == Some(T)
<1>6. y \in T /\ SumFunctionOnSet(f, T) = f[y] + SumFunctionOnSet(f, T \ {y})
  BY <1>3, <1>5, SumOfSome
<1> HIDE DEF y
<1>7. \A V \in SUBSET T : V # T => SumFunctionOnSet(f, V) \in Int
  BY <1>4
<1>8. f[y] \in Int /\ SumFunctionOnSet(f, T \ {y}) \in Int
  BY <1>3, <1>6, <1>7
<1>9. ASSUME NEW x \in T
      PROVE  SumFunctionOnSet(f, T) = f[x] + SumFunctionOnSet(f, T \ {x})
  <2>1. CASE x = y
    BY <1>6, <2>1
  <2>2. CASE x # y
    <3> DEFINE U == T \ {x}
               W == T \ {y}
    <3>1. /\ U \in SUBSET T /\ U # T /\ y \in U
          /\ W \in SUBSET T /\ W # T /\ x \in W
      BY <1>6, <2>2
    <3>2. U \ {y} = W \ {x} /\ U \ {y} \in SUBSET T /\ U \ {y} # T
      BY <1>6
    <3>3. /\ SumFunctionOnSet(f, U) = f[y] + SumFunctionOnSet(f, U \ {y})
          /\ SumFunctionOnSet(f, W) = f[x] + SumFunctionOnSet(f, W \ {x})
      BY <1>4, <3>1
    <3>4. f[x] \in Int /\ SumFunctionOnSet(f, U \ {y}) \in Int
      BY <1>3, <1>7, <3>2
    <3>5. SumFunctionOnSet(f, T) = f[y] + SumFunctionOnSet(f, W)
      BY <1>6
    <3> HIDE DEF U, W
    <3>6. SumFunctionOnSet(f, T) = f[x] + SumFunctionOnSet(f, U)
      <4> DEFINE c == SumFunctionOnSet(f, U \ {y})
      <4>1. SumFunctionOnSet(f, T) = f[y] + (f[x] + c)
        BY <3>2, <3>3, <3>5
      <4>2. SumFunctionOnSet(f, U) = f[y] + c
        BY <3>3
      <4>3. f[y] \in Int /\ f[x] \in Int /\ c \in Int
        BY <1>8, <3>4
      <4> HIDE DEF c
      <4>4. f[y] + (f[x] + c) = f[x] + (f[y] + c)
        BY <4>3
      <4> QED
        BY <4>1, <4>2, <4>4
    <3> QED
      BY <3>6 DEF U
  <2> QED
    BY <2>1, <2>2
<1>10. SumFunctionOnSet(f, T) \in Int
  BY <1>6, <1>8
<1> QED
  BY <1>3, <1>9, <1>10

\* One value is changed.
LEMMA SumChanges ==
    ASSUME NEW S, IsFiniteSet(S), NEW f \in [S -> Int], NEW g \in [S -> Int],
           NEW x \in S, \A y \in S \ {x} : g[y] = f[y]
    PROVE  SumFunction(g) = SumFunction(f) - f[x] + g[x]
<1>1. IsFiniteSet(S \ {x}) /\ DOMAIN f = S /\ DOMAIN g = S
  BY FS_RemoveElement
<1>2. SumFunctionOnSet(f, S \ {x}) = SumFunctionOnSet(g, S \ {x})
  BY <1>1, SumAgrees
<1>3. SumFunctionOnSet(f, S) = f[x] + SumFunctionOnSet(f, S \ {x})
  BY SumWithout
<1>4. SumFunctionOnSet(g, S) = g[x] + SumFunctionOnSet(g, S \ {x})
  BY SumWithout
<1>5. SumFunctionOnSet(f, S \ {x}) \in Int
  BY <1>1, SumWithout
<1> QED
  BY <1>1, <1>2, <1>3, <1>4, <1>5 DEF SumFunction

\* A sum of zeros.
LEMMA SumOfZeros ==
    ASSUME NEW S, IsFiniteSet(S), NEW f, \A x \in S : f[x] = 0
    PROVE  SumFunctionOnSet(f, S) = 0
<1> DEFINE C == {T \in SUBSET S : SumFunctionOnSet(f, T) # 0}
<1>1. SUFFICES ASSUME C # {} PROVE FALSE
  OBVIOUS
<1>2. PICK T \in C : \A V \in C : V \subseteq T => V = T
  <2>1. C \in SUBSET SUBSET S
    OBVIOUS
  <2> HIDE DEF C
  <2> QED
    BY <1>1, <2>1, Smallest
<1>3. T \in SUBSET S /\ IsFiniteSet(T) /\ T # {}
  BY FS_Subset, SumOfNone
<1>4. /\ Some(T) \in T
      /\ SumFunctionOnSet(f, T) = f[Some(T)] + SumFunctionOnSet(f, T \ {Some(T)})
  BY <1>3, SumOfSome
<1>5. SumFunctionOnSet(f, T \ {Some(T)}) = 0
  <2>1. T \ {Some(T)} \in SUBSET S /\ T \ {Some(T)} # T /\ T \ {Some(T)} \subseteq T
    BY <1>3, <1>4
  <2> QED
    BY <1>2, <2>1
<1> QED
  BY <1>3, <1>4, <1>5

\* No part is more than the sum, if nothing is negative.
LEMMA SumBounds ==
    ASSUME NEW S, IsFiniteSet(S), NEW f, \A x \in S : f[x] \in Nat
    PROVE  /\ SumFunctionOnSet(f, S) \in Nat
           /\ \A x \in S : f[x] <= SumFunctionOnSet(f, S)
<1>0. \A T \in SUBSET S : IsFiniteSet(T) /\ SumFunctionOnSet(f, T) \in Int
  <2> TAKE T \in SUBSET S
  <2>1. IsFiniteSet(T) /\ \A x \in T : f[x] \in Int
    BY FS_Subset
  <2> QED
    BY <2>1, SumWithout
<1>1. \A T \in SUBSET S : SumFunctionOnSet(f, T) >= 0
  <2> DEFINE C == {T \in SUBSET S : ~(SumFunctionOnSet(f, T) >= 0)}
  <2>1. SUFFICES ASSUME C # {} PROVE FALSE
    OBVIOUS
  <2>2. PICK T \in C : \A V \in C : V \subseteq T => V = T
    <3>1. C \in SUBSET SUBSET S
      OBVIOUS
    <3> HIDE DEF C
    <3> QED
      BY <2>1, <3>1, Smallest
  <2>3. T \in SUBSET S /\ T # {}
    BY SumOfNone
  <2>4. /\ Some(T) \in T
        /\ SumFunctionOnSet(f, T) = f[Some(T)] + SumFunctionOnSet(f, T \ {Some(T)})
    BY <1>0, <2>3, SumOfSome
  <2>5. T \ {Some(T)} \in SUBSET S /\ T \ {Some(T)} # T /\ T \ {Some(T)} \subseteq T
    BY <2>3, <2>4
  <2>6. SumFunctionOnSet(f, T \ {Some(T)}) >= 0
    BY <2>2, <2>5
  <2>7. f[Some(T)] \in Nat
    BY <2>3, <2>4
  <2>8. SumFunctionOnSet(f, T) >= 0
    BY <1>0, <2>4, <2>5, <2>6, <2>7
  <2> QED
    BY <2>8
<1>2. ASSUME NEW x \in S
      PROVE  f[x] <= SumFunctionOnSet(f, S)
  <2>1. SumFunctionOnSet(f, S) = f[x] + SumFunctionOnSet(f, S \ {x})
    BY SumWithout
  <2>2. SumFunctionOnSet(f, S \ {x}) >= 0 /\ SumFunctionOnSet(f, S \ {x}) \in Int
    BY <1>0, <1>1
  <2> QED
    BY <2>1, <2>2
<1> QED
  BY <1>0, <1>1, <1>2

\* An element is added, or taken out.
LEMMA SumAdds ==
    ASSUME NEW S, IsFiniteSet(S), NEW f, NEW g, NEW x, x \notin S,
           g[x] \in Int, \A y \in S : f[y] \in Int /\ g[y] = f[y]
    PROVE  /\ SumFunctionOnSet(g, S \cup {x}) = SumFunctionOnSet(f, S) + g[x]
           /\ SumFunctionOnSet(f, S) \in Int
<1>1. IsFiniteSet(S \cup {x}) /\ (S \cup {x}) \ {x} = S
  BY FS_AddElement
<1>2. SumFunctionOnSet(g, S \cup {x}) = g[x] + SumFunctionOnSet(g, S)
  <2>1. \A y \in S \cup {x} : g[y] \in Int
    OBVIOUS
  <2> QED
    BY <1>1, <2>1, SumWithout
<1>3. SumFunctionOnSet(g, S) = SumFunctionOnSet(f, S)
  BY SumAgrees
<1>4. SumFunctionOnSet(f, S) \in Int
  BY SumWithout
<1> QED
  BY <1>2, <1>3, <1>4

\* The terms are named otherwise: b gives each element of S another name.
LEMMA SumMapped ==
    ASSUME NEW S, IsFiniteSet(S), NEW b, \A x, y \in S : b[x] = b[y] => x = y,
           NEW f, NEW g, \A x \in S : g[x] \in Int /\ f[b[x]] = g[x]
    PROVE  SumFunctionOnSet(f, {b[x] : x \in S}) = SumFunctionOnSet(g, S)
<1> DEFINE Im(T) == {b[x] : x \in T}
           C == {T \in SUBSET S : SumFunctionOnSet(f, Im(T)) # SumFunctionOnSet(g, T)}
<1>1. SUFFICES ASSUME C # {} PROVE FALSE
  OBVIOUS
<1>2. PICK T \in C : \A V \in C : V \subseteq T => V = T
  <2>1. C \in SUBSET SUBSET S
    OBVIOUS
  <2> HIDE DEF C
  <2> QED
    BY <1>1, <2>1, Smallest
<1>3. T # {}
  <2>1. Im({}) = {}
    OBVIOUS
  <2> HIDE DEF Im
  <2> QED
    BY <2>1, SumOfNone
<1>4. T \in SUBSET S /\ IsFiniteSet(T)
      /\ SumFunctionOnSet(f, Im(T)) # SumFunctionOnSet(g, T)
  BY FS_Subset
<1> DEFINE y == Some(T)
           V == T \ {y}
<1>5. y \in T /\ SumFunctionOnSet(g, T) = g[y] + SumFunctionOnSet(g, V)
  BY <1>3, <1>4, SumOfSome
<1>6. V \in SUBSET S /\ V # T /\ V \subseteq T /\ IsFiniteSet(V)
  BY <1>4, <1>5, FS_Subset
<1>7. SumFunctionOnSet(f, Im(V)) = SumFunctionOnSet(g, V)
  BY <1>2, <1>6
<1> HIDE DEF C, y
<1>8. IsFiniteSet(Im(V))
  <2> DEFINE h == [x \in V |-> b[x]]
  <2>1. h \in Surjection(V, Im(V))
    BY DEF Surjection, Range
  <2> HIDE DEF h, V, Im
  <2> QED
    BY <1>6, <2>1, FS_Surjection
<1>9. b[y] \notin Im(V) /\ Im(T) = Im(V) \cup {b[y]}
  BY <1>4, <1>5
<1>10. f[b[y]] \in Int /\ \A z \in Im(V) : f[z] \in Int /\ f[z] = f[z]
  BY <1>4, <1>5, <1>6
<1>11. SumFunctionOnSet(g, V) \in Int
  <2>1. \A x \in V : g[x] \in Int
    BY <1>6
  <2> HIDE DEF V
  <2> QED
    BY <1>6, <2>1, SumWithout
<1>12. SumFunctionOnSet(f, Im(V) \cup {b[y]}) = SumFunctionOnSet(f, Im(V)) + f[b[y]]
  <2> HIDE DEF V, Im
  <2> QED
    BY <1>8, <1>9, <1>10, SumAdds
<1>13. f[b[y]] = g[y] /\ g[y] \in Int
  BY <1>4, <1>5
<1> HIDE DEF V, Im
<1>14. SumFunctionOnSet(f, Im(T)) = SumFunctionOnSet(g, V) + g[y]
  BY <1>7, <1>9, <1>12, <1>13
<1> QED
  BY <1>4, <1>5, <1>11, <1>13, <1>14
=============================================================================
