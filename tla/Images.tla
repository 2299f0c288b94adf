-------------------------------- MODULE Images --------------------------------
(***************************************************************************)
(* How many values a function has on a finite set, how many elements a set *)
(* that is part of a finite set and one more, and the place each element   *)
(* of a finite set has in an order.                                        *)
(***************************************************************************)
EXTENDS FiniteSets, FiniteSetTheorems, TLAPS

Values(f, S) == {f[x] : x \in S}

LEMMA FewValues ==
  ASSUME NEW S, NEW f, f = [x \in S |-> f[x]], IsFiniteSet(S)
  PROVE  /\ IsFiniteSet(Values(f, S))
         /\ Cardinality(Values(f, S)) <= Cardinality(S)
<1>1. f \in Surjection(S, Values(f, S))
  BY DEF Surjection, Values
<1> QED
  BY <1>1, FS_Surjection

LEMMA OneMore ==
  ASSUME NEW S, NEW x, IsFiniteSet(S), NEW T \in SUBSET (S \cup {x})
  PROVE  /\ IsFiniteSet(T) /\ Cardinality(T) \in Nat
         /\ Cardinality(T) <= Cardinality(S) + 1
<1> DEFINE U == S \cup {x}
<1>1. IsFiniteSet(U) /\ Cardinality(U) = IF x \in S THEN Cardinality(S) ELSE Cardinality(S) + 1
  BY FS_AddElement
<1>2. Cardinality(S) \in Nat /\ Cardinality(U) \in Nat
  BY <1>1, FS_CardinalityType
<1>3. T \in SUBSET U
  OBVIOUS
<1> HIDE DEF U
<1>4. IsFiniteSet(T) /\ Cardinality(T) <= Cardinality(U)
  BY <1>1, <1>3, FS_Subset
<1>5. Cardinality(T) \in Nat
  BY <1>4, FS_CardinalityType
<1> QED
  BY <1>1, <1>2, <1>4, <1>5

\* The place of every element of a set under a total order R.
Places(D, R) == [i \in D |-> Cardinality({j \in D : <<j, i>> \in R})]
IsOrder(D, R) ==
  /\ \A i \in D : <<i, i>> \in R
  /\ \A i, j \in D : <<i, j>> \in R /\ <<j, i>> \in R => i = j
  /\ \A i, j \in D : <<i, j>> \in R \/ <<j, i>> \in R
  /\ \A i, j, k \in D : <<i, j>> \in R /\ <<j, k>> \in R => <<i, k>> \in R

\* A place is one of the numbers from 1 to the size of the set ...
LEMMA PlaceInRange ==
  ASSUME NEW D, IsFiniteSet(D), NEW R, IsOrder(D, R), NEW i \in D
  PROVE  Places(D, R)[i] \in 1 .. Cardinality(D)
<1> DEFINE below == {j \in D : <<j, i>> \in R}
<1>1. i \in below /\ below \in SUBSET D
  BY DEF IsOrder
<1>2. IsFiniteSet(below) /\ Cardinality(below) <= Cardinality(D)
  BY <1>1, FS_Subset
<1>3. Cardinality(below) # 0
  BY <1>1, <1>2, FS_EmptySet
<1>4. Cardinality(below) \in Nat /\ Cardinality(D) \in Nat
  BY <1>2, FS_CardinalityType
<1>5. Places(D, R)[i] = Cardinality(below)
  BY DEF Places
<1> QED BY <1>2, <1>3, <1>4, <1>5

\* ... and grows with the order.
LEMMA PlaceGrows ==
  ASSUME NEW D, IsFiniteSet(D), NEW R, IsOrder(D, R),
         NEW i \in D, NEW j \in D, <<i, j>> \in R, i # j
  PROVE  Places(D, R)[i] < Places(D, R)[j]
<1> DEFINE A == {k \in D : <<k, i>> \in R}
           B == {k \in D : <<k, j>> \in R}
<1>1. j \in B /\ j \notin A
  BY DEF IsOrder
<1>2. A \in SUBSET B
  BY DEF IsOrder
<1>3. B \in SUBSET D
  OBVIOUS
<1>4. IsFiniteSet(B)
  BY <1>3, FS_Subset
<1>5. Places(D, R)[i] = Cardinality(A) /\ Places(D, R)[j] = Cardinality(B)
  BY DEF Places
<1> HIDE DEF A, B
<1>6. Cardinality(A) <= Cardinality(B) /\ Cardinality(A) # Cardinality(B) /\ IsFiniteSet(A)
  BY <1>1, <1>2, <1>4, FS_Subset
<1>7. Cardinality(A) < Cardinality(B)
  BY <1>4, <1>6, FS_CardinalityType
<1> QED BY <1>5, <1>7

\* Every place is taken, by one element, and the places are in order.
LEMMA PlacesWork ==
  ASSUME NEW D, IsFiniteSet(D), NEW R, IsOrder(D, R)
  PROVE  /\ \A k \in 1 .. Cardinality(D) : \E i \in D : Places(D, R)[i] = k
         /\ \A i \in D : Places(D, R)[i] \in 1 .. Cardinality(D)
         /\ \A i, j \in D : Places(D, R)[i] = Places(D, R)[j] => i = j
         /\ \A i, j \in D : Places(D, R)[i] <= Places(D, R)[j] => <<i, j>> \in R
<1> DEFINE c == Cardinality(D)
           place == Places(D, R)
<1>1. c \in Nat
  BY FS_CardinalityType
<1>2. \A i \in D : place[i] \in 1 .. c
  BY PlaceInRange
<1>3. place \in [D -> 1 .. c]
  BY <1>2 DEF Places
<1>4. ASSUME NEW i \in D, NEW j \in D, place[i] <= place[j]
      PROVE  <<i, j>> \in R
  <2>1. place[i] \in Int /\ place[j] \in Int
    BY <1>1, <1>2
  <2>2. CASE i = j
    BY <2>2 DEF IsOrder
  <2>3. CASE i # j /\ <<j, i>> \in R
    <3>1. place[j] < place[i]
      BY <2>3, PlaceGrows
    <3> QED BY <1>4, <2>1, <3>1
  <2> QED BY <2>2, <2>3 DEF IsOrder
<1>5. ASSUME NEW i \in D, NEW j \in D, place[i] = place[j]
      PROVE  i = j
  <2>1. place[i] \in Int
    BY <1>1, <1>2
  <2>2. place[i] <= place[j] /\ place[j] <= place[i]
    BY <1>5, <2>1
  <2>3. <<i, j>> \in R /\ <<j, i>> \in R
    BY <1>4, <2>2
  <2> QED BY <2>3 DEF IsOrder
<1>6. IsFiniteSet(1 .. c) /\ Cardinality(1 .. c) = c
  BY <1>1, FS_Interval
<1> HIDE DEF place
<1>7. place \in Injection(D, 1 .. c)
  BY <1>3, <1>5 DEF Injection, IsInjective
<1>8. place \in Surjection(D, 1 .. c)
  BY <1>6, <1>7, FS_Injection
<1>9. \A k \in 1 .. c : \E i \in D : place[i] = k
  BY <1>8 DEF Surjection
<1> QED BY <1>2, <1>4, <1>5, <1>9 DEF place
==============================================================================
