----------------------------- MODULE UtilsProofs -----------------------------
(***************************************************************************)
(* Proofs about the helpers of src/utils/utils.go: Insert, built on Go's   *)
(* append into a shared backing array, returns the reference insertion for *)
(* every slice, every index and every capacity.                            *)
(***************************************************************************)
EXTENDS Utils, SequenceTheorems, TLAPS

(* The slice after inserting v before position x + 1 of a: the first x     *)
(* elements, then v, then the rest shifted by one.                         *)
Shifted(a, x, v) ==
    [i \in 1..(a.len + 1) |-> IF i <= x THEN a.arr[i]
                              ELSE IF i = x + 1 THEN v
                              ELSE a.arr[i - 1]]

(* A slice given to Insert: its length is within its backing array.        *)
WellFormed(a) ==
    /\ a.arr \in Seq(Values \cup {Nil})
    /\ a.len \in Nat
    /\ a.len <= Len(a.arr)

(* Every input slice of the caller is well formed.                         *)
LEMMA InputSlicesWellFormed ==
    ASSUME NEW a \in InputSlices
    PROVE  WellFormed(a)
<1>0. PICK n \in 0..MaxSliceLen :
          \E c \in {n, n + 1} : a \in [arr : [1..c -> Values \cup {Nil}], len : {n}]
    BY UtilsAssumption DEF InputSlices
<1>1. PICK c \in {n, n + 1} : a \in [arr : [1..c -> Values \cup {Nil}], len : {n}]
    BY <1>0
<1>2. a.arr \in [1..c -> Values \cup {Nil}] /\ a.len = n /\ c \in Nat
    BY <1>1, UtilsAssumption
<1>3. a.arr \in Seq(Values \cup {Nil}) /\ Len(a.arr) = c
    BY <1>2
<1>4. QED
    BY <1>2, <1>3 DEF WellFormed

(* Concatenation of two sequences of slice elements.                     *)
LEMMA ConcatSlice ==
    ASSUME NEW s1 \in Seq(Values \cup {Nil}), NEW s2 \in Seq(Values \cup {Nil})
    PROVE  /\ s1 \o s2 \in Seq(Values \cup {Nil})
           /\ Len(s1 \o s2) = Len(s1) + Len(s2)
           /\ \A i \in 1..(Len(s1) + Len(s2)) :
                 (s1 \o s2)[i] = IF i <= Len(s1) THEN s1[i] ELSE s2[i - Len(s1)]
BY ConcatProperties

(* InsertAt unfolded: the part before position j, e, and the rest.        *)
LEMMA InsertAtUnfold ==
    ASSUME NEW s, NEW j, NEW e
    PROVE  InsertAt(s, j, e) = SubSeq(s, 1, j - 1) \o <<e>> \o SubSeq(s, j, Len(s))
BY SMTT(20) DEF InsertAt

(* The reference: InsertAt of the slice's view at position x + 1.         *)
LEMMA ReferenceIsShifted ==
    ASSUME NEW a, WellFormed(a), NEW j \in 1..(a.len + 1), NEW v \in Values
    PROVE  InsertAt(View(a), j, v) = Shifted(a, j - 1, v)
<1> DEFINE S == Values \cup {Nil}
           x == j - 1
           A == a.arr  n == a.len  V == SubSeq(A, 1, n)
           P == SubSeq(V, 1, x)  R == SubSeq(V, j, Len(V))
           Q == P \o <<v>>
           I == Q \o R
<1>1. n \in Nat /\ x \in Nat /\ x <= n
    BY DEF WellFormed
<1>2. V \in Seq(S) /\ Len(V) = n /\ \A i \in 1..n : V[i] = A[i]
    BY DEF WellFormed
<1>3. /\ P \in Seq(S) /\ Len(P) = x
      /\ \A i \in 1..x : P[i] = A[i]
    BY <1>1, <1>2
<1>4. /\ R \in Seq(S) /\ Len(R) = n - x
      /\ \A i \in 1..(n - x) : R[i] = A[x + i]
    <2>1. j \in Nat /\ j = x + 1 /\ Len(V) = n
        BY <1>1, <1>2
    <2>2. /\ R \in Seq(S) /\ Len(R) = n - x
          /\ \A i \in 1..(n - x) : R[i] = V[j + i - 1]
        BY <1>2, <2>1
    <2>3. \A i \in 1..(n - x) : j + i - 1 = x + i /\ x + i \in 1..n
        BY <1>1, <2>1
    <2>4. QED
        BY <1>2, <2>2, <2>3
<1>5. InsertAt(View(a), j, v) = I
    <2>1. View(a) = V
        BY DEF View
    <2>2. InsertAt(V, j, v) = I
        BY InsertAtUnfold
    <2>3. QED
        BY <2>1, <2>2
<1>6. /\ Q \in Seq(S) /\ Len(Q) = Len(P) + Len(<<v>>)
      /\ \A i \in 1..(Len(P) + Len(<<v>>)) :
            Q[i] = IF i <= Len(P) THEN P[i] ELSE <<v>>[i - Len(P)]
    <2>1. <<v>> \in Seq(S)
        OBVIOUS
    <2>2. QED
        BY <1>3, <2>1, ConcatProperties
<1>7. /\ I \in Seq(S) /\ Len(I) = Len(Q) + Len(R)
      /\ \A i \in 1..(Len(Q) + Len(R)) :
            I[i] = IF i <= Len(Q) THEN Q[i] ELSE R[i - Len(Q)]
    <2>1. ASSUME NEW s1 \in Seq(S), NEW s2 \in Seq(S)
          PROVE  /\ s1 \o s2 \in Seq(S) /\ Len(s1 \o s2) = Len(s1) + Len(s2)
                 /\ \A i \in 1..(Len(s1) + Len(s2)) :
                       (s1 \o s2)[i] = IF i <= Len(s1) THEN s1[i] ELSE s2[i - Len(s1)]
        BY ConcatProperties
    <2>2. Q \in Seq(S) /\ R \in Seq(S)
        BY <1>4, <1>6
    <2> HIDE DEF Q, R
    <2>3. QED
        BY <2>1, <2>2
<1>8. Len(I) = n + 1 /\ \A i \in 1..(n + 1) : I[i] = Shifted(a, x, v)[i]
    <2>1. Len(Q) = x + 1 /\ Len(I) = n + 1
        BY <1>1, <1>3, <1>4, <1>6, <1>7, SMTT(20)
    <2>2. SUFFICES ASSUME NEW i \in 1..(n + 1) PROVE I[i] = Shifted(a, x, v)[i]
        BY <2>1
    <2>3. CASE i <= x
        BY <1>1, <1>3, <1>6, <1>7, <2>1, <2>3 DEF Shifted
    <2>4. CASE i = x + 1
        BY <1>1, <1>3, <1>6, <1>7, <2>1, <2>4, SMTT(20) DEF Shifted
    <2>5. CASE i > x + 1
        <3>1. I[i] = R[i - (x + 1)] /\ i - (x + 1) \in 1..(n - x)
            BY <1>1, <1>7, <2>1, <2>5
        <3>2. R[i - (x + 1)] = A[i - 1]
            BY <1>1, <1>4, <3>1
        <3>3. QED
            BY <1>1, <2>5, <3>1, <3>2 DEF Shifted
    <2>6. QED
        BY <1>1, <2>3, <2>4, <2>5
<1>9. Shifted(a, x, v) \in Seq(S) /\ Len(Shifted(a, x, v)) = n + 1
    <2>1. \A i \in 1..n : A[i] \in S
        BY DEF WellFormed
    <2>2. QED
        BY <1>1, <2>1 DEF Shifted
<1>10. QED
    BY <1>5, <1>7, <1>8, <1>9, SeqEqual

(* Go's append of xs to s when the capacity suffices: the first s.len     *)
(* elements stay, xs follows, and the array keeps its length.              *)
LEMMA AppendInPlace ==
    ASSUME NEW s, WellFormed(s), NEW xs \in Seq(Values \cup {Nil}),
           s.len + Len(xs) <= Len(s.arr)
    PROVE  /\ GoAppend(s, xs).len = s.len + Len(xs)
           /\ GoAppend(s, xs).arr \in Seq(Values \cup {Nil})
           /\ Len(GoAppend(s, xs).arr) = Len(s.arr)
           /\ \A i \in 1..s.len : GoAppend(s, xs).arr[i] = s.arr[i]
           /\ \A i \in 1..Len(xs) : GoAppend(s, xs).arr[s.len + i] = xs[i]
<1> DEFINE S == Values \cup {Nil}
           need == s.len + Len(xs)
           cap == Len(s.arr)
           f == [i \in 1..cap |-> IF s.len < i /\ i <= need THEN xs[i - s.len] ELSE s.arr[i]]
<1>1. s.len \in Nat /\ Len(xs) \in Nat /\ cap \in Nat /\ s.arr \in Seq(S)
    BY DEF WellFormed
<1>2. GoAppend(s, xs) = [arr |-> f, len |-> need]
    BY DEF GoAppend
<1>3. f \in Seq(S) /\ Len(f) = cap
    <2>1. \A i \in 1..cap : f[i] \in S
        BY <1>1
    <2>2. f \in [1..cap -> S]
        BY <2>1
    <2>3. QED
        BY <1>1, <2>2
<1>4. \A i \in 1..s.len : f[i] = s.arr[i]
    BY <1>1 DEF WellFormed
<1>5. \A i \in 1..Len(xs) : f[s.len + i] = xs[i]
    BY <1>1
<1> HIDE DEF f, need
<1>6. QED
    BY <1>2, <1>3, <1>4, <1>5 DEF need

(* Go's append of xs to s into a new array of larger capacity.             *)
LEMMA AppendGrow ==
    ASSUME NEW s, WellFormed(s), NEW xs \in Seq(Values \cup {Nil}),
           s.len + Len(xs) > Len(s.arr)
    PROVE  /\ GoAppend(s, xs).len = s.len + Len(xs)
           /\ GoAppend(s, xs).arr \in Seq(Values \cup {Nil})
           /\ Len(GoAppend(s, xs).arr) >= s.len + Len(xs)
           /\ \A i \in 1..s.len : GoAppend(s, xs).arr[i] = s.arr[i]
           /\ \A i \in 1..Len(xs) : GoAppend(s, xs).arr[s.len + i] = xs[i]
<1> DEFINE need == s.len + Len(xs)
           cap == Len(s.arr)
           newCap == IF need > 2 * cap THEN need ELSE 2 * cap
           pad == [i \in 1..(newCap - need) |-> Nil]
<1>0. ~(need <= cap)
    BY DEF WellFormed
<1> DEFINE S == Values \cup {Nil}
           V == SubSeq(s.arr, 1, s.len)
<1>1. /\ GoAppend(s, xs).arr = V \o xs \o pad
      /\ GoAppend(s, xs).len = need
    <2>1. GoAppend(s, xs) = [arr |-> View(s) \o xs \o pad, len |-> need]
        BY <1>0 DEF GoAppend
    <2>2. View(s) = V
        BY DEF View
    <2> HIDE DEF V, pad, need
    <2>3. QED
        BY <2>1, <2>2
<1>2. /\ V \in Seq(S) /\ Len(V) = s.len
      /\ \A i \in 1..s.len : V[i] = s.arr[i]
    BY DEF WellFormed
<1>3. pad \in Seq(S) /\ Len(pad) = newCap - need /\ newCap - need \in Nat
    <2>1. s.len \in Nat /\ Len(xs) \in Nat /\ cap \in Nat
        BY DEF WellFormed
    <2>2. newCap - need \in Nat
        BY <2>1
    <2>3. pad \in [1..(newCap - need) -> S]
        OBVIOUS
    <2>4. QED
        BY <2>2, <2>3
<1> HIDE DEF V, pad
<1> DEFINE W == V \o xs
<1>4. /\ W \in Seq(S) /\ Len(W) = need
      /\ \A i \in 1..need : W[i] = IF i <= s.len THEN V[i] ELSE xs[i - s.len]
    <2>1. /\ V \o xs \in Seq(S) /\ Len(V \o xs) = Len(V) + Len(xs)
          /\ \A i \in 1..(Len(V) + Len(xs)) :
                (V \o xs)[i] = IF i <= Len(V) THEN V[i] ELSE xs[i - Len(V)]
        BY <1>2, ConcatSlice
    <2>2. QED
        BY <1>2, <2>1
<1> HIDE DEF W
<1>5. /\ W \o pad \in Seq(S) /\ Len(W \o pad) = need + (newCap - need)
      /\ \A i \in 1..need : (W \o pad)[i] = W[i]
    <2>1. /\ W \o pad \in Seq(S) /\ Len(W \o pad) = Len(W) + Len(pad)
          /\ \A i \in 1..(Len(W) + Len(pad)) :
                (W \o pad)[i] = IF i <= Len(W) THEN W[i] ELSE pad[i - Len(W)]
        BY <1>3, <1>4, ConcatSlice
    <2>2. QED
        BY <1>3, <1>4, <2>1
<1>6. GoAppend(s, xs).arr = W \o pad
    BY <1>1 DEF W
<1>7. s.len \in Nat /\ Len(xs) \in Nat
    BY DEF WellFormed
<1>8. \A i \in 1..s.len : GoAppend(s, xs).arr[i] = s.arr[i]
    <2> SUFFICES ASSUME NEW i \in 1..s.len
                 PROVE  GoAppend(s, xs).arr[i] = s.arr[i]
        OBVIOUS
    <2>1. i \in 1..need /\ i <= s.len
        BY <1>7
    <2>2. GoAppend(s, xs).arr[i] = W[i]
        BY <1>5, <1>6, <2>1
    <2>3. W[i] = V[i]
        BY <1>4, <2>1
    <2>4. QED
        BY <1>2, <2>2, <2>3
<1>9. \A i \in 1..Len(xs) : GoAppend(s, xs).arr[s.len + i] = xs[i]
    <2> SUFFICES ASSUME NEW i \in 1..Len(xs)
                 PROVE  GoAppend(s, xs).arr[s.len + i] = xs[i]
        OBVIOUS
    <2>1. s.len + i \in 1..need /\ ~(s.len + i <= s.len) /\ s.len + i - s.len = i
        BY <1>7
    <2>2. (W \o pad)[s.len + i] = W[s.len + i]
        BY <1>5, <2>1
    <2>3. W[s.len + i] = xs[i]
        <3>1. W[s.len + i] = xs[(s.len + i) - s.len]
            BY <1>4, <2>1
        <3>2. QED
            BY <1>7, <2>1, <3>1
    <2>4. QED
        BY <1>6, <2>2, <2>3
<1>10. GoAppend(s, xs).arr \in Seq(S) /\ Len(GoAppend(s, xs).arr) >= need
    BY <1>3, <1>5, <1>6, <1>7, SMTT(20)
<1>11. QED
    BY <1>1, <1>8, <1>9, <1>10


(* Go's append, whichever way the capacity falls: the length grows by      *)
(* Len(xs), the old elements stay and xs follows them.                      *)
LEMMA AppendFacts ==
    ASSUME NEW s, WellFormed(s), NEW xs \in Seq(Values \cup {Nil})
    PROVE  /\ GoAppend(s, xs).len = s.len + Len(xs)
           /\ WellFormed(GoAppend(s, xs))
           /\ \A i \in 1..s.len : GoAppend(s, xs).arr[i] = s.arr[i]
           /\ \A i \in 1..Len(xs) : GoAppend(s, xs).arr[s.len + i] = xs[i]
<1>1. s.len \in Nat /\ Len(xs) \in Nat
    BY DEF WellFormed
<1>2. CASE s.len + Len(xs) <= Len(s.arr)
    BY <1>1, <1>2, AppendInPlace DEF WellFormed
<1>3. CASE s.len + Len(xs) > Len(s.arr)
    BY <1>1, <1>3, AppendGrow DEF WellFormed
<1>4. QED
    BY <1>1, <1>2, <1>3 DEF WellFormed

(* The view of a well-formed slice: its first len elements.                *)
LEMMA ViewFacts ==
    ASSUME NEW g, WellFormed(g)
    PROVE  /\ View(g) \in Seq(Values \cup {Nil}) /\ Len(View(g)) = g.len
           /\ \A i \in 1..g.len : View(g)[i] = g.arr[i]
BY DEF View, WellFormed

(* Insert shows, through the returned slice, a with v inserted at index x. *)
LEMMA InsertView ==
    ASSUME NEW a, WellFormed(a), NEW x \in 0..a.len, NEW v \in Values
    PROVE  /\ WellFormed(Insert(a, x, v))
           /\ View(Insert(a, x, v)) = Shifted(a, x, v)
<1> DEFINE S == Values \cup {Nil}
           A == a.arr  n == a.len
<1>1. n \in Nat /\ A \in Seq(S) /\ n <= Len(A)
    BY DEF WellFormed
<1>2. Shifted(a, x, v) \in Seq(S) /\ Len(Shifted(a, x, v)) = n + 1
    <2>1. \A i \in 1..n : A[i] \in S
        BY <1>1
    <2>2. Shifted(a, x, v) \in [1..(n + 1) -> S]
        BY <1>1, <2>1 DEF Shifted
    <2>3. QED
        BY <1>1, <2>2
<1>3. SUFFICES /\ WellFormed(Insert(a, x, v))
               /\ Insert(a, x, v).len = n + 1
               /\ \A i \in 1..(n + 1) : Insert(a, x, v).arr[i] = Shifted(a, x, v)[i]
    <2>1. ASSUME WellFormed(Insert(a, x, v)), Insert(a, x, v).len = n + 1,
                 \A i \in 1..(n + 1) : Insert(a, x, v).arr[i] = Shifted(a, x, v)[i]
          PROVE  View(Insert(a, x, v)) = Shifted(a, x, v)
        <3>1. /\ View(Insert(a, x, v)) \in Seq(S)
              /\ Len(View(Insert(a, x, v))) = n + 1
              /\ \A i \in 1..(n + 1) : View(Insert(a, x, v))[i] = Insert(a, x, v).arr[i]
            BY <2>1, ViewFacts
        <3>2. QED
            BY <1>2, <2>1, <3>1, SeqEqual, SMTT(20)
    <2>2. QED
        BY <2>1
<1>4. CASE x = n
    <2> DEFINE g == GoAppend(a, <<v>>)
    <2>1. Insert(a, x, v) = g
        BY <1>4 DEF Insert
    <2>2. <<v>> \in Seq(S) /\ Len(<<v>>) = 1
        OBVIOUS
    <2>3. /\ g.len = n + 1 /\ WellFormed(g)
          /\ \A i \in 1..n : g.arr[i] = A[i]
          /\ g.arr[n + 1] = v
        <3>1. /\ g.len = a.len + Len(<<v>>) /\ WellFormed(g)
              /\ \A i \in 1..a.len : g.arr[i] = a.arr[i]
              /\ \A k \in 1..Len(<<v>>) : g.arr[a.len + k] = <<v>>[k]
            BY <2>2, AppendFacts
        <3>2. QED
            BY <1>1, <2>2, <3>1
    <2> HIDE DEF g
    <2>4. \A i \in 1..(n + 1) : g.arr[i] = Shifted(a, x, v)[i]
        <3> SUFFICES ASSUME NEW i \in 1..(n + 1)
                     PROVE  g.arr[i] = Shifted(a, x, v)[i]
            OBVIOUS
        <3>1. CASE i <= n
            BY <1>1, <1>4, <2>3, <3>1 DEF Shifted
        <3>2. CASE i = n + 1
            BY <1>1, <1>4, <2>3, <3>2, SMTT(20) DEF Shifted
        <3>3. QED
            BY <1>1, <3>1, <3>2
    <2>5. QED
        BY <2>1, <2>3, <2>4
<1>5. CASE x < n
    <2> DEFINE s0 == [arr |-> A, len |-> x + 1]
               xs == SubSeq(A, x + 1, n)
               b == GoAppend(s0, xs)
    <2>1. Insert(a, x, v) = [b EXCEPT !.arr[x + 1] = v]
        BY <1>5 DEF Insert
    <2>2. WellFormed(s0) /\ s0.len = x + 1 /\ s0.arr = A
        BY <1>1, <1>5 DEF WellFormed
    <2>3. /\ xs \in Seq(S) /\ Len(xs) = n - x
          /\ \A k \in 1..(n - x) : xs[k] = A[x + k]
        BY <1>1, <1>5
    <2>4. /\ b.len = n + 1 /\ WellFormed(b)
          /\ \A i \in 1..(x + 1) : b.arr[i] = A[i]
          /\ \A k \in 1..(n - x) : b.arr[x + 1 + k] = A[x + k]
        <3> HIDE DEF s0, xs, b
        <3>1. /\ b.len = s0.len + Len(xs) /\ WellFormed(b)
              /\ \A i \in 1..s0.len : b.arr[i] = s0.arr[i]
              /\ \A k \in 1..Len(xs) : b.arr[s0.len + k] = xs[k]
            BY <2>2, <2>3, AppendFacts DEF b
        <3>2. b.len = n + 1
            BY <1>1, <1>5, <2>2, <2>3, <3>1
        <3>3. \A i \in 1..(x + 1) : b.arr[i] = A[i]
            BY <2>2, <3>1
        <3>4. \A k \in 1..(n - x) : b.arr[x + 1 + k] = A[x + k]
            BY <2>2, <2>3, <3>1
        <3>5. QED
            BY <3>1, <3>2, <3>3, <3>4, SMTT(20)
    <2> HIDE DEF b
    <2>5. /\ b.arr \in Seq(S) /\ x + 1 \in 1..Len(b.arr)
          /\ b.len <= Len(b.arr) /\ b.len \in Nat
        BY <1>1, <1>5, <2>4 DEF WellFormed
    <2>6. /\ Insert(a, x, v).len = n + 1
          /\ Insert(a, x, v).arr = [b.arr EXCEPT ![x + 1] = v]
        BY <2>1, <2>4
    <2>7. WellFormed(Insert(a, x, v))
        BY <2>4, <2>5, <2>6 DEF WellFormed
    <2>8. \A i \in 1..(n + 1) : Insert(a, x, v).arr[i] = Shifted(a, x, v)[i]
        <3> SUFFICES ASSUME NEW i \in 1..(n + 1)
                     PROVE  Insert(a, x, v).arr[i] = Shifted(a, x, v)[i]
            OBVIOUS
        <3>1. i \in 1..Len(b.arr)
            BY <1>1, <2>4, <2>5
        <3>2. CASE i <= x
            BY <1>1, <2>4, <2>6, <3>1, <3>2 DEF Shifted
        <3>3. CASE i = x + 1
            BY <1>1, <2>6, <3>1, <3>3 DEF Shifted
        <3>4. CASE i > x + 1
            <4>1. i - (x + 1) \in 1..(n - x) /\ x + 1 + (i - (x + 1)) = i
                  /\ x + (i - (x + 1)) = i - 1
                BY <1>1, <3>4
            <4>2. b.arr[i] = A[i - 1]
                BY <2>4, <4>1
            <4>3. QED
                BY <1>1, <2>6, <3>1, <3>4, <4>2 DEF Shifted
        <3>5. QED
            BY <1>1, <3>2, <3>3, <3>4
    <2>9. QED
        BY <2>6, <2>7, <2>8
<1>6. QED
    BY <1>1, <1>4, <1>5

(* The caller's Insert is the reference insertion: for every slice the      *)
(* caller passes (any length up to MaxSliceLen, with or without a spare     *)
(* slot), every index and every value, the slice Insert returns shows a     *)
(* with value inserted before index; the in-place shift of                  *)
(* append(a[:index+1], a[index:]...) loses no element.                     *)
THEOREM InsertCorrect == Spec => []InsertMatchesReference
<1>1. Init => InsertMatchesReference
    BY DEF Init, InsertMatchesReference
<1>2. InsertMatchesReference /\ [Next]_last => InsertMatchesReference'
    <2> SUFFICES ASSUME InsertMatchesReference, [Next]_last
                 PROVE  InsertMatchesReference'
        OBVIOUS
    <2>1. CASE CallInsert
        <3>0. PICK a \in InputSlices :
                 \E index \in 0..a.len : \E v \in Values :
                    last' = [op |-> "Insert", in |-> <<a, index, v>>,
                             out |-> Insert(a, index, v)]
            BY <2>1 DEF CallInsert
        <3>1. PICK index \in 0..a.len, v \in Values :
                 last' = [op |-> "Insert", in |-> <<a, index, v>>,
                          out |-> Insert(a, index, v)]
            BY <3>0
        <3>2. WellFormed(a)
            BY InputSlicesWellFormed
        <3>3. View(Insert(a, index, v)) = Shifted(a, index, v)
            BY <3>2, InsertView
        <3>4. index + 1 \in 1..(a.len + 1) /\ index + 1 - 1 = index
            BY <3>2 DEF WellFormed
        <3>5. InsertAt(View(a), index + 1, v) = Shifted(a, index + 1 - 1, v)
            BY <3>2, <3>4, ReferenceIsShifted, SMTT(20)
        <3>6. QED
            BY <3>1, <3>3, <3>4, <3>5 DEF InsertMatchesReference
    <2>2. CASE \/ CallMapKeys \/ CallGetVestedCoinsAt \/ CallFilterDepositRecords
               \/ CallContainsString \/ CallMinMax \/ CallValidateAdminAddress
               \/ CallAccAddressFromBech32 \/ Return
        BY <2>2 DEF CallMapKeys, CallGetVestedCoinsAt, CallFilterDepositRecords,
                    CallContainsString, CallMinMax, CallValidateAdminAddress,
                    CallAccAddressFromBech32, Return, InsertMatchesReference
    <2>3. CASE UNCHANGED last
        BY <2>3 DEF InsertMatchesReference
    <2>4. QED
        BY <2>1, <2>2, <2>3 DEF Next, Ready
<1>3. QED
    BY <1>1, <1>2, PTL DEF Spec
=============================================================================
