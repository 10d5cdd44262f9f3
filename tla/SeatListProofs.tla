--------------------------- MODULE SeatListProofs ---------------------------
(***************************************************************************)
(* The text of a seat list, for lists of every length: what getSeats makes *)
(* of the text that redigo wrote is the list that was written.             *)
(*                                                                         *)
(* The texts are defined by recursion.  The induction they need is done    *)
(* with the least counterexample (LeastNat), and that the recursions have  *)
(* a solution at all is proved the same way (PrimRec).                     *)
(***************************************************************************)
EXTENDS Sessions, FiniteSetTheorems, SequenceTheorems, TLAPS

(***************************************************************************)
(* LeastNat: a set of natural numbers has a least element.                 *)
(***************************************************************************)
LEMMA LeastNat ==
  ASSUME NEW T \in SUBSET Nat, T # {}
  PROVE  \E x \in T : \A y \in T : x <= y
<1> DEFINE R == OpToRel(<, Nat)
<1>1. \A x, y \in Nat : x < y => <<x, y>> \in R
  BY DEF OpToRel
<1>2. IsWellFoundedOn(R, Nat)
  BY NatLessThanWellFounded
<1> HIDE DEF R
<1>3. PICK x \in T : \A y \in T : ~(<<y, x>> \in R)
  BY <1>2, WFMin
<1>4. \A y \in T : ~(y < x)
  BY <1>1, <1>3
<1>5. \A y \in T : x <= y
  BY <1>4
<1> QED
  BY <1>5

(***************************************************************************)
(* UpTo: a set of natural numbers that holds 0, and i + 1 whenever it      *)
(* holds i < n, holds everything up to n.                                  *)
(***************************************************************************)
LEMMA UpTo ==
  ASSUME NEW n \in Nat, NEW H, 0 \in H,
         \A i \in 0..(n - 1) : i \in H => i + 1 \in H
  PROVE  \A i \in 0..n : i \in H
<1> DEFINE T == { i \in 0..n : i \notin H }
<1> SUFFICES ASSUME T # {} PROVE FALSE
  OBVIOUS
<1>1. T \in SUBSET Nat
  OBVIOUS
<1>2. PICK x \in T : \A y \in T : x <= y
  BY <1>1, LeastNat
<1>3. x # 0 /\ x \in 0..n /\ x \notin H
  OBVIOUS
<1>4. x - 1 \in 0..(n - 1) /\ (x - 1) + 1 = x
  BY <1>3
<1>5. x - 1 \notin T
  BY <1>2, <1>4
<1>6. x - 1 \in H
  BY <1>4, <1>5
<1> QED
  BY <1>3, <1>4, <1>6

(***************************************************************************)
(* PrimRec: a recursion along 1..n has a solution.                         *)
(***************************************************************************)
Follows(f, v, F, n) ==
  f[0] = v /\ \A i \in 1..n : f[i] = F[i][f[i - 1]]

LEMMA PrimRec ==
  ASSUME NEW n \in Nat, NEW V, NEW v \in V, NEW F \in [1..n -> [V -> V]]
  PROVE  \E f \in [0..n -> V] : Follows(f, v, F, n)
<1> DEFINE Solves(f, m) == f[0] = v /\ \A i \in 1..m : f[i] = F[i][f[i - 1]]
           H == { m \in 0..n : \E f \in [0..m -> V] : Solves(f, m) }
<1>1. 0 \in H
  <2> DEFINE f == [i \in 0..0 |-> v]
  <2>1. f \in [0..0 -> V] /\ Solves(f, 0)
    OBVIOUS
  <2> HIDE DEF f
  <2>2. \E h \in [0..0 -> V] : Solves(h, 0)
    <3> HIDE DEF Solves
    <3> QED
      BY <2>1
  <2> HIDE DEF Solves
  <2> QED
    BY <2>2
<1>2. ASSUME NEW m \in 0..(n - 1), m \in H PROVE m + 1 \in H
  <2>1. PICK f \in [0..m -> V] : Solves(f, m)
    BY <1>2
  <2> DEFINE g == [i \in 0..(m + 1) |-> IF i <= m THEN f[i] ELSE F[m + 1][f[m]]]
  <2>2. F[m + 1][f[m]] \in V
    OBVIOUS
  <2>3. g \in [0..(m + 1) -> V]
    BY <2>2
  <2>4. ASSUME NEW i \in 1..(m + 1) PROVE g[i] = F[i][g[i - 1]]
    <3>1. CASE i <= m
      <4>1. g[i] = f[i] /\ g[i - 1] = f[i - 1] /\ i \in 1..m
        BY <3>1
      <4> QED
        BY <2>1, <4>1
    <3>2. CASE i = m + 1
      <4>1. g[i] = F[m + 1][f[m]] /\ g[i - 1] = f[m]
        BY <3>2
      <4> QED
        BY <3>2, <4>1
    <3> QED
      BY <3>1, <3>2
  <2>5. g[0] = v
    BY <2>1
  <2>6. Solves(g, m + 1)
    <3> HIDE DEF g
    <3> QED
      BY <2>4, <2>5
  <2> HIDE DEF Solves, g
  <2>7. \E h \in [0..(m + 1) -> V] : Solves(h, m + 1)
    BY <2>3, <2>6
  <2>8. m + 1 \in 0..n
    OBVIOUS
  <2> QED
    BY <2>7, <2>8
<1>3. \A m \in 0..n : m \in H
  <2> HIDE DEF H
  <2> QED
    BY <1>1, <1>2, UpTo
<1> QED
  BY <1>3 DEF Follows
-----------------------------------------------------------------------------
(***************************************************************************)
(* The recursion in Format, by name.                                       *)
(***************************************************************************)
Gap(i) == IF i = 1 THEN <<>> ELSE <<Blank>>

KeyStep(s, names, done, i) == done \o Gap(i) \o SeatKey(s, names[i])

KeysRec(s, names, keys) ==
  [i \in 0..Len(names) |->
     IF i = 0 THEN <<>> ELSE KeyStep(s, names, keys[i - 1], i)]

KeysOf(s, names) == CHOOSE keys : keys = KeysRec(s, names, keys)

\* FormatKeys: the text of a list is its keys between brackets.
LEMMA FormatKeys ==
  ASSUME NEW s, NEW names
  PROVE  Format(s, names) = <<"[">> \o KeysOf(s, names)[Len(names)] \o <<"]">>
BY DEF Format, KeysOf, KeysRec, KeyStep, Gap

\* KeyStepType: writing one more key gives a text.
LEMMA KeyStepType ==
  ASSUME NEW Tok, NEW s \in Tok, "-" \in Tok, Blank \in Tok,
         NEW names \in Seq(Tok), NEW d \in Seq(Tok), NEW i \in 1..Len(names)
  PROVE  KeyStep(s, names, d, i) \in Seq(Tok)
<1>1. SeatKey(s, names[i]) \in Seq(Tok)
  BY DEF SeatKey
<1>2. Gap(i) \in Seq(Tok)
  BY DEF Gap
<1>3. d \o Gap(i) \in Seq(Tok)
  BY <1>2
<1> QED
  BY <1>1, <1>3 DEF KeyStep

\* KeysEquation: the recursion of Format has a solution, which it chooses.
LEMMA KeysEquation ==
  ASSUME NEW Tok, NEW s \in Tok, "-" \in Tok, Blank \in Tok,
         NEW names \in Seq(Tok)
  PROVE  /\ KeysOf(s, names) \in [0..Len(names) -> Seq(Tok)]
         /\ KeysOf(s, names)[0] = <<>>
         /\ \A i \in 1..Len(names) :
              KeysOf(s, names)[i] = KeyStep(s, names, KeysOf(s, names)[i - 1], i)
<1> DEFINE n == Len(names)
           V == Seq(Tok)
           F == [i \in 1..n |-> [d \in V |-> KeyStep(s, names, d, i)]]
           v == <<>>
<1>1. n \in Nat /\ v \in V
  OBVIOUS
<1>2. \A d \in V, i \in 1..n : KeyStep(s, names, d, i) \in V
  BY KeyStepType
<1>3. F \in [1..n -> [V -> V]]
  <2> HIDE DEF V, n
  <2> QED
    BY <1>2
<1>4. \A d \in V, i \in 1..n : F[i][d] = KeyStep(s, names, d, i)
  OBVIOUS
<1>5. PICK f \in [0..n -> V] : Follows(f, v, F, n)
  <2> HIDE DEF F, V, n, v
  <2> QED
    BY <1>1, <1>3, PrimRec 
<1>6. \A i \in 1..n : f[i] = KeyStep(s, names, f[i - 1], i)
  <2> HIDE DEF F, V, n, v
  <2> QED
    BY <1>1, <1>4, <1>5 DEF Follows
<1>7. f = KeysRec(s, names, f)
  <2> HIDE DEF F, V
  <2> QED
    BY <1>1, <1>5, <1>6 DEF KeysRec, Follows
<1>8. KeysOf(s, names) = KeysRec(s, names, KeysOf(s, names))
  BY <1>7 DEF KeysOf
<1> DEFINE keys == KeysOf(s, names)
           H == { i \in 0..n : keys[i] \in V }
<1>9. /\ keys = [i \in 0..n |-> keys[i]]
      /\ keys[0] = <<>>
      /\ \A i \in 1..n : keys[i] = KeyStep(s, names, keys[i - 1], i)
  <2> HIDE DEF V, F, H, keys, n
  <2>1. keys = KeysRec(s, names, keys)
    BY <1>8 DEF keys
  <2> QED
    BY <1>1, <2>1 DEF KeysRec, n
<1>10. \A i \in 0..n : i \in H
  <2> HIDE DEF keys, V, n, F, v
  <2>1. 0 \in H
    BY <1>1, <1>9 DEF v
  <2>2. ASSUME NEW i \in 0..(n - 1), i \in H PROVE i + 1 \in H
    BY <1>1, <1>2, <1>9, <2>2
  <2> HIDE DEF H
  <2> QED
    BY <1>1, <2>1, <2>2, UpTo
<1> QED
  <2> HIDE DEF keys, V, n, F, v
  <2>1. \A i \in 0..n : keys[i] \in V
    BY <1>10
  <2>2. keys \in [0..n -> V]
    BY <1>9, <2>1
  <2> QED
    BY <1>9, <2>2 DEF keys, V, n

(***************************************************************************)
(* Listed(d, s, names, i): the tokens of d are those of the first i keys,  *)
(* four to a key with the blank that follows it.                           *)
(***************************************************************************)
Listed(d, s, names, i) ==
  /\ Len(d) = 4 * i - 1
  /\ \A k \in 1..i : /\ d[4 * k - 3] = s
                     /\ d[4 * k - 2] = "-"
                     /\ d[4 * k - 1] = names[k]
                     /\ k < i => d[4 * k] = Blank

\* ListedStep: writing key i after the first i - 1 keys.
LEMMA ListedStep ==
  ASSUME NEW Tok, NEW s \in Tok, "-" \in Tok, Blank \in Tok,
         NEW names \in Seq(Tok), NEW d \in Seq(Tok), NEW i \in 1..Len(names),
         i = 1 => d = <<>>,
         i # 1 => Listed(d, s, names, i - 1)
  PROVE  Listed(KeyStep(s, names, d, i), s, names, i)
<1> DEFINE e == d \o Gap(i)
           key == SeatKey(s, names[i])
           t == KeyStep(s, names, d, i)
<1>1. key \in Seq(Tok) /\ Len(key) = 3
      /\ key[1] = s /\ key[2] = "-" /\ key[3] = names[i]
  BY DEF SeatKey
<1>2. Gap(i) \in Seq(Tok)
  BY DEF Gap
<1>3. e \in Seq(Tok) /\ Len(e) = 4 * i - 4
  <2>1. CASE i = 1
    BY <2>1 DEF Gap
  <2>2. CASE i # 1
    <3>1. Len(d) = 4 * (i - 1) - 1
      BY <2>2 DEF Listed
    <3>2. Gap(i) = <<Blank>> /\ Len(Gap(i)) = 1
      BY <2>2 DEF Gap
    <3> QED
      BY <3>1, <3>2, <1>2
  <2> QED
    BY <2>1, <2>2
<1>4. ASSUME NEW k \in 1..(i - 1)
      PROVE  /\ e[4 * k - 3] = s
             /\ e[4 * k - 2] = "-"
             /\ e[4 * k - 1] = names[k]
             /\ e[4 * k] = Blank
  <2>1. i # 1 /\ Len(d) = 4 * (i - 1) - 1 /\ Len(d) \in Nat
    BY DEF Listed
  <2>2. Gap(i) = <<Blank>> /\ Len(Gap(i)) = 1 /\ Gap(i)[1] = Blank
    BY <2>1 DEF Gap
  <2>3. /\ d[4 * k - 3] = s
        /\ d[4 * k - 2] = "-"
        /\ d[4 * k - 1] = names[k]
        /\ k < i - 1 => d[4 * k] = Blank
    BY <2>1 DEF Listed
  <2>4. \A j \in 1..Len(d) : e[j] = d[j]
    BY <1>2
  <2>5. e[Len(d) + 1] = Blank
    BY <1>2, <2>1, <2>2
  <2> HIDE DEF e
  <2>6. e[4 * k - 3] = s /\ e[4 * k - 2] = "-" /\ e[4 * k - 1] = names[k]
    BY <2>1, <2>3, <2>4
  <2>7. CASE k < i - 1
    BY <2>1, <2>3, <2>4, <2>6, <2>7
  <2>8. CASE k = i - 1
    BY <2>1, <2>5, <2>6, <2>8
  <2> QED
    BY <2>7, <2>8
<1>5. t = e \o key
  BY DEF KeyStep
<1> HIDE DEF e, key, t
<1>6. /\ Len(t) = 4 * i - 1
      /\ \A j \in 1..(4 * i - 4) : t[j] = e[j]
      /\ t[4 * i - 3] = s /\ t[4 * i - 2] = "-" /\ t[4 * i - 1] = names[i]
  <2> DEFINE m == Len(e)
  <2>1. m \in Nat /\ m = 4 * i - 4
    BY <1>3
  <2>2. /\ Len(t) = m + 3
        /\ \A j \in 1..m : t[j] = e[j]
        /\ t[m + 1] = key[1] /\ t[m + 2] = key[2] /\ t[m + 3] = key[3]
    <3>0. e \in Seq(Tok) /\ key \in Seq(Tok) /\ t = e \o key /\ Len(key) = 3
      BY <1>1, <1>3, <1>5
    <3>1. /\ Len(t) = m + Len(key)
          /\ \A j \in 1..(m + Len(key)) :
               t[j] = IF j <= m THEN e[j] ELSE key[j - m]
      BY <3>0, ConcatProperties, Zenon
    <3> HIDE DEF m
    <3>2. m \in Nat /\ Len(t) = m + 3
      BY <2>1, <3>0, <3>1
    <3>3. \A j \in 1..(m + 3) : t[j] = IF j <= m THEN e[j] ELSE key[j - m]
      BY <3>0, <3>1
    <3>4. \A j \in 1..m : t[j] = e[j]
      BY <3>2, <3>3
    <3>5. \A j \in 1..3 : t[m + j] = key[j]
      BY <3>2, <3>3
    <3> QED
      BY <3>2, <3>4, <3>5
  <2> HIDE DEF m
  <2>3. m + 1 = 4 * i - 3 /\ m + 2 = 4 * i - 2 /\ m + 3 = 4 * i - 1
    BY <2>1
  <2> QED
    BY <1>1, <2>1, <2>2, <2>3
<1>7. ASSUME NEW k \in 1..i
      PROVE  /\ t[4 * k - 3] = s
             /\ t[4 * k - 2] = "-"
             /\ t[4 * k - 1] = names[k]
             /\ k < i => t[4 * k] = Blank
  <2>1. CASE k = i
    BY <1>6, <2>1
  <2>2. CASE k < i
    <3>1. k \in 1..(i - 1)
      BY <2>2
    <3>2. /\ 4 * k - 3 \in 1..(4 * i - 4) /\ 4 * k - 2 \in 1..(4 * i - 4)
          /\ 4 * k - 1 \in 1..(4 * i - 4) /\ 4 * k \in 1..(4 * i - 4)
      BY <3>1
    <3> QED
      BY <1>4, <1>6, <3>1, <3>2
  <2> QED
    BY <2>1, <2>2
<1>8. Listed(t, s, names, i)
  BY <1>6, <1>7 DEF Listed
<1> QED
  BY <1>8 DEF t

(***************************************************************************)
(* The keys of a list that is not empty, written one after the other.      *)
(***************************************************************************)
LEMMA KeysListed ==
  ASSUME NEW Tok, NEW s \in Tok, "-" \in Tok, Blank \in Tok,
         NEW names \in Seq(Tok), names # <<>>
  PROVE  Listed(KeysOf(s, names)[Len(names)], s, names, Len(names))
<1> DEFINE keys == KeysOf(s, names)
           n == Len(names)
           H == { i \in 0..(n - 1) : Listed(keys[i + 1], s, names, i + 1) }
<1>1. n \in Nat /\ n # 0
  OBVIOUS
<1>2. /\ keys \in [0..n -> Seq(Tok)]
      /\ keys[0] = <<>>
      /\ \A i \in 1..n : keys[i] = KeyStep(s, names, keys[i - 1], i)
  BY KeysEquation
<1> HIDE DEF keys
<1>3. 0 \in H
  <2>1. keys[1] = KeyStep(s, names, keys[0], 1) /\ keys[0] \in Seq(Tok)
    BY <1>1, <1>2
  <2>2. Listed(keys[1], s, names, 1)
    BY <1>1, <1>2, <2>1, ListedStep
  <2> QED
    BY <1>1, <2>2
<1>4. ASSUME NEW i \in 0..((n - 1) - 1), i \in H PROVE i + 1 \in H
  <2>1. Listed(keys[i + 1], s, names, i + 1)
    BY <1>4
  <2>2. /\ i + 2 \in 1..n /\ i + 2 # 1 /\ (i + 2) - 1 = i + 1 /\ i + 1 \in 0..n
        /\ i + 1 \in 0..(n - 1) /\ (i + 1) + 1 = i + 2
    BY <1>1
  <2>3. keys[i + 2] = KeyStep(s, names, keys[i + 1], i + 2)
        /\ keys[i + 1] \in Seq(Tok)
    BY <1>2, <2>2
  <2>4. Listed(keys[i + 2], s, names, i + 2)
    BY <2>1, <2>2, <2>3, ListedStep
  <2> QED
    BY <2>2, <2>4
<1>5. \A i \in 0..(n - 1) : i \in H
  <2> DEFINE m == n - 1
  <2>1. m \in Nat
    BY <1>1
  <2>2. \A i \in 0..(m - 1) : i \in H => i + 1 \in H
    BY <1>4
  <2> HIDE DEF H, m
  <2>3. \A i \in 0..m : i \in H
    BY <1>3, <2>1, <2>2, UpTo
  <2> QED
    BY <2>3 DEF m
<1>6. n - 1 \in H /\ (n - 1) + 1 = n
  BY <1>1, <1>5
<1> QED
  BY <1>6 DEF keys
-----------------------------------------------------------------------------
(***************************************************************************)
(* The recursion in Split, by name.                                        *)
(***************************************************************************)
PieceStep(t, done, i) ==
  IF t[i] = Blank THEN Append(done, <<>>)
  ELSE [done EXCEPT ![Len(done)] = Append(@, t[i])]

PiecesRec(t, pieces) ==
  [i \in 0..Len(t) |->
     IF i = 0 THEN << <<>> >> ELSE PieceStep(t, pieces[i - 1], i)]

PiecesOf(t) == CHOOSE pieces : pieces = PiecesRec(t, pieces)

\* SplitPieces: Split is the last value of its recursion.
LEMMA SplitPieces ==
  ASSUME NEW t
  PROVE  Split(t) = PiecesOf(t)[Len(t)]
BY DEF Split, PiecesOf, PiecesRec, PieceStep

\* PieceStepType: reading one more token gives a list of pieces.
LEMMA PieceStepType ==
  ASSUME NEW Tok, NEW t \in Seq(Tok), NEW d \in Seq(Seq(Tok)), NEW i \in 1..Len(t)
  PROVE  PieceStep(t, d, i) \in Seq(Seq(Tok))
<1> DEFINE W == Seq(Tok)
<1>1. t[i] \in Tok /\ <<>> \in W
  OBVIOUS
<1>2. \A e \in W : Append(e, t[i]) \in W
  BY <1>1
<1> HIDE DEF W
<1>3. d \in Seq(W)
  BY DEF W
<1>4. Append(d, <<>>) \in Seq(W)
  BY <1>1, <1>3
<1>5. [d EXCEPT ![Len(d)] = Append(@, t[i])] \in Seq(W)
  <2> DEFINE n == Len(d)
             y == Append(d[n], t[i])
  <2>1. CASE d = <<>>
    <3>1. [d EXCEPT ![n] = y] = d
      BY <2>1
    <3> QED
      BY <1>3, <3>1
  <2>2. CASE d # <<>>
    <3>1. n \in 1..Len(d) /\ d[n] \in W
      BY <1>3, <2>2
    <3>2. y \in W
      BY <1>2, <3>1
    <3> HIDE DEF y, n
    <3>3. [d EXCEPT ![n] = y] \in Seq(W)
      BY <1>3, <3>1, <3>2, ExceptSeq
    <3> QED
      BY <3>3 DEF n, y
  <2> QED
    BY <2>1, <2>2
<1> QED
  BY <1>4, <1>5 DEF PieceStep, W

\* PiecesEquation: the recursion of Split has a solution, which it chooses.
LEMMA PiecesEquation ==
  ASSUME NEW Tok, NEW t \in Seq(Tok)
  PROVE  /\ PiecesOf(t)[0] = << <<>> >>
         /\ \A i \in 1..Len(t) :
              PiecesOf(t)[i] = PieceStep(t, PiecesOf(t)[i - 1], i)
<1> DEFINE n == Len(t)
           V == Seq(Seq(Tok))
           F == [i \in 1..n |-> [d \in V |-> PieceStep(t, d, i)]]
           v == << <<>> >>
<1>1. n \in Nat /\ v \in V
  OBVIOUS
<1>2. \A d \in V, i \in 1..n : PieceStep(t, d, i) \in V
  BY PieceStepType
<1>3. F \in [1..n -> [V -> V]]
  <2> HIDE DEF V, n
  <2> QED
    BY <1>2
<1>4. \A d \in V, i \in 1..n : F[i][d] = PieceStep(t, d, i)
  <2> HIDE DEF V, n
  <2> QED
    OBVIOUS
<1>5. PICK f \in [0..n -> V] : Follows(f, v, F, n)
  <2> HIDE DEF F, V, n, v
  <2> QED
    BY <1>1, <1>3, PrimRec
<1>6. \A i \in 1..n : f[i] = PieceStep(t, f[i - 1], i)
  <2> HIDE DEF F, V, n, v
  <2> QED
    BY <1>1, <1>4, <1>5 DEF Follows
<1>7. f = PiecesRec(t, f)
  <2> HIDE DEF F, V
  <2> QED
    BY <1>1, <1>5, <1>6 DEF PiecesRec, Follows
<1>8. PiecesOf(t) = PiecesRec(t, PiecesOf(t))
  BY <1>7 DEF PiecesOf
<1> DEFINE pieces == PiecesOf(t)
<1>9. pieces = PiecesRec(t, pieces)
  BY <1>8
<1> HIDE DEF pieces, V, F
<1>10. /\ pieces[0] = << <<>> >>
       /\ \A i \in 1..n : pieces[i] = PieceStep(t, pieces[i - 1], i)
  <2>1. pieces = [i \in 0..n |-> IF i = 0 THEN v
                                 ELSE PieceStep(t, pieces[i - 1], i)]
    BY <1>9 DEF PiecesRec
  <2>2. pieces[0] = v /\ \A i \in 1..n : pieces[i] = PieceStep(t, pieces[i - 1], i)
    <3> HIDE DEF v, n
    <3> QED
      BY <1>1, <2>1
  <2> QED
    BY <2>2
<1> QED
  BY <1>10 DEF pieces

\* AppendTuple: short tuples as Append writes them.
LEMMA AppendTuple ==
  ASSUME NEW x, NEW y, NEW z
  PROVE  /\ <<x>> = Append(<<>>, x)
         /\ <<x, y>> = Append(<<x>>, y)
         /\ <<x, y, z>> = Append(<<x, y>>, z)
OBVIOUS

(***************************************************************************)
(* ThreeTokens: three tokens after a blank make one piece.                 *)
(***************************************************************************)
LEMMA ThreeTokens ==
  ASSUME NEW Tok, NEW t \in Seq(Tok), NEW j \in Nat, j + 3 <= Len(t),
         NEW c \in Seq(Seq(Tok)), PiecesOf(t)[j] = Append(c, <<>>),
         t[j + 1] # Blank, t[j + 2] # Blank, t[j + 3] # Blank
  PROVE  PiecesOf(t)[j + 3] = Append(c, <<t[j + 1], t[j + 2], t[j + 3]>>)
<1> DEFINE W == Seq(Tok)
           x == t[j + 1]
           y == t[j + 2]
           z == t[j + 3]
<1>1. x \in Tok /\ y \in Tok /\ z \in Tok
  OBVIOUS
<1>2. /\ <<x>> = Append(<<>>, x) /\ <<x, y>> = Append(<<x>>, y)
      /\ <<x, y, z>> = Append(<<x, y>>, z)
  BY AppendTuple
<1>3. <<>> \in W /\ <<x>> \in W /\ <<x, y>> \in W /\ <<x, y, z>> \in W /\ c \in Seq(W)
  BY <1>1
<1> DEFINE P(i) == PiecesOf(t)[i]
<1>4. \A i \in 1..Len(t) : P(i) = PieceStep(t, P(i - 1), i)
  BY PiecesEquation
<1>5. /\ P(j + 1) = PieceStep(t, P(j), j + 1)
      /\ P(j + 2) = PieceStep(t, P(j + 1), j + 2)
      /\ P(j + 3) = PieceStep(t, P(j + 2), j + 3)
  <2> HIDE DEF P
  <2>1. /\ j + 1 \in 1..Len(t) /\ (j + 1) - 1 = j
        /\ j + 2 \in 1..Len(t) /\ (j + 2) - 1 = j + 1
        /\ j + 3 \in 1..Len(t) /\ (j + 3) - 1 = j + 2
    OBVIOUS
  <2> QED
    BY <1>4, <2>1
<1> DEFINE e0 == <<>>
           e1 == <<x>>
           e2 == <<x, y>>
           e3 == <<x, y, z>>
<1>6. /\ e1 = Append(e0, t[j + 1]) /\ e2 = Append(e1, t[j + 2])
      /\ e3 = Append(e2, t[j + 3])
  BY <1>2
<1>7. e0 \in W /\ e1 \in W /\ e2 \in W /\ e3 \in W
  BY <1>3
<1>8. P(j) = Append(c, e0)
  OBVIOUS
<1> HIDE DEF W, e0, e1, e2, e3, P
<1>9. c \in Seq(W)
  BY <1>3
<1>10. ASSUME NEW i \in Nat, NEW e \in W, NEW f \in W,
              f = Append(e, t[i]), t[i] # Blank
       PROVE  PieceStep(t, Append(c, e), i) = Append(c, f)
  <2> DEFINE d == Append(c, e)
             h == Append(c, f)
             n == Len(c)
             g == [d EXCEPT ![n + 1] = f]
  <2>1. n \in Nat
    BY <1>9
  <2>2. /\ d \in Seq(W) /\ Len(d) = n + 1
        /\ \A k \in 1..n : d[k] = c[k]
        /\ d[n + 1] = e
    BY <1>9, <1>10, AppendProperties
  <2>4. /\ h \in Seq(W) /\ Len(h) = n + 1
        /\ \A k \in 1..n : h[k] = c[k]
        /\ h[n + 1] = f
    BY <1>9, <1>10, AppendProperties
  <2> HIDE DEF n, d, h
  <2>5. n + 1 \in 1..Len(d)
    BY <2>1, <2>2
  <2>6. /\ g \in Seq(W) /\ Len(g) = Len(d)
        /\ \A k \in 1..Len(d) : g[k] = IF k = n + 1 THEN f ELSE d[k]
    BY <1>10, <2>2, <2>5, ExceptSeq
  <2> HIDE DEF g
  <2>7. ASSUME NEW k \in 1..Len(g) PROVE g[k] = h[k]
    <3>1. k \in 1..Len(d) /\ (k = n + 1 \/ k \in 1..n)
      BY <2>1, <2>2, <2>6
    <3>2. CASE k = n + 1
      BY <2>4, <2>6, <3>1, <3>2
    <3>3. CASE k # n + 1
      BY <2>2, <2>4, <2>6, <3>1, <3>3
    <3> QED
      BY <3>2, <3>3
  <2>8. g = h
    BY <2>2, <2>4, <2>6, <2>7, SeqEqual
  <2>9. [d EXCEPT ![Len(d)] = Append(@, t[i])] = h
    <3>1. Append(d[n + 1], t[i]) = f
      BY <1>10, <2>2
    <3> QED
      BY <2>2, <2>8, <3>1 DEF g
  <2> QED
    BY <1>10, <2>9 DEF d, h, PieceStep
<1>11. PieceStep(t, Append(c, e0), j + 1) = Append(c, e1)
  <2> DEFINE i == j + 1
  <2>1. i \in Nat /\ e1 = Append(e0, t[i]) /\ t[i] # Blank
    BY <1>6
  <2> HIDE DEF i
  <2>2. PieceStep(t, Append(c, e0), i) = Append(c, e1)
    BY <1>7, <1>10, <2>1
  <2> QED
    BY <2>2 DEF i
<1>12. PieceStep(t, Append(c, e1), j + 2) = Append(c, e2)
  <2> DEFINE i == j + 2
  <2>1. i \in Nat /\ e2 = Append(e1, t[i]) /\ t[i] # Blank
    BY <1>6
  <2> HIDE DEF i
  <2>2. PieceStep(t, Append(c, e1), i) = Append(c, e2)
    BY <1>7, <1>10, <2>1
  <2> QED
    BY <2>2 DEF i
<1>13. PieceStep(t, Append(c, e2), j + 3) = Append(c, e3)
  <2> DEFINE i == j + 3
  <2>1. i \in Nat /\ e3 = Append(e2, t[i]) /\ t[i] # Blank
    BY <1>6
  <2> HIDE DEF i
  <2>2. PieceStep(t, Append(c, e2), i) = Append(c, e3)
    BY <1>7, <1>10, <2>1
  <2> QED
    BY <2>2 DEF i
<1>14. P(j + 3) = Append(c, e3)
  BY <1>5, <1>8, <1>11, <1>12, <1>13
<1> QED
  BY <1>14 DEF P, e3

(***************************************************************************)
(* SplitListed: the pieces of a text of n keys are the keys.               *)
(***************************************************************************)
KeyList(s, names, i) == [k \in 1..i |-> SeatKey(s, names[k])]

\* KeyListNext: the first i + 1 keys are the first i and one more.
LEMMA KeyListNext ==
  ASSUME NEW Tok, NEW s \in Tok, "-" \in Tok, NEW names \in Seq(Tok),
         NEW i \in Nat, i + 1 <= Len(names)
  PROVE  /\ KeyList(s, names, i) \in Seq(Seq(Tok))
         /\ Append(KeyList(s, names, i), SeatKey(s, names[i + 1]))
              = KeyList(s, names, i + 1)
<1> DEFINE W == Seq(Tok)
           key(k) == SeatKey(s, names[k])
           c == KeyList(s, names, i)
           d == KeyList(s, names, i + 1)
           a == Append(c, key(i + 1))
<1>1. \A k \in 1..(i + 1) : key(k) \in W
  <2>1. \A k \in 1..(i + 1) : names[k] \in Tok
    OBVIOUS
  <2> QED
    BY <2>1 DEF SeatKey
<1> HIDE DEF W, key
<1>2. /\ c \in Seq(W) /\ Len(c) = i /\ \A k \in 1..i : c[k] = key(k)
  <2>1. c = [k \in 1..i |-> key(k)]
    BY DEF key, KeyList
  <2> HIDE DEF c
  <2> QED
    BY <1>1, <2>1
<1>3. /\ d \in Seq(W) /\ Len(d) = i + 1 /\ \A k \in 1..(i + 1) : d[k] = key(k)
  <2>1. d = [k \in 1..(i + 1) |-> key(k)]
    BY DEF key, KeyList
  <2> HIDE DEF d
  <2> QED
    BY <1>1, <2>1
<1> HIDE DEF c, d
<1>4. key(i + 1) \in W
  BY <1>1
<1>5. /\ a \in Seq(W) /\ Len(a) = i + 1
      /\ \A k \in 1..i : a[k] = c[k]
      /\ a[i + 1] = key(i + 1)
  BY <1>2, <1>4, AppendProperties
<1> HIDE DEF a
<1>6. \A k \in 1..Len(a) : a[k] = d[k]
  BY <1>2, <1>3, <1>5
<1>7. a = d
  BY <1>3, <1>5, <1>6, SeqEqual
<1> QED
  BY <1>2, <1>7 DEF a, c, d, W, key

LEMMA SplitListed ==
  ASSUME NEW Tok, NEW s \in Tok, "-" \in Tok, NEW names \in Seq(Tok),
         names # <<>>, s # Blank, \A k \in 1..Len(names) : names[k] # Blank,
         NEW t \in Seq(Tok), Listed(t, s, names, Len(names))
  PROVE  Split(t) = KeyList(s, names, Len(names))
<1> DEFINE n == Len(names)
           m == n - 1
           P(i) == PiecesOf(t)[i]
           K(i) == KeyList(s, names, i)
           H == { i \in 0..m : P(4 * i + 3) = K(i + 1) }
<1>1. n \in Nat /\ m \in Nat /\ Len(t) = 4 * n - 1
  BY DEF Listed
<1>2. /\ P(0) = << <<>> >>
      /\ \A i \in 1..Len(t) : P(i) = PieceStep(t, P(i - 1), i)
  BY PiecesEquation
<1>3. \A i \in 0..m : /\ K(i) \in Seq(Seq(Tok))
                      /\ Append(K(i), SeatKey(s, names[i + 1])) = K(i + 1)
  BY KeyListNext
<1>4. ASSUME NEW i \in 0..m, P(4 * i) = Append(K(i), <<>>)
      PROVE  P(4 * i + 3) = K(i + 1)
  <2>1. i + 1 \in 1..n /\ 4 * (i + 1) - 3 = 4 * i + 1
        /\ 4 * (i + 1) - 2 = 4 * i + 2 /\ 4 * (i + 1) - 1 = 4 * i + 3
    BY <1>1
  <2>2. t[4 * i + 1] = s /\ t[4 * i + 2] = "-" /\ t[4 * i + 3] = names[i + 1]
    BY <2>1 DEF Listed
  <2>3. s # Blank /\ "-" # Blank /\ names[i + 1] # Blank
    BY <2>1 DEF Blank
  <2> DEFINE j == 4 * i
  <2>4. j \in Nat /\ j + 3 <= Len(t)
    BY <1>1
  <2>5. K(i) \in Seq(Seq(Tok)) /\ PiecesOf(t)[j] = Append(K(i), <<>>)
        /\ t[j + 1] = s /\ t[j + 2] = "-" /\ t[j + 3] = names[i + 1]
    BY <1>3, <1>4, <2>2
  <2> HIDE DEF j, K
  <2>6. PiecesOf(t)[j + 3] = Append(K(i), <<s, "-", names[i + 1]>>)
    BY <2>3, <2>4, <2>5, ThreeTokens
  <2> QED
    BY <1>3, <2>6 DEF j, SeatKey
<1>5. 0 \in H
  <2>1. K(0) = <<>>
    BY DEF KeyList
  <2>2. P(4 * 0) = Append(K(0), <<>>)
    <3>1. << <<>> >> = Append(<<>>, <<>>)
      BY AppendTuple
    <3>2. 4 * 0 = 0
      OBVIOUS
    <3> HIDE DEF K, P
    <3> QED
      BY <1>2, <2>1, <3>1, <3>2, Zenon
  <2>3. P(4 * 0 + 3) = K(0 + 1)
    BY <1>1, <1>4, <2>2
  <2> QED
    BY <1>1, <2>3
<1>6. ASSUME NEW i \in 0..(m - 1), i \in H PROVE i + 1 \in H
  <2>1. P(4 * i + 3) = K(i + 1)
    BY <1>6
  <2>2. /\ i + 1 \in 1..n /\ i + 1 < n /\ i + 1 \in 0..m
        /\ 4 * (i + 1) \in 1..Len(t) /\ 4 * (i + 1) - 1 = 4 * i + 3
    BY <1>1
  <2>3. t[4 * (i + 1)] = Blank
    BY <2>2 DEF Listed
  <2>4. P(4 * (i + 1)) = PieceStep(t, P(4 * i + 3), 4 * (i + 1))
    BY <1>2, <2>2
  <2>5. P(4 * (i + 1)) = Append(K(i + 1), <<>>)
    BY <2>1, <2>3, <2>4 DEF PieceStep
  <2>6. P(4 * (i + 1) + 3) = K((i + 1) + 1)
    BY <1>4, <2>2, <2>5
  <2> QED
    BY <2>2, <2>6
<1>7. \A i \in 0..m : i \in H
  <2> HIDE DEF H, m
  <2> QED
    BY <1>1, <1>5, <1>6, UpTo
<1>8. m \in H
  <2> HIDE DEF H, m
  <2> QED
    BY <1>1, <1>7
<1>9. P(4 * m + 3) = K(m + 1) /\ 4 * m + 3 = Len(t) /\ m + 1 = n
  BY <1>1, <1>8
<1> QED
  BY <1>9, SplitPieces
-----------------------------------------------------------------------------
(***************************************************************************)
(* TrimBrackets: getSeats trims what redigo put around the keys.           *)
(***************************************************************************)
LEMMA TrimBrackets ==
  ASSUME NEW Tok, "[" \in Tok, "]" \in Tok, NEW d \in Seq(Tok)
  PROVE  TrimSuffix(TrimPrefix(<<"[">> \o d \o <<"]">>, <<"[">>), <<"]">>) = d
<1> DEFINE o == <<"[">>
           c == <<"]">>
           n == Len(d)
           e == o \o d
           t == e \o c
           r == d \o c
<1>1. n \in Nat /\ o \in Seq(Tok) /\ c \in Seq(Tok) /\ Len(o) = 1 /\ Len(c) = 1
      /\ o[1] = "[" /\ c[1] = "]"
  OBVIOUS
<1>2. /\ r \in Seq(Tok) /\ Len(r) = n + 1 /\ r[n + 1] = "]"
      /\ \A i \in 1..n : r[i] = d[i]
  <2> HIDE DEF c
  <2>1. /\ r \in Seq(Tok) /\ Len(r) = n + Len(c)
        /\ \A i \in 1..(n + Len(c)) : r[i] = IF i <= n THEN d[i] ELSE c[i - n]
    BY <1>1, ConcatProperties
  <2> HIDE DEF r, n
  <2> QED
    BY <1>1, <2>1
<1>3. t = o \o r
  <2>1. o \in Seq(Tok) /\ c \in Seq(Tok)
    BY <1>1
  <2> HIDE DEF o, c
  <2>2. (o \o d) \o c = o \o (d \o c)
    BY <2>1, ConcatAssociative
  <2> QED
    BY <2>2
<1>4. /\ t \in Seq(Tok) /\ Len(t) = n + 2 /\ t[1] = "["
      /\ \A i \in 1..(n + 1) : t[i + 1] = r[i]
  <2> HIDE DEF o, r
  <2>0. o \in Seq(Tok) /\ r \in Seq(Tok)
    BY <1>1, <1>2
  <2>1. /\ o \o r \in Seq(Tok) /\ Len(o \o r) = Len(o) + Len(r)
        /\ \A i \in 1..(Len(o) + Len(r)) :
             (o \o r)[i] = IF i <= Len(o) THEN o[i] ELSE r[i - Len(o)]
    BY <2>0, ConcatProperties, Zenon
  <2> HIDE DEF t, n
  <2>2. /\ t \in Seq(Tok) /\ Len(t) = n + 2
        /\ \A i \in 1..(n + 2) : t[i] = IF i <= 1 THEN o[i] ELSE r[i - 1]
    BY <1>1, <1>2, <1>3, <2>1
  <2> QED
    BY <1>1, <2>2
<1> HIDE DEF t, r
<1>5. TrimPrefix(t, o) = r
  <2>1. SubSeq(t, 1, 1) = o
    <3> DEFINE u == SubSeq(t, 1, 1)
    <3>1. u \in Seq(Tok) /\ Len(u) = 1 /\ u[1] = t[1]
      BY <1>1, <1>4
    <3> HIDE DEF u, o
    <3>2. \A i \in 1..Len(u) : u[i] = o[i]
      BY <1>1, <1>4, <3>1
    <3>3. u = o
      BY <1>1, <3>1, <3>2, SeqEqual
    <3> QED
      BY <3>3 DEF u
  <2>2. SubSeq(t, 2, Len(t)) = r
    <3> DEFINE u == SubSeq(t, 2, Len(t))
    <3>1. u \in Seq(Tok) /\ Len(u) = n + 1 /\ \A i \in 1..(n + 1) : u[i] = t[i + 1]
      BY <1>1, <1>4
    <3> HIDE DEF u
    <3>2. \A i \in 1..Len(u) : u[i] = r[i]
      BY <1>4, <3>1
    <3>3. u = r
      BY <1>2, <3>1, <3>2, SeqEqual
    <3> QED
      BY <3>3 DEF u
  <2> HIDE DEF o, n
  <2> QED
    BY <1>1, <1>4, <2>1, <2>2 DEF TrimPrefix
<1>6. TrimSuffix(r, c) = d
  <2>1. SubSeq(r, n + 1, n + 1) = c
    <3> DEFINE u == SubSeq(r, n + 1, n + 1)
    <3>1. u \in Seq(Tok) /\ Len(u) = 1 /\ u[1] = r[n + 1]
      BY <1>1, <1>2
    <3> HIDE DEF u, c
    <3>2. \A i \in 1..Len(u) : u[i] = c[i]
      BY <1>1, <1>2, <3>1
    <3>3. u = c
      BY <1>1, <3>1, <3>2, SeqEqual
    <3> QED
      BY <3>3 DEF u
  <2>2. SubSeq(r, 1, n) = d
    <3> DEFINE u == SubSeq(r, 1, n)
    <3>1. u \in Seq(Tok) /\ Len(u) = n /\ \A i \in 1..n : u[i] = r[i]
      BY <1>1, <1>2
    <3> HIDE DEF u
    <3>2. \A i \in 1..Len(u) : u[i] = d[i]
      BY <1>2, <3>1
    <3>3. u = d
      BY <3>1, <3>2, SeqEqual
    <3> QED
      BY <3>3 DEF u
  <2>3. Len(c) <= Len(r) /\ Len(r) - Len(c) + 1 = n + 1 /\ Len(r) - Len(c) = n
        /\ Len(r) = n + 1
    BY <1>1, <1>2
  <2> HIDE DEF c, n
  <2> QED
    BY <2>1, <2>2, <2>3 DEF TrimSuffix
<1> QED
  BY <1>5, <1>6 DEF t

(***************************************************************************)
(* The text of a list, and the text of the sessions without one, read back *)
(* (strings.Split of "" is one empty string).                              *)
(***************************************************************************)
LEMMA SplitEmpty == Split(<<>>) = << <<>> >>
<1>1. <<>> \in Seq({}) /\ Len(<<>>) = 0
  OBVIOUS
<1>2. PiecesOf(<<>>)[0] = << <<>> >>
  BY <1>1, PiecesEquation
<1> QED
  BY <1>1, <1>2, SplitPieces

\* ParseEmpty: a missing list reads as one empty key.
LEMMA ParseEmpty == Parse(<<>>) = << <<>> >>
<1>1. TrimPrefix(<<>>, <<"[">>) = <<>>
  BY DEF TrimPrefix
<1>2. TrimSuffix(<<>>, <<"]">>) = <<>>
  BY DEF TrimSuffix
<1> QED
  BY <1>1, <1>2, SplitEmpty DEF Parse

\* FormatTyped: Format gives a text, and Parse takes exactly its brackets off.
LEMMA FormatTyped ==
  ASSUME NEW Tok, NEW s \in Tok, NEW names \in Seq(Tok),
         "-" \in Tok, Blank \in Tok, "[" \in Tok, "]" \in Tok
  PROVE  /\ Format(s, names) \in Seq(Tok)
         /\ Parse(Format(s, names)) = Split(KeysOf(s, names)[Len(names)])
         /\ KeysOf(s, names)[Len(names)] \in Seq(Tok)
<1> DEFINE d == KeysOf(s, names)[Len(names)]
           o == <<"[">>
           c == <<"]">>
<1>1. d \in Seq(Tok)
  <2>1. KeysOf(s, names) \in [0..Len(names) -> Seq(Tok)]
    BY KeysEquation
  <2>2. Len(names) \in 0..Len(names)
    OBVIOUS
  <2> QED
    BY <2>1, <2>2
<1>2. Format(s, names) = o \o d \o c
  BY FormatKeys
<1>3. o \in Seq(Tok) /\ c \in Seq(Tok)
  OBVIOUS
<1>4. o \o d \o c \in Seq(Tok)
  <2> HIDE DEF o, c, d
  <2> QED
    BY <1>1, <1>3
<1>5. TrimSuffix(TrimPrefix(o \o d \o c, o), c) = d
  <2> HIDE DEF d
  <2> QED
    BY <1>1, TrimBrackets
<1> HIDE DEF o, c, d
<1>6. TrimSuffix(TrimPrefix(Format(s, names), o), c) = d
  BY <1>2, <1>5
<1> QED
  BY <1>1, <1>2, <1>4, <1>6 DEF Parse, o, c, d

(***************************************************************************)
(* RoundTrip: what getSeats makes of the text of a list that is not empty  *)
(* is the keys of the list, in its order; of an empty one, one empty key.  *)
(***************************************************************************)
THEOREM RoundTrip ==
  ASSUME NEW s \in Sessions, NEW names \in Seq(Seeded[s])
  PROVE  Parse(Format(s, names)) =
           IF names = <<>> THEN << <<>> >>
           ELSE [k \in 1..Len(names) |-> SeatKey(s, names[k])]
<1> DEFINE Tok == {s, "-", Blank, "[", "]"} \cup Seeded[s]
           d == KeysOf(s, names)[Len(names)]
<1>1. /\ s \in Tok /\ "-" \in Tok /\ Blank \in Tok /\ "[" \in Tok /\ "]" \in Tok
      /\ Seeded[s] \subseteq Tok
  OBVIOUS
<1>2. names \in Seq(Tok)
  <2> HIDE DEF Tok
  <2> QED
    BY <1>1, SeqMonotonic
<1>3. Parse(Format(s, names)) = Split(d) /\ d \in Seq(Tok)
  <2> HIDE DEF Tok
  <2> QED
    BY <1>1, <1>2, FormatTyped
<1>4. CASE names = <<>>
  <2>1. d = <<>>
    <3>1. KeysOf(s, names)[0] = <<>>
      <4> HIDE DEF Tok
      <4> QED
        BY <1>1, <1>2, KeysEquation
    <3>2. Len(names) = 0
      BY <1>4
    <3> QED
      BY <3>1, <3>2
  <2>2. Split(<<>>) = << <<>> >>
    BY SplitEmpty
  <2> QED
    BY <1>3, <1>4, <2>1, <2>2
<1>5. CASE names # <<>>
  <2>1. s # Blank /\ \A k \in 1..Len(names) : names[k] # Blank
    <3>1. \A k \in 1..Len(names) : names[k] \in Seeded[s]
      OBVIOUS
    <3> QED
      BY <3>1, SessionsAssumption
  <2> HIDE DEF Tok
  <2>2. Listed(d, s, names, Len(names))
    BY <1>1, <1>2, <1>5, KeysListed
  <2>3. Split(d) = KeyList(s, names, Len(names))
    <3> HIDE DEF d
    <3> QED
      BY <1>1, <1>2, <1>3, <1>5, <2>1, <2>2, SplitListed
  <2> QED
    BY <1>3, <1>5, <2>3 DEF KeyList
<1> QED
  BY <1>4, <1>5
=============================================================================
