----------------------------- MODULE GatesProofs -----------------------------
(***************************************************************************)
(* What each of the three gates promises, for every set of vaults, notes,  *)
(* frontmatters and patches.                                               *)
(***************************************************************************)
EXTENDS Gates, TLAPS, FiniteSetTheorems, SequenceTheorems, WellFoundedInduction

-----------------------------------------------------------------------------
(* The comparison of two ledgers, of the notes x before and y after: s are *)
(* the calls under way and E the pairs found equal.                        *)

CallsOf(x, y) == [pair : (DOMAIN x.nodes) \X (DOMAIN y.nodes), left : SUBSET Nat]

PairsOf(s) == {s[i].pair : i \in DOMAIN s}

\* Each pair of Q agrees but for pairs of R below it.
Closed(x, y, Q, R) == \A p \in Q : Guards!Agree(x.nodes[p[1]], y.nodes[p[2]], R)

\* A call has found the keys it has passed equal but for pairs of R.
Compared(x, y, c, R) ==
  LET m == x.nodes[c.pair[1]]
      n == y.nodes[c.pair[2]]
  IN /\ Guards!SameShape(m, n)
     /\ c.left \subseteq DOMAIN m.at
     /\ \A k \in (DOMAIN m.at) \ c.left : Guards!SameLeaf(m.at[k], n.at[k], R)

\* What holds while the comparison is on: what it has found equal is equal
\* unless something under way is not, and it compares nothing but what must be
\* equal if the ledgers are.
Comparing(x, y, s, E) ==
  /\ s \in Seq(CallsOf(x, y)) /\ s # <<>>
  /\ E \subseteq (DOMAIN x.nodes) \X (DOMAIN y.nodes)
  /\ s[1].pair = <<x.ledger, y.ledger>>
  /\ Closed(x, y, E, E \cup PairsOf(s))
  /\ \A i \in DOMAIN s : Compared(x, y, s[i], E \cup PairsOf(s))
  /\ \A R \in SUBSET ((DOMAIN x.nodes) \X (DOMAIN y.nodes)) :
       <<x.ledger, y.ledger>> \in R /\ Closed(x, y, R, R) => PairsOf(s) \subseteq R

LEMMA AgreeMore ==
  ASSUME NEW x, NEW y, NEW Q, NEW R, NEW T, R \subseteq T, Closed(x, y, Q, R)
  PROVE  Closed(x, y, Q, T)
BY DEF Closed, Guards!Agree, Guards!SameLeaf

LEMMA ComparedMore ==
  ASSUME NEW x, NEW y, NEW c, NEW R, NEW T, R \subseteq T, Compared(x, y, c, R)
  PROVE  Compared(x, y, c, T)
BY Zenon DEF Compared, Guards!SameLeaf

(* The stack without its last call.                                        *)
LEMMA UnderLast ==
  ASSUME NEW S, NEW s \in Seq(S), s # <<>>
  PROVE  LET u == SubSeq(s, 1, Len(s) - 1) IN
         /\ u \in Seq(S) /\ Len(u) = Len(s) - 1 /\ Len(s) \in Nat \ {0}
         /\ \A i \in 1 .. Len(s) - 1 : u[i] = s[i]
<1>1. Len(s) \in Nat /\ Len(s) >= 1 /\ \A i \in 1 .. Len(s) : s[i] \in S
  OBVIOUS
<1>2. \A i \in 1 .. Len(s) - 1 : s[i] \in S
  BY <1>1
<1>3. 1 \in Int /\ Len(s) - 1 \in Int
  BY <1>1
<1> DEFINE u == SubSeq(s, 1, Len(s) - 1)
<1>4. /\ u \in Seq(S)
      /\ Len(u) = IF 1 <= Len(s) - 1 THEN Len(s) - 1 - 1 + 1 ELSE 0
      /\ \A i \in 1 .. Len(s) - 1 - 1 + 1 : u[i] = s[1 + i - 1]
  BY <1>2, <1>3, SubSeqProperties
<1>5. Len(u) = Len(s) - 1
  <2> DEFINE n == Len(s)
             m == Len(u)
  <2>1. n \in Nat /\ n >= 1 /\ m = IF 1 <= n - 1 THEN n - 1 - 1 + 1 ELSE 0
    BY <1>1, <1>4
  <2> HIDE DEF n, m
  <2>2. m = n - 1
    BY <2>1
  <2> QED
    BY <2>2 DEF n, m
<1>6. \A i \in 1 .. Len(s) - 1 : u[i] = s[i]
  <2> TAKE i \in 1 .. Len(s) - 1
  <2>1. i \in 1 .. Len(s) - 1 - 1 + 1 /\ 1 + i - 1 = i
    BY <1>1
  <2> QED
    BY <2>1, <1>4
<1> QED
  BY <1>1, <1>4, <1>5, <1>6

\* The stack once its last call has passed the key k.
Passed(s, k) == Append(SubSeq(s, 1, Len(s) - 1), [s[Len(s)] EXCEPT !.left = @ \ {k}])

LEMMA CallPassed ==
  ASSUME NEW P, NEW c \in [pair : P, left : SUBSET Nat], NEW k
  PROVE  [c EXCEPT !.left = @ \ {k}] = [pair |-> c.pair, left |-> c.left \ {k}]
OBVIOUS

LEMMA PassedIs ==
  ASSUME NEW x, NEW y, NEW s \in Seq(CallsOf(x, y)), s # <<>>, NEW k
  PROVE  /\ Passed(s, k) \in Seq(CallsOf(x, y)) /\ Len(Passed(s, k)) = Len(s)
         /\ \A i \in 1 .. Len(s) - 1 : Passed(s, k)[i] = s[i]
         /\ Passed(s, k)[Len(s)] = [pair |-> s[Len(s)].pair, left |-> s[Len(s)].left \ {k}]
         /\ PairsOf(Passed(s, k)) = PairsOf(s)
<1> DEFINE n == Len(s)
           u == SubSeq(s, 1, n - 1)
           c == [s[n] EXCEPT !.left = @ \ {k}]
<1>1. /\ u \in Seq(CallsOf(x, y)) /\ Len(u) = n - 1 /\ n \in Nat \ {0}
      /\ \A i \in 1 .. n - 1 : u[i] = s[i]
  BY UnderLast
<1>2. s[n] \in CallsOf(x, y)
  BY <1>1
<1>3. c \in CallsOf(x, y) /\ c = [pair |-> s[n].pair, left |-> s[n].left \ {k}]
  <2>1. PICK p \in (DOMAIN x.nodes) \X (DOMAIN y.nodes), l \in SUBSET Nat :
             s[n] = [pair |-> p, left |-> l]
    BY <1>2, Zenon DEF CallsOf
  <2>2. c = [pair |-> s[n].pair, left |-> s[n].left \ {k}]
    BY <1>2, CallPassed DEF CallsOf
  <2>3. l \ {k} \in SUBSET Nat
    OBVIOUS
  <2>4. s[n].pair = p /\ s[n].left = l
    BY <2>1
  <2> QED
    BY <2>2, <2>3, <2>4 DEF CallsOf
<1>4. /\ Passed(s, k) \in Seq(CallsOf(x, y)) /\ Len(Passed(s, k)) = n
      /\ \A i \in 1 .. n - 1 : Passed(s, k)[i] = u[i]
      /\ Passed(s, k)[n] = c
  <2> HIDE DEF u, c
  <2> QED
    BY <1>1, <1>3 DEF Passed, u, c
<1>5. \A i \in 1 .. n - 1 : Passed(s, k)[i] = s[i]
  BY <1>1, <1>4
<1>6. DOMAIN s = 1 .. n /\ DOMAIN Passed(s, k) = 1 .. n
  BY <1>1, <1>4
<1>7. \A i \in 1 .. n : Passed(s, k)[i].pair = s[i].pair
  <2> TAKE i \in 1 .. n
  <2>1. CASE i \in 1 .. n - 1
    BY <2>1, <1>5
  <2>2. CASE i = n
    BY <2>2, <1>4, <1>3
  <2> QED
    BY <2>1, <2>2, <1>1
<1> QED
  BY <1>3, <1>4, <1>5, <1>6, <1>7 DEF PairsOf

(* A key is passed whose values are equal, or may be.                      *)
LEMMA KeyPassed ==
  ASSUME NEW x, NEW y, NEW s, NEW E, Comparing(x, y, s, E), NEW k,
         Guards!SameLeaf(x.nodes[s[Len(s)].pair[1]].at[k], y.nodes[s[Len(s)].pair[2]].at[k],
                         E \cup PairsOf(s))
  PROVE  Comparing(x, y, Passed(s, k), E)
<1> DEFINE n == Len(s)
           t == Passed(s, k)
           P == E \cup PairsOf(s)
<1>1. s \in Seq(CallsOf(x, y)) /\ s # <<>> /\ n \in Nat /\ n >= 1 /\ DOMAIN s = 1 .. n
  BY DEF Comparing
<1>2. /\ t \in Seq(CallsOf(x, y)) /\ Len(t) = n
      /\ \A i \in 1 .. n - 1 : t[i] = s[i]
      /\ t[n] = [pair |-> s[n].pair, left |-> s[n].left \ {k}]
      /\ PairsOf(t) = PairsOf(s)
  BY <1>1, PassedIs
<1> HIDE DEF t, n, P
<1>3. DOMAIN t = 1 .. n /\ t # <<>>
  BY <1>1, <1>2
<1>4. t[1].pair = s[1].pair
  <2>1. CASE n = 1
    BY <2>1, <1>2
  <2>2. CASE n # 1
    BY <2>2, <1>1, <1>2
  <2> QED
    BY <2>1, <2>2
<1>5. \A i \in 1 .. n : Compared(x, y, s[i], P)
  BY <1>1, Zenon DEF Comparing, P
<1>6. Compared(x, y, t[n], P)
  <2>1. n \in 1 .. n
    BY <1>1
  <2>2. Compared(x, y, s[n], P)
    BY <2>1, <1>5
  <2>3. Guards!SameLeaf(x.nodes[s[n].pair[1]].at[k], y.nodes[s[n].pair[2]].at[k], P)
    BY Zenon DEF n, P
  <2>4. t[n].pair = s[n].pair /\ t[n].left = s[n].left \ {k}
    BY <1>2
  <2> QED
    BY <2>2, <2>3, <2>4, Zenon DEF Compared
<1>7. \A i \in 1 .. n : Compared(x, y, t[i], P)
  <2> TAKE i \in 1 .. n
  <2>1. CASE i \in 1 .. n - 1
    BY <2>1, <1>2, <1>5
  <2>2. CASE i = n
    BY <2>2, <1>6
  <2> QED
    BY <2>1, <2>2, <1>1
<1> QED
  BY <1>2, <1>3, <1>4, <1>7 DEF Comparing, t, n, P

(* The stack once it has gone into a pair.                                 *)
LEMMA EnteredIs ==
  ASSUME NEW x, NEW y, NEW s \in Seq(CallsOf(x, y)), s # <<>>, NEW k, NEW c \in CallsOf(x, y)
  PROVE  LET u == Append(Passed(s, k), c) IN
         /\ u \in Seq(CallsOf(x, y)) /\ u # <<>> /\ DOMAIN u = 1 .. Len(s) + 1
         /\ u[Len(s) + 1] = c
         /\ \A i \in 1 .. Len(s) - 1 : u[i] = s[i]
         /\ u[Len(s)] = [pair |-> s[Len(s)].pair, left |-> s[Len(s)].left \ {k}]
         /\ u[1].pair = s[1].pair
         /\ PairsOf(u) = PairsOf(s) \cup {c.pair}
<1> DEFINE n == Len(s)
           t == Passed(s, k)
           u == Append(t, c)
<1>1. n \in Nat /\ n >= 1 /\ DOMAIN s = 1 .. n
  OBVIOUS
<1>2. /\ t \in Seq(CallsOf(x, y)) /\ Len(t) = n
      /\ \A i \in 1 .. n - 1 : t[i] = s[i]
      /\ t[n] = [pair |-> s[n].pair, left |-> s[n].left \ {k}]
      /\ PairsOf(t) = PairsOf(s)
  BY PassedIs
<1> HIDE DEF t, n
<1>3. /\ u \in Seq(CallsOf(x, y)) /\ Len(u) = n + 1 /\ u # <<>> /\ DOMAIN u = 1 .. n + 1
      /\ u[n + 1] = c /\ \A i \in 1 .. n : u[i] = t[i]
  BY <1>1, <1>2
<1> HIDE DEF u
<1>4. DOMAIN t = 1 .. n
  BY <1>1, <1>2
<1>5. PairsOf(u) = PairsOf(t) \cup {c.pair}
  <2>1. 1 .. n + 1 = (1 .. n) \cup {n + 1}
    BY <1>1
  <2> QED
    BY <2>1, <1>3, <1>4 DEF PairsOf
<1>6. u[n] = t[n] /\ \A i \in 1 .. n - 1 : u[i] = s[i]
  <2>1. n \in 1 .. n /\ \A i \in 1 .. n - 1 : i \in 1 .. n
    BY <1>1
  <2>2. \A i \in 1 .. n : u[i] = t[i]
    BY <1>3
  <2>3. \A i \in 1 .. n - 1 : t[i] = s[i]
    BY <1>2
  <2> QED
    BY <2>1, <2>2, <2>3, Zenon
<1>7. u[1].pair = s[1].pair
  <2>1. CASE n = 1
    <3>1. t[n].pair = s[n].pair
      BY <1>2
    <3> QED
      BY <3>1, <2>1, <1>6
  <2>2. CASE n # 1
    BY <2>2, <1>1, <1>6
  <2> QED
    BY <2>1, <2>2
<1> QED
  BY <1>2, <1>3, <1>5, <1>6, <1>7 DEF n, t, u

\* The values a call compares next.
ChildPair(x, y, c, k) == <<x.nodes[c.pair[1]].at[k], y.nodes[c.pair[2]].at[k]>>

\* Two nodes of the same shape, which are worth going into.
Enterable(x, v, y, w) ==
  /\ Guards!IsObject(v) /\ Guards!IsObject(w) /\ ~Guards!Unlike(x, v, y, w)
  /\ v \in DOMAIN x.nodes /\ w \in DOMAIN y.nodes /\ DOMAIN x.nodes[v].at \subseteq Nat

LEMMA EnteredCall ==
  ASSUME NEW x, NEW y, NEW v, NEW w, Enterable(x, v, y, w), NEW R
  PROVE  LET c == Guards!Call(x, v, w) IN
         c \in CallsOf(x, y) /\ c.pair = <<v, w>> /\ Compared(x, y, c, R)
<1> DEFINE c == Guards!Call(x, v, w)
<1>1. c = [pair |-> <<v, w>>, left |-> DOMAIN x.nodes[v].at]
  BY DEF Guards!Call
<1>2. c \in CallsOf(x, y)
  BY <1>1 DEF CallsOf, Enterable
<1>3. c.pair = <<v, w>> /\ c.left = DOMAIN x.nodes[v].at
  BY <1>1
<1> HIDE DEF c
<1>4. Guards!SameShape(x.nodes[v], y.nodes[w])
  BY DEF Enterable, Guards!Unlike
<1>5. Compared(x, y, c, R)
  BY <1>3, <1>4 DEF Compared
<1> QED
  BY <1>2, <1>3, <1>5 DEF c

(* A pair of nodes of the same shape is gone into, which the ledgers agree *)
(* on only if the two do.                                                  *)
LEMMA PairEntered ==
  ASSUME NEW x, NEW y, NEW s, NEW E, Comparing(x, y, s, E),
         NEW k \in s[Len(s)].left, NEW v, NEW w,
         <<v, w>> = ChildPair(x, y, s[Len(s)], k), Enterable(x, v, y, w)
  PROVE  Comparing(x, y, Append(Passed(s, k), Guards!Call(x, v, w)), E)
<1> DEFINE n == Len(s)
           c == Guards!Call(x, v, w)
           u == Append(Passed(s, k), c)
           P == E \cup PairsOf(s)
           Q == E \cup PairsOf(u)
           root == <<x.ledger, y.ledger>>
<1>1. s \in Seq(CallsOf(x, y)) /\ s # <<>>
  BY DEF Comparing
<1>2. n \in Nat /\ n >= 1 /\ DOMAIN s = 1 .. n /\ n \in 1 .. n
  BY <1>1
<1>3. c \in CallsOf(x, y) /\ c.pair = <<v, w>> /\ \A R : Compared(x, y, c, R)
  BY EnteredCall
<1> HIDE DEF c
<1>4. /\ u \in Seq(CallsOf(x, y)) /\ u # <<>> /\ DOMAIN u = 1 .. n + 1
      /\ u[n + 1] = c
      /\ \A i \in 1 .. n - 1 : u[i] = s[i]
      /\ u[n] = [pair |-> s[n].pair, left |-> s[n].left \ {k}]
      /\ u[1].pair = s[1].pair
      /\ PairsOf(u) = PairsOf(s) \cup {c.pair}
  <2>1. c \in CallsOf(x, y)
    BY <1>3
  <2> QED
    BY <1>1, <2>1, EnteredIs
<1>5. k \in s[n].left /\ <<v, w>> = ChildPair(x, y, s[n], k)
  OBVIOUS
<1>6. \A i \in DOMAIN s : Compared(x, y, s[i], P)
  BY DEF Comparing
<1>7. s[1].pair = root /\ E \subseteq (DOMAIN x.nodes) \X (DOMAIN y.nodes) /\ Closed(x, y, E, P)
  BY DEF Comparing
<1>8. \A R \in SUBSET ((DOMAIN x.nodes) \X (DOMAIN y.nodes)) :
        root \in R /\ Closed(x, y, R, R) => PairsOf(s) \subseteq R
  BY DEF Comparing
<1> HIDE DEF u, n
<1>9. P \subseteq Q /\ <<v, w>> \in Q
  BY <1>3, <1>4
<1> HIDE DEF P, Q, root
<1>10. Closed(x, y, E, Q)
  BY <1>7, <1>9, AgreeMore
<1>11. \A i \in 1 .. n : Compared(x, y, s[i], Q)
  BY <1>2, <1>6, <1>9, ComparedMore
<1>12. Compared(x, y, u[n], Q)
  <2>1. Compared(x, y, s[n], Q)
    BY <1>2, <1>11
  <2>2. Guards!SameLeaf(x.nodes[s[n].pair[1]].at[k], y.nodes[s[n].pair[2]].at[k], Q)
    BY <1>5, <1>9, Zenon DEF ChildPair, Guards!SameLeaf, Enterable
  <2>3. u[n].pair = s[n].pair /\ u[n].left = s[n].left \ {k}
    BY <1>4
  <2> QED
    BY <2>1, <2>2, <2>3, Zenon DEF Compared
<1>13. \A i \in 1 .. n + 1 : Compared(x, y, u[i], Q)
  <2> TAKE i \in 1 .. n + 1
  <2>1. CASE i \in 1 .. n - 1
    <3>1. i \in 1 .. n
      BY <2>1, <1>2
    <3> QED
      BY <2>1, <3>1, <1>4, <1>11
  <2>2. CASE i = n
    BY <2>2, <1>12
  <2>3. CASE i = n + 1
    BY <2>3, <1>3, <1>4
  <2>4. i \in 1 .. n - 1 \/ i = n \/ i = n + 1
    BY <1>2
  <2> QED
    BY <2>1, <2>2, <2>3, <2>4
<1>14. ASSUME NEW R \in SUBSET ((DOMAIN x.nodes) \X (DOMAIN y.nodes)),
              root \in R, Closed(x, y, R, R)
       PROVE  PairsOf(u) \subseteq R
  <2>1. PairsOf(s) \subseteq R
    BY <1>8, <1>14
  <2>2. s[n].pair \in R
    BY <2>1, <1>2 DEF PairsOf
  <2>3. Guards!Agree(x.nodes[s[n].pair[1]], y.nodes[s[n].pair[2]], R)
    BY <2>2, <1>14 DEF Closed
  <2>4. k \in DOMAIN x.nodes[s[n].pair[1]].at
    BY <1>2, <1>5, <1>6 DEF Compared
  <2>5. Guards!SameLeaf(v, w, R)
    BY <2>3, <2>4, <1>5, Zenon DEF Guards!Agree, ChildPair
  <2>6. <<v, w>> \in R
    BY <2>5 DEF Guards!SameLeaf, Enterable
  <2> QED
    BY <2>1, <2>6, <1>3, <1>4
<1> QED
  <2>1. Q = E \cup PairsOf(u)
    BY DEF Q
  <2> QED
    BY <2>1, <1>4, <1>7, <1>10, <1>13, <1>14 DEF Comparing, root, u, c

(* The innermost two nodes are equal: so is what was waiting for them.      *)
LEMMA PairReturned ==
  ASSUME NEW x, NEW y, NEW s, NEW E, Comparing(x, y, s, E), s[Len(s)].left = {}
  PROVE  LET u == SubSeq(s, 1, Len(s) - 1)
             F == E \cup {s[Len(s)].pair}
         IN /\ F \subseteq (DOMAIN x.nodes) \X (DOMAIN y.nodes)
            /\ u \in Seq(CallsOf(x, y))
            /\ u # <<>> => Comparing(x, y, u, F)
            /\ u = <<>> => Closed(x, y, F, F) /\ <<x.ledger, y.ledger>> \in F
<1> DEFINE n == Len(s)
           u == SubSeq(s, 1, n - 1)
           q == s[n].pair
           F == E \cup {q}
           P == E \cup PairsOf(s)
           root == <<x.ledger, y.ledger>>
<1>1. s \in Seq(CallsOf(x, y)) /\ s # <<>>
  BY DEF Comparing
<1>2. /\ u \in Seq(CallsOf(x, y)) /\ Len(u) = n - 1 /\ n \in Nat \ {0}
      /\ \A i \in 1 .. n - 1 : u[i] = s[i]
  BY <1>1, UnderLast
<1>3. s[n] \in CallsOf(x, y) /\ DOMAIN s = 1 .. n
  BY <1>1, <1>2
<1>4. q \in (DOMAIN x.nodes) \X (DOMAIN y.nodes)
  BY <1>3 DEF CallsOf
<1>5. \A i \in DOMAIN s : Compared(x, y, s[i], P)
  BY DEF Comparing
<1>6. s[1].pair = root /\ E \subseteq (DOMAIN x.nodes) \X (DOMAIN y.nodes) /\ Closed(x, y, E, P)
  BY DEF Comparing
<1>7. \A R \in SUBSET ((DOMAIN x.nodes) \X (DOMAIN y.nodes)) :
        root \in R /\ Closed(x, y, R, R) => PairsOf(s) \subseteq R
  BY DEF Comparing
<1>8. s[n].left = {}
  OBVIOUS
<1> HIDE DEF n, u
<1>9. DOMAIN u = 1 .. n - 1
  BY <1>2
<1>10. PairsOf(s) = PairsOf(u) \cup {q}
  <2>1. 1 .. n = (1 .. n - 1) \cup {n}
    BY <1>2
  <2> QED
    BY <2>1, <1>2, <1>3, <1>9 DEF PairsOf
<1> HIDE DEF q
<1>11. P = F \cup PairsOf(u)
  BY <1>10
<1> HIDE DEF P, root
<1>12. Closed(x, y, F, P)
  <2>1. Compared(x, y, s[n], P)
    BY <1>2, <1>3, <1>5
  <2>2. Guards!Agree(x.nodes[q[1]], y.nodes[q[2]], P)
    BY <2>1, <1>8, Zenon DEF Compared, Guards!Agree, Guards!SameShape, q
  <2> QED
    BY <2>2, <1>6 DEF Closed
<1>13. ASSUME u # <<>>
       PROVE  Comparing(x, y, u, F)
  <2>1. n - 1 >= 1
    BY <1>2, <1>13
  <2>2. u[1].pair = root
    BY <2>1, <1>2, <1>6
  <2>3. \A i \in 1 .. n - 1 : Compared(x, y, u[i], P)
    BY <1>2, <1>3, <1>5
  <2>4. \A R \in SUBSET ((DOMAIN x.nodes) \X (DOMAIN y.nodes)) :
          root \in R /\ Closed(x, y, R, R) => PairsOf(u) \subseteq R
    BY <1>7, <1>10
  <2> HIDE DEF F
  <2> QED
    BY <1>2, <1>4, <1>6, <1>9, <1>11, <1>12, <1>13, <2>2, <2>3, <2>4 DEF Comparing, root, F
<1>14. ASSUME u = <<>>
       PROVE  Closed(x, y, F, F) /\ root \in F
  <2>1. n = 1 /\ PairsOf(u) = {}
    BY <1>2, <1>14 DEF PairsOf
  <2> QED
    BY <2>1, <1>6, <1>11, <1>12 DEF q
<1> QED
  BY <1>2, <1>4, <1>6, <1>13, <1>14 DEF n, u, q, root

LEMMA FirstEntered ==
  ASSUME NEW x, NEW y, Enterable(x, x.ledger, y, y.ledger)
  PROVE  Comparing(x, y, <<Guards!Call(x, x.ledger, y.ledger)>>, {})
<1> DEFINE c == Guards!Call(x, x.ledger, y.ledger)
           s == <<c>>
<1>1. c \in CallsOf(x, y) /\ c.pair = <<x.ledger, y.ledger>> /\ \A R : Compared(x, y, c, R)
  BY EnteredCall
<1> HIDE DEF c
<1>2. s \in Seq(CallsOf(x, y)) /\ s # <<>> /\ DOMAIN s = {1} /\ s[1] = c
  BY <1>1
<1> HIDE DEF s
<1>3. PairsOf(s) = {<<x.ledger, y.ledger>>}
  BY <1>1, <1>2 DEF PairsOf
<1>4. Closed(x, y, {}, {} \cup PairsOf(s))
  BY DEF Closed
<1>5. \A i \in DOMAIN s : Compared(x, y, s[i], {} \cup PairsOf(s))
  BY <1>1, <1>2
<1> QED
  BY <1>1, <1>2, <1>3, <1>4, <1>5 DEF Comparing, s, c

-----------------------------------------------------------------------------
(* What the comparison finds is so.                                        *)

LEMMA ClosedIsSame ==
  ASSUME NEW x, NEW y, NEW v, NEW w, Guards!IsObject(v), Guards!IsObject(w),
         NEW R \in SUBSET ((DOMAIN x.nodes) \X (DOMAIN y.nodes)), <<v, w>> \in R, Closed(x, y, R, R)
  PROVE  Guards!SameTree(x.nodes, v, y.nodes, w, FALSE)
BY DEF Closed, Guards!SameTree

LEMMA UnlikeIsNotSame ==
  ASSUME NEW x, NEW y, NEW v, NEW w, Guards!Unlike(x, v, y, w),
         Guards!IsObject(v) \/ v # Guards!NotANumber
  PROVE  ~Guards!SameTree(x.nodes, v, y.nodes, w, FALSE)
<1>1. CASE Guards!IsObject(v) /\ Guards!IsObject(w)
  <2> SUFFICES ASSUME NEW R \in SUBSET ((DOMAIN x.nodes) \X (DOMAIN y.nodes)),
                      <<v, w>> \in R, Closed(x, y, R, R)
               PROVE  FALSE
    BY <1>1 DEF Guards!SameTree, Closed
  <2>1. Guards!Agree(x.nodes[v], y.nodes[w], R)
    BY DEF Closed
  <2> QED
    BY <2>1, <1>1 DEF Guards!Agree, Guards!Unlike, Guards!SameShape
<1>2. CASE ~(Guards!IsObject(v) /\ Guards!IsObject(w))
  BY <1>2 DEF Guards!SameTree, Guards!Unlike, Guards!Identical
<1> QED
  BY <1>1, <1>2

LEMMA UnlikeBelow ==
  ASSUME NEW x, NEW y, NEW s, NEW E, Comparing(x, y, s, E), NEW k \in s[Len(s)].left, NEW v, NEW w,
         <<v, w>> = ChildPair(x, y, s[Len(s)], k), v # Guards!NotANumber, Guards!Unlike(x, v, y, w),
         Guards!IsObject(x.ledger), Guards!IsObject(y.ledger)
  PROVE  ~Guards!SameTree(x.nodes, x.ledger, y.nodes, y.ledger, FALSE)
<1> SUFFICES ASSUME NEW R \in SUBSET ((DOMAIN x.nodes) \X (DOMAIN y.nodes)),
                    <<x.ledger, y.ledger>> \in R, Closed(x, y, R, R)
             PROVE  FALSE
  BY DEF Guards!SameTree, Closed
<1> DEFINE n == Len(s)
<1>1. s \in Seq(CallsOf(x, y)) /\ s # <<>>
  BY DEF Comparing
<1>2. n \in DOMAIN s
  BY <1>1
<1>3. Compared(x, y, s[n], E \cup PairsOf(s)) /\ s[n].pair \in R
  <2>1. PairsOf(s) \subseteq R
    BY DEF Comparing
  <2> QED
    BY <2>1, <1>2 DEF Comparing, PairsOf
<1>4. Guards!Agree(x.nodes[s[n].pair[1]], y.nodes[s[n].pair[2]], R)
  BY <1>3 DEF Closed
<1>5. k \in DOMAIN x.nodes[s[n].pair[1]].at
  BY <1>3, Zenon DEF Compared
<1>6. Guards!SameLeaf(v, w, R)
  BY <1>4, <1>5, Zenon DEF Guards!Agree, ChildPair
<1>7. <<v, w>> \in R => Guards!Agree(x.nodes[v], y.nodes[w], R)
  BY DEF Closed
<1> QED
  BY <1>6, <1>7 DEF Guards!SameLeaf, Guards!Unlike, Guards!Identical, Guards!SameShape, Guards!Agree

-----------------------------------------------------------------------------
(* The invariant of a revise.                                              *)

Deciding(x, y) ==
  /\ Guards!Entity(x) = Guards!Entity(y)
  /\ Guards!IsObject(x.ledger) /\ Guards!IsObject(y.ledger)
  /\ Comparing(x, y, calls, equal)

GuardsInv ==
  gate = "governed" =>
    /\ Guards!TypeOK
    /\ verdict = "comparing" => Deciding(before, after)
    /\ Guards!GuardIsExact

LEMMA NotesAreWellFormed ==
  ASSUME Guards!TypeOK
  PROVE  /\ Guards!WellFormed(before) /\ Guards!WellFormed(after)
         /\ Nodes \cap Scalars = {} /\ "null" \in Scalars
BY Parameters DEF Guards!TypeOK, Guards!WorldsAssumption, Guards!NoObject

LEMMA SlicesAreTheSame ==
  ASSUME NEW x
  PROVE  Guards!NormalizeLedger(x) = Guards!Ledger(x) /\ Guards!GovernedEntity(x) = Guards!Entity(x)
BY DEF Guards!NormalizeLedger, Guards!Ledger, Guards!GovernedEntity, Guards!Entity, Guards!NoObject

LEMMA LedgerIsNotNaN ==
  ASSUME NEW x
  PROVE  Guards!IsObject(Guards!NormalizeLedger(x)) \/ Guards!NormalizeLedger(x) # Guards!NotANumber
BY DEF Guards!NormalizeLedger, Guards!NoObject, Guards!NotANumber

LEMMA GuardsInvInit == Init => GuardsInv
<1> SUFFICES ASSUME Init, gate = "governed"
             PROVE  GuardsInv
  BY DEF GuardsInv
<1>1. Guards!Init
  BY DEF Init
<1>2. calls \in Seq([pair : (DOMAIN before.nodes) \X (DOMAIN after.nodes), left : SUBSET Nat])
  BY <1>1 DEF Guards!Init
<1>3. Guards!TypeOK
  BY <1>1, <1>2, Parameters DEF Guards!Init, Guards!TypeOK, Guards!Verdicts, Guards!WorldsAssumption
<1> QED
  BY <1>1, <1>3 DEF Guards!Init, GuardsInv, Guards!GuardIsExact

(* A revise that is not decided at once goes into the two ledgers.          *)
LEMMA ReviseStep ==
  ASSUME Guards!TypeOK, Guards!Revise
  PROVE  Guards!TypeOK' /\ (verdict' = "comparing" => Deciding(before, after)') /\ Guards!GuardIsExact'
<1> USE DEF Guards!Revise
<1>1. /\ Frontmatters[frontmatters].revises \in Nat /\ frontmatters \in DOMAIN Frontmatters
      /\ \A note \in Frontmatters[frontmatters].notes : Guards!WellFormed(note)
      /\ Nodes \cap Scalars = {} /\ "null" \in Scalars
  BY Parameters DEF Guards!TypeOK, Guards!WorldsAssumption, Guards!NoObject
<1>2. PICK x \in Frontmatters[frontmatters].notes, y \in Frontmatters[frontmatters].notes :
        before' = x /\ after' = y
  BY DEF Guards!TypeOK, Guards!Current
<1>3. Guards!WellFormed(x) /\ Guards!WellFormed(y)
  BY <1>1
<1> DEFINE v == Guards!NormalizeLedger(x)
           w == Guards!NormalizeLedger(y)
<1>4. \/ verdict' = "SYNTAX_BREAK" /\ calls' = <<>>
      \/ Guards!ChangedAtOnce(x, y, cached) /\ verdict' = "LEDGER_GUARD" /\ calls' = <<>>
      \/ /\ ~Guards!ChangedAtOnce(x, y, cached) /\ Guards!IsObject(v)
         /\ verdict' = "comparing" /\ calls' = <<Guards!Call(x, v, w)>>
      \/ /\ ~Guards!ChangedAtOnce(x, y, cached) /\ ~Guards!IsObject(v)
         /\ verdict' = "revised" /\ calls' = <<>>
  BY <1>2
<1>5. equal' = {} /\ frontmatters' = frontmatters /\ revises' \in 0 .. Frontmatters[frontmatters].revises
  BY <1>1 DEF Guards!TypeOK
<1>6. cached' \subseteq {n \in Frontmatters[frontmatters].notes : n.frontmatter = "corrupt"}
  BY <1>2 DEF Guards!TypeOK, Guards!Parsed
<1>7. /\ v = Guards!Ledger(x) /\ w = Guards!Ledger(y)
      /\ Guards!GovernedEntity(x) = Guards!Entity(x) /\ Guards!GovernedEntity(y) = Guards!Entity(y)
  BY SlicesAreTheSame
<1>8. Guards!SameProvenance(x, y, FALSE) <=>
        Guards!Entity(x) = Guards!Entity(y) /\ Guards!SameTree(x.nodes, v, y.nodes, w, FALSE)
  BY <1>7 DEF Guards!SameProvenance
<1> HIDE DEF v, w, Guards!Revise
<1>9. ASSUME ~Guards!ChangedAtOnce(x, y, cached)
      PROVE  Guards!Entity(x) = Guards!Entity(y) /\ ~Guards!Unlike(x, v, y, w)
  BY <1>7, <1>9 DEF Guards!ChangedAtOnce, v, w
<1>10. CASE verdict' = "SYNTAX_BREAK" /\ calls' = <<>>
  <2>1. Guards!TypeOK'
    BY <1>1, <1>2, <1>5, <1>6, <1>10 DEF Guards!TypeOK, Guards!Verdicts
  <2> QED
    BY <2>1, <1>10 DEF Guards!GuardIsExact
<1>11. CASE Guards!ChangedAtOnce(x, y, cached) /\ verdict' = "LEDGER_GUARD" /\ calls' = <<>>
  <2>1. Guards!TypeOK'
    BY <1>1, <1>2, <1>5, <1>6, <1>11 DEF Guards!TypeOK, Guards!Verdicts
  <2>2. Guards!Unlike(x, v, y, w) => ~Guards!SameProvenance(x, y, FALSE)
    BY <1>8, LedgerIsNotNaN, UnlikeIsNotSame DEF v
  <2>3. "corrupt" \notin {x.frontmatter, y.frontmatter} => ~Guards!SameProvenance(x, y, FALSE)
    BY <2>2, <1>7, <1>8, <1>11 DEF Guards!ChangedAtOnce, Guards!Throws, v, w
  <2> QED
    BY <2>1, <2>3, <1>2, <1>11 DEF Guards!GuardIsExact
<1>12. CASE /\ ~Guards!ChangedAtOnce(x, y, cached) /\ ~Guards!IsObject(v)
            /\ verdict' = "revised" /\ calls' = <<>>
  <2>1. Guards!TypeOK'
    BY <1>1, <1>2, <1>5, <1>6, <1>12 DEF Guards!TypeOK, Guards!Verdicts
  <2>2. Guards!SameTree(x.nodes, v, y.nodes, w, FALSE)
    BY <1>9, <1>12 DEF Guards!Unlike, Guards!Identical, Guards!SameTree
  <2> QED
    BY <2>1, <2>2, <1>2, <1>8, <1>9, <1>12 DEF Guards!GuardIsExact
<1>13. CASE /\ ~Guards!ChangedAtOnce(x, y, cached) /\ Guards!IsObject(v)
            /\ verdict' = "comparing" /\ calls' = <<Guards!Call(x, v, w)>>
  <2>1. Guards!IsObject(w)
    BY <1>9, <1>13 DEF Guards!Unlike, Guards!Identical
  <2>2. v = x.ledger /\ w = y.ledger /\ Guards!IsObject(x.ledger) /\ Guards!IsObject(y.ledger)
    BY <2>1, <1>1, <1>13 DEF Guards!NormalizeLedger, Guards!IsObject, Guards!NoObject, v, w
  <2>3. v \in DOMAIN x.nodes /\ w \in DOMAIN y.nodes /\ DOMAIN x.nodes[v].at \subseteq Nat
    BY <2>2, <1>1, <1>3 DEF Guards!WellFormed, Guards!IsObject
  <2>4. Enterable(x, x.ledger, y, y.ledger)
    BY <2>1, <2>2, <2>3, <1>9, <1>13 DEF Enterable
  <2>5. Comparing(x, y, calls', {})
    BY <2>2, <2>4, <1>13, FirstEntered
  <2>6. calls' \in Seq(CallsOf(x, y)) /\ calls' # <<>>
    BY <2>5 DEF Comparing
  <2>7. Guards!TypeOK'
    BY <2>6, <1>1, <1>2, <1>5, <1>6, <1>13 DEF Guards!TypeOK, Guards!Verdicts, CallsOf
  <2>8. Deciding(before, after)'
    BY <2>2, <2>5, <1>2, <1>5, <1>9, <1>13 DEF Deciding
  <2> QED
    BY <2>7, <2>8, <1>13 DEF Guards!GuardIsExact
<1> QED
  BY <1>4, <1>10, <1>11, <1>12, <1>13

(* The innermost call takes its next key.                                  *)
LEMMA CompareChildStep ==
  ASSUME Guards!TypeOK, Deciding(before, after), Guards!CompareChild
  PROVE  Guards!TypeOK' /\ (verdict' = "comparing" => Deciding(before, after)') /\ Guards!GuardIsExact'
<1> DEFINE n == Len(calls)
           c == calls[n]
           P == equal \cup PairsOf(calls)
           R(k) == Passed(calls, k)
           V(k) == before.nodes[c.pair[1]].at[k]
           W(k) == after.nodes[c.pair[2]].at[k]
           O(k) == Guards!IsObject(V(k)) /\ Guards!IsObject(W(k))
<1>1. /\ verdict = "comparing"
      /\ UNCHANGED <<frontmatters, before, after, equal, cached, revises>>
  BY DEF Guards!CompareChild
<1>2. PICK k \in c.left :
        \/ Guards!Unlike(before, V(k), after, W(k)) /\ verdict' = "LEDGER_GUARD" /\ calls' = <<>>
        \/ /\ IF O(k) THEN Guards!KnownEqual(V(k), W(k)) ELSE Guards!Identical(V(k), W(k))
           /\ calls' = R(k) /\ UNCHANGED verdict
        \/ /\ O(k) /\ ~Guards!Unlike(before, V(k), after, W(k))
           /\ calls' = Append(R(k), Guards!Call(before, V(k), W(k))) /\ UNCHANGED verdict
  BY Zenon DEF Guards!CompareChild, Guards!Top, Guards!Under, Passed
<1> DEFINE v == V(k)
           w == W(k)
<1>3. <<v, w>> = ChildPair(before, after, c, k)
  BY DEF ChildPair
<1>4. Comparing(before, after, calls, equal)
  BY DEF Deciding
<1>5. /\ calls \in Seq(CallsOf(before, after)) /\ n \in DOMAIN calls /\ c \in CallsOf(before, after)
      /\ c.pair[1] \in DOMAIN before.nodes /\ c.pair[2] \in DOMAIN after.nodes
      /\ k \in DOMAIN before.nodes[c.pair[1]].at /\ k \in DOMAIN after.nodes[c.pair[2]].at
  <2>1. calls \in Seq(CallsOf(before, after)) /\ calls # <<>>
    BY <1>4 DEF Comparing
  <2>2. n \in DOMAIN calls /\ c \in CallsOf(before, after)
    BY <2>1
  <2>3. Compared(before, after, c, P)
    BY <2>2, <1>4 DEF Comparing
  <2>4. c.pair \in (DOMAIN before.nodes) \X (DOMAIN after.nodes)
    BY <2>2 DEF CallsOf
  <2> QED
    BY <2>1, <2>2, <2>3, <2>4 DEF Compared, Guards!SameShape
<1>6. /\ Guards!IsObject(v) => v \in DOMAIN before.nodes /\ DOMAIN before.nodes[v].at \subseteq Nat
      /\ Guards!IsObject(w) => w \in DOMAIN after.nodes
  <2> DEFINE i == c.pair[1]
             j == c.pair[2]
  <2>1. /\ i \in DOMAIN before.nodes /\ k \in DOMAIN before.nodes[i].at /\ v = before.nodes[i].at[k]
        /\ j \in DOMAIN after.nodes /\ k \in DOMAIN after.nodes[j].at /\ w = after.nodes[j].at[k]
    BY <1>5
  <2> HIDE DEF i, j, n, c, v, w
  <2>2. v \in DOMAIN before.nodes \cup Scalars /\ w \in DOMAIN after.nodes \cup Scalars
    BY <2>1, NotesAreWellFormed DEF Guards!WellFormed
  <2>3. \A x \in DOMAIN before.nodes : DOMAIN before.nodes[x].at \subseteq Nat
    BY NotesAreWellFormed DEF Guards!WellFormed
  <2> QED
    BY <2>2, <2>3, NotesAreWellFormed DEF Guards!IsObject
<1> HIDE DEF n, c, v, w
<1>7. ASSUME /\ calls' \in Seq([pair : (DOMAIN before.nodes) \X (DOMAIN after.nodes), left : SUBSET Nat])
             /\ calls' # <<>> <=> verdict' = "comparing"
             /\ verdict' \in {"comparing", "LEDGER_GUARD"}
      PROVE  Guards!TypeOK'
  BY <1>1, <1>7 DEF Guards!TypeOK, Guards!Verdicts
<1>8. CASE Guards!Unlike(before, v, after, w) /\ verdict' = "LEDGER_GUARD" /\ calls' = <<>>
  <2>1. ~Guards!HasNaN(before) => v # Guards!NotANumber
    BY <1>5 DEF Guards!HasNaN, v, c, n
  <2>2. ~Guards!HasNaN(before) => ~Guards!SameProvenance(before, after, FALSE)
    <3> SUFFICES ASSUME ~Guards!HasNaN(before)
                 PROVE  ~Guards!SameProvenance(before, after, FALSE)
      OBVIOUS
    <3>1. ~Guards!SameTree(before.nodes, before.ledger, after.nodes, after.ledger, FALSE)
      BY <2>1, <1>3, <1>4, <1>8, UnlikeBelow DEF Deciding, n, c
    <3> QED
      BY <3>1 DEF Deciding, Guards!SameProvenance, Guards!Ledger
  <2>3. Guards!TypeOK'
    BY <1>7, <1>8
  <2> QED
    BY <2>2, <2>3, <1>1, <1>8 DEF Guards!GuardIsExact
<1>9. ASSUME Comparing(before, after, calls', equal), verdict' = verdict
      PROVE  Guards!TypeOK' /\ Deciding(before, after)' /\ Guards!GuardIsExact'
  <2>1. Guards!TypeOK'
    BY <1>1, <1>7, <1>9 DEF Comparing, CallsOf
  <2> QED
    BY <2>1, <1>1, <1>9 DEF Deciding, Guards!GuardIsExact
<1>10. CASE /\ IF Guards!IsObject(v) /\ Guards!IsObject(w) THEN Guards!KnownEqual(v, w)
                                                              ELSE Guards!Identical(v, w)
            /\ calls' = Passed(calls, k) /\ UNCHANGED verdict
  <2>1. Guards!KnownEqual(v, w) => <<v, w>> \in P
    BY DEF Guards!KnownEqual, PairsOf
  <2>2. Guards!SameLeaf(v, w, P)
    BY <2>1, <1>10 DEF Guards!SameLeaf, Guards!Identical
  <2>3. Comparing(before, after, calls', equal)
    BY <2>2, <1>4, <1>10, KeyPassed, Zenon DEF v, w, c, n
  <2> QED
    BY <2>3, <1>9, <1>10
<1>11. CASE /\ Guards!IsObject(v) /\ Guards!IsObject(w) /\ ~Guards!Unlike(before, v, after, w)
            /\ calls' = Append(Passed(calls, k), Guards!Call(before, v, w)) /\ UNCHANGED verdict
  <2>1. Enterable(before, v, after, w)
    BY <1>6, <1>11 DEF Enterable
  <2>2. k \in calls[Len(calls)].left /\ <<v, w>> = ChildPair(before, after, calls[Len(calls)], k)
    BY <1>3 DEF n, c
  <2>3. Comparing(before, after, calls', equal)
    BY <2>1, <2>2, <1>4, <1>11, PairEntered
  <2> QED
    BY <2>3, <1>9, <1>11
<1> QED
  BY <1>2, <1>8, <1>10, <1>11 DEF v, w

(* The innermost call returns, and with the first one the comparison ends.  *)
LEMMA ReturnStep ==
  ASSUME Guards!TypeOK, Deciding(before, after), Guards!Return
  PROVE  Guards!TypeOK' /\ (verdict' = "comparing" => Deciding(before, after)') /\ Guards!GuardIsExact'
<1> DEFINE n == Len(calls)
           u == SubSeq(calls, 1, n - 1)
           F == equal \cup {calls[n].pair}
<1>1. /\ verdict = "comparing" /\ calls[n].left = {}
      /\ equal' = F /\ calls' = u
      /\ verdict' = IF u = <<>> THEN "revised" ELSE verdict
      /\ UNCHANGED <<frontmatters, before, after, cached, revises>>
  BY DEF Guards!Return, Guards!Top, Guards!Under
<1>2. /\ F \subseteq (DOMAIN before.nodes) \X (DOMAIN after.nodes)
      /\ u \in Seq(CallsOf(before, after))
      /\ u # <<>> => Comparing(before, after, u, F)
      /\ u = <<>> => Closed(before, after, F, F) /\ <<before.ledger, after.ledger>> \in F
  BY <1>1, PairReturned DEF Deciding
<1> HIDE DEF F, u
<1>3. Guards!TypeOK'
  BY <1>1, <1>2 DEF Guards!TypeOK, Guards!Verdicts, CallsOf
<1>4. CASE u = <<>>
  <2>1. Guards!SameTree(before.nodes, before.ledger, after.nodes, after.ledger, FALSE)
    BY <1>2, <1>4, ClosedIsSame DEF Deciding
  <2>2. Guards!SameProvenance(before, after, FALSE)
    BY <2>1 DEF Deciding, Guards!SameProvenance, Guards!Ledger
  <2> QED
    BY <2>2, <1>1, <1>3, <1>4 DEF Guards!GuardIsExact
<1>5. CASE u # <<>>
  BY <1>1, <1>2, <1>3, <1>5 DEF Deciding, Guards!GuardIsExact
<1> QED
  BY <1>4, <1>5

LEMMA GuardsInvStep == GuardsInv /\ [Next]_vars => GuardsInv'
<1> SUFFICES ASSUME GuardsInv, [Next]_vars, gate' = "governed"
             PROVE  GuardsInv'
  BY DEF GuardsInv
<1>1. gate = "governed"
  BY DEF Next, vars
<1>2. /\ Guards!TypeOK /\ Guards!GuardIsExact
      /\ verdict = "comparing" => Deciding(before, after)
  BY <1>1 DEF GuardsInv
<1>3. CASE Guards!Revise
  BY <1>2, <1>3, ReviseStep DEF GuardsInv
<1>4. CASE Guards!CompareChild
  <2>1. verdict = "comparing"
    BY <1>4 DEF Guards!CompareChild
  <2> QED
    BY <2>1, <1>2, <1>4, CompareChildStep DEF GuardsInv
<1>5. CASE Guards!Return
  <2>1. verdict = "comparing"
    BY <1>5 DEF Guards!Return
  <2> QED
    BY <2>1, <1>2, <1>5, ReturnStep DEF GuardsInv
<1>6. CASE UNCHANGED vars
  BY <1>2, <1>6 DEF GuardsInv, vars, governedVars, Guards!TypeOK, Guards!GuardIsExact, Deciding
<1> QED
  BY <1>1, <1>3, <1>4, <1>5, <1>6 DEF Next, Guards!Next

(* However the YAML of two ledger blocks is spelled, with anchors, sharing *)
(* and cycles, a revise is let through only if they and the entity mean    *)
(* the same but for the instants of dates; and it is refused for them only *)
(* if they do not, where the note there was parses and holds no NaN        *)
(* (lint.ts: governedProvenanceChanged).                                   *)
THEOREM GuardIsExactHolds == Spec => []GuardIsExact
<1>1. GuardsInv => GuardIsExact
  BY DEF GuardsInv, GuardIsExact
<1> QED
  BY <1>1, GuardsInvInit, GuardsInvStep, PTL DEF Spec

-----------------------------------------------------------------------------
(* What a glob matches.                                                    *)

LEMMA SegmentsHold ==
  {"*", "**", "private", "agent", "scratch", "note.md", Zone!PROBE, ".ledger", ".git", ".obsidian"}
    \subseteq Segments
BY Parameters DEF Zone!WorldsAssumption

LEMMA MatchesBy ==
  ASSUME NEW glob \in Seq(Segments), NEW path \in Seq(Segments), glob # <<>>,
         NEW to \in [1 .. Len(glob) -> 0 .. Len(path)], to[Len(glob)] = Len(path),
         \A i \in 1 .. Len(glob) :
           LET from == IF i = 1 THEN 0 ELSE to[i - 1] IN
           IF glob[i] = "**" THEN from <= to[i]
           ELSE to[i] = from + 1 /\ glob[i] \in {"*", path[to[i]]}
  PROVE  Zone!Matches(glob, path)
<1>1. DOMAIN glob = 1 .. Len(glob)
  OBVIOUS
<1> SUFFICES \E t \in [DOMAIN glob -> 0 .. Len(path)] :
               /\ IF glob = <<>> THEN path = <<>> ELSE t[Len(glob)] = Len(path)
               /\ \A i \in DOMAIN glob :
                    LET from == IF i = 1 THEN 0 ELSE t[i - 1] IN
                    IF glob[i] = "**" THEN from <= t[i]
                    ELSE t[i] = from + 1 /\ glob[i] \in {"*", path[t[i]]}
  BY Zenon DEF Zone!Matches
<1>2. to \in [DOMAIN glob -> 0 .. Len(path)]
  BY <1>1
<1>3. /\ IF glob = <<>> THEN path = <<>> ELSE to[Len(glob)] = Len(path)
      /\ \A i \in DOMAIN glob :
           LET from == IF i = 1 THEN 0 ELSE to[i - 1] IN
           IF glob[i] = "**" THEN from <= to[i]
           ELSE to[i] = from + 1 /\ glob[i] \in {"*", path[to[i]]}
  BY <1>1, Zenon
<1> QED
  BY <1>2, <1>3, Zenon

LEMMA MatchesTo ==
  ASSUME NEW glob \in Seq(Segments), NEW path \in Seq(Segments), glob # <<>>, Zone!Matches(glob, path)
  PROVE  \E to \in [1 .. Len(glob) -> 0 .. Len(path)] :
           /\ to[Len(glob)] = Len(path)
           /\ \A i \in 1 .. Len(glob) :
                LET from == IF i = 1 THEN 0 ELSE to[i - 1] IN
                IF glob[i] = "**" THEN from <= to[i]
                ELSE to[i] = from + 1 /\ glob[i] \in {"*", path[to[i]]}
<1>1. DOMAIN glob = 1 .. Len(glob)
  OBVIOUS
<1> QED
  BY <1>1, Zenon DEF Zone!Matches

(* dir/** matches what is in the vault's folder dir.                       *)
LEMMA TopFolderMatches ==
  ASSUME NEW path \in Seq(Segments), path # <<>>, NEW d \in Segments, d # "*", d # "**"
  PROVE  Zone!Matches(<<d, "**">>, path) <=> path[1] = d
<1> DEFINE glob == <<d, "**">>
<1>1. glob \in Seq(Segments) /\ glob # <<>> /\ Len(glob) = 2 /\ glob[1] = d /\ glob[2] = "**"
  BY SegmentsHold
<1>2. Len(path) \in Nat /\ Len(path) >= 1
  OBVIOUS
<1> HIDE DEF glob
<1>3. ASSUME Zone!Matches(glob, path)
      PROVE  path[1] = d
  <2>1. PICK to \in [1 .. Len(glob) -> 0 .. Len(path)] :
          \A i \in 1 .. Len(glob) :
            LET from == IF i = 1 THEN 0 ELSE to[i - 1] IN
            IF glob[i] = "**" THEN from <= to[i]
            ELSE to[i] = from + 1 /\ glob[i] \in {"*", path[to[i]]}
    BY <1>1, <1>3, MatchesTo
  <2>2. to[1] = 0 + 1 /\ glob[1] \in {"*", path[to[1]]}
    BY <1>1, <2>1
  <2> QED
    BY <2>2, <1>1
<1>4. ASSUME path[1] = d
      PROVE  Zone!Matches(glob, path)
  <2> DEFINE to == [i \in 1 .. 2 |-> IF i = 1 THEN 1 ELSE Len(path)]
  <2>1. to \in [1 .. Len(glob) -> 0 .. Len(path)] /\ to[1] = 1 /\ to[2] = Len(path)
    BY <1>1, <1>2
  <2> HIDE DEF to
  <2>2. to[Len(glob)] = Len(path)
    BY <2>1, <1>1
  <2>3. \A i \in 1 .. Len(glob) :
          LET from == IF i = 1 THEN 0 ELSE to[i - 1] IN
          IF glob[i] = "**" THEN from <= to[i]
          ELSE to[i] = from + 1 /\ glob[i] \in {"*", path[to[i]]}
    <3> SUFFICES ASSUME NEW i \in 1 .. Len(glob)
                 PROVE  LET from == IF i = 1 THEN 0 ELSE to[i - 1] IN
                        IF glob[i] = "**" THEN from <= to[i]
                        ELSE to[i] = from + 1 /\ glob[i] \in {"*", path[to[i]]}
      OBVIOUS
    <3>1. CASE i = 1
      BY <3>1, <1>1, <1>4, <2>1
    <3>2. CASE i = 2
      BY <3>2, <1>1, <1>2, <2>1
    <3> QED
      BY <3>1, <3>2, <1>1
  <2> QED
    BY <1>1, <2>1, <2>2, <2>3, MatchesBy
<1> QED
  BY <1>3, <1>4 DEF glob

(* **/private/** matches what is in a folder of that name, at any depth.   *)
LEMMA PrivateMatches ==
  ASSUME NEW path \in Seq(Segments), NEW n \in 1 .. Len(path), path[n] = "private"
  PROVE  Zone!Matches(<<"**", "private", "**">>, path)
<1> DEFINE glob == <<"**", "private", "**">>
           to == [i \in 1 .. 3 |-> IF i = 1 THEN n - 1 ELSE IF i = 2 THEN n ELSE Len(path)]
<1>1. /\ glob \in Seq(Segments) /\ glob # <<>> /\ Len(glob) = 3
      /\ glob[1] = "**" /\ glob[2] = "private" /\ glob[3] = "**"
  BY SegmentsHold
<1>2. Len(path) \in Nat /\ n \in Nat /\ n >= 1 /\ n <= Len(path)
  OBVIOUS
<1>3. to \in [1 .. 3 -> 0 .. Len(path)] /\ to[1] = n - 1 /\ to[2] = n /\ to[3] = Len(path)
  BY <1>2
<1> HIDE DEF glob, to
<1>4. to[Len(glob)] = Len(path)
  BY <1>1, <1>3
<1>5. \A i \in 1 .. Len(glob) :
        LET from == IF i = 1 THEN 0 ELSE to[i - 1] IN
        IF glob[i] = "**" THEN from <= to[i]
        ELSE to[i] = from + 1 /\ glob[i] \in {"*", path[to[i]]}
  <2> SUFFICES ASSUME NEW i \in 1 .. Len(glob)
               PROVE  LET from == IF i = 1 THEN 0 ELSE to[i - 1] IN
                      IF glob[i] = "**" THEN from <= to[i]
                      ELSE to[i] = from + 1 /\ glob[i] \in {"*", path[to[i]]}
    OBVIOUS
  <2>1. CASE i = 1
    BY <2>1, <1>1, <1>2, <1>3
  <2>2. CASE i = 2
    BY <2>2, <1>1, <1>2, <1>3
  <2>3. CASE i = 3
    BY <2>3, <1>1, <1>2, <1>3
  <2> QED
    BY <2>1, <2>2, <2>3, <1>1
<1> QED
  BY <1>1, <1>3, <1>4, <1>5, MatchesBy DEF glob

(* A glob that takes a folder whole and matches the probe in it matches    *)
(* every note below it.                                                    *)
LEMMA BelowMatches ==
  ASSUME NEW glob \in Seq(Segments), Zone!Below(glob),
         NEW path \in Seq(Segments), NEW n \in Nat, n < Len(path),
         NEW probe \in Seq(Segments), Len(probe) = n + 1, probe[n + 1] = Zone!PROBE,
         \A i \in 1 .. n : probe[i] = path[i],
         Zone!Matches(glob, probe)
  PROVE  Zone!Matches(glob, path)
<1> DEFINE m == Len(glob)
<1>1. glob # <<>> /\ glob[m] = "**" /\ \A i \in 1 .. m : glob[i] # Zone!PROBE
  BY DEF Zone!Below, Zone!Last, Zone!ToSet
<1>2. m \in Nat /\ m >= 1 /\ Len(path) \in Nat
  BY <1>1
<1>3. PICK at \in [1 .. m -> 0 .. n + 1] :
        \A i \in 1 .. m :
          LET from == IF i = 1 THEN 0 ELSE at[i - 1] IN
          IF glob[i] = "**" THEN from <= at[i]
          ELSE at[i] = from + 1 /\ glob[i] \in {"*", probe[at[i]]}
  BY <1>1, MatchesTo
<1> HIDE DEF m
<1> DEFINE to == [i \in 1 .. m |-> IF i = m THEN Len(path) ELSE at[i]]
<1>4. to \in [1 .. m -> 0 .. Len(path)] /\ to[m] = Len(path) /\ \A i \in 1 .. m : i # m => to[i] = at[i]
  BY <1>2, <1>3
<1> HIDE DEF to
<1>5. ASSUME NEW i \in 1 .. m
      PROVE  LET from == IF i = 1 THEN 0 ELSE to[i - 1] IN
             IF glob[i] = "**" THEN from <= to[i]
             ELSE to[i] = from + 1 /\ glob[i] \in {"*", path[to[i]]}
  <2> DEFINE from == IF i = 1 THEN 0 ELSE to[i - 1]
  <2>1. from = (IF i = 1 THEN 0 ELSE at[i - 1]) /\ from \in 0 .. n + 1
    <3>1. i # 1 => i - 1 \in 1 .. m /\ i - 1 # m
      BY <1>2
    <3>2. at \in [1 .. m -> 0 .. n + 1]
      BY <1>3
    <3>3. CASE i = 1
      BY <3>3
    <3>4. CASE i # 1
      <4>1. to[i - 1] = at[i - 1] /\ at[i - 1] \in 0 .. n + 1
        BY <3>1, <3>2, <3>4, <1>4
      <4> QED
        BY <4>1, <3>4
    <3> QED
      BY <3>3, <3>4
  <2> HIDE DEF from
  <2>2. CASE i = m
    <3>1. from <= to[i]
      BY <2>1, <2>2, <1>2, <1>4
    <3> QED
      BY <3>1, <2>2, <1>1 DEF m, from
  <2>3. CASE i # m
    <3>1. to[i] = at[i] /\ at[i] \in 0 .. n + 1
      BY <2>3, <1>3, <1>4
    <3>2. IF glob[i] = "**" THEN from <= at[i]
          ELSE at[i] = from + 1 /\ glob[i] \in {"*", probe[at[i]]}
      BY <2>1, <1>3
    <3>3. CASE glob[i] = "**"
      BY <3>1, <3>2, <3>3 DEF from
    <3>4. CASE glob[i] # "**"
      <4>1. at[i] = from + 1 /\ glob[i] \in {"*", probe[at[i]]} /\ at[i] \in 1 .. n + 1
        BY <3>1, <3>2, <3>4, <2>1
      <4>2. glob[i] \in {"*", path[at[i]]}
        <5>1. CASE at[i] \in 1 .. n
          BY <4>1, <5>1
        <5>2. CASE at[i] = n + 1
          BY <4>1, <5>2, <1>1 DEF m
        <5> QED
          BY <4>1, <5>1, <5>2
      <4> QED
        BY <3>1, <3>4, <4>1, <4>2 DEF from
    <3> QED
      BY <3>3, <3>4
  <2> QED
    BY <2>2, <2>3
<1> QED
  BY <1>1, <1>4, <1>5, MatchesBy DEF m

(* Numbers: a set of them has a least member.                              *)
LEMMA LeastNumber ==
  ASSUME NEW T \in SUBSET Nat, T # {}
  PROVE  \E n \in T : \A k \in T : n <= k
<1>1. PICK n \in T : \A k \in T : <<k, n>> \notin OpToRel(<, Nat)
  BY WFMin, NatLessThanWellFounded, Zenon
<1>2. \A k \in T : ~(k < n)
  BY <1>1, Zenon DEF OpToRel
<1> QED
  BY <1>2, SMT

(* A glob without wildcards but the last takes one segment after the other. *)
LEMMA NamedSteps ==
  ASSUME NEW glob \in Seq(Segments), glob # <<>>, Zone!Named(glob), NEW M \in Nat,
         NEW to \in [1 .. Len(glob) -> 0 .. M],
         \A i \in 1 .. Len(glob) :
           LET from == IF i = 1 THEN 0 ELSE to[i - 1] IN
           glob[i] # "**" => to[i] = from + 1
  PROVE  \A i \in 1 .. Len(glob) - 1 : to[i] = i
<1> DEFINE m == Len(glob)
           T == {i \in 1 .. m - 1 : to[i] # i}
<1>1. m \in Nat /\ m >= 1
  OBVIOUS
<1>2. \A i \in 1 .. m - 1 : glob[i] # "**"
  BY DEF Zone!Named
<1>3. \A i \in 1 .. m : glob[i] # "**" => to[i] = (IF i = 1 THEN 0 ELSE to[i - 1]) + 1
  OBVIOUS
<1> HIDE DEF m
<1>4. ASSUME T # {}
      PROVE  FALSE
  <2>1. T \in SUBSET Nat
    BY <1>1
  <2>2. PICK i \in T : \A k \in T : i <= k
    BY <2>1, <1>4, LeastNumber
  <2>3. i \in 1 .. m - 1 /\ to[i] # i /\ i \in 1 .. m
    BY <2>2, <1>1
  <2>4. to[i] = (IF i = 1 THEN 0 ELSE to[i - 1]) + 1
    BY <2>3, <1>2, <1>3
  <2>5. CASE i = 1
    BY <2>3, <2>4, <2>5
  <2>6. CASE i # 1
    <3>1. i - 1 \in 1 .. m - 1 /\ ~(i <= i - 1)
      BY <1>1, <2>3, <2>6
    <3>2. i - 1 \notin T
      BY <2>2, <3>1
    <3>3. to[i - 1] = i - 1
      BY <3>1, <3>2
    <3> QED
      BY <3>3, <2>3, <2>4, <2>6
  <2> QED
    BY <2>5, <2>6
<1> QED
  BY <1>4 DEF m

(* An override that names its way to a folder, and matches a note in the   *)
(* Private folder that is the first n segments, matches the probe there.   *)
LEMMA NamedMatches ==
  ASSUME NEW glob \in Seq(Segments), Zone!Below(glob), Zone!Named(glob),
         NEW path \in Seq(Segments), NEW n \in Nat, n >= 1, n < Len(path), path[n] = "private",
         NEW probe \in Seq(Segments), Len(probe) = n + 1,
         \A i \in 1 .. n : probe[i] = path[i],
         Zone!Matches(glob, path)
  PROVE  Zone!Matches(glob, probe)
<1> DEFINE m == Len(glob)
<1>1. glob # <<>> /\ glob[m] = "**"
  BY DEF Zone!Below, Zone!Last
<1>2. m \in Nat /\ m >= 1 /\ Len(path) \in Nat
  BY <1>1
<1>3. PICK at \in [1 .. m -> 0 .. Len(path)] :
        \A i \in 1 .. m :
          LET from == IF i = 1 THEN 0 ELSE at[i - 1] IN
          IF glob[i] = "**" THEN from <= at[i]
          ELSE at[i] = from + 1 /\ glob[i] \in {"*", path[at[i]]}
  BY <1>1, MatchesTo
<1>4. \A i \in 1 .. m - 1 : at[i] = i
  <2>1. \A i \in 1 .. m :
          LET from == IF i = 1 THEN 0 ELSE at[i - 1] IN
          glob[i] # "**" => at[i] = from + 1
    BY <1>3
  <2> QED
    BY <1>1, <1>2, <2>1, NamedSteps
<1>5. \A i \in 1 .. m - 1 : /\ glob[i] # "*" /\ glob[i] # "**"
                            /\ glob[i] = "private" => i = m - 1
  BY DEF Zone!Named
<1> HIDE DEF m
<1>6. \A i \in 1 .. m - 1 : glob[i] = path[i]
  <2> TAKE i \in 1 .. m - 1
  <2>1. i \in 1 .. m
    BY <1>2
  <2>2. glob[i] \in {"*", path[at[i]]}
    BY <2>1, <1>3, <1>5
  <2> QED
    BY <2>2, <1>4, <1>5
<1>7. m - 1 <= n
  <2>1. CASE n \in 1 .. m - 1
    BY <2>1, <1>2, <1>5, <1>6
  <2> QED
    BY <2>1, <1>2
<1> DEFINE to == [i \in 1 .. m |-> IF i = m THEN n + 1 ELSE i]
<1>8. to \in [1 .. m -> 0 .. Len(probe)] /\ to[m] = Len(probe) /\ \A i \in 1 .. m : i # m => to[i] = i
  BY <1>2, <1>7
<1> HIDE DEF to
<1>9. ASSUME NEW i \in 1 .. m
      PROVE  LET from == IF i = 1 THEN 0 ELSE to[i - 1] IN
             IF glob[i] = "**" THEN from <= to[i]
             ELSE to[i] = from + 1 /\ glob[i] \in {"*", probe[to[i]]}
  <2> DEFINE from == IF i = 1 THEN 0 ELSE to[i - 1]
  <2>1. from = i - 1
    <3>1. i # 1 => i - 1 \in 1 .. m /\ i - 1 # m
      BY <1>2
    <3> QED
      BY <3>1, <1>8
  <2> HIDE DEF from
  <2>2. CASE i = m
    <3>1. from <= to[i]
      BY <2>1, <2>2, <1>7, <1>8
    <3> QED
      BY <3>1, <2>2, <1>1 DEF m, from
  <2>3. CASE i # m
    <3>1. i \in 1 .. m - 1 /\ i \in 1 .. n
      BY <2>3, <1>2, <1>7
    <3>2. to[i] = i /\ glob[i] = probe[i] /\ glob[i] # "**"
      BY <2>3, <3>1, <1>5, <1>6, <1>8
    <3> QED
      BY <3>2, <2>1 DEF from
  <2> QED
    BY <2>2, <2>3
<1> QED
  BY <1>1, <1>8, <1>9, MatchesBy DEF m

-----------------------------------------------------------------------------
(* The most specific rule.                                                 *)

Rules == [zone : Zone!ZoneNames, glob : Seq(Segments)]

LEMMA SpecificityIsNat ==
  ASSUME NEW glob \in Seq(Segments)
  PROVE  Zone!Specificity(glob) \in Nat
<1>1. IsFiniteSet(1 .. Len(glob)) /\ DOMAIN glob = 1 .. Len(glob)
  BY FS_Interval
<1>2. IsFiniteSet({i \in DOMAIN glob : glob[i] \notin {"*", "**"}})
  BY <1>1, FS_Subset
<1>3. \A S : Zone!Cardinality(S) = Cardinality(S)
  BY Zenon DEF Zone!Cardinality, Cardinality
<1> QED
  BY <1>2, <1>3, FS_CardinalityType DEF Zone!Specificity

(* A function that gives each number what a step makes of the one before.   *)
Iterates(f, a, N, Step) == f[0] = a /\ \A i \in 1 .. N : f[i] = Step[<<i, f[i - 1]>>]

LEMMA PrimitiveRecursion ==
  ASSUME NEW V, NEW a \in V, NEW N \in Nat, NEW Step \in [(1 .. N) \X V -> V]
  PROVE  \E f \in [0 .. N -> V] : Iterates(f, a, N, Step)
<1> DEFINE Fits(n, f) == f[0] = a /\ \A i \in 1 .. n : f[i] = Step[<<i, f[i - 1]>>]
           T == {n \in 0 .. N : ~ \E f \in [0 .. n -> V] : Fits(n, f)}
<1>1. ASSUME T # {}
      PROVE  FALSE
  <2>1. T \in SUBSET Nat
    OBVIOUS
  <2> HIDE DEF T
  <2>2. PICK n \in T : \A k \in T : n <= k
    BY <2>1, <1>1, LeastNumber
  <2>3. n \in 0 .. N /\ ~ \E f \in [0 .. n -> V] : Fits(n, f)
    BY <2>2 DEF T
  <2>4. n # 0
    <3>1. [i \in 0 .. 0 |-> a] \in [0 .. 0 -> V] /\ Fits(0, [i \in 0 .. 0 |-> a])
      OBVIOUS
    <3> QED
      BY <3>1, <2>3
  <2>5. n - 1 \in 0 .. N /\ n - 1 \notin T
    BY <2>1, <2>2, <2>3, <2>4
  <2>6. PICK f \in [0 .. n - 1 -> V] : Fits(n - 1, f)
    BY <2>5 DEF T
  <2> DEFINE g == [i \in 0 .. n |-> IF i = n THEN Step[<<n, f[n - 1]>>] ELSE f[i]]
  <2>7. Step[<<n, f[n - 1]>>] \in V
    <3>1. f[n - 1] \in V /\ n \in 1 .. N
      BY <2>3, <2>4, <2>6
    <3>2. <<n, f[n - 1]>> \in (1 .. N) \X V
      BY <3>1
    <3> QED
      BY <3>2
  <2>8. g \in [0 .. n -> V]
    <3>1. \A i \in 0 .. n : i # n => f[i] \in V
      BY <2>3, <2>4, <2>6
    <3> QED
      BY <3>1, <2>7
  <2>9. /\ g[0] = f[0]
        /\ g[n] = Step[<<n, g[n - 1]>>]
        /\ \A i \in 1 .. n - 1 : g[i] = f[i] /\ g[i - 1] = f[i - 1]
    BY <2>3, <2>4
  <2> HIDE DEF g
  <2>10. Fits(n, g)
    <3> SUFFICES ASSUME NEW i \in 1 .. n
                 PROVE  g[i] = Step[<<i, g[i - 1]>>]
      BY <2>6, <2>9
    <3>1. CASE i = n
      BY <3>1, <2>9
    <3>2. CASE i # n
      <4>1. i \in 1 .. n - 1
        BY <3>2, <2>3, <2>4
      <4> QED
        BY <4>1, <2>6, <2>9
    <3> QED
      BY <3>1, <3>2
  <2> HIDE DEF Fits
  <2> QED
    BY <2>3, <2>8, <2>10
<1>2. N \notin T
  BY <1>1
<1>3. N \in 0 .. N
  OBVIOUS
<1> QED
  BY <1>2, <1>3 DEF Iterates

Scores == [zone : Zone!ZoneNames \cup {"none"}, score : Nat]

\* The best of the first i rules, where b is the best of those before.
Better(rules, path, i, b) ==
  IF Zone!Matches(rules[i].glob, path)
     /\ (b = Zone!Unmatched \/ Zone!Specificity(rules[i].glob) > b.score)
  THEN Zone!Scored(rules[i]) ELSE b

LEMMA ScoresHold ==
  /\ Zone!Unmatched \in Scores
  /\ \A r \in Rules : /\ Zone!Scored(r) \in Scores /\ Zone!Scored(r) # Zone!Unmatched
                      /\ Zone!Scored(r).zone = r.zone
                      /\ Zone!Scored(r).score = Zone!Specificity(r.glob)
<1>1. Zone!Unmatched \in Scores /\ Zone!Unmatched.zone = "none"
  BY DEF Zone!Unmatched, Scores
<1>2. ASSUME NEW r \in Rules
      PROVE  /\ Zone!Scored(r) \in Scores /\ Zone!Scored(r).zone = r.zone
             /\ Zone!Scored(r).score = Zone!Specificity(r.glob) /\ r.zone # "none"
  <2>1. r.zone \in Zone!ZoneNames /\ r.glob \in Seq(Segments)
    BY DEF Rules
  <2>2. Zone!Specificity(r.glob) \in Nat
    BY <2>1, SpecificityIsNat
  <2> QED
    BY <2>1, <2>2 DEF Zone!Scored, Scores, Zone!ZoneNames
<1> QED
  BY <1>1, <1>2

LEMMA BestUnfolds ==
  ASSUME NEW rules \in Seq(Rules), NEW path
  PROVE  \E f : /\ Zone!Best(rules, path) = f[Len(rules)] /\ f[0] = Zone!Unmatched
                /\ \A i \in 1 .. Len(rules) : f[i] = Better(rules, path, i, f[i - 1])
<1> DEFINE N == Len(rules)
           Step == [p \in (1 .. N) \X Scores |-> Better(rules, path, p[1], p[2])]
           Best(f) == f = [i \in 0 .. N |->
                             IF i = 0 THEN Zone!Unmatched
                             ELSE LET b == f[i - 1] IN
                                  IF Zone!Matches(rules[i].glob, path)
                                     /\ (b = Zone!Unmatched \/ Zone!Specificity(rules[i].glob) > b.score)
                                  THEN Zone!Scored(rules[i]) ELSE b]
           best == CHOOSE f : Best(f)
<1>1. N \in Nat /\ \A i \in 1 .. N : rules[i] \in Rules
  OBVIOUS
<1>2. \A i \in 1 .. N, b \in Scores : Better(rules, path, i, b) \in Scores
  BY <1>1, ScoresHold DEF Better
<1>3. Step \in [(1 .. N) \X Scores -> Scores]
  BY <1>2
<1>4. \A i \in 1 .. N, b \in Scores : Step[<<i, b>>] = Better(rules, path, i, b)
  OBVIOUS
<1> HIDE DEF Step, N
<1>5. PICK f \in [0 .. N -> Scores] :
        f[0] = Zone!Unmatched /\ \A i \in 1 .. N : f[i] = Step[<<i, f[i - 1]>>]
  <2>1. N \in Nat /\ Zone!Unmatched \in Scores
    BY <1>1, ScoresHold
  <2>2. \E f \in [0 .. N -> Scores] : Iterates(f, Zone!Unmatched, N, Step)
    BY <2>1, <1>3, PrimitiveRecursion
  <2> QED
    BY <2>2 DEF Iterates
<1>6. \A i \in 1 .. N : f[i] = Better(rules, path, i, f[i - 1])
  <2> TAKE i \in 1 .. N
  <2>1. i - 1 \in 0 .. N
    BY <1>1
  <2> QED
    BY <2>1, <1>4, <1>5
<1>7. Best(f)
  <2> DEFINE E == [i \in 0 .. N |->
                     IF i = 0 THEN Zone!Unmatched
                     ELSE LET b == f[i - 1] IN
                          IF Zone!Matches(rules[i].glob, path)
                             /\ (b = Zone!Unmatched \/ Zone!Specificity(rules[i].glob) > b.score)
                          THEN Zone!Scored(rules[i]) ELSE b]
  <2>1. \A i \in 0 .. N : f[i] = E[i]
    BY <1>1, <1>5, <1>6 DEF Better
  <2>2. f = [i \in 0 .. N |-> f[i]]
    BY <1>5
  <2>3. f = E
    BY <2>1, <2>2
  <2> QED
    BY <2>3
<1>8. Best(best)
  <2> HIDE DEF Best
  <2> QED
    BY <1>7
<1>9. Zone!Best(rules, path) = best[N]
  BY DEF Zone!Best, N
<1> HIDE DEF best
<1>10. best[0] = Zone!Unmatched /\ \A i \in 1 .. N : best[i] = Better(rules, path, i, best[i - 1])
  BY <1>1, <1>8 DEF Better
<1> QED
  BY <1>9, <1>10 DEF N

\* Rule w is the first of the most specific ones of the first n that match.
FirstOf(rules, path, n, w) ==
  /\ w \in 1 .. n /\ Zone!Matches(rules[w].glob, path)
  /\ \A j \in 1 .. n : Zone!Matches(rules[j].glob, path) =>
       /\ Zone!Specificity(rules[w].glob) >= Zone!Specificity(rules[j].glob)
       /\ j < w => Zone!Specificity(rules[w].glob) > Zone!Specificity(rules[j].glob)

\* What Best returns for the first n rules.
BestIs(rules, path, n, b) ==
  IF \E j \in 1 .. n : Zone!Matches(rules[j].glob, path)
  THEN \E w \in 1 .. n : FirstOf(rules, path, n, w) /\ b = Zone!Scored(rules[w])
  ELSE b = Zone!Unmatched

LEMMA BetterWins ==
  ASSUME NEW rules \in Seq(Rules), NEW path, NEW n \in 1 .. Len(rules), NEW b,
         BestIs(rules, path, n - 1, b)
  PROVE  BestIs(rules, path, n, Better(rules, path, n, b))
<1> DEFINE M(i) == Zone!Matches(rules[i].glob, path)
           S(i) == Zone!Specificity(rules[i].glob)
           c == Better(rules, path, n, b)
<1>1. n \in Nat /\ n >= 1 /\ \A i \in 1 .. n : rules[i] \in Rules
  OBVIOUS
<1>2. \A i \in 1 .. n : /\ S(i) \in Nat
                        /\ Zone!Scored(rules[i]) # Zone!Unmatched
                        /\ Zone!Scored(rules[i]).score = S(i)
  <2> TAKE i \in 1 .. n
  <2>1. rules[i] \in Rules /\ rules[i].glob \in Seq(Segments)
    BY <1>1 DEF Rules
  <2> QED
    BY <2>1, ScoresHold, SpecificityIsNat
<1>3. c = IF M(n) /\ (b = Zone!Unmatched \/ S(n) > b.score) THEN Zone!Scored(rules[n]) ELSE b
  BY DEF Better
<1>4. /\ (\E j \in 1 .. n - 1 : M(j)) => \E w \in 1 .. n - 1 : FirstOf(rules, path, n - 1, w) /\ b = Zone!Scored(rules[w])
      /\ ~(\E j \in 1 .. n - 1 : M(j)) => b = Zone!Unmatched
  BY DEF BestIs
<1>5. \A w \in 1 .. n, m \in 1 .. n :
        FirstOf(rules, path, m, w) <=>
          /\ w \in 1 .. m /\ M(w)
          /\ \A j \in 1 .. m : M(j) => S(w) >= S(j) /\ (j < w => S(w) > S(j))
  BY DEF FirstOf
<1>6. BestIs(rules, path, n, c) <=>
        IF \E j \in 1 .. n : M(j)
        THEN \E w \in 1 .. n : FirstOf(rules, path, n, w) /\ c = Zone!Scored(rules[w])
        ELSE c = Zone!Unmatched
  BY DEF BestIs
<1>7. \A w \in 1 .. n - 1 :
        FirstOf(rules, path, n - 1, w) <=>
          M(w) /\ \A j \in 1 .. n - 1 : M(j) => S(w) >= S(j) /\ (j < w => S(w) > S(j))
  BY DEF FirstOf
<1> HIDE DEF M, S, c
<1>8. \A j \in 1 .. n : j \in 1 .. n - 1 \/ j = n
  BY <1>1
<1>9. \A j \in 1 .. n - 1 : j \in 1 .. n /\ j < n /\ ~(n < j)
  BY <1>1
<1>10. n \in 1 .. n
  BY <1>1
<1>11. ASSUME NEW w \in 1 .. n, FirstOf(rules, path, n, w), c = Zone!Scored(rules[w])
       PROVE  BestIs(rules, path, n, c)
  <2>1. M(w)
    BY <1>5, <1>10, <1>11
  <2> QED
    BY <2>1, <1>6, <1>11
<1>12. ASSUME \A j \in 1 .. n : ~M(j), c = Zone!Unmatched
       PROVE  BestIs(rules, path, n, c)
  BY <1>6, <1>12
<1>13. CASE ~M(n)
  <2>1. c = b
    BY <1>3, <1>13
  <2>2. CASE \E j \in 1 .. n - 1 : M(j)
    <3>1. PICK w \in 1 .. n - 1 : FirstOf(rules, path, n - 1, w) /\ b = Zone!Scored(rules[w])
      BY <1>4, <2>2
    <3>2. FirstOf(rules, path, n, w)
      BY <3>1, <1>5, <1>7, <1>8, <1>9, <1>10, <1>13
    <3> QED
      BY <3>1, <3>2, <2>1, <1>9, <1>11 DEF c
  <2>3. CASE ~ \E j \in 1 .. n - 1 : M(j)
    BY <2>1, <2>3, <1>4, <1>8, <1>13, <1>12 DEF c
  <2> QED
    BY <2>2, <2>3
<1>14. CASE M(n) /\ ~ \E j \in 1 .. n - 1 : M(j)
  <2>1. b = Zone!Unmatched
    BY <1>4, <1>14
  <2>2. c = Zone!Scored(rules[n])
    BY <2>1, <1>3, <1>14
  <2>3. FirstOf(rules, path, n, n)
    BY <1>2, <1>5, <1>8, <1>9, <1>10, <1>14
  <2> QED
    BY <2>2, <2>3, <1>10, <1>11 DEF c
<1>15. CASE M(n) /\ \E j \in 1 .. n - 1 : M(j)
  <2>1. PICK w \in 1 .. n - 1 : FirstOf(rules, path, n - 1, w) /\ b = Zone!Scored(rules[w])
    BY <1>4, <1>15
  <2>2. /\ w \in 1 .. n /\ w < n /\ b # Zone!Unmatched /\ b.score = S(w) /\ S(w) \in Nat /\ S(n) \in Nat
        /\ M(w) /\ \A j \in 1 .. n - 1 : M(j) => S(w) >= S(j) /\ (j < w => S(w) > S(j))
    BY <2>1, <1>2, <1>7, <1>9, <1>10
  <2>3. CASE S(n) > S(w)
    <3>1. c = Zone!Scored(rules[n])
      BY <2>2, <2>3, <1>3, <1>15
    <3>2. \A j \in 1 .. n : M(j) => S(n) >= S(j) /\ (j < n => S(n) > S(j))
      <4> TAKE j \in 1 .. n
      <4>1. CASE j = n
        BY <4>1, <2>2, <1>1
      <4>2. CASE j \in 1 .. n - 1
        BY <4>2, <2>2, <2>3, <1>2
      <4> QED
        BY <4>1, <4>2, <1>8
    <3>3. FirstOf(rules, path, n, n)
      BY <3>2, <1>5, <1>10, <1>15
    <3> QED
      BY <3>1, <3>3, <1>10, <1>11 DEF c
  <2>4. CASE ~(S(n) > S(w))
    <3>1. c = b
      BY <2>2, <2>4, <1>3
    <3>2. \A j \in 1 .. n : M(j) => S(w) >= S(j) /\ (j < w => S(w) > S(j))
      <4> TAKE j \in 1 .. n
      <4>1. CASE j = n
        BY <4>1, <2>2, <2>4, <1>9
      <4>2. CASE j \in 1 .. n - 1
        BY <4>2, <2>2
      <4> QED
        BY <4>1, <4>2, <1>8
    <3>3. FirstOf(rules, path, n, w)
      BY <3>2, <2>2, <1>5, <1>10
    <3> QED
      BY <3>1, <3>3, <2>1, <2>2, <1>11 DEF c
  <2> QED
    BY <2>3, <2>4
<1> QED
  BY <1>13, <1>14, <1>15 DEF c

LEMMA BestWins ==
  ASSUME NEW rules \in Seq(Rules), NEW path
  PROVE  BestIs(rules, path, Len(rules), Zone!Best(rules, path))
<1> DEFINE N == Len(rules)
<1>1. N \in Nat
  OBVIOUS
<1>2. PICK f : /\ Zone!Best(rules, path) = f[N] /\ f[0] = Zone!Unmatched
               /\ \A i \in 1 .. N : f[i] = Better(rules, path, i, f[i - 1])
  BY BestUnfolds
<1> DEFINE T == {n \in 0 .. N : ~BestIs(rules, path, n, f[n])}
<1>3. ASSUME T # {}
      PROVE  FALSE
  <2>1. T \in SUBSET Nat
    BY <1>1
  <2>2. PICK n \in T : \A k \in T : n <= k
    BY <2>1, <1>3, LeastNumber
  <2>3. n \in 0 .. N /\ ~BestIs(rules, path, n, f[n])
    BY <2>2
  <2>4. n # 0
    BY <2>3, <1>2 DEF BestIs
  <2>5. n \in 1 .. N /\ n - 1 \in 0 .. N /\ ~(n <= n - 1)
    BY <1>1, <2>3, <2>4
  <2>6. n - 1 \notin T
    BY <2>2, <2>5
  <2>7. BestIs(rules, path, n - 1, f[n - 1])
    BY <2>5, <2>6
  <2> QED
    BY <2>3, <2>5, <2>7, <1>2, BetterWins
<1>4. N \in 0 .. N /\ N \notin T
  BY <1>1, <1>3
<1> QED
  BY <1>2, <1>4

-----------------------------------------------------------------------------
(* The zone of a note.                                                     *)

Manifests == [zones : [Zone!ZoneNames -> Seq(Seq(Segments))], overrides : Seq(Rules)]

(* The base rules: every glob of the three base zones, scratch first, then *)
(* agent, then trusted.                                                    *)
LEMMA RulesOfAre ==
  ASSUME NEW m \in Manifests, NEW z \in Zone!ZoneNames
  PROVE  /\ Zone!RulesOf(z, m) \in Seq(Rules)
         /\ Len(Zone!RulesOf(z, m)) = Len(m.zones[z]) /\ DOMAIN m.zones[z] = 1 .. Len(m.zones[z])
         /\ \A i \in 1 .. Len(m.zones[z]) : Zone!RulesOf(z, m)[i] = [zone |-> z, glob |-> m.zones[z][i]]
<1> DEFINE s == m.zones[z]
           n == Len(s)
<1>1. s \in Seq(Seq(Segments))
  BY DEF Manifests
<1>2. n \in Nat /\ DOMAIN s = 1 .. n /\ \A i \in 1 .. n : s[i] \in Seq(Segments)
  BY <1>1
<1>3. Zone!RulesOf(z, m) = [i \in 1 .. n |-> [zone |-> z, glob |-> s[i]]]
  BY <1>2 DEF Zone!RulesOf
<1> HIDE DEF n, s
<1>4. \A i \in 1 .. n : [zone |-> z, glob |-> s[i]] \in Rules
  BY <1>2 DEF Rules
<1>5. [i \in 1 .. n |-> [zone |-> z, glob |-> s[i]]] \in Seq(Rules)
  BY <1>2, <1>4
<1> QED
  BY <1>2, <1>3, <1>5 DEF s, n

LEMMA BaseRulesAre ==
  ASSUME NEW m \in Manifests
  PROVE  LET rules == Zone!BaseRules(m) IN
         /\ rules \in Seq(Rules)
         /\ \A i \in 1 .. Len(rules) :
              /\ rules[i].zone \in Zone!BaseZones
              /\ \E j \in DOMAIN m.zones[rules[i].zone] : m.zones[rules[i].zone][j] = rules[i].glob
         /\ \A z \in Zone!BaseZones : \A j \in DOMAIN m.zones[z] :
              \E i \in 1 .. Len(rules) : rules[i].zone = z /\ rules[i].glob = m.zones[z][j]
         /\ \A i, k \in 1 .. Len(rules) :
              /\ rules[i].zone = "scratch" /\ rules[k].zone # "scratch" => i < k
              /\ rules[i].zone = "agent" /\ rules[k].zone = "trusted" => i < k
<1> DEFINE s == Zone!RulesOf("scratch", m)
           a == Zone!RulesOf("agent", m)
           t == Zone!RulesOf("trusted", m)
           S == Len(s)
           A == Len(a)
           T == Len(t)
           r == Zone!BaseRules(m)
           Z(z) == m.zones[z]
<1>1. /\ s \in Seq(Rules) /\ S \in Nat /\ DOMAIN Z("scratch") = 1 .. S
      /\ \A i \in 1 .. S : s[i] = [zone |-> "scratch", glob |-> Z("scratch")[i]]
  BY RulesOfAre DEF Zone!ZoneNames
<1>2. /\ a \in Seq(Rules) /\ A \in Nat /\ DOMAIN Z("agent") = 1 .. A
      /\ \A i \in 1 .. A : a[i] = [zone |-> "agent", glob |-> Z("agent")[i]]
  BY RulesOfAre DEF Zone!ZoneNames
<1>3. /\ t \in Seq(Rules) /\ T \in Nat /\ DOMAIN Z("trusted") = 1 .. T
      /\ \A i \in 1 .. T : t[i] = [zone |-> "trusted", glob |-> Z("trusted")[i]]
  BY RulesOfAre DEF Zone!ZoneNames
<1>4. r = s \o a \o t
  BY DEF Zone!BaseRules
<1> HIDE DEF s, a, t, r, Z
<1>5. /\ r \in Seq(Rules) /\ Len(r) = S + A + T
      /\ \A i \in 1 .. S : r[i] = s[i]
      /\ \A i \in 1 .. A : r[S + i] = a[i]
      /\ \A i \in 1 .. T : r[S + A + i] = t[i]
  <2>1. /\ s \o a \in Seq(Rules) /\ Len(s \o a) = S + A
        /\ \A i \in 1 .. S : (s \o a)[i] = s[i]
        /\ \A i \in 1 .. A : (s \o a)[S + i] = a[i]
    BY <1>1, <1>2
  <2>2. /\ (s \o a) \o t \in Seq(Rules) /\ Len((s \o a) \o t) = S + A + T
        /\ \A i \in 1 .. S + A : ((s \o a) \o t)[i] = (s \o a)[i]
        /\ \A i \in 1 .. T : ((s \o a) \o t)[S + A + i] = t[i]
    BY <1>1, <1>2, <1>3, <2>1
  <2>3. /\ \A i \in 1 .. S : i \in 1 .. S + A
        /\ \A i \in 1 .. A : S + i \in 1 .. S + A
    BY <1>1, <1>2
  <2> QED
    BY <1>4, <2>1, <2>2, <2>3
<1> HIDE DEF S, A, T
<1>6. /\ \A i \in 1 .. S : r[i].zone = "scratch" /\ r[i].glob = Z("scratch")[i]
      /\ \A i \in 1 .. A : r[S + i].zone = "agent" /\ r[S + i].glob = Z("agent")[i]
      /\ \A i \in 1 .. T : r[S + A + i].zone = "trusted" /\ r[S + A + i].glob = Z("trusted")[i]
  <2>1. ASSUME NEW i \in 1 .. S PROVE r[i].zone = "scratch" /\ r[i].glob = Z("scratch")[i]
    <3>1. r[i] = [zone |-> "scratch", glob |-> Z("scratch")[i]]
      BY <1>1, <1>5
    <3> QED
      BY <3>1
  <2>2. ASSUME NEW i \in 1 .. A PROVE r[S + i].zone = "agent" /\ r[S + i].glob = Z("agent")[i]
    <3>1. r[S + i] = [zone |-> "agent", glob |-> Z("agent")[i]]
      BY <1>2, <1>5
    <3> QED
      BY <3>1
  <2>3. ASSUME NEW i \in 1 .. T PROVE r[S + A + i].zone = "trusted" /\ r[S + A + i].glob = Z("trusted")[i]
    <3>1. r[S + A + i] = [zone |-> "trusted", glob |-> Z("trusted")[i]]
      BY <1>3, <1>5
    <3> QED
      BY <3>1
  <2> QED
    BY <2>1, <2>2, <2>3
<1>7. \A i \in 1 .. S + A + T :
        \/ i \in 1 .. S
        \/ i - S \in 1 .. A /\ i = S + (i - S)
        \/ i - (S + A) \in 1 .. T /\ i = S + A + (i - (S + A))
  BY <1>1, <1>2, <1>3
<1>8. \A i \in 1 .. S + A + T :
        \/ i \in 1 .. S /\ r[i].zone = "scratch" /\ r[i].glob = Z("scratch")[i]
        \/ /\ i - S \in 1 .. A
           /\ r[i].zone = "agent" /\ r[i].glob = Z("agent")[i - S]
        \/ /\ i - (S + A) \in 1 .. T
           /\ r[i].zone = "trusted" /\ r[i].glob = Z("trusted")[i - (S + A)]
  BY <1>6, <1>7
<1>9. ASSUME NEW i \in 1 .. Len(r)
      PROVE  r[i].zone \in Zone!BaseZones /\ \E j \in DOMAIN Z(r[i].zone) : Z(r[i].zone)[j] = r[i].glob
  <2>1. i \in 1 .. S + A + T
    BY <1>5
  <2>2. CASE i \in 1 .. S /\ r[i].zone = "scratch" /\ r[i].glob = Z("scratch")[i]
    BY <2>2, <1>1 DEF Zone!BaseZones
  <2>3. CASE i - S \in 1 .. A /\ r[i].zone = "agent" /\ r[i].glob = Z("agent")[i - S]
    BY <2>3, <1>2 DEF Zone!BaseZones
  <2>4. CASE i - (S + A) \in 1 .. T /\ r[i].zone = "trusted" /\ r[i].glob = Z("trusted")[i - (S + A)]
    BY <2>4, <1>3 DEF Zone!BaseZones
  <2> QED
    BY <2>1, <2>2, <2>3, <2>4, <1>8
<1>10. ASSUME NEW z \in Zone!BaseZones, NEW j \in DOMAIN Z(z)
       PROVE  \E i \in 1 .. Len(r) : r[i].zone = z /\ r[i].glob = Z(z)[j]
  <2>1. CASE z = "scratch"
    <3>1. j \in 1 .. S /\ j \in 1 .. Len(r)
      BY <2>1, <1>1, <1>2, <1>3, <1>5
    <3> QED
      BY <3>1, <2>1, <1>6
  <2>2. CASE z = "agent"
    <3>1. j \in 1 .. A /\ S + j \in 1 .. Len(r)
      BY <2>2, <1>1, <1>2, <1>3, <1>5
    <3> QED
      BY <3>1, <2>2, <1>6
  <2>3. CASE z = "trusted"
    <3>1. j \in 1 .. T /\ S + A + j \in 1 .. Len(r)
      BY <2>3, <1>1, <1>2, <1>3, <1>5
    <3> QED
      BY <3>1, <2>3, <1>6
  <2> QED
    BY <2>1, <2>2, <2>3 DEF Zone!BaseZones
<1>11. ASSUME NEW i \in 1 .. Len(r), NEW k \in 1 .. Len(r)
       PROVE  /\ r[i].zone = "scratch" /\ r[k].zone # "scratch" => i < k
              /\ r[i].zone = "agent" /\ r[k].zone = "trusted" => i < k
  <2>1. \A j \in 1 .. S + A + T :
          \/ j <= S /\ r[j].zone = "scratch"
          \/ j > S /\ j <= S + A /\ r[j].zone = "agent"
          \/ j > S + A /\ r[j].zone = "trusted"
    <3> TAKE j \in 1 .. S + A + T
    <3>1. S \in Nat /\ A \in Nat /\ T \in Nat
      BY <1>1, <1>2, <1>3
    <3>2. \/ j \in 1 .. S /\ r[j].zone = "scratch"
          \/ j - S \in 1 .. A /\ r[j].zone = "agent"
          \/ j - (S + A) \in 1 .. T /\ r[j].zone = "trusted"
      BY <1>8
    <3> QED
      BY <3>1, <3>2
  <2>2. i \in 1 .. S + A + T /\ k \in 1 .. S + A + T /\ S \in Nat /\ A \in Nat
    BY <1>1, <1>2, <1>5
  <2> QED
    BY <2>1, <2>2
<1> QED
  BY <1>5, <1>9, <1>10, <1>11 DEF r, Z

LEMMA OverrideByTheBook ==
  ASSUME NEW rules \in Seq(Rules), NEW path
  PROVE  LET best == Zone!Best(rules, path)
             winners == Zone!Winners(rules, path)
             first == CHOOSE i \in winners : \A j \in winners : i <= j
         IN /\ best # Zone!Unmatched <=> winners # {}
            /\ winners # {} => best.zone = rules[first].zone
<1> DEFINE best == Zone!Best(rules, path)
           N == Len(rules)
           M(i) == Zone!Matches(rules[i].glob, path)
           S(i) == Zone!Specificity(rules[i].glob)
           W == Zone!Winners(rules, path)
           first == CHOOSE i \in W : \A j \in W : i <= j
<1>1. N \in Nat /\ DOMAIN rules = 1 .. N /\ \A i \in 1 .. N : rules[i] \in Rules
  OBVIOUS
<1>2. \A i \in 1 .. N : /\ S(i) \in Nat
                        /\ Zone!Scored(rules[i]) # Zone!Unmatched
                        /\ Zone!Scored(rules[i]).zone = rules[i].zone
  <2> TAKE i \in 1 .. N
  <2>1. rules[i] \in Rules /\ rules[i].glob \in Seq(Segments)
    BY <1>1 DEF Rules
  <2> QED
    BY <2>1, ScoresHold, SpecificityIsNat
<1>3. W = {i \in 1 .. N : M(i) /\ \A j \in 1 .. N : M(j) => S(i) >= S(j)}
  BY <1>1 DEF Zone!Winners
<1>4. BestIs(rules, path, N, best)
  BY BestWins
<1>5. CASE \A j \in 1 .. N : ~M(j)
  <2>1. best = Zone!Unmatched
    BY <1>4, <1>5 DEF BestIs
  <2>2. W = {}
    BY <1>3, <1>5
  <2> QED
    BY <2>1, <2>2
<1>6. CASE \E j \in 1 .. N : M(j)
  <2>1. PICK w \in 1 .. N : FirstOf(rules, path, N, w) /\ best = Zone!Scored(rules[w])
    BY <1>4, <1>6 DEF BestIs
  <2>2. M(w) /\ \A j \in 1 .. N : M(j) => S(w) >= S(j) /\ (j < w => S(w) > S(j))
    BY <2>1 DEF FirstOf
  <2> HIDE DEF M, S, W, N
  <2>3. w \in W
    BY <2>1, <2>2, <1>3
  <2>4. \A j \in W : w <= j
    <3> SUFFICES ASSUME NEW j \in W, j < w
                 PROVE  FALSE
      BY <1>1, <1>3, <2>1
    <3>1. j \in 1 .. N /\ M(j) /\ S(j) >= S(w)
      BY <1>3, <2>1, <2>2
    <3>2. S(w) > S(j)
      BY <2>2, <3>1
    <3> QED
      BY <3>1, <3>2, <1>2, <2>1
  <2>5. \A i \in W : (\A j \in W : i <= j) => i = w
    BY <2>1, <2>3, <2>4, <1>1, <1>3
  <2>6. first = w
    BY <2>3, <2>4, <2>5
  <2>7. best # Zone!Unmatched /\ best.zone = rules[w].zone
    BY <2>1, <1>2
  <2> QED
    BY <2>3, <2>6, <2>7 DEF W
<1> QED
  BY <1>5, <1>6

LEMMA BaseByTheBook ==
  ASSUME NEW m \in Manifests, NEW path
  PROVE  LET best == Zone!Best(Zone!BaseRules(m), path) IN
         /\ best # Zone!Unmatched => best.zone \in Zone!BaseZones
         /\ (IF best # Zone!Unmatched THEN best.zone ELSE "trusted")
              = (IF Zone!Wins("scratch", path, m) THEN "scratch"
                 ELSE IF Zone!Wins("agent", path, m) THEN "agent" ELSE "trusted")
<1> DEFINE r == Zone!BaseRules(m)
           best == Zone!Best(r, path)
           N == Len(r)
           M(i) == Zone!Matches(r[i].glob, path)
           S(i) == Zone!Specificity(r[i].glob)
<1>1. /\ r \in Seq(Rules)
      /\ \A i \in 1 .. N :
           /\ r[i].zone \in Zone!BaseZones
           /\ \E j \in DOMAIN m.zones[r[i].zone] : m.zones[r[i].zone][j] = r[i].glob
      /\ \A z \in Zone!BaseZones : \A j \in DOMAIN m.zones[z] :
           \E i \in 1 .. N : r[i].zone = z /\ r[i].glob = m.zones[z][j]
      /\ \A i, k \in 1 .. N :
           /\ r[i].zone = "scratch" /\ r[k].zone # "scratch" => i < k
           /\ r[i].zone = "agent" /\ r[k].zone = "trusted" => i < k
  BY BaseRulesAre
<1> HIDE DEF r
<1>2. N \in Nat /\ \A i \in 1 .. N : r[i] \in Rules
  BY <1>1
<1>3. \A i \in 1 .. N : /\ S(i) \in Nat
                        /\ Zone!Scored(r[i]) # Zone!Unmatched
                        /\ Zone!Scored(r[i]).zone = r[i].zone
  <2> TAKE i \in 1 .. N
  <2>1. r[i] \in Rules /\ r[i].glob \in Seq(Segments)
    BY <1>2 DEF Rules
  <2> QED
    BY <2>1, ScoresHold, SpecificityIsNat
<1>4. BestIs(r, path, N, best)
  BY <1>1, BestWins
<1>5. \A z \in Zone!BaseZones :
        Zone!Wins(z, path, m) <=>
          \E i \in 1 .. N : r[i].zone = z /\ M(i) /\ \A j \in 1 .. N : M(j) => S(i) >= S(j)
  <2> TAKE z \in Zone!BaseZones
  <2>1. ASSUME Zone!Wins(z, path, m)
        PROVE  \E i \in 1 .. N : r[i].zone = z /\ M(i) /\ \A j \in 1 .. N : M(j) => S(i) >= S(j)
    <3>1. PICK k \in DOMAIN m.zones[z] :
            /\ Zone!Matches(m.zones[z][k], path)
            /\ \A y \in Zone!BaseZones : \A j \in DOMAIN m.zones[y] :
                 Zone!Matches(m.zones[y][j], path) =>
                   Zone!Specificity(m.zones[z][k]) >= Zone!Specificity(m.zones[y][j])
      BY <2>1 DEF Zone!Wins
    <3>2. PICK i \in 1 .. N : r[i].zone = z /\ r[i].glob = m.zones[z][k]
      BY <1>1
    <3>3. \A j \in 1 .. N : M(j) => S(i) >= S(j)
      BY <1>1, <3>1, <3>2
    <3> QED
      BY <3>1, <3>2, <3>3
  <2>2. ASSUME NEW i \in 1 .. N, r[i].zone = z, M(i), \A j \in 1 .. N : M(j) => S(i) >= S(j)
        PROVE  Zone!Wins(z, path, m)
    <3>1. PICK k \in DOMAIN m.zones[z] : m.zones[z][k] = r[i].glob
      BY <1>1, <2>2
    <3>2. ASSUME NEW y \in Zone!BaseZones, NEW j \in DOMAIN m.zones[y], Zone!Matches(m.zones[y][j], path)
          PROVE  Zone!Specificity(m.zones[z][k]) >= Zone!Specificity(m.zones[y][j])
      <4>1. PICK l \in 1 .. N : r[l].glob = m.zones[y][j]
        BY <1>1
      <4> QED
        BY <4>1, <3>1, <3>2, <2>2
    <3> QED
      BY <3>1, <3>2, <2>2 DEF Zone!Wins
  <2> QED
    BY <2>1, <2>2
<1>6. CASE \A j \in 1 .. N : ~M(j)
  <2>1. best = Zone!Unmatched
    BY <1>4, <1>6 DEF BestIs
  <2>2. \A z \in Zone!BaseZones : ~Zone!Wins(z, path, m)
    BY <1>5, <1>6
  <2> QED
    BY <2>1, <2>2 DEF Zone!BaseZones, r
<1>7. CASE \E j \in 1 .. N : M(j)
  <2>1. PICK w \in 1 .. N : FirstOf(r, path, N, w) /\ best = Zone!Scored(r[w])
    BY <1>4, <1>7 DEF BestIs
  <2>2. M(w) /\ \A j \in 1 .. N : M(j) => S(w) >= S(j) /\ (j < w => S(w) > S(j))
    BY <2>1 DEF FirstOf
  <2>3. best # Zone!Unmatched /\ best.zone = r[w].zone /\ r[w].zone \in Zone!BaseZones
    BY <2>1, <1>1, <1>3
  <2> HIDE DEF M, S, N, best
  <2>4. Zone!Wins(r[w].zone, path, m)
    BY <2>2, <2>3, <1>5
  <2>5. ASSUME NEW z \in Zone!BaseZones, Zone!Wins(z, path, m)
        PROVE  \E i \in 1 .. N : r[i].zone = z /\ w <= i
    <3>1. PICK i \in 1 .. N : r[i].zone = z /\ M(i) /\ \A j \in 1 .. N : M(j) => S(i) >= S(j)
      BY <2>5, <1>5
    <3>2. ~(i < w)
      <4> SUFFICES ASSUME i < w PROVE FALSE
        OBVIOUS
      <4>1. S(w) > S(i) /\ S(i) >= S(w)
        BY <3>1, <2>1, <2>2
      <4> QED
        BY <4>1, <3>1, <2>1, <1>3
    <3>3. w <= i
      BY <3>2, <2>1, <1>2
    <3> QED
      BY <3>1, <3>3
  <2>6. \A i \in 1 .. N : w <= i => ~(i < w)
    BY <2>1, <1>2
  <2>7. "scratch" \in Zone!BaseZones /\ "agent" \in Zone!BaseZones
    BY DEF Zone!BaseZones
  <2>8. r[w].zone # "scratch" => ~Zone!Wins("scratch", path, m)
    BY <2>1, <2>5, <2>6, <2>7, <1>1
  <2>9. r[w].zone = "trusted" => ~Zone!Wins("agent", path, m)
    BY <2>1, <2>5, <2>6, <2>7, <1>1
  <2>10. best.zone = (IF Zone!Wins("scratch", path, m) THEN "scratch"
                      ELSE IF Zone!Wins("agent", path, m) THEN "agent" ELSE "trusted")
    BY <2>3, <2>4, <2>8, <2>9 DEF Zone!BaseZones
  <2> QED
    BY <2>3, <2>10 DEF best, r
<1> QED
  BY <1>6, <1>7

(* An excluded glob, or one of the three folders that always are.          *)
LEMMA ExcludedFirst ==
  ASSUME NEW m \in Manifests, NEW path \in Seq(Segments), path # <<>>
  PROVE  (\E g \in Zone!ALWAYS_EXCLUDED_GLOBS \cup Zone!ToSet(m.zones["excluded"]) : Zone!Matches(g, path))
         <=> \/ path[1] \in {".ledger", ".git", ".obsidian"}
             \/ \E i \in DOMAIN m.zones["excluded"] : Zone!Matches(m.zones["excluded"][i], path)
<1>1. /\ Zone!Matches(<<".ledger", "**">>, path) <=> path[1] = ".ledger"
      /\ Zone!Matches(<<".git", "**">>, path) <=> path[1] = ".git"
      /\ Zone!Matches(<<".obsidian", "**">>, path) <=> path[1] = ".obsidian"
  <2>1. /\ ".ledger" # "*" /\ ".ledger" # "**" /\ ".git" # "*" /\ ".git" # "**"
        /\ ".obsidian" # "*" /\ ".obsidian" # "**"
    OBVIOUS
  <2> QED
    BY <2>1, SegmentsHold, TopFolderMatches
<1>2. (\E g \in Zone!ALWAYS_EXCLUDED_GLOBS : Zone!Matches(g, path))
        <=> path[1] \in {".ledger", ".git", ".obsidian"}
  BY <1>1, Zenon DEF Zone!ALWAYS_EXCLUDED_GLOBS
<1>3. (\E g \in Zone!ToSet(m.zones["excluded"]) : Zone!Matches(g, path))
        <=> \E i \in DOMAIN m.zones["excluded"] : Zone!Matches(m.zones["excluded"][i], path)
  BY Zenon DEF Zone!ToSet
<1> QED
  BY <1>2, <1>3

LEMMA ResolvedByTheBook ==
  ASSUME NEW m \in Manifests, NEW path \in Seq(Segments), path # <<>>
  PROVE  Zone!ResolveZone(path, m) = Zone!ZoneByTheBook(path, m)
<1> DEFINE X == \E g \in Zone!ALWAYS_EXCLUDED_GLOBS \cup Zone!ToSet(m.zones["excluded"]) :
                  Zone!Matches(g, path)
           A == path[1] \in {".ledger", ".git", ".obsidian"}
           E == \E i \in DOMAIN m.zones["excluded"] : Zone!Matches(m.zones["excluded"][i], path)
           override == Zone!Best(m.overrides, path)
           base == Zone!Best(Zone!BaseRules(m), path)
           W == Zone!Winners(m.overrides, path)
           first == CHOOSE i \in W : \A j \in W : i <= j
           over == m.overrides[first].zone
           book == IF Zone!Wins("scratch", path, m) THEN "scratch"
                   ELSE IF Zone!Wins("agent", path, m) THEN "agent" ELSE "trusted"
           R == Zone!ResolveZone(path, m)
           B == Zone!ZoneByTheBook(path, m)
<1>1. X <=> A \/ E
  BY ExcludedFirst
<1>2. (override # Zone!Unmatched <=> W # {}) /\ (W # {} => override.zone = over)
  <2>1. m.overrides \in Seq(Rules)
    BY DEF Manifests
  <2> QED
    BY <2>1, OverrideByTheBook
<1>3. (IF base # Zone!Unmatched THEN base.zone ELSE "trusted") = book
  BY BaseByTheBook
<1>4. /\ X => R = "excluded"
      /\ ~X => R = IF override # Zone!Unmatched THEN override.zone
                   ELSE IF base # Zone!Unmatched THEN base.zone ELSE "trusted"
  BY Zenon DEF Zone!ResolveZone
<1>5. /\ A => B = "excluded"
      /\ ~A /\ E => B = "excluded"
      /\ ~A /\ ~E => B = IF W # {} THEN over ELSE book
  BY Zenon DEF Zone!ZoneByTheBook
<1> HIDE DEF X, A, E, override, base, W, over, book, R, B
<1> QED
  BY <1>1, <1>2, <1>3, <1>4, <1>5 DEF R, B

\* A note is excluded by a glob that is, or by the best override.
LEMMA ExcludedBy ==
  ASSUME NEW m \in Manifests, NEW path \in Seq(Segments), path # <<>>
  PROVE  LET override == Zone!Best(m.overrides, path) IN
         Zone!ResolveZone(path, m) = "excluded" <=>
           \/ path[1] \in {".ledger", ".git", ".obsidian"}
           \/ \E i \in DOMAIN m.zones["excluded"] : Zone!Matches(m.zones["excluded"][i], path)
           \/ override # Zone!Unmatched /\ override.zone = "excluded"
<1> DEFINE X == \E g \in Zone!ALWAYS_EXCLUDED_GLOBS \cup Zone!ToSet(m.zones["excluded"]) :
                  Zone!Matches(g, path)
           override == Zone!Best(m.overrides, path)
           base == Zone!Best(Zone!BaseRules(m), path)
           R == Zone!ResolveZone(path, m)
<1>1. X <=> \/ path[1] \in {".ledger", ".git", ".obsidian"}
            \/ \E i \in DOMAIN m.zones["excluded"] : Zone!Matches(m.zones["excluded"][i], path)
  BY ExcludedFirst
<1>2. base # Zone!Unmatched => base.zone \in {"scratch", "agent", "trusted"}
  BY BaseByTheBook DEF Zone!BaseZones
<1>3. /\ X => R = "excluded"
      /\ ~X => R = IF override # Zone!Unmatched THEN override.zone
                   ELSE IF base # Zone!Unmatched THEN base.zone ELSE "trusted"
  BY Zenon DEF Zone!ResolveZone
<1> HIDE DEF X, override, base, R
<1> QED
  BY <1>1, <1>2, <1>3 DEF R, override

-----------------------------------------------------------------------------
(* The vault and its manifest.                                             *)

\* The manifest setup proposes when it has found a Private folder, and when not.
PrivateExcluded == <<<<".obsidian", "**">>, <<"**", "private", "**">>>>
NoneExcluded == <<<<".obsidian", "**">>>>
Proposed(excluded) ==
  [zones |-> [trusted  |-> <<<<"**">>>>,
              agent    |-> <<<<"agent", "**">>>>,
              scratch  |-> <<<<"agent", "scratch", "**">>>>,
              excluded |-> excluded],
   overrides |-> <<>>]

PolicyInv ==
  gate = "policy" =>
    /\ Zone!TypeOK
    /\ edits = 0 => manifest \in {Zone!NoManifest, Proposed(PrivateExcluded), Proposed(NoneExcluded)}
    /\ edits = 0 /\ report = "all excluded" => manifest = Proposed(PrivateExcluded)

LEMMA TwoListed ==
  ASSUME NEW a, NEW b
  PROVE  <<a>> \o <<b>> = <<a, b>>
<1> DEFINE s == <<a>> \o <<b>>
           t == <<a, b>>
<1>1. <<a>> \in Seq({a, b}) /\ <<b>> \in Seq({a, b})
  OBVIOUS
<1>2. s \in Seq({a, b}) /\ Len(s) = 2 /\ s[1] = a /\ s[2] = b
  BY <1>1
<1>3. t \in Seq({a, b}) /\ Len(t) = 2 /\ t[1] = a /\ t[2] = b
  OBVIOUS
<1> HIDE DEF s, t
<1>4. \A i \in 1 .. Len(s) : s[i] = t[i]
  BY <1>2, <1>3
<1>5. s = t
  BY <1>2, <1>3, <1>4, SeqEqual
<1> QED
  BY <1>5 DEF s, t

LEMMA ZonesAre ==
  ASSUME NEW S, NEW t \in S, NEW a \in S, NEW s \in S, NEW e \in S
  PROVE  [trusted |-> t, agent |-> a, scratch |-> s, excluded |-> e] \in [Zone!ZoneNames -> S]
BY DEF Zone!ZoneNames

LEMMA ProposedIs ==
  /\ Zone!ProposedManifest = IF Zone!HasPrivate THEN Proposed(PrivateExcluded) ELSE Proposed(NoneExcluded)
  /\ Zone!NoManifest \in Manifests
  /\ Proposed(PrivateExcluded) \in Manifests /\ Proposed(NoneExcluded) \in Manifests
  /\ Proposed(PrivateExcluded) # Zone!NoManifest /\ Proposed(NoneExcluded) # Zone!NoManifest
<1>1. /\ Zone!HasPrivate => Zone!Excluded = PrivateExcluded
      /\ ~Zone!HasPrivate => Zone!Excluded = NoneExcluded
  <2>1. /\ <<<<".obsidian", "**">>>> \o <<<<"**", "private", "**">>>> = PrivateExcluded
        /\ <<<<".obsidian", "**">>>> \o <<>> = NoneExcluded
    BY TwoListed DEF PrivateExcluded, NoneExcluded
  <2> QED
    BY <2>1 DEF Zone!Excluded
<1>2. Zone!ProposedManifest = Proposed(Zone!Excluded)
  BY DEF Zone!ProposedManifest, Proposed
<1>3. PrivateExcluded \in Seq(Seq(Segments)) /\ NoneExcluded \in Seq(Seq(Segments))
  <2>1. /\ <<".obsidian", "**">> \in Seq(Segments) /\ <<"**", "private", "**">> \in Seq(Segments)
    BY SegmentsHold
  <2> HIDE DEF Zone!PROBE
  <2> QED
    BY <2>1 DEF PrivateExcluded, NoneExcluded
<1>4. ASSUME NEW x \in Seq(Seq(Segments))
      PROVE  Proposed(x) \in Manifests
  <2>1. /\ <<<<"**">>>> \in Seq(Seq(Segments)) /\ <<<<"agent", "**">>>> \in Seq(Seq(Segments))
        /\ <<<<"agent", "scratch", "**">>>> \in Seq(Seq(Segments))
    <3>1. <<"**">> \in Seq(Segments) /\ <<"agent", "**">> \in Seq(Segments) /\ <<"agent", "scratch", "**">> \in Seq(Segments)
      BY SegmentsHold
    <3> QED
      BY <3>1
  <2>2. <<>> \in Seq(Rules)
    OBVIOUS
  <2> DEFINE zones == Proposed(x).zones
  <2>3. Proposed(x) = [zones |-> zones, overrides |-> <<>>]
    BY DEF Proposed
  <2>4. zones \in [Zone!ZoneNames -> Seq(Seq(Segments))]
    BY <2>1, ZonesAre DEF Proposed
  <2> HIDE DEF zones
  <2> QED
    BY <2>2, <2>3, <2>4 DEF Manifests
<1>5. Zone!NoManifest \in Manifests
  BY DEF Zone!NoManifest, Manifests
<1>6. ASSUME NEW x
      PROVE  Proposed(x) # Zone!NoManifest
  <2>1. Proposed(x).zones["trusted"] = <<<<"**">>>>
    BY DEF Proposed
  <2>2. Zone!NoManifest.zones["trusted"] = <<>>
    BY DEF Zone!NoManifest, Zone!ZoneNames
  <2> QED
    BY <2>1, <2>2
<1> QED
  BY <1>1, <1>2, <1>3, <1>4, <1>5, <1>6

LEMMA FoldersAre ==
  ASSUME Zone!TypeOK
  PROVE  /\ world \in Vaults /\ world.names \subseteq Segments /\ world.rules \subseteq Zone!ManifestEdits
         /\ world.depth \in Nat /\ world.edits \in Nat
         /\ manifest \in Manifests
         /\ \A f \in folders : f \in Seq(Segments) /\ Len(f) \in 1 .. world.depth
                               /\ f \in Seq(world.names)
<1>1. /\ world \in Vaults /\ world.names \subseteq Segments /\ world.rules \subseteq Zone!ManifestEdits
      /\ world.depth \in Nat /\ world.edits \in Nat
  BY Parameters DEF Zone!TypeOK, Zone!WorldsAssumption
<1>2. ASSUME NEW f \in folders
      PROVE  f \in Seq(Segments) /\ Len(f) \in 1 .. world.depth /\ f \in Seq(world.names)
  <2>1. f \in Zone!Paths
    BY DEF Zone!TypeOK
  <2>2. PICK n \in 1 .. world.depth : f \in [1 .. n -> world.names]
    BY <2>1 DEF Zone!Paths
  <2>3. n \in Nat
    BY <1>1
  <2>4. f \in Seq(world.names) /\ Len(f) = n
    BY <2>2, <2>3
  <2>5. f \in Seq(Segments)
    BY <2>4, <1>1, SeqMonotonic
  <2> QED
    BY <2>4, <2>5
<1>3. manifest \in Manifests
  BY DEF Zone!TypeOK, Zone!Globs, Manifests, Rules
<1> QED
  BY <1>1, <1>2, <1>3

LEMMA GlobAdded ==
  ASSUME NEW m \in Manifests, NEW z \in Zone!ZoneNames, NEW g \in Seq(Segments)
  PROVE  [m EXCEPT !.zones[z] = Append(@, g)] \in Manifests
<1>1. m.zones \in [Zone!ZoneNames -> Seq(Seq(Segments))] /\ m.overrides \in Seq(Rules)
  BY DEF Manifests
<1>2. Append(m.zones[z], g) \in Seq(Seq(Segments))
  BY <1>1
<1>3. [m.zones EXCEPT ![z] = Append(@, g)] \in [Zone!ZoneNames -> Seq(Seq(Segments))]
  BY <1>1, <1>2
<1> QED
  BY <1>1, <1>3 DEF Manifests

LEMMA GlobRemoved ==
  ASSUME NEW m \in Manifests, NEW z \in Zone!ZoneNames, NEW i \in DOMAIN m.zones[z]
  PROVE  [m EXCEPT !.zones[z] = Zone!RemoveAt(@, i)] \in Manifests
<1>1. m.zones \in [Zone!ZoneNames -> Seq(Seq(Segments))] /\ m.overrides \in Seq(Rules)
  BY DEF Manifests
<1> DEFINE s == m.zones[z]
           n == Len(s)
<1>2. s \in Seq(Seq(Segments)) /\ n \in Nat /\ DOMAIN s = 1 .. n
  BY <1>1
<1>3. /\ 1 \in Int /\ i - 1 \in Int /\ i + 1 \in Int /\ n \in Int
      /\ \A j \in 1 .. i - 1 : s[j] \in Seq(Segments)
      /\ \A j \in i + 1 .. n : s[j] \in Seq(Segments)
  <2>1. i \in 1 .. n
    BY <1>2
  <2>2. \A j \in 1 .. n : s[j] \in Seq(Segments)
    BY <1>2, ElementOfSeq
  <2> HIDE DEF s, n
  <2> QED
    BY <2>1, <2>2, <1>2
<1>4. SubSeq(s, 1, i - 1) \in Seq(Seq(Segments)) /\ SubSeq(s, i + 1, n) \in Seq(Seq(Segments))
  BY <1>3, SubSeqProperties
<1>5. Zone!RemoveAt(s, i) \in Seq(Seq(Segments))
  BY <1>4, ConcatProperties DEF Zone!RemoveAt
<1>6. [m.zones EXCEPT ![z] = Zone!RemoveAt(@, i)] \in [Zone!ZoneNames -> Seq(Seq(Segments))]
  BY <1>1, <1>5
<1> QED
  BY <1>1, <1>6 DEF Manifests

LEMMA OverrideAdded ==
  ASSUME NEW m \in Manifests, NEW z \in Zone!ZoneNames, NEW g \in Seq(Segments)
  PROVE  [m EXCEPT !.overrides = Append(@, [zone |-> z, glob |-> g])] \in Manifests
<1>1. m.overrides \in Seq(Rules) /\ [zone |-> z, glob |-> g] \in Rules
  BY DEF Manifests, Rules
<1>2. Append(m.overrides, [zone |-> z, glob |-> g]) \in Seq(Rules)
  BY <1>1
<1> QED
  BY <1>2 DEF Manifests

LEMMA PrefixOfAppend ==
  ASSUME NEW S, NEW p \in Seq(S), NEW x \in S, NEW k \in 1 .. Len(p)
  PROVE  SubSeq(Append(p, x), 1, k) = SubSeq(p, 1, k)
<1>1. Append(p, x) = p \o <<x>> /\ <<x>> \in Seq(S) /\ 1 \in 1 .. Len(p)
  BY AppendIsConcat
<1> QED
  BY <1>1, SubSeqOfConcat1

LEMMA PolicyInvInit == Init => PolicyInv
<1> SUFFICES ASSUME Init, gate = "policy"
             PROVE  PolicyInv
  BY DEF PolicyInv
<1>1. Zone!Init
  BY DEF Init
<1>2. /\ world \in Vaults /\ manifest = Zone!NoManifest /\ edits = 0 /\ report = Zone!NoReport
      /\ folders = {} /\ refused = FALSE
  BY <1>1 DEF Zone!Init
<1>3. manifest \in [zones : [Zone!ZoneNames -> Seq(Zone!Globs)], overrides : Seq([zone : Zone!ZoneNames, glob : Zone!Globs])]
  BY <1>2, ProposedIs DEF Manifests, Rules, Zone!Globs
<1>4. world.edits \in Nat
  BY <1>2, Parameters DEF Zone!WorldsAssumption
<1>5. edits \in 0 .. world.edits
  BY <1>2, <1>4
<1>6. Zone!TypeOK
  BY <1>2, <1>3, <1>5 DEF Zone!TypeOK
<1>7. report # "all excluded"
  BY <1>2 DEF Zone!NoReport
<1> QED
  BY <1>2, <1>6, <1>7 DEF PolicyInv

\* A path of n names.
LEMMA PathIs ==
  ASSUME NEW n \in 1 .. world.depth, NEW f \in Seq(world.names), Len(f) = n
  PROVE  f \in Zone!Paths
<1>1. f \in [1 .. n -> world.names]
  OBVIOUS
<1> QED
  BY <1>1 DEF Zone!Paths

LEMMA MakeFolderTyped ==
  ASSUME Zone!TypeOK, Zone!MakeFolder
  PROVE  Zone!TypeOK'
<1>1. PICK parent \in folders \cup {<<>>}, name \in world.names :
        /\ Len(parent) < world.depth
        /\ folders' = folders \cup {Append(parent, name)}
        /\ UNCHANGED <<world, manifest, report, refused, edits>>
  BY DEF Zone!MakeFolder
<1>2. /\ parent \in Seq(world.names)
      /\ parent # <<>> => parent \in folders
  <2>1. CASE parent = <<>>
    BY <2>1
  <2>2. CASE parent # <<>>
    BY <1>1, <2>2, FoldersAre
  <2> QED
    BY <2>1, <2>2
<1>3. Len(parent) \in Nat /\ world.depth \in Nat
  BY <1>2, FoldersAre
<1> DEFINE f == Append(parent, name)
<1>4. f \in Seq(world.names) /\ Len(f) = Len(parent) + 1
  BY <1>2, AppendProperties
<1>5. f \in Zone!Paths
  <2>1. Len(f) \in 1 .. world.depth
    BY <1>1, <1>3, <1>4
  <2> HIDE DEF f
  <2> QED
    BY <2>1, <1>4, PathIs
<1>6. ASSUME NEW n \in 1 .. world.depth, n <= Len(f)
      PROVE  SubSeq(f, 1, n) \in folders \cup {f}
  <2>1. CASE n = Len(f)
    BY <2>1, <1>4, SubSeqFull
  <2>2. CASE n # Len(f)
    <3>1. n \in 1 .. Len(parent)
      BY <2>2, <1>3, <1>4, <1>6
    <3>2. SubSeq(f, 1, n) = SubSeq(parent, 1, n)
      BY <3>1, <1>2, PrefixOfAppend
    <3>3. parent # <<>> /\ n <= Len(parent)
      BY <3>1, <1>3
    <3> QED
      BY <3>2, <3>3, <1>2 DEF Zone!TypeOK
  <2> QED
    BY <2>1, <2>2
<1> HIDE DEF f
<1>7. folders' = folders \cup {f} /\ UNCHANGED <<world, manifest, report, refused, edits>>
  BY <1>1 DEF f
<1>8. folders \subseteq Zone!Paths
  BY DEF Zone!TypeOK
<1>9. folders' \subseteq Zone!Paths'
  <2>1. Zone!Paths' = Zone!Paths
    BY <1>7 DEF Zone!Paths
  <2> QED
    BY <2>1, <1>5, <1>7, <1>8
<1>10. \A g \in folders', n \in 1 .. world'.depth : n <= Len(g) => SubSeq(g, 1, n) \in folders'
  BY <1>6, <1>7 DEF Zone!TypeOK
<1> QED
  BY <1>7, <1>9, <1>10 DEF Zone!TypeOK

LEMMA EditManifestTyped ==
  ASSUME Zone!TypeOK, Zone!EditManifest
  PROVE  Zone!TypeOK' /\ edits' # 0
<1>1. PICK e \in world.rules :
        /\ edits < world.edits
        /\ \/ manifest' = [manifest EXCEPT !.zones[e.zone] = Append(@, e.glob)]
           \/ \E i \in DOMAIN manifest.zones[e.zone] :
                manifest' = [manifest EXCEPT !.zones[e.zone] = Zone!RemoveAt(@, i)]
           \/ manifest' = [manifest EXCEPT !.overrides = Append(@, [zone |-> e.zone, glob |-> e.glob])]
        /\ report' = Zone!NoReport /\ edits' = edits + 1
        /\ UNCHANGED <<world, folders, refused>>
  BY DEF Zone!EditManifest
<1>2. /\ world.edits \in Nat /\ edits \in 0 .. world.edits /\ manifest \in Manifests
      /\ world.rules \subseteq Zone!ManifestEdits
  BY FoldersAre DEF Zone!TypeOK
<1>3. e.zone \in Zone!ZoneNames /\ e.glob \in Seq(Segments)
  BY <1>2 DEF Zone!ManifestEdits
<1>4. manifest' \in Manifests
  BY <1>1, <1>2, <1>3, GlobAdded, GlobRemoved, OverrideAdded
<1>5. edits' \in 0 .. world.edits /\ edits' # 0
  BY <1>1, <1>2
<1> QED
  BY <1>1, <1>4, <1>5 DEF Zone!TypeOK, Zone!Paths, Manifests, Rules, Zone!Globs

LEMMA SetupTyped ==
  ASSUME Zone!TypeOK, Zone!Setup
  PROVE  Zone!TypeOK'
<1>1. manifest' \in Manifests
  BY FoldersAre, ProposedIs DEF Zone!Setup
<1>2. UNCHANGED <<world, folders, report, edits>> /\ refused' \in BOOLEAN
  BY DEF Zone!Setup
<1> QED
  BY <1>1, <1>2 DEF Zone!TypeOK, Zone!Paths, Manifests, Rules, Zone!Globs

LEMMA DoctorTyped ==
  ASSUME Zone!TypeOK, Zone!Doctor
  PROVE  Zone!TypeOK'
BY DEF Zone!TypeOK, Zone!Paths, Zone!Doctor

LEMMA ProbeIs ==
  ASSUME NEW f \in Seq(Segments)
  PROVE  /\ Zone!ProbeOf(f) \in Seq(Segments) /\ Len(Zone!ProbeOf(f)) = Len(f) + 1
         /\ \A i \in 1 .. Len(f) : Zone!ProbeOf(f)[i] = f[i]
         /\ Zone!ProbeOf(f)[Len(f) + 1] = Zone!PROBE
<1>1. Zone!PROBE \in Segments
  BY SegmentsHold
<1> HIDE DEF Zone!PROBE
<1> QED
  BY <1>1, AppendProperties DEF Zone!ProbeOf

LEMMA NoteIs ==
  ASSUME NEW f \in Seq(Segments)
  PROVE  /\ Append(f, "note.md") \in Seq(Segments) /\ Len(Append(f, "note.md")) = Len(f) + 1
         /\ \A i \in 1 .. Len(f) : Append(f, "note.md")[i] = f[i]
<1>1. "note.md" \in Segments
  BY SegmentsHold
<1> QED
  BY <1>1, AppendProperties

\* No rule at all.
LEMMA NoOverride ==
  ASSUME NEW path
  PROVE  Zone!Best(<<>>, path) = Zone!Unmatched
<1>1. <<>> \in Seq(Rules) /\ Len(<<>>) = 0
  OBVIOUS
<1>2. BestIs(<<>>, path, 0, Zone!Best(<<>>, path))
  BY <1>1, BestWins
<1> QED
  BY <1>2 DEF BestIs

\* What setup proposes when it finds no Private folder leaves every folder
\* open but the ledger's, git's and Obsidian's.
LEMMA NoneExcludedIsOpen ==
  ASSUME NEW path \in Seq(Segments), path # <<>>, path[1] \notin {".ledger", ".git", ".obsidian"}
  PROVE  Zone!ResolveZone(path, Proposed(NoneExcluded)) # "excluded"
<1> DEFINE m == Proposed(NoneExcluded)
<1>1. m \in Manifests
  BY ProposedIs
<1>2. m.zones["excluded"] = NoneExcluded /\ m.overrides = <<>>
  BY DEF Proposed
<1>3. DOMAIN NoneExcluded = {1} /\ NoneExcluded[1] = <<".obsidian", "**">>
  BY DEF NoneExcluded
<1>4. ~Zone!Matches(<<".obsidian", "**">>, path)
  BY SegmentsHold, TopFolderMatches
<1>5. Zone!Best(m.overrides, path) = Zone!Unmatched
  BY <1>2, NoOverride
<1> HIDE DEF m
<1>6. ~ \E i \in DOMAIN m.zones["excluded"] : Zone!Matches(m.zones["excluded"][i], path)
  BY <1>2, <1>3, <1>4
<1> QED
  BY <1>1, <1>5, <1>6, ExcludedBy DEF m

\* A folder that doctor and setup look at is not in one of those.
LEMMA FoundIs ==
  ASSUME Zone!TypeOK, NEW f \in Zone!FindPrivateFolders
  PROVE  /\ f \in folders /\ f \in Seq(Segments) /\ Len(f) >= 1
         /\ f[1] \notin {".ledger", ".git", ".obsidian"}
<1>1. f \in folders /\ Zone!ToSet(f) \cap SkippedDirs = {}
  BY DEF Zone!FindPrivateFolders, Zone!Walked
<1>2. f \in Seq(Segments) /\ Len(f) >= 1
  BY <1>1, FoldersAre
<1>3. f[1] \in Zone!ToSet(f)
  BY <1>2 DEF Zone!ToSet
<1>4. {".ledger", ".git", ".obsidian"} \subseteq SkippedDirs
  BY Parameters DEF Zone!WorldsAssumption
<1> QED
  BY <1>1, <1>2, <1>3, <1>4

\* Doctor has found a Private folder excluded.
LEMMA CleanBillMeans ==
  ASSUME Zone!TypeOK, Zone!NotExcluded = {}, Zone!FindPrivateFolders # {}
  PROVE  manifest # Proposed(NoneExcluded)
<1>1. Zone!NotExcluded = {} /\ Zone!FindPrivateFolders # {}
  OBVIOUS
<1>2. PICK f \in Zone!FindPrivateFolders : TRUE
  BY <1>1
<1>3. Zone!ResolveZone(Zone!ProbeOf(f), manifest) = "excluded"
  BY <1>1, <1>2 DEF Zone!NotExcluded
<1>4. f \in Seq(Segments) /\ Len(f) >= 1 /\ f[1] \notin {".ledger", ".git", ".obsidian"}
  BY <1>2, FoundIs
<1> DEFINE probe == Zone!ProbeOf(f)
<1>5. /\ probe \in Seq(Segments) /\ Len(probe) = Len(f) + 1
      /\ \A i \in 1 .. Len(f) : probe[i] = f[i]
  BY <1>4, ProbeIs
<1> HIDE DEF probe
<1>6. Len(f) \in Nat /\ Len(f) >= 1
  BY <1>4, LenProperties
<1>7. probe[1] = f[1]
  BY <1>5, <1>6
<1>8. Len(probe) # 0
  BY <1>5, <1>6
<1>9. probe # <<>>
  BY <1>8
<1> QED
  BY <1>3, <1>4, <1>5, <1>7, <1>9, NoneExcludedIsOpen DEF probe

LEMMA PolicyInvStep == PolicyInv /\ [Next]_vars => PolicyInv'
<1> SUFFICES ASSUME PolicyInv, [Next]_vars, gate' = "policy"
             PROVE  PolicyInv'
  BY DEF PolicyInv
<1>1. gate = "policy" /\ ([Zone!Next]_policyVars)
  BY DEF Next, vars, policyVars
<1>2. /\ Zone!TypeOK
      /\ edits = 0 => manifest \in {Zone!NoManifest, Proposed(PrivateExcluded), Proposed(NoneExcluded)}
      /\ edits = 0 /\ report = "all excluded" => manifest = Proposed(PrivateExcluded)
  BY <1>1 DEF PolicyInv
<1>3. CASE Zone!Setup
  <2>1. Zone!TypeOK'
    BY <1>2, <1>3, SetupTyped
  <2>2. /\ manifest = Zone!NoManifest /\ edits' = edits /\ report' = report
        /\ manifest' = manifest \/ manifest' = Zone!ProposedManifest
    BY <1>3 DEF Zone!Setup
  <2> QED
    BY <1>2, <2>1, <2>2, ProposedIs DEF PolicyInv
<1>4. CASE Zone!Doctor
  <2>1. Zone!TypeOK'
    BY <1>2, <1>4, DoctorTyped
  <2>2. manifest # Zone!NoManifest /\ manifest' = manifest /\ edits' = edits
    BY <1>4 DEF Zone!Doctor
  <2>3. report' = "all excluded" => manifest # Proposed(NoneExcluded)
    <3>1. report' = "all excluded" => Zone!NotExcluded = {} /\ Zone!FindPrivateFolders # {}
      BY <1>4 DEF Zone!Doctor
    <3> QED
      BY <3>1, <1>2, CleanBillMeans
  <2> QED
    BY <1>2, <2>1, <2>2, <2>3 DEF PolicyInv
<1>5. CASE Zone!MakeFolder
  <2>1. Zone!TypeOK'
    BY <1>2, <1>5, MakeFolderTyped
  <2>2. manifest' = manifest /\ edits' = edits /\ report' = report
    BY <1>5 DEF Zone!MakeFolder
  <2> QED
    BY <1>2, <2>1, <2>2 DEF PolicyInv
<1>6. CASE Zone!EditManifest
  BY <1>2, <1>6, EditManifestTyped DEF PolicyInv
<1>7. CASE UNCHANGED policyVars
  BY <1>2, <1>7 DEF PolicyInv, policyVars, Zone!TypeOK, Zone!Paths
<1> QED
  BY <1>1, <1>3, <1>4, <1>5, <1>6, <1>7 DEF Zone!Next

\* Every path's zone is the one the rules of zones.ts give it, for every
\* manifest a person can write (ZoneIsByTheBook).
THEOREM ZoneIsByTheBookHolds == Spec => []ZoneIsByTheBook
<1>1. PolicyInv => ZoneIsByTheBook
  <2> SUFFICES ASSUME PolicyInv, gate = "policy"
               PROVE  Zone!ZoneIsByTheBook
    BY DEF ZoneIsByTheBook
  <2>1. Zone!TypeOK
    BY DEF PolicyInv
  <2> SUFFICES ASSUME NEW f \in folders \cup {<<>>, <<".ledger">>}
               PROVE  Zone!ResolveZone(Append(f, "note.md"), manifest) = Zone!ZoneByTheBook(Append(f, "note.md"), manifest)
    BY DEF Zone!ZoneIsByTheBook
  <2>2. manifest \in Manifests
    BY <2>1, FoldersAre
  <2>3. f \in Seq(Segments)
    <3>1. CASE f \in folders
      BY <2>1, <3>1, FoldersAre
    <3>2. CASE f = <<>>
      BY <3>2
    <3>3. CASE f = <<".ledger">>
      BY <3>3, SegmentsHold
    <3> QED
      BY <3>1, <3>2, <3>3
  <2> DEFINE path == Append(f, "note.md")
  <2>4. path \in Seq(Segments) /\ Len(path) = Len(f) + 1
    BY <2>3, NoteIs
  <2> HIDE DEF path
  <2>5. path # <<>>
    BY <2>3, <2>4
  <2> QED
    BY <2>2, <2>4, <2>5, ResolvedByTheBook DEF path
<1> QED
  BY <1>1, PolicyInvInit, PolicyInvStep, PTL DEF Spec

-----------------------------------------------------------------------------
(* Private folders stay out of reach.                                      *)

\* A note that is kept lies in a Private folder that the walk finds.
LEMMA KeptIsFound ==
  ASSUME Zone!TypeOK, NEW f \in Zone!Kept
  PROVE  /\ f \in folders /\ f \in Seq(Segments)
         /\ \E n \in 1 .. Len(f) : f[n] = "private" /\ SubSeq(f, 1, n) \in Zone!FindPrivateFolders
<1>1. f \in folders /\ \E n \in DOMAIN f : f[n] = "private" /\ \A k \in 1 .. n : f[k] \notin SkippedDirs
  BY DEF Zone!Kept
<1>2. f \in Seq(Segments) /\ Len(f) \in 1 .. world.depth /\ world.depth \in Nat
  BY <1>1, FoldersAre
<1>3. DOMAIN f = 1 .. Len(f) /\ Len(f) \in Nat
  BY <1>2
<1>4. PICK n \in 1 .. Len(f) : f[n] = "private" /\ \A k \in 1 .. n : f[k] \notin SkippedDirs
  BY <1>1, <1>3
<1> DEFINE top == SubSeq(f, 1, n)
<1>5. n \in Nat /\ n >= 1 /\ n <= Len(f) /\ n \in 1 .. world.depth
  BY <1>2, <1>4
<1>6. top \in folders
  BY <1>1, <1>5 DEF Zone!TypeOK
<1>7. /\ top \in Seq(Segments) /\ Len(top) = n
      /\ \A k \in 1 .. n : top[k] = f[k]
  <2>1. 1 \in Int /\ n \in Int /\ \A k \in 1 .. n : f[k] \in Segments
    BY <1>2, <1>5
  <2> QED
    BY <2>1, <1>5, SubSeqProperties
<1> HIDE DEF top
<1>8. DOMAIN top = 1 .. n
  BY <1>7
<1>9. top \in Zone!Walked
  BY <1>4, <1>6, <1>7, <1>8 DEF Zone!Walked, Zone!ToSet
<1>10. Zone!IsPrivate(top)
  BY <1>4, <1>5, <1>7 DEF Zone!IsPrivate, Zone!Last
<1>11. top \in Zone!FindPrivateFolders
  BY <1>9, <1>10 DEF Zone!FindPrivateFolders
<1> QED
  BY <1>1, <1>2, <1>4, <1>11 DEF top

\* With setup's glob every note in a Private folder is excluded.
LEMMA PrivateIsShielded ==
  ASSUME Zone!TypeOK
  PROVE  Zone!Shielded(Proposed(PrivateExcluded))
<1> DEFINE m == Proposed(PrivateExcluded)
<1> SUFFICES ASSUME NEW f \in Zone!Kept
             PROVE  Zone!ResolveZone(Append(f, "note.md"), m) = "excluded"
  BY DEF Zone!Shielded
<1>1. PICK n \in 1 .. Len(f) : f \in Seq(Segments) /\ f[n] = "private"
  BY KeptIsFound
<1> DEFINE path == Append(f, "note.md")
<1>2. path \in Seq(Segments) /\ Len(path) = Len(f) + 1 /\ \A i \in 1 .. Len(f) : path[i] = f[i]
  BY <1>1, NoteIs
<1> HIDE DEF path
<1>3. n \in 1 .. Len(path) /\ path[n] = "private" /\ path # <<>>
  BY <1>1, <1>2
<1>4. m \in Manifests /\ m.zones["excluded"] = PrivateExcluded
  BY ProposedIs DEF Proposed
<1> HIDE DEF m
<1>5. 2 \in DOMAIN PrivateExcluded /\ PrivateExcluded[2] = <<"**", "private", "**">>
  BY DEF PrivateExcluded
<1>6. Zone!Matches(PrivateExcluded[2], path)
  BY <1>2, <1>3, <1>5, PrivateMatches
<1> QED
  BY <1>2, <1>3, <1>4, <1>5, <1>6, ExcludedBy DEF path

\* An override that takes a folder whole excludes the notes below the probe it
\* excludes, if the overrides that do not exclude name their way.
LEMMA OverrideExcludes ==
  ASSUME NEW rules \in Seq(Rules),
         \A i \in 1 .. Len(rules) : /\ Zone!Below(rules[i].glob)
                                    /\ rules[i].zone # "excluded" => Zone!Named(rules[i].glob),
         NEW path \in Seq(Segments), NEW n \in Nat, n >= 1, n < Len(path), path[n] = "private",
         NEW probe \in Seq(Segments), Len(probe) = n + 1, probe[n + 1] = Zone!PROBE,
         \A i \in 1 .. n : probe[i] = path[i],
         Zone!Best(rules, probe) # Zone!Unmatched, Zone!Best(rules, probe).zone = "excluded"
  PROVE  Zone!Best(rules, path) # Zone!Unmatched /\ Zone!Best(rules, path).zone = "excluded"
<1> DEFINE N == Len(rules)
<1>1. N \in Nat /\ \A i \in 1 .. N : rules[i] \in Rules /\ rules[i].glob \in Seq(Segments)
  <2>1. \A i \in 1 .. N : rules[i] \in Rules
    OBVIOUS
  <2> QED
    BY <2>1 DEF Rules
<1>2. BestIs(rules, probe, N, Zone!Best(rules, probe)) /\ BestIs(rules, path, N, Zone!Best(rules, path))
  BY BestWins
<1>3. PICK w \in 1 .. N : FirstOf(rules, probe, N, w) /\ Zone!Best(rules, probe) = Zone!Scored(rules[w])
  BY <1>2 DEF BestIs
<1>4. rules[w].zone = "excluded"
  BY <1>1, <1>3, ScoresHold
<1>5. Zone!Matches(rules[w].glob, probe)
  BY <1>3 DEF FirstOf
<1>6. Zone!Matches(rules[w].glob, path)
  BY <1>1, <1>3, <1>5, BelowMatches
<1>7. PICK v \in 1 .. N : FirstOf(rules, path, N, v) /\ Zone!Best(rules, path) = Zone!Scored(rules[v])
  BY <1>2, <1>6 DEF BestIs
<1>8. rules[v].zone = "excluded"
  <2> SUFFICES ASSUME rules[v].zone # "excluded"
               PROVE  FALSE
    OBVIOUS
  <2>1. Zone!Matches(rules[v].glob, path)
    BY <1>7 DEF FirstOf
  <2>2. Zone!Matches(rules[v].glob, probe)
    BY <1>1, <1>7, <2>1, NamedMatches
  <2> DEFINE S(i) == Zone!Specificity(rules[i].glob)
  <2>3. S(v) \in Nat /\ S(w) \in Nat
    BY <1>1, <1>3, <1>7, SpecificityIsNat
  <2>4. S(w) >= S(v) /\ (v < w => S(w) > S(v))
    BY <1>3, <1>7, <2>2 DEF FirstOf
  <2>5. S(v) >= S(w) /\ (w < v => S(v) > S(w))
    BY <1>3, <1>6, <1>7 DEF FirstOf
  <2> HIDE DEF S, N
  <2>6. v \in Nat /\ w \in Nat /\ v # w
    BY <1>1, <1>3, <1>4, <1>7
  <2> QED
    BY <2>3, <2>4, <2>5, <2>6
<1>9. Zone!Scored(rules[v]) # Zone!Unmatched /\ Zone!Scored(rules[v]).zone = rules[v].zone
  BY <1>1, <1>7, ScoresHold
<1> QED
  BY <1>7, <1>8, <1>9

\* One probe in each Private folder speaks for all of it, when the manifest's
\* rules take folders whole.
LEMMA ProbesSuffice ==
  ASSUME Zone!TypeOK, Zone!NotExcluded = {}, Zone!WholeFolders(manifest)
  PROVE  Zone!Shielded(manifest)
<1> SUFFICES ASSUME NEW f \in Zone!Kept
             PROVE  Zone!ResolveZone(Append(f, "note.md"), manifest) = "excluded"
  BY DEF Zone!Shielded
<1>1. PICK n \in 1 .. Len(f) : f[n] = "private" /\ SubSeq(f, 1, n) \in Zone!FindPrivateFolders
  BY KeptIsFound
<1>2. f \in Seq(Segments) /\ Len(f) \in Nat /\ n \in Nat /\ n >= 1 /\ n <= Len(f)
  BY <1>1, KeptIsFound, LenProperties
<1> DEFINE top == SubSeq(f, 1, n)
           probe == Zone!ProbeOf(top)
           path == Append(f, "note.md")
<1>3. top \in Seq(Segments) /\ Len(top) = n /\ \A i \in 1 .. n : top[i] = f[i]
  <2>1. 1 \in Int /\ n \in Int /\ \A i \in 1 .. n : f[i] \in Segments
    BY <1>2
  <2> QED
    BY <2>1, <1>2, SubSeqProperties
<1>4. Zone!ResolveZone(probe, manifest) = "excluded"
  BY <1>1 DEF Zone!NotExcluded
<1> HIDE DEF top
<1>5. /\ probe \in Seq(Segments) /\ Len(probe) = n + 1 /\ probe[n + 1] = Zone!PROBE
      /\ \A i \in 1 .. n : probe[i] = top[i]
  BY <1>3, ProbeIs
<1>6. path \in Seq(Segments) /\ Len(path) = Len(f) + 1 /\ \A i \in 1 .. Len(f) : path[i] = f[i]
  BY <1>2, NoteIs
<1> HIDE DEF probe, path
<1>7. /\ path # <<>> /\ probe # <<>> /\ n < Len(path) /\ path[n] = "private"
      /\ \A i \in 1 .. n : probe[i] = path[i]
  <2>1. Len(path) # 0 /\ Len(probe) # 0 /\ n < Len(path)
    BY <1>2, <1>5, <1>6
  <2>2. path # <<>> /\ probe # <<>>
    BY <2>1
  <2>3. path[n] = "private"
    BY <1>1, <1>6
  <2>4. \A i \in 1 .. n : probe[i] = path[i]
    <3>1. \A i \in 1 .. n : i \in 1 .. Len(f)
      BY <1>2
    <3> QED
      BY <3>1, <1>3, <1>5, <1>6
  <2> QED
    BY <2>1, <2>2, <2>3, <2>4
<1>8. probe[1] = path[1]
  BY <1>2, <1>7
<1> DEFINE m == manifest
<1>9. /\ m \in Manifests /\ m.zones["excluded"] \in Seq(Seq(Segments)) /\ m.overrides \in Seq(Rules)
  BY FoldersAre DEF Manifests, Zone!ZoneNames
<1>10. /\ \A i \in DOMAIN m.zones["excluded"] : /\ m.zones["excluded"][i] \in Seq(Segments)
                                               /\ Zone!Below(m.zones["excluded"][i])
       /\ \A i \in 1 .. Len(m.overrides) :
            /\ Zone!Below(m.overrides[i].glob)
            /\ m.overrides[i].zone # "excluded" => Zone!Named(m.overrides[i].glob)
  BY <1>9 DEF Zone!WholeFolders
<1> HIDE DEF m
<1> DEFINE over == Zone!Best(m.overrides, probe)
<1>11. \/ probe[1] \in {".ledger", ".git", ".obsidian"}
       \/ \E i \in DOMAIN m.zones["excluded"] : Zone!Matches(m.zones["excluded"][i], probe)
       \/ over # Zone!Unmatched /\ over.zone = "excluded"
  BY <1>4, <1>5, <1>7, <1>9, ExcludedBy DEF m
<1>12. \/ path[1] \in {".ledger", ".git", ".obsidian"}
       \/ \E i \in DOMAIN m.zones["excluded"] : Zone!Matches(m.zones["excluded"][i], path)
       \/ Zone!Best(m.overrides, path) # Zone!Unmatched /\ Zone!Best(m.overrides, path).zone = "excluded"
  <2>1. CASE probe[1] \in {".ledger", ".git", ".obsidian"}
    BY <2>1, <1>8
  <2>2. CASE \E i \in DOMAIN m.zones["excluded"] : Zone!Matches(m.zones["excluded"][i], probe)
    <3>1. PICK i \in DOMAIN m.zones["excluded"] : Zone!Matches(m.zones["excluded"][i], probe)
      BY <2>2
    <3> DEFINE glob == m.zones["excluded"][i]
    <3>2. glob \in Seq(Segments) /\ Zone!Below(glob) /\ Zone!Matches(glob, probe)
      BY <3>1, <1>10
    <3> HIDE DEF glob
    <3>3. /\ path \in Seq(Segments) /\ n \in Nat /\ n < Len(path)
          /\ probe \in Seq(Segments) /\ Len(probe) = n + 1 /\ probe[n + 1] = Zone!PROBE
          /\ \A j \in 1 .. n : probe[j] = path[j]
      BY <1>2, <1>5, <1>6, <1>7
    <3>4. Zone!Matches(glob, path)
      BY <3>2, <3>3, BelowMatches
    <3> QED
      BY <3>4 DEF glob
  <2>3. CASE over # Zone!Unmatched /\ over.zone = "excluded"
    BY <2>3, <1>2, <1>5, <1>6, <1>7, <1>9, <1>10, OverrideExcludes
  <2> QED
    BY <1>11, <2>1, <2>2, <2>3
<1> QED
  BY <1>6, <1>7, <1>9, <1>12, ExcludedBy DEF m, path

\* Setup writes no manifest that leaves a note of a Private folder in reach.
LEMMA SetupShields ==
  ASSUME Zone!TypeOK, Zone!Setup, manifest' # manifest
  PROVE  Zone!Shielded(manifest)'
<1>1. manifest' = Zone!ProposedManifest /\ UNCHANGED <<world, folders>>
  BY DEF Zone!Setup
<1>2. Zone!Kept' = Zone!Kept
  BY <1>1 DEF Zone!Kept
<1>3. CASE Zone!HasPrivate
  <2>1. manifest' = Proposed(PrivateExcluded)
    BY <1>1, <1>3, ProposedIs
  <2> QED
    BY <1>2, <2>1, PrivateIsShielded DEF Zone!Shielded
<1>4. CASE ~Zone!HasPrivate
  <2>1. Zone!FindPrivateFolders = {}
    BY <1>4 DEF Zone!HasPrivate, Zone!FindPrivateFolders
  <2>2. Zone!Kept = {}
    BY <2>1, KeptIsFound
  <2> QED
    BY <1>2, <2>2 DEF Zone!Shielded
<1> QED
  BY <1>3, <1>4

\* Setup proposes no manifest that leaves a note of a Private folder in the
\* agent's reach, in whatever vault (ProposedIsSafe).
THEOREM ProposedIsSafeHolds == Spec => ProposedIsSafe
<1>1. PolicyInv /\ [Next]_vars =>
        [manifest = Zone!NoManifest /\ manifest' # Zone!NoManifest => Zone!Shielded(manifest)']_(Zone!vars)
  <2> SUFFICES ASSUME PolicyInv, [Next]_vars, manifest = Zone!NoManifest, manifest' # Zone!NoManifest
               PROVE  Zone!Shielded(manifest)'
    BY Zenon
  <2>1. gate = "policy" /\ Zone!Next
    BY DEF Next, vars, policyVars
  <2>2. Zone!TypeOK
    BY <2>1 DEF PolicyInv
  <2>3. Zone!Setup
    BY <2>1 DEF Zone!Next, Zone!Doctor, Zone!MakeFolder, Zone!EditManifest
  <2> QED
    BY <2>2, <2>3, SetupShields
<1> QED
  BY <1>1, PolicyInvInit, PolicyInvStep, PTL DEF Spec, ProposedIsSafe, Zone!ProposedIsSafe

\* While the manifest is the one setup wrote and doctor has found a Private
\* folder in order.
UneditedIsShielded ==
  gate = "policy" /\ report = "all excluded" /\ edits = 0 => Zone!Shielded(manifest)

\* What doctor passes is so, although it probes one path in each folder, and
\* stays so for the folders made since as long as nobody edits the manifest
\* (CleanBillLasts).
THEOREM CleanBillLastsHolds == Spec => CleanBillLasts
<1>1. PolicyInv => UneditedIsShielded
  BY PrivateIsShielded DEF PolicyInv, UneditedIsShielded
<1>2. PolicyInv /\ [Next]_vars /\ UneditedIsShielded' =>
        [/\ report' # report /\ report' \in {"all excluded", "none present"}
              /\ Zone!WholeFolders(manifest') => Zone!Shielded(manifest)'
         /\ report' = "all excluded" /\ edits' = 0 => Zone!Shielded(manifest)']_(Zone!vars)
  <2> SUFFICES ASSUME PolicyInv, Next, UneditedIsShielded', ~ UNCHANGED policyVars
               PROVE  /\ report' # report /\ report' \in {"all excluded", "none present"}
                           /\ Zone!WholeFolders(manifest') => Zone!Shielded(manifest)'
                      /\ report' = "all excluded" /\ edits' = 0 => Zone!Shielded(manifest)'
    BY Zenon DEF vars, policyVars, Zone!vars
  <2>1. gate = "policy" /\ gate' = "policy" /\ Zone!Next
    BY DEF Next, policyVars
  <2>2. ASSUME report' # report, report' \in {"all excluded", "none present"}, Zone!WholeFolders(manifest')
        PROVE  Zone!Shielded(manifest)'
    <3>1. Zone!Doctor
      BY <2>1, <2>2, Zenon DEF Zone!Next, Zone!Setup, Zone!MakeFolder, Zone!EditManifest, Zone!NoReport
    <3>2. Zone!NotExcluded = {} /\ UNCHANGED <<world, folders, manifest>>
      BY <3>1, <2>2, Zenon DEF Zone!Doctor
    <3>3. Zone!TypeOK
      BY <2>1, Zenon DEF PolicyInv
    <3>4. Zone!Shielded(manifest)
      BY <2>2, <3>2, <3>3, ProbesSuffice, Zenon
    <3>5. Zone!Kept' = Zone!Kept
      BY <3>2, Zenon DEF Zone!Kept
    <3> QED
      BY <3>2, <3>4, <3>5, Zenon DEF Zone!Shielded
  <2> QED
    BY <2>1, <2>2, Zenon DEF UneditedIsShielded
<1> QED
  BY <1>1, <1>2, PolicyInvInit, PolicyInvStep, PTL DEF Spec, CleanBillLasts, Zone!CleanBillLasts

-----------------------------------------------------------------------------
(* applyPatch: o is the note, hs the hunks, d the search and w what the     *)
(* observer has made of it.                                                 *)

Old(h) == Diff!OldLines(h)

Line(o, i) == IF i \in 0 .. Len(o) - 1 THEN o[i + 1] ELSE "undefined"

\* The first n lines that hunk h compares are the note's, from line p on.
At(o, h, p, n) == p \in Nat /\ \A j \in 1 .. n : Line(o, p + j - 1) = Diff!Matchable(h)[j]

\* Every hunk found has its lines where it was found, and the next one as many
\* as have been compared.
Placed(o, hs, d) ==
  /\ Len(d.landed) = d.hunk - 1
  /\ \A k \in 1 .. d.hunk - 1 : At(o, hs[k], d.landed[k], Old(hs[k]))
  /\ d.hunk <= Len(hs) => /\ d.line \in 1 .. Old(hs[d.hunk]) + 1 /\ d.minLine <= d.toPos
                          /\ At(o, hs[d.hunk], d.toPos, d.line - 1)

\* Where hunk k has landed, or will if it compares nothing and the hunks before
\* it from the present one on do not either.
Known(hs, d, k) ==
  IF k < d.hunk THEN d.landed[k] ELSE hs[k].oldStart + (d.toPos - hs[d.hunk].oldStart)

\* The hunk jsdiff is at has lines left to compare.
Pending(hs, d) == d.hunk <= Len(hs) /\ d.line <= Old(hs[d.hunk])

\* The observer is at the hunk with lines left to compare, and counts its run;
\* it has passed over those that have none.
Watching(hs, d, w) ==
  /\ \A k \in 1 .. w.hunkIdx - 1 : w.landings[k] = Known(hs, d, k)
  /\ w.hunkIdx <= Len(hs) => Old(hs[w.hunkIdx]) > 0
  /\ Pending(hs, d) =>
       /\ w.hunkIdx = d.hunk /\ w.runCount = d.line - 1
       /\ w.runCount > 0 => w.runStart = d.toPos + 1
  /\ ~Pending(hs, d) =>
       /\ w.hunkIdx > d.hunk \/ w.hunkIdx = Len(hs) + 1
       /\ w.runCount = 0
       /\ \A k \in d.hunk + 1 .. w.hunkIdx - 1 : Old(hs[k]) = 0

Headed(hs, d) == \A k \in 1 .. d.hunk - 1 : d.landed[k] = hs[k].oldStart - 1

InPlace(o, h) ==
  /\ h.oldStart + Old(h) - 1 <= Len(o)
  /\ \A k \in 1 .. Old(h) : o[h.oldStart + k - 1] = Diff!Matchable(h)[k]

\* What an honest patch is: in order and in place.
Honest(o, hs) ==
  /\ \A i, j \in DOMAIN hs : i < j =>
       /\ hs[i].oldStart <= hs[j].oldStart
       /\ \A k \in 1 .. Old(hs[i]) : hs[i].oldStart + k - 1 < hs[j].oldStart
  /\ \A i \in DOMAIN hs : InPlace(o, hs[i])

\* It has been found where its headers say so far.
Trusted(o, hs, d) ==
  Honest(o, hs) => /\ Headed(hs, d)
                   /\ d.hunk <= Len(hs) => d.toPos = hs[d.hunk].oldStart - 1

Inside(o, hs) == \A i \in 1 .. Len(hs) : hs[i].oldStart + Old(hs[i]) - 1 <= Len(o)

\* While every hunk is found at its header, the result is as far as the search
\* the declared edit, and the rest of it has the later hunks put in.
Assembled(o, hs, d) ==
  LET edited == Diff!Edited(o, hs)
      rest == edited[Len(hs) + 1 - d.hunk]
  IN Inside(o, hs) /\ Headed(hs, d) =>
       d.result \o SubSeq(rest, d.minLine + 1, Len(rest)) = edited[Len(hs)]

InRow(hs) == \A i \in 1 .. Len(hs) - 1 : hs[i].oldStart + Old(hs[i]) <= hs[i + 1].oldStart

Search(o, hs, d, w) ==
  Placed(o, hs, d) /\ Watching(hs, d, w) /\ Trusted(o, hs, d) /\ Assembled(o, hs, d)

\* What the search has found when it is over.
Found(o, hs, d, w) ==
  /\ d.hunk = Len(hs) + 1 /\ Placed(o, hs, d) /\ Trusted(o, hs, d)
  /\ w.landings = d.landed
  /\ Inside(o, hs) /\ Headed(hs, d) => d.result = Diff!Edited(o, hs)[Len(hs)]

Start(o, hs, d, w) ==
  /\ d.hunk = 1 /\ d.line = 1 /\ d.minLine = 0 /\ d.landed = <<>> /\ d.result = <<>>

\* What holds at each stage r of a patch.
Staged(o, hs, d, w, r) ==
  /\ r = "guard" => Start(o, hs, d, w)
  /\ r \in {"search", "landing", "applied"} => InRow(hs)
  /\ r = "search" => Search(o, hs, d, w)
  /\ r \in {"landing", "applied"} => Found(o, hs, d, w)
  /\ r = "applied" => \A i \in 1 .. Len(hs) : d.landed[i] = hs[i].oldStart - 1
  /\ r = "SYNTAX_BREAK" => ~Honest(o, hs)

PatchInv == gate = "patch" => Diff!TypeOK /\ Staged(original, hunks, jsdiff, watch, outcome)

Lines == Texts \cup {NewText, "undefined"}

\* The values of jsdiff and watch.
Searches(hs) ==
  [hunk : 1 .. Len(hs) + 1, toPos : Int, line : Nat, tried : SUBSET Int,
   minLine : Nat, offset : Int, landed : Seq(Int), result : Seq(Lines)]
Watches(hs) ==
  [hunkIdx : 1 .. Len(hs) + 1, runCount : Nat, runStart : Int, landings : [1 .. Len(hs) -> Int]]

LEMMA PatchTyped ==
  Diff!TypeOK <=>
    /\ original \in Seq(Texts)
    /\ hunks \in Seq({h \in Diff!Hunks : Diff!InNote(h, original)}) /\ hunks # <<>>
    /\ jsdiff \in Searches(hunks) /\ watch \in Watches(hunks)
    /\ outcome \in {"guard", "search", "landing", "applied", "SYNTAX_BREAK", "PATCH_TOO_LARGE"}
<1>1. hunks \in Seq({h \in Diff!Hunks : Diff!InNote(h, original)}) => DOMAIN hunks = 1 .. Len(hunks)
  OBVIOUS
<1> QED
  BY <1>1, Zenon DEF Diff!TypeOK, Searches, Watches, Lines

\* One line more of what a hunk says.
SaidNext(h, markers, i, s) ==
  IF Diff!Op(h.lines[i]) \in markers THEN Append(s, Diff!Content(h.lines[i])) ELSE s

(* What a hunk says is text.                                               *)
LEMMA SaidIsText ==
  ASSUME NEW h, NEW markers, NEW V, h.lines \in Seq(Diff!HunkLine),
         \A l \in Diff!HunkLine : Diff!Op(l) \in markers => Diff!Content(l) \in V
  PROVE  Diff!Said(h, markers) \in Seq(V)
<1> DEFINE N == Len(h.lines)
           Next1(i, s) == SaidNext(h, markers, i, s)
           Step == [p \in (1 .. N) \X Seq(V) |-> Next1(p[1], p[2])]
           Said(f) == f = [i \in 0 .. N |-> IF i = 0 THEN <<>> ELSE SaidNext(h, markers, i, f[i - 1])]
           said == CHOOSE f : Said(f)
<1>1. N \in Nat /\ \A i \in 1 .. N : h.lines[i] \in Diff!HunkLine
  OBVIOUS
<1>2. \A i \in 1 .. N, s \in Seq(V) : Next1(i, s) \in Seq(V)
  BY <1>1 DEF SaidNext
<1> HIDE DEF N, Next1
<1>3. Step \in [(1 .. N) \X Seq(V) -> Seq(V)] /\ \A i \in 1 .. N, s \in Seq(V) : Step[<<i, s>>] = Next1(i, s)
  BY <1>2
<1> HIDE DEF Step
<1>4. <<>> \in Seq(V)
  OBVIOUS
<1>5. PICK f \in [0 .. N -> Seq(V)] : Iterates(f, <<>>, N, Step)
  BY <1>1, <1>3, <1>4, PrimitiveRecursion
<1>6. f[0] = <<>> /\ \A i \in 1 .. N : f[i] = Next1(i, f[i - 1])
  <2>1. f[0] = <<>> /\ \A i \in 1 .. N : f[i] = Step[<<i, f[i - 1]>>]
    BY <1>5, Zenon DEF Iterates
  <2>2. \A i \in 1 .. N : i - 1 \in 0 .. N
    BY <1>1
  <2> QED
    BY <2>1, <2>2, <1>3, <1>5
<1>7. Said(f)
  <2> DEFINE E == [i \in 0 .. N |-> IF i = 0 THEN <<>> ELSE SaidNext(h, markers, i, f[i - 1])]
  <2>1. \A i \in 0 .. N : f[i] = E[i]
    BY <1>1, <1>6 DEF Next1
  <2>2. f = [i \in 0 .. N |-> f[i]]
    BY <1>5
  <2>3. f = E
    BY <2>1, <2>2
  <2> QED
    BY <2>3
<1>8. Said(said)
  <2> HIDE DEF Said
  <2> QED
    BY <1>7
<1>9. Diff!Said(h, markers) = said[N]
  BY Zenon DEF Diff!Said, N, SaidNext
<1> HIDE DEF said
<1>10. said[0] = <<>> /\ \A i \in 1 .. N : said[i] = Next1(i, said[i - 1])
  BY <1>1, <1>8 DEF Next1
<1> HIDE DEF Said
<1> DEFINE T == {n \in 0 .. N : said[n] \notin Seq(V)}
<1>11. ASSUME T # {}
       PROVE  FALSE
  <2>1. T \in SUBSET Nat
    BY <1>1
  <2>2. PICK n \in T : \A k \in T : n <= k
    BY <2>1, <1>11, LeastNumber
  <2>3. n \in 1 .. N
    <3>1. n \in 0 .. N /\ said[n] \notin Seq(V)
      BY <2>2
    <3>2. n # 0
      BY <3>1, <1>4, <1>10
    <3> QED
      BY <3>1, <3>2, <1>1
  <2>4. n - 1 \in 0 .. N /\ ~(n <= n - 1)
    BY <2>3, <1>1
  <2>5. said[n - 1] \in Seq(V)
    BY <2>2, <2>4
  <2> QED
    BY <2>2, <2>3, <2>5, <1>2, <1>10
<1>12. N \in 0 .. N
  BY <1>1
<1> QED
  BY <1>9, <1>11, <1>12

LEMMA HunkIs ==
  ASSUME NEW h \in Diff!Hunks
  PROVE  /\ h.oldStart \in Nat /\ h.oldStart >= 1
         /\ Diff!Matchable(h) \in Seq(Texts)
         /\ Old(h) = Len(Diff!Matchable(h)) /\ Old(h) \in Nat
         /\ Diff!NewLines(h) \in Seq(Lines)
<1>1. MaxLines \in Nat /\ MaxHunkLines \in Nat
  BY Parameters DEF Diff!PatchAssumption
<1>2. h.oldStart \in 1 .. MaxLines /\ h.lines \in Diff!BoundedSeq(Diff!HunkLine, MaxHunkLines)
  BY DEF Diff!Hunks
<1>3. h.lines \in Seq(Diff!HunkLine)
  BY <1>1, <1>2 DEF Diff!BoundedSeq, Diff!SeqOf
<1>4. /\ \A l \in Diff!HunkLine : Diff!Op(l) \in {"-", " "} => Diff!Content(l) \in Texts
      /\ \A l \in Diff!HunkLine : Diff!Op(l) \in {"+", " "} => Diff!Content(l) \in Lines
  BY DEF Diff!HunkLine, Diff!Op, Diff!Content, Lines
<1>5. Diff!Matchable(h) \in Seq(Texts) /\ Diff!NewLines(h) \in Seq(Lines)
  BY <1>3, <1>4, SaidIsText DEF Diff!Matchable, Diff!NewLines
<1> QED
  BY <1>1, <1>2, <1>5, LenProperties DEF Old, Diff!OldLines

-----------------------------------------------------------------------------
(* What the observer makes of a comparison.                                *)

\* Hunks that compare nothing are passed over, and land where the offset of the
\* one before puts them.
LEMMA EmptyHunksSkipped ==
  ASSUME NEW S, hunks \in Seq(S), S \subseteq Diff!Hunks,
         NEW idx \in 1 .. Len(hunks) + 1, NEW landings \in [1 .. Len(hunks) -> Int]
  PROVE  LET r == Diff!SkipEmptyHunks(idx, landings)
             offset == IF idx = 1 \/ landings[idx - 1] = Diff!Unreached THEN 0
                       ELSE landings[idx - 1] + 1 - hunks[idx - 1].oldStart
         IN /\ r \in Watches(hunks) /\ r.hunkIdx >= idx /\ r.runCount = 0
            /\ r.hunkIdx <= Len(hunks) => Old(hunks[r.hunkIdx]) > 0
            /\ \A k \in idx .. r.hunkIdx - 1 :
                 Old(hunks[k]) = 0 /\ r.landings[k] = hunks[k].oldStart + offset - 1
            /\ \A k \in 1 .. idx - 1 : r.landings[k] = landings[k]
<1> DEFINE H == Len(hunks)
           offset == IF idx = 1 \/ landings[idx - 1] = Diff!Unreached THEN 0
                     ELSE landings[idx - 1] + 1 - hunks[idx - 1].oldStart
           Stops == {i \in idx .. (H + 1) : i > H \/ Diff!OldLines(hunks[i]) > 0}
           stop == Diff!Min(Stops)
           landed == [i \in DOMAIN landings |->
                        IF i \in idx .. (stop - 1) THEN hunks[i].oldStart + offset - 1 ELSE landings[i]]
           r == Diff!SkipEmptyHunks(idx, landings)
<1>1. H \in Nat /\ \A i \in 1 .. H : hunks[i] \in Diff!Hunks
  OBVIOUS
<1>2. \A i \in 1 .. H : /\ hunks[i].oldStart \in Int /\ Diff!OldLines(hunks[i]) \in Nat
                        /\ Old(hunks[i]) = Diff!OldLines(hunks[i])
  BY <1>1, HunkIs DEF Old
<1>3. r = [hunkIdx |-> stop, runCount |-> 0, runStart |-> 0, landings |-> landed]
  BY DEF Diff!SkipEmptyHunks
<1> HIDE DEF H, r
<1>4. offset \in Int
  <2>1. CASE idx = 1 \/ landings[idx - 1] = Diff!Unreached
    BY <2>1
  <2>2. CASE ~(idx = 1 \/ landings[idx - 1] = Diff!Unreached)
    <3>1. idx - 1 \in 1 .. H
      BY <2>2, <1>1 DEF H
    <3>2. landings[idx - 1] \in Int /\ hunks[idx - 1].oldStart \in Int
      BY <3>1, <1>2 DEF H
    <3>3. landings[idx - 1] + 1 - hunks[idx - 1].oldStart \in Int
      BY <3>2
    <3> QED
      BY <3>3, <2>2
  <2> QED
    BY <2>1, <2>2
<1> HIDE DEF offset
<1>5. stop \in Stops /\ \A i \in Stops : stop <= i
  <2>1. Stops \in SUBSET Nat /\ H + 1 \in Stops
    BY <1>1 DEF H
  <2>2. \E n \in Stops : \A k \in Stops : n <= k
    BY <2>1, LeastNumber
  <2> HIDE DEF Stops
  <2> QED
    BY <2>2 DEF Diff!Min
<1> HIDE DEF stop
<1>6. stop \in 1 .. H + 1 /\ stop >= idx /\ stop \in Int
  BY <1>1, <1>5 DEF H
<1>7. stop <= H => Diff!OldLines(hunks[stop]) > 0
  BY <1>1, <1>5, <1>6
<1>8. \A k \in idx .. stop - 1 : k \in 1 .. H /\ Diff!OldLines(hunks[k]) = 0
  <2> TAKE k \in idx .. stop - 1
  <2>1. k \in 1 .. H /\ k \in idx .. H + 1 /\ ~(stop <= k)
    BY <1>1, <1>6 DEF H
  <2>2. k \notin Stops
    BY <2>1, <1>5
  <2>3. ~(Diff!OldLines(hunks[k]) > 0)
    BY <2>1, <2>2
  <2> QED
    BY <2>1, <2>3, <1>2
<1>9. landed \in [1 .. H -> Int]
  <2>1. DOMAIN landings = 1 .. H
    BY DEF H
  <2>2. \A i \in 1 .. H : landings[i] \in Int /\ hunks[i].oldStart + offset - 1 \in Int
    BY <1>2, <1>4 DEF H
  <2> QED
    BY <2>1, <2>2
<1>10. /\ \A k \in idx .. stop - 1 : landed[k] = hunks[k].oldStart + offset - 1
       /\ \A k \in 1 .. idx - 1 : landed[k] = landings[k]
  <2>1. DOMAIN landings = 1 .. H /\ idx \in 1 .. H + 1
    BY DEF H
  <2>2. \A k \in 1 .. idx - 1 : k \in 1 .. H /\ k \notin idx .. stop - 1
    BY <2>1, <1>1, <1>6
  <2> QED
    BY <2>1, <2>2, <1>8
<1> HIDE DEF landed
<1>11. /\ r.hunkIdx = stop /\ r.runCount = 0 /\ r.landings = landed
       /\ r \in [hunkIdx : 1 .. H + 1, runCount : Nat, runStart : Int, landings : [1 .. H -> Int]]
  BY <1>3, <1>6, <1>9
<1>12. /\ r \in Watches(hunks) /\ r.hunkIdx >= idx /\ r.runCount = 0
       /\ r.hunkIdx <= Len(hunks) => Old(hunks[r.hunkIdx]) > 0
       /\ \A k \in idx .. r.hunkIdx - 1 :
            Old(hunks[k]) = 0 /\ r.landings[k] = hunks[k].oldStart + offset - 1
       /\ \A k \in 1 .. idx - 1 : r.landings[k] = landings[k]
  <2>1. r \in Watches(hunks)
    BY <1>11 DEF Watches, H
  <2>2. r.hunkIdx <= Len(hunks) => Old(hunks[r.hunkIdx]) > 0
    BY <1>2, <1>6, <1>7, <1>11 DEF H
  <2>3. \A k \in idx .. r.hunkIdx - 1 : Old(hunks[k]) = 0
    BY <1>2, <1>8, <1>11
  <2> QED
    BY <2>1, <2>2, <2>3, <1>6, <1>10, <1>11
<1> QED
  BY <1>12 DEF r, offset

\* What a hunk's place says of it.
LEMMA Watched ==
  ASSUME NEW hs, Len(hs) \in Nat, NEW d \in Searches(hs), NEW w \in Watches(hs), Watching(hs, d, w), Pending(hs, d)
  PROVE  /\ w.hunkIdx = d.hunk /\ d.hunk \in 1 .. Len(hs) /\ w.runCount = d.line - 1
         /\ w.runCount > 0 => w.runStart = d.toPos + 1
         /\ \A k \in 1 .. d.hunk - 1 : w.landings[k] = d.landed[k]
<1>1. d.hunk \in 1 .. Len(hs) + 1 /\ w.hunkIdx = d.hunk /\ d.hunk <= Len(hs)
  BY DEF Searches, Watching, Pending
<1>2. \A k \in 1 .. d.hunk - 1 : k < d.hunk
  BY <1>1
<1> QED
  BY <1>1, <1>2 DEF Watching, Known

LEMMA ObservedMatch ==
  ASSUME NEW S, hunks \in Seq(S), S \subseteq Diff!Hunks,
         NEW d \in Searches(hunks), watch \in Watches(hunks), Watching(hunks, d, watch), Pending(hunks, d),
         d.line >= 1, d.toPos >= 0, NEW number, number = d.toPos + d.line,
         NEW e \in Searches(hunks), e.hunk = d.hunk, e.line = d.line + 1, e.toPos = d.toPos, e.landed = d.landed
  PROVE  LET v == Diff!CompareLine(number, TRUE) IN
         v \in Watches(hunks) /\ Watching(hunks, e, v)
<1> DEFINE h == d.hunk
           H == Len(hunks)
           start == IF watch.runCount = 0 THEN number ELSE watch.runStart
           v == Diff!CompareLine(number, TRUE)
<1>1. /\ H \in Nat /\ h \in 1 .. H /\ watch.hunkIdx = h /\ watch.runCount = d.line - 1
      /\ watch.runCount > 0 => watch.runStart = d.toPos + 1
      /\ \A k \in 1 .. h - 1 : watch.landings[k] = d.landed[k]
  BY Watched, LenProperties
<1>2. /\ d.line \in Nat /\ d.toPos \in Int /\ watch.runCount \in Nat /\ watch.landings \in [1 .. H -> Int]
  BY DEF Searches, Watches
<1>3. hunks[h] \in Diff!Hunks /\ Old(hunks[h]) \in Nat /\ d.line <= Old(hunks[h])
  <2>1. hunks[h] \in Diff!Hunks
    BY <1>1
  <2> QED
    BY <2>1, HunkIs DEF Pending
<1>4. start = d.toPos + 1
  BY <1>1, <1>2
<1> HIDE DEF start, H
<1>5. v = IF watch.runCount + 1 = Old(hunks[h])
          THEN Diff!SkipEmptyHunks(h + 1, [watch.landings EXCEPT ![h] = start - 1])
          ELSE [watch EXCEPT !.runCount = @ + 1, !.runStart = start]
  <2>1. ~(watch.hunkIdx > Len(hunks))
    BY <1>1 DEF H
  <2> QED
    BY <2>1, <1>1 DEF Diff!CompareLine, Old, start
<1> HIDE DEF v
<1>6. CASE d.line = Old(hunks[h])
  <2> DEFINE ls == [watch.landings EXCEPT ![h] = start - 1]
  <2>1. v = Diff!SkipEmptyHunks(h + 1, ls)
    BY <1>1, <1>2, <1>5, <1>6
  <2>2. ls \in [1 .. H -> Int] /\ ls[h] = d.toPos /\ \A k \in 1 .. h - 1 : ls[k] = d.landed[k]
    <3>1. start - 1 = d.toPos
      BY <1>2, <1>4
    <3>2. \A k \in 1 .. h - 1 : k \in 1 .. H /\ k # h
      BY <1>1
    <3>3. ls = [watch.landings EXCEPT ![h] = d.toPos]
      BY <3>1
    <3> HIDE DEF ls, h
    <3> QED
      BY <3>2, <3>3, <1>1, <1>2
  <2> HIDE DEF ls
  <2>3. h + 1 \in 1 .. Len(hunks) + 1 /\ ls \in [1 .. Len(hunks) -> Int] /\ h + 1 # 1 /\ (h + 1) - 1 = h
    BY <1>1, <2>2 DEF H
  <2>4. ls[h] # Diff!Unreached
    BY <2>2, <1>2 DEF Diff!Unreached
  <2>5. /\ v \in Watches(hunks) /\ v.hunkIdx >= h + 1 /\ v.runCount = 0
        /\ v.hunkIdx <= Len(hunks) => Old(hunks[v.hunkIdx]) > 0
        /\ \A k \in h + 1 .. v.hunkIdx - 1 :
             Old(hunks[k]) = 0 /\ v.landings[k] = hunks[k].oldStart + (ls[h] + 1 - hunks[h].oldStart) - 1
        /\ \A k \in 1 .. h : v.landings[k] = ls[k]
    <3> DEFINE i == h + 1
               offset == IF i = 1 \/ ls[i - 1] = Diff!Unreached THEN 0
                         ELSE ls[i - 1] + 1 - hunks[i - 1].oldStart
               r == Diff!SkipEmptyHunks(i, ls)
    <3>1. i \in 1 .. Len(hunks) + 1 /\ ls \in [1 .. Len(hunks) -> Int] /\ i # 1 /\ i - 1 = h
      BY <2>3
    <3>2. r = v
      BY <2>1
    <3> HIDE DEF i
    <3>3. offset = ls[h] + 1 - hunks[h].oldStart
      BY <3>1, <2>4
    <3>4. /\ r \in Watches(hunks) /\ r.hunkIdx >= i /\ r.runCount = 0
          /\ r.hunkIdx <= Len(hunks) => Old(hunks[r.hunkIdx]) > 0
          /\ \A k \in i .. r.hunkIdx - 1 :
               Old(hunks[k]) = 0 /\ r.landings[k] = hunks[k].oldStart + offset - 1
          /\ \A k \in 1 .. i - 1 : r.landings[k] = ls[k]
      BY <3>1, EmptyHunksSkipped
    <3> HIDE DEF offset, r
    <3> QED
      BY <3>1, <3>2, <3>3, <3>4 DEF i
  <2>6. ~Pending(hunks, e)
    BY <1>3, <1>6 DEF Pending
  <2>7. \A k \in 1 .. v.hunkIdx - 1 : v.landings[k] = Known(hunks, e, k)
    <3> SUFFICES ASSUME NEW k \in 1 .. v.hunkIdx - 1
                 PROVE  v.landings[k] = Known(hunks, e, k)
      OBVIOUS
    <3>1. v.hunkIdx \in 1 .. H + 1
      BY <2>5 DEF Watches, H
    <3>2. k \in 1 .. H /\ h \in Nat
      BY <3>1, <1>1
    <3>3. hunks[k].oldStart \in Int /\ hunks[h].oldStart \in Int
      <4>1. hunks[k] \in Diff!Hunks
        BY <3>2 DEF H
      <4>2. hunks[k].oldStart \in Int
        BY <4>1, HunkIs
      <4>3. hunks[h].oldStart \in Int
        BY <1>3, HunkIs
      <4> QED
        BY <4>2, <4>3
    <3>4. CASE k < h
      <4>1. k \in 1 .. h - 1 /\ k \in 1 .. h
        BY <3>2, <3>4
      <4> QED
        BY <4>1, <2>2, <2>5, <3>4 DEF Known
    <3>5. CASE k = h
      <4>1. v.landings[k] = d.toPos
        <5>1. h \in 1 .. h
          BY <3>2, <1>1
        <5>2. v.landings[h] = ls[h]
          BY <5>1, <2>5
        <5> QED
          BY <5>2, <2>2, <3>5
      <4> QED
        BY <4>1, <3>2, <3>3, <3>5, <1>2 DEF Known
    <3>6. CASE k > h
      <4>1. k \in h + 1 .. v.hunkIdx - 1
        BY <3>1, <3>2, <3>6
      <4>2. v.landings[k] = hunks[k].oldStart + (d.toPos + 1 - hunks[h].oldStart) - 1
        BY <4>1, <2>2, <2>5
      <4> DEFINE a == hunks[k].oldStart
                 b == hunks[h].oldStart
                 p == d.toPos
      <4>3. a \in Int /\ b \in Int /\ p \in Int /\ ~(k < h + 1)
        BY <3>2, <3>3, <3>6, <1>2
      <4>4. Known(hunks, e, k) = a + (p - b)
        BY <4>3, <3>2, <3>6 DEF Known
      <4> HIDE DEF a, b, p
      <4>5. a + (p + 1 - b) - 1 = a + (p - b)
        BY <4>3
      <4> QED
        BY <4>2, <4>4, <4>5 DEF a, b, p
    <3> QED
      BY <3>2, <3>4, <3>5, <3>6
  <2>8. v.hunkIdx > h
    BY <2>5, <1>1 DEF Watches
  <2> QED
    BY <2>5, <2>6, <2>7, <2>8 DEF Watching, v
<1>7. CASE d.line # Old(hunks[h])
  <2>1. v = [watch EXCEPT !.runCount = @ + 1, !.runStart = start]
    BY <1>1, <1>2, <1>5, <1>7
  <2>2. /\ v \in Watches(hunks) /\ v.runCount = d.line /\ v.runStart = start
        /\ v.hunkIdx = h /\ v.landings = watch.landings
    <3>1. start \in Int /\ watch.runCount + 1 \in Nat /\ watch.runCount + 1 = d.line
      BY <1>1, <1>2, <1>4
    <3> QED
      BY <2>1, <3>1, <1>1 DEF Watches
  <2>3. Pending(hunks, e)
    BY <1>1, <1>2, <1>3, <1>7 DEF Pending, H
  <2>4. \A k \in 1 .. h - 1 : k < h
    BY <1>1
  <2>5. Old(hunks[h]) > 0
    BY <1>2, <1>3
  <2>6. v.runCount = e.line - 1
    BY <2>2, <1>2
  <2>7. \A k \in 1 .. v.hunkIdx - 1 : v.landings[k] = Known(hunks, e, k)
    BY <2>2, <2>4, <1>1 DEF Known
  <2>8. v.runCount > 0 => v.runStart = e.toPos + 1
    BY <2>2, <1>4
  <2>9. Watching(hunks, e, v)
    BY <2>2, <2>3, <2>5, <2>6, <2>7, <2>8 DEF Watching
  <2> QED
    BY <2>2, <2>9 DEF v
<1> QED
  BY <1>6, <1>7 DEF v

LEMMA ObservedMismatch ==
  ASSUME NEW S, hunks \in Seq(S), S \subseteq Diff!Hunks,
         NEW d \in Searches(hunks), watch \in Watches(hunks), Watching(hunks, d, watch), Pending(hunks, d),
         d.line >= 1, NEW number,
         NEW e \in Searches(hunks), e.hunk = d.hunk, e.line = 1, e.landed = d.landed
  PROVE  LET v == Diff!CompareLine(number, FALSE) IN
         v \in Watches(hunks) /\ Watching(hunks, e, v)
<1> DEFINE h == d.hunk
           H == Len(hunks)
           v == Diff!CompareLine(number, FALSE)
<1>1. /\ H \in Nat /\ h \in 1 .. H /\ watch.hunkIdx = h
      /\ \A k \in 1 .. h - 1 : watch.landings[k] = d.landed[k]
  BY Watched, LenProperties
<1>2. d.line \in Nat /\ Old(hunks[h]) \in Nat /\ d.line <= Old(hunks[h])
  <2>1. hunks[h] \in Diff!Hunks
    BY <1>1
  <2> QED
    BY <2>1, HunkIs DEF Pending, Searches
<1>3. v = [watch EXCEPT !.runCount = 0, !.runStart = 0]
  <2>1. ~(watch.hunkIdx > Len(hunks))
    BY <1>1
  <2> QED
    BY <2>1 DEF Diff!CompareLine
<1> HIDE DEF v, H
<1>4. /\ v \in Watches(hunks) /\ v.runCount = 0 /\ v.hunkIdx = h /\ v.landings = watch.landings
  <2>1. 0 \in Nat /\ 0 \in Int
    OBVIOUS
  <2>2. v \in Watches(hunks) /\ v.runCount = 0 /\ v.hunkIdx = watch.hunkIdx /\ v.landings = watch.landings
    BY <1>3, <2>1 DEF Watches
  <2> QED
    BY <2>2, <1>1
<1>5. Pending(hunks, e) /\ Old(hunks[h]) > 0
  BY <1>1, <1>2 DEF Pending, H
<1>6. \A k \in 1 .. h - 1 : k < h
  BY <1>1
<1>7. \A k \in 1 .. v.hunkIdx - 1 : v.landings[k] = Known(hunks, e, k)
  BY <1>1, <1>4, <1>6 DEF Known
<1>8. v.runCount = e.line - 1 /\ ~(v.runCount > 0)
  BY <1>4
<1>9. Watching(hunks, e, v)
  BY <1>4, <1>5, <1>7, <1>8 DEF Watching
<1> QED
  BY <1>4, <1>9 DEF v

-----------------------------------------------------------------------------
(* The declared edit.                                                      *)

\* The lines from the m-th on, of two sequences on end.
LEMMA SuffixOfConcat ==
  ASSUME NEW S, NEW a \in Seq(S), NEW b \in Seq(S), NEW m \in 0 .. Len(a)
  PROVE  /\ SubSeq(a \o b, m + 1, Len(a \o b)) = SubSeq(a, m + 1, Len(a)) \o b
         /\ SubSeq(a, m + 1, Len(a)) \in Seq(S)
<1> DEFINE A == Len(a)
           B == Len(b)
           c == a \o b
           u == SubSeq(c, m + 1, Len(c))
           s == SubSeq(a, m + 1, A)
           v == s \o b
<1>1. A \in Nat /\ B \in Nat /\ m \in Nat /\ m <= A
  BY LenProperties
<1>2. /\ c \in Seq(S) /\ Len(c) = A + B
      /\ \A i \in 1 .. A + B : c[i] = IF i <= A THEN a[i] ELSE b[i - A]
  BY ConcatProperties
<1>3. /\ \A i \in 1 .. A : a[i] \in S
      /\ \A i \in 1 .. A + B : c[i] \in S
  BY <1>2, ElementOfSeq
<1> HIDE DEF A, B, c
<1>4. /\ u \in Seq(S) /\ Len(u) = A + B - m
      /\ \A i \in 1 .. A + B - m : u[i] = c[m + i]
  <2>1. m + 1 \in Int /\ Len(c) \in Int /\ \A i \in m + 1 .. Len(c) : c[i] \in S
    BY <1>1, <1>2, <1>3
  <2>2. /\ u \in Seq(S) /\ Len(u) = IF m + 1 <= Len(c) THEN Len(c) - (m + 1) + 1 ELSE 0
        /\ \A i \in 1 .. Len(c) - (m + 1) + 1 : u[i] = c[m + 1 + i - 1]
    BY <2>1, SubSeqProperties
  <2> DEFINE n == Len(c)
  <2>3. u \in Seq(S) /\ Len(u) = IF m + 1 <= n THEN n - (m + 1) + 1 ELSE 0
    BY <2>2
  <2>4. \A i \in 1 .. n - (m + 1) + 1 : u[i] = c[m + 1 + i - 1]
    BY <2>2
  <2>5. n = A + B
    BY <1>2
  <2> HIDE DEF u, n
  <2>6. Len(u) = A + B - m /\ n - (m + 1) + 1 = A + B - m
    BY <2>3, <2>5, <1>1
  <2>7. \A i \in 1 .. A + B - m : u[i] = c[m + i]
    <3> TAKE i \in 1 .. A + B - m
    <3>1. i \in 1 .. n - (m + 1) + 1 /\ m + 1 + i - 1 = m + i
      BY <2>6, <1>1
    <3> QED
      BY <3>1, <2>4
  <2> QED
    BY <2>3, <2>6, <2>7
<1>5. /\ s \in Seq(S) /\ Len(s) = A - m
      /\ \A i \in 1 .. A - m : s[i] = a[m + i]
  <2>1. m + 1 \in Int /\ A \in Int /\ \A i \in m + 1 .. A : a[i] \in S
    BY <1>1, <1>3
  <2>2. /\ s \in Seq(S) /\ Len(s) = IF m + 1 <= A THEN A - (m + 1) + 1 ELSE 0
        /\ \A i \in 1 .. A - (m + 1) + 1 : s[i] = a[m + 1 + i - 1]
    BY <2>1, SubSeqProperties
  <2> HIDE DEF s
  <2> QED
    BY <2>2, <1>1
<1> HIDE DEF s, u
<1>6. /\ v \in Seq(S) /\ Len(v) = A - m + B
      /\ \A i \in 1 .. A - m + B : v[i] = IF i <= A - m THEN s[i] ELSE b[i - (A - m)]
  <2>1. /\ v \in Seq(S) /\ Len(v) = Len(s) + Len(b)
        /\ \A i \in 1 .. Len(s) + Len(b) : v[i] = IF i <= Len(s) THEN s[i] ELSE b[i - Len(s)]
    BY <1>5, ConcatProperties
  <2> HIDE DEF v
  <2> QED
    BY <2>1, <1>5 DEF B
<1> HIDE DEF v
<1>7. \A i \in 1 .. Len(u) : u[i] = v[i]
  <2> SUFFICES ASSUME NEW i \in 1 .. A + B - m
               PROVE  u[i] = v[i]
    BY <1>4
  <2>1. m + i \in 1 .. A + B /\ i \in 1 .. A - m + B
    BY <1>1
  <2>2. u[i] = c[m + i]
    BY <1>4
  <2>3. CASE i <= A - m
    BY <2>1, <2>2, <2>3, <1>1, <1>2, <1>5, <1>6
  <2>4. CASE ~(i <= A - m)
    <3>1. ~(m + i <= A) /\ m + i - A = i - (A - m)
      BY <2>4, <1>1
    <3>2. c[m + i] = b[m + i - A]
      <4>1. PICK k \in 1 .. A + B : k = m + i
        BY <2>1
      <4>2. c[k] = b[k - A]
        BY <4>1, <3>1, <1>2
      <4>3. k - A = m + i - A
        BY <4>1, <1>1
      <4> QED
        BY <4>1, <4>2, <4>3
    <3>3. v[i] = b[i - (A - m)]
      BY <2>1, <2>4, <1>6
    <3> QED
      BY <2>2, <3>1, <3>2, <3>3
  <2> QED
    BY <2>3, <2>4
<1>8. Len(u) = Len(v)
  BY <1>1, <1>4, <1>6
<1>9. u = v
  BY <1>4, <1>6, <1>7, <1>8, SeqEqual
<1> QED
  BY <1>5, <1>9 DEF A, B, c, u, s, v

\* What is copied between two hunks, where x is the note as far as that.
LEMMA CopiedIs ==
  ASSUME original \in Seq(Texts), NEW m \in Nat, NEW n \in Nat, m <= n, n <= Len(original),
         NEW x \in Seq(Lines), Len(x) = n, \A j \in 1 .. n : x[j] = original[j]
  PROVE  Diff!Copied(m, n) = SubSeq(x, m + 1, Len(x)) /\ Diff!Copied(m, n) \in Seq(Lines)
<1> DEFINE s == SubSeq(x, m + 1, n)
           c == Diff!Copied(m, n)
<1>1. m + 1 \in Int /\ n \in Int /\ \A i \in m + 1 .. n : x[i] \in Lines
  BY ElementOfSeq
<1>2. /\ s \in Seq(Lines) /\ Len(s) = IF m + 1 <= n THEN n - (m + 1) + 1 ELSE 0
      /\ \A i \in 1 .. n - (m + 1) + 1 : s[i] = x[m + 1 + i - 1]
  BY <1>1, SubSeqProperties
<1> HIDE DEF s
<1>3. Len(s) = n - m /\ \A i \in 1 .. n - m : s[i] = x[m + i]
  <2>1. Len(s) = n - m
    BY <1>2
  <2>2. ASSUME NEW i \in 1 .. n - m
        PROVE  s[i] = x[m + i]
    <3>1. i \in 1 .. n - (m + 1) + 1 /\ m + 1 + i - 1 = m + i
      OBVIOUS
    <3> QED
      BY <3>1, <1>2
  <2> QED
    BY <2>1, <2>2
<1>4. c = [k \in 1 .. (n - m) |-> Diff!LineAt(m + k - 1)]
  BY DEF Diff!Copied
<1>5. Len(original) \in Nat
  BY LenProperties
<1>6. \A k \in 1 .. (n - m) : Diff!LineAt(m + k - 1) = x[m + k]
  <2> TAKE k \in 1 .. (n - m)
  <2>1. m + k \in 1 .. n /\ m + k - 1 \in 0 .. Len(original) - 1 /\ (m + k - 1) + 1 = m + k
    BY <1>5
  <2>2. Diff!LineAt(m + k - 1) = original[m + k]
    BY <2>1 DEF Diff!LineAt
  <2> QED
    BY <2>1, <2>2
<1>7. s = [k \in 1 .. (n - m) |-> s[k]]
  <2>1. DOMAIN s = 1 .. Len(s)
    BY <1>2
  <2> QED
    BY <1>2, <1>3, <2>1
<1> HIDE DEF c
<1>8. c = s
  BY <1>3, <1>4, <1>6, <1>7
<1> QED
  BY <1>2, <1>8 DEF c, s

LEMMA LineIs ==
  ASSUME NEW i
  PROVE  Diff!LineAt(i) = Line(original, i)
BY DEF Diff!LineAt, Line

\* A note with the hunks after the n last ones still to be put in, where it is
\* as it was.
Stage(o, hs, n, x) ==
  /\ x \in Seq(Lines)
  /\ n < Len(hs) =>
       LET end == hs[Len(hs) - n].oldStart + Old(hs[Len(hs) - n]) - 1
       IN end <= Len(x) /\ \A j \in 1 .. end : x[j] = o[j]

LEMMA SplicedIs ==
  ASSUME NEW h \in Diff!Hunks, NEW x \in Seq(Lines), h.oldStart + Old(h) - 1 <= Len(x)
  PROVE  LET a == SubSeq(x, 1, h.oldStart - 1)
             c == SubSeq(x, h.oldStart + Old(h), Len(x))
         IN /\ Diff!Spliced(x, h) = (a \o Diff!NewLines(h)) \o c /\ Diff!Spliced(x, h) \in Seq(Lines)
            /\ a \in Seq(Lines) /\ Len(a) = h.oldStart - 1 /\ \A j \in 1 .. h.oldStart - 1 : a[j] = x[j]
            /\ c \in Seq(Lines)
            /\ Len(Diff!Spliced(x, h)) >= h.oldStart - 1
            /\ \A j \in 1 .. h.oldStart - 1 : Diff!Spliced(x, h)[j] = x[j]
<1> DEFINE s == h.oldStart
           q == Old(h)
           X == Len(x)
           N == Diff!NewLines(h)
           a == SubSeq(x, 1, s - 1)
           c == SubSeq(x, s + q, X)
           y == Diff!Spliced(x, h)
<1>1. s \in Nat /\ s >= 1 /\ q \in Nat /\ X \in Nat /\ N \in Seq(Lines) /\ s + q - 1 <= X
  BY HunkIs, LenProperties
<1>2. \A i \in 1 .. X : x[i] \in Lines
  BY ElementOfSeq
<1>3. y = (a \o N) \o c
  BY DEF Diff!Spliced, Old
<1> HIDE DEF s, q, X, N, y
<1>4. a \in Seq(Lines) /\ Len(a) = s - 1 /\ \A j \in 1 .. s - 1 : a[j] = x[j]
  <2>1. 1 \in Int /\ s - 1 \in Int /\ \A i \in 1 .. s - 1 : x[i] \in Lines
    BY <1>1, <1>2
  <2>2. /\ a \in Seq(Lines) /\ Len(a) = IF 1 <= s - 1 THEN s - 1 - 1 + 1 ELSE 0
        /\ \A i \in 1 .. s - 1 - 1 + 1 : a[i] = x[1 + i - 1]
    BY <2>1, SubSeqProperties
  <2> HIDE DEF a
  <2> QED
    BY <2>2, <1>1
<1>5. c \in Seq(Lines)
  <2>1. s + q \in Int /\ X \in Int /\ \A i \in s + q .. X : x[i] \in Lines
    BY <1>1, <1>2
  <2> QED
    BY <2>1, SubSeqProperties
<1> HIDE DEF a, c
<1>6. /\ a \o N \in Seq(Lines) /\ Len(a \o N) = Len(a) + Len(N) /\ Len(N) \in Nat
      /\ \A i \in 1 .. Len(a) + Len(N) : (a \o N)[i] = IF i <= Len(a) THEN a[i] ELSE N[i - Len(a)]
  BY <1>1, <1>4, ConcatProperties, LenProperties
<1> DEFINE b == a \o N
<1> HIDE DEF b
<1>7. /\ b \in Seq(Lines) /\ Len(b) >= s - 1 /\ Len(b) \in Nat /\ \A j \in 1 .. s - 1 : b[j] = x[j]
  <2>1. \A j \in 1 .. s - 1 : j \in 1 .. Len(a) + Len(N) /\ j <= Len(a)
    BY <1>1, <1>4, <1>6
  <2> QED
    BY <2>1, <1>1, <1>4, <1>6 DEF b
<1>8. /\ b \o c \in Seq(Lines) /\ Len(b \o c) = Len(b) + Len(c) /\ Len(c) \in Nat
      /\ \A i \in 1 .. Len(b) + Len(c) : (b \o c)[i] = IF i <= Len(b) THEN b[i] ELSE c[i - Len(b)]
  BY <1>5, <1>7, ConcatProperties, LenProperties
<1>9. y = b \o c
  BY <1>3 DEF b
<1>10. Len(y) >= s - 1 /\ \A j \in 1 .. s - 1 : y[j] = x[j]
  <2>1. \A j \in 1 .. s - 1 : j \in 1 .. Len(b) + Len(c) /\ j <= Len(b)
    BY <1>1, <1>7, <1>8
  <2> QED
    BY <2>1, <1>1, <1>7, <1>8, <1>9
<1> QED
  BY <1>3, <1>4, <1>5, <1>8, <1>9, <1>10 DEF s, q, X, N, a, c, y

LEMMA StageSpliced ==
  ASSUME NEW o \in Seq(Texts), NEW S, NEW hs \in Seq(S), S \subseteq Diff!Hunks, InRow(hs), Inside(o, hs),
         NEW n \in 1 .. Len(hs), NEW x, Stage(o, hs, n - 1, x)
  PROVE  Stage(o, hs, n, Diff!Spliced(x, hs[Len(hs) + 1 - n]))
<1> DEFINE H == Len(hs)
           h == hs[H + 1 - n]
           y == Diff!Spliced(x, h)
<1>1. H \in Nat /\ n \in Nat /\ n >= 1 /\ n <= H /\ \A i \in 1 .. H : hs[i] \in Diff!Hunks
  BY LenProperties
<1>2. H + 1 - n \in 1 .. H /\ H - (n - 1) = H + 1 - n /\ n - 1 < H
  BY <1>1
<1>3. h \in Diff!Hunks
  BY <1>1, <1>2
<1>4. /\ x \in Seq(Lines) /\ h.oldStart + Old(h) - 1 <= Len(x)
      /\ \A j \in 1 .. h.oldStart + Old(h) - 1 : x[j] = o[j]
  BY <1>2 DEF Stage
<1>5. h.oldStart \in Nat /\ h.oldStart >= 1 /\ Old(h) \in Nat
  BY <1>3, HunkIs
<1>6. /\ y \in Seq(Lines) /\ Len(y) >= h.oldStart - 1 /\ \A j \in 1 .. h.oldStart - 1 : y[j] = x[j]
  BY <1>3, <1>4, SplicedIs
<1> HIDE DEF y
<1>7. ASSUME n < H
      PROVE  LET end == hs[H - n].oldStart + Old(hs[H - n]) - 1
             IN end <= Len(y) /\ \A j \in 1 .. end : y[j] = o[j]
  <2> DEFINE end == hs[H - n].oldStart + Old(hs[H - n]) - 1
  <2>1. H - n \in 1 .. H - 1 /\ (H - n) + 1 = H + 1 - n /\ H - n \in 1 .. H
    BY <1>1, <1>7
  <2>2. hs[H - n].oldStart + Old(hs[H - n]) <= hs[(H - n) + 1].oldStart
    BY <2>1 DEF InRow
  <2>3. hs[H - n].oldStart \in Nat /\ Old(hs[H - n]) \in Nat
    <3>1. hs[H - n] \in Diff!Hunks
      BY <2>1, <1>1
    <3> QED
      BY <3>1, HunkIs
  <2>4. end <= h.oldStart - 1 /\ end \in Int
    <3>1. hs[H - n].oldStart + Old(hs[H - n]) <= h.oldStart
      BY <2>1, <2>2
    <3> DEFINE a == hs[H - n].oldStart
               b == Old(hs[H - n])
               c == h.oldStart
    <3>2. a \in Nat /\ b \in Nat /\ c \in Nat /\ a + b <= c
      BY <3>1, <2>3, <1>5
    <3> HIDE DEF a, b, c
    <3>3. a + b - 1 <= c - 1 /\ a + b - 1 \in Int
      BY <3>2
    <3> QED
      BY <3>3 DEF a, b, c
  <2> HIDE DEF end, h
  <2>5. end <= Len(y)
    BY <2>4, <1>5, <1>6, LenProperties
  <2>6. \A j \in 1 .. end : j \in 1 .. h.oldStart - 1 /\ j \in 1 .. h.oldStart + Old(h) - 1
    BY <2>4, <1>5
  <2>7. \A j \in 1 .. end : y[j] = o[j]
    BY <2>6, <1>4, <1>6
  <2> QED
    BY <2>5, <2>7 DEF end
<1> QED
  BY <1>6, <1>7 DEF Stage, y

\* Applying the hunks from the last to the first.
LEMMA StagesHold ==
  ASSUME NEW o \in Seq(Texts), NEW S, NEW hs \in Seq(S), S \subseteq Diff!Hunks, InRow(hs), Inside(o, hs),
         NEW f, f[0] = o,
         \A i \in 1 .. Len(hs) : Stage(o, hs, i - 1, f[i - 1]) => f[i] = Diff!Spliced(f[i - 1], hs[Len(hs) + 1 - i])
  PROVE  \A n \in 0 .. Len(hs) : Stage(o, hs, n, f[n])
<1> DEFINE H == Len(hs)
           T == {n \in 0 .. H : ~Stage(o, hs, n, f[n])}
<1>1. H \in Nat
  BY LenProperties
<1>2. Stage(o, hs, 0, o)
  <2>1. o \in Seq(Lines)
    <3>1. Texts \subseteq Lines
      BY DEF Lines
    <3> QED
      BY <3>1, SeqMonotonic
  <2>2. ASSUME 0 < H
        PROVE  hs[H].oldStart + Old(hs[H]) - 1 <= Len(o)
    BY <1>1, <2>2 DEF Inside
  <2>3. H - 0 = H
    BY <1>1
  <2> HIDE DEF H
  <2> QED
    BY <2>1, <2>2, <2>3 DEF Stage, H
<1> HIDE DEF H
<1>3. ASSUME T # {}
      PROVE  FALSE
  <2>1. T \in SUBSET Nat
    BY <1>1
  <2>2. PICK n \in T : \A k \in T : n <= k
    BY <2>1, <1>3, LeastNumber
  <2>3. n \in 0 .. H /\ ~Stage(o, hs, n, f[n])
    BY <2>2
  <2>4. n # 0
    BY <2>3, <1>2
  <2>5. n \in 1 .. H /\ n - 1 \in 0 .. H /\ ~(n <= n - 1)
    BY <1>1, <2>3, <2>4
  <2>6. Stage(o, hs, n - 1, f[n - 1])
    BY <2>2, <2>5
  <2>7. f[n] = Diff!Spliced(f[n - 1], hs[Len(hs) + 1 - n])
    BY <2>5, <2>6 DEF H
  <2>8. Stage(o, hs, n, Diff!Spliced(f[n - 1], hs[Len(hs) + 1 - n]))
    BY <2>5, <2>6, StageSpliced DEF H
  <2> QED
    BY <2>3, <2>7, <2>8
<1> QED
  BY <1>3 DEF H

LEMMA EditedIs ==
  ASSUME NEW o \in Seq(Texts), NEW S, NEW hs \in Seq(S), S \subseteq Diff!Hunks, InRow(hs), Inside(o, hs)
  PROVE  LET f == Diff!Edited(o, hs) IN
         /\ f[0] = o
         /\ \A i \in 1 .. Len(hs) : f[i] = Diff!Spliced(f[i - 1], hs[Len(hs) + 1 - i])
         /\ \A n \in 0 .. Len(hs) : Stage(o, hs, n, f[n])
<1> DEFINE N == Len(hs)
           Next1(i, x) == IF Stage(o, hs, i - 1, x) THEN Diff!Spliced(x, hs[N + 1 - i]) ELSE x
           Step == [p \in (1 .. N) \X Seq(Lines) |-> Next1(p[1], p[2])]
           Edited(f) == f = [i \in 0 .. N |-> IF i = 0 THEN o ELSE Diff!Spliced(f[i - 1], hs[N + 1 - i])]
           edited == CHOOSE f : Edited(f)
<1>1. N \in Nat
  BY LenProperties
<1>2. \A i \in 1 .. N, x \in Seq(Lines) : Next1(i, x) \in Seq(Lines)
  <2> TAKE i \in 1 .. N, x \in Seq(Lines)
  <2>1. CASE Stage(o, hs, i - 1, x)
    <3>1. Stage(o, hs, i, Diff!Spliced(x, hs[N + 1 - i]))
      BY <2>1, StageSpliced
    <3> QED
      BY <2>1, <3>1 DEF Stage
  <2>2. CASE ~Stage(o, hs, i - 1, x)
    BY <2>2
  <2> QED
    BY <2>1, <2>2
<1> HIDE DEF Next1
<1>3. /\ Step \in [(1 .. N) \X Seq(Lines) -> Seq(Lines)]
      /\ \A i \in 1 .. N, x \in Seq(Lines) : Step[<<i, x>>] = Next1(i, x)
  BY <1>2
<1> HIDE DEF Step
<1>4. o \in Seq(Lines)
  <2>1. Texts \subseteq Lines
    BY DEF Lines
  <2> QED
    BY <2>1, SeqMonotonic
<1>5. PICK f \in [0 .. N -> Seq(Lines)] : Iterates(f, o, N, Step)
  BY <1>1, <1>3, <1>4, PrimitiveRecursion
<1> HIDE DEF N
<1>6. f[0] = o /\ \A i \in 1 .. N : f[i] = Next1(i, f[i - 1])
  <2>1. f[0] = o /\ \A i \in 1 .. N : f[i] = Step[<<i, f[i - 1]>>]
    BY <1>5, Zenon DEF Iterates
  <2>2. \A i \in 1 .. N : i - 1 \in 0 .. N
    BY <1>1
  <2> QED
    BY <2>1, <2>2, <1>3, <1>5
<1>7. \A i \in 1 .. N : f[i] = Diff!Spliced(f[i - 1], hs[N + 1 - i])
  <2>1. \A i \in 1 .. N : Stage(o, hs, i - 1, f[i - 1]) => f[i] = Diff!Spliced(f[i - 1], hs[N + 1 - i])
    BY <1>6 DEF Next1
  <2>2. \A n \in 0 .. N : Stage(o, hs, n, f[n])
    BY <1>6, <2>1, StagesHold DEF N
  <2>3. \A i \in 1 .. N : i - 1 \in 0 .. N
    BY <1>1
  <2> QED
    BY <2>1, <2>2, <2>3
<1>8. Edited(f)
  <2> DEFINE E == [i \in 0 .. N |-> IF i = 0 THEN o ELSE Diff!Spliced(f[i - 1], hs[N + 1 - i])]
  <2>1. \A i \in 0 .. N : f[i] = E[i]
    BY <1>1, <1>6, <1>7
  <2>2. f = [i \in 0 .. N |-> f[i]]
    BY <1>5
  <2>3. f = E
    BY <2>1, <2>2
  <2> QED
    BY <2>3
<1>9. Edited(edited)
  <2> HIDE DEF Edited
  <2> QED
    BY <1>8
<1>10. Diff!Edited(o, hs) = edited
  BY Zenon DEF Diff!Edited, N
<1> HIDE DEF edited
<1>11. edited[0] = o /\ \A i \in 1 .. N : edited[i] = Diff!Spliced(edited[i - 1], hs[N + 1 - i])
  BY <1>1, <1>9
<1> HIDE DEF Edited
<1>12. \A n \in 0 .. N : Stage(o, hs, n, edited[n])
  BY <1>11, StagesHold DEF N
<1> QED
  BY <1>10, <1>11, <1>12 DEF N

-----------------------------------------------------------------------------
(* The search.                                                             *)

\* One more line of the hunk has matched.
LEMMA LineMatched ==
  ASSUME NEW o, NEW S, NEW hs \in Seq(S), S \subseteq Diff!Hunks, NEW d \in Searches(hs), NEW e \in Searches(hs),
         Placed(o, hs, d), Trusted(o, hs, d), Assembled(o, hs, d), Pending(hs, d),
         Line(o, d.toPos + d.line - 1) = Diff!Matchable(hs[d.hunk])[d.line],
         e.hunk = d.hunk, e.line = d.line + 1, e.toPos = d.toPos, e.minLine = d.minLine,
         e.landed = d.landed, e.result = d.result
  PROVE  Placed(o, hs, e) /\ Trusted(o, hs, e) /\ Assembled(o, hs, e)
<1> DEFINE h == hs[d.hunk]
<1>1. d.hunk <= Len(hs) /\ d.line <= Old(h)
  BY DEF Pending
<1>2. d.line \in 1 .. Old(h) + 1 /\ d.minLine <= d.toPos /\ At(o, h, d.toPos, d.line - 1)
  BY <1>1 DEF Placed
<1>3. Old(h) \in Nat /\ d.line \in Nat
  <2>1. h \in Diff!Hunks
    <3>1. d.hunk \in 1 .. Len(hs)
      BY <1>1, LenProperties DEF Searches
    <3> QED
      BY <3>1
  <2> QED
    BY <2>1, HunkIs DEF Searches
<1> HIDE DEF h
<1>4. At(o, h, d.toPos, d.line)
  <2> SUFFICES ASSUME NEW j \in 1 .. d.line
               PROVE  Line(o, d.toPos + j - 1) = Diff!Matchable(h)[j]
    BY <1>2 DEF At
  <2>1. CASE j = d.line
    BY <2>1 DEF h
  <2>2. CASE j # d.line
    <3>1. j \in 1 .. d.line - 1
      BY <2>2, <1>3
    <3> QED
      BY <3>1, <1>2 DEF At
  <2> QED
    BY <2>1, <2>2
<1>5. e.line \in 1 .. Old(h) + 1 /\ e.line - 1 = d.line
  BY <1>1, <1>2, <1>3
<1>6. Placed(o, hs, e)
  BY <1>1, <1>2, <1>4, <1>5 DEF Placed, h
<1>7. Trusted(o, hs, e)
  BY DEF Trusted, Headed
<1>8. Assembled(o, hs, e)
  BY DEF Assembled, Headed
<1> QED
  BY <1>6, <1>7, <1>8

\* A line did not match: jsdiff goes to another place, which it never does with
\* an honest patch.
LEMMA LineMismatched ==
  ASSUME NEW o \in Seq(Texts), NEW S, NEW hs \in Seq(S), S \subseteq Diff!Hunks, NEW d \in Searches(hs),
         Placed(o, hs, d), Trusted(o, hs, d), Pending(hs, d),
         Line(o, d.toPos + d.line - 1) # Diff!Matchable(hs[d.hunk])[d.line]
  PROVE  ~Honest(o, hs)
<1> DEFINE h == hs[d.hunk]
           s == h.oldStart
           k == d.line
<1> SUFFICES ASSUME Honest(o, hs)
             PROVE  FALSE
  OBVIOUS
<1>1. d.hunk \in 1 .. Len(hs) /\ DOMAIN hs = 1 .. Len(hs) /\ k <= Old(h)
  BY LenProperties DEF Searches, Pending
<1>2. d.toPos = s - 1 /\ InPlace(o, h)
  BY <1>1 DEF Trusted, Honest
<1>3. s \in Nat /\ s >= 1 /\ Old(h) \in Nat /\ Len(o) \in Nat
  <2>1. h \in Diff!Hunks
    BY <1>1
  <2> QED
    BY <2>1, HunkIs, LenProperties
<1>4. k \in 1 .. Old(h)
  BY <1>1, <1>3 DEF Placed
<1> HIDE DEF h, s, k
<1>5. o[s + k - 1] = Diff!Matchable(h)[k] /\ s + Old(h) - 1 <= Len(o)
  BY <1>2, <1>4 DEF InPlace, s
<1>6. d.toPos + k - 1 \in 0 .. Len(o) - 1 /\ (d.toPos + k - 1) + 1 = s + k - 1
  BY <1>2, <1>3, <1>4, <1>5
<1>7. Line(o, d.toPos + k - 1) = o[s + k - 1]
  BY <1>6 DEF Line
<1> QED
  BY <1>5, <1>7 DEF k, h

LEMMA HunkMoved ==
  ASSUME NEW o \in Seq(Texts), NEW S, NEW hs \in Seq(S), S \subseteq Diff!Hunks,
         NEW d \in Searches(hs), NEW e \in Searches(hs),
         Placed(o, hs, d), Trusted(o, hs, d), Assembled(o, hs, d), Pending(hs, d),
         Line(o, d.toPos + d.line - 1) # Diff!Matchable(hs[d.hunk])[d.line],
         e.hunk = d.hunk, e.line = 1, e.toPos >= d.minLine, e.minLine = d.minLine,
         e.landed = d.landed, e.result = d.result
  PROVE  Placed(o, hs, e) /\ Trusted(o, hs, e) /\ Assembled(o, hs, e)
<1>1. ~Honest(o, hs)
  BY LineMismatched
<1>2. Trusted(o, hs, e)
  BY <1>1 DEF Trusted
<1>3. Assembled(o, hs, e)
  BY DEF Assembled, Headed
<1>4. Old(hs[d.hunk]) \in Nat
  <2>1. d.hunk \in 1 .. Len(hs)
    BY LenProperties DEF Searches, Pending
  <2>2. hs[d.hunk] \in Diff!Hunks
    BY <2>1
  <2> QED
    BY <2>2, HunkIs
<1>5. e.line \in 1 .. Old(hs[d.hunk]) + 1 /\ e.line - 1 = 0
  BY <1>4
<1>6. d.minLine \in Nat /\ e.toPos \in Int
  BY DEF Searches
<1>7. At(o, hs[d.hunk], e.toPos, 0)
  BY <1>6 DEF At
<1>8. Placed(o, hs, e)
  BY <1>5, <1>7 DEF Placed
<1> QED
  BY <1>2, <1>3, <1>8

\* Every line of the hunk has matched, and it is written where it is.
LEMMA HunkPlaced ==
  ASSUME NEW o, NEW S, NEW hs \in Seq(S), S \subseteq Diff!Hunks, InRow(hs),
         NEW d \in Searches(hs), NEW e \in Searches(hs),
         d.hunk <= Len(hs), ~Pending(hs, d), Placed(o, hs, d), Trusted(o, hs, d),
         e.hunk = d.hunk + 1, e.line = 1,
         Len(e.landed) = d.hunk, e.landed[d.hunk] = d.toPos,
         \A k \in 1 .. d.hunk - 1 : e.landed[k] = d.landed[k],
         e.minLine = d.toPos + Old(hs[d.hunk]),
         e.hunk <= Len(hs) => e.toPos = hs[e.hunk].oldStart + (d.toPos + 1 - hs[d.hunk].oldStart) - 1
  PROVE  Placed(o, hs, e) /\ Trusted(o, hs, e)
<1> DEFINE h == hs[d.hunk]
<1>1. d.hunk \in 1 .. Len(hs) /\ Len(hs) \in Nat /\ d.hunk \in Nat
  BY LenProperties DEF Searches
<1>2. h \in Diff!Hunks
  BY <1>1
<1>3. Old(h) \in Nat /\ h.oldStart \in Nat
  BY <1>2, HunkIs
<1>4. d.line = Old(h) + 1 /\ d.minLine <= d.toPos /\ At(o, h, d.toPos, d.line - 1)
  <2>1. d.line \in 1 .. Old(h) + 1 /\ d.minLine <= d.toPos /\ At(o, h, d.toPos, d.line - 1)
    BY DEF Placed
  <2>2. ~(d.line <= Old(h))
    BY DEF Pending
  <2> HIDE DEF h
  <2> QED
    BY <2>1, <2>2, <1>3
<1>5. At(o, h, d.toPos, Old(h)) /\ d.toPos \in Nat
  <2>1. d.line - 1 = Old(h)
    BY <1>3, <1>4
  <2> QED
    BY <2>1, <1>4 DEF At
<1> HIDE DEF h
<1>6. \A k \in 1 .. e.hunk - 1 : At(o, hs[k], e.landed[k], Old(hs[k]))
  <2> TAKE k \in 1 .. e.hunk - 1
  <2>1. k \in 1 .. d.hunk
    BY <1>1
  <2>2. CASE k = d.hunk
    BY <2>2, <1>5 DEF h
  <2>3. CASE k # d.hunk
    <3>1. k \in 1 .. d.hunk - 1
      BY <2>1, <2>3, <1>1
    <3> QED
      BY <3>1 DEF Placed
  <2> QED
    BY <2>2, <2>3
<1>7. ASSUME e.hunk <= Len(hs)
      PROVE  /\ e.line \in 1 .. Old(hs[e.hunk]) + 1 /\ e.minLine <= e.toPos
             /\ At(o, hs[e.hunk], e.toPos, e.line - 1)
             /\ d.toPos = h.oldStart - 1 => e.toPos = hs[e.hunk].oldStart - 1
  <2>1. e.hunk \in 1 .. Len(hs) /\ d.hunk \in 1 .. Len(hs) - 1
    BY <1>1, <1>7
  <2>2. hs[e.hunk] \in Diff!Hunks
    BY <2>1
  <2>3. Old(hs[e.hunk]) \in Nat /\ hs[e.hunk].oldStart \in Nat
    BY <2>2, HunkIs
  <2>4. h.oldStart + Old(h) <= hs[e.hunk].oldStart
    BY <2>1 DEF InRow, h
  <2>5. e.toPos = hs[e.hunk].oldStart + (d.toPos + 1 - h.oldStart) - 1 /\ e.minLine = d.toPos + Old(h)
    BY <1>7 DEF h
  <2>6. e.minLine <= e.toPos /\ e.toPos \in Nat
    <3> DEFINE a == h.oldStart
               n == Old(h)
               b == hs[e.hunk].oldStart
               p == d.toPos
               q == e.toPos
    <3>1. a \in Nat /\ n \in Nat /\ b \in Nat /\ p \in Nat /\ a + n <= b /\ q = b + (p + 1 - a) - 1
      BY <2>3, <2>4, <2>5, <1>3, <1>5
    <3> HIDE DEF a, n, b, p, q
    <3>2. p + n <= q /\ q \in Nat
      BY <3>1
    <3> QED
      BY <3>2, <2>5 DEF n, p, q
  <2>7. e.line \in 1 .. Old(hs[e.hunk]) + 1 /\ e.line - 1 = 0
    BY <2>3
  <2>8. At(o, hs[e.hunk], e.toPos, 0)
    BY <2>6 DEF At
  <2>9. d.toPos = h.oldStart - 1 => e.toPos = hs[e.hunk].oldStart - 1
    BY <2>3, <2>5, <1>3
  <2> QED
    BY <2>6, <2>7, <2>8, <2>9
<1>8. e.hunk - 1 = d.hunk
  BY <1>1
<1>9. Placed(o, hs, e)
  BY <1>6, <1>6, <1>7, <1>8 DEF Placed
<1>10. Trusted(o, hs, e)
  <2> SUFFICES ASSUME Honest(o, hs)
               PROVE  Headed(hs, e) /\ (e.hunk <= Len(hs) => e.toPos = hs[e.hunk].oldStart - 1)
    BY DEF Trusted
  <2>1. d.toPos = h.oldStart - 1 /\ Headed(hs, d)
    BY DEF Trusted, h
  <2>2. Headed(hs, e)
    <3> SUFFICES ASSUME NEW k \in 1 .. d.hunk
                 PROVE  e.landed[k] = hs[k].oldStart - 1
      BY <1>8 DEF Headed
    <3>1. CASE k = d.hunk
      BY <3>1, <2>1 DEF h
    <3>2. CASE k # d.hunk
      <4>1. k \in 1 .. d.hunk - 1
        BY <3>2, <1>1
      <4> QED
        BY <4>1, <2>1 DEF Headed
    <3> QED
      BY <3>1, <3>2
  <2> QED
    BY <2>1, <2>2, <1>7
<1> QED
  BY <1>9, <1>10

\* Sequences on end, by a name the provers take as it is.
Joined(s, t) == s \o t

LEMMA JoinedIs ==
  ASSUME NEW S
  PROVE  /\ \A s, t \in Seq(S) : Joined(s, t) \in Seq(S)
         /\ \A s, t, u \in Seq(S) : Joined(Joined(s, t), u) = Joined(s, Joined(t, u))
BY ConcatProperties, ConcatAssociative DEF Joined

\* The observer has already gone on.
LEMMA ObserverAhead ==
  ASSUME NEW S, NEW hs \in Seq(S), S \subseteq Diff!Hunks,
         NEW d \in Searches(hs), NEW e \in Searches(hs), NEW w \in Watches(hs),
         d.hunk <= Len(hs), ~Pending(hs, d), Watching(hs, d, w),
         e.hunk = d.hunk + 1, e.line = 1,
         \A k \in 1 .. d.hunk - 1 : e.landed[k] = d.landed[k],
         e.landed[d.hunk] = d.toPos,
         e.hunk <= Len(hs) => e.toPos = hs[e.hunk].oldStart + (d.toPos + 1 - hs[d.hunk].oldStart) - 1
  PROVE  Watching(hs, e, w)
<1> DEFINE H == Len(hs)
<1>1. d.hunk \in 1 .. H /\ H \in Nat /\ d.hunk \in Nat /\ w.hunkIdx \in 1 .. H + 1 /\ d.toPos \in Int
  <2>1. H \in Nat
    BY LenProperties
  <2>2. d.hunk \in 1 .. H + 1 /\ d.hunk <= H /\ d.toPos \in Int
    BY DEF Searches
  <2>3. w.hunkIdx \in 1 .. H + 1
    BY DEF Watches
  <2> HIDE DEF H
  <2> QED
    BY <2>1, <2>2, <2>3
<1>2. /\ \A k \in 1 .. w.hunkIdx - 1 : w.landings[k] = Known(hs, d, k)
      /\ w.hunkIdx <= H => Old(hs[w.hunkIdx]) > 0
      /\ w.hunkIdx > d.hunk \/ w.hunkIdx = H + 1
      /\ w.runCount = 0
      /\ \A k \in d.hunk + 1 .. w.hunkIdx - 1 : Old(hs[k]) = 0
  BY DEF Watching
<1>3. \A k \in 1 .. H : hs[k].oldStart \in Int /\ Old(hs[k]) \in Nat
  <2> TAKE k \in 1 .. H
  <2>1. hs[k] \in Diff!Hunks
    BY <1>1
  <2> QED
    BY <2>1, HunkIs
<1>4. w.hunkIdx > d.hunk
  BY <1>1, <1>2
<1> HIDE DEF H
<1>5. \A k \in 1 .. w.hunkIdx - 1 : w.landings[k] = Known(hs, e, k)
  <2> SUFFICES ASSUME NEW k \in 1 .. w.hunkIdx - 1
               PROVE  w.landings[k] = Known(hs, e, k)
    OBVIOUS
  <2>1. k \in 1 .. H
    BY <1>1
  <2>2. w.landings[k] = Known(hs, d, k)
    BY <1>2
  <2>3. CASE k < d.hunk
    <3>1. k \in 1 .. d.hunk - 1 /\ k < e.hunk
      BY <2>1, <2>3, <1>1
    <3> QED
      BY <2>2, <2>3, <3>1 DEF Known
  <2>4. CASE k = d.hunk
    <3>1. k < e.hunk /\ ~(k < d.hunk)
      BY <2>4, <1>1
    <3>2. hs[k].oldStart + (d.toPos - hs[d.hunk].oldStart) = d.toPos
      BY <2>4, <1>1, <1>3
    <3> QED
      BY <2>2, <2>4, <3>1, <3>2 DEF Known
  <2>5. CASE k > d.hunk
    <3>1. ~(k < d.hunk) /\ ~(k < e.hunk) /\ e.hunk \in 1 .. H
      BY <2>1, <2>5, <1>1
    <3>2. e.toPos = hs[e.hunk].oldStart + (d.toPos + 1 - hs[d.hunk].oldStart) - 1
      BY <3>1, <1>1 DEF H
    <3>3. hs[k].oldStart + (d.toPos - hs[d.hunk].oldStart) = hs[k].oldStart + (e.toPos - hs[e.hunk].oldStart)
      <4> DEFINE i == hs[k].oldStart
                 j == hs[d.hunk].oldStart
                 l == hs[e.hunk].oldStart
                 p == d.toPos
                 q == e.toPos
      <4>1. i \in Int /\ j \in Int /\ l \in Int /\ p \in Int /\ q = l + (p + 1 - j) - 1
        BY <2>1, <3>1, <3>2, <1>1, <1>3
      <4> HIDE DEF i, j, l, p, q
      <4>2. i + (p - j) = i + (q - l)
        BY <4>1
      <4> QED
        BY <4>2 DEF i, j, l, p, q
    <3> QED
      BY <2>2, <3>1, <3>3 DEF Known
  <2> QED
    BY <2>1, <2>3, <2>4, <2>5, <1>1
<1>6. CASE Pending(hs, e)
  <2>1. e.hunk \in 1 .. H /\ ~(Old(hs[e.hunk]) = 0)
    BY <1>1, <1>3, <1>6 DEF Pending, H
  <2>2. e.hunk \notin d.hunk + 1 .. w.hunkIdx - 1
    BY <2>1, <1>2
  <2>3. w.hunkIdx = e.hunk
    BY <2>1, <2>2, <1>1, <1>4
  <2> QED
    BY <2>3, <1>2, <1>5, <1>6 DEF Watching, H
<1>7. CASE ~Pending(hs, e)
  <2>1. w.hunkIdx > e.hunk \/ w.hunkIdx = H + 1
    <3>1. CASE e.hunk = H + 1
      BY <3>1, <1>1, <1>4
    <3>2. CASE e.hunk # H + 1
      <4>1. e.hunk \in 1 .. H
        BY <3>2, <1>1
      <4>2. Old(hs[e.hunk]) = 0
        <5>1. ~(e.line <= Old(hs[e.hunk]))
          BY <4>1, <1>7 DEF Pending, H
        <5> QED
          BY <5>1, <4>1, <1>3
      <4>3. w.hunkIdx # e.hunk
        BY <4>1, <4>2, <1>2
      <4> QED
        BY <4>3, <1>1, <1>4
    <3> QED
      BY <3>1, <3>2
  <2>2. \A k \in e.hunk + 1 .. w.hunkIdx - 1 : Old(hs[k]) = 0
    BY <1>1, <1>2
  <2> QED
    BY <2>1, <2>2, <1>2, <1>5, <1>7 DEF Watching, H
<1> QED
  BY <1>6, <1>7

\* The hunk's new lines, after what is copied before it.
LEMMA HunkWritten ==
  ASSUME original \in Seq(Texts), NEW S, NEW hs \in Seq(S), S \subseteq Diff!Hunks, InRow(hs),
         NEW d \in Searches(hs), NEW e \in Searches(hs),
         d.hunk <= Len(hs), Placed(original, hs, d), Assembled(original, hs, d),
         e.hunk = d.hunk + 1, e.minLine = d.toPos + Old(hs[d.hunk]),
         \A k \in 1 .. d.hunk - 1 : e.landed[k] = d.landed[k],
         e.landed[d.hunk] = d.toPos,
         e.result = (d.result \o Diff!Copied(d.minLine, d.toPos)) \o Diff!NewLines(hs[d.hunk])
  PROVE  Assembled(original, hs, e)
<1> DEFINE H == Len(hs)
           n == H + 1 - d.hunk
           h == hs[d.hunk]
           f == Diff!Edited(original, hs)
           x == f[n - 1]
           y == f[n]
           m == d.minLine
           N == Diff!NewLines(h)
           a == SubSeq(x, 1, h.oldStart - 1)
           b == a \o N
           c == SubSeq(x, h.oldStart + Old(h), Len(x))
           C == Diff!Copied(m, d.toPos)
           R == d.result
<1> SUFFICES ASSUME Inside(original, hs), Headed(hs, e)
             PROVE  e.result \o SubSeq(f[H + 1 - e.hunk], e.minLine + 1, Len(f[H + 1 - e.hunk])) = f[H]
  BY DEF Assembled
<1>1. d.hunk \in 1 .. H /\ H \in Nat /\ d.hunk \in Nat /\ e.hunk - 1 = d.hunk /\ H + 1 - e.hunk = n - 1
  <2>1. H \in Nat /\ d.hunk \in 1 .. H + 1 /\ d.hunk <= H /\ e.hunk = d.hunk + 1
    BY LenProperties DEF Searches
  <2> DEFINE i == d.hunk
             j == e.hunk
  <2>2. H \in Nat /\ i \in 1 .. H + 1 /\ i <= H /\ j = i + 1
    BY <2>1
  <2> HIDE DEF H, i, j
  <2>3. i \in 1 .. H /\ i \in Nat /\ j - 1 = i /\ H + 1 - j = (H + 1 - i) - 1
    BY <2>2
  <2> QED
    BY <2>1, <2>3 DEF i, j
<1>2. Headed(hs, d) /\ d.toPos = h.oldStart - 1
  <2>1. \A k \in 1 .. d.hunk : e.landed[k] = hs[k].oldStart - 1
    BY <1>1 DEF Headed
  <2>2. d.toPos = h.oldStart - 1
    <3>1. d.hunk \in 1 .. d.hunk
      BY <1>1
    <3>2. e.landed[d.hunk] = h.oldStart - 1
      BY <2>1, <3>1
    <3> QED
      BY <3>2
  <2>3. \A k \in 1 .. d.hunk - 1 : k \in 1 .. d.hunk
    BY <1>1
  <2>4. Headed(hs, d)
    BY <2>1, <2>3 DEF Headed
  <2> QED
    BY <2>2, <2>4
<1>3. R \o SubSeq(y, m + 1, Len(y)) = f[H]
  BY <1>2 DEF Assembled
<1>4. h \in Diff!Hunks
  BY <1>1
<1>5. /\ h.oldStart \in Nat /\ h.oldStart >= 1 /\ Old(h) \in Nat /\ N \in Seq(Lines)
      /\ m \in Nat /\ m <= h.oldStart - 1 /\ R \in Seq(Lines)
  BY <1>1, <1>2, <1>4, HunkIs DEF Placed, Searches
<1>6. n \in 1 .. H /\ H + 1 - n = d.hunk /\ H - (n - 1) = d.hunk /\ n - 1 < H /\ n - 1 \in 0 .. H
  BY <1>1
<1>7. y = Diff!Spliced(x, h) /\ Stage(original, hs, n - 1, x)
  <2>1. /\ \A i \in 1 .. H : f[i] = Diff!Spliced(f[i - 1], hs[H + 1 - i])
        /\ \A i \in 0 .. H : Stage(original, hs, i, f[i])
    BY EditedIs
  <2> HIDE DEF n, H, f
  <2>2. f[n] = Diff!Spliced(f[n - 1], hs[H + 1 - n])
    BY <2>1, <1>6
  <2>3. Stage(original, hs, n - 1, f[n - 1])
    BY <2>1, <1>6
  <2>4. hs[H + 1 - n] = h
    BY <1>6
  <2> QED
    BY <2>2, <2>3, <2>4
<1>8. /\ x \in Seq(Lines) /\ h.oldStart + Old(h) - 1 <= Len(x)
      /\ \A j \in 1 .. h.oldStart + Old(h) - 1 : x[j] = original[j]
      /\ h.oldStart + Old(h) - 1 <= Len(original)
  BY <1>1, <1>6, <1>7 DEF Stage, Inside
<1> HIDE DEF x, y, h, f, n, H
<1>9. /\ y = (a \o N) \o c /\ a \in Seq(Lines) /\ Len(a) = h.oldStart - 1
      /\ \A j \in 1 .. h.oldStart - 1 : a[j] = x[j]
      /\ c \in Seq(Lines)
  BY <1>4, <1>7, <1>8, SplicedIs
<1> HIDE DEF a, c, N, m, R
<1>10. C = SubSeq(a, m + 1, Len(a)) /\ C \in Seq(Lines)
  <2>1. h.oldStart - 1 \in Nat /\ h.oldStart - 1 <= Len(original)
    <3> DEFINE s == h.oldStart
               o == Old(h)
               n1 == Len(original)
    <3>1. s \in Nat /\ s >= 1 /\ o \in Nat /\ n1 \in Nat /\ s + o - 1 <= n1
      BY <1>5, <1>8, LenProperties
    <3> HIDE DEF s, o, n1
    <3>2. s - 1 \in Nat /\ s - 1 <= n1
      BY <3>1
    <3> QED
      BY <3>2 DEF s, n1
  <2>2. \A j \in 1 .. h.oldStart - 1 : a[j] = original[j]
    <3>1. \A j \in 1 .. h.oldStart - 1 : j \in 1 .. h.oldStart + Old(h) - 1
      BY <1>5
    <3> QED
      BY <3>1, <1>8, <1>9
  <2> QED
    <3> DEFINE t == h.oldStart - 1
    <3>1. t \in Nat /\ m \in Nat /\ m <= t /\ t <= Len(original) /\ Len(a) = t /\ d.toPos = t
      BY <2>1, <1>2, <1>5, <1>9
    <3>2. \A j \in 1 .. t : a[j] = original[j]
      BY <2>2
    <3> HIDE DEF t
    <3>3. Diff!Copied(m, t) = SubSeq(a, m + 1, Len(a)) /\ Diff!Copied(m, t) \in Seq(Lines)
      BY <3>1, <3>2, <1>9, CopiedIs
    <3> QED
      BY <3>1, <3>3
<1> HIDE DEF C
<1>11. SubSeq(y, m + 1, Len(y)) = (C \o N) \o c
  <2>1. m \in 0 .. Len(a)
    BY <1>5, <1>9
  <2>2. SubSeq(b, m + 1, Len(b)) = C \o N
    BY <2>1, <1>5, <1>9, <1>10, SuffixOfConcat
  <2>3. b \in Seq(Lines) /\ Len(b) = Len(a) + Len(N) /\ Len(N) \in Nat /\ Len(a) \in Nat
    BY <1>5, <1>9, ConcatProperties, LenProperties
  <2>4. m \in 0 .. Len(b)
    BY <2>1, <2>3
  <2>5. y = b \o c
    BY <1>9
  <2> HIDE DEF b
  <2> QED
    BY <2>2, <2>3, <2>4, <2>5, <1>9, SuffixOfConcat
<1>12. R \o ((C \o N) \o c) = ((R \o C) \o N) \o c
  <2>1. R \in Seq(Lines) /\ C \in Seq(Lines) /\ N \in Seq(Lines) /\ c \in Seq(Lines)
    BY <1>5, <1>9, <1>10
  <2>2. Joined(R, Joined(Joined(C, N), c)) = Joined(Joined(Joined(R, C), N), c)
    BY <2>1, JoinedIs
  <2> QED
    BY <2>2 DEF Joined
<1>13. e.result = (R \o C) \o N
  BY DEF R, C, N, h, m
<1>14. SubSeq(f[H + 1 - e.hunk], e.minLine + 1, Len(f[H + 1 - e.hunk])) = c
  <2>1. f[H + 1 - e.hunk] = x
    BY <1>1 DEF x
  <2>2. e.minLine + 1 = h.oldStart + Old(h)
    <3>1. e.minLine = d.toPos + Old(h)
      BY DEF h
    <3> QED
      BY <3>1, <1>2, <1>5
  <2> QED
    BY <2>1, <2>2 DEF c
<1>15. (R \o C) \o N \o c = f[H]
  BY <1>3, <1>11, <1>12
<1> QED
  BY <1>13, <1>14, <1>15

-----------------------------------------------------------------------------
(* The steps of a patch.                                                   *)

LEMMA StillPatchTyped ==
  ASSUME Diff!TypeOK, original' = original, hunks' = hunks,
         jsdiff' \in Searches(hunks), watch' \in Watches(hunks),
         outcome' \in {"guard", "search", "landing", "applied", "SYNTAX_BREAK", "PATCH_TOO_LARGE"}
  PROVE  Diff!TypeOK'
<1>1. /\ original \in Seq(Texts)
      /\ hunks \in Seq({h \in Diff!Hunks : Diff!InNote(h, original)}) /\ hunks # <<>>
  BY PatchTyped
<1>2. DOMAIN hunks = 1 .. Len(hunks)
  BY <1>1
<1>3. jsdiff' \in [hunk : 1..(Len(hunks) + 1), toPos : Int, line : Nat, tried : SUBSET Int,
                   minLine : Nat, offset : Int, landed : Seq(Int),
                   result : Seq(Texts \cup {NewText, "undefined"})]
  BY Zenon DEF Searches, Lines
<1>4. watch' \in [hunkIdx : 1..(Len(hunks) + 1), runCount : Nat, runStart : Int,
                  landings : [DOMAIN hunks -> Int]]
  BY <1>2, Zenon DEF Watches
<1> QED
  BY <1>1, <1>3, <1>4, Zenon DEF Diff!TypeOK

\* The hunks of a patch, and the places they name.
LEMMA HunksAre ==
  ASSUME Diff!TypeOK
  PROVE  LET S == {h \in Diff!Hunks : Diff!InNote(h, original)} IN
         /\ original \in Seq(Texts) /\ hunks \in Seq(S) /\ S \subseteq Diff!Hunks
         /\ jsdiff \in Searches(hunks) /\ watch \in Watches(hunks)
         /\ Len(hunks) \in Nat /\ Len(hunks) >= 1
         /\ \A i \in 1 .. Len(hunks) : /\ hunks[i] \in Diff!Hunks /\ Diff!InNote(hunks[i], original)
                                       /\ hunks[i].oldStart \in Nat /\ hunks[i].oldStart >= 1
                                       /\ Old(hunks[i]) \in Nat
<1> DEFINE S == {h \in Diff!Hunks : Diff!InNote(h, original)}
<1>1. /\ original \in Seq(Texts) /\ hunks \in Seq(S) /\ hunks # <<>>
      /\ jsdiff \in Searches(hunks) /\ watch \in Watches(hunks)
  BY PatchTyped
<1>2. S \subseteq Diff!Hunks
  OBVIOUS
<1>3. Len(hunks) \in Nat /\ Len(hunks) >= 1
  BY <1>1, EmptySeq, LenProperties
<1>4. \A i \in 1 .. Len(hunks) : hunks[i] \in S
  BY <1>1, ElementOfSeq
<1>5. \A i \in 1 .. Len(hunks) : hunks[i] \in Diff!Hunks /\ Diff!InNote(hunks[i], original)
  BY <1>4
<1>6. \A i \in 1 .. Len(hunks) : /\ hunks[i].oldStart \in Nat /\ hunks[i].oldStart >= 1
                                 /\ Old(hunks[i]) \in Nat
  BY <1>5, HunkIs
<1> QED
  BY <1>1, <1>2, <1>3, <1>5, <1>6

\* Hunks of which none reaches into the next are in a row.
LEMMA HonestInRow ==
  ASSUME Diff!TypeOK, Honest(original, hunks)
  PROVE  InRow(hunks)
<1>1. DOMAIN hunks = 1 .. Len(hunks)
  BY HunksAre, LenProperties
<1> SUFFICES ASSUME NEW i \in 1 .. Len(hunks) - 1
             PROVE  hunks[i].oldStart + Old(hunks[i]) <= hunks[i + 1].oldStart
  BY DEF InRow
<1>2. i \in 1 .. Len(hunks) /\ i + 1 \in 1 .. Len(hunks) /\ i < i + 1
  BY HunksAre
<1> DEFINE a == hunks[i].oldStart
           n == Old(hunks[i])
           b == hunks[i + 1].oldStart
<1>3. a \in Nat /\ n \in Nat /\ b \in Nat
  BY <1>2, HunksAre
<1>4. a <= b /\ \A k \in 1 .. n : a + k - 1 < b
  BY <1>1, <1>2 DEF Honest
<1> HIDE DEF a, n, b
<1>5. a + n <= b
  <2>1. CASE n = 0
    BY <2>1, <1>3, <1>4
  <2>2. CASE n # 0
    <3>1. n \in 1 .. n
      BY <1>3, <2>2
    <3> QED
      BY <3>1, <1>3, <1>4
  <2> QED
    BY <2>1, <2>2
<1> QED
  BY <1>5 DEF a, n, b

LEMMA CopiedTyped ==
  ASSUME original \in Seq(Texts), NEW m \in Nat, NEW n \in Int
  PROVE  Diff!Copied(m, n) \in Seq(Lines)
<1>1. \A i \in Int : Diff!LineAt(i) \in Lines
  <2> TAKE i \in Int
  <2>1. CASE i \in 0 .. Len(original) - 1
    <3>1. i + 1 \in 1 .. Len(original)
      BY <2>1, LenProperties
    <3> QED
      BY <2>1, <3>1 DEF Diff!LineAt, Lines
  <2>2. CASE i \notin 0 .. Len(original) - 1
    BY <2>2 DEF Diff!LineAt, Lines
  <2> QED
    BY <2>1, <2>2
<1> DEFINE c == [k \in 1 .. (n - m) |-> Diff!LineAt(m + k - 1)]
<1>2. \A k \in 1 .. (n - m) : m + k - 1 \in Int
  OBVIOUS
<1>3. c \in [1 .. (n - m) -> Lines]
  BY <1>1, <1>2
<1>4. c \in Seq(Lines)
  <2>1. CASE n - m >= 0
    <3>1. n - m \in Nat
      BY <2>1
    <3> HIDE DEF c
    <3> QED
      BY <1>3, <3>1
  <2>2. CASE ~(n - m >= 0)
    <3>1. 1 .. (n - m) = {}
      BY <2>2
    <3>2. c = <<>>
      BY <3>1
    <3> QED
      BY <3>2
  <2> QED
    BY <2>1, <2>2
<1> QED
  BY <1>4 DEF Diff!Copied

\* The search starts at the first hunk's header, and the observer passes over
\* the first hunks if they compare nothing.
LEMMA GuardKeeps ==
  ASSUME Diff!TypeOK, Staged(original, hunks, jsdiff, watch, outcome), Diff!Guard
  PROVE  Diff!TypeOK' /\ Staged(original, hunks, jsdiff', watch', outcome')
<1> DEFINE H == Len(hunks)
           S == {h \in Diff!Hunks : Diff!InNote(h, original)}
           first == hunks[1].oldStart - 1
           w == Diff!SkipEmptyHunks(1, watch.landings)
           d == [jsdiff EXCEPT !.toPos = first, !.tried = {first}]
<1>1. /\ original \in Seq(Texts) /\ hunks \in Seq(S) /\ S \subseteq Diff!Hunks
      /\ jsdiff \in Searches(hunks) /\ watch \in Watches(hunks) /\ H \in Nat /\ H >= 1
      /\ \A i \in 1 .. H : /\ hunks[i] \in Diff!Hunks
                           /\ hunks[i].oldStart \in Nat /\ hunks[i].oldStart >= 1 /\ Old(hunks[i]) \in Nat
  BY HunksAre
<1>2. original' = original /\ hunks' = hunks
  BY DEF Diff!Guard
<1>3. jsdiff.hunk = 1 /\ jsdiff.line = 1 /\ jsdiff.minLine = 0 /\ jsdiff.landed = <<>> /\ jsdiff.result = <<>>
  BY DEF Diff!Guard, Staged, Start
<1>4. Diff!Ordered <=> InRow(hunks)
  BY DEF Diff!Ordered, InRow, Old
<1> HIDE DEF S, H
<1>5. CASE ~(Diff!Ordered /\ ~Diff!TooLarge)
  <2>1. /\ outcome' = IF ~Diff!Ordered THEN "SYNTAX_BREAK" ELSE "PATCH_TOO_LARGE"
        /\ jsdiff' = jsdiff /\ watch' = watch
    BY <1>5 DEF Diff!Guard
  <2>2. Diff!TypeOK'
    BY <2>1, <1>1, <1>2, StillPatchTyped
  <2>3. outcome' = "SYNTAX_BREAK" => ~Honest(original, hunks)
    BY <2>1, <1>4, HonestInRow
  <2>4. outcome' \notin {"guard", "search", "landing", "applied"}
    BY <2>1
  <2> QED
    BY <2>2, <2>3, <2>4 DEF Staged
<1>6. CASE Diff!Ordered /\ ~Diff!TooLarge
  <2>1. outcome' = "search" /\ jsdiff' = d /\ watch' = w
    BY <1>6 DEF Diff!Guard
  <2>2. 1 \in 1 .. H /\ hunks[1].oldStart \in Nat /\ hunks[1].oldStart >= 1 /\ Old(hunks[1]) \in Nat
    BY <1>1
  <2> DEFINE s == hunks[1].oldStart
             n == Old(hunks[1])
  <2>3. /\ d \in Searches(hunks) /\ d.toPos = first
        /\ d.hunk = 1 /\ d.line = 1 /\ d.minLine = 0 /\ d.landed = <<>> /\ d.result = <<>>
    <3>1. first \in Int
      BY <2>2
    <3> HIDE DEF first
    <3> QED
      BY <3>1, <1>1, <1>3 DEF Searches
  <2> HIDE DEF d
  <2>4. /\ w \in Watches(hunks) /\ w.hunkIdx >= 1 /\ w.runCount = 0
        /\ w.hunkIdx <= H => Old(hunks[w.hunkIdx]) > 0
        /\ \A k \in 1 .. w.hunkIdx - 1 : Old(hunks[k]) = 0 /\ w.landings[k] = hunks[k].oldStart + 0 - 1
    <3>1. watch.landings \in [1 .. Len(hunks) -> Int] /\ 1 \in 1 .. Len(hunks) + 1
      BY <1>1 DEF Watches, H
    <3> QED
      BY <1>1, <3>1, EmptyHunksSkipped DEF H
  <2> HIDE DEF w
  <2>5. w.hunkIdx \in 1 .. H + 1
    BY <2>4 DEF Watches, H
  <2>6. Placed(original, hunks, d)
    <3>1. Len(d.landed) = d.hunk - 1 /\ \A k \in 1 .. d.hunk - 1 : FALSE
      BY <2>3
    <3>2. first \in Nat /\ 0 <= first /\ 1 \in 1 .. n + 1
      BY <2>2
    <3>3. At(original, hunks[d.hunk], d.toPos, d.line - 1)
      <4>1. d.line - 1 = 0 /\ \A j \in 1 .. 0 : FALSE
        BY <2>3
      <4> QED
        BY <4>1, <3>2, <2>3 DEF At
    <3>4. d.line \in 1 .. Old(hunks[d.hunk]) + 1 /\ d.minLine <= d.toPos
      BY <2>3, <3>2
    <3> QED
      BY <3>1, <3>3, <3>4 DEF Placed
  <2>7. Watching(hunks, d, w)
    <3>1. \A k \in 1 .. w.hunkIdx - 1 : w.landings[k] = Known(hunks, d, k)
      <4> TAKE k \in 1 .. w.hunkIdx - 1
      <4>1. w.landings[k] = hunks[k].oldStart + 0 - 1 /\ k \in 1 .. H /\ ~(k < 1)
        BY <1>1, <2>4, <2>5
      <4>2. Known(hunks, d, k) = hunks[k].oldStart + (first - hunks[1].oldStart)
        BY <2>3, <4>1 DEF Known
      <4>3. hunks[k].oldStart \in Nat
        BY <4>1, <1>1
      <4> QED
        BY <4>1, <4>2, <4>3, <2>2
    <3>2. CASE Pending(hunks, d)
      <4>1. Old(hunks[1]) # 0
        BY <3>2, <2>2, <2>3 DEF Pending
      <4>2. 1 \notin 1 .. w.hunkIdx - 1
        BY <4>1, <2>4
      <4>3. w.hunkIdx = 1
        BY <4>2, <2>5, <1>1
      <4> QED
        BY <4>3, <3>1, <3>2, <2>3, <2>4 DEF Watching, H
    <3>3. CASE ~Pending(hunks, d)
      <4>1. Old(hunks[1]) = 0
        BY <3>3, <2>2, <2>3, <1>1 DEF Pending, H
      <4>2. w.hunkIdx # 1
        BY <4>1, <2>4, <1>1
      <4>3. w.hunkIdx > 1 /\ \A k \in 1 + 1 .. w.hunkIdx - 1 : Old(hunks[k]) = 0
        BY <4>2, <2>4, <2>5, <1>1
      <4> QED
        BY <4>3, <3>1, <3>3, <2>3, <2>4 DEF Watching, H
    <3> QED
      BY <3>2, <3>3
  <2>8. Trusted(original, hunks, d)
    BY <2>3 DEF Trusted, Headed
  <2>9. Assembled(original, hunks, d)
    <3> DEFINE f == Diff!Edited(original, hunks)
    <3> SUFFICES ASSUME Inside(original, hunks)
                 PROVE  d.result \o SubSeq(f[H + 1 - d.hunk], d.minLine + 1, Len(f[H + 1 - d.hunk])) = f[H]
      BY DEF Assembled, H
    <3>1. \A i \in 0 .. H : Stage(original, hunks, i, f[i])
      BY <1>1, <1>4, <1>6, EditedIs DEF H
    <3> HIDE DEF f
    <3>2. H \in 0 .. H /\ H + 1 - d.hunk = H
      BY <1>1, <2>3
    <3>3. f[H] \in Seq(Lines)
      BY <3>1, <3>2 DEF Stage
    <3> DEFINE x == f[H]
    <3>4. x \in Seq(Lines) /\ SubSeq(x, 1, Len(x)) = x /\ <<>> \o x = x
      <4> HIDE DEF x
      <4>1. x \in Seq(Lines)
        BY <3>3 DEF x
      <4> QED
        BY <4>1, ConcatSimplifications
    <3>5. d.minLine + 1 = 1
      BY <2>3
    <3> QED
      BY <3>2, <3>4, <3>5, <2>3
  <2>10. Search(original, hunks, d, w)
    BY <2>6, <2>7, <2>8, <2>9 DEF Search
  <2>11. Diff!TypeOK'
    BY <2>1, <2>3, <2>4, <1>2, StillPatchTyped
  <2>12. Staged(original, hunks, d, w, "search")
    BY <2>10, <1>4, <1>6 DEF Staged
  <2> QED
    BY <2>1, <2>11, <2>12
<1> QED
  BY <1>5, <1>6

\* A comparison: the line is the note's, or jsdiff tries another place, and
\* what an honest patch compares is always the note's.
LEMMA CompareKeeps ==
  ASSUME Diff!TypeOK, Staged(original, hunks, jsdiff, watch, outcome), Diff!Compare
  PROVE  Diff!TypeOK' /\ Staged(original, hunks, jsdiff', watch', outcome')
<1> DEFINE H == Len(hunks)
           S == {h \in Diff!Hunks : Diff!InNote(h, original)}
           at == jsdiff.toPos + jsdiff.line - 1
<1>1. /\ original \in Seq(Texts) /\ hunks \in Seq(S) /\ S \subseteq Diff!Hunks
      /\ jsdiff \in Searches(hunks) /\ watch \in Watches(hunks) /\ H \in Nat
  BY HunksAre
<1>2. /\ original' = original /\ hunks' = hunks /\ outcome = "search"
      /\ jsdiff.hunk <= H /\ jsdiff.line <= Old(hunks[jsdiff.hunk])
  BY DEF Diff!Compare, Diff!Searching, Diff!Current, Old
<1>3. /\ InRow(hunks) /\ Placed(original, hunks, jsdiff) /\ Watching(hunks, jsdiff, watch)
      /\ Trusted(original, hunks, jsdiff) /\ Assembled(original, hunks, jsdiff)
  BY <1>2 DEF Staged, Search
<1>4. Pending(hunks, jsdiff)
  BY <1>2 DEF Pending
<1>5. /\ jsdiff.line \in Nat /\ jsdiff.line >= 1 /\ jsdiff.toPos \in Nat /\ jsdiff.minLine \in Nat
      /\ jsdiff.minLine <= jsdiff.toPos
  <2>1. jsdiff.line \in 1 .. Old(hunks[jsdiff.hunk]) + 1 /\ jsdiff.minLine <= jsdiff.toPos /\ jsdiff.toPos \in Nat
    BY <1>2, <1>3 DEF Placed, At
  <2> QED
    BY <2>1, <1>1 DEF Searches
<1>6. Diff!LineAt(at) = Line(original, at) /\ Diff!Tried = Diff!Matchable(hunks[jsdiff.hunk])[jsdiff.line]
  BY LineIs DEF Diff!Tried, Diff!Current
<1> HIDE DEF S, H
<1>7. CASE Diff!LineAt(at) = Diff!Tried
  <2> DEFINE d == [jsdiff EXCEPT !.line = @ + 1]
             w == Diff!CompareLine(at + 1, TRUE)
  <2>1. jsdiff' = d /\ outcome' = "search"
    BY <1>2, <1>7 DEF Diff!Compare
  <2>2. watch' = w
    <3>1. watch' = Diff!CompareLine(at + 1, Diff!LineAt(at) = Diff!Tried)
      BY DEF Diff!Compare
    <3> QED
      BY <3>1, <1>7 DEF Diff!CompareLine
  <2>3. /\ d \in Searches(hunks) /\ d.hunk = jsdiff.hunk /\ d.line = jsdiff.line + 1 /\ d.toPos = jsdiff.toPos
        /\ d.minLine = jsdiff.minLine /\ d.landed = jsdiff.landed /\ d.result = jsdiff.result
    <3>1. jsdiff.line + 1 \in Nat
      BY <1>5
    <3> QED
      BY <3>1, <1>1 DEF Searches
  <2> HIDE DEF d
  <2>4. w \in Watches(hunks) /\ Watching(hunks, d, w)
    <3>1. at + 1 = jsdiff.toPos + jsdiff.line
      BY <1>5
    <3> DEFINE number == at + 1
    <3> HIDE DEF number
    <3>2. LET v == Diff!CompareLine(number, TRUE) IN v \in Watches(hunks) /\ Watching(hunks, d, v)
      <4>1. number = jsdiff.toPos + jsdiff.line /\ jsdiff.line >= 1 /\ jsdiff.toPos >= 0
        BY <3>1, <1>5 DEF number
      <4> QED
        BY <4>1, <1>1, <1>3, <1>4, <2>3, ObservedMatch
    <3> QED
      BY <3>2 DEF number
  <2> HIDE DEF w
  <2>5. Placed(original, hunks, d) /\ Trusted(original, hunks, d) /\ Assembled(original, hunks, d)
    BY <1>1, <1>3, <1>4, <1>6, <1>7, <2>3, LineMatched
  <2>6. Diff!TypeOK'
    BY <2>1, <2>2, <2>3, <2>4, <1>2, StillPatchTyped
  <2>7. Staged(original, hunks, d, w, "search")
    BY <2>4, <2>5, <1>3 DEF Staged, Search
  <2> QED
    BY <2>1, <2>2, <2>6, <2>7
<1>8. CASE Diff!LineAt(at) # Diff!Tried
  <2> DEFINE w == Diff!CompareLine(at + 1, FALSE)
  <2>1. watch' = w
    <3>1. watch' = Diff!CompareLine(at + 1, Diff!LineAt(at) = Diff!Tried)
      BY DEF Diff!Compare
    <3> QED
      BY <3>1, <1>8 DEF Diff!CompareLine
  <2>2. Line(original, jsdiff.toPos + jsdiff.line - 1) # Diff!Matchable(hunks[jsdiff.hunk])[jsdiff.line]
    BY <1>6, <1>8
  <2>3. CASE Diff!Candidates = {}
    <3>1. outcome' = "SYNTAX_BREAK" /\ jsdiff' = jsdiff
      BY <2>3, <1>8 DEF Diff!Compare
    <3>2. ~Honest(original, hunks)
      BY <1>1, <1>3, <1>4, <2>2, LineMismatched
    <3> DEFINE e == [jsdiff EXCEPT !.line = 1]
    <3>3. e \in Searches(hunks) /\ e.hunk = jsdiff.hunk /\ e.line = 1 /\ e.landed = jsdiff.landed
      BY <1>1 DEF Searches
    <3> HIDE DEF e
    <3>4. w \in Watches(hunks)
      BY <1>1, <1>3, <1>4, <1>5, <3>3, ObservedMismatch
    <3> HIDE DEF w
    <3>5. Diff!TypeOK'
      BY <3>1, <3>4, <2>1, <1>1, <1>2, StillPatchTyped
    <3> QED
      BY <3>1, <3>2, <3>5 DEF Staged
  <2>4. CASE Diff!Candidates # {}
    <3>1. PICK p \in Diff!Candidates : jsdiff' = [jsdiff EXCEPT !.toPos = p, !.line = 1, !.tried = @ \cup {p}]
      BY <2>4, <1>8 DEF Diff!Compare
    <3>2. outcome' = "search"
      BY <2>4, <1>2, <1>8 DEF Diff!Compare
    <3>3. p \in Int /\ p >= jsdiff.minLine
      <4>1. p \in jsdiff.minLine .. (Len(original) - Diff!OldLines(Diff!Current))
        BY <3>1 DEF Diff!Candidates
      <4> QED
        BY <4>1, <1>5
    <3> DEFINE e == [jsdiff EXCEPT !.toPos = p, !.line = 1, !.tried = @ \cup {p}]
    <3>4. /\ e \in Searches(hunks) /\ e.hunk = jsdiff.hunk /\ e.line = 1 /\ e.toPos = p
          /\ e.minLine = jsdiff.minLine /\ e.landed = jsdiff.landed /\ e.result = jsdiff.result
      BY <1>1, <3>3 DEF Searches
    <3> HIDE DEF e
    <3>5. w \in Watches(hunks) /\ Watching(hunks, e, w)
      BY <1>1, <1>3, <1>4, <1>5, <3>4, ObservedMismatch
    <3>6. Placed(original, hunks, e) /\ Trusted(original, hunks, e) /\ Assembled(original, hunks, e)
      BY <1>1, <1>3, <1>4, <2>2, <3>3, <3>4, HunkMoved
    <3> HIDE DEF w
    <3>7. Diff!TypeOK'
      BY <3>1, <3>2, <3>4, <3>5, <2>1, <1>2, StillPatchTyped DEF e
    <3>8. Staged(original, hunks, e, w, "search")
      BY <3>5, <3>6, <1>3 DEF Staged, Search
    <3> QED
      BY <3>1, <3>2, <3>7, <3>8, <2>1 DEF e
  <2> QED
    BY <2>3, <2>4
<1> QED
  BY <1>7, <1>8

\* A hunk is written where every line of it matched.
LEMMA HunkAppliesKeeps ==
  ASSUME Diff!TypeOK, Staged(original, hunks, jsdiff, watch, outcome), Diff!HunkApplies
  PROVE  Diff!TypeOK' /\ Staged(original, hunks, jsdiff', watch', outcome')
<1> DEFINE H == Len(hunks)
           S == {h \in Diff!Hunks : Diff!InNote(h, original)}
           h == hunks[jsdiff.hunk]
           offset == jsdiff.toPos + 1 - h.oldStart
           first == IF jsdiff.hunk < Len(hunks) THEN hunks[jsdiff.hunk + 1].oldStart + offset - 1 ELSE 0
           result == (jsdiff.result \o Diff!Copied(jsdiff.minLine, jsdiff.toPos)) \o Diff!NewLines(h)
           d == [hunk |-> jsdiff.hunk + 1, toPos |-> first, line |-> 1, tried |-> {first},
                 minLine |-> jsdiff.toPos + Old(h), offset |-> offset,
                 landed |-> Append(jsdiff.landed, jsdiff.toPos), result |-> result]
<1>1. /\ original \in Seq(Texts) /\ hunks \in Seq(S) /\ S \subseteq Diff!Hunks
      /\ jsdiff \in Searches(hunks) /\ watch \in Watches(hunks) /\ H \in Nat
      /\ \A i \in 1 .. H : /\ hunks[i] \in Diff!Hunks
                           /\ hunks[i].oldStart \in Nat /\ hunks[i].oldStart >= 1 /\ Old(hunks[i]) \in Nat
  BY HunksAre
<1>2. /\ original' = original /\ hunks' = hunks /\ outcome = "search"
      /\ watch' = watch /\ outcome' = "search"
      /\ jsdiff.hunk <= H /\ jsdiff.line > Old(h)
  BY DEF Diff!HunkApplies, Diff!Searching, Diff!Current, Old
<1>3. /\ InRow(hunks) /\ Placed(original, hunks, jsdiff) /\ Watching(hunks, jsdiff, watch)
      /\ Trusted(original, hunks, jsdiff) /\ Assembled(original, hunks, jsdiff)
  BY <1>2 DEF Staged, Search
<1>4. jsdiff' = d
  BY DEF Diff!HunkApplies, Diff!Current, Old
<1>5. /\ jsdiff.hunk \in 1 .. H /\ jsdiff.minLine \in Nat /\ jsdiff.toPos \in Nat
      /\ jsdiff.landed \in Seq(Int) /\ jsdiff.result \in Seq(Lines) /\ jsdiff.line \in Nat
  <2>1. jsdiff.hunk \in 1 .. H + 1 /\ jsdiff.hunk <= H
    BY <1>1, <1>2 DEF Searches
  <2>2. jsdiff.toPos \in Nat
    BY <1>2, <1>3 DEF Placed, At
  <2> QED
    BY <2>1, <2>2, <1>1 DEF Searches
<1>6. /\ h \in Diff!Hunks /\ h.oldStart \in Nat /\ h.oldStart >= 1 /\ Old(h) \in Nat
      /\ Diff!NewLines(h) \in Seq(Lines)
  BY <1>1, <1>5, HunkIs
<1> HIDE DEF S, H, h
<1>7. offset \in Int
  BY <1>5, <1>6
<1> HIDE DEF offset
<1>8. first \in Int /\ (jsdiff.hunk + 1 <= H => first = hunks[jsdiff.hunk + 1].oldStart + offset - 1)
  <2>1. CASE jsdiff.hunk < H
    <3>1. jsdiff.hunk + 1 \in 1 .. H
      BY <2>1, <1>1, <1>5
    <3>2. hunks[jsdiff.hunk + 1].oldStart \in Int
      BY <3>1, <1>1
    <3>3. first = hunks[jsdiff.hunk + 1].oldStart + offset - 1
      BY <2>1 DEF H
    <3> QED
      BY <3>2, <3>3, <1>7
  <2>2. CASE ~(jsdiff.hunk < H)
    <3>1. ~(jsdiff.hunk + 1 <= H)
      BY <2>2, <1>1, <1>5
    <3>2. first = 0
      BY <2>2 DEF H
    <3> QED
      BY <3>1, <3>2
  <2> QED
    BY <2>1, <2>2
<1> HIDE DEF first
<1>9. result \in Seq(Lines)
  <2>1. Diff!Copied(jsdiff.minLine, jsdiff.toPos) \in Seq(Lines)
    <3> DEFINE a == jsdiff.minLine
               b == jsdiff.toPos
    <3>1. a \in Nat /\ b \in Int
      BY <1>5
    <3> HIDE DEF a, b
    <3>2. Diff!Copied(a, b) \in Seq(Lines)
      BY <3>1, <1>1, CopiedTyped
    <3> QED
      BY <3>2 DEF a, b
  <2> DEFINE C == Diff!Copied(jsdiff.minLine, jsdiff.toPos)
             N == Diff!NewLines(h)
             R == jsdiff.result
  <2>2. C \in Seq(Lines) /\ N \in Seq(Lines) /\ R \in Seq(Lines)
    BY <2>1, <1>5, <1>6
  <2> HIDE DEF C, N, R
  <2>3. (R \o C) \o N \in Seq(Lines)
    BY <2>2
  <2> QED
    BY <2>3 DEF C, N, R
<1> HIDE DEF result
<1>10. /\ d \in Searches(hunks)
       /\ d.hunk = jsdiff.hunk + 1 /\ d.toPos = first /\ d.line = 1 /\ d.minLine = jsdiff.toPos + Old(h)
       /\ d.landed = Append(jsdiff.landed, jsdiff.toPos) /\ d.result = result
  <2>1. jsdiff.hunk + 1 \in 1 .. H + 1 /\ jsdiff.toPos + Old(h) \in Nat
    <3>1. H \in Nat
      BY <1>1
    <3>2. jsdiff.hunk + 1 \in 1 .. H + 1
      BY <3>1, <1>5
    <3> QED
      BY <3>2, <1>5, <1>6
  <2>2. Append(jsdiff.landed, jsdiff.toPos) \in Seq(Int)
    BY <1>5, AppendProperties
  <2> QED
    BY <2>1, <2>2, <1>7, <1>8, <1>9 DEF Searches, H
<1> HIDE DEF d
<1>11. d.hunk <= H => d.toPos = hunks[d.hunk].oldStart + (jsdiff.toPos + 1 - h.oldStart) - 1
  BY <1>8, <1>10 DEF offset
<1>12. ~Pending(hunks, jsdiff)
  <2>1. ~(jsdiff.line <= Old(h))
    BY <1>2, <1>5, <1>6
  <2> QED
    BY <2>1 DEF Pending, h
<1>13. /\ Len(d.landed) = jsdiff.hunk /\ d.landed[jsdiff.hunk] = jsdiff.toPos
       /\ \A k \in 1 .. jsdiff.hunk - 1 : d.landed[k] = jsdiff.landed[k]
  <2> DEFINE u == jsdiff.landed
             v == d.landed
             p == jsdiff.toPos
             n == jsdiff.hunk
  <2>1. u \in Seq(Int) /\ Len(u) = n - 1 /\ p \in Int /\ n \in Nat /\ v = Append(u, p)
    BY <1>1, <1>3, <1>5, <1>10 DEF Placed
  <2> HIDE DEF u, v, p, n
  <2>2. Len(v) = Len(u) + 1 /\ v[Len(u) + 1] = p /\ \A k \in 1 .. Len(u) : v[k] = u[k]
    BY <2>1, AppendProperties
  <2>3. Len(v) = n /\ v[n] = p /\ \A k \in 1 .. n - 1 : v[k] = u[k]
    BY <2>1, <2>2
  <2> QED
    BY <2>3 DEF u, v, p, n
<1>14. Placed(original, hunks, d) /\ Trusted(original, hunks, d)
  BY <1>1, <1>2, <1>3, <1>10, <1>11, <1>12, <1>13, HunkPlaced DEF h, H
<1>15. Watching(hunks, d, watch)
  BY <1>1, <1>2, <1>3, <1>10, <1>11, <1>12, <1>13, ObserverAhead DEF h, H
<1>16. Assembled(original, hunks, d)
  BY <1>1, <1>2, <1>3, <1>10, <1>13, HunkWritten DEF h, H, result
<1>17. Diff!TypeOK'
  BY <1>1, <1>2, <1>4, <1>10, StillPatchTyped
<1>18. Staged(original, hunks, d, watch, "search")
  BY <1>3, <1>14, <1>15, <1>16 DEF Staged, Search
<1> QED
  BY <1>2, <1>4, <1>17, <1>18

\* When every hunk is written the observer has seen every landing, and the rest
\* of the note is copied.
LEMMA SearchEndsKeeps ==
  ASSUME Diff!TypeOK, Staged(original, hunks, jsdiff, watch, outcome), Diff!SearchEnds
  PROVE  Diff!TypeOK' /\ Staged(original, hunks, jsdiff', watch', outcome')
<1> DEFINE H == Len(hunks)
           S == {h \in Diff!Hunks : Diff!InNote(h, original)}
           m == jsdiff.minLine
           C == Diff!Copied(m, Len(original))
           R == jsdiff.result
           d == [jsdiff EXCEPT !.result = @ \o C]
<1>1. /\ original \in Seq(Texts) /\ hunks \in Seq(S) /\ S \subseteq Diff!Hunks
      /\ jsdiff \in Searches(hunks) /\ watch \in Watches(hunks) /\ H \in Nat
  BY HunksAre
<1>2. /\ original' = original /\ hunks' = hunks /\ outcome = "search"
      /\ watch' = watch /\ outcome' = "landing" /\ jsdiff' = d /\ jsdiff.hunk > H
  BY DEF Diff!SearchEnds
<1>3. /\ InRow(hunks) /\ Placed(original, hunks, jsdiff) /\ Watching(hunks, jsdiff, watch)
      /\ Trusted(original, hunks, jsdiff) /\ Assembled(original, hunks, jsdiff)
  BY <1>2 DEF Staged, Search
<1>4. jsdiff.hunk = H + 1 /\ m \in Nat /\ R \in Seq(Lines) /\ jsdiff.landed \in Seq(Int)
  <2>1. jsdiff.hunk \in 1 .. H + 1
    BY <1>1 DEF Searches
  <2> QED
    BY <2>1, <1>1, <1>2 DEF Searches
<1>5. Len(original) \in Nat
  BY <1>1, LenProperties
<1>6. C \in Seq(Lines)
  <2> DEFINE n == Len(original)
  <2>1. m \in Nat /\ n \in Int
    BY <1>4, <1>5
  <2> HIDE DEF m, n
  <2>2. Diff!Copied(m, n) \in Seq(Lines)
    BY <2>1, <1>1, CopiedTyped
  <2> QED
    BY <2>2 DEF n
<1> HIDE DEF S, H, C
<1>7. /\ d \in Searches(hunks) /\ d.hunk = jsdiff.hunk /\ d.toPos = jsdiff.toPos /\ d.line = jsdiff.line
      /\ d.minLine = m /\ d.landed = jsdiff.landed /\ d.result = R \o C
  <2>1. R \o C \in Seq(Lines)
    <3> HIDE DEF R
    <3> QED
      BY <1>4, <1>6
  <2> QED
    BY <2>1, <1>1 DEF Searches
<1> HIDE DEF d
<1>8. Placed(original, hunks, d) /\ Trusted(original, hunks, d)
  <2>1. ~(d.hunk <= Len(hunks))
    BY <1>1, <1>4, <1>7 DEF H
  <2> QED
    BY <2>1, <1>3, <1>7 DEF Placed, Trusted, Headed
<1>9. watch.landings = d.landed
  <2>1. watch.hunkIdx = H + 1
    <3>1. ~Pending(hunks, jsdiff)
      BY <1>1, <1>4 DEF Pending, H
    <3>2. watch.hunkIdx > jsdiff.hunk \/ watch.hunkIdx = H + 1
      BY <3>1, <1>3 DEF Watching, H
    <3>3. watch.hunkIdx \in 1 .. H + 1
      BY <1>1 DEF Watches, H
    <3> QED
      BY <3>2, <3>3, <1>1, <1>4
  <2>2. \A k \in 1 .. H : watch.landings[k] = jsdiff.landed[k]
    <3> TAKE k \in 1 .. H
    <3>1. k \in 1 .. watch.hunkIdx - 1 /\ k < jsdiff.hunk
      BY <2>1, <1>1, <1>4
    <3> QED
      BY <3>1, <1>3 DEF Watching, Known
  <2>3. watch.landings \in [1 .. H -> Int]
    BY <1>1 DEF Watches, H
  <2>4. Len(jsdiff.landed) = H
    <3>1. Len(jsdiff.landed) = jsdiff.hunk - 1
      BY <1>3 DEF Placed
    <3> QED
      BY <3>1, <1>1, <1>4
  <2>5. jsdiff.landed \in [1 .. H -> Int]
    <3>1. jsdiff.landed \in [1 .. Len(jsdiff.landed) -> Int]
      BY <1>4
    <3> QED
      BY <3>1, <2>4
  <2> DEFINE u == watch.landings
             v == jsdiff.landed
  <2>6. u \in [1 .. H -> Int] /\ v \in [1 .. H -> Int] /\ \A k \in 1 .. H : u[k] = v[k]
    BY <2>2, <2>3, <2>5
  <2> HIDE DEF u, v
  <2>7. u = [k \in 1 .. H |-> u[k]] /\ v = [k \in 1 .. H |-> v[k]]
    BY <2>6
  <2>8. u = v
    BY <2>6, <2>7
  <2> QED
    BY <2>8, <1>7 DEF u, v
<1>10. ASSUME Inside(original, hunks), Headed(hunks, d)
       PROVE  d.result = Diff!Edited(original, hunks)[H]
  <2> DEFINE f == Diff!Edited(original, hunks)
             t == SubSeq(original, m + 1, Len(original))
  <2>1. Headed(hunks, jsdiff)
    BY <1>7, <1>10 DEF Headed
  <2>2. f[0] = original
    BY <1>1, <1>3, <1>10, EditedIs
  <2>3. H + 1 - jsdiff.hunk = 0
    BY <1>1, <1>4
  <2>4. R \o SubSeq(f[H + 1 - jsdiff.hunk], m + 1, Len(f[H + 1 - jsdiff.hunk])) = f[H]
    BY <2>1, <1>3, <1>10 DEF Assembled, H
  <2> HIDE DEF f
  <2>5. R \o t = f[H]
    BY <2>2, <2>3, <2>4
  <2>6. C = t
    <3>1. CASE m <= Len(original)
      <4>1. original \in Seq(Lines)
        BY <1>1 DEF Lines
      <4> DEFINE n == Len(original)
      <4>2. m \in Nat /\ n \in Nat /\ m <= n /\ n <= Len(original) /\ Len(original) = n
        BY <3>1, <1>4, <1>5
      <4> HIDE DEF m, n
      <4>3. Diff!Copied(m, n) = SubSeq(original, m + 1, Len(original))
        BY <4>1, <4>2, <1>1, CopiedIs
      <4> QED
        BY <4>3 DEF C, n
    <3>2. CASE ~(m <= Len(original))
      <4>1. 1 .. (Len(original) - m) = {} /\ m + 1 > Len(original)
        BY <3>2, <1>4, <1>5
      <4>2. C = <<>>
        BY <4>1 DEF C, Diff!Copied
      <4>3. t = <<>>
        BY <4>1, <1>4, <1>5, SubSeqEmpty
      <4> QED
        BY <4>2, <4>3
    <3> QED
      BY <3>1, <3>2
  <2> QED
    BY <2>5, <2>6, <1>7 DEF f
<1>11. Diff!TypeOK'
  BY <1>1, <1>2, <1>7, StillPatchTyped
<1>12. Found(original, hunks, d, watch)
  BY <1>4, <1>7, <1>8, <1>9, <1>10 DEF Found, H
<1>13. Staged(original, hunks, d, watch, "landing")
  BY <1>3, <1>12 DEF Staged
<1> QED
  BY <1>2, <1>11, <1>13

\* An honest patch's hunks have all landed at their headers.
LEMMA CheckLandingsKeeps ==
  ASSUME Diff!TypeOK, Staged(original, hunks, jsdiff, watch, outcome), Diff!CheckLandings
  PROVE  Diff!TypeOK' /\ Staged(original, hunks, jsdiff', watch', outcome')
<1> DEFINE H == Len(hunks)
           there(i) == /\ watch.landings[i] # Diff!Unreached
                       /\ LET n == watch.landings[i] - (hunks[i].oldStart - 1) IN n \in -0 .. 0
<1>1. /\ DOMAIN hunks = 1 .. H /\ H \in Nat /\ jsdiff \in Searches(hunks) /\ watch \in Watches(hunks)
      /\ \A i \in 1 .. H : hunks[i].oldStart \in Nat /\ hunks[i].oldStart >= 1
  BY HunksAre, LenProperties
<1>2. /\ original' = original /\ hunks' = hunks /\ jsdiff' = jsdiff /\ watch' = watch /\ outcome = "landing"
      /\ outcome' = IF \A i \in DOMAIN hunks : there(i) THEN "applied" ELSE "SYNTAX_BREAK"
  BY DEF Diff!CheckLandings
<1>3. InRow(hunks) /\ Found(original, hunks, jsdiff, watch)
  BY <1>2 DEF Staged
<1>4. \A i \in 1 .. H : watch.landings[i] = jsdiff.landed[i] /\ watch.landings[i] \in Int
  BY <1>1, <1>3 DEF Found, Watches
<1>5. \A i \in 1 .. H : there(i) <=> jsdiff.landed[i] = hunks[i].oldStart - 1
  <2> TAKE i \in 1 .. H
  <2> DEFINE p == watch.landings[i]
             q == hunks[i].oldStart
  <2>1. p \in Int /\ q \in Nat /\ q >= 1 /\ p = jsdiff.landed[i]
    BY <1>1, <1>4
  <2> HIDE DEF p, q
  <2>2. (p # -1 /\ p - (q - 1) \in -0 .. 0) <=> p = q - 1
    BY <2>1
  <2> QED
    BY <2>1, <2>2 DEF p, q, Diff!Unreached
<1> HIDE DEF there, H
<1>6. Diff!TypeOK'
  BY <1>1, <1>2, StillPatchTyped
<1>7. CASE \A i \in 1 .. H : there(i)
  <2>1. outcome' = "applied"
    BY <1>1, <1>2, <1>7
  <2>2. \A i \in 1 .. H : jsdiff.landed[i] = hunks[i].oldStart - 1
    BY <1>5, <1>7
  <2>3. Staged(original, hunks, jsdiff, watch, "applied")
    BY <2>2, <1>3 DEF Staged, H
  <2> QED
    BY <2>1, <2>3, <1>2, <1>6
<1>8. CASE ~\A i \in 1 .. H : there(i)
  <2>1. outcome' = "SYNTAX_BREAK"
    BY <1>1, <1>2, <1>8
  <2>2. PICK i \in 1 .. H : jsdiff.landed[i] # hunks[i].oldStart - 1
    BY <1>5, <1>8
  <2>3. ~Headed(hunks, jsdiff)
    <3>1. i \in 1 .. jsdiff.hunk - 1
      BY <1>1, <1>3 DEF Found, H
    <3> QED
      BY <2>2, <3>1 DEF Headed
  <2>4. ~Honest(original, hunks)
    BY <2>3, <1>3 DEF Found, Trusted
  <2>5. Staged(original, hunks, jsdiff, watch, "SYNTAX_BREAK")
    BY <2>4 DEF Staged
  <2> QED
    BY <2>1, <2>5, <1>2, <1>6
<1> QED
  BY <1>7, <1>8

LEMMA PatchInvInit == Init => PatchInv
<1> SUFFICES ASSUME Init, gate = "patch"
             PROVE  Diff!TypeOK /\ Staged(original, hunks, jsdiff, watch, outcome)
  BY DEF PatchInv
<1>1. Diff!Init
  BY DEF Init
<1> DEFINE S == {h \in Diff!Hunks : Diff!InNote(h, original)}
<1>2. MaxLines \in Nat /\ MaxHunks \in Nat
  BY Parameters DEF Diff!PatchAssumption
<1>3. original \in Seq(Texts)
  BY <1>1, <1>2 DEF Diff!Init, Diff!Notes, Diff!BoundedSeq, Diff!SeqOf
<1>4. hunks \in Diff!BoundedSeq(S, MaxHunks) /\ hunks # <<>>
  BY <1>1 DEF Diff!Init
<1>5. hunks \in Seq(S)
  <2> HIDE DEF S
  <2> QED
    BY <1>2, <1>4 DEF Diff!BoundedSeq, Diff!SeqOf
<1>6. DOMAIN hunks = 1 .. Len(hunks) /\ Len(hunks) \in Nat /\ Len(hunks) >= 1
  BY <1>4, <1>5, EmptySeq, LenProperties
<1>7. /\ jsdiff = [hunk |-> 1, toPos |-> 0, line |-> 1, tried |-> {}, minLine |-> 0, offset |-> 0,
                   landed |-> <<>>, result |-> <<>>]
      /\ watch = [hunkIdx |-> 1, runCount |-> 0, runStart |-> 0,
                  landings |-> [i \in DOMAIN hunks |-> Diff!Unreached]]
      /\ outcome = "guard"
  BY <1>1 DEF Diff!Init
<1>8. 1 \in 1 .. Len(hunks) + 1 /\ <<>> \in Seq(Int) /\ <<>> \in Seq(Lines)
  BY <1>6
<1>9. jsdiff \in Searches(hunks)
  <2> DEFINE r == <<>>
  <2>1. r \in Seq(Int) /\ r \in Seq(Lines)
    BY <1>8
  <2>2. jsdiff = [hunk |-> 1, toPos |-> 0, line |-> 1, tried |-> {}, minLine |-> 0, offset |-> 0,
                  landed |-> r, result |-> r]
    BY <1>7
  <2> HIDE DEF r
  <2> QED
    BY <2>1, <2>2, <1>8 DEF Searches
<1>10. watch \in Watches(hunks)
  <2> DEFINE l == [i \in 1 .. Len(hunks) |-> Diff!Unreached]
  <2>1. Diff!Unreached \in Int
    BY DEF Diff!Unreached
  <2>2. l \in [1 .. Len(hunks) -> Int]
    BY <2>1
  <2>3. watch = [hunkIdx |-> 1, runCount |-> 0, runStart |-> 0, landings |-> l]
    BY <1>6, <1>7
  <2> HIDE DEF l
  <2> QED
    BY <2>2, <2>3, <1>8 DEF Watches
<1>11. Diff!TypeOK
  BY <1>3, <1>4, <1>5, <1>7, <1>9, <1>10, PatchTyped, Zenon
<1>12. Start(original, hunks, jsdiff, watch)
  BY <1>7 DEF Start
<1> QED
  BY <1>7, <1>11, <1>12 DEF Staged

LEMMA PatchInvStep == PatchInv /\ [Next]_vars => PatchInv'
<1> SUFFICES ASSUME PatchInv, [Next]_vars, gate' = "patch"
             PROVE  PatchInv'
  BY DEF PatchInv
<1>1. gate = "patch" /\ ([Diff!Next]_patchVars)
  BY DEF Next, vars, patchVars
<1>2. Diff!TypeOK /\ Staged(original, hunks, jsdiff, watch, outcome)
  BY <1>1 DEF PatchInv
<1>3. CASE Diff!Next
  <2>1. Diff!TypeOK' /\ Staged(original, hunks, jsdiff', watch', outcome')
    BY <1>2, <1>3, GuardKeeps, CompareKeeps, HunkAppliesKeeps, SearchEndsKeeps, CheckLandingsKeeps
       DEF Diff!Next
  <2>2. original' = original /\ hunks' = hunks
    BY <1>3 DEF Diff!Next, Diff!Guard, Diff!Compare, Diff!HunkApplies, Diff!SearchEnds, Diff!CheckLandings
  <2>3. Staged(original', hunks', jsdiff', watch', outcome')
    BY <2>1, <2>2
  <2> QED
    BY <2>1, <2>3 DEF PatchInv
<1>4. CASE UNCHANGED patchVars
  <2>1. original' = original /\ hunks' = hunks /\ jsdiff' = jsdiff /\ watch' = watch /\ outcome' = outcome
    BY <1>4 DEF patchVars
  <2>2. Diff!TypeOK'
    BY <2>1, <1>2, Zenon DEF Diff!TypeOK
  <2>3. Staged(original', hunks', jsdiff', watch', outcome')
    BY <2>1, <1>2
  <2> QED
    BY <2>2, <2>3 DEF PatchInv
<1> QED
  BY <1>1, <1>3, <1>4

\* A hunk found at its header is the note's lines there.
LEMMA LandedIsVerbatim ==
  ASSUME Diff!TypeOK, Found(original, hunks, jsdiff, watch), NEW i \in 1 .. Len(hunks),
         jsdiff.landed[i] = hunks[i].oldStart - 1
  PROVE  Diff!Verbatim(hunks[i])
<1> DEFINE h == hunks[i]
           s == h.oldStart
           n == Old(h)
<1>1. h \in Diff!Hunks /\ Diff!InNote(h, original) /\ s \in Nat /\ s >= 1 /\ n \in Nat /\ original \in Seq(Texts)
  BY HunksAre
<1>2. Len(original) \in Nat
  BY <1>1, LenProperties
<1>3. Diff!Matchable(h) \in Seq(Texts) /\ Len(Diff!Matchable(h)) = n
  BY <1>1, HunkIs
<1>4. At(original, h, s - 1, n)
  <2>1. i \in 1 .. jsdiff.hunk - 1
    BY HunksAre DEF Found
  <2> QED
    BY <2>1 DEF Found, Placed
<1> HIDE DEF h, n, s
<1>5. ASSUME NEW k \in 1 .. n
      PROVE  s + k - 1 <= Len(original) /\ original[s + k - 1] = Diff!Matchable(h)[k]
  <2>1. Line(original, (s - 1) + k - 1) = Diff!Matchable(h)[k]
    BY <1>4 DEF At
  <2>2. Diff!Matchable(h)[k] \in Texts
    BY <1>3, ElementOfSeq
  <2>3. "undefined" \notin Texts
    BY Parameters DEF Diff!PatchAssumption
  <2>4. (s - 1) + k - 1 \in 0 .. Len(original) - 1
    BY <2>1, <2>2, <2>3 DEF Line
  <2>5. s + k - 1 <= Len(original) /\ ((s - 1) + k - 1) + 1 = s + k - 1
    BY <2>4, <1>1, <1>2
  <2> QED
    BY <2>1, <2>4, <2>5 DEF Line
<1>6. s + n - 1 <= Len(original)
  <2>1. CASE n = 0
    <3>1. s <= Len(original) + 1
      BY <2>1, <1>1 DEF Diff!InNote, Old, n, s
    <3> QED
      BY <3>1, <2>1, <1>1, <1>2
  <2>2. CASE n # 0
    <3>1. n \in 1 .. n
      BY <2>2, <1>1
    <3> QED
      BY <3>1, <1>5
  <2> QED
    BY <2>1, <2>2
<1> QED
  BY <1>5, <1>6 DEF Diff!Verbatim, Old, h, n, s

\* An accepted patch did what its headers say and no more, and a patch in order
\* and in place is never taken for a relocated one (AppliedAsDeclared).
THEOREM AppliedAsDeclaredHolds == Spec => []AppliedAsDeclared
<1>1. PatchInv => AppliedAsDeclared
  <2> SUFFICES ASSUME PatchInv, gate = "patch"
               PROVE  Diff!AppliedAsDeclared
    BY DEF AppliedAsDeclared
  <2>1. Diff!TypeOK /\ Staged(original, hunks, jsdiff, watch, outcome)
    BY DEF PatchInv
  <2>2. DOMAIN hunks = 1 .. Len(hunks)
    BY <2>1, HunksAre, LenProperties
  <2>3. Diff!LandingsAreTrue
    BY <2>1 DEF Diff!LandingsAreTrue, Staged, Found
  <2>4. ASSUME outcome = "applied"
        PROVE  (\A i \in DOMAIN hunks : Diff!Verbatim(hunks[i])) /\ jsdiff.result = Diff!Declared
    <3>1. /\ Found(original, hunks, jsdiff, watch)
          /\ \A i \in 1 .. Len(hunks) : jsdiff.landed[i] = hunks[i].oldStart - 1
      BY <2>1, <2>4 DEF Staged
    <3>2. \A i \in 1 .. Len(hunks) : Diff!Verbatim(hunks[i])
      BY <2>1, <3>1, LandedIsVerbatim
    <3>3. Inside(original, hunks)
      BY <3>2 DEF Inside, Diff!Verbatim, Old
    <3>4. Headed(hunks, jsdiff)
      <4>1. jsdiff.hunk - 1 = Len(hunks)
        BY <2>1, <3>1, HunksAre DEF Found
      <4> QED
        BY <3>1, <4>1 DEF Headed
    <3>5. jsdiff.result = Diff!Edited(original, hunks)[Len(hunks)]
      BY <3>1, <3>3, <3>4 DEF Found
    <3> QED
      BY <2>2, <3>2, <3>5 DEF Diff!Declared
  <2>5. ASSUME outcome = "SYNTAX_BREAK"
        PROVE  ~(Diff!InOrder /\ \A i \in DOMAIN hunks : Diff!Verbatim(hunks[i]))
    <3>1. ~Honest(original, hunks)
      BY <2>1, <2>5 DEF Staged
    <3>2. Diff!InOrder /\ (\A i \in DOMAIN hunks : Diff!Verbatim(hunks[i])) => Honest(original, hunks)
      BY DEF Diff!InOrder, Diff!Verbatim, Honest, InPlace, Old
    <3> QED
      BY <3>1, <3>2
  <2> QED
    BY <2>3, <2>4, <2>5 DEF Diff!AppliedAsDeclared
<1> QED
  BY <1>1, PatchInvInit, PatchInvStep, PTL DEF Spec
=============================================================================
