----------------------------- MODULE EthProofs ------------------------------
(***************************************************************************)
(* The Ethernet driver's rings are two queues of frames, for every number  *)
(* of descriptors and every set of frames, with frames going both ways:    *)
(* the safety half of what EthPort states.                                 *)
(***************************************************************************)
EXTENDS EthRing, Integers, TLAPS

-----------------------------------------------------------------------------
(* Positions in a ring.                                                    *)

\* j places after i
At(i, j, size) == (i + j) % size

(* A place on the ring, without the remainder.                             *)
LEMMA AtIs ==
  ASSUME NEW size \in Nat \ {0}, NEW i \in 0 .. size - 1, NEW j \in 0 .. size
  PROVE  /\ At(i, j, size) = IF i + j < size THEN i + j ELSE i + j - size
         /\ At(i, j, size) \in 0 .. size - 1
  <1>1. (i + j) % size \in 0 .. size - 1 /\ (i + j) \div size \in Int
        /\ i + j = size * ((i + j) \div size) + ((i + j) % size)
    OBVIOUS
  <1> DEFINE q == (i + j) \div size
             r == (i + j) % size
  <1>2. r \in 0 .. size - 1 /\ q \in Int /\ i + j = size * q + r
    BY <1>1
  <1> HIDE DEF q, r
  <1>3. q = 0 \/ q = 1
    <2>1. CASE q < 0
      BY <1>2, <2>1
    <2>2. CASE q >= 2
      BY <1>2, <2>2
    <2> QED BY <1>2, <2>1, <2>2
  <1>4. r = IF i + j < size THEN i + j ELSE i + j - size
    BY <1>2, <1>3
  <1> QED BY <1>2, <1>4 DEF At, r

(* Where one starts, and the same place the other way round.               *)
LEMMA AtEnds ==
  ASSUME NEW size \in Nat \ {0}, NEW i \in 0 .. size - 1
  PROVE  At(i, 0, size) = i /\ At(i, size, size) = i
  BY AtIs

(* Different places are different.                                         *)
LEMMA AtApart ==
  ASSUME NEW size \in Nat \ {0}, NEW i \in 0 .. size - 1,
         NEW j \in 0 .. size - 1, NEW k \in 0 .. size - 1, j # k
  PROVE  At(i, j, size) # At(i, k, size)
  <1>1. j \in 0 .. size /\ k \in 0 .. size
    OBVIOUS
  <1>2. /\ At(i, j, size) = IF i + j < size THEN i + j ELSE i + j - size
        /\ At(i, k, size) = IF i + k < size THEN i + k ELSE i + k - size
    BY <1>1, AtIs
  <1> QED BY <1>2

(* One place on.                                                           *)
LEMMA AtOn ==
  ASSUME NEW size \in Nat \ {0}, NEW i \in 0 .. size - 1, NEW j \in 0 .. size - 1
  PROVE  /\ At(At(i, 1, size), j, size) = At(i, j + 1, size)
         /\ At(At(i, j, size), 1, size) = At(i, j + 1, size)
  <1>1. 1 \in 0 .. size /\ j \in 0 .. size /\ j + 1 \in 0 .. size
    OBVIOUS
  <1> DEFINE a == At(i, 1, size)
             b == At(i, j, size)
             c == At(i, j + 1, size)
  <1>2. /\ a = (IF i + 1 < size THEN i + 1 ELSE i + 1 - size) /\ a \in 0 .. size - 1
        /\ b = (IF i + j < size THEN i + j ELSE i + j - size) /\ b \in 0 .. size - 1
        /\ c = (IF i + (j + 1) < size THEN i + (j + 1) ELSE i + (j + 1) - size)
    BY <1>1, AtIs
  <1> HIDE DEF a, b, c
  <1>3. /\ At(a, j, size) = IF a + j < size THEN a + j ELSE a + j - size
        /\ At(b, 1, size) = IF b + 1 < size THEN b + 1 ELSE b + 1 - size
    BY <1>1, <1>2, AtIs
  <1>4. At(a, j, size) = c /\ At(b, 1, size) = c
    BY <1>2, <1>3
  <1> QED BY <1>4 DEF a, b, c

-----------------------------------------------------------------------------
(* The descriptors one side has to deal with stand in a row.               *)

\* of size descriptors those in S are the n from first on
Row(desc, first, size, S, n) ==
  \A j \in 0 .. size - 1 : desc[At(first, j, size)] \in S <=> j < n

(* What Run finds is the row.                                              *)
LEMMA RunIs ==
  ASSUME NEW size \in Nat \ {0}, NEW first \in 0 .. size - 1, NEW desc, NEW S,
         NEW n \in 0 .. size, Row(desc, first, size, S, n)
  PROVE  Run(desc, first, size, S) = n
  <1> DEFINE P(k) == /\ \A j \in 0 .. (k - 1) : desc[(first + j) % size] \in S
                     /\ k < size => desc[(first + k) % size] \notin S
  <1>1. P(n)
    <2>1. \A j \in 0 .. (n - 1) : j \in 0 .. size - 1 /\ j < n
      OBVIOUS
    <2>2. n < size => n \in 0 .. size - 1
      OBVIOUS
    <2>3. \A j \in 0 .. (n - 1) : desc[(first + j) % size] \in S
      BY <2>1 DEF Row, At
    <2>4. n < size => desc[(first + n) % size] \notin S
      BY <2>2 DEF Row, At
    <2> QED BY <2>3, <2>4
  <1>2. ASSUME NEW k \in 0 .. size, P(k)
        PROVE  k = n
    <2>1. ~(k < n)
      BY <1>2 DEF Row, At
    <2>2. ~(n < k)
      BY <1>2 DEF Row, At
    <2> QED BY <2>1, <2>2
  <1>3. Run(desc, first, size, S) = CHOOSE k \in 0 .. size : P(k)
    BY DEF Run
  <1> HIDE DEF P
  <1> QED BY <1>1, <1>2, <1>3

(* One joins the row at its end.                                           *)
LEMMA RowGrows ==
  ASSUME NEW size \in Nat \ {0}, NEW first \in 0 .. size - 1, NEW desc, NEW new,
         NEW S, NEW n \in 0 .. size - 1, Row(desc, first, size, S, n),
         new[At(first, n, size)] \in S,
         \A i \in 0 .. size - 1 : i # At(first, n, size) => new[i] = desc[i]
  PROVE  Row(new, first, size, S, n + 1)
  <1> SUFFICES ASSUME NEW j \in 0 .. size - 1
               PROVE  new[At(first, j, size)] \in S <=> j < n + 1
    BY DEF Row
  <1>1. CASE j = n
    BY <1>1
  <1>2. CASE j # n
    <2>1. At(first, j, size) \in 0 .. size - 1
      <3>1. j \in 0 .. size
        OBVIOUS
      <3> QED BY <3>1, AtIs
    <2>2. At(first, j, size) # At(first, n, size)
      BY <1>2, AtApart
    <2> QED BY <1>2, <2>1, <2>2 DEF Row
  <1> QED BY <1>1, <1>2

(* The first one leaves it.                                                *)
LEMMA RowShrinks ==
  ASSUME NEW size \in Nat \ {0}, NEW first \in 0 .. size - 1, NEW desc, NEW new,
         NEW S, NEW n \in 1 .. size, Row(desc, first, size, S, n), new[first] \notin S,
         \A i \in 0 .. size - 1 : i # first => new[i] = desc[i]
  PROVE  Row(new, At(first, 1, size), size, S, n - 1)
  <1> DEFINE i == At(first, 1, size)
  <1> SUFFICES ASSUME NEW j \in 0 .. size - 1
               PROVE  new[At(i, j, size)] \in S <=> j < n - 1
    BY DEF Row
  <1>1. At(i, j, size) = At(first, j + 1, size)
    BY AtOn
  <1>2. CASE j = size - 1
    <2>1. At(i, j, size) = first
      BY <1>1, <1>2, AtEnds
    <2> QED BY <1>2, <2>1
  <1>3. CASE j # size - 1
    <2>1. j + 1 \in 0 .. size - 1 /\ j + 1 \in 0 .. size /\ 0 \in 0 .. size - 1
      BY <1>3
    <2>2. At(first, j + 1, size) # first /\ At(first, j + 1, size) \in 0 .. size - 1
      <3>1. At(first, j + 1, size) # At(first, 0, size)
        BY <2>1, AtApart
      <3> QED BY <2>1, <3>1, AtEnds, AtIs
    <2>3. desc[At(first, j + 1, size)] \in S <=> j + 1 < n
      BY <2>1 DEF Row
    <2>4. new[At(first, j + 1, size)] = desc[At(first, j + 1, size)]
      BY <2>2
    <2> QED BY <1>1, <2>3, <2>4
  <1> QED BY <1>2, <1>3

(* The frames of a row.                                                    *)
LEMMA ContentsAre ==
  ASSUME NEW size \in Nat \ {0}, NEW first \in 0 .. size - 1, NEW buf, NEW n \in 0 .. size
  PROVE  Contents(buf, first, size, n) = [j \in 1 .. n |-> buf[At(first, j - 1, size)]]
  <1>1. \A j \in 1 .. n : first + j - 1 = first + (j - 1)
    OBVIOUS
  <1>2. \A j \in 1 .. n : (first + j - 1) % size = At(first, j - 1, size)
    BY <1>1 DEF At
  <1> QED BY <1>2 DEF Contents

(* A longer row has one frame more.                                        *)
LEMMA ContentsGrow ==
  ASSUME NEW size \in Nat \ {0}, NEW first \in 0 .. size - 1, NEW buf,
         NEW n \in 0 .. size - 1
  PROVE  Contents(buf, first, size, n + 1)
           = Append(Contents(buf, first, size, n), buf[At(first, n, size)])
  <1> DEFINE B == {buf[i] : i \in 0 .. size - 1}
             old == Contents(buf, first, size, n)
             new == Contents(buf, first, size, n + 1)
             last == buf[At(first, n, size)]
  <1>0. n \in 0 .. size /\ n + 1 \in 0 .. size
    OBVIOUS
  <1>1. \A j \in 1 .. n + 1 : buf[At(first, j - 1, size)] \in B
    <2>1. \A j \in 1 .. n + 1 : j - 1 \in 0 .. size
      OBVIOUS
    <2> QED BY <2>1, AtIs
  <1>2. old = [j \in 1 .. n |-> buf[At(first, j - 1, size)]]
    BY <1>0, ContentsAre
  <1>3. new = [j \in 1 .. n + 1 |-> buf[At(first, j - 1, size)]]
    BY <1>0, ContentsAre
  <1>4. n + 1 \in 1 .. n + 1 /\ (n + 1) - 1 = n /\ \A j \in 1 .. n : j \in 1 .. n + 1
    OBVIOUS
  <1> HIDE DEF old, new, B
  <1>5. old \in Seq(B) /\ Len(old) = n /\ new \in Seq(B) /\ Len(new) = n + 1
    BY <1>1, <1>2, <1>3, <1>4
  <1>6. last \in B /\ new[n + 1] = last /\ \A j \in 1 .. n : new[j] = old[j]
    BY <1>1, <1>2, <1>3, <1>4
  <1> HIDE DEF last
  <1>7. new = Append(old, last)
    BY <1>5, <1>6
  <1> QED BY <1>7 DEF old, new, last

(* A row that lost its first has the others' frames.                       *)
LEMMA ContentsShrink ==
  ASSUME NEW size \in Nat \ {0}, NEW first \in 0 .. size - 1, NEW buf,
         NEW n \in 1 .. size
  PROVE  /\ Contents(buf, first, size, n) # << >>
         /\ Head(Contents(buf, first, size, n)) = buf[first]
         /\ Contents(buf, At(first, 1, size), size, n - 1) = Tail(Contents(buf, first, size, n))
  <1> DEFINE B == {buf[x] : x \in 0 .. size - 1}
             i == At(first, 1, size)
             old == Contents(buf, first, size, n)
             new == Contents(buf, i, size, n - 1)
  <1>0. 1 \in 0 .. size /\ n \in 0 .. size /\ n - 1 \in 0 .. size
    OBVIOUS
  <1>1. i \in 0 .. size - 1
    BY <1>0, AtIs
  <1> HIDE DEF i
  <1>2. \A j \in 1 .. n : buf[At(first, j - 1, size)] \in B
    <2>1. \A j \in 1 .. n : j - 1 \in 0 .. size
      OBVIOUS
    <2> QED BY <2>1, AtIs
  <1>3. old = [j \in 1 .. n |-> buf[At(first, j - 1, size)]]
    BY <1>0, ContentsAre
  <1>4. new = [j \in 1 .. n - 1 |-> buf[At(i, j - 1, size)]]
    BY <1>0, <1>1, ContentsAre
  <1>5. ASSUME NEW j \in 1 .. n - 1
        PROVE  j + 1 \in 1 .. n /\ buf[At(i, j - 1, size)] = old[j + 1]
    <2>1. j - 1 \in 0 .. size - 1 /\ j + 1 \in 1 .. n /\ (j - 1) + 1 = j /\ (j + 1) - 1 = j
      OBVIOUS
    <2>2. At(i, j - 1, size) = At(first, j, size)
      BY <2>1, AtOn DEF i
    <2> HIDE DEF old
    <2> QED BY <1>3, <2>1, <2>2
  <1>6. 1 \in 1 .. n /\ old[1] = buf[first]
    <2> HIDE DEF old
    <2> QED BY <1>3, AtEnds
  <1> HIDE DEF old, new, B
  <1>7. old \in Seq(B) /\ Len(old) = n
    BY <1>2, <1>3
  <1>8. new \in Seq(B) /\ Len(new) = n - 1 /\ \A j \in 1 .. n - 1 : new[j] = old[j + 1]
    <2>1. \A j \in 1 .. n - 1 : buf[At(i, j - 1, size)] \in B
      BY <1>5, <1>7
    <2> QED BY <1>4, <1>5, <2>1
  <1>9. old # << >> /\ Head(old) = old[1]
    BY <1>7
  <1>10. new = Tail(old)
    BY <1>7, <1>8
  <1> QED BY <1>6, <1>9, <1>10 DEF old, new, i

(* A frame stored past a row's end is none of the row's.                   *)
LEMMA ContentsKept ==
  ASSUME NEW size \in Nat \ {0}, NEW first \in 0 .. size - 1, NEW buf, NEW new,
         NEW n \in 0 .. size - 1,
         \A i \in 0 .. size - 1 : i # At(first, n, size) => new[i] = buf[i]
  PROVE  Contents(new, first, size, n) = Contents(buf, first, size, n)
  <1>1. ASSUME NEW j \in 1 .. n
        PROVE  new[(first + j - 1) % size] = buf[(first + j - 1) % size]
    <2>1. /\ j - 1 \in 0 .. size - 1 /\ j - 1 \in 0 .. size
          /\ j - 1 # n /\ first + j - 1 = first + (j - 1)
      OBVIOUS
    <2>2. At(first, j - 1, size) # At(first, n, size) /\ At(first, j - 1, size) \in 0 .. size - 1
      BY <2>1, AtApart, AtIs
    <2>3. (first + j - 1) % size = At(first, j - 1, size)
      BY <2>1 DEF At
    <2> QED BY <2>2, <2>3
  <1> QED BY <1>1 DEF Contents

(* As many frames as descriptors.                                          *)
LEMMA ContentsLen ==
  ASSUME NEW size \in Nat \ {0}, NEW first \in 0 .. size - 1, NEW buf, NEW n \in 0 .. size
  PROVE  Len(Contents(buf, first, size, n)) = n /\ (n = 0 => Contents(buf, first, size, n) = << >>)
  BY ContentsAre

-----------------------------------------------------------------------------
(* A ring as a queue: one side is at its head, the other past its end.     *)

\* the descriptors in S are those from first up to last
Between(desc, first, last, size, S) ==
  \E n \in 0 .. size : Row(desc, first, size, S, n) /\ last = At(first, n, size)

Queue(desc, buf, first, size, S) == Contents(buf, first, size, Run(desc, first, size, S))

\* two rings that differ at i at most
SameBut(new, old, i, size) == \A j \in 0 .. size - 1 : j # i => new[j] = old[j]

(* The side that fills the ring works past the end of the queue ...        *)
LEMMA Room ==
  ASSUME NEW size \in Nat \ {0}, NEW first \in 0 .. size - 1, NEW last, NEW S, NEW desc,
         Between(desc, first, last, size, S), desc[last] \notin S
  PROVE  \E n \in 0 .. size - 1 : Row(desc, first, size, S, n) /\ last = At(first, n, size)
  <1>1. PICK n \in 0 .. size : Row(desc, first, size, S, n) /\ last = At(first, n, size)
    BY DEF Between
  <1>2. n # size
    <2>1. CASE n = size
      <3>1. last = first /\ At(first, 0, size) = first
        BY <1>1, <2>1, AtEnds
      <3>2. 0 \in 0 .. size - 1 /\ 0 < n
        BY <2>1
      <3> QED BY <1>1, <3>1, <3>2 DEF Row
    <2> QED BY <2>1
  <1>3. n \in 0 .. size - 1
    BY <1>2
  <1> QED BY <1>1, <1>3

(* ... so that what it stores there is not in the queue yet ...            *)
LEMMA Outside ==
  ASSUME NEW size \in Nat \ {0}, NEW first \in 0 .. size - 1, NEW last, NEW S,
         NEW desc, NEW buf, NEW buf2,
         Between(desc, first, last, size, S), desc[last] \notin S, SameBut(buf2, buf, last, size)
  PROVE  /\ Len(Queue(desc, buf, first, size, S)) < size
         /\ Queue(desc, buf2, first, size, S) = Queue(desc, buf, first, size, S)
  <1>1. PICK n \in 0 .. size - 1 : Row(desc, first, size, S, n) /\ last = At(first, n, size)
    BY Room
  <1>2. n \in 0 .. size
    OBVIOUS
  <1>3. Run(desc, first, size, S) = n
    BY <1>1, <1>2, RunIs
  <1>4. Contents(buf2, first, size, n) = Contents(buf, first, size, n)
    BY <1>1, ContentsKept DEF SameBut
  <1>5. Len(Contents(buf, first, size, n)) < size
    BY <1>1, <1>2, ContentsLen
  <1> QED BY <1>3, <1>4, <1>5 DEF Queue

\* q2 is q with f added, and with f taken from it
Added(q2, q, f)   == q2 = Append(q, f)
Removed(q2, q, f) == q # << >> /\ Head(q) = f /\ q2 = Tail(q)

(* ... until it turns the descriptor there over.                           *)
LEMMA Joins ==
  ASSUME NEW size \in Nat \ {0}, NEW first \in 0 .. size - 1, NEW last, NEW S,
         NEW desc, NEW desc2,
         Between(desc, first, last, size, S), desc[last] \notin S, desc2[last] \in S,
         SameBut(desc2, desc, last, size)
  PROVE  /\ Between(desc2, first, At(last, 1, size), size, S)
         /\ At(last, 1, size) \in 0 .. size - 1
  <1>1. PICK n \in 0 .. size - 1 : Row(desc, first, size, S, n) /\ last = At(first, n, size)
    BY Room
  <1>2. n \in 0 .. size /\ n + 1 \in 0 .. size /\ 1 \in 0 .. size
    OBVIOUS
  <1>3. At(last, 1, size) = At(first, n + 1, size) /\ At(last, 1, size) \in 0 .. size - 1
    <2>1. last \in 0 .. size - 1
      BY <1>1, <1>2, AtIs
    <2>2. At(last, 1, size) \in 0 .. size - 1
      BY <1>2, <2>1, AtIs
    <2> QED BY <1>1, <2>2, AtOn
  <1>4. Row(desc2, first, size, S, n + 1)
    BY <1>1, RowGrows DEF SameBut
  <1> QED BY <1>2, <1>3, <1>4 DEF Between

(* The queue then has one frame more.                                      *)
LEMMA Adds ==
  ASSUME NEW size \in Nat \ {0}, NEW first \in 0 .. size - 1, NEW last, NEW S,
         NEW desc, NEW desc2, NEW buf,
         Between(desc, first, last, size, S), desc[last] \notin S, desc2[last] \in S,
         SameBut(desc2, desc, last, size)
  PROVE  Added(Queue(desc2, buf, first, size, S), Queue(desc, buf, first, size, S), buf[last])
  <1>1. PICK n \in 0 .. size - 1 : Row(desc, first, size, S, n) /\ last = At(first, n, size)
    BY Room
  <1>2. n \in 0 .. size /\ n + 1 \in 0 .. size
    OBVIOUS
  <1>3. Row(desc2, first, size, S, n + 1)
    BY <1>1, RowGrows DEF SameBut
  <1>4. Run(desc, first, size, S) = n /\ Run(desc2, first, size, S) = n + 1
    BY <1>1, <1>2, <1>3, RunIs
  <1>5. Contents(buf, first, size, n + 1) = Append(Contents(buf, first, size, n), buf[last])
    BY <1>1, ContentsGrow
  <1> QED BY <1>4, <1>5 DEF Queue, Added

(* The side that empties it turns over the descriptor it is at.            *)
LEMMA Leaves ==
  ASSUME NEW size \in Nat \ {0}, NEW first \in 0 .. size - 1, NEW last, NEW S,
         NEW desc, NEW desc2,
         Between(desc, first, last, size, S), desc[first] \in S, desc2[first] \notin S,
         SameBut(desc2, desc, first, size)
  PROVE  /\ Between(desc2, At(first, 1, size), last, size, S)
         /\ At(first, 1, size) \in 0 .. size - 1
  <1>1. PICK n \in 0 .. size : Row(desc, first, size, S, n) /\ last = At(first, n, size)
    BY DEF Between
  <1>2. n \in 1 .. size /\ n - 1 \in 0 .. size /\ n - 1 \in 0 .. size - 1
    <2>1. 0 \in 0 .. size - 1 /\ At(first, 0, size) = first
      BY AtEnds
    <2>2. 0 < n
      BY <1>1, <2>1 DEF Row
    <2> QED BY <2>2
  <1>3. At(first, 1, size) \in 0 .. size - 1
    <2>1. 1 \in 0 .. size
      OBVIOUS
    <2> QED BY <2>1, AtIs
  <1>4. Row(desc2, At(first, 1, size), size, S, n - 1)
    BY <1>1, <1>2, RowShrinks DEF SameBut
  <1>5. last = At(At(first, 1, size), n - 1, size)
    <2>1. At(At(first, 1, size), n - 1, size) = At(first, (n - 1) + 1, size)
      BY <1>2, AtOn
    <2> QED BY <1>1, <2>1
  <1> QED BY <1>2, <1>3, <1>4, <1>5 DEF Between

(* The queue then has lost its first frame.                                *)
LEMMA Removes ==
  ASSUME NEW size \in Nat \ {0}, NEW first \in 0 .. size - 1, NEW last, NEW S,
         NEW desc, NEW desc2, NEW buf,
         Between(desc, first, last, size, S), desc[first] \in S, desc2[first] \notin S,
         SameBut(desc2, desc, first, size)
  PROVE  Removed(Queue(desc2, buf, At(first, 1, size), size, S),
                 Queue(desc, buf, first, size, S), buf[first])
  <1>1. PICK n \in 0 .. size : Row(desc, first, size, S, n)
    BY DEF Between
  <1>2. n \in 1 .. size /\ n - 1 \in 0 .. size
    <2>1. 0 \in 0 .. size - 1 /\ At(first, 0, size) = first
      BY AtEnds
    <2>2. 0 < n
      BY <1>1, <2>1 DEF Row
    <2> QED BY <2>2
  <1>3. At(first, 1, size) \in 0 .. size - 1
    <2>1. 1 \in 0 .. size
      OBVIOUS
    <2> QED BY <2>1, AtIs
  <1>4. Row(desc2, At(first, 1, size), size, S, n - 1)
    BY <1>1, <1>2, RowShrinks DEF SameBut
  <1>5. Run(desc, first, size, S) = n
    BY <1>1, RunIs
  <1>6. Run(desc2, At(first, 1, size), size, S) = n - 1
    BY <1>2, <1>3, <1>4, RunIs
  <1>7. /\ Contents(buf, first, size, n) # << >>
        /\ Head(Contents(buf, first, size, n)) = buf[first]
        /\ Contents(buf, At(first, 1, size), size, n - 1) = Tail(Contents(buf, first, size, n))
    BY <1>2, ContentsShrink
  <1> QED BY <1>5, <1>6, <1>7 DEF Queue, Removed

(* A ring with none of its descriptors in S is empty.                      *)
LEMMA Empty ==
  ASSUME NEW size \in Nat \ {0}, NEW desc, NEW buf, NEW S,
         \A i \in 0 .. size - 1 : desc[i] \notin S
  PROVE  Between(desc, 0, 0, size, S) /\ Queue(desc, buf, 0, size, S) = << >>
  <1>1. 0 \in 0 .. size /\ 0 \in 0 .. size - 1 /\ At(0, 0, size) = 0
    <2>1. 0 \in 0 .. size - 1
      OBVIOUS
    <2> QED BY <2>1, AtEnds
  <1>2. Row(desc, 0, size, S, 0)
    <2>1. \A j \in 0 .. size - 1 : At(0, j, size) \in 0 .. size - 1 /\ ~(j < 0)
      <3>1. \A j \in 0 .. size - 1 : j \in 0 .. size
        OBVIOUS
      <3> QED BY <1>1, <3>1, AtIs
    <2> QED BY <2>1 DEF Row
  <1>3. Run(desc, 0, size, S) = 0 /\ Contents(buf, 0, size, 0) = << >>
    BY <1>1, <1>2, RunIs, ContentsLen
  <1> QED BY <1>1, <1>2, <1>3 DEF Between, Queue

-----------------------------------------------------------------------------
(* The inductive invariant.                                                *)

Given == {"dma"}          \* the status of a descriptor of a frame to transmit
Taken == {"ok", "es"}     \* and of one that was received
Kinds == Frames \cup {Nothing}   \* what a buffer can hold

Typed ==
  /\ rxIdx \in Rx /\ dmaRx \in Rx /\ txIdx \in Tx /\ dmaTx \in Tx
  /\ rxDesc \in [Rx -> Status \cup {"cpu"}] /\ txDesc \in [Tx -> {"dma", "cpu"}]
  /\ rxBuf \in [Rx -> Kinds] /\ txBuf \in [Tx -> Kinds]
  /\ DOMAIN cache = Lines

\* the driver runs only once it has set its rings up
Life ==
  /\ started => initialized
  /\ initialized => rxDesc \in [Rx -> Status]
  /\ rxPc # "idle" => initialized

\* the DMA transmits what stands between it and the driver
TxOrder == Between(txDesc, dmaTx, txIdx, TX, Given)

\* while hal_eth_send looks, what is cached of its descriptor errs one way;
\* once it is past the look the descriptor is its own
TxLook ==
  txPc = "look" =>
    LET c == cache[<<"txDesc", txIdx>>] IN
    c \in {Absent, "dma", "cpu"} /\ (c = "cpu" => txDesc[txIdx] = "cpu")
TxOwn ==
  /\ txPc \in {"copy", "hand"} => txDesc[txIdx] = "cpu"
  /\ txPc = "hand" => txBuf[txIdx] \in Frames

\* the driver takes what stands between it and the DMA
RxOrder == Between(rxDesc, rxIdx, dmaRx, RX, Taken)

\* and the same of hal_eth_receive, and of the frame it then copies
RxLook ==
  rxPc = "look" => cache[<<"rxDesc", rxIdx>>] \in {Absent, "dma", rxDesc[rxIdx]}
RxOwn ==
  /\ rxPc \in {"copy", "return"} => rxDesc[rxIdx] \in Taken
  /\ rxPc = "copy" => cache[<<"rxBuf", rxIdx>>] \in {Absent, rxBuf[rxIdx]}

TxPart == TxOrder /\ TxLook /\ TxOwn
RxPart == RxOrder /\ RxLook /\ RxOwn

EthInv == Typed /\ Life /\ TxPart /\ RxPart

-----------------------------------------------------------------------------
(* What the cache has loaded is never more than an earlier look.           *)

\* a line stays, goes, or is loaded with what memory holds
TxHonest ==
  \A i \in Tx : cache'[<<"txDesc", i>>] \in {cache[<<"txDesc", i>>], Absent, txDesc[i]}
RxHonest ==
  \A i \in Rx :
    /\ cache'[<<"rxDesc", i>>] \in {cache[<<"rxDesc", i>>], Absent, rxDesc[i]}
    /\ cache'[<<"rxBuf", i>>] \in {cache[<<"rxBuf", i>>], Absent, rxBuf[i]}

(* Every line the driver uses, and what memory holds of it.                *)
LEMMA Held ==
  /\ \A i \in Tx : <<"txDesc", i>> \in Lines /\ Memory(<<"txDesc", i>>) = txDesc[i]
  /\ \A i \in Rx : <<"rxDesc", i>> \in Lines /\ Memory(<<"rxDesc", i>>) = rxDesc[i]
  /\ \A i \in Rx : <<"rxBuf", i>> \in Lines /\ Memory(<<"rxBuf", i>>) = rxBuf[i]
  BY DEF Lines, Memory

(* Loading and invalidating change nothing but what is cached.             *)
LEMMA Honest ==
  ASSUME DOMAIN cache = Lines, NEW l \in Lines, cache' \in {cache, Invalidate(l), Loaded(l)}
  PROVE  TxHonest /\ RxHonest /\ DOMAIN cache' = Lines
  <1>1. \A m \in Lines : cache'[m] \in {cache[m], Absent, Memory(m)}
    BY DEF Invalidate, Loaded, Load
  <1>2. DOMAIN cache' = Lines
    BY DEF Invalidate, Loaded
  <1> QED BY <1>1, <1>2, Held DEF TxHonest, RxHonest

(* A side that none of whose state moved is as it was.                     *)
LEMMA TxStays ==
  ASSUME Typed, TxPart, TxHonest, UNCHANGED <<txDesc, txBuf, txIdx, dmaTx, txPc>>
  PROVE  TxPart' /\ Out' = Out
  <1>1. TxOrder' /\ TxOwn' /\ Out' = Out
    BY DEF TxPart, TxOrder, TxOwn, Out, Between
  <1>2. TxLook'
    BY DEF Typed, TxPart, TxLook, TxHonest, Absent
  <1> QED BY <1>1, <1>2 DEF TxPart

\* what EthPort calls in
Waiting == IF rxPc = "return" THEN SubSeq(In, 2, Len(In)) ELSE In

(* The same of the receiving side, and of the frames waiting.              *)
LEMMA RxStays ==
  ASSUME Typed, RxPart, RxHonest, UNCHANGED <<rxDesc, rxBuf, rxIdx, dmaRx, rxPc>>
  PROVE  RxPart' /\ Waiting' = Waiting
  <1>1. RxOrder' /\ In' = In
    BY DEF RxPart, RxOrder, In, Between
  <1>2. RxLook' /\ RxOwn'
    BY DEF Typed, RxPart, RxLook, RxOwn, RxHonest
  <1>3. Waiting' = Waiting
    BY <1>1 DEF Waiting
  <1> QED BY <1>1, <1>2, <1>3 DEF RxPart

Same == Out' = Out /\ Waiting' = Waiting /\ wire' = wire /\ got' = got

-----------------------------------------------------------------------------
(* Steps of neither side.                                                  *)

(* Starting, stopping, the handler and the callback move no frame.         *)
LEMMA Elsewhere ==
  ASSUME EthInv,
         \/ Start \/ Stop \/ Deinit \/ SetCallback
         \/ DmaSleep \/ IrqEnter \/ IrqClear \/ UNCHANGED vars
  PROVE  EthInv' /\ Same
  <1>1. UNCHANGED <<rings, rxPc, txPc, dmaRx, dmaTx, wire, got>>
    BY DEF Start, Stop, Deinit, SetCallback, DmaSleep, IrqEnter, IrqClear, vars, dma
  <1>2. UNCHANGED <<rxDesc, rxBuf, txDesc, txBuf, cache, rxIdx, txIdx, rxPc, txPc, dmaRx, dmaTx>>
    BY <1>1 DEF rings
  <1>3. Typed'
    BY <1>2 DEF EthInv, Typed
  <1>4. Life'
    BY <1>2 DEF EthInv, Life, Start, Stop, Deinit, SetCallback, DmaSleep, IrqEnter, IrqClear,
                vars, life, Settled
  <1>5. TxHonest /\ RxHonest
    BY <1>2 DEF TxHonest, RxHonest
  <1>6. TxPart' /\ Out' = Out
    BY <1>2, <1>5, TxStays DEF EthInv
  <1>7. RxPart' /\ Waiting' = Waiting
    BY <1>2, <1>5, RxStays DEF EthInv
  <1> QED BY <1>1, <1>3, <1>4, <1>6, <1>7 DEF EthInv, Same

(* The CPU running ahead.                                                  *)
LEMMA PrefetchStep ==
  ASSUME EthInv, NEW l \in Lines, Prefetch(l)
  PROVE  EthInv' /\ Same
  <1>1. UNCHANGED <<rxDesc, rxBuf, txDesc, txBuf, rxIdx, txIdx, rxPc, txPc, dmaRx, dmaTx,
                    initialized, started, wire, got>>
    BY DEF Prefetch, life, dma
  <1>2. TxHonest /\ RxHonest /\ DOMAIN cache' = Lines
    BY Honest DEF Prefetch, EthInv, Typed
  <1>3. Typed' /\ Life'
    BY <1>1, <1>2 DEF EthInv, Typed, Life
  <1>4. TxPart' /\ Out' = Out
    BY <1>1, <1>2, TxStays DEF EthInv
  <1>5. RxPart' /\ Waiting' = Waiting
    BY <1>1, <1>2, RxStays DEF EthInv
  <1> QED BY <1>1, <1>3, <1>4, <1>5 DEF EthInv, Same

-----------------------------------------------------------------------------
(* hal_eth_send and the DMA that transmits.                                *)

(* hal_eth_send drops what is cached of its descriptor.                    *)
LEMMA SendCallStep ==
  ASSUME EthInv, SendCall
  PROVE  EthInv' /\ Same
  <1>1. /\ UNCHANGED <<rxDesc, rxBuf, txDesc, txBuf, rxIdx, txIdx, rxPc, dmaRx, dmaTx,
                       initialized, started, wire, got>>
        /\ txPc' = "look" /\ cache' = Invalidate(<<"txDesc", txIdx>>)
    BY DEF SendCall, life, dma
  <1>2. txIdx \in Tx /\ <<"txDesc", txIdx>> \in Lines /\ DOMAIN cache = Lines
    BY Held DEF EthInv, Typed
  <1>3. TxHonest /\ RxHonest /\ DOMAIN cache' = Lines
    BY <1>1, <1>2, Honest
  <1>4. Typed' /\ Life'
    BY <1>1, <1>3 DEF EthInv, Typed, Life
  <1>5. TxOrder' /\ TxOwn' /\ Out' = Out
    BY <1>1 DEF EthInv, TxPart, TxOrder, TxOwn, Out, Between
  <1>6. TxLook'
    <2>1. cache'[<<"txDesc", txIdx>>] = Absent
      BY <1>1, <1>2 DEF Invalidate
    <2> QED BY <1>1, <2>1 DEF TxLook, Absent
  <1>7. RxPart' /\ Waiting' = Waiting
    BY <1>1, <1>3, RxStays DEF EthInv
  <1> QED BY <1>1, <1>4, <1>5, <1>6, <1>7 DEF EthInv, TxPart, Same

(* It goes on only with a descriptor that is its own.                      *)
LEMMA SendLookStep ==
  ASSUME EthInv, SendLook
  PROVE  EthInv' /\ Same
  <1> DEFINE l == <<"txDesc", txIdx>>
  <1>1. /\ UNCHANGED <<rxDesc, rxBuf, txDesc, txBuf, rxIdx, txIdx, rxPc, dmaRx, dmaTx,
                       initialized, started, wire, got>>
        /\ txPc = "look" /\ cache' = Loaded(l)
        /\ txPc' = IF Load(l) = "dma" THEN "idle" ELSE "copy"
    BY DEF SendLook, life, dma
  <1>2. txIdx \in Tx /\ l \in Lines /\ Memory(l) = txDesc[txIdx] /\ DOMAIN cache = Lines
    BY Held DEF EthInv, Typed
  <1>3. TxHonest /\ RxHonest /\ DOMAIN cache' = Lines
    BY <1>1, <1>2, Honest
  <1>4. Typed' /\ Life'
    BY <1>1, <1>3 DEF EthInv, Typed, Life
  <1>5. TxOrder' /\ Out' = Out
    BY <1>1 DEF EthInv, TxPart, TxOrder, Out, Between
  <1>6. Load(l) # "dma" => txDesc[txIdx] = "cpu"
    <2>1. /\ cache[l] \in {Absent, "dma", "cpu"} /\ (cache[l] = "cpu" => txDesc[txIdx] = "cpu")
          /\ txDesc[txIdx] \in {"dma", "cpu"}
      BY <1>1 DEF EthInv, Typed, TxPart, TxLook
    <2> QED BY <1>2, <2>1 DEF Load
  <1>7. TxLook' /\ TxOwn'
    BY <1>1, <1>6 DEF TxLook, TxOwn
  <1>8. RxPart' /\ Waiting' = Waiting
    BY <1>1, <1>3, RxStays DEF EthInv
  <1> QED BY <1>1, <1>4, <1>5, <1>7, <1>8 DEF EthInv, TxPart, Same

(* The frame is stored past what the DMA has to transmit.                  *)
LEMMA SendCopyStep ==
  ASSUME EthInv, SendCopy
  PROVE  EthInv' /\ Same
  <1>1. PICK f \in Frames : txBuf' = [txBuf EXCEPT ![txIdx] = f]
    BY DEF SendCopy
  <1>2. /\ UNCHANGED <<rxDesc, rxBuf, txDesc, cache, rxIdx, txIdx, rxPc, dmaRx, dmaTx,
                       initialized, started, wire, got>>
        /\ txPc = "copy" /\ txPc' = "hand"
    BY DEF SendCopy, life, dma
  <1>3. /\ txIdx \in Tx /\ dmaTx \in Tx /\ txDesc \in [Tx -> {"dma", "cpu"}]
        /\ txBuf \in [Tx -> Kinds] /\ txDesc[txIdx] = "cpu" /\ f \in Kinds
    BY <1>2 DEF EthInv, Typed, TxPart, TxOwn, Kinds
  <1>4. Typed' /\ Life'
    BY <1>1, <1>2, <1>3 DEF EthInv, Typed, Life
  <1>5. TxOrder' /\ TxLook' /\ TxOwn'
    <2>1. txBuf'[txIdx] = f
      BY <1>1, <1>3
    <2> QED BY <1>2, <1>3, <2>1 DEF EthInv, TxPart, TxOrder, TxLook, TxOwn, Between
  <1>6. Out' = Out
    <2>1. SameBut(txBuf', txBuf, txIdx, TX)
      BY <1>1, <1>3 DEF SameBut, Tx
    <2>2. Between(txDesc, dmaTx, txIdx, TX, Given) /\ txDesc[txIdx] \notin Given
      BY <1>3 DEF EthInv, TxPart, TxOrder, Given
    <2>3. TX \in Nat \ {0} /\ dmaTx \in 0 .. TX - 1
      BY <1>3, RingAssumption DEF Tx
    <2>4. Queue(txDesc, txBuf', dmaTx, TX, Given) = Queue(txDesc, txBuf, dmaTx, TX, Given)
      BY <2>1, <2>2, <2>3, Outside
    <2> QED BY <1>2, <2>4 DEF Out, Queue, Given
  <1>7. RxHonest
    BY <1>2 DEF RxHonest
  <1>8. RxPart' /\ Waiting' = Waiting
    BY <1>2, <1>7, RxStays DEF EthInv
  <1> QED BY <1>2, <1>4, <1>5, <1>6, <1>8 DEF EthInv, TxPart, Same

(* And is the DMA's once the descriptor is handed over.                    *)
LEMMA SendHandStep ==
  ASSUME EthInv, SendHand
  PROVE  EthInv' /\ Port!Send
  <1>1. /\ UNCHANGED <<rxDesc, rxBuf, txBuf, rxIdx, rxPc, dmaRx, dmaTx,
                       initialized, started, wire, got>>
        /\ txPc = "hand" /\ txPc' = "idle" /\ txDesc' = [txDesc EXCEPT ![txIdx] = "dma"]
        /\ cache' = [cache EXCEPT ![<<"txDesc", txIdx>>] = "dma"] /\ txIdx' = At(txIdx, 1, TX)
    BY DEF SendHand, HandOver, life, At
  <1> DEFINE f == txBuf[txIdx]
  <1>2. /\ txIdx \in Tx /\ dmaTx \in Tx /\ txDesc \in [Tx -> {"dma", "cpu"}]
        /\ txBuf \in [Tx -> Kinds] /\ txDesc[txIdx] = "cpu" /\ f \in Frames /\ f \in Kinds
        /\ DOMAIN cache = Lines
    BY <1>1 DEF EthInv, Typed, TxPart, TxOwn, Kinds
  <1> HIDE DEF f
  <1>3. /\ SameBut(txDesc', txDesc, txIdx, TX) /\ SameBut(txBuf, txBuf, txIdx, TX)
        /\ txDesc'[txIdx] \in Given /\ txDesc[txIdx] \notin Given
        /\ Between(txDesc, dmaTx, txIdx, TX, Given)
        /\ TX \in Nat \ {0} /\ dmaTx \in 0 .. TX - 1
    BY <1>1, <1>2, RingAssumption DEF SameBut, Tx, EthInv, TxPart, TxOrder, Given
  <1>4. /\ Between(txDesc', dmaTx, txIdx', TX, Given) /\ txIdx' \in Tx
        /\ Len(Queue(txDesc, txBuf, dmaTx, TX, Given)) < TX
        /\ Added(Queue(txDesc', txBuf, dmaTx, TX, Given), Queue(txDesc, txBuf, dmaTx, TX, Given), f)
    <2>1. /\ Between(txDesc', dmaTx, At(txIdx, 1, TX), TX, Given)
          /\ At(txIdx, 1, TX) \in 0 .. TX - 1
      BY <1>3, Joins
    <2>2. Added(Queue(txDesc', txBuf, dmaTx, TX, Given),
                Queue(txDesc, txBuf, dmaTx, TX, Given), txBuf[txIdx])
      BY <1>3, Adds
    <2>3. Len(Queue(txDesc, txBuf, dmaTx, TX, Given)) < TX
      BY <1>3, Outside
    <2> QED BY <1>1, <2>1, <2>2, <2>3 DEF Tx, f
  <1>5. Typed' /\ Life'
    BY <1>1, <1>2, <1>4 DEF EthInv, Typed, Life
  <1>6. TxOrder' /\ TxLook' /\ TxOwn'
    BY <1>1, <1>4 DEF TxOrder, TxLook, TxOwn, Between
  <1>7. RxHonest
    BY <1>1, <1>2, Held DEF RxHonest
  <1>8. RxPart' /\ Waiting' = Waiting
    BY <1>1, <1>7, RxStays DEF EthInv
  <1>9. Len(Out) < TX /\ Added(Out', Out, f)
    BY <1>1, <1>4 DEF Out, Queue, Given
  <1>10. Port!Send
    BY <1>1, <1>2, <1>8, <1>9 DEF Port!Send, Waiting, Added
  <1> QED BY <1>5, <1>6, <1>8, <1>10 DEF EthInv, TxPart

(* The DMA sends the first frame of the queue and gives it back.           *)
LEMMA TransmitStep ==
  ASSUME EthInv, DmaTransmit
  PROVE  EthInv' /\ Port!Transmit
  <1>1. /\ UNCHANGED <<rxDesc, rxBuf, txBuf, cache, rxIdx, txIdx, rxPc, txPc, dmaRx,
                       initialized, started, got>>
        /\ txDesc[dmaTx] = "dma" /\ txDesc' = [txDesc EXCEPT ![dmaTx] = "cpu"]
        /\ wire' = txBuf[dmaTx] /\ dmaTx' = At(dmaTx, 1, TX)
    BY DEF DmaTransmit, life, At
  <1>2. /\ txIdx \in Tx /\ dmaTx \in Tx /\ txDesc \in [Tx -> {"dma", "cpu"}]
        /\ txBuf \in [Tx -> Kinds]
    BY DEF EthInv, Typed
  <1>3. /\ Between(txDesc', dmaTx', txIdx, TX, Given) /\ dmaTx' \in Tx
        /\ Removed(Queue(txDesc', txBuf, dmaTx', TX, Given),
                   Queue(txDesc, txBuf, dmaTx, TX, Given), wire')
    <2>1. /\ SameBut(txDesc', txDesc, dmaTx, TX)
          /\ txDesc[dmaTx] \in Given /\ txDesc'[dmaTx] \notin Given
          /\ Between(txDesc, dmaTx, txIdx, TX, Given)
          /\ TX \in Nat \ {0} /\ dmaTx \in 0 .. TX - 1
      BY <1>1, <1>2, RingAssumption DEF SameBut, Tx, EthInv, TxPart, TxOrder, Given
    <2>2. /\ Between(txDesc', At(dmaTx, 1, TX), txIdx, TX, Given)
          /\ At(dmaTx, 1, TX) \in 0 .. TX - 1
      BY <2>1, Leaves
    <2>3. Removed(Queue(txDesc', txBuf, At(dmaTx, 1, TX), TX, Given),
                  Queue(txDesc, txBuf, dmaTx, TX, Given), txBuf[dmaTx])
      BY <2>1, Removes
    <2> QED BY <1>1, <2>2, <2>3 DEF Tx
  <1>4. Typed' /\ Life'
    BY <1>1, <1>2, <1>3 DEF EthInv, Typed, Life
  <1>5. txDesc[txIdx] = "cpu" => txDesc'[txIdx] = "cpu"
    BY <1>1, <1>2
  <1>6. TxOrder'
    BY <1>1, <1>3 DEF TxOrder, Between
  <1>7. TxLook' /\ TxOwn'
    BY <1>1, <1>5 DEF EthInv, TxPart, TxLook, TxOwn
  <1>8. RxHonest
    BY <1>1 DEF RxHonest
  <1>9. RxPart' /\ Waiting' = Waiting
    BY <1>1, <1>8, RxStays DEF EthInv
  <1>10. Removed(Out', Out, wire')
    BY <1>1, <1>3 DEF Out, Queue, Given
  <1>11. Port!Transmit
    BY <1>1, <1>9, <1>10 DEF Port!Transmit, Waiting, Removed
  <1> QED BY <1>4, <1>6, <1>7, <1>9, <1>11 DEF EthInv, TxPart

-----------------------------------------------------------------------------
(* hal_eth_receive and the DMA that receives.                              *)

(* Two ways to write the rest of a sequence.                               *)
LEMMA TailIs ==
  ASSUME NEW B, NEW q \in Seq(B), q # << >>
  PROVE  SubSeq(q, 2, Len(q)) = Tail(q)
  OBVIOUS

(* What waits is a sequence of frames.                                     *)
LEMMA InFrames ==
  ASSUME Typed, RxOrder
  PROVE  In \in Seq(Kinds)
  <1>1. RX \in Nat \ {0} /\ rxIdx \in 0 .. RX - 1 /\ rxBuf \in [0 .. RX - 1 -> Kinds]
    BY RingAssumption DEF Typed, Rx
  <1>2. PICK n \in 0 .. RX : Row(rxDesc, rxIdx, RX, Taken, n)
    BY DEF RxOrder, Between
  <1>3. In = Contents(rxBuf, rxIdx, RX, n)
    BY <1>1, <1>2, RunIs DEF In, Taken
  <1>4. Contents(rxBuf, rxIdx, RX, n) = [j \in 1 .. n |-> rxBuf[At(rxIdx, j - 1, RX)]]
    BY <1>1, <1>2, ContentsAre
  <1>5. \A j \in 1 .. n : rxBuf[At(rxIdx, j - 1, RX)] \in Kinds
    <2>1. \A j \in 1 .. n : j - 1 \in 0 .. RX
      BY <1>1
    <2> QED BY <1>1, <2>1, AtIs
  <1> QED BY <1>3, <1>4, <1>5

(* The frame at _rx_idx is the first of those waiting.                     *)
LEMMA InFirst ==
  ASSUME Typed, RxOrder, rxDesc[rxIdx] \in Taken
  PROVE  In # << >> /\ Head(In) = rxBuf[rxIdx] /\ SubSeq(In, 2, Len(In)) = Tail(In)
  <1> DEFINE desc == [rxDesc EXCEPT ![rxIdx] = "dma"]
  <1>1. /\ RX \in Nat \ {0} /\ rxIdx \in 0 .. RX - 1 /\ SameBut(desc, rxDesc, rxIdx, RX)
        /\ desc[rxIdx] \notin Taken /\ Between(rxDesc, rxIdx, dmaRx, RX, Taken)
    BY RingAssumption DEF Typed, Rx, SameBut, Taken, RxOrder
  <1> HIDE DEF desc
  <1>2. Removed(Queue(desc, rxBuf, At(rxIdx, 1, RX), RX, Taken),
                Queue(rxDesc, rxBuf, rxIdx, RX, Taken), rxBuf[rxIdx])
    BY <1>1, Removes
  <1>3. In # << >> /\ Head(In) = rxBuf[rxIdx]
    BY <1>2 DEF Removed, Queue, In, Taken
  <1> QED BY <1>3, InFrames, TailIs

(* What hal_eth_receive sees of a status that is not the DMA's is true.    *)
LEMMA RxSeen ==
  ASSUME EthInv, rxPc = "look", Load(<<"rxDesc", rxIdx>>) # "dma"
  PROVE  rxDesc[rxIdx] \in Taken
  <1>1. rxIdx \in Rx /\ Memory(<<"rxDesc", rxIdx>>) = rxDesc[rxIdx]
    BY Held DEF EthInv, Typed
  <1>2. cache[<<"rxDesc", rxIdx>>] \in {Absent, "dma", rxDesc[rxIdx]}
    BY DEF EthInv, RxPart, RxLook
  <1>3. rxDesc[rxIdx] \in {"dma", "ok", "es"}
    BY <1>1 DEF EthInv, Life, Status
  <1> QED BY <1>1, <1>2, <1>3 DEF Load, Taken

(* hal_eth_receive drops what is cached of its descriptor.                 *)
LEMMA ReceiveCallStep ==
  ASSUME EthInv, ReceiveCall
  PROVE  EthInv' /\ Same
  <1>1. /\ UNCHANGED <<rxDesc, rxBuf, txDesc, txBuf, rxIdx, txIdx, txPc, dmaRx, dmaTx,
                       initialized, started, wire>>
        /\ got' = got /\ rxPc = "idle" /\ rxPc' = "look" /\ cache' = Invalidate(<<"rxDesc", rxIdx>>)
        /\ started
    BY DEF ReceiveCall, MayReceive, life, dma
  <1>2. rxIdx \in Rx /\ <<"rxDesc", rxIdx>> \in Lines /\ DOMAIN cache = Lines
    BY Held DEF EthInv, Typed
  <1>3. TxHonest /\ DOMAIN cache' = Lines
    BY <1>1, <1>2, Honest
  <1>4. Typed' /\ Life'
    BY <1>1, <1>3 DEF EthInv, Typed, Life
  <1>5. TxPart' /\ Out' = Out
    BY <1>1, <1>3, TxStays DEF EthInv
  <1>6. RxLook' /\ RxOwn'
    <2>1. cache'[<<"rxDesc", rxIdx>>] = Absent
      BY <1>1, <1>2 DEF Invalidate
    <2> QED BY <1>1, <2>1 DEF RxLook, RxOwn
  <1>7. RxOrder' /\ In' = In
    BY <1>1 DEF EthInv, RxPart, RxOrder, Between, In
  <1>8. Waiting' = Waiting
    BY <1>1, <1>7 DEF Waiting
  <1> QED BY <1>1, <1>4, <1>5, <1>6, <1>7, <1>8 DEF EthInv, RxPart, Same

(* It finds none.                                                          *)
LEMMA ReceiveNoneStep ==
  ASSUME EthInv, ReceiveNone
  PROVE  EthInv' /\ Same
  <1>1. /\ UNCHANGED <<rxDesc, rxBuf, txDesc, txBuf, rxIdx, txIdx, txPc, dmaRx, dmaTx,
                       initialized, started, wire>>
        /\ got' = got /\ rxPc = "look" /\ rxPc' = "idle" /\ cache' = Loaded(<<"rxDesc", rxIdx>>)
    BY DEF ReceiveNone, life, dma
  <1>2. rxIdx \in Rx /\ <<"rxDesc", rxIdx>> \in Lines /\ DOMAIN cache = Lines
    BY Held DEF EthInv, Typed
  <1>3. TxHonest /\ DOMAIN cache' = Lines
    BY <1>1, <1>2, Honest
  <1>4. Typed' /\ Life'
    BY <1>1, <1>3 DEF EthInv, Typed, Life
  <1>5. TxPart' /\ Out' = Out
    BY <1>1, <1>3, TxStays DEF EthInv
  <1>6. RxLook' /\ RxOwn'
    BY <1>1 DEF RxLook, RxOwn
  <1>7. RxOrder' /\ In' = In
    BY <1>1 DEF EthInv, RxPart, RxOrder, Between, In
  <1>8. Waiting' = Waiting
    BY <1>1, <1>7 DEF Waiting
  <1> QED BY <1>1, <1>4, <1>5, <1>6, <1>7, <1>8 DEF EthInv, RxPart, Same

(* It finds one, and drops what is cached of the buffer.                   *)
LEMMA ReceiveLookStep ==
  ASSUME EthInv, ReceiveLook
  PROVE  EthInv' /\ Same
  <1> DEFINE l == <<"rxDesc", rxIdx>>
             m == <<"rxBuf", rxIdx>>
  <1>1. /\ UNCHANGED <<rxDesc, rxBuf, txDesc, txBuf, rxIdx, txIdx, txPc, dmaRx, dmaTx,
                       initialized, started, wire>>
        /\ got' = got /\ rxPc = "look" /\ rxPc' = "copy" /\ Load(l) = "ok"
        /\ cache' = [Loaded(l) EXCEPT ![m] = Absent]
    BY DEF ReceiveLook, life, dma
  <1>2. rxIdx \in Rx /\ l \in Lines /\ m \in Lines /\ DOMAIN cache = Lines
    BY Held DEF EthInv, Typed
  <1>3. /\ \A x \in Lines : cache'[x] \in {cache[x], Absent, Memory(x)}
        /\ DOMAIN cache' = Lines /\ cache'[m] = Absent
    BY <1>1, <1>2 DEF Loaded, Load
  <1>4. TxHonest
    BY <1>3, Held DEF TxHonest
  <1>5. Typed' /\ Life'
    BY <1>1, <1>3 DEF EthInv, Typed, Life
  <1>6. TxPart' /\ Out' = Out
    BY <1>1, <1>4, TxStays DEF EthInv
  <1>7. RxLook' /\ RxOwn'
    <2>1. rxDesc[rxIdx] \in Taken
      BY <1>1, RxSeen
    <2> QED BY <1>1, <1>3, <2>1 DEF RxLook, RxOwn
  <1>8. RxOrder' /\ In' = In
    BY <1>1 DEF EthInv, RxPart, RxOrder, Between, In
  <1>9. Waiting' = Waiting
    BY <1>1, <1>8 DEF Waiting
  <1> QED BY <1>1, <1>5, <1>6, <1>7, <1>8, <1>9 DEF EthInv, RxPart, Same

(* A frame judged unfit, or copied out, is taken.                          *)
LEMMA ReceiveDropStep ==
  ASSUME EthInv, ReceiveDrop
  PROVE  EthInv' /\ Port!Take
  <1>1. /\ UNCHANGED <<rxDesc, rxBuf, txDesc, txBuf, rxIdx, txIdx, txPc, dmaRx, dmaTx,
                       initialized, started, wire>>
        /\ rxPc = "look" /\ rxPc' = "return" /\ got' = Nothing
        /\ Load(<<"rxDesc", rxIdx>>) # "dma" /\ cache' = Loaded(<<"rxDesc", rxIdx>>)
    BY DEF ReceiveDrop, life, dma
  <1>2. rxIdx \in Rx /\ <<"rxDesc", rxIdx>> \in Lines /\ DOMAIN cache = Lines
    BY Held DEF EthInv, Typed
  <1>3. TxHonest /\ DOMAIN cache' = Lines
    BY <1>1, <1>2, Honest
  <1>4. Typed' /\ Life'
    BY <1>1, <1>3 DEF EthInv, Typed, Life
  <1>5. TxPart' /\ Out' = Out
    BY <1>1, <1>3, TxStays DEF EthInv
  <1>6. rxDesc[rxIdx] \in Taken
    BY <1>1, RxSeen
  <1>7. RxLook' /\ RxOwn'
    BY <1>1, <1>6 DEF RxLook, RxOwn
  <1>8. RxOrder' /\ In' = In
    BY <1>1 DEF EthInv, RxPart, RxOrder, Between, In
  <1>9. In # << >> /\ SubSeq(In, 2, Len(In)) = Tail(In)
    BY <1>6, InFirst DEF EthInv, RxPart
  <1>10. Port!Take
    BY <1>1, <1>5, <1>8, <1>9 DEF Port!Take, Port!Nothing, Nothing
  <1> QED BY <1>4, <1>5, <1>7, <1>8, <1>10 DEF EthInv, RxPart

(* What is copied is what memory holds: nothing older is cached.           *)
LEMMA ReceiveCopyStep ==
  ASSUME EthInv, ReceiveCopy
  PROVE  EthInv' /\ Port!Take
  <1> DEFINE l == <<"rxBuf", rxIdx>>
  <1>1. /\ UNCHANGED <<rxDesc, rxBuf, txDesc, txBuf, rxIdx, txIdx, txPc, dmaRx, dmaTx,
                       initialized, started, wire>>
        /\ rxPc = "copy" /\ rxPc' = "return" /\ got' = Load(l) /\ cache' = Loaded(l)
    BY DEF ReceiveCopy, life, dma
  <1>2. rxIdx \in Rx /\ l \in Lines /\ DOMAIN cache = Lines /\ Memory(l) = rxBuf[rxIdx]
    BY Held DEF EthInv, Typed
  <1>3. TxHonest /\ DOMAIN cache' = Lines
    BY <1>1, <1>2, Honest
  <1>4. Typed' /\ Life'
    BY <1>1, <1>3 DEF EthInv, Typed, Life
  <1>5. TxPart' /\ Out' = Out
    BY <1>1, <1>3, TxStays DEF EthInv
  <1>6. rxDesc[rxIdx] \in Taken /\ cache[l] \in {Absent, rxBuf[rxIdx]}
    BY <1>1 DEF EthInv, RxPart, RxOwn
  <1>7. RxLook' /\ RxOwn'
    BY <1>1, <1>6 DEF RxLook, RxOwn
  <1>8. RxOrder' /\ In' = In
    BY <1>1 DEF EthInv, RxPart, RxOrder, Between, In
  <1>9. In # << >> /\ Head(In) = rxBuf[rxIdx] /\ SubSeq(In, 2, Len(In)) = Tail(In)
    BY <1>6, InFirst DEF EthInv, RxPart
  <1>10. got' = Head(In)
    BY <1>1, <1>2, <1>6, <1>9 DEF Load
  <1>11. Port!Take
    BY <1>1, <1>5, <1>8, <1>9, <1>10 DEF Port!Take
  <1> QED BY <1>4, <1>5, <1>7, <1>8, <1>11 DEF EthInv, RxPart

(* The descriptor goes back only once its frame was taken.                 *)
LEMMA ReceiveReturnStep ==
  ASSUME EthInv, ReceiveReturn
  PROVE  EthInv' /\ Same
  <1>1. /\ UNCHANGED <<rxBuf, txDesc, txBuf, txIdx, txPc, dmaRx, dmaTx,
                       initialized, started, wire, got>>
        /\ rxPc = "return" /\ rxPc' = "idle" /\ rxDesc' = [rxDesc EXCEPT ![rxIdx] = "dma"]
        /\ cache' = [cache EXCEPT ![<<"rxDesc", rxIdx>>] = "dma"] /\ rxIdx' = At(rxIdx, 1, RX)
    BY DEF ReceiveReturn, life, dma, At
  <1>2. /\ rxIdx \in Rx /\ rxDesc \in [Rx -> Status \cup {"cpu"}] /\ DOMAIN cache = Lines
        /\ rxDesc[rxIdx] \in Taken
    BY <1>1 DEF EthInv, Typed, RxPart, RxOwn
  <1>3. /\ RX \in Nat \ {0} /\ rxIdx \in 0 .. RX - 1 /\ SameBut(rxDesc', rxDesc, rxIdx, RX)
        /\ rxDesc'[rxIdx] \notin Taken /\ Between(rxDesc, rxIdx, dmaRx, RX, Taken)
    BY <1>1, <1>2, RingAssumption DEF Rx, SameBut, Taken, EthInv, RxPart, RxOrder
  <1>4. Between(rxDesc', At(rxIdx, 1, RX), dmaRx, RX, Taken) /\ At(rxIdx, 1, RX) \in 0 .. RX - 1
    BY <1>2, <1>3, Leaves
  <1>5. Removed(Queue(rxDesc', rxBuf, At(rxIdx, 1, RX), RX, Taken),
                Queue(rxDesc, rxBuf, rxIdx, RX, Taken), rxBuf[rxIdx])
    BY <1>2, <1>3, Removes
  <1>6. Typed'
    BY <1>1, <1>2, <1>4 DEF EthInv, Typed, Rx, Status
  <1>7. Life'
    <2>1. initialized => rxDesc' \in [Rx -> Status]
      BY <1>1 DEF EthInv, Life, Status
    <2> QED BY <1>1, <2>1 DEF EthInv, Life
  <1>8. TxHonest
    BY <1>1, <1>2, Held DEF TxHonest
  <1>9. TxPart' /\ Out' = Out
    BY <1>1, <1>8, TxStays DEF EthInv
  <1>10. RxOrder' /\ RxLook' /\ RxOwn'
    BY <1>1, <1>4 DEF RxOrder, RxLook, RxOwn, Between
  <1>11. In' = Tail(In)
    BY <1>1, <1>5 DEF In, Queue, Removed, Taken
  <1>12. Waiting' = Waiting
    BY <1>1, <1>2, <1>11, InFirst DEF Waiting, EthInv, RxPart
  <1> QED BY <1>1, <1>6, <1>7, <1>9, <1>10, <1>12 DEF EthInv, RxPart, Same

(* A frame added behind the first is added to the rest.                    *)
LEMMA TailOfLonger ==
  ASSUME NEW B, NEW q \in Seq(B), q # << >>, NEW f \in B
  PROVE  SubSeq(Append(q, f), 2, Len(Append(q, f))) = Append(SubSeq(q, 2, Len(q)), f)
  <1> DEFINE n == Len(q)
             a == Append(q, f)
             t == SubSeq(q, 2, n)
             u == SubSeq(a, 2, Len(a))
  <1>1. a \in Seq(B) /\ Len(a) = n + 1 /\ a[n + 1] = f /\ \A i \in 1 .. n : a[i] = q[i]
    OBVIOUS
  <1>2. n \in Nat \ {0} /\ Len(q) = n /\ \A i \in 1 .. n : q[i] \in B
    OBVIOUS
  <1> HIDE DEF a, n
  <1>3. t \in Seq(B) /\ Len(t) = n - 1 /\ \A i \in 1 .. n - 1 : t[i] = q[i + 1]
    BY <1>2
  <1> HIDE DEF t
  <1>4. u \in Seq(B) /\ Len(u) = n /\ \A i \in 1 .. n : u[i] = a[i + 1]
    BY <1>1, <1>2
  <1> HIDE DEF u
  <1>5. u[n] = f /\ \A i \in 1 .. n - 1 : u[i] = t[i]
    <2>1. \A i \in 1 .. n - 1 : i \in 1 .. n /\ i + 1 \in 1 .. n
      BY <1>2
    <2>2. n \in 1 .. n
      BY <1>2
    <2> QED BY <1>1, <1>3, <1>4, <2>1, <2>2
  <1>6. u = Append(t, f)
    BY <1>2, <1>3, <1>4, <1>5
  <1> QED BY <1>6 DEF u, t, a, n

(* A frame that comes in joins those waiting, past the one being taken.    *)
LEMMA ArriveStep ==
  ASSUME EthInv, NEW f \in Frames, DmaReceive(f)
  PROVE  EthInv' /\ Port!Arrive
  <1>1. PICK status \in {"ok", "es"} : rxDesc' = [rxDesc EXCEPT ![dmaRx] = status]
    BY DEF DmaReceive
  <1>2. /\ UNCHANGED <<txDesc, txBuf, cache, rxIdx, txIdx, rxPc, txPc, dmaTx,
                       initialized, started, wire, got>>
        /\ rxDesc[dmaRx] = "dma" /\ rxBuf' = [rxBuf EXCEPT ![dmaRx] = f]
        /\ dmaRx' = At(dmaRx, 1, RX)
    BY DEF DmaReceive, life, At
  <1>3. /\ rxIdx \in Rx /\ dmaRx \in Rx /\ rxDesc \in [Rx -> Status \cup {"cpu"}]
        /\ rxBuf \in [Rx -> Kinds] /\ f \in Kinds /\ status \in Status
    BY DEF EthInv, Typed, Kinds, Status
  <1>4. /\ RX \in Nat \ {0} /\ rxIdx \in 0 .. RX - 1 /\ SameBut(rxDesc', rxDesc, dmaRx, RX)
        /\ SameBut(rxBuf', rxBuf, dmaRx, RX) /\ rxDesc'[dmaRx] \in Taken
        /\ rxDesc[dmaRx] \notin Taken /\ Between(rxDesc, rxIdx, dmaRx, RX, Taken)
    BY <1>1, <1>2, <1>3, RingAssumption DEF Rx, SameBut, Taken, EthInv, RxPart, RxOrder
  <1>5. /\ Between(rxDesc', rxIdx, At(dmaRx, 1, RX), RX, Taken)
        /\ At(dmaRx, 1, RX) \in 0 .. RX - 1
    BY <1>4, Joins
  <1>6. Added(Queue(rxDesc', rxBuf', rxIdx, RX, Taken),
              Queue(rxDesc, rxBuf', rxIdx, RX, Taken), rxBuf'[dmaRx])
    BY <1>4, Adds
  <1>7. /\ Len(Queue(rxDesc, rxBuf, rxIdx, RX, Taken)) < RX
        /\ Queue(rxDesc, rxBuf', rxIdx, RX, Taken) = Queue(rxDesc, rxBuf, rxIdx, RX, Taken)
    BY <1>4, Outside
  <1>8. In' = Append(In, f) /\ Len(In) < RX
    <2>1. rxBuf'[dmaRx] = f
      BY <1>2, <1>3
    <2> QED BY <1>2, <1>6, <1>7, <2>1 DEF In, Queue, Added, Taken
  <1>9. Typed'
    BY <1>1, <1>2, <1>3, <1>5 DEF EthInv, Typed, Rx
  <1>10. Life'
    <2>1. initialized => rxDesc' \in [Rx -> Status]
      BY <1>1, <1>3 DEF EthInv, Life
    <2> QED BY <1>2, <2>1 DEF EthInv, Life
  <1>11. TxHonest
    BY <1>2 DEF TxHonest
  <1>12. TxPart' /\ Out' = Out
    BY <1>2, <1>11, TxStays DEF EthInv
  <1>13. RxOrder'
    BY <1>2, <1>5 DEF RxOrder, Between
  <1>14. RxLook'
    <2>1. CASE rxIdx = dmaRx
      BY <1>2, <2>1 DEF EthInv, RxPart, RxLook
    <2>2. CASE rxIdx # dmaRx
      <3>1. rxDesc'[rxIdx] = rxDesc[rxIdx]
        BY <1>1, <1>3, <2>2
      <3> QED BY <1>2, <3>1 DEF EthInv, RxPart, RxLook
    <2> QED BY <2>1, <2>2
  <1>15. RxOwn'
    <2>1. CASE rxIdx = dmaRx
      BY <1>2, <1>4, <2>1 DEF EthInv, RxPart, RxOwn
    <2>2. CASE rxIdx # dmaRx
      <3>1. rxDesc'[rxIdx] = rxDesc[rxIdx] /\ rxBuf'[rxIdx] = rxBuf[rxIdx]
        BY <1>1, <1>2, <1>3, <2>2
      <3> QED BY <1>2, <3>1 DEF EthInv, RxPart, RxOwn
    <2> QED BY <2>1, <2>2
  <1>16. Waiting' = Append(Waiting, f) /\ Len(Waiting) < RX
    <2>1. In \in Seq(Kinds)
      BY InFrames DEF EthInv, RxPart
    <2>2. CASE rxPc = "return"
      <3>1. In # << >>
        BY <2>2, InFirst DEF EthInv, RxPart, RxOwn
      <3>2. SubSeq(In', 2, Len(In')) = Append(SubSeq(In, 2, Len(In)), f)
        BY <1>3, <1>8, <2>1, <3>1, TailOfLonger
      <3>3. Len(SubSeq(In, 2, Len(In))) < RX
        BY <1>4, <1>8, <2>1, <3>1
      <3> QED BY <1>2, <2>2, <3>2, <3>3 DEF Waiting
    <2>3. CASE rxPc # "return"
      BY <1>2, <1>8, <2>3 DEF Waiting
    <2> QED BY <2>2, <2>3
  <1>17. Port!Arrive
    BY <1>2, <1>12, <1>16 DEF Port!Arrive, Waiting
  <1> QED BY <1>9, <1>10, <1>12, <1>13, <1>14, <1>15, <1>17 DEF EthInv, RxPart

-----------------------------------------------------------------------------
(* Initialisation, and the whole.                                          *)

(* hal_eth_init empties both rings.                                        *)
LEMMA RestartStep ==
  ASSUME EthInv, Initialize
  PROVE  EthInv' /\ Port!Restart
  <1>1. /\ UNCHANGED <<rxBuf, txBuf, rxPc, txPc, wire, got>> /\ initialized' = TRUE
        /\ rxDesc' = [x \in Rx |-> "dma"] /\ txDesc' = [x \in Tx |-> "cpu"]
        /\ rxIdx' = 0 /\ txIdx' = 0 /\ dmaRx' = 0 /\ dmaTx' = 0
        /\ rxPc = "idle" /\ txPc = "idle" /\ DOMAIN cache' = Lines
    BY DEF Initialize, InitRings, Settled
  <1>2. 0 \in Rx /\ 0 \in Tx /\ RX \in Nat \ {0} /\ TX \in Nat \ {0}
    BY RingAssumption DEF Rx, Tx
  <1>3. Typed'
    BY <1>1, <1>2 DEF EthInv, Typed, Status
  <1>4. Life'
    BY <1>1 DEF Life, Status
  <1>5. /\ \A x \in 0 .. TX - 1 : txDesc'[x] \notin Given
        /\ \A x \in 0 .. RX - 1 : rxDesc'[x] \notin Taken
    BY <1>1 DEF Given, Taken, Rx, Tx
  <1>6. Between(txDesc', 0, 0, TX, Given) /\ Queue(txDesc', txBuf', 0, TX, Given) = << >>
    BY <1>2, <1>5, Empty
  <1>7. Between(rxDesc', 0, 0, RX, Taken) /\ Queue(rxDesc', rxBuf', 0, RX, Taken) = << >>
    BY <1>2, <1>5, Empty
  <1>8. TxPart'
    BY <1>1, <1>6 DEF TxPart, TxOrder, TxLook, TxOwn, Between
  <1>9. RxPart'
    BY <1>1, <1>7 DEF RxPart, RxOrder, RxLook, RxOwn, Between
  <1>10. Out' = << >> /\ In' = << >>
    BY <1>1, <1>6, <1>7 DEF Out, In, Queue, Given, Taken
  <1>11. Port!Restart
    BY <1>1, <1>10 DEF Port!Restart
  <1> QED BY <1>3, <1>4, <1>8, <1>9, <1>11 DEF EthInv

(* So does the start.                                                      *)
LEMMA InitStep ==
  ASSUME Init
  PROVE  EthInv /\ Port!PortInit
  <1>1. 0 \in Rx /\ 0 \in Tx /\ RX \in Nat \ {0} /\ TX \in Nat \ {0}
    BY RingAssumption DEF Rx, Tx
  <1>2. Typed
    BY <1>1 DEF Init, Typed, Kinds, Status
  <1>3. Life
    BY DEF Init, Life
  <1>4. /\ \A x \in 0 .. TX - 1 : txDesc[x] \notin Given
        /\ \A x \in 0 .. RX - 1 : rxDesc[x] \notin Taken
    BY DEF Init, Given, Taken, Rx, Tx
  <1>5. Between(txDesc, 0, 0, TX, Given) /\ Queue(txDesc, txBuf, 0, TX, Given) = << >>
    BY <1>1, <1>4, Empty
  <1>6. Between(rxDesc, 0, 0, RX, Taken) /\ Queue(rxDesc, rxBuf, 0, RX, Taken) = << >>
    BY <1>1, <1>4, Empty
  <1>7. TxPart /\ RxPart
    BY <1>5, <1>6 DEF Init, TxPart, TxOrder, TxLook, TxOwn, RxPart, RxOrder, RxLook, RxOwn
  <1>8. Out = << >> /\ In = << >>
    BY <1>5, <1>6 DEF Init, Out, In, Queue, Given, Taken
  <1>9. Port!PortInit
    BY <1>8 DEF Init, Port!PortInit, Port!Nothing, Nothing
  <1> QED BY <1>2, <1>3, <1>7, <1>9 DEF EthInv

(* Every step keeps the invariant and is a step of EthPort, or none.       *)
LEMMA EthStep ==
  ASSUME EthInv, [Next]_vars
  PROVE  EthInv' /\ [Port!PortNext]_Port!portVars
  <1>1. Same => UNCHANGED Port!portVars
    BY DEF Same, Waiting, Port!portVars
  <1>2. CASE Initialize
    BY <1>2, RestartStep DEF Port!PortNext
  <1>3. CASE Start \/ Stop \/ Deinit \/ SetCallback \/ DmaSleep \/ Handler \/ UNCHANGED vars
    BY <1>1, <1>3, Elsewhere DEF Handler
  <1>4. CASE SendCall \/ SendLook \/ SendCopy
    BY <1>1, <1>4, SendCallStep, SendLookStep, SendCopyStep
  <1>5. CASE SendHand
    BY <1>5, SendHandStep DEF Port!PortNext
  <1>6. CASE DmaTransmit
    BY <1>6, TransmitStep DEF Port!PortNext
  <1>7. CASE ReceiveCall \/ ReceiveNone \/ ReceiveLook \/ ReceiveReturn
    BY <1>1, <1>7, ReceiveCallStep, ReceiveNoneStep, ReceiveLookStep, ReceiveReturnStep
  <1>8. CASE ReceiveDrop \/ ReceiveCopy
    BY <1>8, ReceiveDropStep, ReceiveCopyStep DEF Port!PortNext
  <1>9. CASE \E f \in Frames : DmaReceive(f)
    BY <1>9, ArriveStep DEF Port!PortNext
  <1>10. CASE \E l \in Lines : Prefetch(l)
    BY <1>1, <1>10, PrefetchStep
  <1> QED BY <1>2, <1>3, <1>4, <1>5, <1>6, <1>7, <1>8, <1>9, <1>10
          DEF Next, Lifecycle, Sending, Receiving, Wire

(* What is in flight always stands in a row between the two sides, what is *)
(* cached of a descriptor never says more than memory does, and a frame is *)
(* copied only while its descriptor is the driver's (eth_f7.c).            *)
THEOREM EthInvariant == Spec => []EthInv
  <1>1. Init => EthInv
    BY InitStep
  <1>2. EthInv /\ [Next]_vars => EthInv'
    BY EthStep
  <1> QED BY <1>1, <1>2, PTL DEF Spec

(* The driver is two bounded queues of frames (hal_eth.h): a frame goes    *)
(* out and comes in once, whole and in order, for every number of          *)
(* descriptors, whatever the cache loads and with both directions busy.    *)
THEOREM RingsArePort == Spec => Implements
  <1>1. Init => EthInv /\ Port!PortInit
    BY InitStep
  <1>2. EthInv /\ [Next]_vars => EthInv' /\ [Port!PortNext]_Port!portVars
    BY EthStep
  <1> QED BY <1>1, <1>2, PTL DEF Spec, Implements, Port!PortSpec
=============================================================================
