--------------------------- MODULE PalmUartProofs ---------------------------
(***************************************************************************)
(* Proofs about PalmUart for every FIFO size, chunk size and byte set.     *)
(***************************************************************************)
EXTENDS PalmUart, SequenceTheorems, TLAPS

-----------------------------------------------------------------------------
(* Indices modulo the FIFO size: a sum of two in-range numbers wraps once. *)

\* An index below the size is itself.
LEMMA ModBelow ==
  ASSUME NEW n \in Nat \ {0}, NEW a \in 0..(n - 1)
  PROVE  a % n = a
BY SMT

\* An index past the end goes round once.
LEMMA ModOnce ==
  ASSUME NEW n \in Nat \ {0}, NEW a \in n..(2 * n - 1)
  PROVE  a % n = a - n
BY SMT

\* A remainder is below the divisor.
LEMMA ModRange ==
  ASSUME NEW n \in Nat \ {0}, NEW a \in Nat
  PROVE  a % n \in 0..(n - 1)
BY SMT

\* % FifoSize over the sums the rings compute.
LEMMA Wrap ==
  ASSUME NEW a \in 0..(2 * FifoSize - 1)
  PROVE  a % FifoSize = IF a < FifoSize THEN a ELSE a - FifoSize
<1> FifoSize \in Nat \ {0}
  BY UartConstants
<1>1. CASE a < FifoSize
  BY <1>1, ModBelow
<1>2. CASE a >= FifoSize
  BY <1>2, ModOnce
<1> QED BY <1>1, <1>2

\* How an index moves on in a ring.
LEMMA WrapUp ==
  ASSUME NEW a \in Index, NEW b \in 0..FifoSize
  PROVE  (a + b) % FifoSize = IF a + b < FifoSize THEN a + b ELSE (a + b) - FifoSize
<1> FifoSize \in Nat \ {0}
  BY UartConstants
<1> DEFINE c == a + b
<1>1. c \in 0..(2 * FifoSize - 1)
  BY DEF Index
<1> HIDE DEF c
<1>2. c % FifoSize = IF c < FifoSize THEN c ELSE c - FifoSize
  BY <1>1, Wrap
<1> QED BY <1>2 DEF c

\* How far cell i lies behind the head h.
LEMMA WrapDown ==
  ASSUME NEW i \in Index, NEW h \in Index
  PROVE  ((i + FifoSize) - h) % FifoSize = IF i < h THEN (i + FifoSize) - h ELSE i - h
<1> FifoSize \in Nat \ {0}
  BY UartConstants
<1> DEFINE c == (i + FifoSize) - h
<1>1. c \in 0..(2 * FifoSize - 1) /\ (c < FifoSize <=> i < h) /\ c - FifoSize = i - h
  BY DEF Index
<1> HIDE DEF c
<1>2. c % FifoSize = IF i < h THEN c ELSE i - h
  BY <1>1, Wrap
<1> QED BY <1>2 DEF c

-----------------------------------------------------------------------------
(* What each ring operation does to a coherent ring. *)

\* The contents are as many bytes as the count says.
LEMMA ContentsType ==
  ASSUME NEW r \in Ring
  PROVE  /\ Contents(r) \in [1..r.count -> Byte]
         /\ Contents(r) \in Seq(Byte)
         /\ Len(Contents(r)) = r.count
<1> FifoSize \in Nat \ {0}
  BY UartConstants
<1>1. ASSUME NEW k \in 1..r.count
      PROVE  r.buf[(r.tail + k - 1) % FifoSize] \in Byte
  <2>1. r.tail + k - 1 \in Nat
    BY DEF Ring, Index
  <2> QED BY <2>1, ModRange DEF Ring, Index
<1>2. Contents(r) \in [1..r.count -> Byte]
  BY <1>1 DEF Contents
<1> QED BY <1>2 DEF Ring

\* A byte put is behind the others.
LEMMA PutRing ==
  ASSUME NEW r \in Ring, Coherent(r), NEW b \in Byte, r.count < FifoSize
  PROVE  /\ Put(r, b) \in Ring
         /\ Coherent(Put(r, b))
         /\ Contents(Put(r, b)) = Append(Contents(r), b)
<1> FifoSize \in Nat \ {0}
  BY UartConstants
<1> DEFINE p == Put(r, b)
<1>1. r.head \in Index /\ r.tail \in Index /\ r.count \in 0..(FifoSize - 1)
  BY DEF Ring
<1>2. (r.head + 1) % FifoSize = IF r.head + 1 < FifoSize THEN r.head + 1 ELSE 0
  BY <1>1, Wrap DEF Index
<1>3. p.buf = [r.buf EXCEPT ![r.head] = b] /\ p.head = (r.head + 1) % FifoSize
      /\ p.tail = r.tail /\ p.count = r.count + 1
  BY DEF Put, Ring
<1>4. p \in Ring
  BY <1>1, <1>2 DEF Put, Ring, Index
<1>5. r.head = IF r.tail + r.count < FifoSize THEN r.tail + r.count
                                              ELSE r.tail + r.count - FifoSize
  BY <1>1, Wrap DEF Coherent, Index
<1>6. (r.tail + r.count + 1) % FifoSize =
        IF r.tail + r.count + 1 < FifoSize THEN r.tail + r.count + 1
                                           ELSE r.tail + r.count + 1 - FifoSize
  BY <1>1, Wrap DEF Index
<1>7. Coherent(p)
  BY <1>1, <1>2, <1>3, <1>5, <1>6 DEF Coherent, Index
<1>8. ASSUME NEW k \in 1..(r.count + 1)
      PROVE  p.buf[(p.tail + k - 1) % FifoSize] = Append(Contents(r), b)[k]
  <2> DEFINE i == (r.tail + k - 1) % FifoSize
  <2>1. i = IF r.tail + k - 1 < FifoSize THEN r.tail + k - 1 ELSE (r.tail + k - 1) - FifoSize
    <3> DEFINE a == r.tail + k - 1
    <3>1. a \in 0..(2 * FifoSize - 1)
      BY <1>1 DEF Index
    <3> HIDE DEF a
    <3>2. a % FifoSize = IF a < FifoSize THEN a ELSE a - FifoSize
      BY <3>1, Wrap
    <3> QED BY <3>2 DEF a
  <2>2. i \in Index
    BY <1>1, <2>1 DEF Index
  <2>3. CASE k = r.count + 1
    <3>1. i = r.head
      BY <2>3, <2>1, <1>5, <1>1 DEF Index
    <3>2. p.buf[i] = b
      BY <3>1, <1>3, <1>1 DEF Ring
    <3> QED BY <3>2, <2>3, <1>3, ContentsType
  <2>4. CASE k \in 1..r.count
    <3>1. i # r.head
      BY <2>4, <2>1, <1>5, <1>1 DEF Index
    <3>2. p.buf[i] = r.buf[i]
      BY <3>1, <2>2, <1>3 DEF Ring
    <3>3. Contents(r)[k] = r.buf[i]
      BY <2>4 DEF Contents
    <3> QED BY <3>2, <3>3, <2>4, <1>3, ContentsType
  <2>5. k = r.count + 1 \/ k \in 1..r.count
    BY <1>1
  <2> QED BY <2>3, <2>4, <2>5
<1>9. Contents(p) = [k \in 1..(r.count + 1) |-> Append(Contents(r), b)[k]]
  BY <1>8, <1>3 DEF Contents
<1>10. Append(Contents(r), b) \in [1..(r.count + 1) -> Byte]
  <2>1. Contents(r) \in Seq(Byte) /\ Len(Contents(r)) = r.count
    BY ContentsType
  <2>2. Append(Contents(r), b) \in Seq(Byte) /\ Len(Append(Contents(r), b)) = r.count + 1
    BY <2>1
  <2> QED BY <2>2, LenProperties
<1>11. Contents(p) = Append(Contents(r), b)
  BY <1>9, <1>10
<1> QED BY <1>4, <1>7, <1>11

\* Bytes taken are the first ones.
LEMMA TakeRing ==
  ASSUME NEW r \in Ring, Coherent(r), NEW n \in 0..r.count
  PROVE  /\ Take(r, n) \in Ring
         /\ Coherent(Take(r, n))
         /\ Contents(Take(r, n)) = SubSeq(Contents(r), n + 1, Len(Contents(r)))
<1> FifoSize \in Nat \ {0}
  BY UartConstants
<1> DEFINE t == Take(r, n)
<1>1. r.head \in Index /\ r.tail \in Index /\ r.count \in 0..FifoSize
  BY DEF Ring
<1>2. t.buf = r.buf /\ t.head = r.head /\ t.tail = (r.tail + n) % FifoSize
      /\ t.count = r.count - n
  BY DEF Take, Ring
<1>3. (r.tail + n) % FifoSize =
        IF r.tail + n < FifoSize THEN r.tail + n ELSE r.tail + n - FifoSize
  BY <1>1, Wrap DEF Index
<1>4. t \in Ring
  <2>1. (r.tail + n) % FifoSize \in Index /\ r.count - n \in 0..FifoSize
    BY <1>1, <1>3 DEF Index
  <2> QED BY <2>1 DEF Take, Ring
<1>5. r.head = IF r.tail + r.count < FifoSize THEN r.tail + r.count
                                              ELSE r.tail + r.count - FifoSize
  BY <1>1, Wrap DEF Coherent, Index
<1>6. (t.tail + t.count) % FifoSize =
        IF t.tail + t.count < FifoSize THEN t.tail + t.count
                                       ELSE (t.tail + t.count) - FifoSize
  <2> DEFINE a == t.tail + t.count
  <2>1. a \in 0..(2 * FifoSize - 1)
    BY <1>1, <1>2, <1>3 DEF Index
  <2> HIDE DEF a
  <2>2. a % FifoSize = IF a < FifoSize THEN a ELSE a - FifoSize
    BY <2>1, Wrap
  <2> QED BY <2>2 DEF a
<1>7. Coherent(t)
  BY <1>1, <1>2, <1>3, <1>5, <1>6 DEF Coherent, Index
<1>8. ASSUME NEW k \in 1..(r.count - n)
      PROVE  Contents(t)[k] = Contents(r)[k + n]
  <2>1. (t.tail + k - 1) % FifoSize =
          IF t.tail + k - 1 < FifoSize THEN t.tail + k - 1 ELSE (t.tail + k - 1) - FifoSize
    <3> DEFINE a == t.tail + k - 1
    <3>1. a \in 0..(2 * FifoSize - 1)
      BY <1>1, <1>2, <1>3 DEF Index
    <3> HIDE DEF a
    <3>2. a % FifoSize = IF a < FifoSize THEN a ELSE a - FifoSize
      BY <3>1, Wrap
    <3> QED BY <3>2 DEF a
  <2>2. (r.tail + (k + n) - 1) % FifoSize =
          IF r.tail + (k + n) - 1 < FifoSize THEN r.tail + (k + n) - 1
                                            ELSE (r.tail + (k + n) - 1) - FifoSize
    <3> DEFINE a == r.tail + (k + n) - 1
    <3>1. a \in 0..(2 * FifoSize - 1)
      BY <1>1 DEF Index
    <3> HIDE DEF a
    <3>2. a % FifoSize = IF a < FifoSize THEN a ELSE a - FifoSize
      BY <3>1, Wrap
    <3> QED BY <3>2 DEF a
  <2>3. (t.tail + k - 1) % FifoSize = (r.tail + (k + n) - 1) % FifoSize
    <3>1. CASE r.tail + n < FifoSize
      <4>1. t.tail + k - 1 = r.tail + (k + n) - 1
        BY <3>1, <1>1, <1>2, <1>3 DEF Index
      <4> QED BY <4>1
    <3>2. CASE r.tail + n >= FifoSize
      <4>1. t.tail + k - 1 = (r.tail + (k + n) - 1) - FifoSize /\ t.tail + k - 1 < FifoSize
            /\ t.tail \in Nat
        BY <3>2, <1>1, <1>2, <1>3 DEF Index
      <4>2. r.tail + (k + n) - 1 >= FifoSize
        BY <4>1, <1>1 DEF Index
      <4> QED BY <4>1, <4>2, <2>1, <2>2, <1>1 DEF Index
    <3> QED BY <3>1, <3>2, <1>1 DEF Index
  <2>4. k \in 1..t.count /\ k + n \in 1..r.count
    BY <1>1, <1>2
  <2>5. Contents(t)[k] = t.buf[(t.tail + k - 1) % FifoSize]
    BY <2>4 DEF Contents
  <2>6. Contents(r)[k + n] = r.buf[(r.tail + (k + n) - 1) % FifoSize]
    BY <2>4 DEF Contents
  <2> QED BY <2>3, <2>5, <2>6, <1>2
<1>9. Contents(t) = SubSeq(Contents(r), n + 1, Len(Contents(r)))
  <2> DEFINE s == SubSeq(Contents(r), n + 1, r.count)
  <2>1. Len(Contents(r)) = r.count /\ Contents(r) \in Seq(Byte)
    BY ContentsType
  <2>2. Contents(t) \in Seq(Byte) /\ Len(Contents(t)) = r.count - n
    BY <1>4, <1>2, ContentsType
  <2>3. s \in Seq(Byte) /\ Len(s) = r.count - n
    BY <2>1, <1>1
  <2>4. \A k \in 1..(r.count - n) : s[k] = Contents(r)[k + n]
    BY <2>1, <1>1
  <2> QED BY <2>1, <2>2, <2>3, <2>4, <1>8
<1> QED BY <1>4, <1>7, <1>9

\* A burst goes in as far as there is room, in order.
LEMMA PutManyRing ==
  ASSUME NEW r \in Ring, Coherent(r), NEW s \in Seq(Byte)
  PROVE  LET n == Smaller(Len(s), FifoSize - r.count)
         IN /\ PutMany(r, s) \in Ring
            /\ Coherent(PutMany(r, s))
            /\ n \in 0..Len(s)
            /\ Contents(PutMany(r, s)) = Contents(r) \o SubSeq(s, 1, n)
<1> FifoSize \in Nat \ {0}
  BY UartConstants
<1> DEFINE n == Smaller(Len(s), FifoSize - r.count)
           p == PutMany(r, s)
           hd == (r.head + n) % FifoSize
           off == [i \in Index |-> ((i + FifoSize) - r.head) % FifoSize]
           cells == [i \in Index |-> IF off[i] < n THEN s[off[i] + 1] ELSE r.buf[i]]
<1>1. r.head \in Index /\ r.tail \in Index /\ r.count \in 0..FifoSize
  BY DEF Ring
<1>2. Len(s) \in Nat /\ n \in 0..Len(s) /\ n \in 0..(FifoSize - r.count) /\ n \in 0..FifoSize
  BY <1>1 DEF Smaller
<1>3. p = [buf |-> cells, head |-> hd, tail |-> r.tail, count |-> r.count + n]
  BY DEF PutMany
<1> HIDE DEF n, p
<1>4. \A i \in Index : off[i] = IF i < r.head THEN (i + FifoSize) - r.head ELSE i - r.head
  BY <1>1, WrapDown
<1>5. hd = IF r.head + n < FifoSize THEN r.head + n ELSE (r.head + n) - FifoSize
  BY <1>1, <1>2, WrapUp
<1> HIDE DEF hd, off
<1>6. r.head = IF r.tail + r.count < FifoSize THEN r.tail + r.count
                                              ELSE (r.tail + r.count) - FifoSize
  BY <1>1, WrapUp DEF Coherent
<1>7. cells \in [Index -> Byte]
  <2>1. ASSUME NEW i \in Index
        PROVE  (IF off[i] < n THEN s[off[i] + 1] ELSE r.buf[i]) \in Byte
    <3>1. CASE off[i] < n
      <4>1. off[i] + 1 \in 1..Len(s)
        <5>1. off[i] \in Nat
          BY <1>1, <1>4 DEF Index
        <5> QED BY <5>1, <3>1, <1>2
      <4> QED BY <4>1, <3>1, ElementOfSeq
    <3>2. CASE ~(off[i] < n)
      BY <3>2 DEF Ring
    <3> QED BY <3>1, <3>2
  <2> QED BY <2>1
<1> HIDE DEF cells
<1>8. hd \in Index /\ r.count + n \in 0..FifoSize
  <2>1. r.head \in 0 .. FifoSize - 1 /\ n \in 0 .. FifoSize /\ FifoSize \in Nat
    BY <1>1, <1>2 DEF Index
  <2>2. hd \in 0 .. FifoSize - 1
    BY <1>5, <2>1
  <2>3. r.count + n \in 0 .. FifoSize
    BY <1>1, <1>2
  <2> QED BY <2>2, <2>3 DEF Index
<1>9. p \in Ring /\ p.buf = cells /\ p.head = hd /\ p.tail = r.tail /\ p.count = r.count + n
  BY <1>1, <1>3, <1>7, <1>8 DEF Ring
<1>10. Coherent(p)
  <2>1. (r.tail + (r.count + n)) % FifoSize =
          IF r.tail + (r.count + n) < FifoSize THEN r.tail + (r.count + n)
                                              ELSE (r.tail + (r.count + n)) - FifoSize
    BY <1>1, <1>8, WrapUp
  <2> DEFINE e == (r.tail + (r.count + n)) % FifoSize
  <2> HIDE DEF e
  <2>2. e = IF r.tail + (r.count + n) < FifoSize THEN r.tail + (r.count + n)
                                              ELSE (r.tail + (r.count + n)) - FifoSize
    BY <2>1 DEF e
  <2>3. hd = e
    <3> DEFINE h == r.head
               t == r.tail
               k == r.count
    <3>1. /\ h \in Int /\ t \in Int /\ k \in Int /\ n \in Int
          /\ 0 <= t /\ t < FifoSize /\ 0 <= k /\ 0 <= n /\ k + n <= FifoSize
      BY <1>1, <1>2 DEF Index
    <3>2. /\ h = IF t + k < FifoSize THEN t + k ELSE (t + k) - FifoSize
          /\ hd = IF h + n < FifoSize THEN h + n ELSE (h + n) - FifoSize
          /\ e = IF t + (k + n) < FifoSize THEN t + (k + n) ELSE (t + (k + n)) - FifoSize
      BY <2>2, <1>5, <1>6
    <3> HIDE DEF h, t, k
    <3> QED BY <3>1, <3>2
  <2> QED BY <2>3, <1>9 DEF e, Coherent
<1>11. Contents(r) \in Seq(Byte) /\ Len(Contents(r)) = r.count
  BY ContentsType
<1>12. SubSeq(s, 1, n) \in Seq(Byte) /\ Len(SubSeq(s, 1, n)) = n
       /\ \A k \in 1..n : SubSeq(s, 1, n)[k] = s[k]
  BY <1>2, SubSeqProperties
<1> DEFINE c == Contents(r) \o SubSeq(s, 1, n)
<1>13. /\ c \in Seq(Byte) /\ Len(c) = r.count + n
       /\ \A k \in 1..r.count : c[k] = Contents(r)[k]
       /\ \A k \in (r.count + 1)..(r.count + n) : c[k] = s[k - r.count]
  <2> DEFINE u == Contents(r)
             v == SubSeq(s, 1, n)
  <2>1. u \in Seq(Byte) /\ v \in Seq(Byte) /\ Len(u) = r.count /\ Len(v) = n
        /\ \A k \in 1..n : v[k] = s[k]
    BY <1>11, <1>12
  <2> HIDE DEF u, v
  <2>2. u \o v \in Seq(Byte) /\ Len(u \o v) = r.count + n
    <3>1. u \in Seq(Byte) /\ v \in Seq(Byte)
      BY <2>1
    <3>2. u \o v \in Seq(Byte) /\ Len(u \o v) = Len(u) + Len(v)
      BY <3>1, ConcatProperties
    <3> QED BY <3>2, <2>1
  <2>3. \A k \in 1..(r.count + n) :
          (u \o v)[k] = IF k <= r.count THEN u[k] ELSE v[k - r.count]
    <3>1. \A k \in 1..(Len(u) + Len(v)) :
            (u \o v)[k] = IF k <= Len(u) THEN u[k] ELSE v[k - Len(u)]
      BY <2>1, ConcatProperties
    <3> QED BY <3>1, <2>1
  <2>4. \A k \in 1..r.count : k \in 1..(r.count + n) /\ k <= r.count
    BY <1>1, <1>2
  <2>5. \A k \in (r.count + 1)..(r.count + n) :
          k \in 1..(r.count + n) /\ ~(k <= r.count) /\ k - r.count \in 1..n
    BY <1>1, <1>2
  <2>6. \A k \in 1..r.count : (u \o v)[k] = u[k]
    BY <2>3, <2>4
  <2>7. \A k \in (r.count + 1)..(r.count + n) : (u \o v)[k] = s[k - r.count]
    <3>1. TAKE k \in (r.count + 1)..(r.count + n)
    <3>2. (u \o v)[k] = v[k - r.count]
      BY <2>3, <2>5
    <3>3. k - r.count \in 1..n
      BY <2>5
    <3> QED BY <3>2, <3>3, <2>1
  <2> QED BY <2>2, <2>6, <2>7 DEF u, v
<1> HIDE DEF c
<1>14. ASSUME NEW k \in 1..(r.count + n)
       PROVE  Contents(p)[k] = c[k]
  <2> DEFINE i == (r.tail + k - 1) % FifoSize
  <2>1. i = IF r.tail + k - 1 < FifoSize THEN r.tail + k - 1 ELSE (r.tail + k - 1) - FifoSize
    <3> DEFINE a == r.tail + k - 1
    <3>1. a \in 0..(2 * FifoSize - 1)
      BY <1>1, <1>2 DEF Index
    <3> HIDE DEF a
    <3>2. a % FifoSize = IF a < FifoSize THEN a ELSE a - FifoSize
      BY <3>1, Wrap
    <3> QED BY <3>2 DEF a
  <2>2. Contents(p)[k] = cells[i]
    BY <1>9 DEF Contents
  <2>3. k \in 1..r.count => Contents(r)[k] = r.buf[i]
    BY DEF Contents
  <2> HIDE DEF i
  <2>4. i \in Index
    BY <2>1, <1>1, <1>2 DEF Index
  <2>5. cells[i] = IF off[i] < n THEN s[off[i] + 1] ELSE r.buf[i]
    BY <2>4 DEF cells
  <2>6. off[i] = IF i < r.head THEN (i + FifoSize) - r.head ELSE i - r.head
    BY <2>4, <1>4
  <2>10. (k <= r.count => ~(off[i] < n)) /\ (k > r.count => off[i] = k - r.count - 1)
    <3> DEFINE h == r.head
               t == r.tail
               m == r.count
               o == off[i]
    <3>1. /\ h \in Int /\ t \in Int /\ m \in Int /\ n \in Int /\ k \in Int /\ i \in Int
          /\ 0 <= t /\ t < FifoSize /\ 0 <= m /\ 0 <= n /\ m + n <= FifoSize
          /\ 1 <= k /\ k <= m + n
      BY <1>1, <1>2, <2>4 DEF Index
    <3>2. /\ h = IF t + m < FifoSize THEN t + m ELSE (t + m) - FifoSize
          /\ i = IF t + k - 1 < FifoSize THEN t + k - 1 ELSE (t + k - 1) - FifoSize
          /\ o = IF i < h THEN (i + FifoSize) - h ELSE i - h
      BY <2>1, <2>6, <1>6
    <3> HIDE DEF h, t, m, o
    <3>3. (m + n <= FifoSize /\ k <= m) => ~(o < n)
      BY <3>1, <3>2
    <3>4. k > m => o = k - m - 1
      BY <3>1, <3>2
    <3> QED BY <3>1, <3>3, <3>4 DEF h, t, m, o
  <2>7. CASE k \in 1..r.count
    <3>1. ~(off[i] < n)
      BY <2>7, <2>10, <1>1
    <3> QED BY <3>1, <2>2, <2>3, <2>5, <2>7, <1>13
  <2>8. CASE k \in (r.count + 1)..(r.count + n)
    <3>1. off[i] = k - r.count - 1 /\ k - r.count <= n /\ k > r.count /\ k \in Int /\ r.count \in Int
      BY <2>8, <2>10, <1>1, <1>2
    <3> DEFINE d == k - r.count
    <3>2. d \in Int /\ d <= n /\ off[i] = d - 1
      BY <3>1
    <3>3. c[k] = s[d]
      BY <1>13, <2>8
    <3> HIDE DEF d
    <3>4. off[i] < n /\ off[i] + 1 = d
      BY <3>2, <1>2
    <3> QED BY <3>4, <3>3, <2>2, <2>5
  <2>9. k \in 1..r.count \/ k \in (r.count + 1)..(r.count + n)
    BY <1>1, <1>2
  <2> QED BY <2>7, <2>8, <2>9
<1>15. Contents(p) \in Seq(Byte) /\ Len(Contents(p)) = r.count + n
  BY <1>9, ContentsType
<1>16. Contents(p) = c
  BY <1>13, <1>14, <1>15, SeqEqual
<1> QED BY <1>2, <1>9, <1>10, <1>16 DEF n, p, c

\* A ring built from saved bytes holds them.
LEMMA LoadedRing ==
  ASSUME NEW n \in 0..FifoSize, NEW q \in [1..n -> Byte]
  PROVE  /\ Loaded(q) \in Ring
         /\ Coherent(Loaded(q))
         /\ Contents(Loaded(q)) = q
<1> FifoSize \in Nat \ {0} /\ ZeroByte \in Byte
  BY UartConstants
<1> DEFINE l == Loaded(q)
<1>1. Len(q) = n /\ q \in Seq(Byte)
  OBVIOUS
<1>2. l = [buf   |-> [i \in Index |-> IF i < n THEN q[i + 1] ELSE ZeroByte],
           head  |-> n % FifoSize, tail |-> 0, count |-> n]
  BY <1>1 DEF Loaded
<1>3. \A i \in Index : (IF i < n THEN q[i + 1] ELSE ZeroByte) \in Byte
  BY DEF Index
<1>4. n % FifoSize \in Index
  BY ModRange DEF Index
<1>5. l \in Ring
  BY <1>2, <1>3, <1>4 DEF Ring, Index
<1>6. Coherent(l)
  BY <1>2 DEF Coherent
<1>7. ASSUME NEW k \in 1..n
      PROVE  Contents(l)[k] = q[k]
  <2> DEFINE a == 0 + k - 1
  <2>1. a \in 0..(FifoSize - 1) /\ a = k - 1
    OBVIOUS
  <2> HIDE DEF a
  <2>2. a % FifoSize = a
    BY <2>1, ModBelow
  <2>3. Contents(l)[k] = l.buf[a % FifoSize]
    BY <1>2 DEF Contents, a
  <2>4. l.buf[a] = q[k]
    <3>1. a \in Index /\ a < n /\ a + 1 = k
      BY <2>1 DEF Index
    <3> QED BY <3>1, <1>2
  <2> QED BY <2>2, <2>3, <2>4
<1>8. Contents(l) \in Seq(Byte) /\ Len(Contents(l)) = n
  BY <1>5, <1>2, ContentsType
<1>9. Contents(l) = q
  <2> HIDE DEF l
  <2> QED BY <1>1, <1>7, <1>8, SeqEqual
<1> QED BY <1>5, <1>6, <1>9

\* A ring that is cleared is empty and coherent.
LEMMA RewoundRing ==
  ASSUME NEW r \in Ring
  PROVE  Rewound(r) \in Ring /\ Coherent(Rewound(r)) /\ Contents(Rewound(r)) = <<>>
<1> FifoSize \in Nat \ {0}
  BY UartConstants
<1>1. 0 % FifoSize = 0
  BY ModBelow
<1>2. Rewound(r) \in Ring /\ Coherent(Rewound(r))
  BY <1>1 DEF Rewound, Ring, Coherent, Index
<1>3. Contents(Rewound(r)) \in Seq(Byte) /\ Len(Contents(Rewound(r))) = 0
  BY <1>2, ContentsType DEF Rewound
<1> QED BY <1>2, <1>3, EmptySeq

\* What went in and what is left over make up the burst.
LEMMA SplitConcat ==
  ASSUME NEW S, NEW c \in Seq(S), NEW s \in Seq(S), NEW m \in 0..Len(s)
  PROVE  (c \o SubSeq(s, 1, m)) \o SubSeq(s, m + 1, Len(s)) = c \o s
<1> DEFINE a == SubSeq(s, 1, m)
           b == SubSeq(s, m + 1, Len(s))
           x == c \o a
           y == x \o b
           z == c \o s
<1>1. Len(s) \in Nat /\ Len(c) \in Nat
  BY LenProperties
<1>2. /\ a \in Seq(S) /\ Len(a) = m /\ \A i \in 1..m : a[i] = s[i]
      /\ b \in Seq(S) /\ Len(b) = Len(s) - m /\ \A i \in 1..(Len(s) - m) : b[i] = s[m + i]
  <2>1. a \in Seq(S) /\ Len(a) = m /\ \A i \in 1..m : a[i] = s[i]
    BY <1>1, SubSeqProperties
  <2>2. b \in Seq(S) /\ Len(b) = Len(s) - m
    BY <1>1, SubSeqProperties
  <2>3. \A i \in 1..(Len(s) - m) : b[i] = s[m + i]
    BY <1>1, SubSeqProperties
  <2> QED BY <2>1, <2>2, <2>3
<1> HIDE DEF a, b
<1>3. /\ x \in Seq(S) /\ Len(x) = Len(c) + m
      /\ \A i \in 1..(Len(c) + m) : x[i] = IF i <= Len(c) THEN c[i] ELSE a[i - Len(c)]
  <2>1. /\ x \in Seq(S) /\ Len(x) = Len(c) + Len(a)
        /\ \A i \in 1..(Len(c) + Len(a)) : x[i] = IF i <= Len(c) THEN c[i] ELSE a[i - Len(c)]
    BY <1>2, ConcatProperties
  <2> QED BY <2>1, <1>2
<1> HIDE DEF x
<1>4. /\ y \in Seq(S) /\ Len(y) = Len(x) + Len(b)
      /\ \A i \in 1..(Len(x) + Len(b)) : y[i] = IF i <= Len(x) THEN x[i] ELSE b[i - Len(x)]
  <2>1. x \in Seq(S) /\ b \in Seq(S)
    BY <1>2, <1>3
  <2> QED BY <2>1, ConcatProperties
<1>5. /\ z \in Seq(S) /\ Len(z) = Len(c) + Len(s)
      /\ \A i \in 1..(Len(c) + Len(s)) : z[i] = IF i <= Len(c) THEN c[i] ELSE s[i - Len(c)]
  BY ConcatProperties
<1> HIDE DEF y, z
<1>6. Len(x) + Len(b) = Len(c) + Len(s)
  BY <1>1, <1>2, <1>3
<1>7. ASSUME NEW i \in 1..(Len(c) + Len(s)) PROVE y[i] = z[i]
  <2>1. CASE i <= Len(c)
    <3>1. i <= Len(x) /\ i \in 1..(Len(c) + m)
      BY <2>1, <1>1, <1>3
    <3> QED BY <3>1, <2>1, <1>3, <1>4, <1>5, <1>6
  <2>2. CASE ~(i <= Len(c)) /\ i <= Len(c) + m
    <3>1. i \in 1..(Len(c) + m) /\ i - Len(c) \in 1..m /\ i <= Len(x)
      BY <2>2, <1>1, <1>3
    <3> QED BY <3>1, <2>2, <1>2, <1>3, <1>4, <1>5, <1>6
  <2>3. CASE ~(i <= Len(c) + m)
    <3>1. ~(i <= Len(x)) /\ i - Len(x) \in 1..(Len(s) - m) /\ m + (i - Len(x)) = i - Len(c)
          /\ ~(i <= Len(c))
      BY <2>3, <1>1, <1>3
    <3>2. b[i - Len(x)] = s[m + (i - Len(x))]
      BY <3>1, <1>2
    <3> QED BY <3>1, <3>2, <1>4, <1>5, <1>6
  <2> QED BY <2>1, <2>2, <2>3
<1>8. y = z
  BY <1>4, <1>5, <1>6, <1>7, SeqEqual
<1> QED BY <1>8 DEF a, b, x, y, z

-----------------------------------------------------------------------------
(* Types of the register and bridge helpers. *)

\* Updating the registers leaves flags of the right kind.
LEMMA UartRegsType ==
  ASSUME NEW r, NEW t, NEW c, UpdateUartRegs(r, t, c)
  PROVE  rxFlags' \in SUBSET RxFlags /\ txFlags' \in SUBSET TxFlags /\ uartPending' \in BOOLEAN
<1>1. rxFlags' \in SUBSET RxFlags /\ txFlags' \in SUBSET TxFlags
  BY DEF UpdateUartRegs, RxStatus, TxStatus
<1>2. Requested(c, RxStatus(r), TxStatus(t)) \in BOOLEAN
  BY DEF Requested
<1> QED BY <1>1, <1>2 DEF UpdateUartRegs

\* What the bridge reads is a prefix of the serial input that fits the FIFO.
LEMMA BridgeReadsFit ==
  ASSUME TypeOK
  PROVE  LET m == Len(BridgeReads)
         IN /\ BridgeReads \in Seq(Byte)
            /\ m \in 0..Len(serialIn) /\ m <= FifoSize - rx.count /\ m <= BridgeChunk
            /\ BridgeReads = SubSeq(serialIn, 1, m)
            /\ Smaller(m, FifoSize - rx.count) = m
<1> FifoSize \in Nat \ {0} /\ BridgeChunk \in Nat \ {0}
  BY UartConstants
<1> DEFINE m == Smaller(Len(serialIn), Smaller(BridgeChunk, FifoSize - rx.count))
<1>1. serialIn \in Seq(Byte) /\ rx.count \in 0..FifoSize
  BY DEF TypeOK, Ring
<1>2. m \in 0..Len(serialIn) /\ m <= FifoSize - rx.count /\ m <= BridgeChunk
  BY <1>1, LenProperties DEF Smaller
<1> HIDE DEF m
<1>3. SubSeq(serialIn, 1, m) \in Seq(Byte) /\ Len(SubSeq(serialIn, 1, m)) = m
  BY <1>1, <1>2, SubSeqProperties
<1>4. BridgeReads = SubSeq(serialIn, 1, m)
  BY DEF BridgeReads, m
<1>5. Smaller(m, FifoSize - rx.count) = m
  BY <1>1, <1>2 DEF Smaller
<1> QED BY <1>2, <1>3, <1>4, <1>5

-----------------------------------------------------------------------------
(* TypeOK and RingsCoherent form an inductive invariant: the head of a ring *)
(* stays in its array only because it never drifts from tail and count.     *)

RingInv == TypeOK /\ RingsCoherent

\* The invariant holds at reset.
LEMMA InitRingInv == Init => RingInv
<1> FifoSize \in Nat \ {0} /\ ZeroByte \in Byte /\ EchoBytes \in Nat
  BY UartConstants
<1> SUFFICES ASSUME Init PROVE RingInv
  OBVIOUS
<1>1. 0 % FifoSize = 0
  BY ModBelow
<1>2. EmptyRing \in Ring /\ Coherent(EmptyRing)
  BY <1>1 DEF EmptyRing, Ring, Coherent, Index
<1>3. TxStatus(tx) \subseteq TxFlags
  BY DEF TxStatus
<1>4. <<>> \in Seq(Byte)
  OBVIOUS
<1>5. rx \in Ring /\ tx \in Ring /\ RingsCoherent
  BY <1>2 DEF Init, RingsCoherent
<1>6. rxOverrun \in Nat /\ txOverrun \in Nat /\ echoBudget \in 0..EchoBytes
  BY DEF Init
<1>7. /\ control \in SUBSET Flags
      /\ irdaEnabled \in BOOLEAN /\ irdaEnabledLast \in BOOLEAN /\ echoWindow \in BOOLEAN
      /\ rxFlags \in SUBSET RxFlags /\ txFlags \in SUBSET TxFlags /\ uartPending \in BOOLEAN
      /\ serialIn \in Seq(Byte) /\ saved = <<>>
  BY <1>3, <1>4 DEF Init
<1> QED BY <1>5, <1>6, <1>7 DEF RingInv, TypeOK

\* The two rings after one bridge call.
LEMMA BridgeRings ==
  ASSUME RingInv, NEW n \in 0..FifoSize, BridgeService(n)
  PROVE  /\ rx' \in Ring /\ Coherent(rx') /\ tx' \in Ring /\ Coherent(tx')
         /\ Contents(rx') = Contents(rx) \o BridgeReads
         /\ Contents(tx') = SubSeq(Contents(tx), n + 1, Len(Contents(tx)))
         /\ rxOverrun' = rxOverrun
         /\ serialIn' \in Seq(Byte)
<1> DEFINE m == Len(BridgeReads)
<1>1. /\ rx \in Ring /\ Coherent(rx) /\ tx \in Ring /\ Coherent(tx) /\ serialIn \in Seq(Byte)
      /\ rxOverrun \in Nat
  BY DEF RingInv, TypeOK, RingsCoherent
<1>2. /\ BridgeReads \in Seq(Byte) /\ m \in 0..Len(serialIn)
      /\ BridgeReads = SubSeq(serialIn, 1, m)
      /\ Smaller(m, FifoSize - rx.count) = m
  BY BridgeReadsFit DEF RingInv
<1>3. /\ rx' = PutMany(rx, BridgeReads) /\ rxOverrun' = rxOverrun + m - m
      /\ tx' = Take(tx, n) /\ n <= tx.count
      /\ serialIn' = SubSeq(serialIn, m + 1, Len(serialIn))
  BY <1>2 DEF BridgeService, WriteRx
<1> HIDE DEF m
<1>4. rxOverrun' = rxOverrun
  BY <1>1, <1>2, <1>3
<1>5. serialIn' \in Seq(Byte)
  <2>1. Len(serialIn) \in Nat /\ m + 1 \in Nat
    BY <1>1, <1>2, LenProperties
  <2> QED BY <2>1, <1>1, <1>2, <1>3, SubSeqProperties
<1>6. tx' \in Ring /\ Coherent(tx')
      /\ Contents(tx') = SubSeq(Contents(tx), n + 1, Len(Contents(tx)))
  <2>1. n \in 0..tx.count
    BY <1>1, <1>3 DEF Ring
  <2> QED BY <2>1, <1>1, <1>3, TakeRing
<1>7. rx' \in Ring /\ Coherent(rx') /\ Contents(rx') = Contents(rx) \o SubSeq(BridgeReads, 1, m)
  BY <1>1, <1>2, <1>3, PutManyRing DEF m
<1>8. SubSeq(BridgeReads, 1, m) = BridgeReads
  BY <1>2, SubSeqProperties DEF m
<1> QED BY <1>4, <1>5, <1>6, <1>7, <1>8

\* The two rings after a guest byte went into the transmit FIFO.
LEMMA WriteTxRings ==
  ASSUME RingInv, NEW b \in Byte, CpuWriteTx(b)
  PROVE  /\ rx' \in Ring /\ Coherent(rx') /\ tx' \in Ring /\ Coherent(tx')
         /\ Contents(tx') = Append(Contents(tx), b)
         /\ rxOverrun' \in Nat /\ echoBudget' \in 0..EchoBytes
<1>1. /\ rx \in Ring /\ Coherent(rx) /\ tx \in Ring /\ Coherent(tx)
      /\ rxOverrun \in Nat /\ echoBudget \in 0..EchoBytes /\ EchoBytes \in Nat
  BY UartConstants DEF RingInv, TypeOK, RingsCoherent
<1>2. tx' = Put(tx, b) /\ tx.count < FifoSize
  BY DEF CpuWriteTx
<1>3. tx' \in Ring /\ Coherent(tx') /\ Contents(tx') = Append(Contents(tx), b)
  BY <1>1, <1>2, PutRing
<1>4. CASE NoEcho(b)
  <2>1. rx' = rx /\ rxOverrun' = rxOverrun /\ echoBudget' \in {echoBudget, 0}
    BY <1>4 DEF NoEcho
  <2> QED BY <2>1, <1>1, <1>3
<1>5. CASE Echoed(b)
  <2>1. \/ rx.count < FifoSize /\ rx' = Put(rx, b) /\ rxOverrun' = rxOverrun
              /\ echoBudget > 0 /\ echoBudget' = echoBudget - 1
        \/ rx' = rx /\ rxOverrun' = rxOverrun + 1 /\ echoBudget' = echoBudget
    BY <1>5 DEF Echoed
  <2>2. rx' \in Ring /\ Coherent(rx')
    BY <2>1, <1>1, PutRing
  <2>3. rxOverrun' \in Nat /\ echoBudget' \in 0..EchoBytes
    BY <2>1, <1>1
  <2> QED BY <2>2, <2>3, <1>3
<1> QED BY <1>4, <1>5 DEF CpuWriteTx

\* Everything in TypeOK but the two rings and the bytes in flight.
Rest == /\ rxOverrun \in Nat /\ txOverrun \in Nat
        /\ control \in SUBSET Flags
        /\ irdaEnabled \in BOOLEAN /\ irdaEnabledLast \in BOOLEAN
        /\ echoBudget \in 0..EchoBytes /\ echoWindow \in BOOLEAN
        /\ rxFlags \in SUBSET RxFlags /\ txFlags \in SUBSET TxFlags
        /\ uartPending \in BOOLEAN
        /\ saved = <<>> \/ (saved = <<saved[1]>> /\ saved[1] \in SavedUart)

\* Every step keeps the invariant.
LEMMA NextRingInv == RingInv /\ [Next]_vars => RingInv'
<1> SUFFICES ASSUME RingInv, [Next]_vars PROVE RingInv'
  OBVIOUS
<1> DEFINE RxRing == rx \in Ring /\ Coherent(rx)
           TxRing == tx \in Ring /\ Coherent(tx)
           In == serialIn \in Seq(Byte)
<1>1. RxRing /\ TxRing /\ In /\ Rest
  BY DEF RingInv, TypeOK, RingsCoherent, Rest
<1>2. SUFFICES RxRing' /\ TxRing' /\ In' /\ Rest'
  BY <1>2 DEF RingInv, TypeOK, RingsCoherent, Rest
<1>3. FifoSize \in Nat \ {0} /\ EchoBytes \in Nat /\ ControlValues \subseteq SUBSET Flags
      /\ IrdaValues \subseteq BOOLEAN
  BY UartConstants
<1>4. CASE CpuReadRx
  <2>1. rx' = Take(rx, 1) /\ 1 \in 0..rx.count
    BY <1>1, <1>4 DEF CpuReadRx, Ring
  <2>2. RxRing'
    BY <2>1, <1>1, TakeRing
  <2>3. Rest'
    BY <1>1, <1>4, UartRegsType DEF CpuReadRx, Rest, irda
  <2> QED BY <2>2, <2>3, <1>1, <1>4 DEF CpuReadRx
<1>5. ASSUME NEW b \in Byte, CpuWriteTx(b)
      PROVE  RxRing' /\ TxRing' /\ In' /\ Rest'
  <2>1. RxRing' /\ TxRing' /\ rxOverrun' \in Nat /\ echoBudget' \in 0..EchoBytes
    BY <1>5, WriteTxRings
  <2>2. Rest'
    BY <2>1, <1>1, <1>5, UartRegsType DEF CpuWriteTx, Rest
  <2> QED BY <2>1, <2>2, <1>1, <1>5 DEF CpuWriteTx
<1>6. CASE CpuWriteTxFull
  <2>1. txOverrun' \in Nat
    BY <1>1, <1>6 DEF CpuWriteTxFull, Rest
  <2>2. Rest'
    BY <2>1, <1>1, <1>6, UartRegsType DEF CpuWriteTxFull, Rest, irda
  <2> QED BY <2>2, <1>1, <1>6 DEF CpuWriteTxFull
<1>7. ASSUME NEW c \in ControlValues, CpuWriteControl(c)
      PROVE  RxRing' /\ TxRing' /\ In' /\ Rest'
  <2>1. Rest'
    BY <1>1, <1>3, <1>7, UartRegsType DEF CpuWriteControl, Rest, irda, fifos
  <2> QED BY <2>1, <1>1, <1>7 DEF CpuWriteControl, fifos
<1>8. ASSUME NEW e \in IrdaValues, CpuWriteMisc(e)
      PROVE  RxRing' /\ TxRing' /\ In' /\ Rest'
  <2>1. echoBudget' \in {echoBudget, EchoBytes, 0} /\ echoWindow' \in BOOLEAN
    BY <1>1, <1>8 DEF CpuWriteMisc, Rest
  <2>2. echoBudget' \in 0..EchoBytes
    BY <2>1, <1>1, <1>3 DEF Rest
  <2>3. irdaEnabled' \in BOOLEAN /\ irdaEnabledLast' \in BOOLEAN
    BY <1>3, <1>8 DEF CpuWriteMisc
  <2>4. Rest'
    BY <2>1, <2>2, <2>3, <1>1, <1>8, UartRegsType DEF CpuWriteMisc, Rest, fifos
  <2> QED BY <2>4, <1>1, <1>8 DEF CpuWriteMisc, fifos
<1>9. CASE EchoWindowCloses
  BY <1>1, <1>9 DEF EchoWindowCloses, Rest, fifos, regs
<1>10. ASSUME NEW b \in Byte, HostSends(b)
       PROVE  RxRing' /\ TxRing' /\ In' /\ Rest'
  <2>1. Rest' /\ RxRing' /\ TxRing'
    BY <1>1, <1>10 DEF HostSends, Rest, fifos, irda, regs
  <2> QED BY <2>1, <1>1, <1>10 DEF HostSends
<1>11. ASSUME NEW n \in 0..FifoSize, BridgeService(n)
       PROVE  RxRing' /\ TxRing' /\ In' /\ Rest'
  <2>1. RxRing' /\ TxRing' /\ In' /\ rxOverrun' = rxOverrun
    BY <1>11, BridgeRings
  <2>2. Rest'
    BY <2>1, <1>1, <1>11, UartRegsType DEF BridgeService, Rest, irda
  <2> QED BY <2>1, <2>2
<1>12. CASE Reset
  <2>1. RxRing' /\ TxRing'
    BY <1>1, <1>12, RewoundRing DEF Reset
  <2>2. rxOverrun' \in Nat /\ txOverrun' \in Nat /\ echoBudget' \in 0..EchoBytes
    BY <1>3, <1>12 DEF Reset
  <2>3. Rest'
    BY <2>2, <1>1, <1>12, UartRegsType DEF Reset, Rest
  <2> QED BY <2>1, <2>3, <1>1, <1>12 DEF Reset
<1>13. CASE SaveState
  <2> DEFINE s == [rx |-> Contents(rx), tx |-> Contents(tx),
                   rxOverrun |-> rxOverrun, txOverrun |-> txOverrun,
                   control |-> control, irdaEnabled |-> irdaEnabled]
  <2>1. \A q \in {rx, tx} : Contents(q) \in UNION {[1..n -> Byte] : n \in 0..FifoSize}
    BY <1>1, ContentsType DEF Ring
  <2>2. s \in SavedUart
    BY <2>1, <1>1 DEF SavedUart, Rest
  <2>3. Rest'
    BY <2>2, <1>1, <1>13, UartRegsType DEF SaveState, Rest, fifos, irda
  <2> QED BY <2>3, <1>1, <1>13 DEF SaveState, fifos
<1>14. CASE LoadState
  <2>1. PICK s \in SavedUart : saved = <<s>>
    BY <1>1, <1>14 DEF LoadState, Rest
  <2>2. saved[1] = s
    BY <2>1
  <2>3. \A q \in {s.rx, s.tx} : Loaded(q) \in Ring /\ Coherent(Loaded(q))
    <3>1. TAKE q \in {s.rx, s.tx}
    <3>2. PICK n \in 0..FifoSize : q \in [1..n -> Byte]
      BY <2>1 DEF SavedUart
    <3> QED BY <3>2, LoadedRing
  <2>4. RxRing' /\ TxRing'
    BY <2>2, <2>3, <1>14 DEF LoadState
  <2>5. /\ rxOverrun' = s.rxOverrun /\ txOverrun' = s.txOverrun /\ control' = s.control
        /\ irdaEnabled' = s.irdaEnabled /\ irdaEnabledLast' = s.irdaEnabled
        /\ echoBudget' = 0 /\ echoWindow' = FALSE /\ saved' = saved
        /\ UpdateUartRegs(rx', tx', control') /\ serialIn' = serialIn
    BY <2>2, <1>14 DEF LoadState
  <2>6. s.rxOverrun \in Nat /\ s.txOverrun \in Nat /\ s.control \in SUBSET Flags
        /\ s.irdaEnabled \in BOOLEAN
    BY <2>1 DEF SavedUart
  <2>7. echoBudget' \in 0..EchoBytes
    BY <2>5, <1>3
  <2>8. Rest'
    BY <2>5, <2>6, <2>7, <1>1, UartRegsType DEF Rest
  <2> QED BY <2>4, <2>5, <2>8, <1>1
<1>15. CASE UNCHANGED vars
  BY <1>1, <1>15 DEF vars, fifos, irda, regs, Rest
<1> QED BY <1>4, <1>5, <1>6, <1>7, <1>8, <1>9, <1>10, <1>11, <1>12, <1>13, <1>14, <1>15
        DEF Next, GuestStep, HostStep, StateStep

\* Both rings stay coherent and every index stays inside its array, through bursts
\* that wrap, resets and restores, for every FIFO size.
THEOREM TypeCorrect == Spec => []TypeOK
<1>1. RingInv => TypeOK
  BY DEF RingInv
<1> QED BY <1>1, InitRingInv, NextRingInv, PTL DEF Spec

\* Head, tail and count of both rings always agree (palmHwUartRxHead to palmHwUartTxCount).
THEOREM RingsStayCoherent == Spec => []RingsCoherent
<1>1. RingInv => RingsCoherent
  BY DEF RingInv
<1> QED BY <1>1, InitRingInv, NextRingInv, PTL DEF Spec

\* Whatever moves a byte, a control bit or a whole queue leaves the status bits and
\* the interrupt request computed from the new queues.
THEOREM RequestAlwaysMatches == Spec => []RequestMatchesQueues
<1>1. Init => RequestMatchesQueues
  <2> SUFFICES ASSUME Init PROVE RequestMatchesQueues
    OBVIOUS
  <2>1. RxStatus(EmptyRing) = {}
    BY DEF RxStatus, EmptyRing
  <2>2. ~Requested({}, rxFlags, txFlags) /\ Requested({}, rxFlags, txFlags) \in BOOLEAN
    BY DEF Requested
  <2> QED BY <2>1, <2>2 DEF Init, RequestMatchesQueues
<1>2. RequestMatchesQueues /\ [Next]_vars => RequestMatchesQueues'
  <2> SUFFICES ASSUME RequestMatchesQueues, [Next]_vars PROVE RequestMatchesQueues'
    OBVIOUS
  <2>1. ASSUME UpdateUartRegs(rx', tx', control') PROVE RequestMatchesQueues'
    BY <2>1 DEF UpdateUartRegs, RequestMatchesQueues
  <2>2. CASE CpuReadRx
    BY <2>1, <2>2 DEF CpuReadRx
  <2>3. CASE \E b \in Byte : CpuWriteTx(b)
    BY <2>1, <2>3 DEF CpuWriteTx
  <2>4. CASE CpuWriteTxFull
    BY <2>1, <2>4 DEF CpuWriteTxFull
  <2>5. CASE \E c \in ControlValues : CpuWriteControl(c)
    BY <2>1, <2>5 DEF CpuWriteControl, fifos
  <2>6. CASE \E e \in IrdaValues : CpuWriteMisc(e)
    BY <2>1, <2>6 DEF CpuWriteMisc, fifos
  <2>7. CASE \E n \in 0..FifoSize : BridgeService(n)
    BY <2>1, <2>7 DEF BridgeService
  <2>8. CASE Reset
    BY <2>1, <2>8 DEF Reset
  <2>9. CASE SaveState
    BY <2>1, <2>9 DEF SaveState, fifos
  <2>10. CASE LoadState
    BY <2>1, <2>10 DEF LoadState
  <2>11. CASE UNCHANGED <<rx, tx, control, rxFlags, txFlags, uartPending>>
    BY <2>11 DEF RequestMatchesQueues
  <2>12. CASE EchoWindowCloses
    BY <2>11, <2>12 DEF EchoWindowCloses, fifos, regs
  <2>13. CASE \E b \in Byte : HostSends(b)
    BY <2>11, <2>13 DEF HostSends, fifos, regs
  <2>14. CASE UNCHANGED vars
    BY <2>11, <2>14 DEF vars, fifos, regs
  <2> QED BY <2>2, <2>3, <2>4, <2>5, <2>6, <2>7, <2>8, <2>9, <2>10, <2>12, <2>13, <2>14
          DEF Next, GuestStep, HostStep, StateStep
<1> QED BY <1>1, <1>2, PTL DEF Spec

\* A host byte the bridge has read is in the receive FIFO, never dropped.
THEOREM BridgeKeepsBytes == Spec => BridgeLosesNothing
<1> DEFINE Kept == Len(serialIn') < Len(serialIn) =>
                     /\ rxOverrun' = rxOverrun
                     /\ Contents(rx') \o serialIn' = Contents(rx) \o serialIn
<1>1. RingInv /\ [Next]_vars => Kept
  <2> SUFFICES ASSUME RingInv, [Next]_vars PROVE Kept
    OBVIOUS
  <2>1. ASSUME NEW n \in 0..FifoSize, BridgeService(n) PROVE Kept
    <3> DEFINE m == Len(BridgeReads)
    <3>1. rxOverrun' = rxOverrun /\ Contents(rx') = Contents(rx) \o BridgeReads
      BY <2>1, BridgeRings
    <3>2. serialIn' = SubSeq(serialIn, m + 1, Len(serialIn)) /\ serialIn' \in Seq(Byte)
      BY <2>1, BridgeRings DEF BridgeService
    <3>3. /\ m \in 0..Len(serialIn) /\ BridgeReads \in Seq(Byte)
          /\ BridgeReads = SubSeq(serialIn, 1, m)
          /\ serialIn \in Seq(Byte) /\ Contents(rx) \in Seq(Byte)
      BY BridgeReadsFit, ContentsType DEF RingInv, TypeOK
    <3> HIDE DEF m
    <3>4. (Contents(rx) \o SubSeq(serialIn, 1, m)) \o SubSeq(serialIn, m + 1, Len(serialIn))
            = Contents(rx) \o serialIn
      BY <3>3, SplitConcat
    <3> QED BY <3>1, <3>2, <3>3, <3>4
  <2>2. ASSUME NEW b \in Byte, HostSends(b) PROVE Kept
    <3>1. Len(serialIn') = Len(serialIn) + 1 /\ Len(serialIn) \in Nat
      BY <2>2, AppendProperties DEF HostSends, RingInv, TypeOK
    <3> QED BY <3>1
  <2>3. CASE serialIn' = serialIn
    <3>1. Len(serialIn) \in Nat
      BY LenProperties DEF RingInv, TypeOK
    <3> QED BY <2>3, <3>1
  <2>4. CASE GuestStep
    BY <2>3, <2>4 DEF GuestStep, CpuReadRx, CpuWriteTx, CpuWriteTxFull, CpuWriteControl, CpuWriteMisc
  <2>5. CASE StateStep
    BY <2>3, <2>5 DEF StateStep, Reset, SaveState, LoadState
  <2>6. CASE EchoWindowCloses \/ UNCHANGED vars
    BY <2>3, <2>6 DEF EchoWindowCloses, vars
  <2> HIDE DEF Kept
  <2> QED BY <2>1, <2>2, <2>4, <2>5, <2>6 DEF Next, HostStep
<1>2. RingInv /\ [Next]_vars => [Kept]_vars
  BY <1>1
<1> QED BY <1>2, InitRingInv, NextRingInv, PTL DEF Spec, BridgeLosesNothing

-----------------------------------------------------------------------------
(* PalmUart implements ByteLink. *)

\* The queues of the last snapshot, as ByteLink keeps them.
Kept == IF saved = <<>> THEN <<>>
        ELSE <<[rx |-> saved[1].rx, tx |-> saved[1].tx,
                rxLost |-> saved[1].rxOverrun, txLost |-> saved[1].txOverrun]>>

\* Guest and host calls on the queues.
LEMMA ReadRxIsReceive == RingInv /\ CpuReadRx => Link!GuestReceive
<1> SUFFICES ASSUME RingInv, CpuReadRx PROVE Link!GuestReceive
  OBVIOUS
<1> DEFINE q == Contents(rx)
<1>1. rx \in Ring /\ Coherent(rx) /\ rx' = Take(rx, 1) /\ 1 \in 0..rx.count /\ rx.count > 0
  BY DEF RingInv, TypeOK, RingsCoherent, CpuReadRx, Ring
<1>2. q \in Seq(Byte) /\ Len(q) > 0
  BY <1>1, ContentsType
<1>3. Contents(rx') = SubSeq(q, 2, Len(q))
  BY <1>1, TakeRing
<1>4. q # <<>> /\ Tail(q) = SubSeq(q, 2, Len(q))
  <2> HIDE DEF q
  <2> QED BY <1>2
<1> QED BY <1>3, <1>4 DEF CpuReadRx, Link!GuestReceive

\* A byte written to a FIFO with room is a send.
LEMMA WriteTxIsSend ==
  ASSUME RingInv, NEW b \in Byte, CpuWriteTx(b)
  PROVE  \E echo \in BOOLEAN : Link!GuestSend(b, echo)
<1> DEFINE q == Contents(rx)
           t == Contents(tx)
<1>0. FifoSize \in Nat \ {0}
  BY UartConstants
<1>1. /\ rx \in Ring /\ Coherent(rx) /\ tx \in Ring /\ tx.count < FifoSize
      /\ rxOverrun \in Nat /\ rx.count \in 0..FifoSize
  BY DEF RingInv, TypeOK, RingsCoherent, CpuWriteTx, Ring
<1>2. Len(t) < FifoSize /\ Contents(tx') = Append(t, b)
  BY <1>1, WriteTxRings, ContentsType
<1>3. q \in Seq(Byte) /\ Len(q) = rx.count
  BY <1>1, ContentsType
<1>4. /\ SubSeq(<<b>>, 1, 0) = <<>> /\ SubSeq(<<b>>, 1, 1) = <<b>> /\ Len(<<b>>) = 1
  <2> DEFINE one == <<b>>
  <2>1. one \in Seq(Byte) /\ Len(one) = 1
    OBVIOUS
  <2> HIDE DEF one
  <2>2. SubSeq(one, 1, Len(one)) = one
    BY <2>1, SubSeqFull
  <2>3. SubSeq(one, 1, 0) = <<>>
    BY SubSeqEmpty
  <2> QED BY <2>1, <2>2, <2>3 DEF one
<1>5. txOverrun' = txOverrun /\ saved' = saved
  BY DEF CpuWriteTx
<1>6. CASE NoEcho(b)
  <2>1. q' = q /\ rxOverrun' = rxOverrun
    BY <1>6 DEF NoEcho
  <2>2. q \o <<>> = q /\ rxOverrun + 0 = rxOverrun
    BY <1>1, <1>3
  <2>3. Link!GuestSend(b, FALSE)
    <3> HIDE DEF q, t
    <3> QED BY <1>2, <1>4, <1>5, <2>1, <2>2 DEF Link!GuestSend, q, t
  <2> QED BY <2>3
<1>7. CASE Echoed(b)
  <2>1. CASE rx.count < FifoSize
    <3>1. rx' = Put(rx, b) /\ rxOverrun' = rxOverrun
      BY <1>0, <1>1, <1>7, <2>1 DEF Echoed
    <3>2. q' = Append(q, b)
      BY <3>1, <2>1, <1>1, PutRing
    <3>3. Link!Accepted(q, <<b>>) = 1
      BY <1>0, <1>1, <1>3, <1>4, <2>1 DEF Link!Accepted, Link!Least
    <3>4. q \o <<b>> = Append(q, b) /\ rxOverrun + (1 - 1) = rxOverrun
      <4> HIDE DEF q
      <4> QED BY <1>1, <1>3
    <3>5. Link!GuestSend(b, TRUE)
      BY <3>1, <3>2, <3>3, <3>4, <1>1, <1>2, <1>4, <1>5 DEF Link!GuestSend
    <3> QED BY <3>5
  <2>2. CASE rx.count = FifoSize
    <3>1. rx' = rx /\ rxOverrun' = rxOverrun + 1
      BY <1>0, <1>1, <1>7, <2>2 DEF Echoed
    <3>2. Link!Accepted(q, <<b>>) = 0
      BY <1>0, <1>1, <1>3, <1>4, <2>2 DEF Link!Accepted, Link!Least
    <3>3. q \o <<>> = q /\ rxOverrun + (1 - 0) = rxOverrun + 1
      BY <1>1, <1>3
    <3>4. Link!GuestSend(b, TRUE)
      BY <3>1, <3>2, <3>3, <1>1, <1>2, <1>4, <1>5 DEF Link!GuestSend
    <3> QED BY <3>4
  <2> QED BY <2>1, <2>2, <1>0, <1>1
<1> QED BY <1>6, <1>7 DEF CpuWriteTx

\* A byte written to a full FIFO is lost, as the promise says.
LEMMA WriteTxFullIsDropped == RingInv /\ CpuWriteTxFull => Link!GuestSendDropped
<1> SUFFICES ASSUME RingInv, CpuWriteTxFull PROVE Link!GuestSendDropped
  OBVIOUS
<1>1. tx \in Ring /\ tx.count \in 0..FifoSize /\ tx.count >= FifoSize /\ FifoSize \in Nat \ {0}
  BY UartConstants DEF RingInv, TypeOK, CpuWriteTxFull, Ring
<1>2. Len(Contents(tx)) = FifoSize
  BY <1>1, ContentsType
<1> QED BY <1>2 DEF CpuWriteTxFull, Link!GuestSendDropped

\* A service of the bridge takes the oldest bytes and puts a burst behind the others.
LEMMA BridgeIsExchange ==
  ASSUME RingInv, NEW n \in 0..FifoSize, BridgeService(n)
  PROVE  /\ BridgeReads \in Link!Bursts /\ n <= Len(Contents(tx))
         /\ Link!HostExchange(BridgeReads, n)
<1> DEFINE s == BridgeReads
           m == Len(s)
           q == Contents(rx)
<1>0. FifoSize \in Nat \ {0} /\ BridgeChunk \in Nat \ {0}
  BY UartConstants
<1>1. /\ rx \in Ring /\ tx \in Ring /\ rx.count \in 0..FifoSize /\ rxOverrun \in Nat
      /\ serialIn \in Seq(Byte)
  BY DEF RingInv, TypeOK, Ring
<1>2. s \in Seq(Byte) /\ m \in Nat /\ m <= FifoSize - rx.count /\ m <= BridgeChunk
  <2>1. s \in Seq(Byte) /\ m <= FifoSize - rx.count /\ m <= BridgeChunk
    BY BridgeReadsFit DEF RingInv
  <2> QED BY <2>1, LenProperties
<1>3. q \in Seq(Byte) /\ Len(q) = rx.count /\ Len(Contents(tx)) = tx.count
  BY <1>1, ContentsType
<1>4. s \in Link!Bursts
  <2>1. s \in [1..m -> Byte] /\ m \in 0..BridgeChunk
    BY <1>0, <1>2, LenProperties
  <2> HIDE DEF s, m
  <2> QED BY <2>1 DEF Link!Bursts
<1>5. Link!Accepted(q, s) = m
  <2> HIDE DEF s, q
  <2> QED BY <1>0, <1>1, <1>2, <1>3 DEF Link!Accepted, Link!Least
<1>6. SubSeq(s, 1, m) = s
  <2> HIDE DEF s
  <2> QED BY <1>2, SubSeqFull
<1>7. rxOverrun + m - m = rxOverrun
  BY <1>1, <1>2
<1>8. /\ Contents(rx') = q \o s /\ rxOverrun' = rxOverrun
      /\ Contents(tx') = SubSeq(Contents(tx), n + 1, Len(Contents(tx)))
      /\ txOverrun' = txOverrun /\ saved' = saved /\ n <= tx.count
  BY BridgeRings DEF BridgeService
<1> HIDE DEF s, m, q
<1> QED BY <1>3, <1>4, <1>5, <1>6, <1>7, <1>8 DEF Link!HostExchange, Link!Drop, s, m, q

\* Reset and snapshots.
LEMMA ResetIsPowerOn == RingInv /\ Reset => Link!PowerOn
<1> SUFFICES ASSUME RingInv, Reset PROVE Link!PowerOn
  OBVIOUS
<1>1. Contents(rx') = <<>> /\ Contents(tx') = <<>>
  BY RewoundRing DEF RingInv, TypeOK, Reset
<1> QED BY <1>1 DEF Reset, Link!PowerOn

\* A save keeps both directions.
LEMMA SaveIsKeep == SaveState => Link!Keep
<1> SUFFICES ASSUME SaveState PROVE Link!Keep
  OBVIOUS
<1> DEFINE s == [rx |-> Contents(rx), tx |-> Contents(tx),
                 rxOverrun |-> rxOverrun, txOverrun |-> txOverrun,
                 control |-> control, irdaEnabled |-> irdaEnabled]
<1>1. saved' = <<s>> /\ UNCHANGED <<rx, tx, rxOverrun, txOverrun>>
  BY DEF SaveState, fifos
<1>2. saved' # <<>> /\ saved'[1] = s
  BY <1>1
<1>3. s.rx = Contents(rx) /\ s.tx = Contents(tx) /\ s.rxOverrun = rxOverrun
      /\ s.txOverrun = txOverrun
  OBVIOUS
<1> HIDE DEF s
<1> QED BY <1>1, <1>2, <1>3 DEF Link!Keep

\* A load brings back what was kept.
LEMMA LoadIsRecall == RingInv /\ LoadState => Link!Recall
<1> SUFFICES ASSUME RingInv, LoadState PROVE Link!Recall
  OBVIOUS
<1>1. PICK s \in SavedUart : saved = <<s>>
  BY DEF RingInv, TypeOK, LoadState
<1>2. saved[1] = s /\ saved # <<>> /\ saved' = saved
  BY <1>1 DEF LoadState
<1>3. \A q \in {s.rx, s.tx} : Contents(Loaded(q)) = q
  <2>1. TAKE q \in {s.rx, s.tx}
  <2>2. PICK n \in 0..FifoSize : q \in [1..n -> Byte]
    BY <1>1 DEF SavedUart
  <2> QED BY <2>2, LoadedRing
<1>4. /\ rx' = Loaded(s.rx) /\ tx' = Loaded(s.tx)
      /\ rxOverrun' = s.rxOverrun /\ txOverrun' = s.txOverrun
  BY <1>2 DEF LoadState
<1>5. Contents(rx') = s.rx /\ Contents(tx') = s.tx
  BY <1>3, <1>4
<1>6. Kept = <<[rx |-> s.rx, tx |-> s.tx, rxLost |-> s.rxOverrun, txLost |-> s.txOverrun]>>
      /\ Kept' = Kept
  BY <1>2 DEF Kept
<1> DEFINE t == [rx |-> s.rx, tx |-> s.tx, rxLost |-> s.rxOverrun, txLost |-> s.txOverrun]
<1>7. t.rx = s.rx /\ t.tx = s.tx /\ t.rxLost = s.rxOverrun /\ t.txLost = s.txOverrun
  OBVIOUS
<1> HIDE DEF t
<1>8. Kept = <<t>> /\ Kept # <<>> /\ Kept[1] = t
  BY <1>6 DEF t
<1> QED BY <1>4, <1>5, <1>6, <1>7, <1>8 DEF Kept, Link!Recall

\* The promise's initial state.
LEMMA InitLink == Init => Link!LinkInit
<1> SUFFICES ASSUME Init PROVE Link!LinkInit
  OBVIOUS
<1>1. rx = EmptyRing /\ tx = EmptyRing
  BY DEF Init
<1>2. Contents(EmptyRing) = <<>>
  BY DEF Contents, EmptyRing
<1> QED BY <1>1, <1>2 DEF Init, Link!LinkInit

\* Every step is one of the promise or none.
LEMMA NextLink == RingInv /\ [Next]_vars => [Link!LinkNext]_(Link!linkVars)
<1> SUFFICES ASSUME RingInv, [Next]_vars PROVE Link!LinkNext \/ UNCHANGED Link!linkVars
  OBVIOUS
<1>1. CASE CpuReadRx
  BY <1>1, ReadRxIsReceive DEF Link!LinkNext
<1>2. CASE \E b \in Byte : CpuWriteTx(b)
  BY <1>2, WriteTxIsSend DEF Link!LinkNext
<1>3. CASE CpuWriteTxFull
  BY <1>3, WriteTxFullIsDropped DEF Link!LinkNext
<1>4. CASE \E n \in 0..FifoSize : BridgeService(n)
  BY <1>4, BridgeIsExchange DEF Link!LinkNext
<1>5. CASE Reset
  BY <1>5, ResetIsPowerOn DEF Link!LinkNext
<1>6. CASE SaveState
  BY <1>6, SaveIsKeep DEF Link!LinkNext
<1>7. CASE LoadState
  BY <1>7, LoadIsRecall DEF Link!LinkNext
<1>8. CASE UNCHANGED <<fifos, saved>>
  BY <1>8 DEF Link!linkVars, fifos
<1>9. CASE \E c \in ControlValues : CpuWriteControl(c)
  BY <1>8, <1>9 DEF CpuWriteControl
<1>10. CASE \E e \in IrdaValues : CpuWriteMisc(e)
  BY <1>8, <1>10 DEF CpuWriteMisc
<1>11. CASE EchoWindowCloses \/ (\E b \in Byte : HostSends(b)) \/ UNCHANGED vars
  BY <1>8, <1>11 DEF EchoWindowCloses, HostSends, vars
<1> QED BY <1>1, <1>2, <1>3, <1>4, <1>5, <1>6, <1>7, <1>9, <1>10, <1>11
        DEF Next, GuestStep, HostStep, StateStep

\* The ring buffers, with the probe echo, the bridge, reset and snapshots around
\* them, behave as two bounded FIFO queues that lose bytes only to counted overruns.
THEOREM UartImplementsByteLink == Spec => ImplementsByteLink
<1> QED BY InitRingInv, NextRingInv, InitLink, NextLink, PTL
        DEF Spec, ImplementsByteLink, Link!LinkSpec

-----------------------------------------------------------------------------
\* The probe echo is armed only in IrDA mode, and the edge detector that arms it
\* knows the mode in force through register writes, resets and restores.
THEOREM EchoStaysInIrda == Spec => []EchoOnlyInIrda
<1>1. Init => EchoOnlyInIrda
  <2> SUFFICES ASSUME Init PROVE EchoOnlyInIrda
    OBVIOUS
  <2>1. ~(echoBudget > 0)
    BY DEF Init
  <2> QED BY <2>1 DEF Init, EchoOnlyInIrda
<1>2. TypeOK /\ EchoOnlyInIrda /\ [Next]_vars => EchoOnlyInIrda'
  <2> SUFFICES ASSUME TypeOK, EchoOnlyInIrda, [Next]_vars PROVE EchoOnlyInIrda'
    OBVIOUS
  <2>1. CASE UNCHANGED <<irdaEnabled, irdaEnabledLast, echoBudget>>
    BY <2>1 DEF EchoOnlyInIrda
  <2>2. ASSUME NEW b \in Byte, CpuWriteTx(b) PROVE EchoOnlyInIrda'
    <3>1. irdaEnabled' = irdaEnabled /\ irdaEnabledLast' = irdaEnabledLast
          /\ (NoEcho(b) \/ Echoed(b))
      BY <2>2 DEF CpuWriteTx
    <3>2. echoBudget' \in {echoBudget, 0} \/ irdaEnabled
      BY <3>1 DEF NoEcho, Echoed
    <3> QED BY <3>1, <3>2 DEF EchoOnlyInIrda
  <2>3. ASSUME NEW e \in IrdaValues, CpuWriteMisc(e) PROVE EchoOnlyInIrda'
    <3>1. irdaEnabled' = e /\ irdaEnabledLast' = e /\ (e \/ echoBudget' = 0)
      BY <2>3 DEF CpuWriteMisc
    <3> QED BY <3>1 DEF EchoOnlyInIrda
  <2>4. CASE Reset
    <3>1. ~(echoBudget' > 0)
      BY <2>4 DEF Reset
    <3> QED BY <3>1, <2>4 DEF Reset, EchoOnlyInIrda
  <2>5. CASE LoadState
    BY <2>5 DEF LoadState, EchoOnlyInIrda
  <2>6. CASE CpuReadRx \/ CpuWriteTxFull \/ (\E c \in ControlValues : CpuWriteControl(c))
    BY <2>1, <2>6 DEF CpuReadRx, CpuWriteTxFull, CpuWriteControl, irda
  <2>7. CASE HostStep \/ SaveState \/ UNCHANGED vars
    BY <2>1, <2>7 DEF HostStep, EchoWindowCloses, HostSends, BridgeService, SaveState, vars, irda
  <2> QED BY <2>2, <2>3, <2>4, <2>5, <2>6, <2>7 DEF Next, GuestStep, StateStep
<1> QED BY <1>1, <1>2, TypeCorrect, PTL DEF Spec

\* What is derived from queues and mode is always current.
THEOREM DerivedStateAlwaysCurrent == Spec => []DerivedStateCurrent
<1>1. RequestMatchesQueues /\ EchoOnlyInIrda => DerivedStateCurrent
  BY DEF DerivedStateCurrent
<1> QED BY <1>1, RequestAlwaysMatches, EchoStaysInIrda, PTL
=============================================================================
