---------------------------- MODULE DisplaysProofs ----------------------------
(* Theorems about the components of Displays, for every value of the        *)
(* constants: each part proves the invariant of a lane from the actions of  *)
(* its module.                                                              *)
EXTENDS Displays, Integers, TLAPS

-----------------------------------------------------------------------------
(* Remainders.                                                              *)

\* The quotient and the remainder of a division.
LEMMA Divided ==
    ASSUME NEW a \in Nat, NEW c \in Nat \ {0}
    PROVE  \E q \in Nat, r \in 0..c - 1 : a = c * q + r /\ a % c = r
<1>1. a \div c \in Nat /\ a % c \in 0..c - 1 /\ a = c * (a \div c) + (a % c)
  OBVIOUS
<1> QED
  BY <1>1

\* There is one remainder.
LEMMA Remainder ==
    ASSUME NEW c \in Nat \ {0}, NEW q \in Int, NEW r \in 0..c - 1
    PROVE  (c * q + r) % c = r
  OBVIOUS

\* A number that is small enough is its own remainder.
LEMMA SmallRemainder ==
    ASSUME NEW a \in Nat, NEW c \in Nat \ {0}
    PROVE  (a < c => a % c = a) /\ (c <= a /\ a < 2 * c => a % c = a - c)
<1>1. a < c => a % c = a
  OBVIOUS
<1>2. ASSUME c <= a, a < 2 * c PROVE a % c = a - c
  <2>1. a = c * 1 + (a - c) /\ a - c \in 0..c - 1
    BY <1>2
  <2> QED
    BY <2>1, Remainder
<1> QED
  BY <1>1, <1>2

\* A multiple of c is no number between 0 and c.
LEMMA Multiple ==
    ASSUME NEW c \in Nat \ {0}, NEW k \in Int, 0 <= c * k, c * k < c
    PROVE  k = 0
<1>1. k >= 1 => c * k >= c
  OBVIOUS
<1>2. k <= -1 => c * k < 0
  OBVIOUS
<1> QED
  BY <1>1, <1>2

\* Numbers less than c apart have different remainders.
LEMMA SameRemainder ==
    ASSUME NEW a \in Nat, NEW b \in Nat, NEW c \in Nat \ {0},
           a <= b, b - a < c, a % c = b % c
    PROVE  a = b
<1>1. PICK p \in Nat, r \in 0..c - 1 : a = c * p + r /\ a % c = r
  BY Divided
<1>2. PICK q \in Nat, s \in 0..c - 1 : b = c * q + s /\ b % c = s
  BY Divided
<1>3. PICK k \in Int : k = q - p
  OBVIOUS
<1>4. c * k = c * q - c * p
  BY <1>3
<1>5. b - a = c * k
  BY <1>1, <1>2, <1>4
<1>6. k = 0
  BY <1>5, Multiple
<1> QED
  BY <1>5, <1>6

\* A remainder may be taken before an addition.
LEMMA AddedRemainder ==
    ASSUME NEW a \in Nat, NEW b \in Nat, NEW c \in Nat \ {0}
    PROVE  ((a % c) + b) % c = (a + b) % c
<1>1. PICK q \in Nat, r \in 0..c - 1 : a = c * q + r /\ a % c = r
  BY Divided
<1>2. PICK p \in Nat, s \in 0..c - 1 : r + b = c * p + s /\ (r + b) % c = s
  BY Divided
<1>3. PICK t \in Int : t = p + q
  OBVIOUS
<1>4. c * t = c * p + c * q
  BY <1>3
<1>5. a + b = c * t + s
  BY <1>1, <1>2, <1>4
<1>6. (c * t + s) % c = s
  BY Remainder
<1> QED
  BY <1>1, <1>2, <1>5, <1>6

-----------------------------------------------------------------------------
(* The output of a session.                                                 *)

\* A behaviour stays in its lane, and a step of it is one of the component.
LEMMA StreamInit ==
    ASSUME Init, lane = "Stream"
    PROVE  Stream!Init
  BY DEF Init
LEMMA StreamLane ==
    ASSUME [Next]_vars, lane' = "Stream"
    PROVE  lane = "Stream" /\ (Stream!Next \/ UNCHANGED Stream!vars)
<1>1. CASE Next
  BY <1>1 DEF Next
<1>2. CASE UNCHANGED vars
  BY <1>2 DEF vars, streamVars, Stream!vars
<1> QED
  BY <1>1, <1>2

LEMMA StreamConstants ==
    Capacity \in Nat \ {0} /\ ChannelSize \in Nat \ {0} /\ MaxOutput \in Nat /\ MaxChunk \in Nat \ {0}
  BY DisplaysAssumption DEF Stream!OutputStreamAssumption

Output == 1..MaxOutput
RingTyped ==
    /\ buf \in [0..Capacity - 1 -> 0..MaxOutput] /\ head \in 0..Capacity - 1 /\ full \in BOOLEAN
    /\ written \in 0..MaxOutput

\* Byte i lies at (i - 1) % Capacity until it is overwritten.
RingExact ==
    /\ head = written % Capacity
    /\ full <=> written >= Capacity
    /\ \A i \in 1..written : i > written - Capacity => buf[(i - 1) % Capacity] = i

\* Of the numbers up to n there is a last one with the remainder of j.
LEMMA LastRemainder ==
    ASSUME NEW c \in Nat \ {0}, NEW h \in Nat, NEW n \in Nat \ {0}, NEW j \in 0..n - 1
    PROVE  \E i \in 0..n - 1 : i + c >= n /\ (h + i) % c = (h + j) % c
<1>1. PICK m \in Nat, r \in 0..c - 1 : n - 1 - j = c * m + r
  BY n - 1 - j \in Nat, Divided
<1>2. PICK p \in Nat, s \in 0..c - 1 : h + j = c * p + s /\ (h + j) % c = s
  BY h + j \in Nat, Divided
<1>3. PICK t \in Int : t = p + m
  OBVIOUS
<1>4. PICK i \in Int : i = n - 1 - r
  OBVIOUS
<1>5. c * t = c * p + c * m /\ c * m \in Nat
  BY <1>3
<1>6. i \in 0..n - 1 /\ i + c >= n
  BY <1>1, <1>4, <1>5
<1>7. h + i = c * t + s
  BY <1>1, <1>2, <1>4, <1>5
<1>8. (c * t + s) % c = s
  BY Remainder
<1> QED
  BY <1>2, <1>6, <1>7, <1>8

\* After that one no number has it, and a place that is kept is the place of none.
LEMMA NoneLater ==
    ASSUME NEW c \in Nat \ {0}, NEW h \in Nat, NEW n \in Nat \ {0}, NEW j \in 0..n - 1, j + c >= n,
           NEW i \in 0..n - 1, (h + i) % c = (h + j) % c
    PROVE  i <= j
<1> SUFFICES ASSUME j < i PROVE FALSE
  OBVIOUS
<1>1. PICK a \in Nat, b \in Nat : a = h + j /\ b = h + i
  OBVIOUS
<1>2. a <= b /\ b - a < c /\ a % c = b % c
  BY <1>1
<1>3. a = b
  BY <1>2, SameRemainder
<1> QED
  BY <1>1, <1>3
LEMMA KeptPlace ==
    ASSUME NEW c \in Nat \ {0}, NEW h \in Nat, NEW w \in Nat, h = w % c, NEW n \in Nat \ {0},
           NEW i \in 1..w, i > w + n - c, NEW j \in 0..n - 1
    PROVE  (h + j) % c # (i - 1) % c
<1> SUFFICES ASSUME (h + j) % c = (i - 1) % c PROVE FALSE
  OBVIOUS
<1>1. PICK a \in Nat, b \in Nat : a = i - 1 /\ b = w + j
  OBVIOUS
<1>2. (h + j) % c = b % c
  <2>1. ((w % c) + j) % c = (w + j) % c
    BY j \in Nat, AddedRemainder
  <2> QED
    BY <1>1, <2>1
<1>3. a <= b /\ b - a < c /\ a % c = b % c
  BY <1>1, <1>2
<1>4. a = b
  BY <1>3, SameRemainder
<1> QED
  BY <1>1, <1>4

\* Whether adding n to w passes a multiple of c that w has not reached.
LEMMA Passed ==
    ASSUME NEW c \in Nat \ {0}, NEW h \in 0..c - 1, NEW n \in 1..c - 1
    PROVE  (h + n) % c <= (((h + n) % c) + c - n) % c <=> h + n >= c
<1>1. CASE h + n < c
  <2>1. PICK a \in Nat, b \in Nat : a = h + n /\ b = h + c
    OBVIOUS
  <2>2. a % c = h + n
    BY <1>1, <2>1, SmallRemainder
  <2>3. c <= b /\ b < 2 * c
    BY <2>1
  <2>4. b % c = h
    BY <2>1, <2>3, SmallRemainder
  <2>5. (h + n) % c = h + n /\ ((h + n) % c) + c - n = b
    BY <2>1, <2>2
  <2> QED
    BY <1>1, <2>4, <2>5
<1>2. CASE h + n >= c
  <2>1. PICK a \in Nat : a = h + n
    OBVIOUS
  <2>2. c <= a /\ a < 2 * c
    BY <1>2, <2>1
  <2>3. a % c = a - c
    BY <2>2, SmallRemainder
  <2>4. h % c = h
    BY SmallRemainder
  <2>5. (h + n) % c = h + n - c /\ ((h + n) % c) + c - n = h
    BY <2>1, <2>3
  <2> QED
    BY <1>2, <2>4, <2>5
<1> QED
  BY <1>1, <1>2

\* Of the bytes of a write that go to the place of byte j there is a last one.
LEMMA LastAt ==
    ASSUME RingTyped, NEW n \in Nat \ {0}, NEW j \in 0..n - 1
    PROVE  \E i \in 0..n - 1 : i + Capacity >= n /\ (head + i) % Capacity = (head + j) % Capacity
<1>1. PICK c \in Nat \ {0}, h \in Nat : c = Capacity /\ h = head
  BY StreamConstants DEF RingTyped
<1>2. \E i \in 0..n - 1 : i + c >= n /\ (h + i) % c = (h + j) % c
  BY LastRemainder
<1> QED
  BY <1>1, <1>2

\* Which byte a write leaves where.
LEMMA StoredLast ==
    ASSUME RingTyped, NEW n \in Nat \ {0}, NEW j \in 0..n - 1, j + Capacity >= n
    PROVE  Stream!Stored(n)[(head + j) % Capacity] = written + j + 1
<1>1. PICK c \in Nat \ {0}, h \in Nat : c = Capacity /\ h = head
  BY StreamConstants DEF RingTyped
<1>2. PICK k \in 0..c - 1 : k = (h + j) % c
  OBVIOUS
<1> DEFINE at == {i \in 0..n - 1 : (head + i) % Capacity = k}
<1>3. at \subseteq Int /\ j \in at
  BY <1>1, <1>2
<1>4. ASSUME NEW i \in at PROVE i <= j
  BY <1>1, <1>2, NoneLater
<1>5. Stream!Stored(n)[k] = IF at = {} THEN buf[k] ELSE written + Stream!Max(at) + 1
  BY <1>1 DEF Stream!Stored
<1>6. Stream!Max(at) = j
  <2> HIDE DEF at
  <2>1. j \in at /\ \A y \in at : j >= y
    BY <1>3, <1>4
  <2>2. ASSUME NEW x \in at, \A y \in at : x >= y PROVE x = j
    <3>1. x >= j /\ j >= x /\ x \in Int /\ j \in Int
      BY <1>3, <2>1, <2>2
    <3> QED
      BY <3>1
  <2> QED
    BY <2>1, <2>2 DEF Stream!Max
<1> QED
  BY <1>1, <1>2, <1>3, <1>5, <1>6

LEMMA StoredKept ==
    ASSUME RingTyped, head = written % Capacity, NEW n \in Nat \ {0},
           NEW i \in 1..written, i > written + n - Capacity
    PROVE  Stream!Stored(n)[(i - 1) % Capacity] = buf[(i - 1) % Capacity]
<1>1. PICK c \in Nat \ {0}, h \in Nat, w \in Nat : c = Capacity /\ h = head /\ w = written
  <2>1. Capacity \in Nat \ {0} /\ head \in Nat /\ written \in Nat
    BY StreamConstants DEF RingTyped
  <2> QED
    BY <2>1
<1>2. PICK k \in 0..c - 1 : k = (i - 1) % c
  BY <1>1
<1> DEFINE at == {j \in 0..n - 1 : (head + j) % Capacity = k}
<1>3. h = w % c /\ i \in 1..w /\ i > w + n - c
  BY <1>1
<1>4. ASSUME NEW j \in 0..n - 1 PROVE (h + j) % c # k
  BY <1>2, <1>3, KeptPlace
<1>5. at = {}
  BY <1>1, <1>4
<1>6. Stream!Stored(n)[k] = IF at = {} THEN buf[k] ELSE written + Stream!Max(at) + 1
  BY <1>1 DEF Stream!Stored
<1> QED
  BY <1>1, <1>2, <1>5, <1>6

LEMMA StoredTyped ==
    ASSUME RingTyped, NEW n \in Nat \ {0}, written + n <= MaxOutput
    PROVE  Stream!Stored(n) \in [0..Capacity - 1 -> 0..MaxOutput]
<1> SUFFICES ASSUME NEW k \in 0..Capacity - 1 PROVE Stream!Stored(n)[k] \in 0..MaxOutput
  BY DEF Stream!Stored
<1> DEFINE at == {i \in 0..n - 1 : (head + i) % Capacity = k}
<1>1. CASE at = {}
  BY <1>1 DEF Stream!Stored, RingTyped
<1>2. CASE at # {}
  <2>1. PICK j \in 0..n - 1 : (head + j) % Capacity = k
    BY <1>2
  <2>2. PICK i \in 0..n - 1 : i + Capacity >= n /\ (head + i) % Capacity = k
    BY <2>1, LastAt
  <2>3. Stream!Stored(n)[k] = written + i + 1
    BY <2>2, StoredLast
  <2> QED
    BY <2>3, StreamConstants DEF RingTyped
<1> QED
  BY <1>1, <1>2

\* Whether a write passes the end of the ring.
LEMMA WrapsExact ==
    ASSUME RingTyped, RingExact, NEW n \in Nat \ {0}
    PROVE  (full \/ Stream!Wraps(n)) <=> written + n >= Capacity
<1>1. PICK c \in Nat \ {0}, h \in Nat, w \in Nat : c = Capacity /\ h = head /\ w = written /\ h < c
  BY StreamConstants DEF RingTyped
<1>2. CASE full \/ n >= Capacity
  BY <1>2, StreamConstants DEF RingTyped, RingExact, Stream!Wraps
<1>3. CASE ~full /\ n < Capacity
  <2>1. w < c /\ w % c = h /\ n \in 1..c - 1
    BY <1>1, <1>3 DEF RingTyped, RingExact
  <2>2. w = h
    BY <2>1, SmallRemainder
  <2>3. (h + n) % c <= (((h + n) % c) + c - n) % c <=> h + n >= c
    BY <2>1, Passed
  <2> QED
    BY <1>1, <1>3, <2>2, <2>3 DEF Stream!Wraps, Stream!Moved
<1> QED
  BY <1>2, <1>3, StreamConstants DEF RingTyped, RingExact

LEMMA WriteRing ==
    ASSUME RingTyped, RingExact, NEW n \in 1..MaxChunk, Stream!Write(n)
    PROVE  RingTyped' /\ RingExact'
<1>1. /\ n \in Nat \ {0} /\ written + n <= MaxOutput /\ written' = written + n
      /\ buf' = Stream!Stored(n) /\ head' = (head + n) % Capacity
      /\ full' = (full \/ Stream!Wraps(n))
  BY StreamConstants DEF Stream!Write, Stream!Moved
<1>2. PICK c \in Nat \ {0}, h \in Nat, w \in Nat : c = Capacity /\ h = head /\ w = written /\ h = w % c
  <2>1. Capacity \in Nat \ {0} /\ head \in Nat /\ written \in Nat /\ head = written % Capacity
    BY StreamConstants DEF RingTyped, RingExact
  <2> QED
    BY <2>1
<1>3. ASSUME NEW j \in Nat PROVE (h + j) % c = (w + j) % c
  BY <1>2, AddedRemainder
<1>4. RingTyped'
  <2>1. buf' \in [0..Capacity - 1 -> 0..MaxOutput]
    BY <1>1, StoredTyped
  <2>2. (h + n) % c \in 0..c - 1
    BY <1>1
  <2> QED
    BY <1>1, <1>2, <2>1, <2>2, StreamConstants DEF RingTyped
<1>5. head' = written' % Capacity
  BY <1>1, <1>2, <1>3
<1>6. full' <=> written' >= Capacity
  BY <1>1, WrapsExact
<1>7. ASSUME NEW i \in 1..written', i > written' - Capacity
      PROVE  buf'[(i - 1) % Capacity] = i
  <2>1. CASE i <= written
    <3>1. i \in 1..written /\ i > written + n - Capacity
      BY <1>1, <1>7, <2>1, StreamConstants DEF RingTyped
    <3>2. buf'[(i - 1) % Capacity] = buf[(i - 1) % Capacity]
      BY <1>1, <3>1, StoredKept DEF RingExact
    <3>3. i > written - Capacity
      BY <1>1, <3>1, StreamConstants DEF RingTyped
    <3> QED
      BY <3>1, <3>2, <3>3 DEF RingExact
  <2>2. CASE i > written
    <3>1. PICK j \in 0..n - 1 : i = w + j + 1
      BY <1>1, <1>2, <1>7, <2>2, StreamConstants DEF RingTyped
    <3>2. (i - 1) % c = (h + j) % c
      <4>1. i - 1 = w + j
        BY <3>1
      <4> QED
        BY <1>3, <4>1
    <3>3. j + Capacity >= n
      BY <1>1, <1>2, <1>7, <3>1, StreamConstants DEF RingTyped
    <3>4. Stream!Stored(n)[(head + j) % Capacity] = written + j + 1
      BY <1>1, <3>3, StoredLast
    <3> QED
      BY <1>1, <1>2, <3>1, <3>2, <3>4
  <2> QED
    BY <1>1, <1>7, <2>1, <2>2, StreamConstants DEF RingTyped
<1> QED
  BY <1>4, <1>5, <1>6, <1>7 DEF RingExact

\* The snapshot is the last of the output.
LEMMA SnapshotLast ==
    ASSUME RingTyped, RingExact
    PROVE  /\ Stream!SnapshotIsTail
           /\ \E n \in Nat : /\ n <= written /\ (written > 0 => n > 0)
                             /\ Stream!ToSet(Stream!Snapshot) = written - n + 1..written
<1>1. PICK c \in Nat \ {0}, h \in Nat, w \in Nat : c = Capacity /\ h = head /\ w = written /\ h = w % c
  <2>1. Capacity \in Nat \ {0} /\ head \in Nat /\ written \in Nat /\ head = written % Capacity
    BY StreamConstants DEF RingTyped, RingExact
  <2> QED
    BY <2>1
<1>2. PICK n \in Nat : n = IF w < c THEN w ELSE c
  OBVIOUS
<1>3. Stream!Min({written, Capacity}) = n
  <2>1. n \in {w, c} /\ \A y \in {w, c} : n <= y
    BY <1>2
  <2>2. ASSUME NEW x \in {w, c}, \A y \in {w, c} : x <= y PROVE x = n
    BY <2>1, <2>2
  <2> QED
    BY <1>1, <2>1, <2>2 DEF Stream!Min
<1>4. Stream!Snapshot = [k \in 1..n |-> w - n + k]
  <2>1. CASE w < c
    <3>1. ~full /\ h = w /\ n = w
      BY <1>1, <1>2, <2>1, SmallRemainder DEF RingExact
    <3>2. ASSUME NEW k \in 1..w PROVE buf[k - 1] = k
      <4>1. (k - 1) % c = k - 1
        <5>1. PICK a \in Nat : a = k - 1 /\ a < c
          BY <2>1
        <5>2. a % c = a
          BY <5>1, SmallRemainder
        <5> QED
          BY <5>1, <5>2
      <4>2. k \in 1..written /\ k > written - Capacity
        BY <1>1, <2>1
      <4> QED
        BY <1>1, <4>1, <4>2 DEF RingExact
    <3> QED
      BY <1>1, <3>1, <3>2 DEF Stream!Snapshot
  <2>2. CASE w >= c
    <3>1. full /\ n = c
      BY <1>1, <1>2, <2>2 DEF RingExact
    <3>2. ASSUME NEW k \in 1..c PROVE buf[(head + k - 1) % Capacity] = w - c + k
      <4>1. PICK a \in Nat, b \in Nat, i \in Nat : a = k - 1 /\ b = w + a /\ i = w - c + k
        BY <2>2
      <4>2. (h + a) % c = b % c
        <5>1. ((w % c) + a) % c = (w + a) % c
          BY AddedRemainder
        <5> QED
          BY <1>1, <4>1, <5>1
      <4>3. b % c = (i - 1) % c
        <5>1. PICK d \in Nat : d = i - 1
          BY <2>2, <4>1
        <5>2. PICK q \in Nat, t \in 0..c - 1 : d = c * q + t /\ d % c = t
          BY Divided
        <5>3. i - 1 = c * q + t /\ (i - 1) % c = t
          BY <5>1, <5>2
        <5>4. PICK p \in Int : p = q + 1
          OBVIOUS
        <5>5. c * p = c * q + c
          BY <5>4
        <5>6. b = c * p + t
          BY <4>1, <5>3, <5>5
        <5>7. (c * p + t) % c = t
          BY Remainder
        <5> QED
          BY <5>3, <5>6, <5>7
      <4>4. i \in 1..written /\ i > written - Capacity
        BY <1>1, <2>2, <4>1
      <4>5. buf[(i - 1) % c] = i
        BY <1>1, <4>4 DEF RingExact
      <4>6. head + k - 1 = h + a
        BY <1>1, <4>1
      <4> QED
        BY <1>1, <4>1, <4>2, <4>3, <4>5, <4>6
    <3> QED
      BY <1>1, <3>1, <3>2 DEF Stream!Snapshot
  <2> QED
    BY <2>1, <2>2
<1>5. Stream!ToSet(Stream!Snapshot) = w - n + 1..w
  <2>1. \A i \in w - n + 1..w : i - (w - n) \in 1..n /\ w - n + (i - (w - n)) = i
    BY <1>2
  <2>2. \A k \in 1..n : w - n + k \in w - n + 1..w
    BY <1>2
  <2>3. Stream!ToSet(Stream!Snapshot) = {w - n + k : k \in 1..n}
    BY <1>4 DEF Stream!ToSet
  <2> QED
    BY <2>1, <2>2, <2>3
<1>6. n <= w /\ (w > 0 => n > 0)
  BY <1>2
<1>7. Stream!SnapshotIsTail
  BY <1>1, <1>3, <1>4 DEF Stream!SnapshotIsTail
<1> QED
  BY <1>1, <1>5, <1>6, <1>7

\* A set of bytes without a gap that reaches the last one, w.
Suffix(w, S) == S \subseteq 1..w /\ \A i \in S : i..w \subseteq S

LEMMA SuffixOfAll ==
    ASSUME NEW w \in Nat, NEW n \in Nat, n <= w
    PROVE  Suffix(w, w - n + 1..w) /\ (n > 0 => w - n + 1..w # {})
<1>1. n > 0 => w \in w - n + 1..w
  OBVIOUS
<1> QED
  BY <1>1 DEF Suffix
LEMMA SuffixLonger ==
    ASSUME NEW w \in Nat, NEW n \in Nat, NEW S, Suffix(w, S)
    PROVE  Suffix(w + n, S \union (w + 1..w + n))
  BY DEF Suffix
LEMMA SuffixUnion ==
    ASSUME NEW w \in Nat, NEW S, NEW T, Suffix(w, S), Suffix(w, T)
    PROVE  Suffix(w, S \union T)
  BY DEF Suffix

\* What a channel holds when a chunk joins it and when one is taken.
Held(q) == UNION Stream!ToSet(q)
LEMMA HeldAppend ==
    ASSUME NEW S, NEW q \in Seq(S), NEW x \in S
    PROVE  /\ Append(q, x) \in Seq(S) /\ Len(Append(q, x)) = Len(q) + 1
           /\ Held(Append(q, x)) = Held(q) \union x
<1>1. /\ Append(q, x) \in Seq(S) /\ Len(Append(q, x)) = Len(q) + 1 /\ Len(q) \in Nat
      /\ DOMAIN Append(q, x) = 1..Len(q) + 1 /\ DOMAIN q = 1..Len(q)
      /\ \A i \in 1..Len(q) : Append(q, x)[i] = q[i]
      /\ Append(q, x)[Len(q) + 1] = x
  OBVIOUS
<1>2. Stream!ToSet(Append(q, x)) = Stream!ToSet(q) \union {x}
  <2> HIDE DEF Held
  <2>1. ASSUME NEW y \in Stream!ToSet(Append(q, x)) PROVE y \in Stream!ToSet(q) \union {x}
    <3>1. PICK i \in 1..Len(q) + 1 : y = Append(q, x)[i]
      BY <1>1 DEF Stream!ToSet
    <3>2. i \in 1..Len(q) \/ i = Len(q) + 1
      BY <1>1
    <3> QED
      BY <1>1, <3>1, <3>2 DEF Stream!ToSet
  <2>2. ASSUME NEW y \in Stream!ToSet(q) PROVE y \in Stream!ToSet(Append(q, x))
    <3>1. PICK i \in 1..Len(q) : y = q[i]
      BY <1>1 DEF Stream!ToSet
    <3>2. i \in 1..Len(q) + 1
      BY <1>1
    <3> QED
      BY <1>1, <3>1, <3>2 DEF Stream!ToSet
  <2>3. x \in Stream!ToSet(Append(q, x))
    <3>1. Len(q) + 1 \in 1..Len(q) + 1
      BY <1>1
    <3> QED
      BY <1>1, <3>1 DEF Stream!ToSet
  <2> QED
    BY <2>1, <2>2, <2>3
<1> QED
  BY <1>1, <1>2 DEF Held
LEMMA HeldTail ==
    ASSUME NEW S, NEW q \in Seq(S), q # <<>>
    PROVE  /\ Tail(q) \in Seq(S) /\ Len(Tail(q)) <= Len(q) /\ Head(q) \in S
           /\ Held(q) = Head(q) \union Held(Tail(q))
<1>1. /\ Tail(q) \in Seq(S) /\ Len(Tail(q)) = Len(q) - 1 /\ Len(q) \in Nat \ {0} /\ Head(q) \in S
      /\ DOMAIN q = 1..Len(q) /\ DOMAIN Tail(q) = 1..Len(q) - 1
      /\ \A i \in 1..Len(q) - 1 : Tail(q)[i] = q[i + 1]
      /\ Head(q) = q[1]
  OBVIOUS
<1>2. Stream!ToSet(q) = {Head(q)} \union Stream!ToSet(Tail(q))
  <2>1. ASSUME NEW y \in Stream!ToSet(q) PROVE y \in {Head(q)} \union Stream!ToSet(Tail(q))
    <3>1. PICK i \in 1..Len(q) : y = q[i]
      BY <1>1 DEF Stream!ToSet
    <3>2. CASE i = 1
      BY <1>1, <3>1, <3>2
    <3>3. CASE i # 1
      <4>1. i - 1 \in 1..Len(q) - 1 /\ (i - 1) + 1 = i
        BY <1>1, <3>3
      <4>2. Tail(q)[i - 1] = y
        BY <1>1, <3>1, <4>1
      <4> QED
        BY <1>1, <4>1, <4>2 DEF Stream!ToSet
    <3> QED
      BY <3>2, <3>3
  <2>2. ASSUME NEW y \in Stream!ToSet(Tail(q)) PROVE y \in Stream!ToSet(q)
    <3>1. PICK i \in 1..Len(q) - 1 : y = Tail(q)[i]
      BY <1>1 DEF Stream!ToSet
    <3>2. i + 1 \in 1..Len(q) /\ q[i + 1] = y
      BY <1>1, <3>1
    <3> QED
      BY <1>1, <3>2 DEF Stream!ToSet
  <2>3. Head(q) \in Stream!ToSet(q)
    <3>1. 1 \in 1..Len(q)
      BY <1>1
    <3> QED
      BY <1>1, <3>1 DEF Stream!ToSet
  <2> QED
    BY <2>1, <2>2, <2>3
<1> QED
  BY <1>1, <1>2 DEF Held

\* A client: what it shows and what is on the way to it, w bytes being written and told
\* those that it is about to be told of.
Connection == [pc : {"off", "snapshot", "loop", "leave"}, subscribed : BOOLEAN,
               chan : Seq(SUBSET Output), got : SUBSET Output, twice : BOOLEAN,
               dropped : BOOLEAN, ended : BOOLEAN]
Shown(heard, s) == s.got \union Held(s.chan) \union heard
Served(w, heard, s) ==
    /\ s \in Connection /\ Len(s.chan) <= ChannelSize
    /\ s.pc = "off" => s = Stream!Offline
    /\ s.pc \in {"snapshot", "loop"} => s.subscribed
    /\ s.pc \in {"snapshot", "loop"} /\ ~s.dropped => Suffix(w, Shown(heard, s))
    /\ s.pc = "loop" /\ ~s.dropped /\ w > 0 => Shown(heard, s) # {}

LEMMA OfflineServed ==
    ASSUME NEW w, NEW heard
    PROVE  Served(w, heard, Stream!Offline)
  BY StreamConstants DEF Served, Connection, Stream!Offline
LEMMA OfflineShown ==
    ASSUME NEW heard
    PROVE  Shown(heard, Stream!Offline) = heard
  BY DEF Shown, Held, Stream!ToSet, Stream!Offline
LEMMA ServedWrite ==
    ASSUME NEW w \in Nat, NEW n \in Nat \ {0}, NEW s, Served(w, {}, s)
    PROVE  Served(w + n, w + 1..w + n, s)
<1>1. Shown(w + 1..w + n, s) = Shown({}, s) \union (w + 1..w + n)
  BY DEF Shown
<1>2. Suffix(w, Shown({}, s)) => Suffix(w + n, Shown(w + 1..w + n, s))
  BY <1>1, SuffixLonger
<1>3. w + n \in w + 1..w + n
  OBVIOUS
<1> QED
  BY <1>1, <1>2, <1>3 DEF Served
LEMMA ServedTold ==
    ASSUME NEW w \in Nat, NEW heard \in SUBSET Output, NEW s, Served(w, heard, s), s.subscribed,
           Len(s.chan) < ChannelSize
    PROVE  Served(w, {}, [s EXCEPT !.chan = Append(@, heard)])
<1> DEFINE t == [s EXCEPT !.chan = Append(@, heard)]
<1>1. s \in Connection /\ s.chan \in Seq(SUBSET Output)
  BY DEF Served, Connection
<1>2. /\ t.pc = s.pc /\ t.subscribed = s.subscribed /\ t.chan = Append(s.chan, heard) /\ t.got = s.got
      /\ t.dropped = s.dropped
  BY <1>1 DEF Connection
<1>3. Len(t.chan) <= ChannelSize /\ t.chan \in Seq(SUBSET Output) /\ Held(t.chan) = Held(s.chan) \union heard
  BY <1>1, <1>2, HeldAppend, StreamConstants
<1>4. t \in Connection
  BY <1>1, <1>2, <1>3 DEF Connection
<1>5. Shown({}, t) = Shown(heard, s)
  BY <1>2, <1>3 DEF Shown
<1>6. s.pc # "off"
  BY DEF Served, Stream!Offline
<1> HIDE DEF t
<1>7. Served(w, {}, t)
  BY <1>2, <1>3, <1>4, <1>5, <1>6 DEF Served
<1> QED
  BY <1>7 DEF t
LEMMA ServedDropped ==
    ASSUME NEW w \in Nat, NEW heard, NEW s, Served(w, heard, s), s.subscribed
    PROVE  Served(w, {}, [s EXCEPT !.dropped = TRUE])
<1> DEFINE t == [s EXCEPT !.dropped = TRUE]
<1>1. t \in Connection /\ t.dropped /\ t.pc = s.pc /\ t.chan = s.chan /\ t.subscribed = s.subscribed
  BY DEF Served, Connection
<1>2. s.pc # "off"
  BY DEF Served, Stream!Offline
<1> HIDE DEF t
<1>3. Served(w, {}, t)
  BY <1>1, <1>2 DEF Served
<1> QED
  BY <1>3 DEF t
LEMMA ServedUntold ==
    ASSUME NEW w \in Nat, NEW heard, NEW s, Served(w, heard, s), ~s.subscribed
    PROVE  Served(w, {}, s)
  BY DEF Served
LEMMA ServedConnect ==
    ASSUME NEW w \in Nat, NEW heard, Suffix(w, heard)
    PROVE  Served(w, heard, [[Stream!Offline EXCEPT !.subscribed = TRUE] EXCEPT !.pc = "snapshot"])
<1> DEFINE t == [[Stream!Offline EXCEPT !.subscribed = TRUE] EXCEPT !.pc = "snapshot"]
<1>1. PICK o \in Connection : o = Stream!Offline /\ Len(o.chan) <= ChannelSize
  BY OfflineServed DEF Served
<1>2. /\ t \in Connection /\ t.pc = "snapshot" /\ t.subscribed /\ Len(t.chan) <= ChannelSize
      /\ t.chan = Stream!Offline.chan /\ t.got = Stream!Offline.got
  BY <1>1 DEF Connection
<1>3. Shown(heard, t) = heard
  BY <1>2, OfflineShown DEF Shown
<1> HIDE DEF t
<1>4. Served(w, heard, t)
  BY <1>2, <1>3 DEF Served
<1> QED
  BY <1>4 DEF t
LEMMA ServedReplay ==
    ASSUME NEW w \in Nat, NEW heard, NEW s, Served(w, heard, s), s.pc = "snapshot",
           NEW last \in SUBSET Output, Suffix(w, last), w > 0 => last # {}, NEW b \in BOOLEAN
    PROVE  Served(w, heard, [[s EXCEPT !.got = @ \union last, !.twice = b] EXCEPT !.pc = "loop"])
<1> DEFINE t == [[s EXCEPT !.got = @ \union last, !.twice = b] EXCEPT !.pc = "loop"]
<1>1. s \in Connection
  BY DEF Served
<1>2. /\ t \in Connection /\ t.pc = "loop" /\ t.subscribed = s.subscribed /\ t.chan = s.chan
      /\ t.dropped = s.dropped /\ t.got = s.got \union last
  BY <1>1 DEF Connection
<1>3. Shown(heard, t) = Shown(heard, s) \union last
  BY <1>2 DEF Shown
<1>4. Suffix(w, Shown(heard, s)) => Suffix(w, Shown(heard, t))
  BY <1>3, SuffixUnion
<1> HIDE DEF t
<1>5. Served(w, heard, t)
  BY <1>2, <1>3, <1>4 DEF Served
<1> QED
  BY <1>5 DEF t
LEMMA ServedSend ==
    ASSUME NEW w \in Nat, NEW heard, NEW s, Served(w, heard, s), s.pc = "loop", s.chan # <<>>, NEW b \in BOOLEAN
    PROVE  Served(w, heard, [[s EXCEPT !.got = @ \union Head(s.chan), !.twice = b] EXCEPT !.chan = Tail(@)])
<1> DEFINE t == [[s EXCEPT !.got = @ \union Head(s.chan), !.twice = b] EXCEPT !.chan = Tail(@)]
<1>1. s \in Connection /\ s.chan \in Seq(SUBSET Output)
  BY DEF Served, Connection
<1>2. /\ t.pc = "loop" /\ t.subscribed = s.subscribed /\ t.chan = Tail(s.chan)
      /\ t.dropped = s.dropped /\ t.got = s.got \union Head(s.chan)
  BY <1>1 DEF Connection
<1>3. /\ Tail(s.chan) \in Seq(SUBSET Output) /\ Len(Tail(s.chan)) <= Len(s.chan)
      /\ Head(s.chan) \in SUBSET Output /\ Held(s.chan) = Head(s.chan) \union Held(Tail(s.chan))
  BY <1>1, HeldTail
<1>4. t \in Connection
  BY <1>1, <1>3 DEF Connection
<1>5. Shown(heard, t) = Shown(heard, s)
  BY <1>2, <1>3 DEF Shown
<1>6. Len(t.chan) <= ChannelSize
  <2>1. Len(s.chan) \in Nat /\ Len(Tail(s.chan)) \in Nat /\ Len(s.chan) <= ChannelSize
    BY <1>1, <1>3 DEF Served
  <2> QED
    BY <1>2, <1>3, <2>1, StreamConstants
<1> HIDE DEF t
<1>7. Served(w, heard, t)
  BY <1>2, <1>4, <1>5, <1>6 DEF Served
<1> QED
  BY <1>7 DEF t
LEMMA ServedLeave ==
    ASSUME NEW w \in Nat, NEW heard, NEW s, Served(w, heard, s), s.pc = "loop", NEW b \in BOOLEAN
    PROVE  Served(w, heard, [s EXCEPT !.pc = "leave", !.ended = b])
  BY DEF Served, Connection

\* What a client is about to be told, and the invariant of the lane.
About(c) == IF c \in untold THEN chunk ELSE {}
StreamInv ==
    /\ RingTyped /\ RingExact
    /\ chunk \subseteq Output /\ Suffix(written, chunk) /\ untold \subseteq Terminals /\ exited \in BOOLEAN
    /\ client \in [Terminals -> Connection]
    /\ \A c \in Terminals : Served(written, About(c), client[c])

LEMMA StreamInvInit ==
    ASSUME Stream!Init
    PROVE  StreamInv
<1>1. written = 0 /\ head = 0 /\ full = FALSE /\ chunk = {} /\ untold = {} /\ exited = FALSE
  BY DEF Stream!Init
<1>2. 0 % Capacity = 0
  <2>1. PICK c \in Nat \ {0} : c = Capacity
    BY StreamConstants
  <2>2. 0 % c = 0
    BY SmallRemainder
  <2> QED
    BY <2>1, <2>2
<1>3. RingTyped
  <2>1. buf = [k \in 0..Capacity - 1 |-> 0]
    BY DEF Stream!Init
  <2>2. 0 \in 0..MaxOutput /\ 0 \in 0..Capacity - 1
    BY StreamConstants
  <2> QED
    BY <1>1, <2>1, <2>2 DEF RingTyped
<1>4. RingExact
  BY <1>1, <1>2, StreamConstants DEF RingExact
<1>5. Stream!Offline \in Connection
  BY OfflineServed DEF Served
<1>6. client = [c \in Terminals |-> Stream!Offline]
  BY DEF Stream!Init
<1>7. \A c \in Terminals : Served(written, About(c), client[c])
  BY <1>6, OfflineServed
<1> QED
  BY <1>1, <1>3, <1>4, <1>5, <1>6, <1>7 DEF StreamInv, Suffix

\* Only one client changes, to t.
LEMMA OneServed ==
    ASSUME StreamInv, UNCHANGED Stream!Ring, UNCHANGED <<chunk, exited>>, untold' \subseteq untold,
           NEW c \in Terminals, \A d \in Terminals \ {c} : d \in untold => d \in untold',
           NEW t, client' = [client EXCEPT ![c] = t], Served(written, About(c)', t)
    PROVE  StreamInv'
<1>1. t \in Connection
  BY DEF Served
<1>2. client' \in [Terminals -> Connection] /\ client'[c] = t /\ \A d \in Terminals \ {c} : client'[d] = client[d]
  BY <1>1 DEF StreamInv
<1>3. \A d \in Terminals \ {c} : About(d)' = About(d)
  BY DEF About
<1>4. written' = written /\ RingTyped' /\ RingExact'
  BY DEF StreamInv, Stream!Ring, RingTyped, RingExact
<1>5. \A d \in Terminals : Served(written', About(d)', client'[d])
  BY <1>2, <1>3, <1>4 DEF StreamInv
<1> QED
  BY <1>2, <1>4, <1>5 DEF StreamInv

LEMMA WriteStep ==
    ASSUME StreamInv, NEW n \in 1..MaxChunk, Stream!Write(n)
    PROVE  StreamInv'
<1>1. RingTyped' /\ RingExact'
  BY WriteRing DEF StreamInv
<1>2. /\ untold = {} /\ written' = written + n /\ chunk' = written + 1..written + n /\ untold' = Terminals
      /\ exited' = exited /\ client' = client /\ n \in Nat \ {0} /\ written \in Nat /\ written + n <= MaxOutput
  BY StreamConstants DEF Stream!Write, StreamInv, RingTyped
<1>3. PICK w \in Nat : w = written
  BY <1>2
<1>4. Suffix(w + n, w + 1..w + n) /\ (w + 1..w + n) \subseteq Output
  BY <1>2, <1>3, StreamConstants DEF Suffix, Output
<1>5. ASSUME NEW c \in Terminals PROVE Served(written', About(c)', client'[c])
  <2>1. Served(w, {}, client[c])
    BY <1>2, <1>3 DEF StreamInv, About
  <2>2. PICK s : s = client[c]
    OBVIOUS
  <2>3. Served(w + n, w + 1..w + n, s)
    BY <1>2, <2>1, <2>2, ServedWrite
  <2>4. About(c)' = w + 1..w + n
    BY <1>2, <1>3 DEF About
  <2> QED
    BY <1>2, <1>3, <2>2, <2>3, <2>4
<1> QED
  BY <1>1, <1>2, <1>3, <1>4, <1>5 DEF StreamInv

LEMMA NotifyStep ==
    ASSUME StreamInv, NEW c \in Terminals, Stream!Notify(c)
    PROVE  StreamInv'
<1>1. /\ c \in untold /\ untold' = untold \ {c} /\ UNCHANGED Stream!Ring /\ UNCHANGED <<chunk, exited>>
      /\ About(c) = chunk /\ About(c)' = {}
  BY DEF Stream!Notify, About
<1>2. PICK w \in Nat, heard \in SUBSET Output, s \in Connection : w = written /\ heard = chunk /\ s = client[c]
  BY DEF StreamInv, RingTyped
<1>3. Served(w, heard, s)
  BY <1>1, <1>2 DEF StreamInv
<1>4. CASE client[c].subscribed /\ Len(client[c].chan) < ChannelSize /\ client' = [client EXCEPT ![c].chan = Append(@, chunk)]
  <2>1. PICK t : t = [s EXCEPT !.chan = Append(@, heard)]
    OBVIOUS
  <2>2. Served(w, {}, t)
    BY <1>2, <1>3, <1>4, <2>1, ServedTold
  <2>3. client' = [client EXCEPT ![c] = t]
    BY <1>2, <1>4, <2>1 DEF StreamInv
  <2> QED
    BY <1>1, <1>2, <2>2, <2>3, OneServed
<1>5. CASE client[c].subscribed /\ client' = [client EXCEPT ![c].dropped = TRUE]
  <2>1. PICK t : t = [s EXCEPT !.dropped = TRUE]
    OBVIOUS
  <2>2. Served(w, {}, t)
    BY <1>2, <1>3, <1>5, <2>1, ServedDropped
  <2>3. client' = [client EXCEPT ![c] = t]
    BY <1>2, <1>5, <2>1 DEF StreamInv
  <2> QED
    BY <1>1, <1>2, <2>2, <2>3, OneServed
<1>6. CASE ~client[c].subscribed /\ UNCHANGED client
  <2>1. Served(w, {}, s)
    BY <1>2, <1>3, <1>6, ServedUntold
  <2>2. client' = [client EXCEPT ![c] = s]
    BY <1>2, <1>6 DEF StreamInv
  <2> QED
    BY <1>1, <1>2, <2>1, <2>2, OneServed
<1> QED
  BY <1>4, <1>5, <1>6 DEF Stream!Notify

\* A client goes from s to t by itself.
LEMMA ClientStep ==
    ASSUME StreamInv, UNCHANGED Stream!Ring, UNCHANGED <<chunk, untold, exited>>, NEW c \in Terminals,
           NEW t, client' = [client EXCEPT ![c] = t], Served(written, About(c), t)
    PROVE  StreamInv'
<1>1. About(c)' = About(c)
  BY DEF About
<1> QED
  BY <1>1, OneServed

LEMMA TerminalStep ==
    ASSUME StreamInv, NEW c \in Terminals,
           \/ Stream!Connect(c) \/ Stream!Replay(c) \/ Stream!SendChunk(c) \/ Stream!SendExit(c)
           \/ Stream!Disconnect(c) \/ Stream!Unsubscribe(c)
    PROVE  StreamInv'
<1>1. UNCHANGED Stream!Ring /\ UNCHANGED <<chunk, untold, exited>>
  BY DEF Stream!Connect, Stream!Replay, Stream!SendChunk, Stream!SendExit, Stream!Disconnect,
         Stream!Unsubscribe
<1>2. PICK w \in Nat, heard \in SUBSET Output, s \in Connection :
        /\ w = written /\ heard = About(c) /\ s = client[c] /\ Suffix(w, heard)
  <2>1. About(c) \in SUBSET Output /\ Suffix(written, About(c))
    BY DEF StreamInv, About, Suffix
  <2> QED
    BY <2>1 DEF StreamInv, RingTyped
<1>3. Served(w, heard, s)
  BY <1>2 DEF StreamInv
<1>4. CASE Stream!Connect(c)
  <2>1. s = Stream!Offline
    BY <1>2, <1>3, <1>4 DEF Served, Stream!Connect
  <2>2. PICK t : t = [[Stream!Offline EXCEPT !.subscribed = TRUE] EXCEPT !.pc = "snapshot"]
    OBVIOUS
  <2>3. Served(w, heard, t)
    BY <1>2, <2>2, ServedConnect
  <2>4. client' = [client EXCEPT ![c] = t]
    BY <1>2, <1>4, <2>1, <2>2 DEF Stream!Connect, Stream!Joins, Stream!Subscribed
  <2> QED
    BY <1>1, <1>2, <2>3, <2>4, ClientStep
<1>5. CASE Stream!Replay(c)
  <2>1. PICK n \in Nat : /\ n <= written /\ (written > 0 => n > 0)
                         /\ Stream!ToSet(Stream!Snapshot) = written - n + 1..written
    BY SnapshotLast DEF StreamInv
  <2>2. PICK last : last = w - n + 1..w
    OBVIOUS
  <2>3. Suffix(w, last) /\ (w > 0 => last # {})
    BY <1>2, <2>1, <2>2, SuffixOfAll
  <2>4. last \in SUBSET Output
    BY <1>2, <2>3, StreamConstants DEF Suffix, Output, StreamInv, RingTyped
  <2>5. PICK b \in BOOLEAN : b = (s.twice \/ s.got \cap last # {})
    OBVIOUS
  <2>6. PICK t : t = [[s EXCEPT !.got = @ \union last, !.twice = b] EXCEPT !.pc = "loop"]
    OBVIOUS
  <2>7. s.pc = "snapshot"
    BY <1>2, <1>5 DEF Stream!Replay
  <2>8. Served(w, heard, t)
    BY <1>3, <2>3, <2>4, <2>6, <2>7, ServedReplay
  <2>9. client' = [client EXCEPT ![c] = t]
    BY <1>2, <1>5, <2>1, <2>2, <2>5, <2>6 DEF Stream!Replay, Stream!Joins, Stream!Replayed, Stream!Received,
         Connection
  <2> QED
    BY <1>1, <1>2, <2>8, <2>9, ClientStep
<1>6. CASE Stream!SendChunk(c)
  <2>1. PICK b \in BOOLEAN : b = (s.twice \/ s.got \cap Head(s.chan) # {})
    OBVIOUS
  <2>2. PICK t : t = [[s EXCEPT !.got = @ \union Head(s.chan), !.twice = b] EXCEPT !.chan = Tail(@)]
    OBVIOUS
  <2>3. s.pc = "loop" /\ s.chan # <<>>
    BY <1>2, <1>6 DEF Stream!SendChunk
  <2>4. Served(w, heard, t)
    BY <1>3, <2>2, <2>3, ServedSend
  <2>5. client' = [client EXCEPT ![c] = t]
    BY <1>2, <1>6, <2>1, <2>2 DEF Stream!SendChunk, Stream!Received, Connection
  <2> QED
    BY <1>1, <1>2, <2>4, <2>5, ClientStep
<1>7. CASE Stream!SendExit(c) \/ Stream!Disconnect(c)
  <2>1. PICK b \in BOOLEAN : b = IF Stream!SendExit(c) THEN TRUE ELSE s.ended
    BY DEF Connection
  <2>2. PICK t : t = [s EXCEPT !.pc = "leave", !.ended = b]
    OBVIOUS
  <2>3. s.pc = "loop"
    BY <1>2, <1>7 DEF Stream!SendExit, Stream!Disconnect
  <2>4. Served(w, heard, t)
    BY <1>3, <2>2, <2>3, ServedLeave
  <2>5. client' = [client EXCEPT ![c] = t]
    <3>1. CASE Stream!SendExit(c)
      BY <1>2, <2>1, <2>2, <3>1 DEF Stream!SendExit, StreamInv
    <3>2. CASE ~Stream!SendExit(c)
      <4>1. t = [s EXCEPT !.pc = "leave"]
        BY <2>1, <2>2, <3>2 DEF Connection
      <4> QED
        BY <1>2, <1>7, <3>2, <4>1 DEF Stream!Disconnect, StreamInv
    <3> QED
      BY <3>1, <3>2
  <2> QED
    BY <1>1, <1>2, <2>4, <2>5, ClientStep
<1>8. CASE Stream!Unsubscribe(c)
  <2>1. PICK t : t = Stream!Offline
    OBVIOUS
  <2>2. Served(w, heard, t)
    BY <2>1, OfflineServed
  <2>3. client' = [client EXCEPT ![c] = t]
    BY <1>8, <2>1 DEF Stream!Unsubscribe
  <2> QED
    BY <1>1, <1>2, <2>2, <2>3, ClientStep
<1> QED
  BY <1>4, <1>5, <1>6, <1>7, <1>8

LEMMA StreamStep ==
    ASSUME StreamInv, Stream!Next \/ UNCHANGED Stream!vars
    PROVE  StreamInv'
<1>1. ASSUME NEW n \in 1..MaxChunk, Stream!Write(n) PROVE StreamInv'
  BY <1>1, WriteStep
<1>2. ASSUME NEW c \in Terminals, Stream!Notify(c) PROVE StreamInv'
  BY <1>2, NotifyStep
<1>3. ASSUME NEW c \in Terminals,
             \/ Stream!Connect(c) \/ Stream!Replay(c) \/ Stream!SendChunk(c) \/ Stream!SendExit(c)
             \/ Stream!Disconnect(c) \/ Stream!Unsubscribe(c)
      PROVE  StreamInv'
  BY <1>3, TerminalStep
<1>4. CASE Stream!ProcessExit
  BY <1>4 DEF Stream!ProcessExit, Stream!Ring, StreamInv, RingTyped, RingExact, About
<1>5. CASE UNCHANGED Stream!vars
  BY <1>5 DEF Stream!vars, StreamInv, RingTyped, RingExact, About
<1> QED
  BY <1>1, <1>2, <1>3, <1>4, <1>5 DEF Stream!Next

\* The snapshot is the last of the output, and what a client is shown has no gap, for rings,
\* channels and chunks of any size (kernel/terminal/buffer.go:36-83, gateway/ws.go:70-83).
LEMMA StreamShown ==
    ASSUME StreamInv
    PROVE  Stream!TypeOK /\ Stream!SnapshotIsTail /\ Stream!NothingSkipped
<1>1. Stream!SnapshotIsTail
  BY SnapshotLast DEF StreamInv
<1>2. Stream!TypeOK
  <2>1. ASSUME NEW c \in Terminals
        PROVE  LET s == client[c] IN
                 /\ s.pc \in {"off", "snapshot", "loop", "leave"}
                 /\ s.subscribed \in BOOLEAN /\ s.got \subseteq Output
                 /\ Len(s.chan) <= ChannelSize /\ \A k \in DOMAIN s.chan : s.chan[k] \subseteq Output
                 /\ {s.twice, s.dropped, s.ended} \subseteq BOOLEAN
    <3>1. PICK s \in Connection : s = client[c] /\ Len(s.chan) <= ChannelSize
      BY DEF StreamInv, Served
    <3>2. s.chan \in Seq(SUBSET Output)
      BY DEF Connection
    <3>3. \A k \in DOMAIN s.chan : s.chan[k] \subseteq Output
      BY <3>2
    <3> QED
      BY <3>1, <3>3 DEF Connection
  <2> QED
    BY <2>1 DEF Stream!TypeOK, Stream!Bytes, StreamInv, RingTyped, Output
<1>3. Stream!NothingSkipped
  <2>1. SUFFICES ASSUME NEW c \in Terminals, client[c].pc = "loop", ~client[c].dropped
                 PROVE  LET seen == client[c].got \union (UNION Stream!ToSet(client[c].chan))
                                      \union (IF c \in untold THEN chunk ELSE {})
                        IN  /\ seen = {i \in Stream!Bytes : i <= written /\ \E j \in seen : j <= i}
                            /\ (written > 0 => seen # {})
    BY DEF Stream!NothingSkipped
  <2>2. PICK w \in 0..MaxOutput : w = written
    BY DEF StreamInv, RingTyped
  <2>3. PICK heard, s : heard = About(c) /\ s = client[c]
    OBVIOUS
  <2>4. Served(w, heard, s)
    BY <2>2, <2>3 DEF StreamInv
  <2>5. PICK seen : seen = Shown(heard, s)
    OBVIOUS
  <2>6. w = written /\ seen = Shown(About(c), client[c])
    BY <2>2, <2>3, <2>5
  <2>7. Suffix(w, seen) /\ (w > 0 => seen # {})
    BY <2>1, <2>3, <2>4, <2>5 DEF Served
  <2>8. seen = {i \in 1..MaxOutput : i <= w /\ \E j \in seen : j <= i}
    <3>1. \A i \in seen : i \in 1..MaxOutput /\ i <= w /\ i <= i
      BY <2>7, StreamConstants DEF Suffix
    <3>2. ASSUME NEW i \in 1..MaxOutput, i <= w, NEW j \in seen, j <= i PROVE i \in seen
      <4>1. j \in 1..w /\ j..w \subseteq seen
        BY <2>7 DEF Suffix
      <4>2. i \in j..w
        BY <3>2, <4>1, StreamConstants
      <4> QED
        BY <4>1, <4>2
    <3> QED
      BY <3>1, <3>2
  <2>9. client[c].got \union (UNION Stream!ToSet(client[c].chan)) \union (IF c \in untold THEN chunk ELSE {}) = seen
    BY <2>6 DEF Shown, Held, About
  <2> QED
    BY <2>6, <2>7, <2>8, <2>9 DEF Stream!Bytes
<1> QED
  BY <1>1, <1>2, <1>3

THEOREM OutputShownHolds == Spec => []OutputShown
<1> DEFINE Inv == lane = "Stream" => StreamInv
<1>1. Init => Inv
  BY StreamInit, StreamInvInit
<1>2. Inv /\ [Next]_vars => Inv'
  <2> SUFFICES ASSUME Inv, [Next]_vars, lane' = "Stream" PROVE StreamInv'
    OBVIOUS
  <2>1. lane = "Stream" /\ (Stream!Next \/ UNCHANGED Stream!vars)
    BY StreamLane
  <2> QED
    BY <2>1, StreamStep
<1>3. Inv => OutputShown
  BY StreamShown DEF OutputShown
<1> HIDE DEF Inv
<1> QED
  BY <1>1, <1>2, <1>3, PTL DEF Spec

-----------------------------------------------------------------------------
(* The workbench.                                                           *)

LEMMA BenchInit ==
    ASSUME Init, lane = "Bench"
    PROVE  Bench!Init
  BY DEF Init
LEMMA BenchLane ==
    ASSUME [Next]_vars, lane' = "Bench"
    PROVE  lane = "Bench" /\ (Bench!Next \/ UNCHANGED Bench!vars)
<1>1. CASE Next
  BY <1>1 DEF Next
<1>2. CASE UNCHANGED vars
  BY <1>2 DEF vars, benchVars, Bench!vars
<1> QED
  BY <1>1, <1>2

Contributors == Plugins \union {None}
Answer == (SUBSET Contributors) \union {None}
Subscription == [live : BOOLEAN, open : BOOLEAN, queue : Seq(Bench!Events)]
Job == [pc : {"off", "change", "publish", "send", "drop", "retry"}, origin : Bench!Origins,
        change : {"install", "uninstall", "none"}, plugin : Contributors, event : Bench!Events,
        todo : SUBSET Nat, at : Nat]
Screen == [pc : {"off", "on", "leaving", "closing"}, sub : Nat, view : SUBSET Contributors,
           listed : SUBSET Contributors, asks : Seq(Answer), lost : BOOLEAN]
BenchTyped ==
    /\ registry \subseteq Contributors /\ subs \in Seq(Subscription) /\ job \in [Writers -> Job]
    /\ client \in [Clients -> Screen]

\* A client has a subscription of its own, which is on the list while it shows anything.
BenchSubs ==
    /\ \A c \in Clients : client[c].pc # "off" => client[c].sub \in 1..Len(subs)
    /\ \A c, d \in Clients : c # d /\ client[c].pc # "off" /\ client[d].pc # "off"
                              => client[c].sub # client[d].sub
    /\ \A c \in Clients : IF client[c].pc = "on" THEN subs[client[c].sub].live ELSE client[c].lost

\* Word of a change is in the channel of the client, or for every plugin whose last change was
\* announced the latest of its requests is of the registry as it is, or a writer of that plugin
\* has still to give its word.  (Plugin by plugin: a publisher that panics takes its own change
\* with it and leaves the words of the others.)
Heard(s) == \E i \in DOMAIN subs[s].queue : subs[s].queue[i] = "contributionsChanged"
Latest(s, p) ==
    IF s.asks = <<>> THEN p \in s.view <=> p \in registry
    ELSE s.asks[Len(s.asks)] = None \/ (p \in s.asks[Len(s.asks)] <=> p \in registry)
Knows(s, p) == Latest(s, p) \/ \E w \in Writers : Bench!Coming(w, s.sub) /\ job[w].plugin = p
Fresh(s) == Heard(s.sub) \/ \A p \in Contributors \ unannounced : Knows(s, p)
Counts(c) == up /\ client[c].pc = "on" /\ ~client[c].lost
BenchTold == \A c \in Clients : Counts(c) => Fresh(client[c])
BenchInv == BenchTyped /\ BenchSubs /\ BenchTold

LEMMA BenchInvInit ==
    ASSUME Bench!Init
    PROVE  BenchInv
<1>1. BenchTyped
  BY DEF Bench!Init, BenchTyped, Contributors, Job, Bench!Idle, Bench!Origins, Bench!Events, Screen,
         Bench!Away
<1>2. \A c \in Clients : client[c].pc = "off" /\ client[c].lost
  BY DEF Bench!Init, Bench!Away
<1> QED
  BY <1>1, <1>2 DEF BenchInv, BenchSubs, BenchTold, Counts

\* A channel after a send and after a receive.
LEMMA ChannelAppend ==
    ASSUME NEW q \in Seq(Bench!Events), NEW e \in Bench!Events
    PROVE  /\ Append(q, e) \in Seq(Bench!Events)
           /\ e = "contributionsChanged" => \E i \in DOMAIN Append(q, e) : Append(q, e)[i] = e
           /\ \A i \in DOMAIN q : i \in DOMAIN Append(q, e) /\ Append(q, e)[i] = q[i]
<1>1. /\ Append(q, e) \in Seq(Bench!Events) /\ DOMAIN Append(q, e) = 1..Len(q) + 1
      /\ DOMAIN q = 1..Len(q) /\ Len(q) \in Nat /\ Append(q, e)[Len(q) + 1] = e
      /\ \A i \in 1..Len(q) : Append(q, e)[i] = q[i]
  OBVIOUS
<1>2. Len(q) + 1 \in 1..Len(q) + 1
  BY <1>1
<1> QED
  BY <1>1, <1>2
LEMMA ChannelTail ==
    ASSUME NEW q \in Seq(Bench!Events), q # <<>>
    PROVE  /\ Tail(q) \in Seq(Bench!Events) /\ Head(q) \in Bench!Events
           /\ \A i \in DOMAIN q : q[i] = Head(q) \/ \E j \in DOMAIN Tail(q) : Tail(q)[j] = q[i]
<1>1. /\ Tail(q) \in Seq(Bench!Events) /\ Head(q) \in Bench!Events /\ Head(q) = q[1]
      /\ DOMAIN q = 1..Len(q) /\ Len(q) \in Nat \ {0} /\ DOMAIN Tail(q) = 1..Len(q) - 1
      /\ \A j \in 1..Len(q) - 1 : Tail(q)[j] = q[j + 1]
  OBVIOUS
<1>2. ASSUME NEW i \in 1..Len(q), i # 1
      PROVE  \E j \in DOMAIN Tail(q) : Tail(q)[j] = q[i]
  <2>1. i - 1 \in 1..Len(q) - 1 /\ (i - 1) + 1 = i
    BY <1>1, <1>2
  <2> QED
    BY <1>1, <2>1
<1> QED
  BY <1>1, <1>2

\* What a writer does to the registry alone.
LEMMA ChangeStep ==
    ASSUME BenchInv, NEW w \in Writers, Bench!Change(w)
    PROVE  BenchInv'
<1>1. /\ job[w].pc = "change" /\ registry' \in {registry, Bench!ChangedRegistry(w)} /\ subs' = subs
      /\ client' = client /\ up' = up
  BY DEF Bench!Change, Bench!Outcomes
<1>2. PICK j \in Job : j = job[w]
  BY DEF BenchInv, BenchTyped
<1>3. PICK t \in Job :
        /\ job' = [job EXCEPT ![w] = t]
        /\ \/ /\ t.pc = "publish" /\ t.event = "contributionsChanged" /\ t.plugin = j.plugin
              /\ unannounced' = unannounced \ {j.plugin}
           \/ unannounced' = unannounced \union {j.plugin}
  <2>1. CASE /\ job' = [job EXCEPT ![w].pc = "publish", ![w].event = "contributionsChanged"]
             /\ unannounced' = unannounced \ {job[w].plugin}
    <3>1. PICK t : t = [j EXCEPT !.pc = "publish", !.event = "contributionsChanged"]
      OBVIOUS
    <3>2. t \in Job /\ t.pc = "publish" /\ t.event = "contributionsChanged" /\ t.plugin = j.plugin
      BY <3>1 DEF Job, Bench!Events
    <3>3. job' = [job EXCEPT ![w] = t]
      BY <1>2, <2>1, <3>1 DEF BenchInv, BenchTyped
    <3> QED
      BY <1>2, <2>1, <3>2, <3>3
  <2>2. CASE job' = [job EXCEPT ![w] = Bench!Idle] /\ unannounced' = unannounced \union {job[w].plugin}
    <3>1. Bench!Idle \in Job
      BY DEF Bench!Idle, Job, Bench!Origins, Bench!Events, Contributors
    <3> QED
      BY <1>2, <2>2, <3>1
  <2> QED
    BY <2>1, <2>2 DEF Bench!Change
<1>4. BenchTyped'
  BY <1>1, <1>3 DEF BenchInv, BenchTyped, Job, Bench!ChangedRegistry
<1>5. job'[w] = t /\ \A v \in Writers \ {w} : job'[v] = job[v]
  BY <1>3 DEF BenchInv, BenchTyped
<1>6. \A q \in Contributors : q # j.plugin => (q \in registry' <=> q \in registry)
  BY <1>1, <1>2 DEF Bench!ChangedRegistry
<1>7. ASSUME NEW c \in Clients, Counts(c)', ~Heard(client[c].sub), NEW q \in Contributors \ unannounced'
      PROVE  Knows(client[c], q)'
  <2>1. CASE q = j.plugin
    <3>1. t.pc = "publish" /\ t.event = "contributionsChanged" /\ t.plugin = j.plugin
      BY <1>3, <1>7, <2>1
    <3> QED
      BY <1>5, <2>1, <3>1 DEF Knows, Bench!Coming
  <2>2. CASE q # j.plugin
    <3>1. q \in Contributors \ unannounced /\ Counts(c) /\ client'[c] = client[c]
      BY <1>1, <1>3, <1>7, <2>2 DEF Counts
    <3>2. Knows(client[c], q)
      BY <1>7, <3>1 DEF BenchInv, BenchTold, Fresh
    <3>3. Latest(client[c], q) => Latest(client[c], q)'
      BY <1>6, <2>2, <3>1 DEF Latest
    <3>4. ASSUME NEW v \in Writers, Bench!Coming(v, client[c].sub), job[v].plugin = q
          PROVE  Knows(client[c], q)'
      <4>1. v # w
        BY <1>1, <3>4 DEF Bench!Coming
      <4>2. job'[v] = job[v]
        BY <1>5, <4>1
      <4> QED
        BY <3>1, <3>4, <4>2 DEF Knows, Bench!Coming
    <3> QED
      BY <3>2, <3>3, <3>4 DEF Knows
  <2> QED
    BY <2>1, <2>2
<1>8. \A c \in Clients : Heard(client[c].sub) => Heard(client[c].sub)'
  BY <1>1 DEF Heard
<1> QED
  BY <1>1, <1>4, <1>7, <1>8 DEF BenchInv, BenchSubs, BenchTold, Fresh

\* A writer goes to t, and no client misses a word because of it but of a change that is on
\* record as not announced.
Word(t, s) == /\ t.event = "contributionsChanged"
              /\ \/ t.pc = "publish"
                 \/ t.pc \in {"send", "drop", "retry"} /\ s \in t.todo
SameScreens ==
    /\ client' \in [Clients -> Screen]
    /\ \A c \in Clients : /\ client'[c].pc = client[c].pc /\ client'[c].sub = client[c].sub
                          /\ client'[c].view = client[c].view /\ client'[c].asks = client[c].asks
                          /\ client[c].lost => client'[c].lost
SameSubs ==
    /\ subs' \in Seq(Subscription) /\ Len(subs') = Len(subs)
    /\ \A s \in DOMAIN subs : subs'[s].live = subs[s].live
WriterAt(w, t) == job' = [job EXCEPT ![w] = t]
Given(w, t, s) == Word(t, s) /\ t.plugin = job[w].plugin
LEMMA WriterStep ==
    ASSUME BenchInv, NEW w \in Writers, NEW t \in Job, WriterAt(w, t),
           registry' = registry, up' => up, unannounced \subseteq unannounced', SameScreens, SameSubs,
           \A c \in Clients : Counts(c)' /\ Heard(client[c].sub) => Heard(client[c].sub)',
           \A c \in Clients : Counts(c)' /\ Word(job[w], client[c].sub) =>
              Heard(client[c].sub)' \/ job[w].plugin \in unannounced' \/ Given(w, t, client[c].sub)
    PROVE  BenchInv'
<1>1. BenchTyped'
  BY DEF BenchInv, BenchTyped, SameScreens, SameSubs, WriterAt
<1>2. BenchSubs'
  BY DEF BenchInv, BenchTyped, BenchSubs, SameScreens, SameSubs
<1>3. ASSUME NEW c \in Clients, Counts(c)' PROVE Fresh(client[c])'
  <2>1. Counts(c) /\ client'[c].sub = client[c].sub
    BY <1>3 DEF Counts, SameScreens
  <2>2. job'[w] = t /\ \A v \in Writers \ {w} : job'[v] = job[v]
    BY DEF WriterAt, BenchInv, BenchTyped
  <2>3. Heard(client[c].sub)' => Fresh(client[c])'
    BY DEF Fresh
  <2>4. ASSUME ~Heard(client[c].sub)', NEW q \in Contributors \ unannounced' PROVE Knows(client[c], q)'
    <3>1. Knows(client[c], q)
      BY <1>3, <2>1, <2>4 DEF BenchInv, BenchTold, Fresh
    <3>2. Latest(client[c], q) => Knows(client[c], q)'
      BY DEF Latest, Knows, SameScreens
    <3>3. ASSUME NEW v \in Writers \ {w}, Bench!Coming(v, client[c].sub), job[v].plugin = q
          PROVE  Knows(client[c], q)'
      BY <2>1, <2>2, <3>3 DEF Knows, Bench!Coming
    <3>4. ASSUME Bench!Coming(w, client[c].sub), job[w].plugin = q PROVE Knows(client[c], q)'
      <4>1. Word(job[w], client[c].sub)
        BY <3>4 DEF Word, Bench!Coming
      <4>2. Word(t, client[c].sub) /\ t.plugin = q
        BY <1>3, <2>4, <3>4, <4>1 DEF Given
      <4> QED
        BY <2>1, <2>2, <4>2 DEF Knows, Bench!Coming, Word
    <3> QED
      BY <3>1, <3>2, <3>3, <3>4 DEF Knows
  <2> QED
    BY <2>3, <2>4 DEF Fresh
<1> QED
  BY <1>1, <1>2, <1>3 DEF BenchInv, BenchTold

LEMMA NothingMoved ==
    ASSUME BenchInv, client' = client
    PROVE  SameScreens
  BY DEF BenchInv, BenchTyped, SameScreens
LEMMA NothingSent ==
    ASSUME BenchInv, subs' = subs
    PROVE  SameSubs /\ \A c \in Clients : client' = client => (Heard(client[c].sub)' <=> Heard(client[c].sub))
  BY DEF BenchInv, BenchTyped, SameSubs, Heard

\* The steps of a writer that send nothing.
LEMMA QuietStep ==
    ASSUME BenchInv, NEW w \in Writers, NEW t \in Job, WriterAt(w, t),
           UNCHANGED <<registry, subs, client>>, up' => up, unannounced \subseteq unannounced',
           \A c \in Clients : Counts(c)' /\ Word(job[w], client[c].sub) =>
              job[w].plugin \in unannounced' \/ Given(w, t, client[c].sub)
    PROVE  BenchInv'
<1>1. SameScreens /\ SameSubs /\ \A c \in Clients : Heard(client[c].sub)' <=> Heard(client[c].sub)
  BY NothingMoved, NothingSent
<1> QED
  BY <1>1, WriterStep

LEMMA IdleJob == Bench!Idle \in Job
  BY DEF Bench!Idle, Job, Bench!Origins, Bench!Events, Contributors

LEMMA BeginStep ==
    ASSUME BenchInv, NEW w \in Writers, NEW t \in Job, Bench!Begin(w, t)
    PROVE  BenchInv'
<1>1. job[w].pc = "off" /\ WriterAt(w, t) /\ UNCHANGED <<registry, subs, client, up, unannounced>>
  BY DEF Bench!Begin, WriterAt
<1>2. \A c \in Clients : ~Word(job[w], client[c].sub)
  BY <1>1 DEF Word
<1> QED
  BY <1>1, <1>2, QuietStep

LEMMA BeginsStep ==
    ASSUME BenchInv, NEW w \in Writers,
           \/ Bench!Install(w) \/ Bench!Uninstall(w) \/ Bench!RegisterProvider(w)
           \/ Bench!DeleteProvider(w) \/ Bench!Message(w) \/ Bench!Revoke(w)
    PROVE  BenchInv'
<1>1. CASE Bench!Install(w) \/ Bench!Uninstall(w)
  <2>1. PICK p \in Contributors, change \in {"install", "uninstall"} :
          Bench!Begin(w, [Bench!Idle EXCEPT !.pc = "change", !.change = change, !.plugin = p])
    BY <1>1 DEF Bench!Install, Bench!Uninstall, Contributors, BenchInv, BenchTyped
  <2>2. PICK t : t = [Bench!Idle EXCEPT !.pc = "change", !.change = change, !.plugin = p]
    OBVIOUS
  <2>3. t \in Job
    BY <2>2, IdleJob DEF Job
  <2> QED
    BY <2>1, <2>2, <2>3, BeginStep
<1>4. CASE Bench!RegisterProvider(w) \/ Bench!DeleteProvider(w)
  <2>1. PICK p \in Contributors, change \in {"install", "uninstall"} :
          Bench!Begin(w, [Bench!Idle EXCEPT !.pc = "change", !.change = change,
                                            !.origin = "provider", !.plugin = p])
    BY <1>4 DEF Bench!RegisterProvider, Bench!DeleteProvider, Contributors, BenchInv, BenchTyped
  <2>2. PICK t : t = [Bench!Idle EXCEPT !.pc = "change", !.change = change,
                                        !.origin = "provider", !.plugin = p]
    OBVIOUS
  <2>3. t \in Job
    BY <2>2, IdleJob DEF Job, Bench!Origins
  <2> QED
    BY <2>1, <2>2, <2>3, BeginStep
<1>2. CASE Bench!Message(w)
  <2>1. PICK origin \in Bench!Origins :
          Bench!Begin(w, [Bench!Idle EXCEPT !.pc = "publish", !.origin = origin])
    BY <1>2 DEF Bench!Message, Bench!Origins
  <2>2. PICK t : t = [Bench!Idle EXCEPT !.pc = "publish", !.origin = origin]
    OBVIOUS
  <2>3. t \in Job
    BY <2>2, IdleJob DEF Job
  <2> QED
    BY <2>1, <2>2, <2>3, BeginStep
<1>3. CASE Bench!Revoke(w)
  <2>1. PICK p \in Contributors :
          Bench!Begin(w, [Bench!Idle EXCEPT !.pc = "publish", !.origin = "poller",
                                            !.change = "uninstall", !.plugin = p])
    BY <1>3 DEF Bench!Revoke, BenchInv, BenchTyped
  <2>2. PICK t : t = [Bench!Idle EXCEPT !.pc = "publish", !.origin = "poller",
                                        !.change = "uninstall", !.plugin = p]
    OBVIOUS
  <2>3. t \in Job
    BY <2>2, IdleJob DEF Job, Bench!Origins
  <2> QED
    BY <2>1, <2>2, <2>3, BeginStep
<1> QED
  BY <1>1, <1>2, <1>3, <1>4

LEMMA PublishStep ==
    ASSUME BenchInv, NEW w \in Writers, Bench!Publish(w)
    PROVE  BenchInv'
<1>1. /\ job[w].pc = "publish" /\ UNCHANGED <<registry, subs, client, up, unannounced>>
      /\ job' = [job EXCEPT ![w].pc = "send", ![w].todo = {s \in DOMAIN subs : subs[s].live}]
  BY DEF Bench!Publish
<1>2. PICK j \in Job, live \in SUBSET Nat : j = job[w] /\ live = {s \in DOMAIN subs : subs[s].live}
  <2>1. {s \in DOMAIN subs : subs[s].live} \in SUBSET Nat
    BY DEF BenchInv, BenchTyped
  <2> QED
    BY <2>1 DEF BenchInv, BenchTyped
<1>3. PICK t : t = [j EXCEPT !.pc = "send", !.todo = live]
  OBVIOUS
<1>4. t \in Job /\ t.pc = "send" /\ t.todo = live /\ t.event = j.event /\ t.plugin = j.plugin
  BY <1>3 DEF Job
<1>5. WriterAt(w, t)
  BY <1>1, <1>2, <1>3 DEF WriterAt, BenchInv, BenchTyped
<1>6. ASSUME NEW c \in Clients, Counts(c)' PROVE client[c].sub \in live
  <2>1. client[c].pc = "on"
    BY <1>1, <1>6 DEF Counts
  <2>2. client[c].sub \in 1..Len(subs) /\ subs[client[c].sub].live
    BY <2>1 DEF BenchInv, BenchSubs
  <2>3. DOMAIN subs = 1..Len(subs)
    BY DEF BenchInv, BenchTyped
  <2> QED
    BY <1>2, <2>2, <2>3
<1>7. \A c \in Clients : Counts(c)' /\ Word(job[w], client[c].sub) => Given(w, t, client[c].sub)
  BY <1>2, <1>4, <1>6 DEF Word, Given
<1> QED
  BY <1>1, <1>4, <1>5, <1>7, QuietStep

LEMMA PublishedStep ==
    ASSUME BenchInv, NEW w \in Writers, Bench!Published(w)
    PROVE  BenchInv'
<1>1. job[w].pc = "send" /\ job[w].todo = {} /\ UNCHANGED <<registry, subs, client, up, unannounced>>
  BY DEF Bench!Published
<1>2. PICK j \in Job : j = job[w]
  BY DEF BenchInv, BenchTyped
<1>3. PICK t : t = IF j.origin # "poller" \/ j.event = "contributionsChanged" THEN Bench!Idle
                   ELSE IF j.event = "showMessage" THEN [j EXCEPT !.pc = "publish", !.event = "revocation"]
                   ELSE [j EXCEPT !.pc = "change"]
  OBVIOUS
<1>4. t \in Job
  BY <1>3, IdleJob DEF Job, Bench!Events
<1>5. WriterAt(w, t)
  BY <1>2, <1>3 DEF WriterAt, BenchInv, BenchTyped, Bench!Published
<1>6. \A c \in Clients : ~Word(job[w], client[c].sub)
  BY <1>1 DEF Word
<1> QED
  BY <1>1, <1>4, <1>5, <1>6, QuietStep

LEMMA PanicStep ==
    ASSUME BenchInv, NEW w \in Writers, up, Bench!Panic(w), UNCHANGED registry
    PROVE  BenchInv'
<1>1. WriterAt(w, Bench!Idle) /\ UNCHANGED <<registry, subs, client>> /\ unannounced \subseteq unannounced'
  BY DEF Bench!Panic, WriterAt
<1>2. \A c \in Clients : Word(job[w], client[c].sub) => job[w].plugin \in unannounced'
  BY DEF Bench!Panic, Word
<1> QED
  BY <1>1, <1>2, IdleJob, QuietStep

\* A writer has put its word into channel s.
LEMMA EnqueuedStep ==
    ASSUME BenchInv, NEW w \in Writers, job[w].pc \in {"send", "drop", "retry"},
           NEW s \in Nat, Bench!Enqueued(w, s), Bench!Done(w, s),
           UNCHANGED <<registry, client, up, unannounced>>
    PROVE  BenchInv'
<1>1. PICK j \in Job : j = job[w]
  BY DEF BenchInv, BenchTyped
<1>2. PICK t : t = [j EXCEPT !.pc = "send", !.todo = @ \ {s}, !.at = 0]
  OBVIOUS
<1>3. t \in Job /\ t.pc = "send" /\ t.todo = j.todo \ {s} /\ t.event = j.event /\ t.plugin = j.plugin
  BY <1>2 DEF Job
<1>4. WriterAt(w, t)
  BY <1>1, <1>2 DEF WriterAt, BenchInv, BenchTyped, Bench!Done
<1>5. subs' = [subs EXCEPT ![s].queue = Append(@, job[w].event)] /\ j.event \in Bench!Events
  BY <1>1 DEF Bench!Enqueued, Job
<1>6. CASE s \in DOMAIN subs
  <2>1. PICK b \in Subscription : b = subs[s]
    BY <1>6 DEF BenchInv, BenchTyped
  <2>2. PICK q : q = Append(b.queue, j.event)
    OBVIOUS
  <2>3. b.queue \in Seq(Bench!Events)
    BY DEF Subscription
  <2>4. /\ q \in Seq(Bench!Events) /\ (j.event = "contributionsChanged" => \E i \in DOMAIN q : q[i] = j.event)
        /\ \A i \in DOMAIN b.queue : i \in DOMAIN q /\ q[i] = b.queue[i]
    BY <1>5, <2>2, <2>3, ChannelAppend
  <2>5. PICK d : d = [b EXCEPT !.queue = q]
    OBVIOUS
  <2>6. d \in Subscription /\ d.queue = q /\ d.live = b.live
    BY <2>4, <2>5 DEF Subscription
  <2>7. subs' = [subs EXCEPT ![s] = d]
    BY <1>1, <1>5, <2>1, <2>2, <2>5
  <2>8. /\ subs' \in Seq(Subscription) /\ Len(subs') = Len(subs) /\ DOMAIN subs' = DOMAIN subs
        /\ subs'[s] = d /\ \A r \in DOMAIN subs \ {s} : subs'[r] = subs[r]
    BY <1>6, <2>6, <2>7 DEF BenchInv, BenchTyped
  <2>9. SameSubs
    BY <2>1, <2>6, <2>8 DEF SameSubs
  <2>10. ASSUME NEW c \in Clients, Counts(c)', Heard(client[c].sub) \/ Word(job[w], client[c].sub)
         PROVE  Heard(client[c].sub)' \/ (~Heard(client[c].sub) /\ Given(w, t, client[c].sub))
    <3>1. client[c].sub \in DOMAIN subs /\ client'[c].sub = client[c].sub
      BY <2>10 DEF Counts, BenchInv, BenchSubs, BenchTyped
    <3>2. CASE client[c].sub # s
      BY <1>1, <1>3, <2>8, <2>10, <3>1, <3>2 DEF Heard, Word, Given
    <3>3. CASE client[c].sub = s
      <4>1. Heard(s) => \E i \in DOMAIN q : q[i] = "contributionsChanged"
        BY <2>1, <2>4 DEF Heard
      <4>2. Word(job[w], s) => \E i \in DOMAIN q : q[i] = "contributionsChanged"
        BY <1>1, <2>4 DEF Word
      <4>3. subs'[s].queue = q
        BY <2>6, <2>8
      <4> QED
        BY <2>10, <3>1, <3>3, <4>1, <4>2, <4>3 DEF Heard
    <3> QED
      BY <3>2, <3>3
  <2> QED
    BY <1>3, <1>4, <2>9, <2>10, NothingMoved, WriterStep
<1>7. CASE s \notin DOMAIN subs
  <2>1. subs' = subs
    BY <1>5, <1>7 DEF BenchInv, BenchTyped
  <2>2. ASSUME NEW c \in Clients, Counts(c)', Word(job[w], client[c].sub)
        PROVE  Given(w, t, client[c].sub)
    <3>1. client[c].sub \in DOMAIN subs
      BY <2>2 DEF Counts, BenchInv, BenchSubs, BenchTyped
    <3> QED
      BY <1>1, <1>3, <1>7, <2>2, <3>1 DEF Word, Given
  <2> QED
    BY <1>3, <1>4, <2>1, <2>2, QuietStep
<1> QED
  BY <1>6, <1>7

LEMMA OfferStep ==
    ASSUME BenchInv, NEW w \in Writers, Bench!Offer(w)
    PROVE  BenchInv'
<1>1. up /\ job[w].pc = "send" /\ UNCHANGED registry
  BY DEF Bench!Offer
<1>2. PICK s \in job[w].todo :
          \/ ~subs[s].open /\ Bench!Panic(w)
          \/ /\ subs[s].open /\ ~Bench!Full(s)
             /\ Bench!Enqueued(w, s) /\ Bench!Done(w, s)
             /\ UNCHANGED <<up, client, unannounced>>
          \/ /\ subs[s].open /\ Bench!Full(s)
             /\ job' = [job EXCEPT ![w].pc = "drop", ![w].at = s]
             /\ UNCHANGED <<up, subs, client, unannounced>>
  BY DEF Bench!Offer
<1>3. PICK j \in Job : j = job[w] /\ s \in Nat
  BY DEF BenchInv, BenchTyped, Job
<1>4. CASE Bench!Panic(w)
  BY <1>1, <1>4, PanicStep
<1>5. CASE Bench!Enqueued(w, s) /\ Bench!Done(w, s) /\ UNCHANGED <<up, client, unannounced>>
  BY <1>1, <1>3, <1>5, EnqueuedStep
<1>6. CASE job' = [job EXCEPT ![w].pc = "drop", ![w].at = s] /\ UNCHANGED <<up, subs, client, unannounced>>
  <2>1. PICK t : t = [j EXCEPT !.pc = "drop", !.at = s]
    OBVIOUS
  <2>2. t \in Job /\ t.pc = "drop" /\ t.todo = j.todo /\ t.event = j.event /\ t.plugin = j.plugin
    BY <1>3, <2>1 DEF Job
  <2>3. WriterAt(w, t)
    BY <1>3, <1>6, <2>1 DEF WriterAt, BenchInv, BenchTyped
  <2>4. \A c \in Clients : Word(job[w], client[c].sub) => Given(w, t, client[c].sub)
    BY <1>1, <1>3, <2>2 DEF Word, Given
  <2> QED
    BY <1>1, <1>6, <2>2, <2>3, <2>4, QuietStep
<1> QED
  BY <1>2, <1>4, <1>5, <1>6

\* The clients of s have lost event e.
LEMMA LosingScreens ==
    ASSUME BenchInv, NEW s, NEW e, Bench!Losing(s, e)
    PROVE  /\ SameScreens
           /\ \A c \in Clients : e = "contributionsChanged" /\ client[c].sub = s => client'[c].lost
<1>1. ASSUME NEW c \in Clients
      PROVE  /\ client'[c] \in Screen /\ client'[c].pc = client[c].pc /\ client'[c].sub = client[c].sub
             /\ client'[c].view = client[c].view /\ client'[c].asks = client[c].asks
             /\ client[c].lost => client'[c].lost
             /\ e = "contributionsChanged" /\ client[c].sub = s => client'[c].lost
  <2>1. PICK r \in Screen : r = client[c]
    BY DEF BenchInv, BenchTyped
  <2>2. PICK t : t = [r EXCEPT !.lost = TRUE]
    OBVIOUS
  <2>3. /\ t \in Screen /\ t.pc = r.pc /\ t.sub = r.sub /\ t.view = r.view /\ t.asks = r.asks /\ t.lost
    BY <2>2 DEF Screen
  <2>4. client'[c] = IF client[c].sub = s /\ e = "contributionsChanged" THEN t ELSE r
    BY <2>1, <2>2 DEF Bench!Losing
  <2> QED
    BY <2>1, <2>3, <2>4
<1>2. client' \in [Clients -> Screen]
  BY <1>1 DEF Bench!Losing
<1> QED
  BY <1>1, <1>2 DEF SameScreens

LEMMA DropStep ==
    ASSUME BenchInv, NEW w \in Writers, Bench!DropOldest(w)
    PROVE  BenchInv'
<1>1. job[w].pc = "drop" /\ UNCHANGED <<registry, up, unannounced>> /\ job' = [job EXCEPT ![w].pc = "retry"]
  BY DEF Bench!DropOldest
<1>2. PICK j \in Job, s \in Nat : j = job[w] /\ s = job[w].at
  BY DEF BenchInv, BenchTyped, Job
<1>3. PICK t : t = [j EXCEPT !.pc = "retry"]
  OBVIOUS
<1>4. t \in Job /\ t.pc = "retry" /\ t.todo = j.todo /\ t.event = j.event /\ t.plugin = j.plugin
  BY <1>3 DEF Job
<1>5. WriterAt(w, t)
  BY <1>1, <1>2, <1>3 DEF WriterAt, BenchInv, BenchTyped
<1>6. \A c \in Clients : Word(job[w], client[c].sub) => Given(w, t, client[c].sub)
  BY <1>1, <1>2, <1>4 DEF Word, Given
<1>7. CASE UNCHANGED <<subs, client>>
  BY <1>1, <1>4, <1>5, <1>6, <1>7, QuietStep
<1>8. CASE /\ subs[s].queue # <<>> /\ subs' = [subs EXCEPT ![s].queue = Tail(@)]
           /\ Bench!Losing(s, Head(subs[s].queue))
  <2>1. CASE s \in DOMAIN subs
    <3>1. PICK b \in Subscription : b = subs[s]
      BY <2>1 DEF BenchInv, BenchTyped
    <3>2. PICK q, e : q = Tail(b.queue) /\ e = Head(b.queue)
      OBVIOUS
    <3>3. b.queue \in Seq(Bench!Events) /\ b.queue # <<>>
      BY <1>8, <3>1 DEF Subscription
    <3>4. /\ q \in Seq(Bench!Events)
          /\ \A i \in DOMAIN b.queue : b.queue[i] = e \/ \E k \in DOMAIN q : q[k] = b.queue[i]
      BY <3>2, <3>3, ChannelTail
    <3>5. PICK d : d = [b EXCEPT !.queue = q]
      OBVIOUS
    <3>6. d \in Subscription /\ d.queue = q /\ d.live = b.live
      BY <3>4, <3>5 DEF Subscription
    <3>7. subs' = [subs EXCEPT ![s] = d]
      BY <1>8, <3>1, <3>2, <3>5
    <3>8. /\ subs' \in Seq(Subscription) /\ Len(subs') = Len(subs) /\ DOMAIN subs' = DOMAIN subs
          /\ subs'[s] = d /\ \A r \in DOMAIN subs \ {s} : subs'[r] = subs[r]
      BY <2>1, <3>6, <3>7 DEF BenchInv, BenchTyped
    <3>9. SameSubs
      BY <3>1, <3>6, <3>8 DEF SameSubs
    <3>10. SameScreens /\ \A c \in Clients : e = "contributionsChanged" /\ client[c].sub = s => client'[c].lost
      BY <1>8, <3>1, <3>2, LosingScreens
    <3>11. ASSUME NEW c \in Clients, Counts(c)', Heard(client[c].sub) PROVE Heard(client[c].sub)'
      <4>1. client[c].sub \in DOMAIN subs /\ client'[c].sub = client[c].sub
        BY <3>10, <3>11 DEF Counts, BenchInv, BenchSubs, BenchTyped, SameScreens
      <4>2. CASE client[c].sub # s
        BY <3>8, <3>11, <4>1, <4>2 DEF Heard
      <4>3. CASE client[c].sub = s
        <5>1. e # "contributionsChanged"
          BY <3>10, <3>11, <4>3 DEF Counts
        <5>2. \E k \in DOMAIN q : q[k] = "contributionsChanged"
          BY <3>1, <3>4, <3>11, <4>3, <5>1 DEF Heard
        <5>3. subs'[s].queue = q
          BY <3>6, <3>8
        <5> QED
          BY <4>1, <4>3, <5>2, <5>3 DEF Heard
      <4> QED
        BY <4>2, <4>3
    <3> QED
      BY <1>1, <1>4, <1>5, <1>6, <3>9, <3>10, <3>11, WriterStep
  <2>2. CASE s \notin DOMAIN subs
    <3>1. subs' = subs
      BY <1>8, <2>2 DEF BenchInv, BenchTyped
    <3>2. SameScreens
      BY <1>8, LosingScreens
    <3>3. SameSubs /\ \A c \in Clients : Heard(client[c].sub) => Heard(client[c].sub)'
      BY <3>1, <3>2, NothingSent DEF Heard, SameScreens
    <3> QED
      BY <1>1, <1>4, <1>5, <1>6, <3>2, <3>3, WriterStep
  <2> QED
    BY <2>1, <2>2
<1> QED
  BY <1>2, <1>7, <1>8 DEF Bench!DropOldest

LEMMA RetryStep ==
    ASSUME BenchInv, NEW w \in Writers, Bench!OfferAgain(w)
    PROVE  BenchInv'
<1>1. up /\ job[w].pc = "retry" /\ UNCHANGED registry
  BY DEF Bench!OfferAgain
<1>2. PICK j \in Job, s \in Nat : j = job[w] /\ s = job[w].at
  BY DEF BenchInv, BenchTyped, Job
<1>3. CASE Bench!Panic(w)
  BY <1>1, <1>3, PanicStep
<1>4. CASE Bench!Enqueued(w, s) /\ Bench!Done(w, s) /\ UNCHANGED <<up, client, unannounced>>
  BY <1>1, <1>4, EnqueuedStep
<1>5. CASE Bench!Losing(s, job[w].event) /\ Bench!Done(w, s) /\ UNCHANGED <<up, subs, unannounced>>
  <2>1. PICK t : t = [j EXCEPT !.pc = "send", !.todo = @ \ {s}, !.at = 0]
    OBVIOUS
  <2>2. t \in Job /\ t.pc = "send" /\ t.todo = j.todo \ {s} /\ t.event = j.event /\ t.plugin = j.plugin
    BY <2>1 DEF Job
  <2>3. WriterAt(w, t)
    BY <1>2, <1>5, <2>1 DEF WriterAt, BenchInv, BenchTyped, Bench!Done
  <2>4. /\ SameScreens
        /\ \A c \in Clients : job[w].event = "contributionsChanged" /\ client[c].sub = s => client'[c].lost
    BY <1>5, LosingScreens
  <2>5. SameSubs /\ \A c \in Clients : Heard(client[c].sub) => Heard(client[c].sub)'
    BY <1>5, <2>4, NothingSent DEF Heard, SameScreens
  <2>6. ASSUME NEW c \in Clients, Counts(c)', Word(job[w], client[c].sub) PROVE Given(w, t, client[c].sub)
    <3>1. client[c].sub # s
      BY <2>4, <2>6 DEF Counts, Word
    <3> QED
      BY <1>1, <1>2, <2>2, <2>6, <3>1 DEF Word, Given
  <2> QED
    BY <1>1, <1>5, <2>2, <2>3, <2>4, <2>5, <2>6, WriterStep
<1> QED
  BY <1>2, <1>3, <1>4, <1>5 DEF Bench!OfferAgain

\* A client goes to t, and its channel is the only one that may change.
ScreenAt(c, t) == client' = [client EXCEPT ![c] = t]
LEMMA ScreenStep ==
    ASSUME BenchInv, NEW c \in Clients, NEW t \in Screen, ScreenAt(c, t),
           UNCHANGED <<registry, job, up, unannounced>>,
           subs' \in Seq(Subscription), Len(subs') >= Len(subs),
           \A d \in Clients \ {c} : client[d].pc # "off" => subs'[client[d].sub] = subs[client[d].sub],
           t.pc # "off" => /\ t.sub \in 1..Len(subs')
                           /\ \A d \in Clients \ {c} : client[d].pc # "off" => client[d].sub # t.sub,
           IF t.pc = "on" THEN subs'[t.sub].live ELSE t.lost,
           up /\ t.pc = "on" /\ ~t.lost =>
              Heard(t.sub)' \/ \A p \in Contributors \ unannounced : Knows(t, p)
    PROVE  BenchInv'
<1>1. client'[c] = t /\ \A d \in Clients \ {c} : client'[d] = client[d]
  BY DEF ScreenAt, BenchInv, BenchTyped
<1>2. BenchTyped'
  BY DEF BenchInv, BenchTyped, ScreenAt
<1>3. BenchSubs'
  <2>1. Len(subs) \in Nat /\ Len(subs') \in Nat
    BY DEF BenchInv, BenchTyped
  <2>2. ASSUME NEW d \in Clients, client'[d].pc # "off" PROVE client'[d].sub \in 1..Len(subs')
    BY <1>1, <2>1, <2>2 DEF BenchInv, BenchSubs
  <2>3. ASSUME NEW d \in Clients, NEW e \in Clients, d # e, client'[d].pc # "off", client'[e].pc # "off"
        PROVE  client'[d].sub # client'[e].sub
    <3>1. CASE d = c
      BY <1>1, <2>3, <3>1
    <3>2. CASE e = c
      BY <1>1, <2>3, <3>2
    <3>3. CASE d # c /\ e # c
      BY <1>1, <2>3, <3>3 DEF BenchInv, BenchSubs
    <3> QED
      BY <3>1, <3>2, <3>3
  <2>4. ASSUME NEW d \in Clients
        PROVE  IF client'[d].pc = "on" THEN subs'[client'[d].sub].live ELSE client'[d].lost
    <3>1. CASE d = c
      BY <1>1, <3>1
    <3>2. CASE d # c
      BY <1>1, <3>2 DEF BenchInv, BenchSubs
    <3> QED
      BY <3>1, <3>2
  <2> QED
    BY <2>2, <2>3, <2>4 DEF BenchSubs
<1>4. ASSUME NEW s \in Screen, NEW q \in Contributors \ unannounced, Knows(s, q) PROVE Knows(s, q)'
  BY <1>4 DEF Knows, Latest, Bench!Coming
<1>5. ASSUME NEW d \in Clients, Counts(d)' PROVE Fresh(client[d])'
  <2>1. CASE d = c
    <3>1. Heard(t.sub)' \/ \A p \in Contributors \ unannounced' : Knows(t, p)'
      BY <1>1, <1>4, <1>5, <2>1 DEF Counts
    <3> QED
      BY <1>1, <2>1, <3>1 DEF Fresh, Knows, Latest, Bench!Coming
  <2>2. CASE d # c
    <3>1. client'[d] = client[d] /\ Counts(d) /\ subs'[client[d].sub] = subs[client[d].sub]
      BY <1>1, <1>5, <2>2 DEF Counts
    <3>2. Heard(client[d].sub) \/ \A p \in Contributors \ unannounced : Knows(client[d], p)
      BY <3>1 DEF BenchInv, BenchTold, Fresh
    <3>3. Heard(client[d].sub) => Heard(client[d].sub)'
      BY <3>1 DEF Heard
    <3>4. ASSUME NEW p \in Contributors, Knows(client[d], p) PROVE Knows(client[d], p)'
      BY <3>1, <3>4 DEF Knows, Latest, Bench!Coming
    <3> QED
      BY <3>2, <3>3, <3>4 DEF Fresh
  <2> QED
    BY <2>1, <2>2
<1> QED
  BY <1>2, <1>3, <1>5 DEF BenchInv, BenchTold

\* The same when no channel changes and the client keeps its own, or leaves it.
LEMMA ScreenOnlyStep ==
    ASSUME BenchInv, NEW c \in Clients, NEW t \in Screen, ScreenAt(c, t),
           UNCHANGED <<registry, job, up, unannounced, subs>>,
           t.pc # "off" => client[c].pc # "off" /\ t.sub = client[c].sub,
           t.pc # "on" => t.lost, t.pc = "on" => client[c].pc = "on",
           up /\ t.pc = "on" /\ ~t.lost =>
              Heard(t.sub) \/ \A p \in Contributors \ unannounced : Knows(t, p)
    PROVE  BenchInv'
<1>1. subs' \in Seq(Subscription) /\ Len(subs') >= Len(subs)
  BY DEF BenchInv, BenchTyped
<1>2. t.pc # "off" => /\ t.sub \in 1..Len(subs')
                      /\ \A d \in Clients \ {c} : client[d].pc # "off" => client[d].sub # t.sub
  BY DEF BenchInv, BenchSubs
<1>3. IF t.pc = "on" THEN subs'[t.sub].live ELSE t.lost
  BY DEF BenchInv, BenchSubs
<1>4. Heard(t.sub) => Heard(t.sub)'
  BY DEF Heard
<1> QED
  BY <1>1, <1>2, <1>3, <1>4, ScreenStep

LEMMA SubscribeStep ==
    ASSUME BenchInv, NEW c \in Clients, Bench!Subscribe(c)
    PROVE  BenchInv'
<1>1. /\ client[c].pc = "off" /\ subs' = Append(subs, [live |-> TRUE, open |-> TRUE, queue |-> <<>>])
      /\ client' = [client EXCEPT ![c].pc = "on", ![c].sub = Len(subs) + 1]
      /\ UNCHANGED <<registry, job, up, unannounced>>
  BY DEF Bench!Subscribe
<1>2. PICK b \in Subscription : b = [live |-> TRUE, open |-> TRUE, queue |-> <<>>]
  <2>1. <<>> \in Seq(Bench!Events)
    OBVIOUS
  <2> QED
    BY <2>1 DEF Subscription
<1>3. /\ subs' \in Seq(Subscription) /\ Len(subs) \in Nat /\ Len(subs') = Len(subs) + 1
      /\ subs'[Len(subs) + 1] = b /\ \A i \in 1..Len(subs) : subs'[i] = subs[i]
  <2>1. subs \in Seq(Subscription) /\ subs' = Append(subs, b)
    BY <1>1, <1>2 DEF BenchInv, BenchTyped
  <2> QED
    BY <2>1
<1>4. PICK r \in Screen, n \in Nat : r = client[c] /\ n = Len(subs) + 1
  BY <1>3 DEF BenchInv, BenchTyped
<1>5. PICK t : t = [r EXCEPT !.pc = "on", !.sub = n]
  OBVIOUS
<1>6. t \in Screen /\ t.pc = "on" /\ t.sub = n /\ t.lost = r.lost
  BY <1>5 DEF Screen
<1>7. ScreenAt(c, t)
  BY <1>1, <1>4, <1>5 DEF ScreenAt, BenchInv, BenchTyped
<1>8. t.lost
  BY <1>1, <1>4, <1>6 DEF BenchInv, BenchSubs
<1>9. \A d \in Clients \ {c} : client[d].pc # "off" =>
        client[d].sub # t.sub /\ subs'[client[d].sub] = subs[client[d].sub]
  BY <1>3, <1>4, <1>6 DEF BenchInv, BenchSubs
<1>10. t.sub \in 1..Len(subs') /\ subs'[t.sub].live /\ Len(subs') >= Len(subs)
  BY <1>2, <1>3, <1>4, <1>6
<1> QED
  BY <1>1, <1>3, <1>6, <1>7, <1>8, <1>9, <1>10, ScreenStep

LEMMA RefreshStep ==
    ASSUME BenchInv, NEW c \in Clients, Bench!Refresh(c)
    PROVE  BenchInv'
<1>1. /\ client[c].pc = "on" /\ client' = [client EXCEPT ![c].asks = <<None>>, ![c].lost = FALSE]
      /\ UNCHANGED <<registry, job, up, unannounced, subs>>
  BY DEF Bench!Refresh
<1>2. PICK r \in Screen : r = client[c]
  BY DEF BenchInv, BenchTyped
<1>3. PICK q \in Seq(Answer) : q = <<None>>
  <2>1. None \in Answer
    BY DEF Answer
  <2>2. <<None>> \in Seq(Answer)
    BY <2>1
  <2> QED
    BY <2>2
<1>4. PICK t : t = [r EXCEPT !.asks = q, !.lost = FALSE]
  OBVIOUS
<1>5. t \in Screen /\ t.pc = "on" /\ t.sub = r.sub /\ t.asks = q
  BY <1>1, <1>2, <1>4 DEF Screen
<1>6. ScreenAt(c, t)
  BY <1>1, <1>2, <1>3, <1>4 DEF ScreenAt, BenchInv, BenchTyped
<1>7. \A p \in Contributors : Knows(t, p)
  BY <1>3, <1>5 DEF Latest, Knows
<1> QED
  BY <1>1, <1>2, <1>5, <1>6, <1>7, ScreenOnlyStep

LEMMA LeaveStep ==
    ASSUME BenchInv, NEW c \in Clients, Bench!Leave(c)
    PROVE  BenchInv'
<1>1. /\ client[c].pc = "on" /\ client' = [client EXCEPT ![c].pc = "leaving", ![c].lost = TRUE]
      /\ UNCHANGED <<registry, job, up, unannounced, subs>>
  BY DEF Bench!Leave
<1>2. PICK r \in Screen : r = client[c]
  BY DEF BenchInv, BenchTyped
<1>3. PICK t : t = [r EXCEPT !.pc = "leaving", !.lost = TRUE]
  OBVIOUS
<1>4. t \in Screen /\ t.pc = "leaving" /\ t.sub = r.sub /\ t.lost
  BY <1>1, <1>2, <1>3 DEF Screen
<1>5. ScreenAt(c, t)
  BY <1>1, <1>2, <1>3 DEF ScreenAt, BenchInv, BenchTyped
<1> QED
  BY <1>1, <1>2, <1>4, <1>5, ScreenOnlyStep

\* What a client shows once its latest request is answered.
LEMMA FlattenStep ==
    ASSUME BenchInv, NEW c \in Clients, Bench!Flatten(c)
    PROVE  BenchInv'
<1>1. PICK i \in DOMAIN client[c].asks :
        client[c].asks[i] = None /\ client' = [client EXCEPT ![c].asks[i] = registry]
  BY DEF Bench!Flatten
<1>2. UNCHANGED <<registry, job, up, unannounced, subs>>
  BY DEF Bench!Flatten
<1>3. PICK r \in Screen, a \in Answer : r = client[c] /\ a = registry
  BY DEF BenchInv, BenchTyped, Answer
<1>4. PICK q : q = [r.asks EXCEPT ![i] = a]
  OBVIOUS
<1>5. /\ q \in Seq(Answer) /\ Len(q) = Len(r.asks) /\ Len(q) \in Nat \ {0}
      /\ (q[Len(q)] = r.asks[Len(r.asks)] \/ q[Len(q)] = a) /\ r.asks # <<>> /\ q # <<>>
  <2>1. r.asks \in Seq(Answer) /\ i \in DOMAIN r.asks
    BY <1>1, <1>3 DEF Screen
  <2> QED
    BY <1>4, <2>1
<1>6. PICK t : t = [r EXCEPT !.asks = q]
  OBVIOUS
<1>7. t \in Screen /\ t.pc = r.pc /\ t.sub = r.sub /\ t.asks = q /\ t.lost = r.lost
  BY <1>5, <1>6 DEF Screen
<1>8. ScreenAt(c, t)
  BY <1>1, <1>3, <1>4, <1>6 DEF ScreenAt, BenchInv, BenchTyped
<1>9. ASSUME NEW p \in Contributors, Knows(r, p) PROVE Knows(t, p)
  BY <1>3, <1>5, <1>7, <1>9 DEF Latest, Knows
<1>10. up /\ t.pc = "on" /\ ~t.lost =>
              Heard(t.sub) \/ \A p \in Contributors \ unannounced : Knows(t, p)
  BY <1>3, <1>7, <1>9 DEF BenchInv, BenchTold, Counts, Fresh
<1>11. r.pc # "on" => r.lost
  BY <1>3 DEF BenchInv, BenchSubs
<1> QED
  BY <1>2, <1>3, <1>7, <1>8, <1>10, <1>11, ScreenOnlyStep

\* The list of the requests of a client without the one that is answered.
Others(v, i) == SubSeq(v, 1, i - 1) \o SubSeq(v, i + 1, Len(v))
LEMMA OthersOf ==
    ASSUME NEW v \in Seq(Answer), NEW i \in DOMAIN v
    PROVE  /\ Others(v, i) \in Seq(Answer)
           /\ i = 1 => /\ Len(Others(v, i)) = Len(v) - 1
                       /\ \A k \in 1..Len(v) - 1 : Others(v, i)[k] = v[k + 1]
<1>1. PICK n \in Nat : n = Len(v) /\ i \in 1..n /\ DOMAIN v = 1..n
  OBVIOUS
<1>2. PICK x, y : x = SubSeq(v, 1, i - 1) /\ y = SubSeq(v, i + 1, n)
  OBVIOUS
<1>3. x \in Seq(Answer) /\ y \in Seq(Answer)
  BY <1>1, <1>2
<1>4. i = 1 => Len(x) = 0
  BY <1>1, <1>2
<1>5. Len(y) = n - i /\ \A k \in 1..n - i : y[k] = v[k + i]
  BY <1>1, <1>2
<1>6. Others(v, i) = x \o y
  BY <1>1, <1>2 DEF Others
<1>7. (x \o y) \in Seq(Answer)
  BY <1>3
<1>8. i = 1 => x \o y = y
  BY <1>3, <1>4
<1> QED
  BY <1>1, <1>5, <1>6, <1>7, <1>8

LEMMA ApplyStep ==
    ASSUME BenchInv, NEW c \in Clients, Bench!Apply(c)
    PROVE  BenchInv'
<1>1. PICK r \in Screen : r = client[c] /\ r.asks \in Seq(Answer)
  BY DEF BenchInv, BenchTyped, Screen
<1>2. PICK i \in DOMAIN r.asks, ok \in BOOLEAN :
        /\ r.asks[i] # None
        /\ client' = [client EXCEPT ![c].view = IF ok THEN r.asks[i] ELSE @,
                   ![c].asks = SubSeq(@, 1, i - 1) \o SubSeq(@, i + 1, Len(@)),
                   ![c].lost = @ \/ i > 1 \/ ~ok]
  BY <1>1 DEF Bench!Apply
<1>3. UNCHANGED <<registry, job, up, unannounced, subs>>
  BY DEF Bench!Apply
<1>4. PICK q : q = Others(r.asks, i)
  OBVIOUS
<1>5. q \in Seq(Answer) /\ (i = 1 => /\ Len(q) = Len(r.asks) - 1
                                    /\ \A k \in 1..Len(r.asks) - 1 : q[k] = r.asks[k + 1])
  BY <1>1, <1>4, OthersOf
<1>6. PICK view \in SUBSET Contributors : view = IF ok THEN r.asks[i] ELSE r.view
  <2>1. r.asks[i] \in SUBSET Contributors
    BY <1>1, <1>2 DEF Answer
  <2> QED
    BY <2>1 DEF Screen
<1>7. PICK lost \in BOOLEAN : lost <=> (r.lost \/ i > 1 \/ ~ok)
  OBVIOUS
<1>8. PICK t : t = [r EXCEPT !.view = view, !.asks = q, !.lost = lost]
  OBVIOUS
<1>9. t \in Screen /\ t.pc = r.pc /\ t.sub = r.sub /\ t.asks = q /\ t.view = view /\ t.lost = lost
  BY <1>5, <1>6, <1>8 DEF Screen
<1>10. ScreenAt(c, t)
  <2>1. (r.lost \/ i > 1 \/ ~ok) \in BOOLEAN
    OBVIOUS
  <2>2. lost = (r.lost \/ i > 1 \/ ~ok)
    BY <1>7, <2>1
  <2>3. client' = [client EXCEPT ![c].view = view, ![c].asks = q, ![c].lost = lost]
    BY <1>1, <1>2, <1>4, <1>6, <2>2 DEF Others, BenchInv, BenchTyped
  <2> QED
    BY <1>1, <1>8, <2>3 DEF ScreenAt, BenchInv, BenchTyped
<1>11. ASSUME ~lost, NEW p \in Contributors, Latest(r, p) PROVE Latest(t, p)
  <2>2. PICK n \in Nat \ {0} : n = Len(r.asks) /\ DOMAIN r.asks = 1..n /\ i \in 1..n
    BY <1>1, <1>2
  <2>3. i = 1 /\ ok
    BY <1>7, <1>11, <2>2
  <2>4. r.asks # <<>> /\ (r.asks[n] = None \/ (p \in r.asks[n] <=> p \in registry))
    BY <1>1, <1>11, <2>2 DEF Latest
  <2>5. CASE n = 1
    <3>1. q = <<>> /\ view = r.asks[1]
      BY <1>5, <1>6, <2>2, <2>3, <2>5
    <3>2. p \in r.asks[1] <=> p \in registry
      BY <1>2, <2>3, <2>4, <2>5
    <3> QED
      BY <1>9, <3>1, <3>2 DEF Latest
  <2>6. CASE n > 1
    <3>1. Len(q) = n - 1 /\ n - 1 \in 1..n - 1 /\ (n - 1) + 1 = n
      BY <1>5, <2>2, <2>3, <2>6
    <3>2. q # <<>> /\ q[Len(q)] = r.asks[n]
      BY <1>5, <2>2, <2>3, <3>1
    <3> QED
      BY <1>9, <2>4, <3>2 DEF Latest
  <2> QED
    BY <2>5, <2>6
<1>12. up /\ t.pc = "on" /\ ~t.lost =>
              Heard(t.sub) \/ \A p \in Contributors \ unannounced : Knows(t, p)
  <2>1. ~lost => ~r.lost
    BY <1>7
  <2>2. ASSUME ~lost, NEW p \in Contributors, Knows(r, p) PROVE Knows(t, p)
    BY <1>9, <1>11, <2>2 DEF Knows
  <2> QED
    BY <1>1, <1>9, <2>1, <2>2 DEF BenchInv, BenchTold, Counts, Fresh
<1>13. r.pc # "on" => lost
  BY <1>1, <1>7 DEF BenchInv, BenchSubs
<1> QED
  BY <1>1, <1>3, <1>9, <1>10, <1>12, <1>13, ScreenOnlyStep

LEMMA ReceiveStep ==
    ASSUME BenchInv, NEW c \in Clients, Bench!Receive(c)
    PROVE  BenchInv'
<1>1. PICK s \in 1..Len(subs), b \in Subscription :
        s = client[c].sub /\ b = subs[s] /\ client[c].pc = "on" /\ b.queue # <<>> /\ b.live
  BY DEF Bench!Receive, BenchInv, BenchSubs, BenchTyped
<1>2. PICK q, e : q = Tail(b.queue) /\ e = Head(b.queue)
  OBVIOUS
<1>3. /\ q \in Seq(Bench!Events) /\ e \in Bench!Events
      /\ \A i \in DOMAIN b.queue : b.queue[i] = e \/ \E k \in DOMAIN q : q[k] = b.queue[i]
  <2>1. PICK v \in Seq(Bench!Events) : v = b.queue /\ v # <<>>
    BY <1>1 DEF Subscription
  <2>2. /\ Tail(v) \in Seq(Bench!Events) /\ Head(v) \in Bench!Events
        /\ \A i \in DOMAIN v : v[i] = Head(v) \/ \E j \in DOMAIN Tail(v) : Tail(v)[j] = v[i]
    BY <2>1, ChannelTail
  <2> QED
    BY <1>2, <2>1, <2>2
<1>4. PICK d : d = [b EXCEPT !.queue = q]
  OBVIOUS
<1>5. d \in Subscription /\ d.queue = q /\ d.live
  BY <1>1, <1>3, <1>4 DEF Subscription
<1>6. subs' = [subs EXCEPT ![s] = d] /\ UNCHANGED <<registry, job, up, unannounced>>
  <2>1. subs' = [subs EXCEPT ![client[c].sub].queue = Tail(@)] /\ UNCHANGED <<registry, job, up, unannounced>>
    BY DEF Bench!Receive
  <2> QED
    BY <1>1, <1>2, <1>4, <2>1
<1>7. /\ subs' \in Seq(Subscription) /\ Len(subs') = Len(subs) /\ Len(subs) \in Nat
      /\ subs'[s] = d /\ \A k \in 1..Len(subs) : k # s => subs'[k] = subs[k]
  BY <1>5, <1>6 DEF BenchInv, BenchTyped
<1>8. PICK r \in Screen : r = client[c]
  BY DEF BenchInv, BenchTyped
<1>9. PICK t : t = Bench!OnEvent(r, e)
  OBVIOUS
<1>10. ScreenAt(c, t)
  <2>1. client' = [client EXCEPT ![c] = Bench!OnEvent(@, Head(subs[client[c].sub].queue))]
    BY DEF Bench!Receive
  <2> QED
    BY <1>1, <1>2, <1>8, <1>9, <2>1 DEF ScreenAt, BenchInv, BenchTyped
<1>11. /\ t \in Screen /\ t.pc = "on" /\ t.sub = s /\ t.lost = r.lost
       /\ e = "contributionsChanged" => \A p \in Contributors : Latest(t, p)
       /\ \A p \in Contributors : Latest(r, p) => Latest(t, p)
  <2>1. CASE e = "contributionsChanged"
    <3>1. PICK a : a = Append(r.asks, None)
      OBVIOUS
    <3>2. a \in Seq(Answer) /\ a # <<>> /\ a[Len(a)] = None
      <4>1. r.asks \in Seq(Answer) /\ None \in Answer
        BY DEF Screen, Answer
      <4> QED
        BY <3>1, <4>1
    <3>3. t = [r EXCEPT !.asks = a]
      BY <1>9, <2>1, <3>1 DEF Bench!OnEvent
    <3>4. t \in Screen /\ t.pc = r.pc /\ t.sub = r.sub /\ t.lost = r.lost /\ t.asks = a
      BY <3>2, <3>3 DEF Screen
    <3> QED
      BY <1>1, <1>8, <3>2, <3>4 DEF Latest
  <2>2. CASE e = "revocation"
    <3>1. PICK listed \in SUBSET Contributors : listed = registry
      BY DEF BenchInv, BenchTyped
    <3>2. t = [r EXCEPT !.listed = listed]
      BY <1>9, <2>2, <3>1 DEF Bench!OnEvent
    <3>3. t \in Screen /\ t.pc = r.pc /\ t.sub = r.sub /\ t.lost = r.lost /\ t.asks = r.asks /\ t.view = r.view
      BY <3>2 DEF Screen
    <3> QED
      BY <1>1, <1>8, <2>2, <3>3 DEF Latest
  <2>3. CASE e = "showMessage"
    <3>1. t = r
      BY <1>9, <2>3 DEF Bench!OnEvent
    <3> QED
      BY <1>1, <1>8, <2>3, <3>1 DEF Latest
  <2> QED
    BY <1>3, <2>1, <2>2, <2>3 DEF Bench!Events
<1>12. \A v \in Clients \ {c} : client[v].pc # "off" =>
         client[v].sub # t.sub /\ subs'[client[v].sub] = subs[client[v].sub]
  BY <1>1, <1>7, <1>11 DEF BenchInv, BenchSubs
<1>13. up /\ ~t.lost => Heard(t.sub)' \/ \A p \in Contributors \ unannounced : Knows(t, p)
  <2>0. r.sub = s /\ \A p \in Contributors : Knows(r, p) => Knows(t, p)
    BY <1>1, <1>8, <1>11 DEF Knows
  <2>1. SUFFICES ASSUME up, ~r.lost, Heard(s), \E p \in Contributors : ~Knows(t, p) PROVE Heard(s)'
    BY <1>1, <1>8, <1>11, <2>0 DEF BenchInv, BenchTold, Counts, Fresh
  <2>2. e # "contributionsChanged"
    BY <1>11, <2>1 DEF Knows
  <2>3. \E k \in DOMAIN q : q[k] = "contributionsChanged"
    BY <1>1, <1>3, <2>1, <2>2 DEF Heard
  <2>4. subs'[s].queue = q
    BY <1>5, <1>7
  <2> QED
    BY <2>3, <2>4 DEF Heard
<1>14. t.sub \in 1..Len(subs') /\ subs'[t.sub].live /\ Len(subs') >= Len(subs)
  BY <1>1, <1>5, <1>7, <1>11
<1> QED
  BY <1>6, <1>7, <1>10, <1>11, <1>12, <1>13, <1>14, ScreenStep

LEMMA UnsubscribeStep ==
    ASSUME BenchInv, NEW c \in Clients, Bench!Unsubscribe(c)
    PROVE  BenchInv'
<1>1. PICK s \in 1..Len(subs), b \in Subscription :
        s = client[c].sub /\ b = subs[s] /\ client[c].pc \in {"leaving", "closing"} /\ client[c].lost
  BY DEF Bench!Unsubscribe, BenchInv, BenchSubs, BenchTyped
<1>2. PICK r \in Screen : r = client[c]
  BY DEF BenchInv, BenchTyped
<1>3. UNCHANGED <<registry, job, up, unannounced>>
  BY DEF Bench!Unsubscribe
<1>4. PICK d \in Subscription, t \in Screen :
        /\ subs' = [subs EXCEPT ![s] = d] /\ ScreenAt(c, t)
        /\ t.pc \in {"off", "closing"} /\ t.lost /\ (t.pc = "closing" => t.sub = s)
  <2>1. CASE /\ subs' = [subs EXCEPT ![client[c].sub].live = FALSE]
             /\ client' = [client EXCEPT ![c].pc = "closing"]
    <3>1. PICK d, t : d = [b EXCEPT !.live = FALSE] /\ t = [r EXCEPT !.pc = "closing"]
      OBVIOUS
    <3>2. d \in Subscription /\ t \in Screen /\ t.pc = "closing" /\ t.lost /\ t.sub = s
      BY <1>1, <1>2, <3>1 DEF Subscription, Screen
    <3>3. subs' = [subs EXCEPT ![s] = d] /\ ScreenAt(c, t)
      BY <1>1, <1>2, <2>1, <3>1 DEF ScreenAt
    <3> QED
      BY <3>2, <3>3
  <2>2. CASE /\ subs' = [subs EXCEPT ![client[c].sub].open = FALSE]
             /\ client' = [client EXCEPT ![c].pc = "off", ![c].sub = 0]
    <3>1. PICK d, t : d = [b EXCEPT !.open = FALSE] /\ t = [r EXCEPT !.pc = "off", !.sub = 0]
      OBVIOUS
    <3>2. d \in Subscription /\ t \in Screen /\ t.pc = "off" /\ t.lost
      BY <1>1, <1>2, <3>1 DEF Subscription, Screen
    <3>3. subs' = [subs EXCEPT ![s] = d] /\ ScreenAt(c, t)
      BY <1>1, <1>2, <2>2, <3>1 DEF ScreenAt, BenchInv, BenchTyped
    <3> QED
      BY <3>2, <3>3
  <2> QED
    BY <2>1, <2>2 DEF Bench!Unsubscribe
<1>5. /\ subs' \in Seq(Subscription) /\ Len(subs') = Len(subs) /\ Len(subs) \in Nat
      /\ \A k \in 1..Len(subs) : k # s => subs'[k] = subs[k]
  BY <1>4 DEF BenchInv, BenchTyped
<1>6. \A v \in Clients \ {c} : client[v].pc # "off" =>
        client[v].sub # s /\ subs'[client[v].sub] = subs[client[v].sub]
  BY <1>1, <1>5 DEF BenchInv, BenchSubs
<1>7. Len(subs') >= Len(subs) /\ s \in 1..Len(subs')
  BY <1>5
<1> QED
  BY <1>3, <1>4, <1>5, <1>6, <1>7, ScreenStep

LEMMA BenchStep ==
    ASSUME BenchInv, Bench!Next \/ UNCHANGED Bench!vars
    PROVE  BenchInv'
<1>1. ASSUME NEW w \in Writers,
             \/ Bench!Install(w) \/ Bench!Uninstall(w) \/ Bench!RegisterProvider(w)
             \/ Bench!DeleteProvider(w) \/ Bench!Message(w) \/ Bench!Revoke(w) \/ Bench!Change(w) \/ Bench!Publish(w) \/ Bench!Offer(w) \/ Bench!DropOldest(w)
             \/ Bench!OfferAgain(w) \/ Bench!Published(w)
      PROVE  BenchInv'
  BY <1>1, BeginsStep, ChangeStep, PublishStep, OfferStep, DropStep, RetryStep, PublishedStep
<1>2. ASSUME NEW c \in Clients,
             \/ Bench!Subscribe(c) \/ Bench!Refresh(c) \/ Bench!Receive(c) \/ Bench!Flatten(c)
             \/ Bench!Apply(c) \/ Bench!Leave(c) \/ Bench!Unsubscribe(c)
      PROVE  BenchInv'
  BY <1>2, SubscribeStep, RefreshStep, ReceiveStep, FlattenStep, ApplyStep, LeaveStep, UnsubscribeStep
<1>3. ASSUME UNCHANGED <<registry, subs, job, client, up, unannounced>> PROVE BenchInv'
  BY <1>3 DEF BenchInv, BenchTyped, BenchSubs, BenchTold, Counts, Fresh, Heard, Knows, Latest, Bench!Coming
<1>4. CASE \/ Bench!Invoke \/ Bench!Dispatch \/ Bench!HostAnswers \/ Bench!Fork \/ Bench!Exit
           \/ Bench!ExecTimeout \/ Bench!ExecReturns \/ UNCHANGED Bench!vars
  <2>1. UNCHANGED <<registry, subs, job, client, up, unannounced>>
    BY <1>4 DEF Bench!Invoke, Bench!Dispatch, Bench!HostAnswers, Bench!Fork, Bench!Exit, Bench!ExecTimeout,
                Bench!ExecReturns, Bench!vars
  <2> QED
    BY <1>3, <2>1
<1> QED
  BY <1>1, <1>2, <1>4 DEF Bench!Next

\* Of every plugin whose last change was announced, a client that has lost no word shows what
\* the registry holds, or asks for it, or is about to be told, for any number of clients, plugins
\* and writers and channels of any size (plugin/contributions/registry.go,
\* gateway/workbench_stream.go:54-110).  Not announced are POST and DELETE /api/providers, an
\* Uninstall that fails after its removal and an announcement that panics.
LEMMA BenchFresh ==
    ASSUME BenchInv
    PROVE  Bench!ClientsFresh
<1> SUFFICES ASSUME NEW c \in Clients, Counts(c)
             PROVE  \/ client[c].view \ unannounced = registry \ unannounced /\ client[c].asks = <<>>
                    \/ \E i \in DOMAIN client[c].asks :
                          \/ client[c].asks[i] = None
                          \/ client[c].asks[i] \ unannounced = registry \ unannounced
                    \/ Heard(client[c].sub)
                    \/ \E w \in Writers : Bench!Coming(w, client[c].sub)
  BY DEF Bench!ClientsFresh, Bench!Announced, Counts, Heard
<1>1. PICK s \in Screen, q \in Seq(Answer) : s = client[c] /\ q = s.asks
  BY DEF BenchInv, BenchTyped, Screen
<1>2. Heard(s.sub) \/ \A p \in Contributors \ unannounced : Knows(s, p)
  BY <1>1 DEF BenchInv, BenchTold, Fresh
<1>3. CASE \A p \in Contributors \ unannounced : Latest(s, p)
  <2>1. registry \subseteq Contributors /\ s.view \subseteq Contributors
    BY DEF BenchInv, BenchTyped, Screen
  <2>2. CASE q = <<>>
    <3>1. \A p \in Contributors \ unannounced : p \in s.view <=> p \in registry
      BY <1>1, <1>3, <2>2 DEF Latest
    <3>2. s.view \ unannounced = registry \ unannounced
      BY <2>1, <3>1
    <3> QED
      BY <1>1, <2>2, <3>2
  <2>3. CASE q # <<>>
    <3>1. PICK n \in DOMAIN q : n = Len(q)
      BY <2>3
    <3>2. q[n] \in Answer
      BY <3>1
    <3>3. q[n] = None \/ q[n] \subseteq Contributors
      BY <3>2 DEF Answer
    <3>4. q[n] = None \/ \A p \in Contributors \ unannounced : p \in q[n] <=> p \in registry
      BY <1>1, <1>3, <2>3, <3>1 DEF Latest
    <3>5. q[n] = None \/ q[n] \ unannounced = registry \ unannounced
      BY <2>1, <3>3, <3>4
    <3> QED
      BY <1>1, <3>1, <3>5
  <2> QED
    BY <2>2, <2>3
<1> QED
  BY <1>1, <1>2, <1>3 DEF Knows

THEOREM ClientsFreshHolds == Spec => []ClientsFresh
<1> DEFINE Inv == lane = "Bench" => BenchInv
<1>1. Init => Inv
  BY BenchInit, BenchInvInit
<1>2. Inv /\ [Next]_vars => Inv'
  <2> SUFFICES ASSUME Inv, [Next]_vars, lane' = "Bench" PROVE BenchInv'
    OBVIOUS
  <2>1. lane = "Bench" /\ (Bench!Next \/ UNCHANGED Bench!vars)
    BY BenchLane
  <2> QED
    BY <2>1, BenchStep
<1>3. Inv => ClientsFresh
  BY BenchFresh DEF ClientsFresh
<1> HIDE DEF Inv
<1> QED
  BY <1>1, <1>2, <1>3, PTL DEF Spec

-----------------------------------------------------------------------------
(* The source-control panel.                                                *)

LEMMA PanelStart ==
    ASSUME Init, lane = "Panel"
    PROVE  Panel!Init
  BY DEF Init
LEMMA PanelLane ==
    ASSUME [Next]_vars, lane' = "Panel"
    PROVE  lane = "Panel" /\ (Panel!Next \/ UNCHANGED Panel!vars)
<1>1. CASE Next
  BY <1>1 DEF Next
<1>2. CASE UNCHANGED vars
  BY <1>2 DEF vars, panelVars, Panel!vars
<1> QED
  BY <1>1, <1>2
LEMMA PanelConstants ==
    /\ MaxHead \in Nat /\ MaxEdits \in Nat /\ "forges" \notin Forges /\ "bookmarks" \notin Forges
    /\ \A list \in (SUBSET Forges) \union (SUBSET Repos) : list # None
    /\ \A s \in PanelScenarios : s.forges \subseteq Forges /\ s.repos \subseteq Repos
  BY DisplaysAssumption DEF Panel!SourceControlAssumption

\* A request and a row.
RowType(k) == IF k = "forges" THEN SUBSET Forges ELSE SUBSET Repos
Lists == Panel!OnForges \union Panel!OnSaved \union Panel!OnBookmarks
Baseline == {"snapshot", "forget", "diff"}
Query == [pc : {"idle", "look", "load", "save", "token", "undo", "droptoken", "dropsaved", "head", "upsert",
               "drop", "patch", "numstat", "ended"},
          op : Panel!Operations, f : Forges \union {None}, x : Repos \union {None},
          s : Sessions \union {None}, token : BOOLEAN, list : SUBSET (Forges \union Repos), fields : SUBSET Forges,
          sha : 0..MaxHead, patch : Int, shown : SUBSET Repos, counts : Int,
          end : {"none", "ok", "refused"}]
Copies(q) == q.pc \in {"save", "token", "undo"}
Drops(q) == q.pc \in {"droptoken", "dropsaved"}
Listed == Panel!Decoded(kv["forges"])

\* Where a request for each operation may be.
Placed(q) ==
    /\ q.op \in Panel!OnForges \union Panel!OnSaved => q.f \in Forges
    /\ q.op \notin Panel!OnForges \union {"repos"} => q.x \in Repos
    /\ q.op \in Baseline => q.s \in Sessions
    /\ q.token => q.op \in {"create", "update"}
    /\ q.pc = "load" => q.op \in Lists \union {"repos"}
    /\ q.pc = "save" => q.op \in Lists
    /\ q.pc = "token" => q.op \in {"create", "update"}
    /\ q.pc = "undo" => q.op = "create"
    /\ Drops(q) => q.op = "delete"
    /\ q.pc \in {"head", "upsert"} => q.op = "snapshot"
    /\ q.pc = "drop" => q.op = "forget"
    /\ q.pc \in {"patch", "numstat"} => q.op = "diff"
    /\ Copies(q) => q.list \in RowType(Panel!Row(q))
    /\ q.pc = "save" /\ q.op = "update" => q.f \in q.list
    /\ q.op = "create" /\ Copies(q) => q.f \notin q.list
\* What its copy has to do with the row, and a new forge with the list.
Current(q) ==
    /\ q.pc = "save" /\ Panel!Row(q) \notin contested => q.list = Panel!Decoded(kv[Panel!Row(q)])
    /\ q.pc \in {"token", "undo"} /\ q.op = "create" /\ "forges" \notin contested
         => Listed = q.list \union {q.f}
    /\ q.op = "create" /\ q.pc \in {"load", "save"} => q.f \notin Listed
\* A forge that has been named has been drawn.
Drawn(q) ==
    q.op \in Panel!OnForges /\ q.pc \notin {"idle", "ended"} =>
        q.f \in drawn /\ (Copies(q) => q.list \subseteq drawn)
\* A forge that is not saved yet is in nobody's copy.
Apart(q, o) ==
    q.op = "create" /\ o.op \in Panel!OnForges =>
        /\ q.pc \in {"load", "save"} /\ Copies(o) => q.f \notin o.list
        /\ o.op = "create" /\ q.pc \notin {"idle", "ended"} /\ o.pc \notin {"idle", "ended"} => q.f # o.f
WorldTyped ==
    /\ scenario \in PanelScenarios /\ sessions \subseteq Sessions /\ git \subseteq Repos
    /\ base \in [Sessions \X Repos -> 0..MaxHead] /\ head \in [Repos -> 0..MaxHead]
    /\ tree \in [Repos -> 0..MaxEdits]
RowsTyped(table) ==
    /\ table \in [Panel!Rows -> (SUBSET (Forges \union Repos)) \union {None}]
    /\ \A k \in Panel!Rows : table[k] \in RowType(k) \union {None}
PanelTyped ==
    /\ WorldTyped /\ RowsTyped(kv) /\ RowsTyped(ideal) /\ req \in [Procs -> Query]
    /\ {drawn, tokens, raced} \subseteq SUBSET Forges /\ contested \subseteq Panel!Rows
PanelCopies ==
    /\ \A k \in Panel!Rows \ contested : kv[k] = ideal[k]
    /\ Listed \subseteq drawn
    /\ \A p \in Procs : Placed(req[p]) /\ Current(req[p]) /\ Drawn(req[p])
    /\ \A p, o \in Procs : p # o => Apart(req[p], req[o])
\* What there is of a forge is listed, or excused, or still to be removed.
Excused(f) == f \in Listed \union raced
PanelStrays ==
    \A f \in Forges :
        /\ f \in tokens => Excused(f) \/ \E p \in Procs : req[p].pc = "droptoken" /\ req[p].f = f
        /\ kv[f] # None => Excused(f) \/ \E p \in Procs : Drops(req[p]) /\ req[p].f = f
PanelInv == PanelTyped /\ PanelCopies /\ PanelStrays

LEMMA PanelInvInit ==
    ASSUME Panel!Init
    PROVE  PanelInv
<1>1. /\ kv = [k \in Panel!Rows |-> None] /\ ideal = kv /\ req = [p \in Procs |-> Panel!Idle]
      /\ drawn = {} /\ tokens = {} /\ raced = {} /\ contested = {}
  BY DEF Panel!Init
<1>2. Panel!Idle \in Query /\ Panel!Idle.pc = "idle" /\ Panel!Idle.op = "repos" /\ Panel!Idle.token = FALSE
  BY PanelConstants DEF Panel!Idle, Query, Panel!Operations
<1>3. WorldTyped
  <2>1. 0 \in 0..MaxHead /\ 0 \in 0..MaxEdits
    BY PanelConstants
  <2> QED
    BY <2>1 DEF Panel!Init, WorldTyped
<1>4. RowsTyped(kv) /\ \A k \in Panel!Rows : kv[k] = None
  BY <1>1 DEF RowsTyped
<1>5. PanelTyped
  BY <1>1, <1>2, <1>3, <1>4 DEF PanelTyped
<1>6. Listed = {}
  BY <1>4 DEF Listed, Panel!Decoded, Panel!Rows
<1>7. PanelCopies
  BY <1>1, <1>2, <1>6 DEF PanelCopies, Placed, Current, Drawn, Apart, Copies, Drops, Panel!OnForges,
                          Panel!OnSaved, Baseline
<1>8. PanelStrays
  BY <1>1, <1>4 DEF PanelStrays, Panel!Rows
<1> QED
  BY <1>5, <1>7, <1>8 DEF PanelInv

\* ------------------------------------------------------- steps of one request
QueryAt(p, t) == req' = [req EXCEPT ![p] = t]
Fits(q) == Placed(q) /\ Current(q) /\ Drawn(q)
Alone(p, q) == \A o \in Procs \ {p} : Apart(q, req[o]) /\ Apart(req[o], q)

LEMMA QueryMoves ==
    ASSUME PanelInv, NEW p \in Procs, NEW t \in Query, QueryAt(p, t)
    PROVE  /\ req' \in [Procs -> Query] /\ req'[p] = t
           /\ \A o \in Procs \ {p} : req'[o] = req[o]
  BY DEF PanelInv, PanelTyped, QueryAt

\* The rows stay as they are.
LEMMA CopiesKept ==
    ASSUME PanelInv, NEW p \in Procs, NEW t \in Query, QueryAt(p, t), Fits(t)', Alone(p, t),
           UNCHANGED <<kv, ideal>>, drawn \subseteq drawn', contested \subseteq contested'
    PROVE  PanelCopies'
<1>1. req'[p] = t /\ \A o \in Procs \ {p} : req'[o] = req[o]
  BY QueryMoves
<1>2. Listed' = Listed
  BY DEF Listed
<1>3. ASSUME NEW o \in Procs \ {p} PROVE Fits(req[o])'
  <2>1. req'[o] = req[o] /\ Placed(req[o]) /\ Current(req[o]) /\ Drawn(req[o])
    BY <1>1 DEF PanelInv, PanelCopies
  <2>2. Placed(req'[o])
    BY <2>1
  <2>3. Current(req[o])'
    BY <1>2, <2>1 DEF Current
  <2>4. Drawn(req[o])'
    BY <2>1 DEF Drawn
  <2> QED
    BY <2>2, <2>3, <2>4 DEF Fits
<1>4. \A o \in Procs : Fits(req[o])'
  BY <1>1, <1>3
<1>5. \A o, v \in Procs : o # v => Apart(req'[o], req'[v])
  BY <1>1 DEF PanelInv, PanelCopies, Alone
<1> QED
  BY <1>2, <1>4, <1>5 DEF PanelInv, PanelCopies, Fits

\* One request goes to t, and only the world changes with it.
LEMMA RequestStep ==
    ASSUME PanelInv, NEW p \in Procs, NEW t \in Query, QueryAt(p, t), ~Drops(req[p]),
           Fits(t)', Alone(p, t), WorldTyped', UNCHANGED <<kv, ideal, tokens, raced>>,
           drawn \subseteq drawn', drawn' \subseteq Forges,
           contested \subseteq contested', contested' \subseteq Panel!Rows
    PROVE  PanelInv'
<1>1. req' \in [Procs -> Query] /\ \A o \in Procs \ {p} : req'[o] = req[o]
  BY QueryMoves
<1>2. PanelTyped'
  BY <1>1 DEF PanelInv, PanelTyped, RowsTyped
<1>3. PanelCopies'
  BY CopiesKept
<1>4. PanelStrays'
  <2>1. \A f : Excused(f) => Excused(f)'
    BY DEF Excused, Listed
  <2>2. \A o \in Procs : Drops(req[o]) \/ req[o].pc = "droptoken" => req'[o] = req[o]
    BY <1>1 DEF Drops
  <2> QED
    BY <2>1, <2>2 DEF PanelInv, PanelStrays, Drops
<1> QED
  BY <1>2, <1>3, <1>4 DEF PanelInv

\* A request that has no copy, and is over or reads on for its baseline.
Same(q, t) == t.op = q.op /\ t.f = q.f /\ t.x = q.x /\ t.s = q.s /\ t.token = q.token
LEMMA PlainStep ==
    ASSUME PanelInv, NEW p \in Procs, NEW t \in Query, QueryAt(p, t), ~Drops(req[p]),
           Same(req[p], t), t.pc = "ended" \/ (t.op \in Baseline /\ t.pc \notin {"load", "save"} /\ Placed(t)),
           WorldTyped', UNCHANGED <<kv, ideal, tokens, raced, drawn>>,
           contested \subseteq contested', contested' \subseteq Panel!Rows
    PROVE  PanelInv'
<1>1. Placed(req[p])
  BY DEF PanelInv, PanelCopies
<1>2. Placed(t)
  BY <1>1 DEF Placed, Same, Copies, Drops
<1>3. ~Copies(t) /\ ~(t.op = "create" /\ t.pc # "ended")
  BY <1>2 DEF Placed, Copies, Baseline, Panel!OnForges, Panel!OnSaved
<1>4. t.op \in Panel!OnForges => t.pc = "ended"
  BY DEF Baseline, Panel!OnForges
<1>5. Fits(t)'
  <2>1. Current(t)'
    BY <1>3 DEF Current, Copies
  <2>2. Drawn(t)'
    BY <1>4 DEF Drawn
  <2> QED
    BY <1>2, <2>1, <2>2 DEF Fits
<1>6. Alone(p, t)
  BY <1>3 DEF Alone, Apart
<1> QED
  BY <1>5, <1>6, RequestStep DEF PanelInv, PanelTyped

LEMMA EndsIn ==
    ASSUME PanelInv, NEW p \in Procs, NEW verdict \in {"ok", "refused"}, Panel!End(p, verdict)
    PROVE  \E t \in Query : QueryAt(p, t) /\ t.pc = "ended" /\ Same(req[p], t)
<1>1. PICK q \in Query : q = req[p]
  BY DEF PanelInv, PanelTyped
<1>2. PICK t : t = [q EXCEPT !.pc = "ended", !.end = verdict, !.list = {}, !.fields = {}]
  OBVIOUS
<1>3. t \in Query /\ t.pc = "ended" /\ Same(q, t)
  BY <1>2 DEF Query, Same
<1>4. QueryAt(p, t)
  BY <1>1, <1>2 DEF Panel!End, Panel!Set, QueryAt
<1> QED
  BY <1>1, <1>3, <1>4

LEMMA EndStep ==
    ASSUME PanelInv, NEW p \in Procs, NEW verdict \in {"ok", "refused"}, Panel!End(p, verdict), ~Drops(req[p]),
           WorldTyped', UNCHANGED <<kv, ideal, tokens, raced, drawn>>,
           contested \subseteq contested', contested' \subseteq Panel!Rows
    PROVE  PanelInv'
<1>1. PICK t \in Query : QueryAt(p, t) /\ t.pc = "ended" /\ Same(req[p], t)
  BY EndsIn
<1> QED
  BY <1>1, PlainStep
LEMMA WorldSame ==
    ASSUME PanelInv, UNCHANGED Panel!World
    PROVE  WorldTyped'
  BY DEF PanelInv, PanelTyped, WorldTyped, Panel!World

\* A request that reads its list.
LEMMA LookForgeStep ==
    ASSUME PanelInv, NEW p \in Procs, Panel!LookForge(p)
    PROVE  PanelInv'
<1>1. PICK q \in Query : q = req[p]
  BY DEF PanelInv, PanelTyped
<1>2. /\ q.pc = "look" /\ q.op \in Panel!OnSaved
      /\ Panel!To(p, "load") \/ Panel!End(p, "refused")
      /\ UNCHANGED <<Panel!World, drawn, Panel!Stores>>
  BY <1>1 DEF Panel!LookForge, Panel!At
<1>3. WorldTyped' /\ UNCHANGED <<kv, ideal, tokens, raced, contested, drawn>> /\ ~Drops(req[p])
  BY <1>1, <1>2, WorldSame DEF Panel!Stores, Drops
<1>4. contested' \subseteq Panel!Rows /\ drawn' \subseteq Forges
  BY <1>3 DEF PanelInv, PanelTyped
<1>5. CASE Panel!To(p, "load")
  <2>1. PICK t : t = [q EXCEPT !.pc = "load"]
    OBVIOUS
  <2>2. t \in Query /\ t.pc = "load" /\ Same(q, t)
    BY <2>1 DEF Query, Same
  <2>3. QueryAt(p, t)
    BY <1>1, <1>5, <2>1 DEF Panel!To, Panel!Set, QueryAt
  <2>4. Placed(t)
    BY <1>1, <1>2, <2>2 DEF PanelInv, PanelCopies, Placed, Same, Copies, Drops, Lists, Panel!OnSaved, Panel!OnForges
  <2>5. t.op \notin Panel!OnForges /\ ~Copies(t) /\ t.pc = "load"
    BY <1>2, <2>2 DEF Same, Copies, Panel!OnForges, Panel!OnSaved
  <2>6. Fits(t)' /\ Alone(p, t)
    BY <2>4, <2>5 DEF Fits, Current, Drawn, Copies, Alone, Apart, Panel!OnForges
  <2> QED
    BY <1>3, <1>4, <2>2, <2>3, <2>6, RequestStep
<1>6. CASE Panel!End(p, "refused")
  BY <1>3, <1>4, <1>6, EndStep
<1> QED
  BY <1>2, <1>5, <1>6

\* The copy a request goes on with is the row, or the row is contested.
LEMMA ProceedStep ==
    ASSUME PanelInv, fields \subseteq Forges, NEW p \in Procs, req[p].pc = "load", req[p].op # "repos",
           NEW k, k = Panel!Row(req[p]), NEW list \in RowType(k), Panel!Proceed(p, list),
           UNCHANGED <<Panel!World, drawn, kv, ideal, tokens, raced>>,
           contested \subseteq contested', contested' \subseteq Panel!Rows,
           k = "forges" => list = Listed,
           (req'[p].pc = "save" /\ k \notin contested') => list = Panel!Decoded(kv[k])
    PROVE  PanelInv'
<1>1. PICK q \in Query : q = req[p]
  BY DEF PanelInv, PanelTyped
<1>2. WorldTyped' /\ ~Drops(req[p]) /\ drawn' \subseteq Forges
  BY <1>1, WorldSame DEF Drops, PanelInv, PanelTyped
<1>3. Placed(q) /\ Current(q) /\ Drawn(q) /\ q.pc = "load" /\ q.op \in Lists
  BY <1>1 DEF PanelInv, PanelCopies, Placed
<1>4. CASE \E verdict \in {"ok", "refused"} : Panel!End(p, verdict)
  BY <1>2, <1>4, EndStep
<1>5. CASE /\ ~Panel!Missing(q, list)
           /\ Panel!Set(p, [q EXCEPT !.pc = "save", !.list = list,
                                     !.fields = IF q.op \in Panel!OnForges THEN fields ELSE {}])
  <2>0. PICK read \in SUBSET Forges : read = IF q.op \in Panel!OnForges THEN fields ELSE {}
    OBVIOUS
  <2>1. PICK t : t = [q EXCEPT !.pc = "save", !.list = list, !.fields = read]
    OBVIOUS
  <2>2. list \subseteq Forges \union Repos
    BY DEF RowType
  <2>3. t \in Query /\ t.pc = "save" /\ t.list = list /\ Same(q, t)
    BY <2>1, <2>2 DEF Query, Same
  <2>4. QueryAt(p, t)
    BY <1>5, <2>0, <2>1 DEF Panel!Set, QueryAt
  <2>5. req'[p] = t
    BY <2>3, <2>4, QueryMoves
  <2>6. Panel!Row(t) = k /\ (t.op \in Panel!OnForges => k = "forges")
    BY <1>1, <2>3 DEF Panel!Row, Same
  <2>7. t.op = "update" => t.f \in list
    BY <1>5, <2>3 DEF Panel!Missing, Same
  <2>8. t.op = "create" => t.f \notin Listed
    BY <1>3, <2>3 DEF Current, Same
  <2>9. t.op = "create" => t.op \in Panel!OnForges
    BY DEF Panel!OnForges
  <2>10. Placed(t)
    BY <1>3, <2>3, <2>6, <2>7, <2>8, <2>9 DEF Placed, Same, Copies, Drops
  <2>11. Current(t)'
    BY <2>3, <2>5, <2>6, <2>8 DEF Current, Listed
  <2>12. Drawn(t)'
    BY <1>3, <2>3, <2>6 DEF Drawn, Same, PanelInv, PanelCopies
  <2>13. Alone(p, t)
    <3> SUFFICES ASSUME NEW o \in Procs \ {p} PROVE Apart(t, req[o]) /\ Apart(req[o], t)
      BY DEF Alone
    <3>1. Apart(q, req[o]) /\ Apart(req[o], q) /\ Current(req[o])
      BY <1>1 DEF PanelInv, PanelCopies
    <3>2. Apart(t, req[o])
      BY <1>3, <2>3, <3>1 DEF Apart, Same
    <3>3. Apart(req[o], t)
      BY <1>3, <2>3, <2>6, <3>1 DEF Apart, Same, Current
    <3> QED
      BY <3>2, <3>3
  <2>14. Fits(t)'
    BY <2>10, <2>11, <2>12 DEF Fits
  <2> QED
    BY <1>2, <2>3, <2>4, <2>13, <2>14, RequestStep
<1> QED
  BY <1>1, <1>4, <1>5 DEF Panel!Proceed

LEMMA RowOf ==
    ASSUME PanelInv, NEW p \in Procs, req[p].op \in Lists
    PROVE  /\ Panel!Row(req[p]) \in Panel!Rows
           /\ Panel!Row(req[p]) = "forges" <=> req[p].op \in Panel!OnForges
           /\ Panel!Decoded(kv[Panel!Row(req[p])]) \in RowType(Panel!Row(req[p]))
<1>1. PICK q \in Query : q = req[p] /\ Placed(q)
  BY DEF PanelInv, PanelTyped, PanelCopies
<1>2. Panel!Row(q) \in Panel!Rows /\ (Panel!Row(q) = "forges" <=> q.op \in Panel!OnForges)
  BY <1>1, PanelConstants DEF Placed, Panel!Row, Panel!Rows, Lists
<1>3. kv[Panel!Row(q)] \in RowType(Panel!Row(q)) \union {None}
  BY <1>2 DEF PanelInv, PanelTyped, RowsTyped
<1>4. Panel!Decoded(kv[Panel!Row(q)]) \in RowType(Panel!Row(q))
  BY <1>3 DEF Panel!Decoded, RowType
<1> QED
  BY <1>1, <1>2, <1>4

LEMMA LoadStep ==
    ASSUME PanelInv, fields \subseteq Forges, NEW p \in Procs, Panel!Load(p)
    PROVE  PanelInv'
<1>1. PICK k, list : k = Panel!Row(req[p]) /\ list = Panel!Decoded(kv[k])
  OBVIOUS
<1>2. req[p].pc = "load" /\ req[p].op # "repos" /\ Panel!Proceed(p, list)
  BY <1>1 DEF Panel!Load, Panel!At
<1>3. req[p].op \in Lists
  BY <1>2 DEF PanelInv, PanelCopies, Placed
<1>4. list \in RowType(k) /\ (k = "forges" => list = Listed)
  BY <1>1, <1>3, RowOf DEF Listed
<1>5. UNCHANGED <<Panel!World, drawn, kv, ideal, tokens, raced>> /\ contested' = contested
  BY DEF Panel!Load, Panel!Stores
<1>6. contested' \subseteq Panel!Rows
  BY <1>5 DEF PanelInv, PanelTyped
<1> QED
  BY <1>1, <1>2, <1>4, <1>5, <1>6, ProceedStep

LEMMA LoadFailsStep ==
    ASSUME PanelInv, fields \subseteq Forges, NEW p \in Procs, Panel!LoadFails(p)
    PROVE  PanelInv'
<1>1. req[p].pc = "load" /\ req[p].op # "repos" /\ UNCHANGED <<Panel!World, drawn, kv, ideal, tokens, raced>>
  BY DEF Panel!LoadFails, Panel!At
<1>2. req[p].op \in Lists /\ ~Drops(req[p])
  BY <1>1 DEF PanelInv, PanelCopies, Placed, Drops
<1>3. PICK k : k = Panel!Row(req[p])
  OBVIOUS
<1>4. k \in Panel!Rows /\ (k = "forges" <=> req[p].op \in Panel!OnForges)
  BY <1>2, <1>3, RowOf
<1>5. CASE req[p].op \in Panel!OnForges
  <2>1. Panel!End(p, "refused") /\ contested' = contested /\ contested' \subseteq Panel!Rows
    BY <1>5 DEF Panel!LoadFails, PanelInv, PanelTyped
  <2>2. WorldTyped'
    BY <1>1, WorldSame
  <2> QED
    BY <1>1, <1>2, <2>1, <2>2, EndStep
<1>6. CASE req[p].op \notin Panel!OnForges
  <2>1. /\ Panel!Proceed(p, {})
        /\ contested' = contested \union (IF req'[p].pc = "save" THEN {k} ELSE {})
    BY <1>3, <1>6 DEF Panel!LoadFails
  <2>2. contested' \subseteq Panel!Rows /\ contested \subseteq contested'
    BY <1>4, <2>1 DEF PanelInv, PanelTyped
  <2>3. {} \in RowType(k) /\ k # "forges"
    BY <1>4, <1>6 DEF RowType
  <2>4. ~(req'[p].pc = "save" /\ k \notin contested')
    BY <2>1
  <2> QED
    BY <1>1, <1>3, <2>1, <2>2, <2>3, <2>4, ProceedStep
<1> QED
  BY <1>5, <1>6

\* A request that fails once it has its copy.
LEMMA FailsStep ==
    ASSUME PanelInv, NEW p \in Procs,
           \/ Panel!SaveFails(p) \/ Panel!WriteTokenFails(p) \/ Panel!UndoFails(p)
    PROVE  PanelInv'
<1>1. PICK q \in Query : q = req[p]
  BY DEF PanelInv, PanelTyped
<1>2. /\ UNCHANGED <<Panel!World, drawn, kv, ideal, tokens, raced, contested>>
      /\ q.pc \in {"save", "token", "undo"}
  BY <1>1 DEF Panel!SaveFails, Panel!WriteTokenFails, Panel!UndoFails, Panel!At, Panel!Stores
<1>3. WorldTyped' /\ ~Drops(req[p]) /\ contested' \subseteq Panel!Rows /\ drawn' \subseteq Forges
  BY <1>1, <1>2, WorldSame DEF Drops, PanelInv, PanelTyped
<1>4. CASE \E verdict \in {"ok", "refused"} : Panel!End(p, verdict)
  BY <1>2, <1>3, <1>4, EndStep
<1>5. CASE q.pc = "token" /\ q.op = "create" /\ Panel!To(p, "undo")
  <2>1. PICK t : t = [q EXCEPT !.pc = "undo"]
    OBVIOUS
  <2>2. t \in Query /\ t.pc = "undo" /\ Same(q, t) /\ t.list = q.list
    BY <2>1 DEF Query, Same
  <2>3. QueryAt(p, t)
    BY <1>1, <1>5, <2>1 DEF Panel!To, Panel!Set, QueryAt
  <2>4. Placed(q) /\ Current(q) /\ Drawn(q) /\ Alone(p, q)
    BY <1>1 DEF PanelInv, PanelCopies, Alone
  <2>5. Placed(t)
    BY <1>5, <2>2, <2>4 DEF Placed, Same, Copies, Drops, Panel!Row, Baseline
  <2>6. Current(t)'
    BY <1>2, <1>5, <2>2, <2>4 DEF Current, Same, Listed
  <2>7. Drawn(t)'
    BY <1>2, <1>5, <2>2, <2>4 DEF Drawn, Same, Copies
  <2>8. Alone(p, t)
    BY <1>5, <2>2, <2>4 DEF Alone, Apart, Same, Copies
  <2>9. Fits(t)'
    BY <2>5, <2>6, <2>7 DEF Fits
  <2> QED
    BY <1>2, <1>3, <2>2, <2>3, <2>8, <2>9, RequestStep
<1>6. \/ \E verdict \in {"ok", "refused"} : Panel!End(p, verdict)
      \/ q.pc = "token" /\ q.op = "create" /\ Panel!To(p, "undo")
  BY <1>1 DEF Panel!SaveFails, Panel!WriteTokenFails, Panel!UndoFails, Panel!At
<1> QED
  BY <1>4, <1>5, <1>6

LEMMA DiscoverStep ==
    ASSUME PanelInv, NEW p \in Procs, Panel!Discover(p)
    PROVE  PanelInv'
<1>1. PICK q \in Query : q = req[p]
  BY DEF PanelInv, PanelTyped
<1>2. UNCHANGED <<Panel!World, drawn, kv, ideal, tokens, raced, contested>> /\ q.pc = "load"
  BY <1>1 DEF Panel!Discover, Panel!At, Panel!Stores
<1>3. WorldTyped' /\ ~Drops(req[p]) /\ contested' \subseteq Panel!Rows
  BY <1>1, <1>2, WorldSame DEF Drops, PanelInv, PanelTyped
<1>4. PICK list \in {Panel!Decoded(kv["bookmarks"])} \union {s \in {{}} : Panel!Fails} :
        Panel!Set(p, [q EXCEPT !.pc = "ended", !.end = "ok", !.list = list,
                               !.shown = (git \ Deep) \union (git \intersect list)])
  BY <1>1 DEF Panel!Discover
<1>5. PICK found : found = (git \ Deep) \union (git \intersect list)
  OBVIOUS
<1>6. list \subseteq Repos /\ found \subseteq Repos
  <2>1. kv["bookmarks"] \in (SUBSET Repos) \union {None}
    BY DEF PanelInv, PanelTyped, RowsTyped, RowType, Panel!Rows
  <2>2. git \subseteq Repos
    BY DEF PanelInv, PanelTyped, WorldTyped
  <2>3. Panel!Decoded(kv["bookmarks"]) \subseteq Repos
    BY <2>1 DEF Panel!Decoded
  <2> QED
    BY <1>4, <1>5, <2>2, <2>3
<1>7. PICK t : t = [q EXCEPT !.pc = "ended", !.end = "ok", !.list = list, !.shown = found]
  OBVIOUS
<1>8. t \in Query /\ t.pc = "ended" /\ Same(q, t)
  BY <1>6, <1>7 DEF Query, Same
<1>9. QueryAt(p, t)
  BY <1>1, <1>4, <1>5, <1>7 DEF Panel!Set, QueryAt
<1> QED
  BY <1>1, <1>2, <1>3, <1>8, <1>9, PlainStep

\* A request for a baseline or a diff.
LEMMA BaselineStep ==
    ASSUME PanelInv, NEW p \in Procs,
           \/ Panel!ReadHead(p) \/ Panel!Upsert(p) \/ Panel!Forget(p)
           \/ Panel!LookBaseline(p) \/ Panel!Patch(p) \/ Panel!Numstat(p)
    PROVE  PanelInv'
<1>1. PICK q \in Query : q = req[p]
  BY DEF PanelInv, PanelTyped
<1>2. /\ Placed(q) /\ WorldTyped
      /\ UNCHANGED <<scenario, sessions, head, tree, git, drawn, kv, ideal, tokens, raced, contested>>
  BY <1>1 DEF Panel!ReadHead, Panel!Upsert, Panel!Forget, Panel!LookBaseline, Panel!Patch, Panel!Numstat,
              Panel!World, Panel!Stores, PanelInv, PanelCopies, PanelTyped
<1>3. q.pc \in {"head", "upsert", "drop", "look", "patch", "numstat"}
  BY <1>1 DEF Panel!ReadHead, Panel!Upsert, Panel!Forget, Panel!LookBaseline, Panel!Patch, Panel!Numstat,
              Panel!At
<1>4. ~Drops(req[p]) /\ contested' \subseteq Panel!Rows
  BY <1>1, <1>2, <1>3 DEF Drops, PanelInv, PanelTyped
<1>5. q.op \in Baseline /\ q.x \in Repos /\ q.s \in Sessions
  <2>1. q.pc = "look" => q.op = "diff"
    BY <1>1, <1>3 DEF Panel!ReadHead, Panel!Upsert, Panel!Forget, Panel!LookBaseline, Panel!Patch,
                      Panel!Numstat, Panel!At
  <2> QED
    BY <1>2, <1>3, <2>1 DEF Placed, Baseline, Panel!OnForges
<1>6. WorldTyped'
  <2>1. base' = base \/ \E b \in Sessions \X Repos, n \in 0..MaxHead : base' = [base EXCEPT ![b] = n]
    <3>1. q.sha \in 0..MaxHead /\ 0 \in 0..MaxHead /\ <<q.s, q.x>> \in Sessions \X Repos
      BY <1>5, PanelConstants DEF Query
    <3>2. CASE Panel!Upsert(p) \/ Panel!Forget(p)
      BY <1>1, <3>1, <3>2 DEF Panel!Upsert, Panel!Forget
    <3>3. CASE Panel!ReadHead(p) \/ Panel!LookBaseline(p) \/ Panel!Patch(p) \/ Panel!Numstat(p)
      BY <3>3 DEF Panel!ReadHead, Panel!LookBaseline, Panel!Patch, Panel!Numstat, Panel!World
    <3> QED
      BY <3>2, <3>3
  <2>2. base' \in [Sessions \X Repos -> 0..MaxHead]
    BY <1>2, <2>1 DEF WorldTyped
  <2> QED
    BY <1>2, <2>2 DEF WorldTyped
<1>7. CASE \E verdict \in {"ok", "refused"} : Panel!End(p, verdict)
  BY <1>2, <1>4, <1>6, <1>7, EndStep
<1>8. CASE \E t \in Query : QueryAt(p, t) /\ Same(q, t) /\ Placed(t)
                            /\ t.pc \in {"upsert", "patch", "numstat", "ended"}
  BY <1>1, <1>2, <1>4, <1>5, <1>6, <1>8, PlainStep DEF Same
<1>9. ASSUME NEW t \in Query, Same(q, t), t.pc = "ended" \/ (t.pc = "upsert" /\ q.pc = "head")
                                          \/ (t.pc \in {"patch", "numstat"} /\ q.op = "diff")
      PROVE  Placed(t)
  BY <1>2, <1>9 DEF Placed, Same, Copies, Drops
<1>10. ASSUME Panel!ReadHead(p), ~Panel!End(p, "refused")
       PROVE  \E t \in Query : QueryAt(p, t) /\ Same(q, t) /\ Placed(t) /\ t.pc = "upsert"
  <2>1. PICK n \in 0..MaxHead : n = head[q.x]
    BY <1>2, <1>5 DEF WorldTyped
  <2>2. PICK t : t = [q EXCEPT !.pc = "upsert", !.sha = n]
    OBVIOUS
  <2>3. t \in Query /\ Same(q, t) /\ t.pc = "upsert"
    BY <2>1, <2>2 DEF Query, Same
  <2>4. QueryAt(p, t) /\ q.pc = "head"
    BY <1>1, <1>10, <2>1, <2>2 DEF Panel!ReadHead, Panel!At, Panel!Set, QueryAt
  <2> QED
    BY <1>9, <2>3, <2>4
<1>11. ASSUME Panel!LookBaseline(p), ~Panel!End(p, "refused")
       PROVE  \E t \in Query : QueryAt(p, t) /\ Same(q, t) /\ Placed(t) /\ t.pc = "patch"
  <2>1. PICK n \in 0..MaxHead : n = base[<<q.s, q.x>>]
    BY <1>2, <1>5 DEF WorldTyped
  <2>2. PICK t : t = [q EXCEPT !.pc = "patch", !.sha = n]
    OBVIOUS
  <2>3. t \in Query /\ Same(q, t) /\ t.pc = "patch"
    BY <2>1, <2>2 DEF Query, Same
  <2>4. QueryAt(p, t) /\ q.op = "diff"
    BY <1>1, <1>11, <2>1, <2>2 DEF Panel!LookBaseline, Panel!At, Panel!Set, QueryAt
  <2> QED
    BY <1>9, <2>3, <2>4
<1>12. PICK d \in Int : d = Panel!Difference(q)
  <2>1. head[q.x] \in Int /\ q.sha \in Int /\ tree[q.x] \in Int
    BY <1>2, <1>5, PanelConstants DEF WorldTyped, Query
  <2> QED
    BY <2>1 DEF Panel!Difference
<1>13. ASSUME Panel!Patch(p), ~Panel!End(p, "refused")
       PROVE  \E t \in Query : QueryAt(p, t) /\ Same(q, t) /\ Placed(t) /\ t.pc = "numstat"
  <2>1. PICK t : t = [q EXCEPT !.pc = "numstat", !.patch = d]
    OBVIOUS
  <2>2. t \in Query /\ Same(q, t) /\ t.pc = "numstat"
    BY <2>1 DEF Query, Same
  <2>3. QueryAt(p, t) /\ q.op = "diff"
    BY <1>1, <1>2, <1>12, <1>13, <2>1 DEF Panel!Patch, Panel!At, Panel!Set, QueryAt, Placed
  <2> QED
    BY <1>9, <2>2, <2>3
<1>14. ASSUME Panel!Numstat(p), ~Panel!End(p, "refused")
       PROVE  \E t \in Query : QueryAt(p, t) /\ Same(q, t) /\ Placed(t) /\ t.pc = "ended"
  <2>1. PICK t : t = [q EXCEPT !.pc = "ended", !.end = "ok", !.counts = d]
    OBVIOUS
  <2>2. t \in Query /\ Same(q, t) /\ t.pc = "ended"
    BY <2>1 DEF Query, Same
  <2>3. QueryAt(p, t)
    BY <1>1, <1>12, <1>14, <2>1 DEF Panel!Numstat, Panel!Set, QueryAt
  <2> QED
    BY <1>9, <2>2, <2>3
<1>15. Panel!Upsert(p) \/ Panel!Forget(p) => \E verdict \in {"ok", "refused"} : Panel!End(p, verdict)
  BY <1>1 DEF Panel!Upsert, Panel!Forget
<1> QED
  BY <1>7, <1>8, <1>10, <1>11, <1>13, <1>14, <1>15

\* A request arrives.
LEMMA BeginQuery ==
    ASSUME PanelInv, NEW p \in Procs, NEW op \in Panel!Operations, NEW f \in Forges \union {None},
           NEW x \in Repos \union {None}, NEW s \in Sessions \union {None}, NEW b \in BOOLEAN,
           op \in Panel!OnForges \union Panel!OnSaved => f \in Forges,
           op \notin Panel!OnForges \union {"repos"} => x \in Repos,
           op \in Baseline => s \in Sessions, b => op \in {"create", "update"},
           Panel!Begin(p, op, f, x, s, b)
    PROVE  PanelInv'
<1>1. PICK to : to = CASE op \in Panel!OnSaved -> "look" [] op = "snapshot" -> "head"
                       [] op = "forget" -> "drop" [] op = "diff" -> "look" [] OTHER -> "load"
  OBVIOUS
<1>2. /\ to \in {"look", "head", "drop", "load"} /\ (to = "head" => op = "snapshot")
      /\ (to = "drop" => op = "forget") /\ (to = "load" => op \in Lists \union {"repos"})
      /\ (op = "create" => to = "load")
  BY <1>1 DEF Lists, Panel!Operations, Panel!OnForges, Panel!OnSaved, Panel!OnBookmarks
<1>3. PICK q : q = Panel!Idle
  OBVIOUS
<1>4. q \in Query
  BY <1>3, PanelConstants DEF Panel!Idle, Query, Panel!Operations
<1>5. PICK t : t = [q EXCEPT !.op = op, !.f = f, !.x = x, !.s = s, !.token = b, !.pc = to]
  OBVIOUS
<1>6. /\ t \in Query /\ t.op = op /\ t.f = f /\ t.x = x /\ t.s = s /\ t.token = b /\ t.pc = to
  BY <1>2, <1>4, <1>5 DEF Query
<1>7. /\ QueryAt(p, t) /\ req[p].pc \in {"idle", "ended"}
      /\ op \in Panel!OnForges => (op = "create" <=> f \notin drawn)
      /\ drawn' = IF op = "create" THEN drawn \union {f} ELSE drawn
      /\ UNCHANGED <<Panel!World, Panel!Stores>>
  BY <1>1, <1>3, <1>5 DEF Panel!Begin, Panel!Set, QueryAt
<1>8. /\ UNCHANGED <<kv, ideal, tokens, raced, contested>> /\ WorldTyped' /\ contested' \subseteq Panel!Rows
      /\ drawn \subseteq drawn' /\ drawn' \subseteq Forges /\ ~Drops(req[p])
  BY <1>7, WorldSame DEF Panel!Stores, PanelInv, PanelTyped, Drops, Panel!OnForges
<1>9. ~Copies(t)
  BY <1>2, <1>6 DEF Copies
<1>10. Placed(t)
  BY <1>2, <1>6, <1>9 DEF Placed, Drops
<1>11. Current(t)'
  BY <1>2, <1>6, <1>7, <1>8, <1>9 DEF Current, Copies, Listed, PanelInv, PanelCopies, Panel!OnForges
<1>12. Drawn(t)'
  BY <1>6, <1>7, <1>9 DEF Drawn
<1>13. Alone(p, t)
  <2> SUFFICES ASSUME NEW o \in Procs \ {p} PROVE Apart(t, req[o]) /\ Apart(req[o], t)
    BY DEF Alone
  <2>1. Drawn(req[o])
    BY DEF PanelInv, PanelCopies
  <2>2. Apart(t, req[o])
    BY <1>6, <1>7, <2>1 DEF Apart, Drawn, Copies, Panel!OnForges
  <2>3. Apart(req[o], t)
    BY <1>6, <1>7, <1>9, <2>1 DEF Apart, Drawn, Panel!OnForges
  <2> QED
    BY <2>2, <2>3
<1>14. Fits(t)'
  BY <1>10, <1>11, <1>12 DEF Fits
<1> QED
  BY <1>6, <1>7, <1>8, <1>13, <1>14, RequestStep

LEMMA ArrivalStep ==
    ASSUME PanelInv, NEW p \in Procs, Panel!Request(p)
    PROVE  PanelInv'
<1>1. scenario.forges \subseteq Forges /\ scenario.repos \subseteq Repos /\ drawn \subseteq Forges
  BY PanelConstants DEF PanelInv, PanelTyped, WorldTyped
<1>2. CASE \E op \in scenario.does \intersect Panel!OnForges, f \in scenario.forges, b \in BOOLEAN :
             Panel!Begin(p, op, f, None, None, b /\ op # "delete")
  <2>1. PICK op \in Panel!OnForges, f \in Forges, b, d \in BOOLEAN :
          Panel!Begin(p, op, f, None, None, d) /\ d = (b /\ op # "delete")
    BY <1>1, <1>2
  <2>2. op \in Panel!Operations /\ op \notin Baseline /\ (d => op \in {"create", "update"})
    BY <2>1 DEF Panel!Operations, Panel!OnForges, Baseline
  <2> QED
    BY <2>1, <2>2, BeginQuery
<1>3. CASE \E op \in scenario.does \intersect Panel!OnSaved, f \in drawn, x \in scenario.repos :
             Panel!Begin(p, op, f, x, None, FALSE)
  <2>1. PICK op \in Panel!OnSaved, f \in Forges, x \in Repos : Panel!Begin(p, op, f, x, None, FALSE)
    BY <1>1, <1>3
  <2>2. op \in Panel!Operations /\ op \notin Baseline
    BY <2>1 DEF Panel!Operations, Panel!OnSaved, Baseline
  <2> QED
    BY <2>1, <2>2, BeginQuery
<1>4. CASE \E op \in scenario.does \intersect Panel!OnBookmarks, x \in scenario.repos :
             Panel!Begin(p, op, None, x, None, FALSE)
  <2>1. PICK op \in Panel!OnBookmarks, x \in Repos : Panel!Begin(p, op, None, x, None, FALSE)
    BY <1>1, <1>4
  <2>2. op \in Panel!Operations /\ op \notin Baseline /\ op \notin Panel!OnForges \union Panel!OnSaved
    BY <2>1 DEF Panel!Operations, Panel!OnBookmarks, Panel!OnForges, Panel!OnSaved, Baseline
  <2> QED
    BY <2>1, <2>2, BeginQuery
<1>5. CASE Panel!Begin(p, "repos", None, None, None, FALSE)
  <2>1. "repos" \in Panel!Operations /\ "repos" \notin Baseline \union Panel!OnForges \union Panel!OnSaved
    BY DEF Panel!Operations, Panel!OnForges, Panel!OnSaved, Baseline
  <2> QED
    BY <1>5, <2>1, BeginQuery
<1>6. CASE \E op \in scenario.does \intersect Baseline, x \in scenario.repos, s \in Sessions :
             Panel!Begin(p, op, None, x, s, FALSE)
  <2>1. PICK op \in Baseline, x \in Repos, s \in Sessions : Panel!Begin(p, op, None, x, s, FALSE)
    BY <1>1, <1>6
  <2>2. op \in Panel!Operations /\ op \notin Panel!OnForges \union Panel!OnSaved
    BY <2>1 DEF Panel!Operations, Panel!OnForges, Panel!OnSaved, Baseline
  <2> QED
    BY <2>1, <2>2, BeginQuery
<1> QED
  BY <1>2, <1>3, <1>4, <1>5, <1>6 DEF Panel!Request, Baseline

\* ------------------------------------------------------- steps that write a row
\* Row k becomes list, and the request goes to t.
LEMMA PutStep ==
    ASSUME PanelInv, NEW p \in Procs, NEW t \in Query, QueryAt(p, t), NEW k \in Panel!Rows,
           NEW list \in RowType(k) \union {None}, NEW want \in RowType(k) \union {None},
           Panel!Put(p, k, list), ideal' = [ideal EXCEPT ![k] = want],
           k \notin contested /\ ~Panel!Rival(p, k) => list = want,
           k = "forges" => /\ Panel!Decoded(list) \subseteq drawn
                           /\ \A o \in Procs \ {p} : req[o].op = "create" /\ req[o].pc \in {"load", "save"}
                                                     => req[o].f \notin Panel!Decoded(list),
           Fits(t)', Alone(p, t), UNCHANGED <<Panel!World, drawn, tokens>>, raced' \subseteq Forges
    PROVE  /\ PanelTyped' /\ PanelCopies' /\ kv'[k] = list
           /\ \A j \in Panel!Rows \ {k} : kv'[j] = kv[j]
           /\ \A o \in Procs \ {p} : req'[o] = req[o]
<1>1. /\ req' \in [Procs -> Query] /\ req'[p] = t /\ \A o \in Procs \ {p} : req'[o] = req[o]
  BY QueryMoves
<1>2. /\ kv' = [kv EXCEPT ![k] = list] /\ RowsTyped(kv) /\ RowsTyped(ideal) /\ drawn' = drawn
      /\ contested' = IF Panel!Rival(p, k) THEN contested \union {k} ELSE contested
  BY DEF Panel!Put, PanelInv, PanelTyped
<1>3. list \in (SUBSET (Forges \union Repos)) \union {None} /\ want \in (SUBSET (Forges \union Repos)) \union {None}
  BY DEF RowType
<1>4. /\ kv' \in [Panel!Rows -> (SUBSET (Forges \union Repos)) \union {None}]
      /\ kv'[k] = list /\ \A j \in Panel!Rows \ {k} : kv'[j] = kv[j]
  BY <1>2, <1>3 DEF RowsTyped
<1>5. /\ ideal' \in [Panel!Rows -> (SUBSET (Forges \union Repos)) \union {None}]
      /\ ideal'[k] = want /\ \A j \in Panel!Rows \ {k} : ideal'[j] = ideal[j]
  BY <1>2, <1>3 DEF RowsTyped
<1>6. PanelTyped'
  <2>1. RowsTyped(kv') /\ RowsTyped(ideal')
    BY <1>2, <1>4, <1>5 DEF RowsTyped
  <2>2. WorldTyped' /\ contested' \subseteq Panel!Rows /\ {drawn', tokens', raced'} \subseteq SUBSET Forges
    BY <1>2, WorldSame DEF PanelInv, PanelTyped
  <2> QED
    BY <1>1, <2>1, <2>2 DEF PanelTyped, RowsTyped
<1>7. \A j \in Panel!Rows \ contested' : kv'[j] = ideal'[j]
  BY <1>2, <1>4, <1>5 DEF PanelInv, PanelCopies
<1>8. IF k = "forges" THEN Listed' = Panel!Decoded(list) ELSE Listed' = Listed
  BY <1>4 DEF Listed, Panel!Rows
<1>9. Listed' \subseteq drawn'
  BY <1>2, <1>8 DEF PanelInv, PanelCopies
<1>10. ASSUME NEW o \in Procs \ {p} PROVE Fits(req[o])'
  <2>1. PICK q \in Query : q = req[o]
    BY DEF PanelInv, PanelTyped
  <2>2. Placed(q) /\ Current(q) /\ Drawn(q) /\ req'[o] = q
    BY <1>1, <2>1 DEF PanelInv, PanelCopies
  <2>3. Copies(q) /\ Panel!Row(q) = k => Panel!Rival(p, k)
    BY <2>1 DEF Panel!Rival, Copies
  <2>4. Drawn(q)'
    BY <1>2, <2>2 DEF Drawn
  <2>5. Current(q)'
    <3>1. q.pc = "save" => Panel!Row(q) \in Panel!Rows
      BY <2>1, <2>2, RowOf DEF Placed
    <3>2. q.pc = "save" /\ Panel!Row(q) \notin contested' => q.list = Panel!Decoded(kv'[Panel!Row(q)])
      BY <1>2, <1>4, <2>2, <2>3, <3>1 DEF Current, Copies
    <3>3. q.op = "create" => Panel!Row(q) = "forges"
      BY DEF Panel!Row, Panel!OnForges
    <3>4. q.pc \in {"token", "undo"} /\ q.op = "create" /\ "forges" \notin contested' => Listed' = q.list \union {q.f}
      BY <1>2, <1>8, <2>2, <2>3, <3>3 DEF Current, Copies
    <3>5. q.op = "create" /\ q.pc \in {"load", "save"} => q.f \notin Listed'
      BY <1>8, <2>1, <2>2 DEF Current
    <3> QED
      BY <3>2, <3>4, <3>5 DEF Current
  <2> QED
    BY <2>2, <2>4, <2>5 DEF Fits
<1>11. \A o \in Procs : Fits(req[o])'
  BY <1>1, <1>10
<1>12. \A o, v \in Procs : o # v => Apart(req'[o], req'[v])
  BY <1>1 DEF PanelInv, PanelCopies, Alone
<1>13. PanelCopies'
  BY <1>7, <1>9, <1>11, <1>12 DEF PanelCopies, Fits
<1> QED
  BY <1>1, <1>4, <1>6, <1>13

\* What a request makes of its copy is a list of its kind.
LEMMA ResultTyped ==
    ASSUME NEW q \in Query, Placed(q), q.pc = "save", NEW list \in RowType(Panel!Row(q))
    PROVE  Panel!Result(q, list) \in RowType(Panel!Row(q))
<1>1. CASE q.op \in Panel!OnForges
  <2>1. Panel!Row(q) = "forges" /\ q.f \in Forges
    BY <1>1 DEF Panel!Row, Placed
  <2> QED
    BY <1>1, <2>1 DEF Panel!Result, RowType, Panel!OnForges
<1>2. CASE q.op \in Panel!OnSaved \union Panel!OnBookmarks
  <2>1. q.x \in Repos /\ Panel!Row(q) # "forges"
    BY <1>2, PanelConstants DEF Placed, Panel!Row, Panel!OnForges, Panel!OnSaved, Panel!OnBookmarks
  <2> QED
    BY <1>2, <2>1 DEF Panel!Result, RowType, Panel!OnSaved, Panel!OnBookmarks
<1> QED
  BY <1>1, <1>2 DEF Placed, Lists

LEMMA SaveStep ==
    ASSUME PanelInv, NEW p \in Procs, Panel!Save(p)
    PROVE  PanelInv'
<1>1. PICK q \in Query : q = req[p]
  BY DEF PanelInv, PanelTyped
<1>2. PICK k, list : k = Panel!Row(q) /\ list = Panel!Result(q, q.list)
  OBVIOUS
<1>3. PICK was, want : was = Panel!Decoded(ideal[k]) /\ want = Panel!Result(q, was)
  OBVIOUS
<1>4. /\ q.pc = "save" /\ Panel!Put(p, k, list) /\ Panel!Continue(p)
      /\ raced' = raced \union Panel!Strays(q, list) /\ UNCHANGED <<Panel!World, drawn, tokens>>
  BY <1>1, <1>2 DEF Panel!Save, Panel!At
<1>5. /\ Placed(q) /\ Current(q) /\ Drawn(q) /\ Alone(p, q) /\ q.op \in Lists
  BY <1>1, <1>4 DEF PanelInv, PanelCopies, Placed, Alone
<1>6. k \in Panel!Rows /\ (k = "forges" <=> q.op \in Panel!OnForges)
  BY <1>1, <1>2, <1>5, RowOf
<1>7. ideal' = [ideal EXCEPT ![k] = want]
  <2>1. ideal' = [ideal EXCEPT ![k] = Panel!Result(q, Panel!Decoded(ideal[k]))]
    BY <1>1, <1>2 DEF Panel!Save
  <2> QED
    BY <1>3, <2>1
<1>8. list \in RowType(k) /\ want \in RowType(k) /\ q.list \in RowType(k)
  <2>1. ideal[k] \in RowType(k) \union {None}
    BY <1>6 DEF PanelInv, PanelTyped, RowsTyped
  <2>2. was \in RowType(k)
    BY <1>3, <2>1 DEF Panel!Decoded, RowType
  <2>3. q.list \in RowType(k)
    BY <1>2, <1>4, <1>5 DEF Placed, Copies
  <2> QED
    BY <1>2, <1>3, <1>4, <1>5, <2>2, <2>3, ResultTyped
<1>9. k \notin contested => list = want
  BY <1>2, <1>3, <1>4, <1>5, <1>6 DEF Current, PanelInv, PanelCopies
<1>10. Panel!Decoded(list) = list
  BY <1>8, PanelConstants DEF Panel!Decoded, RowType
<1>11. k = "forges" => list \subseteq q.list \union {q.f} /\ q.list \subseteq drawn /\ q.f \in drawn
  BY <1>2, <1>4, <1>5, <1>6 DEF Drawn, Copies, Panel!Result, Panel!OnForges
<1>12. ASSUME NEW o \in Procs \ {p}, k = "forges", req[o].op = "create", req[o].pc \in {"load", "save"}
       PROVE  req[o].f \notin list
  <2>1. req[o].f \notin q.list
    BY <1>4, <1>5, <1>6, <1>12 DEF Alone, Apart, Copies
  <2>2. req[o].f # q.f \/ q.op # "create"
    BY <1>4, <1>5, <1>6, <1>12 DEF Alone, Apart
  <2> QED
    BY <1>2, <1>4, <1>5, <2>1, <2>2, <1>12, <1>6 DEF Panel!Result, Panel!OnForges
<1>13. PICK t \in Query :
         /\ QueryAt(p, t) /\ Same(q, t) /\ t.pc \in {"droptoken", "token", "ended"}
         /\ t.pc = "token" => t.list = q.list
         /\ t.pc = "token" <=> (q.op # "delete" /\ q.token)
         /\ t.pc = "droptoken" <=> q.op = "delete"
  <2>1. CASE Panel!AfterSave(q) = "ended"
    <3>1. Panel!End(p, "ok") /\ q.op # "delete" /\ ~q.token
      BY <1>1, <1>4, <2>1 DEF Panel!Continue, Panel!AfterSave
    <3>2. PICK t \in Query : QueryAt(p, t) /\ t.pc = "ended" /\ Same(q, t)
      BY <1>1, <3>1, EndsIn
    <3> QED
      BY <3>1, <3>2
  <2>2. CASE Panel!AfterSave(q) # "ended"
    <3>1. PICK to \in {"droptoken", "token"} :
            /\ Panel!To(p, to) /\ (to = "token" <=> (q.op # "delete" /\ q.token))
            /\ (to = "droptoken" <=> q.op = "delete")
      BY <1>1, <1>4, <2>2 DEF Panel!Continue, Panel!AfterSave
    <3>2. PICK t : t = [q EXCEPT !.pc = to]
      OBVIOUS
    <3>3. t \in Query /\ Same(q, t) /\ t.pc = to /\ t.list = q.list
      BY <3>2 DEF Query, Same
    <3>4. QueryAt(p, t)
      BY <1>1, <3>1, <3>2 DEF Panel!To, Panel!Set, QueryAt
    <3> QED
      BY <3>1, <3>3, <3>4
  <2> QED
    BY <2>1, <2>2
<1>14. Placed(t)
  BY <1>4, <1>5, <1>13 DEF Placed, Same, Copies, Drops, Panel!Row, Baseline
<1>15. Alone(p, t)
  BY <1>4, <1>5, <1>13 DEF Alone, Apart, Same, Copies
<1>16. Drawn(t)'
  BY <1>4, <1>5, <1>13 DEF Drawn, Same, Copies
<1>17. kv'[k] = list
  BY <1>4, <1>6 DEF Panel!Put, PanelInv, PanelTyped, RowsTyped
<1>18. Current(t)'
  <2>1. t.pc = "token" /\ t.op = "create" => Listed' = t.list \union {t.f}
    BY <1>2, <1>6, <1>10, <1>13, <1>17 DEF Same, Listed, Panel!Result, Panel!OnForges
  <2> QED
    BY <1>13, <2>1 DEF Current
<1>19. raced' \subseteq Forges /\ raced \subseteq raced'
  <2>1. Panel!Strays(q, list) \subseteq Forges
    BY <1>2, <1>5, PanelConstants DEF Panel!Strays, Placed, PanelInv, PanelCopies, PanelTyped, Listed
  <2> QED
    BY <1>4, <2>1 DEF PanelInv, PanelTyped
<1>20. Fits(t)'
  BY <1>14, <1>16, <1>18 DEF Fits
<1>21. /\ PanelTyped' /\ PanelCopies' /\ \A j \in Panel!Rows \ {k} : kv'[j] = kv[j]
       /\ \A o \in Procs \ {p} : req'[o] = req[o]
  <2>1. QueryAt(p, t) /\ Panel!Put(p, k, list) /\ UNCHANGED <<Panel!World, drawn, tokens>>
    BY <1>4, <1>13
  <2>2. list \in RowType(k) \union {None} /\ want \in RowType(k) \union {None}
    BY <1>8
  <2>3. k \notin contested /\ ~Panel!Rival(p, k) => list = want
    BY <1>9
  <2>4. k = "forges" => Panel!Decoded(list) \subseteq drawn
    BY <1>10, <1>11
  <2>5. k = "forges" => \A o \in Procs \ {p} : req[o].op = "create" /\ req[o].pc \in {"load", "save"}
                                              => req[o].f \notin Panel!Decoded(list)
    BY <1>10, <1>12
  <2>6. raced' \subseteq Forges
    BY <1>19
  <2> QED
    BY <1>6, <1>7, <1>15, <1>20, <2>1, <2>2, <2>3, <2>4, <2>5, <2>6, PutStep
<1>22. PanelStrays'
  <2>1. req'[p] = t /\ ~Drops(q)
    BY <1>4, <1>13, QueryMoves DEF Drops
  <2>2. ASSUME NEW f, f \in Listed \union raced PROVE f \in Listed' \union raced' \/ (f = t.f /\ t.pc = "droptoken")
    <3>1. CASE k = "forges"
      <4>1. Listed' = list /\ Panel!Strays(q, list) = (Listed \ list) \ {q.f}
        BY <1>2, <1>10, <1>17, <3>1 DEF Listed, Panel!Strays
      <4>2. q.op # "delete" => q.f \in list
        BY <1>2, <1>4, <1>5, <1>6, <3>1 DEF Panel!Result, Panel!OnForges, Placed
      <4> QED
        BY <1>4, <1>13, <2>2, <4>1, <4>2 DEF Same
    <3>2. CASE k # "forges"
      BY <1>19, <1>21, <2>2, <3>2 DEF Listed, Panel!Rows
    <3> QED
      BY <3>1, <3>2
  <2>3. ASSUME NEW f \in Forges, kv'[f] # None, kv[f] = None PROVE f \in Listed' \union raced'
    <3>1. k = f /\ k # "forges" /\ k # "bookmarks"
      BY <1>21, <2>3, PanelConstants DEF Panel!Rows
    <3>2. q.op \in Panel!OnSaved /\ q.f = f
      BY <1>2, <3>1 DEF Panel!Row
    <3>3. Listed' = Listed
      BY <1>21, <3>1 DEF Listed, Panel!Rows
    <3> QED
      BY <1>2, <1>4, <3>1, <3>2, <3>3 DEF Panel!Strays, Listed
  <2>4. \A o \in Procs : Drops(req[o]) => o # p
    BY <1>1, <2>1
  <2>5. \A o \in Procs : Drops(req[o]) \/ req[o].pc = "droptoken" => req'[o] = req[o]
    BY <1>21, <2>4 DEF Drops
  <2>6. ASSUME NEW f \in Forges, f \in tokens'
        PROVE  f \in Listed' \union raced' \/ \E o \in Procs : req'[o].pc = "droptoken" /\ req'[o].f = f
    BY <1>4, <2>1, <2>2, <2>5, <2>6 DEF PanelInv, PanelStrays, Excused
  <2>7. ASSUME NEW f \in Forges, kv'[f] # None
        PROVE  f \in Listed' \union raced' \/ \E o \in Procs : Drops(req'[o]) /\ req'[o].f = f
    BY <2>1, <2>2, <2>3, <2>5, <2>7 DEF PanelInv, PanelStrays, Excused, Drops
  <2> QED
    BY <2>6, <2>7 DEF PanelStrays, Excused, Drops
<1> QED
  BY <1>21, <1>22 DEF PanelInv

\* A request that is over, and one that goes on with its deletion, fit anywhere.
LEMMA QuietFits ==
    ASSUME PanelInv, NEW p \in Procs, NEW t \in Query, Same(req[p], t),
           t.pc = "ended" \/ (Drops(req[p]) /\ Drops(t)), drawn \subseteq drawn'
    PROVE  Fits(t)' /\ Alone(p, t)
<1>1. Placed(req[p]) /\ Drawn(req[p])
  BY DEF PanelInv, PanelCopies
<1>2. t.pc # "ended" => t.op = "delete" /\ t.f \in drawn
  BY <1>1 DEF Placed, Drawn, Same, Drops, Panel!OnForges
<1>3. Placed(t)
  BY <1>1, <1>2 DEF Placed, Same, Copies, Drops, Baseline, Lists, Panel!OnForges
<1>4. ~Copies(t) /\ t.pc \notin {"load", "save", "token", "undo"}
  BY DEF Copies, Drops
<1>5. Current(t)'
  BY <1>4 DEF Current
<1>6. Drawn(t)'
  BY <1>2, <1>4 DEF Drawn
<1>7. Alone(p, t)
  BY <1>2, <1>4 DEF Alone, Apart
<1> QED
  BY <1>3, <1>5, <1>6, <1>7 DEF Fits

LEMMA WriteTokenStep ==
    ASSUME PanelInv, NEW p \in Procs, Panel!WriteToken(p)
    PROVE  PanelInv'
<1>1. PICK q \in Query : q = req[p]
  BY DEF PanelInv, PanelTyped
<1>2. /\ q.pc = "token" /\ Panel!End(p, "ok") /\ tokens' = tokens \union {q.f}
      /\ raced' = (IF q.f \in Listed THEN raced ELSE raced \union {q.f})
      /\ UNCHANGED <<Panel!World, drawn, kv, ideal, contested>>
  BY <1>1 DEF Panel!WriteToken, Panel!At, Listed
<1>3. PICK t \in Query : QueryAt(p, t) /\ t.pc = "ended" /\ Same(q, t)
  BY <1>1, <1>2, EndsIn
<1>4. req' \in [Procs -> Query] /\ \A o \in Procs \ {p} : req'[o] = req[o]
  BY <1>3, QueryMoves
<1>5. q.f \in Forges
  BY <1>1, <1>2 DEF PanelInv, PanelCopies, Placed, Panel!OnForges
<1>6. PanelTyped'
  <2>1. WorldTyped'
    BY <1>2, WorldSame
  <2> QED
    BY <1>2, <1>4, <1>5, <2>1 DEF PanelInv, PanelTyped, RowsTyped
<1>7. PanelCopies'
  BY <1>1, <1>2, <1>3, CopiesKept, QuietFits
<1>8. PanelStrays'
  <2>1. Listed' = Listed /\ raced \subseteq raced' /\ q.f \in Listed' \union raced'
    BY <1>2 DEF Listed
  <2>2. \A o \in Procs : Drops(req[o]) \/ req[o].pc = "droptoken" => req'[o] = req[o]
    BY <1>1, <1>2, <1>4 DEF Drops
  <2> QED
    BY <1>2, <2>1, <2>2 DEF PanelInv, PanelStrays, Excused, Drops
<1> QED
  BY <1>6, <1>7, <1>8 DEF PanelInv

LEMMA UndoStep ==
    ASSUME PanelInv, NEW p \in Procs, Panel!Undo(p)
    PROVE  PanelInv'
<1>1. PICK q \in Query : q = req[p]
  BY DEF PanelInv, PanelTyped
<1>2. PICK want : want = Panel!Decoded(ideal["forges"]) \ {q.f}
  OBVIOUS
<1>3. /\ q.pc = "undo" /\ Panel!Put(p, "forges", q.list) /\ Panel!End(p, "refused")
      /\ ideal' = [ideal EXCEPT !["forges"] = want] /\ raced' = raced \union (Listed \ q.list)
      /\ UNCHANGED <<Panel!World, drawn, tokens>>
  BY <1>1, <1>2 DEF Panel!Undo, Panel!At, Listed, Panel!RolledBack
<1>4. PICK t \in Query : QueryAt(p, t) /\ t.pc = "ended" /\ Same(q, t)
  BY <1>1, <1>3, EndsIn
<1>5. Placed(q) /\ Current(q) /\ Drawn(q) /\ Alone(p, q) /\ q.op = "create"
  BY <1>1, <1>3 DEF PanelInv, PanelCopies, Placed, Alone
<1>6. "forges" \in Panel!Rows /\ Panel!Row(q) = "forges"
  BY <1>5 DEF Panel!Rows, Panel!Row, Panel!OnForges
<1>7. q.list \in RowType("forges") /\ want \in RowType("forges")
  <2>1. ideal["forges"] \in RowType("forges") \union {None}
    BY <1>6 DEF PanelInv, PanelTyped, RowsTyped
  <2> QED
    BY <1>2, <1>3, <1>5, <1>6, <2>1 DEF Placed, Copies, Panel!Decoded, RowType
<1>8. Panel!Decoded(q.list) = q.list
  BY <1>7, PanelConstants DEF Panel!Decoded, RowType
<1>9. "forges" \notin contested => q.list = want
  <2>1. ASSUME "forges" \notin contested PROVE Panel!Decoded(ideal["forges"]) = Listed
    BY <1>6, <2>1 DEF PanelInv, PanelCopies, Listed
  <2>2. q.f \notin q.list
    BY <1>3, <1>5 DEF Placed, Copies
  <2> QED
    BY <1>2, <1>3, <1>5, <2>1, <2>2 DEF Current
<1>10. q.list \subseteq drawn
  BY <1>3, <1>5 DEF Drawn, Copies, Panel!OnForges
<1>11. \A o \in Procs \ {p} : req[o].op = "create" /\ req[o].pc \in {"load", "save"} => req[o].f \notin q.list
  BY <1>3, <1>5 DEF Alone, Apart, Copies, Panel!OnForges
<1>12. raced' \subseteq Forges
  BY <1>3 DEF PanelInv, PanelTyped, PanelCopies
<1>13. Fits(t)' /\ Alone(p, t)
  BY <1>1, <1>3, <1>4, QuietFits
<1>14. /\ PanelTyped' /\ PanelCopies' /\ kv'["forges"] = q.list
       /\ \A j \in Panel!Rows \ {"forges"} : kv'[j] = kv[j]
       /\ \A o \in Procs \ {p} : req'[o] = req[o]
  BY <1>3, <1>4, <1>6, <1>7, <1>8, <1>9, <1>10, <1>11, <1>12, <1>13, PutStep
<1>15. PanelStrays'
  <2>1. Listed' = q.list
    BY <1>8, <1>14 DEF Listed
  <2>2. \A f : Excused(f) => Excused(f)'
    BY <1>3, <2>1 DEF Excused
  <2>3. \A f \in Forges : kv'[f] = kv[f]
    BY <1>14, PanelConstants DEF Panel!Rows
  <2>4. \A o \in Procs : Drops(req[o]) \/ req[o].pc = "droptoken" => req'[o] = req[o]
    BY <1>1, <1>3, <1>14 DEF Drops
  <2> QED
    BY <1>3, <2>2, <2>3, <2>4 DEF PanelInv, PanelStrays, Drops
<1> QED
  BY <1>14, <1>15 DEF PanelInv

LEMMA DropTokenStep ==
    ASSUME PanelInv, NEW p \in Procs, Panel!DropToken(p)
    PROVE  PanelInv'
<1>1. PICK q \in Query : q = req[p]
  BY DEF PanelInv, PanelTyped
<1>2. /\ q.pc = "droptoken" /\ Panel!To(p, "dropsaved")
      /\ \/ tokens' = tokens \ {q.f} /\ raced' = raced
         \/ tokens' = tokens /\ raced' = raced \union {q.f}
      /\ UNCHANGED <<Panel!World, drawn, kv, ideal, contested>>
  BY <1>1 DEF Panel!DropToken, Panel!At
<1>3. PICK t : t = [q EXCEPT !.pc = "dropsaved"]
  OBVIOUS
<1>4. t \in Query /\ t.pc = "dropsaved" /\ Same(q, t)
  BY <1>3 DEF Query, Same
<1>5. QueryAt(p, t)
  BY <1>1, <1>2, <1>3 DEF Panel!To, Panel!Set, QueryAt
<1>6. req' \in [Procs -> Query] /\ req'[p] = t /\ \A o \in Procs \ {p} : req'[o] = req[o]
  BY <1>4, <1>5, QueryMoves
<1>7. q.f \in Forges
  BY <1>1, <1>2 DEF PanelInv, PanelCopies, Placed, Drops, Panel!OnForges
<1>8. PanelTyped'
  <2>1. WorldTyped'
    BY <1>2, WorldSame
  <2> QED
    BY <1>2, <1>6, <1>7, <2>1 DEF PanelInv, PanelTyped, RowsTyped
<1>9. PanelCopies'
  <2>1. Drops(req[p]) /\ Drops(t)
    BY <1>1, <1>2, <1>4 DEF Drops
  <2> QED
    BY <1>1, <1>2, <1>4, <1>5, <2>1, CopiesKept, QuietFits
<1>10. PanelStrays'
  <2>1. \A f : Excused(f) => Excused(f)'
    BY <1>2 DEF Excused, Listed
  <2>2. \A o \in Procs : Drops(req[o]) => Drops(req'[o]) /\ req'[o].f = req[o].f
    BY <1>1, <1>4, <1>6 DEF Drops, Same
  <2>3. \A f \in Forges : kv'[f] # None => Excused(f)' \/ \E o \in Procs : Drops(req'[o]) /\ req'[o].f = f
    BY <1>2, <2>1, <2>2 DEF PanelInv, PanelStrays
  <2>4. ASSUME NEW f \in Forges, f \in tokens'
        PROVE  Excused(f)' \/ \E o \in Procs : req'[o].pc = "droptoken" /\ req'[o].f = f
    <3>1. CASE f = q.f
      BY <1>2, <2>4, <3>1 DEF Excused
    <3>2. CASE f # q.f
      BY <1>1, <1>2, <1>6, <2>1, <2>4, <3>2 DEF PanelInv, PanelStrays
    <3> QED
      BY <3>1, <3>2
  <2> QED
    BY <2>3, <2>4 DEF PanelStrays, Drops
<1> QED
  BY <1>8, <1>9, <1>10 DEF PanelInv

LEMMA DropSavedStep ==
    ASSUME PanelInv, NEW p \in Procs, Panel!DropSaved(p)
    PROVE  PanelInv'
<1>1. PICK q \in Query : q = req[p]
  BY DEF PanelInv, PanelTyped
<1>2. /\ q.pc = "dropsaved" /\ Panel!End(p, "ok") /\ UNCHANGED <<Panel!World, drawn, tokens>>
      /\ \/ /\ Panel!Put(p, q.f, None) /\ ideal' = [ideal EXCEPT ![q.f] = None] /\ raced' = raced
         \/ UNCHANGED <<kv, ideal, contested>> /\ raced' = raced \union {q.f}
  BY <1>1 DEF Panel!DropSaved, Panel!At
<1>3. PICK t \in Query : QueryAt(p, t) /\ t.pc = "ended" /\ Same(q, t)
  BY <1>1, <1>2, EndsIn
<1>4. req' \in [Procs -> Query] /\ \A o \in Procs \ {p} : req'[o] = req[o]
  BY <1>3, QueryMoves
<1>5. q.f \in Forges /\ q.f \in Panel!Rows /\ q.f # "forges"
  BY <1>1, <1>2, PanelConstants DEF PanelInv, PanelCopies, Placed, Drops, Panel!OnForges, Panel!Rows
<1>6. Fits(t)' /\ Alone(p, t)
  BY <1>1, <1>2, <1>3, QuietFits
<1>7. raced' \subseteq Forges /\ raced \subseteq raced'
  BY <1>2, <1>5 DEF PanelInv, PanelTyped
<1>8. PanelTyped' /\ PanelCopies' /\ Listed' = Listed /\ \A f \in Forges \ {q.f} : kv'[f] = kv[f]
  <2>1. CASE Panel!Put(p, q.f, None) /\ ideal' = [ideal EXCEPT ![q.f] = None]
    <3>1. /\ PanelTyped' /\ PanelCopies' /\ \A j \in Panel!Rows \ {q.f} : kv'[j] = kv[j]
      BY <1>2, <1>3, <1>5, <1>6, <1>7, <2>1, PutStep
    <3> QED
      BY <1>5, <3>1 DEF Listed, Panel!Rows
  <2>2. CASE UNCHANGED <<kv, ideal, contested>>
    <3>1. WorldTyped'
      BY <1>2, WorldSame
    <3>2. PanelTyped'
      BY <1>2, <1>4, <1>7, <2>2, <3>1 DEF PanelInv, PanelTyped, RowsTyped
    <3>3. PanelCopies'
      BY <1>2, <1>3, <1>6, <2>2, CopiesKept
    <3> QED
      BY <2>2, <3>2, <3>3 DEF Listed
  <2> QED
    BY <1>2, <2>1, <2>2
<1>9. kv'[q.f] = None \/ q.f \in raced'
  BY <1>2, <1>5 DEF Panel!Put, PanelInv, PanelTyped, RowsTyped
<1>10. PanelStrays'
  <2>1. \A f : Excused(f) => Excused(f)'
    BY <1>7, <1>8 DEF Excused
  <2>2. \A o \in Procs : req[o].pc = "droptoken" \/ (Drops(req[o]) /\ o # p) => req'[o] = req[o]
    BY <1>1, <1>2, <1>4
  <2>3. \A f \in Forges : f \in tokens' => Excused(f)' \/ \E o \in Procs : req'[o].pc = "droptoken" /\ req'[o].f = f
    BY <1>2, <2>1, <2>2 DEF PanelInv, PanelStrays
  <2>4. ASSUME NEW f \in Forges, kv'[f] # None
        PROVE  Excused(f)' \/ \E o \in Procs : Drops(req'[o]) /\ req'[o].f = f
    <3>1. CASE f = q.f
      BY <1>9, <2>4, <3>1 DEF Excused
    <3>2. CASE f # q.f
      BY <1>1, <1>8, <2>1, <2>2, <2>4, <3>2 DEF PanelInv, PanelStrays
    <3> QED
      BY <3>1, <3>2
  <2> QED
    BY <2>3, <2>4 DEF PanelStrays, Drops
<1> QED
  BY <1>8, <1>10 DEF PanelInv

\* --------------------------------------------------------------- surroundings
LEMMA SurroundingsStep ==
    ASSUME PanelInv,
           \/ \E s \in Sessions : Panel!DeleteSession(s)
           \/ \E r \in scenario.repos : Panel!Commit(r) \/ Panel!Edit(r) \/ Panel!Vanish(r)
           \/ UNCHANGED Panel!vars
    PROVE  PanelInv'
<1>1. UNCHANGED <<scenario, req, drawn, kv, tokens, ideal, contested, raced>>
  BY DEF Panel!DeleteSession, Panel!Commit, Panel!Edit, Panel!Vanish, Panel!Stores, Panel!vars
<1>2. WorldTyped
  BY DEF PanelInv, PanelTyped
<1>3. sessions' \subseteq sessions /\ git' \subseteq git
  BY DEF Panel!DeleteSession, Panel!Commit, Panel!Edit, Panel!Vanish, Panel!vars
<1>4. base' \in [Sessions \X Repos -> 0..MaxHead]
  <2>1. base' = base \/ \E s \in Sessions : base' = [b \in Sessions \X Repos |-> IF b[1] = s THEN 0 ELSE base[b]]
    BY DEF Panel!DeleteSession, Panel!Commit, Panel!Edit, Panel!Vanish, Panel!vars
  <2>2. 0 \in 0..MaxHead
    BY PanelConstants
  <2> QED
    BY <1>2, <2>1, <2>2 DEF WorldTyped
<1>5. head' \in [Repos -> 0..MaxHead]
  <2>1. head' = head \/ \E r \in scenario.repos : head[r] < MaxHead /\ head' = [head EXCEPT ![r] = @ + 1]
    BY DEF Panel!DeleteSession, Panel!Commit, Panel!Edit, Panel!Vanish, Panel!vars
  <2>2. scenario.repos \subseteq Repos /\ MaxHead \in Nat
    BY <1>2, PanelConstants DEF WorldTyped
  <2> QED
    BY <1>2, <2>1, <2>2 DEF WorldTyped
<1>6. tree' \in [Repos -> 0..MaxEdits]
  <2>1. tree' = tree \/ \E r \in scenario.repos : tree[r] < MaxEdits /\ tree' = [tree EXCEPT ![r] = @ + 1]
    BY DEF Panel!DeleteSession, Panel!Commit, Panel!Edit, Panel!Vanish, Panel!vars
  <2>2. scenario.repos \subseteq Repos /\ MaxEdits \in Nat
    BY <1>2, PanelConstants DEF WorldTyped
  <2> QED
    BY <1>2, <2>1, <2>2 DEF WorldTyped
<1>7. WorldTyped'
  BY <1>1, <1>2, <1>3, <1>4, <1>5, <1>6 DEF WorldTyped
<1>8. PanelTyped'
  BY <1>1, <1>7 DEF PanelInv, PanelTyped, RowsTyped
<1>9. PanelCopies'
  BY <1>1 DEF PanelInv, PanelCopies, Current, Drawn, Listed
<1>10. PanelStrays'
  BY <1>1 DEF PanelInv, PanelStrays, Excused, Listed
<1> QED
  BY <1>8, <1>9, <1>10 DEF PanelInv

LEMMA PanelCrashStep ==
    ASSUME PanelInv, Panel!Crash
    PROVE  PanelInv'
<1>1. PICK cut : cut = {req[p].f : p \in {o \in Procs : Drops(req[o])}}
  OBVIOUS
<1>2. /\ req' = [p \in Procs |-> Panel!Idle] /\ raced' = raced \union cut
      /\ UNCHANGED <<Panel!World, drawn, kv, tokens, ideal, contested>>
  BY <1>1 DEF Panel!Crash, Drops
<1>3. /\ Panel!Idle \in Query /\ Panel!Idle.pc = "idle" /\ Panel!Idle.op = "repos"
      /\ Panel!Idle.token = FALSE
  BY PanelConstants DEF Panel!Idle, Query, Panel!Operations
<1>4. cut \subseteq Forges
  <2>1. \A p \in Procs : Drops(req[p]) => req[p].f \in Forges
    BY DEF PanelInv, PanelCopies, Placed, Panel!OnForges
  <2> QED
    BY <1>1, <2>1
<1>5. PanelTyped'
  <2>1. WorldTyped'
    BY <1>2, WorldSame
  <2> QED
    BY <1>2, <1>3, <1>4, <2>1 DEF PanelInv, PanelTyped, RowsTyped
<1>6. PanelCopies'
  <2>1. \A p \in Procs : req'[p] = Panel!Idle
    BY <1>2
  <2>2. Listed' = Listed
    BY <1>2 DEF Listed
  <2>3. Placed(Panel!Idle)
    BY <1>3 DEF Placed, Copies, Drops, Panel!OnForges, Panel!OnSaved, Baseline
  <2>4. Current(Panel!Idle)' /\ Drawn(Panel!Idle)' /\ Apart(Panel!Idle, Panel!Idle)
    BY <1>3 DEF Current, Drawn, Apart, Panel!OnForges
  <2>5. \A p \in Procs : Placed(req'[p]) /\ Current(req[p])' /\ Drawn(req[p])'
    BY <2>1, <2>3, <2>4
  <2>6. \A p, o \in Procs : Apart(req'[p], req'[o])
    BY <2>1, <2>4
  <2> QED
    BY <1>2, <2>2, <2>5, <2>6 DEF PanelInv, PanelCopies
<1>7. PanelStrays'
  <2>1. \A f : Excused(f) => Excused(f)'
    BY <1>2 DEF Excused, Listed
  <2>2. \A p \in Procs : Drops(req[p]) \/ req[p].pc = "droptoken" => req[p].f \in raced'
    BY <1>1, <1>2 DEF Drops
  <2> QED
    BY <1>2, <2>1, <2>2 DEF PanelInv, PanelStrays, Excused
<1> QED
  BY <1>5, <1>6, <1>7 DEF PanelInv

LEMMA PanelStep ==
    ASSUME PanelInv, fields \subseteq Forges, Panel!Next \/ UNCHANGED Panel!vars
    PROVE  PanelInv'
<1>1. ASSUME NEW p \in Procs,
             \/ Panel!Request(p) \/ Panel!LookForge(p) \/ Panel!Load(p) \/ Panel!LoadFails(p)
             \/ Panel!Save(p) \/ Panel!SaveFails(p) \/ Panel!WriteToken(p) \/ Panel!WriteTokenFails(p)
             \/ Panel!Undo(p) \/ Panel!UndoFails(p) \/ Panel!DropToken(p) \/ Panel!DropSaved(p)
             \/ Panel!Discover(p) \/ Panel!ReadHead(p) \/ Panel!Upsert(p) \/ Panel!Forget(p)
             \/ Panel!LookBaseline(p) \/ Panel!Patch(p) \/ Panel!Numstat(p)
      PROVE  PanelInv'
  BY <1>1, ArrivalStep, LookForgeStep, LoadStep, LoadFailsStep, SaveStep, FailsStep, WriteTokenStep,
     UndoStep, DropTokenStep, DropSavedStep, DiscoverStep, BaselineStep
<1> QED
  BY <1>1, SurroundingsStep, PanelCrashStep DEF Panel!Next

\* ---------------------------------------------- what an update gives a forge
\* A copy of what the list says of its forges is what it says, a created forge has nothing yet
\* of an update, and an update that still has its token to write has changed its forge.
FieldsTyped == {fields, agreed, halfway} \subseteq SUBSET Forges
CopyAgrees(q) ==
    "forges" \notin contested =>
        /\ q.pc = "save" /\ q.op \in Panel!OnForges => q.fields = fields
        /\ q.pc \in {"token", "undo"} /\ q.op = "create" => q.fields = fields
        /\ q.pc = "token" /\ q.op = "update" => q.f \in fields
FieldsExact == "forges" \notin contested => fields \ halfway = agreed \ halfway
FieldsInv == FieldsTyped /\ FieldsExact /\ \A p \in Procs : CopyAgrees(req[p])

LEMMA FieldsInvInit ==
    ASSUME Panel!Init
    PROVE  FieldsInv
<1>1. fields = {} /\ agreed = {} /\ halfway = {} /\ req = [p \in Procs |-> Panel!Idle]
  BY DEF Panel!Init
<1>2. \A p \in Procs : req[p].pc = "idle"
  BY <1>1 DEF Panel!Idle
<1> QED
  BY <1>1, <1>2 DEF FieldsInv, FieldsTyped, FieldsExact, CopyAgrees

LEMMA SetMoves ==
    ASSUME PanelInv, NEW p \in Procs, NEW t, Panel!Set(p, t)
    PROVE  req'[p] = t /\ \A o \in Procs \ {p} : req'[o] = req[o]
  BY DEF Panel!Set, PanelInv, PanelTyped

\* A request moves, and what the list says of its forges stays.
LEMMA FieldsKept ==
    ASSUME PanelInv, FieldsInv, NEW p \in Procs, NEW t, Panel!Set(p, t), CopyAgrees(t)',
           UNCHANGED <<fields, agreed, halfway>>, contested \subseteq contested'
    PROVE  FieldsInv'
<1>1. req'[p] = t /\ \A o \in Procs \ {p} : req'[o] = req[o]
  BY SetMoves
<1>2. ASSUME NEW o \in Procs \ {p} PROVE CopyAgrees(req[o])'
  <2>1. req'[o] = req[o] /\ CopyAgrees(req[o])
    BY <1>1 DEF FieldsInv
  <2> QED
    BY <2>1 DEF CopyAgrees
<1> QED
  BY <1>1, <1>2 DEF FieldsInv, FieldsTyped, FieldsExact, CopyAgrees
LEMMA FieldsIdle ==
    ASSUME PanelInv, FieldsInv, NEW p \in Procs, NEW t, Panel!Set(p, t), ~Copies(t),
           UNCHANGED <<fields, agreed, halfway>>, contested \subseteq contested'
    PROVE  FieldsInv'
<1>1. CopyAgrees(t)'
  BY DEF CopyAgrees, Copies
<1> QED
  BY <1>1, FieldsKept

\* The steps that take and write no copy.
Elsewhere(p) ==
    \/ Panel!Request(p) \/ Panel!LookForge(p) \/ Panel!SaveFails(p) \/ Panel!UndoFails(p)
    \/ Panel!DropToken(p) \/ Panel!DropSaved(p) \/ Panel!Discover(p) \/ Panel!ReadHead(p)
    \/ Panel!Upsert(p) \/ Panel!Forget(p) \/ Panel!LookBaseline(p) \/ Panel!Patch(p) \/ Panel!Numstat(p)
LEMMA FieldsEnd ==
    ASSUME PanelInv, FieldsInv, NEW p \in Procs, NEW verdict, Panel!End(p, verdict),
           UNCHANGED <<fields, agreed, halfway>>, contested \subseteq contested'
    PROVE  FieldsInv'
<1>1. PICK q \in Query : q = req[p]
  BY DEF PanelInv, PanelTyped
<1>2. PICK t : t = [q EXCEPT !.pc = "ended", !.end = verdict, !.list = {}, !.fields = {}]
  OBVIOUS
<1>3. ~Copies(t) /\ Panel!Set(p, t)
  BY <1>1, <1>2 DEF Query, Copies, Panel!End
<1> QED
  BY <1>3, FieldsIdle
LEMMA FieldsElsewhere ==
    ASSUME PanelInv, FieldsInv, NEW p \in Procs, Elsewhere(p)
    PROVE  FieldsInv'
<1>1. PICK q \in Query : q = req[p]
  BY DEF PanelInv, PanelTyped
<1>2. UNCHANGED <<fields, agreed, halfway>> /\ contested \subseteq contested'
  BY DEF Elsewhere, Panel!Request, Panel!Begin, Panel!LookForge, Panel!SaveFails, Panel!UndoFails,
         Panel!DropToken, Panel!DropSaved, Panel!Put, Panel!Discover, Panel!ReadHead, Panel!Upsert,
         Panel!Forget, Panel!LookBaseline, Panel!Patch, Panel!Numstat, Panel!Stores, Panel!Fields
<1>3. CASE \E verdict : Panel!End(p, verdict)
  BY <1>2, <1>3, FieldsEnd
<1>4. CASE Panel!To(p, "load") \/ Panel!To(p, "dropsaved")
  <2>1. PICK to \in {"load", "dropsaved"} : Panel!To(p, to)
    BY <1>4
  <2>2. PICK t : t = [q EXCEPT !.pc = to]
    OBVIOUS
  <2>3. ~Copies(t) /\ Panel!Set(p, t)
    BY <1>1, <2>1, <2>2 DEF Query, Copies, Panel!To
  <2> QED
    BY <1>2, <2>3, FieldsIdle
<1>5. CASE Panel!Request(p)
  <2>1. PICK op, f, x, s, b : Panel!Begin(p, op, f, x, s, b)
    BY <1>5 DEF Panel!Request
  <2>2. PICK to : to = CASE op \in Panel!OnSaved -> "look" [] op = "snapshot" -> "head"
                         [] op = "forget" -> "drop" [] op = "diff" -> "look" [] OTHER -> "load"
    OBVIOUS
  <2>3. to \in {"look", "head", "drop", "load"}
    BY <2>2
  <2>4. PICK t : t = [Panel!Idle EXCEPT !.op = op, !.f = f, !.x = x, !.s = s, !.token = b, !.pc = to]
    OBVIOUS
  <2>5. t.pc = to
    BY <2>4 DEF Panel!Idle
  <2>6. Panel!Set(p, t)
    BY <2>1, <2>2, <2>4 DEF Panel!Begin
  <2> QED
    BY <1>2, <2>3, <2>5, <2>6, FieldsIdle DEF Copies
<1>6. CASE Panel!Discover(p)
  <2>1. PICK list : Panel!Set(p, [q EXCEPT !.pc = "ended", !.end = "ok", !.list = list,
                                  !.shown = (git \ Deep) \union (git \intersect list)])
    BY <1>1, <1>6 DEF Panel!Discover
  <2>2. PICK t : t = [q EXCEPT !.pc = "ended", !.end = "ok", !.list = list,
                               !.shown = (git \ Deep) \union (git \intersect list)]
    OBVIOUS
  <2>3. ~Copies(t)
    BY <2>2 DEF Query, Copies
  <2> QED
    BY <1>2, <2>1, <2>2, <2>3, FieldsIdle
<1>7. CASE \/ Panel!ReadHead(p) \/ Panel!LookBaseline(p) \/ Panel!Patch(p) \/ Panel!Numstat(p)
  <2>1. CASE \E n : Panel!Set(p, [q EXCEPT !.pc = "upsert", !.sha = n])
                    \/ Panel!Set(p, [q EXCEPT !.pc = "patch", !.sha = n])
                    \/ Panel!Set(p, [q EXCEPT !.pc = "numstat", !.patch = n])
                    \/ Panel!Set(p, [q EXCEPT !.pc = "ended", !.end = "ok", !.counts = n])
    <3>1. PICK t : Panel!Set(p, t) /\ \E n : \/ t = [q EXCEPT !.pc = "upsert", !.sha = n]
                                             \/ t = [q EXCEPT !.pc = "patch", !.sha = n]
                                             \/ t = [q EXCEPT !.pc = "numstat", !.patch = n]
                                             \/ t = [q EXCEPT !.pc = "ended", !.end = "ok", !.counts = n]
      BY <2>1
    <3>2. ~Copies(t)
      BY <3>1 DEF Query, Copies
    <3> QED
      BY <1>2, <3>1, <3>2, FieldsIdle
  <2>2. \/ Panel!End(p, "refused")
        \/ \E n : Panel!Set(p, [q EXCEPT !.pc = "upsert", !.sha = n])
                  \/ Panel!Set(p, [q EXCEPT !.pc = "patch", !.sha = n])
                  \/ Panel!Set(p, [q EXCEPT !.pc = "numstat", !.patch = n])
                  \/ Panel!Set(p, [q EXCEPT !.pc = "ended", !.end = "ok", !.counts = n])
    <3>1. CASE Panel!ReadHead(p)
      BY <1>1, <3>1 DEF Panel!ReadHead
    <3>2. CASE Panel!LookBaseline(p)
      BY <1>1, <3>2 DEF Panel!LookBaseline
    <3>3. CASE Panel!Patch(p)
      BY <1>1, <3>3 DEF Panel!Patch
    <3>4. CASE Panel!Numstat(p)
      BY <1>1, <3>4 DEF Panel!Numstat
    <3> QED
      BY <1>7, <3>1, <3>2, <3>3, <3>4
  <2> QED
    BY <1>3, <2>1, <2>2
<1>8. Panel!SaveFails(p) \/ Panel!UndoFails(p) \/ Panel!DropSaved(p) \/ Panel!Upsert(p) \/ Panel!Forget(p)
         => \E verdict : Panel!End(p, verdict)
  BY DEF Panel!SaveFails, Panel!UndoFails, Panel!DropSaved, Panel!Upsert, Panel!Forget
<1>9. Panel!LookForge(p) => Panel!To(p, "load") \/ Panel!End(p, "refused")
  BY DEF Panel!LookForge
<1>10. Panel!DropToken(p) => Panel!To(p, "dropsaved")
  BY DEF Panel!DropToken
<1> QED
  BY <1>3, <1>4, <1>5, <1>6, <1>7, <1>8, <1>9, <1>10 DEF Elsewhere

\* A request takes its copy, together with what the list says.
LEMMA FieldsLoad ==
    ASSUME PanelInv, FieldsInv, NEW p \in Procs, Panel!Load(p) \/ Panel!LoadFails(p)
    PROVE  FieldsInv'
<1>1. PICK q \in Query : q = req[p]
  BY DEF PanelInv, PanelTyped
<1>2. UNCHANGED <<fields, agreed, halfway>> /\ contested \subseteq contested'
  BY DEF Panel!Load, Panel!LoadFails, Panel!Stores, Panel!Fields
<1>3. \/ \E verdict : Panel!End(p, verdict)
      \/ \E list : Panel!Set(p, [q EXCEPT !.pc = "save", !.list = list,
                                 !.fields = IF q.op \in Panel!OnForges THEN fields ELSE {}])
  BY <1>1 DEF Panel!Load, Panel!LoadFails, Panel!Proceed
<1>4. CASE \E list : Panel!Set(p, [q EXCEPT !.pc = "save", !.list = list,
                                   !.fields = IF q.op \in Panel!OnForges THEN fields ELSE {}])
  <2>1. PICK t, list : Panel!Set(p, t) /\ t = [q EXCEPT !.pc = "save", !.list = list,
                              !.fields = IF q.op \in Panel!OnForges THEN fields ELSE {}]
    BY <1>4
  <2>2. t.pc = "save" /\ (t.op \in Panel!OnForges => t.fields = fields)
    BY <2>1 DEF Query
  <2>3. CopyAgrees(t)'
    BY <1>2, <2>2 DEF CopyAgrees
  <2> QED
    BY <1>2, <2>1, <2>3, FieldsKept
<1> QED
  BY <1>2, <1>3, <1>4, FieldsEnd

\* Without a rival no other request has a copy of the list, or a token to write.
LEMMA NoRival ==
    ASSUME NEW p \in Procs, ~Panel!Rival(p, "forges"), NEW o \in Procs \ {p}, req'[o] = req[o]
    PROVE  CopyAgrees(req[o])'
<1>1. req[o].op \in Panel!OnForges => Panel!Row(req[o]) = "forges"
  BY DEF Panel!Row
<1>2. ~(req[o].op \in Panel!OnForges /\ req[o].pc \in {"save", "token", "undo"})
  BY <1>1 DEF Panel!Rival
<1>3. ~(req'[o].op \in Panel!OnForges /\ req'[o].pc \in {"save", "token", "undo"})
  BY <1>2
<1> QED
  BY <1>3 DEF CopyAgrees, Panel!OnForges

LEMMA FieldsSave ==
    ASSUME PanelInv, FieldsInv, NEW p \in Procs, Panel!Save(p)
    PROVE  FieldsInv'
<1>1. PICK q \in Query : q = req[p]
  BY DEF PanelInv, PanelTyped
<1>2. /\ q.pc = "save" /\ Panel!SaveFields(q) /\ Panel!Continue(p)
      /\ \E list : Panel!Put(p, Panel!Row(q), list)
  BY <1>1 DEF Panel!Save, Panel!At
<1>3. Placed(q) /\ CopyAgrees(q) /\ FieldsTyped
  BY <1>1 DEF PanelInv, PanelCopies, FieldsInv
<1>4. contested' = IF Panel!Rival(p, Panel!Row(q)) THEN contested \union {Panel!Row(q)} ELSE contested
  BY <1>2 DEF Panel!Put
<1>5. PICK t : /\ Panel!Set(p, t) /\ t.op = q.op /\ t.f = q.f
               /\ t.pc \in {"droptoken", "ended"} \/ (t.pc = "token" /\ t.fields = q.fields)
               /\ t.pc = "token" => q.token
  <2>1. CASE Panel!AfterSave(q) = "ended"
    <3>1. PICK t : t = [q EXCEPT !.pc = "ended", !.end = "ok", !.list = {}, !.fields = {}]
      OBVIOUS
    <3>2. Panel!Set(p, t)
      BY <1>1, <1>2, <2>1, <3>1 DEF Panel!Continue, Panel!End
    <3>3. t.op = q.op /\ t.f = q.f /\ t.pc = "ended"
      BY <3>1 DEF Query
    <3> QED
      BY <3>2, <3>3
  <2>2. CASE Panel!AfterSave(q) # "ended"
    <3>1. PICK to \in {"droptoken", "token"} : Panel!To(p, to) /\ (to = "token" => q.token)
      BY <1>1, <1>2, <2>2 DEF Panel!Continue, Panel!AfterSave
    <3>2. PICK t : t = [q EXCEPT !.pc = to]
      OBVIOUS
    <3>3. t.op = q.op /\ t.f = q.f /\ t.pc = to /\ t.fields = q.fields
      BY <3>2 DEF Query
    <3>4. Panel!Set(p, t)
      BY <1>1, <3>1, <3>2 DEF Panel!To
    <3> QED
      BY <3>1, <3>3, <3>4
  <2> QED
    BY <2>1, <2>2
<1>6. q.token => q.op \in {"create", "update"}
  BY <1>3 DEF Placed
<1>7. CASE q.op \notin Panel!OnForges
  <2>1. UNCHANGED <<fields, agreed, halfway>>
    BY <1>2, <1>7 DEF Panel!SaveFields, Panel!Unfinished, Panel!Described, Panel!OnForges
  <2>2. ~Copies(t)
    BY <1>5, <1>6, <1>7 DEF Copies, Panel!OnForges
  <2>3. contested \subseteq contested'
    BY <1>4
  <2> QED
    BY <1>5, <2>1, <2>2, <2>3, FieldsIdle
<1>8. CASE q.op \in Panel!OnForges
  <2>1. Panel!Row(q) = "forges" /\ q.f \in Forges
    BY <1>3, <1>8 DEF Panel!Row, Placed
  <2>2. fields' = Panel!Described(q, q.fields) /\ q.fields \subseteq Forges
    BY <1>2, <1>8 DEF Panel!SaveFields, Query
  <2>3. FieldsTyped'
    BY <1>2, <1>3, <2>1, <2>2 DEF FieldsTyped, Panel!SaveFields, Panel!Described
  <2>4. ASSUME "forges" \notin contested'
        PROVE  /\ fields' \ halfway' = agreed' \ halfway'
               /\ \A o \in Procs : CopyAgrees(req[o])'
    <3>1. ~Panel!Rival(p, "forges") /\ "forges" \notin contested
      BY <1>4, <2>1, <2>4
    <3>2. q.fields = fields /\ fields \ halfway = agreed \ halfway
      BY <1>2, <1>3, <1>8, <3>1 DEF CopyAgrees, FieldsInv, FieldsExact
    <3>3. fields' \ halfway' = agreed' \ halfway'
      <4>1. CASE q.op = "update" /\ q.token
        BY <1>2, <2>2, <3>2, <4>1 DEF Panel!SaveFields, Panel!Unfinished, Panel!Described
      <4>2. CASE q.op = "update" /\ ~q.token
        BY <1>2, <2>2, <3>2, <4>2 DEF Panel!SaveFields, Panel!Unfinished, Panel!Described
      <4>3. CASE q.op = "delete"
        BY <1>2, <2>2, <3>2, <4>3 DEF Panel!SaveFields, Panel!Unfinished, Panel!Described
      <4>4. CASE q.op = "create"
        BY <1>2, <2>2, <3>2, <4>4 DEF Panel!SaveFields, Panel!Unfinished, Panel!Described
      <4> QED
        BY <1>8, <4>1, <4>2, <4>3, <4>4 DEF Panel!OnForges
    <3>4. CopyAgrees(t)'
      <4>1. t.op = "create" => fields' = q.fields
        BY <1>5, <2>2 DEF Panel!Described
      <4>2. t.op = "update" => t.f \in fields'
        BY <1>5, <2>2 DEF Panel!Described
      <4> QED
        BY <1>5, <4>1, <4>2 DEF CopyAgrees
    <3>5. req'[p] = t /\ \A o \in Procs \ {p} : req'[o] = req[o]
      BY <1>5, SetMoves
    <3>6. ASSUME NEW o \in Procs \ {p} PROVE CopyAgrees(req[o])'
      BY <3>1, <3>5, NoRival
    <3> QED
      BY <3>3, <3>4, <3>5, <3>6
  <2>5. "forges" \in contested' => \A o \in Procs : CopyAgrees(req[o])'
    BY DEF CopyAgrees
  <2> QED
    BY <2>3, <2>4, <2>5 DEF FieldsInv, FieldsExact
<1> QED
  BY <1>7, <1>8

LEMMA FieldsToken ==
    ASSUME PanelInv, FieldsInv, NEW p \in Procs, Panel!WriteToken(p) \/ Panel!WriteTokenFails(p)
    PROVE  FieldsInv'
<1>1. PICK q \in Query : q = req[p]
  BY DEF PanelInv, PanelTyped
<1>2. q.pc = "token" /\ fields' = fields /\ contested' = contested
  BY <1>1 DEF Panel!WriteToken, Panel!WriteTokenFails, Panel!At, Panel!Stores, Panel!Fields
<1>3. Placed(q) /\ CopyAgrees(q) /\ FieldsTyped /\ q.f \in Forges
  BY <1>1, <1>2 DEF PanelInv, PanelCopies, FieldsInv, Placed, Panel!OnForges
<1>4. CASE UNCHANGED <<agreed, halfway>> /\ \E verdict : Panel!End(p, verdict)
  BY <1>2, <1>4, FieldsEnd
<1>5. CASE /\ q.op = "update" /\ agreed' = agreed \union {q.f} /\ halfway' = halfway \ {q.f}
           /\ Panel!End(p, "ok")
  <2>1. PICK t : t = [q EXCEPT !.pc = "ended", !.end = "ok", !.list = {}, !.fields = {}]
    OBVIOUS
  <2>2. t.pc = "ended" /\ Panel!Set(p, t)
    BY <1>1, <1>5, <2>1 DEF Query, Panel!End
  <2>3. req'[p] = t /\ \A o \in Procs \ {p} : req'[o] = req[o]
    BY <2>2, SetMoves
  <2>4. ASSUME NEW o \in Procs PROVE CopyAgrees(req[o])'
    <3>1. CopyAgrees(req[o])
      BY DEF FieldsInv
    <3> QED
      BY <1>2, <2>2, <2>3, <3>1 DEF CopyAgrees
  <2>5. FieldsExact'
    BY <1>2, <1>3, <1>5 DEF FieldsInv, FieldsExact, CopyAgrees
  <2>6. FieldsTyped'
    BY <1>2, <1>3, <1>5 DEF FieldsTyped
  <2> QED
    BY <2>4, <2>5, <2>6 DEF FieldsInv
<1>6. CASE UNCHANGED <<agreed, halfway>> /\ q.op = "create" /\ Panel!To(p, "undo")
  <2>1. PICK t : t = [q EXCEPT !.pc = "undo"]
    OBVIOUS
  <2>2. t.pc = "undo" /\ t.op = "create" /\ t.fields = q.fields /\ Panel!Set(p, t)
    BY <1>1, <1>6, <2>1 DEF Query, Panel!To
  <2>3. CopyAgrees(t)'
    BY <1>2, <1>3, <1>6, <2>2 DEF CopyAgrees
  <2> QED
    BY <1>2, <1>6, <2>2, <2>3, FieldsKept
<1> QED
  BY <1>1, <1>4, <1>5, <1>6 DEF Panel!WriteToken, Panel!WriteTokenFails, Panel!Unfinished, Panel!Stores,
                                Panel!Fields

LEMMA FieldsUndo ==
    ASSUME PanelInv, FieldsInv, NEW p \in Procs, Panel!Undo(p)
    PROVE  FieldsInv'
<1>1. PICK q \in Query : q = req[p]
  BY DEF PanelInv, PanelTyped
<1>2. /\ q.pc = "undo" /\ fields' = q.fields /\ UNCHANGED <<agreed, halfway>> /\ Panel!End(p, "refused")
      /\ contested' = IF Panel!Rival(p, "forges") THEN contested \union {"forges"} ELSE contested
  BY <1>1 DEF Panel!Undo, Panel!At, Panel!Put
<1>3. q.op = "create" /\ CopyAgrees(q) /\ FieldsTyped /\ q.fields \subseteq Forges
  BY <1>1, <1>2 DEF PanelInv, PanelCopies, FieldsInv, Placed, Query
<1>4. PICK t : t = [q EXCEPT !.pc = "ended", !.end = "refused", !.list = {}, !.fields = {}]
  OBVIOUS
<1>5. t.pc = "ended" /\ Panel!Set(p, t)
  BY <1>1, <1>2, <1>4 DEF Query, Panel!End
<1>6. req'[p] = t /\ \A o \in Procs \ {p} : req'[o] = req[o]
  BY <1>5, SetMoves
<1>7. FieldsTyped'
  BY <1>2, <1>3 DEF FieldsTyped
<1>8. ASSUME "forges" \notin contested'
      PROVE  fields' \ halfway' = agreed' \ halfway' /\ \A o \in Procs : CopyAgrees(req[o])'
  <2>1. ~Panel!Rival(p, "forges") /\ "forges" \notin contested
    BY <1>2, <1>8
  <2>2. fields' = fields
    BY <1>2, <1>3, <2>1 DEF CopyAgrees
  <2>3. ASSUME NEW o \in Procs \ {p} PROVE CopyAgrees(req[o])'
    BY <1>6, <2>1, NoRival
  <2>4. CopyAgrees(t)'
    BY <1>5 DEF CopyAgrees
  <2> QED
    BY <1>2, <1>6, <2>1, <2>2, <2>3, <2>4 DEF FieldsInv, FieldsExact
<1>9. "forges" \in contested' => \A o \in Procs : CopyAgrees(req[o])'
  BY DEF CopyAgrees
<1> QED
  BY <1>7, <1>8, <1>9 DEF FieldsInv, FieldsExact

LEMMA FieldsStep ==
    ASSUME PanelInv, FieldsInv, Panel!Next \/ UNCHANGED Panel!vars
    PROVE  FieldsInv'
<1>1. ASSUME NEW p \in Procs,
             \/ Elsewhere(p) \/ Panel!Load(p) \/ Panel!LoadFails(p) \/ Panel!Save(p)
             \/ Panel!WriteToken(p) \/ Panel!WriteTokenFails(p) \/ Panel!Undo(p)
      PROVE  FieldsInv'
  BY <1>1, FieldsElsewhere, FieldsLoad, FieldsSave, FieldsToken, FieldsUndo
<1>2. ASSUME UNCHANGED <<fields, agreed, halfway, contested>>,
             req' = req \/ req' = [p \in Procs |-> Panel!Idle]
      PROVE  FieldsInv'
  <2>1. ASSUME NEW p \in Procs PROVE CopyAgrees(req[p])'
    <3>1. CopyAgrees(req[p])
      BY DEF FieldsInv
    <3>2. CASE req' = req
      BY <1>2, <3>1, <3>2 DEF CopyAgrees
    <3>3. CASE req' = [o \in Procs |-> Panel!Idle]
      BY <3>3 DEF CopyAgrees, Panel!Idle
    <3> QED
      BY <1>2, <3>2, <3>3
  <2> QED
    BY <1>2, <2>1 DEF FieldsInv, FieldsTyped, FieldsExact
<1>3. CASE \/ \E s \in Sessions : Panel!DeleteSession(s)
           \/ \E r \in scenario.repos : Panel!Commit(r) \/ Panel!Edit(r) \/ Panel!Vanish(r)
           \/ Panel!Crash \/ UNCHANGED Panel!vars
  BY <1>2, <1>3 DEF Panel!DeleteSession, Panel!Commit, Panel!Edit, Panel!Vanish, Panel!Crash,
                    Panel!Stores, Panel!Fields, Panel!vars
<1> QED
  BY <1>1, <1>3 DEF Panel!Next, Elsewhere

\* The rows are exact, and what belongs to a forge goes with it, for any number of requests,
\* forges and repositories (gateway/sourcecontrol_*.go).
LEMMA PanelShown ==
    ASSUME PanelInv, FieldsInv
    PROVE  Panel!TypeOK /\ Panel!RowsExact /\ Panel!NoStrays
<1>1. Panel!TypeOK
  <2>1. "forges" \in Panel!Rows /\ "bookmarks" \in Panel!Rows /\ Forges \subseteq Panel!Rows
    BY DEF Panel!Rows
  <2>2. ASSUME NEW table, RowsTyped(table)
        PROVE  /\ table["forges"] \in (SUBSET Forges) \union {None}
               /\ table["bookmarks"] \in (SUBSET Repos) \union {None}
               /\ \A f \in Forges : table[f] \in (SUBSET Repos) \union {None}
    BY <2>1, <2>2, PanelConstants DEF RowsTyped, RowType
  <2>3. RowsTyped(kv) /\ RowsTyped(ideal) /\ WorldTyped
    BY DEF PanelInv, PanelTyped
  <2>4. \A table \in {kv, ideal} :
          /\ table["forges"] \in (SUBSET Forges) \union {None}
          /\ table["bookmarks"] \in (SUBSET Repos) \union {None}
          /\ \A f \in Forges : table[f] \in (SUBSET Repos) \union {None}
    BY <2>2, <2>3
  <2>5. \A p \in Procs : req[p].op \in Panel!Operations /\ req[p].end \in {"none", "ok", "refused"}
    BY DEF PanelInv, PanelTyped, Query
  <2> QED
    BY <2>3, <2>4, <2>5 DEF PanelInv, PanelTyped, WorldTyped, FieldsInv, FieldsTyped, Panel!TypeOK
<1>2. Panel!RowsExact
  BY DEF PanelInv, PanelCopies, FieldsInv, FieldsExact, Panel!RowsExact
<1>3. Panel!NoStrays
  BY DEF PanelInv, PanelStrays, Excused, Listed, Drops, Panel!NoStrays
<1> QED
  BY <1>1, <1>2, <1>3

THEOREM PanelExactHolds == Spec => []PanelExact
<1> DEFINE Inv == lane = "Panel" => PanelInv /\ FieldsInv
<1>1. Init => Inv
  BY PanelStart, PanelInvInit, FieldsInvInit
<1>2. Inv /\ [Next]_vars => Inv'
  <2> SUFFICES ASSUME Inv, [Next]_vars, lane' = "Panel" PROVE PanelInv' /\ FieldsInv'
    OBVIOUS
  <2>1. lane = "Panel" /\ (Panel!Next \/ UNCHANGED Panel!vars)
    BY PanelLane
  <2> QED
    BY <2>1, PanelStep, FieldsStep DEF FieldsInv, FieldsTyped
<1>3. Inv => PanelExact
  BY PanelShown DEF PanelExact
<1> HIDE DEF Inv
<1> QED
  BY <1>1, <1>2, <1>3, PTL DEF Spec

-----------------------------------------------------------------------------
(* The notice that a terminal waits.  That a connection never reports a      *)
(* closing twice rests on the order of three numbers, the channel it has     *)
(* reported, the one it holds and the present one, and on nothing the reader *)
(* or the detector decide.                                                   *)
\* Every new channel follows an output of its own.
RearmsFollowOutput ==
    idle.ch <= IF reader \in {"stamped", "marked"} THEN outputs ELSE outputs + 1

\* A listener has a poll to come only in phase 2.
DuePolls == \A w \in Notice!Listeners : w \in due => listener[w].at = "poll"

\* What the notifier has reported is older than what it waits for.
ReportsAdvance ==
    LET n == listener[Client] IN
    /\ n.at = "listen" => told[Client] < idle.ch
    /\ n.at \in {"hear", "write"} => told[Client] < n.ch
    /\ n.at = "poll" => told[Client] = n.ch

NoticeInv == Notice!TypeOK /\ RearmsFollowOutput /\ DuePolls /\ ReportsAdvance

Listener == [at : {"away", "listen", "hear", "write", "poll", "ended"}, ch : 0..idle.ch]

LEMMA NoticeStart == Init /\ lane = "Notice" => Notice!Init
  BY DEF Init
LEMMA NoticeLane ==
    ASSUME [Next]_vars, lane' = "Notice"
    PROVE  lane = "Notice" /\ [Notice!Next]_Notice!vars
<1>1. CASE Next
  BY <1>1 DEF Next
<1>2. CASE UNCHANGED vars
  BY <1>2 DEF vars, noticeVars, Notice!vars
<1> QED
  BY <1>1, <1>2
LEMMA NoticeConstants ==
    Threshold \in Nat \ {0} /\ MaxOutputs \in Nat /\ Hook # Client /\ Detector \notin {Hook, Client}
  BY DisplaysAssumption DEF Notice!SessionAssumption

USE NoticeConstants DEF Notice!Listeners

\* The invariant holds when the session has just started.
LEMMA NoticeInvInit == Notice!Init => NoticeInv
<1> SUFFICES ASSUME Notice!Init PROVE NoticeInv
  OBVIOUS
<1>1. /\ \A w \in Notice!Listeners : listener[w].at \in {"listen", "away"} /\ listener[w].ch = 0
      /\ told = [w \in Notice!Listeners |-> 0]
      /\ listener \in [Notice!Listeners -> [at : {"away", "listen", "hear", "write", "poll", "ended"},
                                      ch : 0..idle.ch]]
      /\ idle.ch = 1 /\ outputs = 0 /\ reader = "read" /\ due = {}
  BY DEF Notice!Init
<1>2. Notice!TypeOK
  <2>1. idle \in [ch : 1..MaxOutputs + 1, closed : BOOLEAN]
    BY DEF Notice!Init
  <2>2. told \in [Notice!Listeners -> 0..idle.ch]
    BY <1>1
  <2>3. /\ outputs \in 0..MaxOutputs /\ age \in 0..Threshold
        /\ state \in {"idle", "active", "waiting"}
        /\ reader \in {"read", "stamped", "marked", "ended"}
        /\ detector \in {"sleep", "old", "quiet", "marked", "ended"}
    BY DEF Notice!Init
  <2>4. due \subseteq Notice!Listeners \cup {Detector}
    BY <1>1
  <2>5. exited \in BOOLEAN
    BY Zenon DEF Notice!Init
  <2>6. listener \in [Notice!Listeners -> [at : {"away", "listen", "hear", "write", "poll", "ended"},
                                    ch : 0..idle.ch]]
    BY <1>1
  <2> QED
    BY <2>1, <2>2, <2>3, <2>4, <2>5, <2>6, Zenon DEF Notice!TypeOK
<1>3. RearmsFollowOutput /\ DuePolls /\ ReportsAdvance
  BY <1>1 DEF RearmsFollowOutput, DuePolls, ReportsAdvance
<1> QED
  BY <1>2, <1>3 DEF NoticeInv

\* A step that leaves the listeners, the channel and the reader alone.
LEMMA UnheardStep ==
    ASSUME NoticeInv, UNCHANGED <<outputs, reader, idle, listener, told>>,
           age' \in 0..Threshold, state' \in {"idle", "active", "waiting"},
           detector' \in {"sleep", "old", "quiet", "marked", "ended"},
           due' \subseteq Notice!Listeners \cup {Detector}, exited' \in BOOLEAN,
           \A w \in Notice!Listeners : w \in due' => listener[w].at = "poll"
    PROVE  NoticeInv'
  BY DEF NoticeInv, Notice!TypeOK, RearmsFollowOutput, DuePolls, ReportsAdvance

\* A step of one listener, which takes what it was due.
LEMMA ListenerStep ==
    ASSUME NoticeInv, NEW w \in Notice!Listeners, NEW r \in Listener, NEW n \in 0..idle.ch,
           listener' = [listener EXCEPT ![w] = r],
           told' = [told EXCEPT ![w] = n],
           UNCHANGED <<outputs, reader, idle, age, state, detector, exited>>,
           due' \subseteq due, w \notin due' \/ r.at = "poll",
           w = Client => /\ r.at = "listen" => n < idle.ch
                         /\ r.at \in {"hear", "write"} => n < r.ch
                         /\ r.at = "poll" => n = r.ch
    PROVE  NoticeInv'
<1> USE DEF NoticeInv
<1>1. /\ listener \in [Notice!Listeners -> Listener]
      /\ told \in [Notice!Listeners -> 0..idle.ch]
  BY DEF Notice!TypeOK, Listener
<1>2. /\ listener' \in [Notice!Listeners -> Listener] /\ told' \in [Notice!Listeners -> 0..idle.ch]
      /\ listener'[w] = r /\ told'[w] = n
      /\ \A v \in Notice!Listeners : v # w => listener'[v] = listener[v] /\ told'[v] = told[v]
  BY <1>1
<1>3. Notice!TypeOK'
  BY <1>2 DEF Notice!TypeOK, Listener
<1>4. RearmsFollowOutput'
  BY DEF RearmsFollowOutput
<1>5. DuePolls'
  BY <1>2 DEF DuePolls
<1>6. ReportsAdvance'
  <2>1. CASE w = Client
    BY <1>2, <2>1 DEF ReportsAdvance
  <2>2. CASE w # Client
    BY <1>2, <2>2 DEF ReportsAdvance
  <2> QED
    BY <2>1, <2>2
<1> QED
  BY <1>3, <1>4, <1>5, <1>6

\* The invariant is inductive.
LEMMA NoticeStep == NoticeInv /\ [Notice!Next]_Notice!vars => NoticeInv'
<1> SUFFICES ASSUME NoticeInv, [Notice!Next]_Notice!vars PROVE NoticeInv'
  OBVIOUS
<1> USE DEF NoticeInv
<1>1. CASE Notice!Tick
  <2>1. age' \in 0..Threshold
    BY <1>1 DEF Notice!Tick, Notice!TypeOK
  <2>2. /\ due' \subseteq Notice!Listeners \cup {Detector}
        /\ \A w \in Notice!Listeners : w \in due' => listener[w].at = "poll"
    BY <1>1 DEF Notice!Tick, Notice!Polling
  <2>3. UNCHANGED <<outputs, reader, idle, listener, told, state, detector, exited>>
    BY <1>1 DEF Notice!Tick, Notice!readVars, Notice!listenVars
  <2> QED
    BY <2>1, <2>2, <2>3, UnheardStep DEF Notice!TypeOK
<1>2. ASSUME Notice!LoadOutput \/ Notice!LoadState \/ Notice!SetWaiting \/ Notice!DetectorEnds
      PROVE  NoticeInv'
  <2>1. /\ UNCHANGED <<outputs, reader, idle, listener, told, age, exited>>
        /\ state' \in {"idle", "active", "waiting"}
        /\ detector' \in {"sleep", "old", "quiet", "marked", "ended"}
        /\ due' \subseteq due
    BY <1>2 DEF Notice!LoadOutput, Notice!LoadState, Notice!SetWaiting, Notice!DetectorEnds, Notice!readVars, Notice!listenVars, Notice!TypeOK
  <2> QED
    BY <2>1, UnheardStep DEF Notice!TypeOK, DuePolls
<1>3. CASE Notice!Exit
  BY <1>3, UnheardStep DEF Notice!Exit, Notice!TypeOK, DuePolls, Notice!readVars, Notice!detectVars, Notice!listenVars
<1>4. CASE Notice!CloseIdle
  <2>1. /\ UNCHANGED <<outputs, reader, age, state, listener, told, exited>>
        /\ idle'.ch = idle.ch /\ idle' \in [ch : 1..MaxOutputs + 1, closed : BOOLEAN]
        /\ detector' = "sleep"
        /\ due' \subseteq due
    BY <1>4 DEF Notice!CloseIdle, Notice!readVars, Notice!listenVars, Notice!TypeOK
  <2> QED
    BY <2>1 DEF Notice!TypeOK, RearmsFollowOutput, DuePolls, ReportsAdvance
<1>5. CASE Notice!Output
  BY <1>5 DEF Notice!Output, Notice!listenVars, Notice!TypeOK, RearmsFollowOutput, DuePolls, ReportsAdvance
<1>6. CASE Notice!SetActive
  BY <1>6 DEF Notice!SetActive, Notice!listenVars, Notice!detectVars, Notice!TypeOK, RearmsFollowOutput, DuePolls,
              ReportsAdvance
<1>7. CASE Notice!ReadFails
  BY <1>7 DEF Notice!ReadFails, Notice!listenVars, Notice!detectVars, Notice!TypeOK, RearmsFollowOutput, DuePolls,
              ReportsAdvance
<1>8. CASE Notice!Rearm
  <2>1. /\ UNCHANGED <<outputs, age, state, detector, listener, told, due, exited>>
        /\ reader = "marked" /\ reader' = "read"
        /\ idle' \in [ch : {idle.ch, idle.ch + 1}, closed : BOOLEAN]
    BY <1>8 DEF Notice!Rearm, Notice!listenVars, Notice!detectVars, Notice!TypeOK
  <2>2. idle.ch \in 1..MaxOutputs + 1 /\ idle.ch <= outputs /\ outputs \in 0..MaxOutputs
    BY <2>1 DEF RearmsFollowOutput, Notice!TypeOK
  <2>3. /\ idle'.ch \in 1..MaxOutputs + 1
        /\ idle'.ch <= outputs + 1
        /\ idle.ch <= idle'.ch
    BY <2>1, <2>2
  <2>4. /\ 0..idle.ch \subseteq 0..idle'.ch
        /\ \A w \in Notice!Listeners : listener[w].ch \in 0..idle.ch /\ told[w] \in 0..idle.ch
    BY <2>2, <2>3 DEF Notice!TypeOK
  <2>5. idle' \in [ch : 1..MaxOutputs + 1, closed : BOOLEAN]
    BY <2>1, <2>3
  <2>6. Notice!TypeOK'
    BY <2>1, <2>4, <2>5 DEF Notice!TypeOK
  <2>7. RearmsFollowOutput' /\ DuePolls'
    BY <2>1, <2>3 DEF RearmsFollowOutput, DuePolls
  <2>8. ReportsAdvance'
    BY <2>1, <2>2, <2>3, <2>4 DEF ReportsAdvance
  <2> QED
    BY <2>6, <2>7, <2>8
<1>9. CASE UNCHANGED Notice!vars
  BY <1>9 DEF Notice!vars, Notice!TypeOK, RearmsFollowOutput, DuePolls, ReportsAdvance
<1> DEFINE Step(w, r, n, d) ==
              /\ listener' = [listener EXCEPT ![w] = r]
              /\ told' = [told EXCEPT ![w] = n]
              /\ due' = d
              /\ UNCHANGED <<outputs, reader, idle, age, state, detector, exited>>
<1>10. ASSUME NEW w \in Notice!Listeners
       PROVE  /\ listener[w] \in Listener /\ told[w] \in 0..idle.ch
              /\ told = [told EXCEPT ![w] = told[w]]
              /\ 0 \in 0..idle.ch /\ idle.ch \in 0..idle.ch /\ idle.ch > 0
  BY DEF Notice!TypeOK, Listener
<1>11. CASE Notice!Connect
  <2>1. Step(Client, [listener[Client] EXCEPT !.at = "listen"], 0, due)
    BY <1>11, <1>10 DEF Notice!Connect, Notice!readVars, Notice!detectVars, Listener
  <2>2. [listener[Client] EXCEPT !.at = "listen"] \in Listener
    BY <1>10 DEF Listener
  <2>3. Client \notin due
    BY <1>11 DEF Notice!Connect, DuePolls
  <2> QED
    BY <2>1, <2>2, <2>3, <1>10, ListenerStep DEF Listener
<1>12. CASE Notice!Disconnect
  <2> DEFINE r == [at |-> "away", ch |-> 0]
  <2>1. Step(Client, r, told[Client], due \ {Client})
    BY <1>12, <1>10 DEF Notice!Disconnect, Notice!readVars, Notice!detectVars
  <2>2. r \in Listener
    BY <1>10 DEF Listener
  <2> QED
    BY <2>1, <2>2, <1>10, ListenerStep
<1>13. ASSUME NEW w \in Notice!Listeners, Notice!Listen(w)
       PROVE  NoticeInv'
  <2> DEFINE r == [at |-> "hear", ch |-> idle.ch]
  <2>1. Step(w, r, told[w], due)
    BY <1>13, <1>10 DEF Notice!Listen, Notice!readVars, Notice!detectVars
  <2>2. r \in Listener
    BY <1>10 DEF Listener
  <2>3. w \notin due /\ (w = Client => told[w] < idle.ch)
    BY <1>13 DEF Notice!Listen, DuePolls, ReportsAdvance
  <2> QED
    BY <2>1, <2>2, <2>3, <1>10, ListenerStep
<1>14. ASSUME NEW w \in Notice!Listeners, Notice!Report(w)
       PROVE  NoticeInv'
  <2>1. w \notin due /\ listener[w].at = "hear"
    BY <1>14 DEF Notice!Report, DuePolls
  <2>2. CASE w = Hook
    <3> DEFINE r == [listener[w] EXCEPT !.at = "poll"]
    <3>1. Step(w, r, listener[w].ch, due)
      BY <1>14, <1>10, <2>2 DEF Notice!Report, Notice!readVars, Notice!detectVars, Notice!TypeOK
    <3>2. r \in Listener /\ r.ch = listener[w].ch /\ r.at = "poll" /\ listener[w].ch \in 0..idle.ch
      BY <1>10 DEF Listener
    <3> QED
      BY <3>1, <3>2, ListenerStep
  <2>3. CASE w # Hook
    <3> DEFINE r == [listener[w] EXCEPT !.at = "write"]
    <3>1. Step(w, r, told[w], due)
      BY <1>14, <1>10, <2>3 DEF Notice!Report, Notice!readVars, Notice!detectVars, Notice!TypeOK
    <3>2. r \in Listener /\ r.ch = listener[w].ch /\ r.at = "write" /\ told[w] \in 0..idle.ch
      BY <1>10 DEF Listener
    <3>3. w = Client => told[w] < r.ch
      BY <2>1, <3>2 DEF ReportsAdvance
    <3> QED
      BY <2>1, <3>1, <3>2, <3>3, ListenerStep
  <2> QED
    BY <2>2, <2>3
<1>18. CASE Notice!Sent
  <2> DEFINE r == [listener[Client] EXCEPT !.at = "poll"]
  <2>1. Step(Client, r, listener[Client].ch, due)
    BY <1>18, <1>10 DEF Notice!Sent, Notice!readVars, Notice!detectVars, Notice!TypeOK
  <2>2. r \in Listener /\ r.ch = listener[Client].ch /\ r.at = "poll"
        /\ listener[Client].ch \in 0..idle.ch
    BY <1>10 DEF Listener
  <2> QED
    BY <2>1, <2>2, ListenerStep
<1>15. CASE Notice!PollState
  <2>1. PICK r \in {listener[Hook], [listener[Hook] EXCEPT !.at = "listen"]} :
           Step(Hook, r, told[Hook], due \ {Hook})
    BY <1>15, <1>10 DEF Notice!PollState, Notice!readVars, Notice!detectVars, Notice!TypeOK
  <2>2. r \in Listener
    BY <1>10 DEF Listener
  <2> QED
    BY <2>1, <2>2, <1>10, ListenerStep
<1>16. CASE Notice!PollChannel
  <2> DEFINE q == [listener[Client] EXCEPT !.at = "listen"]
  <2>1. Client \in due /\ listener[Client].at = "poll" /\ told[Client] = listener[Client].ch
    BY <1>16 DEF Notice!PollChannel, DuePolls, ReportsAdvance
  <2>2. CASE idle.ch # listener[Client].ch
    <3>1. Step(Client, q, told[Client], due \ {Client})
      BY <1>16, <1>10, <2>2 DEF Notice!PollChannel, Notice!readVars, Notice!detectVars
    <3>2. q \in Listener /\ q.at = "listen"
      BY <1>10 DEF Listener
    <3>3. told[Client] < idle.ch
      BY <2>1, <2>2, <1>10 DEF Listener, Notice!TypeOK
    <3> QED
      BY <3>1, <3>2, <3>3, <1>10, ListenerStep
  <2>3. CASE idle.ch = listener[Client].ch
    <3>1. Step(Client, listener[Client], told[Client], due \ {Client})
      BY <1>16, <1>10, <2>3 DEF Notice!PollChannel, Notice!readVars, Notice!detectVars, Notice!TypeOK
    <3> QED
      BY <3>1, <2>1, <1>10, ListenerStep
  <2> QED
    BY <2>2, <2>3
<1>17. ASSUME NEW w \in Notice!Listeners, Notice!ListenerEnds(w)
       PROVE  NoticeInv'
  <2> DEFINE r == [listener[w] EXCEPT !.at = "ended"]
  <2>1. Step(w, r, told[w], due \ {w})
    BY <1>17, <1>10 DEF Notice!ListenerEnds, Notice!readVars, Notice!detectVars
  <2>2. r \in Listener /\ r.at = "ended"
    BY <1>10 DEF Listener
  <2> QED
    BY <2>1, <2>2, <1>10, ListenerStep
<1> HIDE DEF Step
<1> QED
  BY <1>1, <1>2, <1>3, <1>4, <1>5, <1>6, <1>7, <1>8, <1>9, <1>11, <1>12, <1>13, <1>14,
     <1>15, <1>16, <1>17, <1>18 DEF Notice!Next, Notice!Reader, Notice!Detect, Notice!Hear

\* A connection reports each closing of the idle channel at most once, for any
\* threshold, any amount of output and any interleaving of the two loops.
THEOREM ClientHearsOnce == Spec => ClientNeverRepeats
<1> DEFINE Inv == lane = "Notice" => NoticeInv
<1>1. Init => Inv
  BY NoticeStart, NoticeInvInit
<1>2. Inv /\ [Next]_vars => Inv'
  BY NoticeLane, NoticeStep
<1>3. Inv /\ [Next]_vars => [lane = "Notice" => ~Notice!Repeats(Client)]_vars
  BY DEF NoticeInv, ReportsAdvance, Notice!Repeats, Notice!TypeOK
<1> HIDE DEF Inv
<1> QED
  BY <1>1, <1>2, <1>3, PTL DEF Spec, ClientNeverRepeats

-----------------------------------------------------------------------------
(* The installation.  Whether the bundled cluster opens depends on who holds *)
(* its password between drawing and saving it: a wizard, the server it       *)
(* starts, or the server of a machine that boots.  The invariant says, for   *)
(* each place of either, whose password is in hand and what of the file it   *)
(* read is still the file, and that at most one of them is at it unless a    *)
(* way out with a name was taken.                                            *)

LEMMA InstallStart ==
    ASSUME Init, lane = "Install"
    PROVE  Install!Init
  BY DEF Init
LEMMA InstallLane ==
    ASSUME [Next]_vars, lane' = "Install"
    PROVE  lane = "Install" /\ (Install!Next \/ UNCHANGED Install!vars)
<1>1. CASE Next
  BY <1>1 DEF Next
<1>2. CASE UNCHANGED vars
  BY <1>2 DEF vars, installVars, Install!vars, Install!host, Install!counted, Install!history
<1> QED
  BY <1>1, <1>2

\* What the files, the wizard, the server and the uninstaller hold.  No cluster password is
\* beyond those drawn so far, so that the next one drawn differs from all of them.
ConfigsTo(n) == [mode : Install!Modes, listen : Install!Addrs, pw : 0..n, jwt : 0..MaxSecrets,
           admin : 0..MaxAdmins]
AskingPlaces == {"db", "listen", "admin", "jwt", "confirm", "save"}
DoingPlaces == {"start", "keep", "migrate", "plant"}
WizardPlaces == {"off", "account", "copy", "service"} \union AskingPlaces \union DoingPlaces
ServerPlaces == {"off", "start", "keep", "migrate", "look", "plant", "up"}
Wizards(n) == [pc : WizardPlaces, as : Install!Homes, child : BOOLEAN, cfg : ConfigsTo(n),
               said : ConfigsTo(n),
               hand : 0..n, cause : Install!Causes, kept : BOOLEAN]
Servers(n) == [pc : ServerPlaces, as : Install!Homes, cfg : ConfigsTo(n), hand : 0..n,
               crossed : BOOLEAN]
FilesTyped ==
    /\ passwords \in Nat /\ admins \in 0..MaxAdmins /\ secrets \in 0..MaxSecrets
    /\ config \in [Install!Homes -> ConfigsTo(passwords)] /\ cluster \in 0..passwords
InstallRows ==
    /\ rows \in [Install!Modes -> 0..MaxAdmins] /\ chosen \in [Install!Modes -> 0..MaxAdmins]
    /\ overtaken \subseteq Install!Modes
    /\ applied \in [Install!Homes -> ConfigsTo(passwords) \union {None}]
MachineTyped ==
    /\ passwords <= MaxPasswords /\ runs \in 0..MaxRuns /\ boots \in 0..MaxBoots
    /\ pg \in {"none", "wizard", "server", "orphan"} /\ dropped \in Install!Causes
    /\ un \in [pc : {"off", "pg", "server", "delete", "binary"}, keep : BOOLEAN,
               mode : Install!Modes]
    /\ account \in BOOLEAN /\ copied \in BOOLEAN /\ unit \in BOOLEAN /\ installed \in BOOLEAN
SetupTyped == FilesTyped /\ InstallRows /\ wiz \in Wizards(passwords) /\ srv \in Servers(passwords)

\* The steps that only ask, those of the server but for the start and the write of its
\* password, and those of the unit and the uninstaller but for what is deleted.
PromptSteps ==
    \/ \E h \in Install!Homes : Install!RunSetup(h)
    \/ Install!ChooseBundled \/ Install!ChooseExternal \/ Install!ChooseBundledAsRoot
    \/ \E a \in Install!Addrs : Install!Listen(a)
    \/ Install!Admin \/ Install!Jwt \/ Install!Back \/ Install!Quit \/ Install!Confirm
    \/ Install!CreateAccount \/ Install!HandOver \/ Install!OfferService
ServerSteps == Install!BootMigrate \/ Install!BootLook \/ Install!BootPlant \/ Install!ChangeAdmin
  \/ Install!StopServer \/ Install!KillServer
HostSteps ==
    \/ Install!InstallService \/ Install!UninstallService
    \/ \E keep \in BOOLEAN : Install!PlanRemoval(keep)
    \/ Install!RemovalStopsPg \/ Install!RemovalStopsServer \/ Install!RemovalEnds
    \/ Install!Reinstall

LEMMA SetupSteps ==
    ASSUME Install!Next
    PROVE  \/ PromptSteps \/ ServerSteps \/ HostSteps
           \/ \E m \in Install!Modes, a \in Install!Addrs : Install!RunScripted(m, a)
           \/ Install!SaveConfig \/ Install!StartBundled \/ Install!KeepPassword \/ Install!Migrate
           \/ Install!PlantAdmin \/ Install!Interrupt
           \/ \E h \in Install!Homes : Install!Boot(h)
           \/ Install!BootPostgres \/ Install!BootKeep \/ Install!RemovalDeletes
  BY DEF Install!Next, PromptSteps, ServerSteps, HostSteps

\* What each group of steps leaves alone.
LEMMA PromptsLeave ==
    ASSUME PromptSteps
    PROVE  UNCHANGED <<scenario, config, cluster, passwords, rows, srv, un, chosen, applied,
                       dropped,
                       overtaken>>
  BY DEF PromptSteps, Install!RunSetup, Install!ChooseBundled, Install!ChooseExternal,
         Install!ChooseBundledAsRoot, Install!Listen, Install!Admin, Install!Jwt, Install!Back,
         Install!Quit, Install!Confirm, Install!CreateAccount, Install!HandOver,
         Install!OfferService, Install!wizardOnly, Install!counted, Install!history

LEMMA ServerLeaves ==
    ASSUME ServerSteps
    PROVE  UNCHANGED <<scenario, config, cluster, passwords, wiz, un, applied, overtaken>>
  BY DEF ServerSteps, Install!BootMigrate, Install!BootLook, Install!BootPlant, Install!ChangeAdmin,
         Install!StopServer, Install!KillServer, Install!serverOnly, Install!counted

LEMMA HostLeaves ==
    ASSUME HostSteps
    PROVE  UNCHANGED <<scenario, config, cluster, passwords, admins, secrets, rows, wiz, chosen,
                       applied, overtaken>>
  BY DEF HostSteps, Install!InstallService, Install!UninstallService, Install!PlanRemoval,
         Install!RemovalStopsPg, Install!RemovalStopsServer, Install!RemovalEnds, Install!Reinstall,
         Install!hostOnly, Install!counted

LEMMA SetupConstants ==
    /\ MaxPasswords \in Nat /\ MaxAdmins \in Nat /\ MaxSecrets \in Nat
    /\ MaxRuns \in Nat /\ MaxBoots \in Nat
  BY DisplaysAssumption DEF DisplaysAssumption, Install!SetupAssumption

LEMMA CfgGrows ==
    ASSUME NEW n \in Nat, NEW k \in Nat, n <= k
    PROVE  /\ ConfigsTo(n) \subseteq ConfigsTo(k) /\ Wizards(n) \subseteq Wizards(k)
           /\ Servers(n) \subseteq Servers(k)
<1>1. ConfigsTo(n) \subseteq ConfigsTo(k)
  BY DEF ConfigsTo
<1> QED
  BY <1>1 DEF Wizards, Servers

LEMMA NullsTyped ==
    ASSUME NEW n \in Nat
    PROVE  /\ Install!Defaults \in ConfigsTo(n) /\ Install!NoWizard \in Wizards(n)
           /\ Install!NoServer \in Servers(n)
           /\ \A code : Install!Over(code) \in Wizards(n)
<1>1. Install!Defaults \in ConfigsTo(n)
  BY SetupConstants DEF Install!Defaults, ConfigsTo, Install!Modes, Install!Addrs
<1>2. Install!NoWizard \in Wizards(n)
  BY <1>1 DEF Install!NoWizard, Wizards, Install!Homes, Install!Causes, WizardPlaces
<1>3. [Install!NoWizard EXCEPT !.pc = "service", !.as = "root"] \in Wizards(n)
  BY <1>2 DEF Wizards, Install!Homes, WizardPlaces
<1>4. Install!NoServer \in Servers(n)
  BY <1>1 DEF Install!NoServer, Servers, Install!Homes, ServerPlaces
<1> QED
  BY <1>1, <1>2, <1>3, <1>4 DEF Install!Over

LEMMA LoadTyped ==
    ASSUME SetupTyped, NEW h \in Install!Homes
    PROVE  Install!Load(h) \in ConfigsTo(passwords)
  BY DEF Install!Load, Install!Overlay, ConfigsTo, Install!Modes, SetupTyped, FilesTyped

\* A run of the wizard begins with the configuration of its home if that is complete.
BegunWith(h) == IF Install!IsComplete(Install!Load(h)) THEN Install!Load(h) ELSE Install!Defaults

LEMMA PromptingTyped ==
    ASSUME SetupTyped, NEW h \in Install!Homes, NEW b \in BOOLEAN
    PROVE  Install!Prompting(h, b) \in Wizards(passwords)
<1>1. passwords \in Nat
  BY DEF SetupTyped, FilesTyped
<1>2. /\ Install!NoWizard \in Wizards(passwords) /\ Install!Defaults \in ConfigsTo(passwords)
      /\ Install!Load(h) \in ConfigsTo(passwords)
  BY <1>1, NullsTyped, LoadTyped
<1>3. "db" \in WizardPlaces
  BY DEF WizardPlaces, AskingPlaces
<1>4. PICK c \in ConfigsTo(passwords) : c = BegunWith(h)
  BY <1>2 DEF BegunWith
<1>5. Install!Prompting(h, b) = [Install!NoWizard EXCEPT !.pc = "db", !.as = h, !.child = b,
                                 !.cfg = c, !.said = c]
  BY <1>4 DEF Install!Prompting, BegunWith
<1> QED
  BY <1>2, <1>3, <1>5 DEF Wizards

\* What the prompts and the steps after them make of the wizard's record is one again.
LEMMA CfgChanged ==
    ASSUME NEW n \in Nat, NEW c \in ConfigsTo(n)
    PROVE  /\ \A m \in Install!Modes : [c EXCEPT !.mode = m] \in ConfigsTo(n)
           /\ \A m \in Install!Modes : [c EXCEPT !.mode = m, !.pw = 0] \in ConfigsTo(n)
           /\ \A a \in Install!Addrs : [c EXCEPT !.listen = a] \in ConfigsTo(n)
           /\ \A p \in 0..n : [c EXCEPT !.pw = p] \in ConfigsTo(n)
           /\ \A j \in 0..MaxSecrets : [c EXCEPT !.jwt = j] \in ConfigsTo(n)
           /\ \A j \in 0..MaxAdmins : [c EXCEPT !.admin = j] \in ConfigsTo(n)
<1>1. \A m \in Install!Modes : [c EXCEPT !.mode = m] \in ConfigsTo(n)
  BY DEF ConfigsTo
<1>2. 0 \in 0..n
  OBVIOUS
<1>3. \A m \in Install!Modes : [c EXCEPT !.mode = m, !.pw = 0] \in ConfigsTo(n)
  BY <1>2 DEF ConfigsTo
<1>4. \A a \in Install!Addrs : [c EXCEPT !.listen = a] \in ConfigsTo(n)
  BY DEF ConfigsTo
<1>5. \A p \in 0..n : [c EXCEPT !.pw = p] \in ConfigsTo(n)
  BY DEF ConfigsTo
<1>6. \A j \in 0..MaxSecrets : [c EXCEPT !.jwt = j] \in ConfigsTo(n)
  BY DEF ConfigsTo
<1>7. \A j \in 0..MaxAdmins : [c EXCEPT !.admin = j] \in ConfigsTo(n)
  BY DEF ConfigsTo
<1> QED
  BY <1>1, <1>3, <1>4, <1>5, <1>6, <1>7

LEMMA PromptsTyped ==
    ASSUME SetupTyped, PromptSteps
    PROVE  wiz' \in Wizards(passwords)
<1>1. /\ passwords \in Nat /\ wiz \in Wizards(passwords) /\ wiz.cfg \in ConfigsTo(passwords)
      /\ wiz.said \in ConfigsTo(passwords) /\ admins \in 0..MaxAdmins /\ secrets \in 0..MaxSecrets
  BY DEF SetupTyped, FilesTyped, Wizards
<1>2. /\ [wiz.cfg EXCEPT !.mode = "embedded"] \in ConfigsTo(passwords)
      /\ [wiz.said EXCEPT !.mode = "embedded"] \in ConfigsTo(passwords)
      /\ [wiz.cfg EXCEPT !.mode = "external", !.pw = 0] \in ConfigsTo(passwords)
      /\ [wiz.said EXCEPT !.mode = "external"] \in ConfigsTo(passwords)
  BY <1>1, CfgChanged DEF Install!Modes
<1>3. "user" \in Install!Homes
  BY DEF Install!Homes
<1>4. CASE \E h \in Install!Homes : Install!RunSetup(h)
  BY <1>4, PromptingTyped DEF Install!RunSetup
<1>5. CASE Install!ChooseBundled
  BY <1>1, <1>2, <1>5 DEF Install!ChooseBundled, Wizards, WizardPlaces, AskingPlaces
<1>6. CASE Install!ChooseExternal
  BY <1>1, <1>2, <1>6 DEF Install!ChooseExternal, Wizards, WizardPlaces, AskingPlaces,
                          Install!Causes
<1>7. CASE \E a \in Install!Addrs : Install!Listen(a)
  <2>1. PICK a \in Install!Addrs : Install!Listen(a)
    BY <1>7
  <2>2. /\ [wiz.cfg EXCEPT !.listen = a] \in ConfigsTo(passwords)
        /\ [wiz.said EXCEPT !.listen = a] \in ConfigsTo(passwords)
    BY <1>1 DEF ConfigsTo
  <2> QED
    BY <1>1, <2>1, <2>2 DEF Install!Listen, Wizards, WizardPlaces, AskingPlaces
<1>8. CASE Install!Admin
  <2>1. /\ [wiz.cfg EXCEPT !.admin = admins + 1] \in ConfigsTo(passwords)
        /\ [wiz.said EXCEPT !.admin = admins + 1] \in ConfigsTo(passwords)
    <3>1. admins + 1 \in 0..MaxAdmins
      BY <1>1, <1>8, SetupConstants DEF Install!Admin
    <3> QED
      BY <1>1, <3>1 DEF ConfigsTo
  <2> QED
    BY <1>1, <1>8, <2>1 DEF Install!Admin, Wizards, WizardPlaces, AskingPlaces
<1>9. CASE Install!Jwt
  <2>1. [wiz.said EXCEPT !.jwt = wiz.cfg.jwt] \in ConfigsTo(passwords)
    BY <1>1 DEF ConfigsTo
  <2>2. CASE /\ secrets < MaxSecrets
             /\ wiz' = [wiz EXCEPT !.pc = "confirm", !.cfg.jwt = secrets + 1,
                        !.said.jwt = secrets + 1]
    <3>1. secrets + 1 \in 0..MaxSecrets
      BY <1>1, <2>2, SetupConstants
    <3>2. /\ [wiz.cfg EXCEPT !.jwt = secrets + 1] \in ConfigsTo(passwords)
          /\ [wiz.said EXCEPT !.jwt = secrets + 1] \in ConfigsTo(passwords)
      BY <1>1, <3>1 DEF ConfigsTo
    <3> QED
      BY <1>1, <2>2, <3>2 DEF Wizards, WizardPlaces, AskingPlaces
  <2>3. CASE wiz' = [wiz EXCEPT !.pc = "confirm", !.said.jwt = wiz.cfg.jwt]
    BY <1>1, <2>1, <2>3 DEF Wizards, WizardPlaces, AskingPlaces
  <2> QED
    BY <1>9, <2>2, <2>3 DEF Install!Jwt
<1>10. CASE Install!Back
  BY <1>1, <1>10 DEF Install!Back, Install!Goto, Install!Previous, Wizards, WizardPlaces,
                     AskingPlaces
<1>11. CASE Install!Quit
  BY <1>1, <1>11, NullsTyped DEF Install!Quit
<1>12. CASE Install!Confirm
  BY <1>1, <1>12 DEF Install!Confirm, Install!Goto, Wizards, WizardPlaces, AskingPlaces
<1>13. CASE Install!ChooseBundledAsRoot
  BY <1>1, <1>13 DEF Install!ChooseBundledAsRoot, Install!Goto, Wizards, WizardPlaces, AskingPlaces
<1>14. CASE Install!CreateAccount
  BY <1>1, <1>14 DEF Install!CreateAccount, Install!Goto, Wizards, WizardPlaces, AskingPlaces
<1>15. CASE Install!HandOver
  <2>1. CASE wiz' = Install!Prompting("user", TRUE)
    BY <1>3, <2>1, PromptingTyped
  <2>2. CASE Install!Goto("db")
    BY <1>1, <2>2 DEF Install!Goto, Wizards, WizardPlaces, AskingPlaces
  <2> QED
    BY <1>15, <2>1, <2>2 DEF Install!HandOver
<1>16. CASE Install!OfferService
  BY <1>1, <1>16, NullsTyped DEF Install!OfferService
<1> QED
  BY <1>4, <1>5, <1>6, <1>7, <1>8, <1>9, <1>10, <1>11, <1>12, <1>13, <1>14, <1>15, <1>16
     DEF PromptSteps

\* A start draws a password when it has none, and the cluster, if it was not there, is made
\* under what was drawn or given.
LEMMA StartTyped ==
    ASSUME SetupTyped, NEW c \in ConfigsTo(passwords), Install!CanDraw(c), Install!Opens(c),
           cluster' = Install!Used(c),
           passwords' = Install!Drawn(c)
    PROVE  /\ passwords' \in Nat /\ passwords <= passwords'
           /\ cluster' \in 0..passwords' /\ cluster' # 0 /\ cluster \in {0, cluster'}
           /\ c.pw = 0 => cluster = 0
           /\ c.pw # 0 => cluster' = c.pw
  BY DEF SetupTyped, FilesTyped, ConfigsTo, Install!CanDraw, Install!Opens, Install!Used,
         Install!Drawn

LEMMA StartBundledTyped ==
    ASSUME SetupTyped, Install!StartBundled
    PROVE  /\ passwords' \in Nat /\ passwords <= passwords' /\ cluster' \in 0..passwords'
           /\ wiz' \in Wizards(passwords')
<1>1. /\ passwords \in Nat /\ wiz \in Wizards(passwords) /\ wiz.cfg \in ConfigsTo(passwords)
      /\ cluster \in 0..passwords
  BY DEF SetupTyped, FilesTyped, Wizards
<1>2. CASE /\ Install!Started(wiz.cfg, "wizard")
           /\ wiz' = [wiz EXCEPT !.pc = IF wiz.cfg.pw = 0 THEN "keep" ELSE "migrate",
                      !.hand = cluster']
  <2>1. passwords' \in Nat /\ passwords <= passwords' /\ cluster' \in 0..passwords'
    BY <1>1, <1>2, StartTyped DEF Install!Started
  <2>2. wiz \in Wizards(passwords')
    BY <1>1, <2>1, CfgGrows
  <2> QED
    BY <1>2, <2>1, <2>2 DEF Wizards, WizardPlaces, DoingPlaces
<1>3. CASE Install!HalfStarted(wiz.cfg) /\ wiz' = Install!Over(1)
  <2>1. passwords' \in Nat /\ passwords <= passwords' /\ cluster' \in 0..passwords'
    BY <1>1, <1>3, StartTyped DEF Install!HalfStarted
  <2> QED
    BY <1>3, <2>1, NullsTyped
<1>4. CASE Install!Refused(wiz.cfg) /\ wiz' = Install!Over(1)
  BY <1>1, <1>4, NullsTyped DEF Install!Refused
<1> QED
  BY <1>2, <1>3, <1>4 DEF Install!StartBundled

LEMMA BootPostgresTyped ==
    ASSUME SetupTyped, Install!BootPostgres
    PROVE  /\ passwords' \in Nat /\ passwords <= passwords' /\ cluster' \in 0..passwords'
           /\ srv' \in Servers(passwords')
<1>1. /\ passwords \in Nat /\ srv \in Servers(passwords) /\ srv.cfg \in ConfigsTo(passwords)
      /\ cluster \in 0..passwords
  BY DEF SetupTyped, FilesTyped, Servers
<1>2. CASE /\ Install!Started(srv.cfg, "server")
           /\ srv' = [srv EXCEPT !.pc = IF srv.cfg.pw = 0 THEN "keep" ELSE "migrate",
                      !.hand = cluster']
  <2>1. passwords' \in Nat /\ passwords <= passwords' /\ cluster' \in 0..passwords'
    BY <1>1, <1>2, StartTyped DEF Install!Started
  <2>2. srv \in Servers(passwords')
    BY <1>1, <2>1, CfgGrows
  <2> QED
    BY <1>2, <2>1, <2>2 DEF Servers, ServerPlaces
<1>3. CASE Install!HalfStarted(srv.cfg) /\ srv' = Install!NoServer
  <2>1. passwords' \in Nat /\ passwords <= passwords' /\ cluster' \in 0..passwords'
    BY <1>1, <1>3, StartTyped DEF Install!HalfStarted
  <2> QED
    BY <1>3, <2>1, NullsTyped
<1>4. CASE Install!Refused(srv.cfg) /\ srv' = Install!NoServer
  BY <1>1, <1>4, NullsTyped DEF Install!Refused
<1> QED
  BY <1>2, <1>3, <1>4 DEF Install!BootPostgres

LEMMA KeepTyped ==
    ASSUME SetupTyped
    PROVE  /\ Install!KeepPassword
                => wiz' \in Wizards(passwords) /\ wiz'.cfg \in ConfigsTo(passwords)
           /\ Install!BootKeep
                => /\ srv' \in Servers(passwords) /\ srv'.cfg \in ConfigsTo(passwords)
                          /\ wiz' \in Wizards(passwords)
<1>1. /\ passwords \in Nat /\ wiz \in Wizards(passwords) /\ srv \in Servers(passwords)
      /\ wiz.cfg \in ConfigsTo(passwords) /\ wiz.hand \in 0..passwords
      /\ srv.cfg \in ConfigsTo(passwords) /\ srv.hand \in 0..passwords
  BY DEF SetupTyped, FilesTyped, Wizards, Servers
<1>2. /\ [wiz.cfg EXCEPT !.pw = wiz.hand] \in ConfigsTo(passwords)
      /\ [srv.cfg EXCEPT !.pw = srv.hand] \in ConfigsTo(passwords)
  BY <1>1, CfgChanged
<1>3. ASSUME Install!KeepPassword
      PROVE  wiz' \in Wizards(passwords) /\ wiz'.cfg \in ConfigsTo(passwords)
  <2>1. CASE wiz' = [wiz EXCEPT !.pc = "migrate", !.cfg.pw = wiz.hand]
    BY <1>1, <1>2, <2>1 DEF Wizards, WizardPlaces, DoingPlaces
  <2>2. CASE wiz' = [wiz EXCEPT !.pc = "migrate", !.cfg.pw = wiz.hand, !.kept = FALSE]
    BY <1>1, <1>2, <2>2 DEF Wizards, WizardPlaces, DoingPlaces
  <2> QED
    BY <1>3, <2>1, <2>2 DEF Install!KeepPassword
<1>4. ASSUME Install!BootKeep
      PROVE  /\ srv' \in Servers(passwords) /\ srv'.cfg \in ConfigsTo(passwords)
             /\ wiz' \in Wizards(passwords)
  <2>1. srv' = [srv EXCEPT !.pc = "migrate", !.cfg.pw = srv.hand]
    BY <1>4 DEF Install!BootKeep
  <2>2. srv' \in Servers(passwords) /\ srv'.cfg \in ConfigsTo(passwords)
    BY <1>1, <1>2, <2>1 DEF Servers, ServerPlaces
  <2>3. CASE wiz' = [wiz EXCEPT !.cause = "stale", !.kept = @ /\ ~ srv.crossed]
    <3>1. (wiz.kept /\ ~ srv.crossed) \in BOOLEAN
      OBVIOUS
    <3> QED
      BY <1>1, <2>2, <2>3, <3>1 DEF Wizards, Install!Causes
  <2>4. wiz' = wiz \/ wiz' = [wiz EXCEPT !.cause = "stale", !.kept = @ /\ ~ srv.crossed]
    BY <1>4 DEF Install!BootKeep
  <2> QED
    BY <1>1, <2>2, <2>3, <2>4
<1> QED
  BY <1>3, <1>4

LEMMA ServerTyped ==
    ASSUME SetupTyped, ServerSteps \/ HostSteps \/ (\E h \in Install!Homes : Install!Boot(h))
             \/ Install!SaveConfig \/ Install!RemovalDeletes
    PROVE  srv' \in Servers(passwords)
<1>1. passwords \in Nat /\ srv \in Servers(passwords) /\ Install!NoServer \in Servers(passwords)
  BY NullsTyped DEF SetupTyped, FilesTyped
<1>2. CASE ServerSteps
  BY <1>1, <1>2 DEF ServerSteps, Install!BootMigrate, Install!BootLook, Install!BootPlant,
                    Install!ChangeAdmin, Install!StopServer, Install!KillServer, Servers,
                    ServerPlaces
<1>3. CASE HostSteps
  BY <1>1, <1>3 DEF HostSteps, Install!InstallService, Install!UninstallService,
                    Install!PlanRemoval, Install!RemovalStopsPg, Install!RemovalStopsServer,
                    Install!RemovalEnds, Install!Reinstall
<1>4. CASE \E h \in Install!Homes : Install!Boot(h)
  <2>1. PICK h \in Install!Homes : Install!Boot(h)
    BY <1>4
  <2>2. Install!Load(h) \in ConfigsTo(passwords)
    BY LoadTyped
  <2> QED
    BY <1>1, <2>1, <2>2 DEF Install!Boot, Servers, ServerPlaces
<1>5. CASE Install!SaveConfig \/ Install!RemovalDeletes
  <2>1. srv' = srv \/ srv' = [srv EXCEPT !.crossed = srv.pc # "off"]
    BY <1>5 DEF Install!SaveConfig, Install!RemovalDeletes
  <2>2. (srv.pc # "off") \in BOOLEAN
    OBVIOUS
  <2> QED
    BY <1>1, <2>1, <2>2 DEF Servers
<1> QED
  BY <1>2, <1>3, <1>4, <1>5

LEMMA WizardTyped ==
    ASSUME SetupTyped,
           Install!SaveConfig \/ Install!Migrate \/ Install!PlantAdmin \/ Install!Interrupt
             \/ \E m \in Install!Modes, a \in Install!Addrs : Install!RunScripted(m, a)
    PROVE  wiz' \in Wizards(passwords)
<1>1. passwords \in Nat /\ wiz \in Wizards(passwords) /\ Install!NoWizard \in Wizards(passwords)
  BY NullsTyped DEF SetupTyped, FilesTyped
<1>2. CASE Install!SaveConfig
  BY <1>1, <1>2, NullsTyped DEF Install!SaveConfig, Wizards, WizardPlaces, DoingPlaces
<1>3. CASE Install!Migrate
  BY <1>1, <1>3, NullsTyped DEF Install!Migrate, Install!Goto, Wizards, WizardPlaces, DoingPlaces
<1>4. CASE Install!PlantAdmin
  BY <1>1, <1>4, NullsTyped DEF Install!PlantAdmin
<1>5. CASE Install!Interrupt
  BY <1>1, <1>5 DEF Install!Interrupt
<1>6. CASE \E m \in Install!Modes, a \in Install!Addrs : Install!RunScripted(m, a)
  <2>1. PICK m \in Install!Modes, a \in Install!Addrs : Install!RunScripted(m, a)
    BY <1>6
  <2>2. PICK c : c = [mode |-> m, listen |-> a, pw |-> 0, jwt |-> secrets + 1, admin |-> admins + 1]
    OBVIOUS
  <2>3. c \in ConfigsTo(passwords)
    <3>1. admins < MaxAdmins /\ secrets < MaxSecrets
      BY <2>1 DEF Install!RunScripted
    <3>2. secrets + 1 \in 0..MaxSecrets /\ admins + 1 \in 0..MaxAdmins
      BY <3>1, SetupConstants DEF SetupTyped, FilesTyped
    <3> QED
      BY <1>1, <2>2, <3>2 DEF ConfigsTo
  <2>4. wiz' = [Install!NoWizard EXCEPT !.pc = "save", !.cfg = c, !.said = c, !.cause = "scripted"]
    BY <2>1, <2>2 DEF Install!RunScripted
  <2> QED
    BY <1>1, <2>3, <2>4 DEF Wizards, WizardPlaces, AskingPlaces, Install!Causes
<1> QED
  BY <1>2, <1>3, <1>4, <1>5, <1>6

LEMMA FilesTypedStep ==
    ASSUME SetupTyped, Install!Next
    PROVE  FilesTyped' /\ passwords <= passwords'
<1>1. /\ passwords \in Nat /\ admins \in 0..MaxAdmins /\ secrets \in 0..MaxSecrets
      /\ cluster \in 0..passwords
      /\ config \in [Install!Homes -> ConfigsTo(passwords)] /\ "user" \in Install!Homes
  BY DEF SetupTyped, FilesTyped, Install!Homes
<1>2. wiz.cfg \in ConfigsTo(passwords) /\ Install!Defaults \in ConfigsTo(passwords)
  BY <1>1, NullsTyped DEF SetupTyped, Wizards
<1>3. admins' \in 0..MaxAdmins /\ secrets' \in 0..MaxSecrets
  <2>1. CASE PromptSteps
    <3>1. CASE \/ (\E h \in Install!Homes : Install!RunSetup(h))
               \/ (\E a \in Install!Addrs : Install!Listen(a))
      BY <1>1, <3>1 DEF Install!RunSetup, Install!Listen, Install!counted
    <3>2. CASE Install!Admin \/ Install!Jwt
      BY <1>1, <3>2, SetupConstants DEF Install!Admin, Install!Jwt
    <3>3. CASE \/ Install!ChooseBundled \/ Install!ChooseExternal \/ Install!ChooseBundledAsRoot
               \/ Install!Back \/ Install!Quit \/ Install!Confirm
               \/ Install!CreateAccount \/ Install!HandOver \/ Install!OfferService
      BY <1>1, <3>3 DEF Install!ChooseBundled, Install!ChooseExternal, Install!ChooseBundledAsRoot,
                        Install!Back, Install!Quit, Install!Confirm, Install!CreateAccount,
                        Install!HandOver, Install!OfferService, Install!counted
    <3> QED
      BY <2>1, <3>1, <3>2, <3>3 DEF PromptSteps
  <2>2. CASE ServerSteps
    BY <1>1, <2>2, SetupConstants DEF ServerSteps, Install!BootMigrate, Install!BootLook,
                                      Install!BootPlant, Install!ChangeAdmin, Install!StopServer,
                                      Install!KillServer, Install!counted
  <2>3. CASE HostSteps
    BY <1>1, <2>3, HostLeaves
  <2>4. CASE \E m \in Install!Modes, a \in Install!Addrs : Install!RunScripted(m, a)
    BY <1>1, <2>4, SetupConstants DEF Install!RunScripted
  <2>5. CASE \/ Install!SaveConfig \/ Install!StartBundled \/ Install!KeepPassword
             \/ Install!Migrate \/ Install!PlantAdmin \/ Install!Interrupt
             \/ (\E h \in Install!Homes : Install!Boot(h)) \/ Install!BootPostgres
             \/ Install!BootKeep \/ Install!RemovalDeletes
    BY <1>1, <2>5 DEF Install!SaveConfig, Install!StartBundled, Install!KeepPassword,
                      Install!Migrate, Install!PlantAdmin, Install!Interrupt, Install!Boot,
                      Install!BootPostgres, Install!BootKeep, Install!RemovalDeletes,
                      Install!counted
  <2> QED
    BY <2>1, <2>2, <2>3, <2>4, <2>5, SetupSteps
<1>4. /\ passwords' \in Nat /\ passwords <= passwords' /\ cluster' \in 0..passwords'
      /\ config' \in [Install!Homes -> ConfigsTo(passwords')]
  <2>1. CASE PromptSteps
    BY <1>1, <2>1, PromptsLeave
  <2>2. CASE ServerSteps
    BY <1>1, <2>2, ServerLeaves
  <2>3. CASE HostSteps
    BY <1>1, <2>3, HostLeaves
  <2>4. CASE \/ (\E m \in Install!Modes, a \in Install!Addrs : Install!RunScripted(m, a))
             \/ (\E h \in Install!Homes : Install!Boot(h))
    <3>1. UNCHANGED <<config, cluster, passwords>>
      BY <2>4 DEF Install!RunScripted, Install!Boot, Install!wizardOnly
    <3> QED
      BY <1>1, <3>1
  <2>11. CASE Install!Migrate \/ Install!PlantAdmin \/ Install!Interrupt
    BY <1>1, <2>11 DEF Install!Migrate, Install!PlantAdmin, Install!Interrupt, Install!counted
  <2>5. CASE Install!StartBundled
    <3>1. passwords' \in Nat /\ passwords <= passwords' /\ cluster' \in 0..passwords'
      BY <2>5, StartBundledTyped
    <3>2. config' = config /\ ConfigsTo(passwords) \subseteq ConfigsTo(passwords')
      BY <1>1, <2>5, <3>1, CfgGrows DEF Install!StartBundled
    <3> QED
      BY <1>1, <3>1, <3>2
  <2>6. CASE Install!BootPostgres
    <3>1. passwords' \in Nat /\ passwords <= passwords' /\ cluster' \in 0..passwords'
      BY <2>6, BootPostgresTyped
    <3>2. config' = config /\ ConfigsTo(passwords) \subseteq ConfigsTo(passwords')
      BY <1>1, <2>6, <3>1, CfgGrows DEF Install!BootPostgres
    <3> QED
      BY <1>1, <3>1, <3>2
  <2>7. CASE Install!SaveConfig
    BY <1>1, <1>2, <2>7 DEF Install!SaveConfig, Install!counted
  <2>8. CASE Install!KeepPassword
    <3>1. wiz'.cfg \in ConfigsTo(passwords)
      BY <2>8, KeepTyped
    <3>2. config' = [config EXCEPT !["user"] = wiz'.cfg] \/ config' = config
      BY <2>8 DEF Install!KeepPassword
    <3>3. passwords' = passwords /\ cluster' = cluster
      BY <2>8 DEF Install!KeepPassword, Install!counted
    <3> QED
      BY <1>1, <3>1, <3>2, <3>3
  <2>9. CASE Install!BootKeep
    <3>1. srv'.cfg \in ConfigsTo(passwords)
      BY <2>9, KeepTyped
    <3>2. config' = [config EXCEPT !["user"] = srv'.cfg] \/ config' = config
      BY <2>9 DEF Install!BootKeep
    <3>3. passwords' = passwords /\ cluster' = cluster
      BY <2>9 DEF Install!BootKeep, Install!counted
    <3> QED
      BY <1>1, <3>1, <3>2, <3>3
  <2>10. CASE Install!RemovalDeletes
    <3>1. config' = config \/ config' = [config EXCEPT !["user"] = Install!Defaults]
      BY <2>10 DEF Install!RemovalDeletes
    <3>2. passwords' = passwords /\ cluster' \in {0, cluster}
      BY <2>10 DEF Install!RemovalDeletes, Install!counted
    <3> QED
      BY <1>1, <1>2, <3>1, <3>2
  <2> QED
    BY <2>1, <2>2, <2>3, <2>4, <2>5, <2>6, <2>7, <2>8, <2>9, <2>10, <2>11, SetupSteps
<1> QED
  BY <1>3, <1>4 DEF FilesTyped

LEMMA InstallRowsStep ==
    ASSUME SetupTyped, Install!Next
    PROVE  InstallRows'
<1>1. /\ passwords \in Nat /\ passwords' \in Nat /\ passwords <= passwords'
      /\ admins \in 0..MaxAdmins
  BY FilesTypedStep DEF SetupTyped, FilesTyped
<1>2. ConfigsTo(passwords) \subseteq ConfigsTo(passwords')
  BY <1>1, CfgGrows
<1>3. /\ rows \in [Install!Modes -> 0..MaxAdmins] /\ chosen \in [Install!Modes -> 0..MaxAdmins]
      /\ overtaken \subseteq Install!Modes
      /\ applied \in [Install!Homes -> ConfigsTo(passwords) \union {None}]
  BY DEF SetupTyped, InstallRows
<1>4. applied \in [Install!Homes -> ConfigsTo(passwords') \union {None}]
  BY <1>2, <1>3
<1>5. /\ wiz.cfg.mode \in Install!Modes /\ wiz.cfg.admin \in 0..MaxAdmins
      /\ wiz.as \in Install!Homes
      /\ wiz.said \in ConfigsTo(passwords') /\ srv.cfg.mode \in Install!Modes
      /\ srv.cfg.admin \in 0..MaxAdmins
  BY <1>2 DEF SetupTyped, Wizards, Servers, ConfigsTo
<1>9. 0 \in 0..MaxAdmins
  BY SetupConstants
<1>6. rows' \in [Install!Modes -> 0..MaxAdmins] /\ chosen' \in [Install!Modes -> 0..MaxAdmins]
  <2>1. CASE PromptSteps
    BY <1>3, <2>1, PromptsLeave
  <2>2. CASE ServerSteps
    <3>1. CASE Install!ChangeAdmin
      <4>1. admins + 1 \in 0..MaxAdmins
        BY <1>1, <3>1, SetupConstants DEF Install!ChangeAdmin
      <4> QED
        BY <1>3, <1>5, <3>1, <4>1 DEF Install!ChangeAdmin
    <3>2. CASE Install!BootPlant
      BY <1>3, <1>5, <3>2 DEF Install!BootPlant
    <3>3. CASE Install!BootMigrate \/ Install!BootLook \/ Install!StopServer \/ Install!KillServer
      BY <1>3, <3>3 DEF Install!BootMigrate, Install!BootLook, Install!StopServer,
                        Install!KillServer, Install!serverOnly
    <3> QED
      BY <2>2, <3>1, <3>2, <3>3 DEF ServerSteps
  <2>3. CASE HostSteps
    BY <1>3, <2>3, HostLeaves
  <2>4. CASE Install!PlantAdmin
    BY <1>3, <1>5, <2>4 DEF Install!PlantAdmin
  <2>5. CASE Install!RemovalDeletes
    BY <1>3, <1>9, <2>5 DEF Install!RemovalDeletes
  <2>6. CASE \/ (\E m \in Install!Modes, a \in Install!Addrs : Install!RunScripted(m, a))
             \/ (\E h \in Install!Homes : Install!Boot(h))
    BY <1>3, <2>6 DEF Install!RunScripted, Install!Boot, Install!wizardOnly, Install!serverOnly,
                      Install!history
  <2>7. CASE \/ Install!SaveConfig \/ Install!StartBundled \/ Install!KeepPassword
             \/ Install!Migrate \/ Install!Interrupt \/ Install!BootPostgres \/ Install!BootKeep
    BY <1>3, <2>7 DEF Install!SaveConfig, Install!StartBundled, Install!KeepPassword,
                      Install!Migrate, Install!Interrupt, Install!BootPostgres, Install!BootKeep,
                      Install!serverOnly, Install!history
  <2> QED
    BY <2>1, <2>2, <2>3, <2>4, <2>5, <2>6, <2>7, SetupSteps
<1>7. applied' \in [Install!Homes -> ConfigsTo(passwords') \union {None}]
  <2>1. CASE PromptSteps
    BY <1>4, <2>1, PromptsLeave
  <2>2. CASE ServerSteps
    BY <1>4, <2>2, ServerLeaves
  <2>3. CASE HostSteps
    BY <1>4, <2>3, HostLeaves
  <2>4. CASE Install!PlantAdmin
    BY <1>4, <1>5, <2>4 DEF Install!PlantAdmin
  <2>5. CASE Install!RemovalDeletes
    BY <1>4, <2>5 DEF Install!RemovalDeletes
  <2>6. CASE Install!SaveConfig
    BY <1>4, <2>6 DEF Install!SaveConfig
  <2>7. CASE Install!BootKeep
    BY <1>4, <2>7 DEF Install!BootKeep
  <2>8. CASE \/ (\E m \in Install!Modes, a \in Install!Addrs : Install!RunScripted(m, a))
             \/ (\E h \in Install!Homes : Install!Boot(h))
    BY <1>4, <2>8 DEF Install!RunScripted, Install!Boot, Install!wizardOnly, Install!serverOnly,
                      Install!history
  <2>9. CASE \/ Install!StartBundled \/ Install!KeepPassword \/ Install!Migrate \/ Install!Interrupt
             \/ Install!BootPostgres
    BY <1>4, <2>9 DEF Install!StartBundled, Install!KeepPassword, Install!Migrate,
                      Install!Interrupt, Install!BootPostgres, Install!serverOnly, Install!history
  <2> QED
    BY <2>1, <2>2, <2>3, <2>4, <2>5, <2>6, <2>7, <2>8, <2>9, SetupSteps
<1>8. overtaken' \subseteq Install!Modes
  <2>1. CASE PromptSteps \/ ServerSteps \/ HostSteps
    BY <1>3, <2>1, PromptsLeave, ServerLeaves, HostLeaves
  <2>2. CASE Install!PlantAdmin
    BY <1>3, <1>5, <2>2 DEF Install!PlantAdmin
  <2>3. CASE \/ (\E m \in Install!Modes, a \in Install!Addrs : Install!RunScripted(m, a))
             \/ (\E h \in Install!Homes : Install!Boot(h))
    BY <1>3, <2>3 DEF Install!RunScripted, Install!Boot, Install!wizardOnly, Install!history
  <2>4. CASE \/ Install!SaveConfig \/ Install!StartBundled \/ Install!KeepPassword
             \/ Install!Migrate \/ Install!Interrupt \/ Install!BootPostgres \/ Install!BootKeep
             \/ Install!RemovalDeletes
    BY <1>3, <2>4 DEF Install!SaveConfig, Install!StartBundled, Install!KeepPassword,
                      Install!Migrate, Install!Interrupt, Install!BootPostgres, Install!BootKeep,
                      Install!RemovalDeletes, Install!history
  <2> QED
    BY <2>1, <2>2, <2>3, <2>4, SetupSteps
<1> QED
  BY <1>6, <1>7, <1>8 DEF InstallRows

LEMMA SetupTypedStep ==
    ASSUME SetupTyped, Install!Next
    PROVE  SetupTyped'
<1>1. FilesTyped' /\ InstallRows'
  BY FilesTypedStep, InstallRowsStep
<1>2. passwords \in Nat /\ passwords' \in Nat /\ passwords <= passwords'
  BY FilesTypedStep DEF SetupTyped, FilesTyped
<1>3. wiz \in Wizards(passwords') /\ srv \in Servers(passwords')
  BY <1>2, CfgGrows DEF SetupTyped
<1>4. wiz' \in Wizards(passwords') /\ srv' \in Servers(passwords')
  <2>1. CASE PromptSteps
    BY <1>3, <2>1, PromptsLeave, PromptsTyped
  <2>2. CASE ServerSteps \/ HostSteps
    BY <1>3, <2>2, ServerLeaves, HostLeaves, ServerTyped
  <2>3. CASE Install!SaveConfig
    BY <2>3, WizardTyped, ServerTyped DEF Install!SaveConfig, Install!counted
  <2>4. CASE (\E h \in Install!Homes : Install!Boot(h)) \/ Install!RemovalDeletes
    BY <1>3, <2>4, ServerTyped DEF Install!Boot, Install!RemovalDeletes, Install!serverOnly,
                                   Install!counted
  <2>5. CASE Install!Migrate \/ Install!PlantAdmin \/ Install!Interrupt
    BY <1>3, <2>5, WizardTyped DEF Install!Migrate, Install!PlantAdmin, Install!Interrupt,
                                   Install!counted
  <2>6. CASE \E m \in Install!Modes, a \in Install!Addrs : Install!RunScripted(m, a)
    BY <1>3, <2>6, WizardTyped DEF Install!RunScripted, Install!wizardOnly
  <2>7. CASE Install!StartBundled
    BY <1>3, <2>7, StartBundledTyped DEF Install!StartBundled
  <2>8. CASE Install!BootPostgres
    BY <1>3, <2>8, BootPostgresTyped DEF Install!BootPostgres, Install!serverOnly
  <2>9. CASE Install!KeepPassword
    BY <1>3, <2>9, KeepTyped DEF Install!KeepPassword, Install!counted
  <2>10. CASE Install!BootKeep
    BY <2>10, KeepTyped DEF Install!BootKeep, Install!counted
  <2> QED
    BY <2>1, <2>2, <2>3, <2>4, <2>5, <2>6, <2>7, <2>8, <2>9, <2>10, SetupSteps
<1> QED
  BY <1>1, <1>4 DEF SetupTyped

\* ------------------------------------ what the steps do, field by field
\* A wizard goes on with what it holds, or its command returns; so with the server.
HoldsOn == /\ wiz'.as = wiz.as /\ wiz'.cfg = wiz.cfg /\ wiz'.said = wiz.said /\ wiz'.hand = wiz.hand
           /\ wiz'.cause = wiz.cause /\ wiz'.kept = wiz.kept
Returned == wiz'.pc \in {"off", "service"} /\ wiz'.cfg = Install!Defaults
  /\ wiz'.said = Install!Defaults
ServesOn == srv'.as = srv.as /\ srv'.cfg = srv.cfg /\ srv'.hand = srv.hand

\* A prompt changes one answer, in what will be saved and in what was said.
OneAnswer ==
    /\ wiz'.as = wiz.as /\ wiz'.hand = wiz.hand /\ wiz'.kept = wiz.kept
    /\ \/ /\ Install!At("db") /\ wiz.as = "user" /\ wiz'.pc \in {"db", "listen"}
          /\ wiz'.cause = wiz.cause
          /\ wiz'.cfg = [wiz.cfg EXCEPT !.mode = "embedded"]
          /\ wiz'.said = [wiz.said EXCEPT !.mode = "embedded"]
       \/ /\ Install!At("db") /\ wiz'.pc \in {"db", "listen"} /\ wiz'.cause = "external"
          /\ wiz'.cfg = [wiz.cfg EXCEPT !.mode = "external", !.pw = 0]
          /\ wiz'.said = [wiz.said EXCEPT !.mode = "external"]
       \/ \E a \in Install!Addrs :
             /\ Install!At("listen") /\ wiz'.pc = "admin" /\ wiz'.cause = wiz.cause
             /\ wiz'.cfg = [wiz.cfg EXCEPT !.listen = a]
             /\ wiz'.said = [wiz.said EXCEPT !.listen = a]
       \/ /\ Install!At("admin") /\ wiz'.pc = "jwt" /\ wiz'.cause = wiz.cause
          /\ wiz'.cfg = [wiz.cfg EXCEPT !.admin = admins + 1]
          /\ wiz'.said = [wiz.said EXCEPT !.admin = admins + 1]
       \/ \E j \in Nat \ {0} :
             /\ Install!At("jwt") /\ wiz'.pc = "confirm" /\ wiz'.cause = wiz.cause
             /\ wiz'.cfg = [wiz.cfg EXCEPT !.jwt = j] /\ wiz'.said = [wiz.said EXCEPT !.jwt = j]

LEMMA PromptsFrom ==
    ASSUME PromptSteps
    PROVE  wiz.pc \notin DoingPlaces
  BY DEF PromptSteps, Install!RunSetup, Install!ChooseBundled, Install!ChooseExternal,
         Install!ChooseBundledAsRoot, Install!Listen, Install!Admin, Install!Jwt, Install!Back,
         Install!Previous, Install!Quit, Install!Confirm, Install!CreateAccount, Install!HandOver,
         Install!OfferService, Install!At, DoingPlaces

LEMMA PromptsDo ==
    ASSUME SetupTyped, PromptSteps
    PROVE  \/ \E h \in Install!Homes :
                 /\ wiz'.pc = "db" /\ wiz'.as = h /\ wiz'.cfg = BegunWith(h)
                 /\ wiz'.said = BegunWith(h)
                 /\ wiz'.cause = "none" /\ wiz'.kept /\ (Install!At("off") => un.pc = "off")
           \/ ~ Install!At("off") /\ Returned
           \/ /\ HoldsOn
              /\ \/ /\ wiz.pc \in {"db", "account", "copy"} /\ wiz'.pc \in {"db", "account", "copy"}
                    /\ (Install!At("db") => wiz.as = "root")
                 \/ wiz.pc \in {"listen", "admin", "jwt"} /\ wiz'.pc \in {"db", "listen", "admin"}
                 \/ Install!At("confirm") /\ wiz'.pc = "save"
           \/ OneAnswer
<1>1. /\ passwords \in Nat /\ wiz \in Wizards(passwords) /\ wiz.cfg \in ConfigsTo(passwords)
      /\ wiz.said \in ConfigsTo(passwords) /\ admins \in Nat /\ secrets \in Nat
  BY DEF SetupTyped, FilesTyped, Wizards
<1>2. ASSUME NEW h \in Install!Homes, NEW b \in BOOLEAN, wiz' = Install!Prompting(h, b)
      PROVE  /\ wiz'.pc = "db" /\ wiz'.as = h /\ wiz'.cfg = BegunWith(h) /\ wiz'.said = BegunWith(h)
             /\ wiz'.cause = "none" /\ wiz'.kept
  <2>1. /\ Install!NoWizard \in Wizards(passwords) /\ Install!NoWizard.cause = "none"
        /\ Install!NoWizard.kept
    BY <1>1, NullsTyped DEF Install!NoWizard
  <2>2. PICK c : c = BegunWith(h)
    OBVIOUS
  <2>3. wiz' = [Install!NoWizard EXCEPT !.pc = "db", !.as = h, !.child = b, !.cfg = c, !.said = c]
    BY <1>2, <2>2 DEF Install!Prompting, BegunWith
  <2> QED
    BY <2>1, <2>2, <2>3 DEF Wizards
<1>3. CASE \E h \in Install!Homes : Install!RunSetup(h)
  <2>1. PICK h \in Install!Homes : wiz' = Install!Prompting(h, FALSE) /\ un.pc = "off"
    BY <1>3 DEF Install!RunSetup
  <2> QED
    BY <1>2, <2>1
<1>4. CASE Install!ChooseBundled
  BY <1>1, <1>4 DEF Install!ChooseBundled, OneAnswer, Wizards, Install!At
<1>5. CASE Install!ChooseExternal
  BY <1>1, <1>5 DEF Install!ChooseExternal, OneAnswer, Wizards, Install!At
<1>6. CASE \E a \in Install!Addrs : Install!Listen(a)
  BY <1>1, <1>6 DEF Install!Listen, OneAnswer, Wizards, Install!At
<1>7. CASE Install!Admin
  BY <1>1, <1>7 DEF Install!Admin, OneAnswer, Wizards, Install!At
<1>8. CASE Install!Jwt
  <2>1. PICK j \in Nat \ {0} :
           \/ /\ j = secrets + 1
              /\ wiz' = [wiz EXCEPT !.pc = "confirm", !.cfg.jwt = secrets + 1,
                                    !.said.jwt = secrets + 1]
           \/ /\ j = wiz.cfg.jwt
              /\ wiz' = [wiz EXCEPT !.pc = "confirm", !.said.jwt = wiz.cfg.jwt]
    BY <1>1, <1>8 DEF Install!Jwt, ConfigsTo
  <2>2. wiz'.cfg = [wiz.cfg EXCEPT !.jwt = j] /\ wiz'.said = [wiz.said EXCEPT !.jwt = j]
    <3>1. [wiz.cfg EXCEPT !.jwt = wiz.cfg.jwt] = wiz.cfg
      BY <1>1 DEF ConfigsTo
    <3>2. CASE /\ j = secrets + 1
               /\ wiz' = [wiz EXCEPT !.pc = "confirm", !.cfg.jwt = secrets + 1,
                          !.said.jwt = secrets + 1]
      BY <1>1, <3>2 DEF Wizards
    <3>3. CASE j = wiz.cfg.jwt /\ wiz' = [wiz EXCEPT !.pc = "confirm", !.said.jwt = wiz.cfg.jwt]
      BY <1>1, <3>1, <3>3 DEF Wizards
    <3> QED
      BY <2>1, <3>2, <3>3
  <2>3. /\ wiz'.as = wiz.as /\ wiz'.hand = wiz.hand /\ wiz'.kept = wiz.kept
        /\ wiz'.cause = wiz.cause
        /\ Install!At("jwt") /\ wiz'.pc = "confirm"
    BY <1>1, <1>8, <2>1 DEF Install!Jwt, Wizards
  <2> QED
    BY <2>2, <2>3 DEF OneAnswer
<1>9. CASE Install!Back
  BY <1>1, <1>9 DEF Install!Back, Install!Goto, Install!Previous, Wizards, HoldsOn
<1>10. CASE Install!Quit
  BY <1>1, <1>10 DEF Install!Quit, Install!Over, Install!NoWizard, Returned, Install!At
<1>11. CASE Install!Confirm
  BY <1>1, <1>11 DEF Install!Confirm, Install!Goto, Wizards, HoldsOn
<1>12. CASE Install!ChooseBundledAsRoot
  BY <1>1, <1>12 DEF Install!ChooseBundledAsRoot, Install!Goto, Wizards, HoldsOn, Install!At
<1>13. CASE Install!CreateAccount
  BY <1>1, <1>13 DEF Install!CreateAccount, Install!Goto, Wizards, HoldsOn, Install!At
<1>14. CASE Install!HandOver
  <2>1. CASE wiz' = Install!Prompting("user", TRUE)
    BY <1>2, <1>14, <2>1 DEF Install!HandOver, Install!Homes, Install!At
  <2>2. CASE Install!Goto("db")
    BY <1>1, <1>14, <2>2 DEF Install!HandOver, Install!Goto, Wizards, HoldsOn, Install!At
  <2> QED
    BY <1>14, <2>1, <2>2 DEF Install!HandOver
<1>15. CASE Install!OfferService
  BY <1>15 DEF Install!OfferService, Install!NoWizard, Returned, Install!At
<1> QED
  BY <1>3, <1>4, <1>5, <1>6, <1>7, <1>8, <1>9, <1>10, <1>11, <1>12, <1>13, <1>14, <1>15
     DEF PromptSteps

LEMMA ScriptedDoes ==
    ASSUME SetupTyped, \E m \in Install!Modes, a \in Install!Addrs : Install!RunScripted(m, a)
    PROVE  /\ UNCHANGED <<scenario, config, cluster, passwords, rows, srv, un, chosen, applied,
                          dropped, overtaken>>
           /\ Install!At("off") /\ un.pc = "off"
           /\ wiz'.pc = "save" /\ wiz'.as = "user" /\ wiz'.cause = "scripted"
           /\ wiz'.said = wiz'.cfg /\ wiz'.cfg.pw = 0 /\ wiz'.cfg.jwt # 0
<1>1. PICK m \in Install!Modes, a \in Install!Addrs : Install!RunScripted(m, a)
  OBVIOUS
<1>2. PICK c : c = [mode |-> m, listen |-> a, pw |-> 0, jwt |-> secrets + 1, admin |-> admins + 1]
  OBVIOUS
<1>3. wiz' = [Install!NoWizard EXCEPT !.pc = "save", !.cfg = c, !.said = c, !.cause = "scripted"]
  BY <1>1, <1>2 DEF Install!RunScripted
<1>4. secrets \in Nat /\ passwords \in Nat
  BY DEF SetupTyped, FilesTyped
<1>5. Install!NoWizard \in Wizards(passwords) /\ Install!NoWizard.as = "user"
  BY <1>4, NullsTyped DEF Install!NoWizard
<1>6. /\ wiz'.pc = "save" /\ wiz'.as = "user" /\ wiz'.cause = "scripted" /\ wiz'.cfg = c
      /\ wiz'.said = c
  BY <1>3, <1>5 DEF Wizards
<1>7. c.pw = 0 /\ c.jwt # 0
  BY <1>2, <1>4
<1> QED
  BY <1>1, <1>6, <1>7 DEF Install!RunScripted, Install!wizardOnly, Install!history

LEMMA SaveDoes ==
    ASSUME SetupTyped, Install!SaveConfig
    PROVE  /\ Install!At("save")
           /\ UNCHANGED <<scenario, cluster, passwords, rows, un, chosen, overtaken>>
           /\ \/ /\ config' = [config EXCEPT ![wiz.as] = wiz.cfg]
                 /\ applied' = [applied EXCEPT ![wiz.as] = None]
                 /\ wiz'.pc = IF wiz.cfg.mode = "embedded" THEN "start" ELSE "migrate"
                 /\ HoldsOn /\ ServesOn /\ srv'.pc = srv.pc
                 /\ srv'.crossed = IF srv.as = wiz.as THEN srv.pc # "off" ELSE srv.crossed
                 /\ dropped' = IF cluster # 0 /\ wiz.as = "user" /\ wiz.cause # "none"
                               THEN wiz.cause ELSE dropped
              \/ Returned /\ UNCHANGED <<config, srv, applied, dropped>>
  BY DEF Install!SaveConfig, SetupTyped, Wizards, Servers, HoldsOn, ServesOn, Returned,
         Install!Over, Install!NoWizard, Install!At, Install!counted

\* A start that makes or opens the cluster: what it finds and what it leaves.
MadeOrOpened(c) ==
    /\ cluster' # 0 /\ cluster \in {0, cluster'}
    /\ c.pw = 0 => cluster = 0
    /\ c.pw # 0 => cluster' = c.pw

LEMMA StartDoes ==
    ASSUME SetupTyped, Install!StartBundled
    PROVE  /\ Install!At("start")
           /\ UNCHANGED <<scenario, config, rows, srv, un, chosen, applied, overtaken>>
           /\ \/ /\ MadeOrOpened(wiz.cfg) /\ UNCHANGED dropped
                 /\ wiz'.pc = IF wiz.cfg.pw = 0 THEN "keep" ELSE "migrate"
                 /\ wiz'.as = wiz.as /\ wiz'.cfg = wiz.cfg /\ wiz'.said = wiz.said
                 /\ wiz'.hand = cluster'
                 /\ wiz'.cause = wiz.cause /\ wiz'.kept = wiz.kept
              \/ MadeOrOpened(wiz.cfg) /\ Returned
                   /\ dropped' = IF wiz.cfg.pw = 0 THEN "unsaved" ELSE dropped
              \/ Returned /\ UNCHANGED <<cluster, dropped>>
<1>1. passwords \in Nat /\ wiz \in Wizards(passwords) /\ wiz.cfg \in ConfigsTo(passwords)
  BY DEF SetupTyped, FilesTyped, Wizards
<1>2. /\ Install!Over(1) = Install!NoWizard /\ Install!NoWizard.pc = "off"
      /\ Install!NoWizard.cfg = Install!Defaults /\ Install!NoWizard.said = Install!Defaults
  BY DEF Install!Over, Install!NoWizard
<1>3. Install!Started(wiz.cfg, "wizard") \/ Install!HalfStarted(wiz.cfg) => MadeOrOpened(wiz.cfg)
  BY <1>1, StartTyped DEF Install!Started, Install!HalfStarted, MadeOrOpened
<1>4. CASE /\ Install!Started(wiz.cfg, "wizard") /\ UNCHANGED dropped
           /\ wiz' = [wiz EXCEPT !.pc = IF wiz.cfg.pw = 0 THEN "keep" ELSE "migrate",
                      !.hand = cluster']
  <2>1. /\ wiz'.pc = IF wiz.cfg.pw = 0 THEN "keep" ELSE "migrate"
        /\ wiz'.as = wiz.as /\ wiz'.cfg = wiz.cfg /\ wiz'.said = wiz.said /\ wiz'.hand = cluster'
        /\ wiz'.cause = wiz.cause /\ wiz'.kept = wiz.kept
    BY <1>1, <1>4 DEF Wizards
  <2> QED
    BY <1>3, <1>4, <2>1 DEF Install!StartBundled
<1>5. CASE Install!HalfStarted(wiz.cfg) /\ wiz' = Install!Over(1)
             /\ dropped' = IF wiz.cfg.pw = 0 THEN "unsaved" ELSE dropped
  BY <1>2, <1>3, <1>5 DEF Install!StartBundled, Returned
<1>6. CASE Install!Refused(wiz.cfg) /\ wiz' = Install!Over(1)
  BY <1>2, <1>6 DEF Install!StartBundled, Install!Refused, Returned
<1> QED
  BY <1>4, <1>5, <1>6 DEF Install!StartBundled

LEMMA KeepDoes ==
    ASSUME SetupTyped, Install!KeepPassword
    PROVE  /\ Install!At("keep")
           /\ UNCHANGED <<scenario, cluster, passwords, rows, srv, un, chosen, applied, overtaken>>
           /\ wiz'.pc = "migrate" /\ wiz'.as = wiz.as /\ wiz'.said = wiz.said
           /\ wiz'.hand = wiz.hand
           /\ wiz'.cause = wiz.cause /\ wiz'.cfg = [wiz.cfg EXCEPT !.pw = wiz.hand]
           /\ \/ wiz'.kept = wiz.kept /\ config' = [config EXCEPT !["user"] = wiz'.cfg]
                   /\ UNCHANGED dropped
              \/ ~ wiz'.kept /\ dropped' = "unsaved" /\ UNCHANGED config
  BY DEF Install!KeepPassword, SetupTyped, Wizards, Install!At, Install!counted

LEMMA PlantDoes ==
    ASSUME SetupTyped, Install!PlantAdmin
    PROVE  /\ Install!At("plant")
           /\ UNCHANGED <<scenario, config, cluster, passwords, srv, un, dropped>> /\ Returned
           /\ \/ /\ rows' = [rows EXCEPT ![wiz.cfg.mode] = wiz.cfg.admin]
                 /\ chosen' = [chosen EXCEPT ![wiz.cfg.mode] = wiz.cfg.admin]
                 /\ applied' = [applied EXCEPT ![wiz.as] = IF wiz.kept THEN wiz.said ELSE None]
                 /\ overtaken' = IF Install!In("plant") THEN overtaken \union {wiz.cfg.mode}
                                 ELSE overtaken
              \/ UNCHANGED <<rows, chosen, applied, overtaken>>
<1>1. Returned
  <2>1. wiz' = Install!Over(0) \/ wiz' = Install!Over(1)
    BY DEF Install!PlantAdmin
  <2>2. /\ Install!Over(0) \in {Install!NoWizard,
                                [Install!NoWizard EXCEPT !.pc = "service", !.as = "root"]}
        /\ Install!Over(1) = Install!NoWizard
    BY DEF Install!Over
  <2>3. /\ Install!NoWizard \in Wizards(passwords) /\ Install!NoWizard.pc = "off"
        /\ Install!NoWizard.cfg = Install!Defaults
        /\ Install!NoWizard.said = Install!Defaults
    BY NullsTyped DEF Install!NoWizard, SetupTyped, FilesTyped
  <2>4. /\ [Install!NoWizard EXCEPT !.pc = "service", !.as = "root"].pc = "service"
        /\ [Install!NoWizard EXCEPT !.pc = "service", !.as = "root"].cfg = Install!Defaults
        /\ [Install!NoWizard EXCEPT !.pc = "service", !.as = "root"].said = Install!Defaults
    BY <2>3 DEF Wizards
  <2> QED
    BY <2>1, <2>2, <2>3, <2>4 DEF Returned
<1> QED
  BY <1>1 DEF Install!PlantAdmin, Install!In, Install!At, Install!counted

LEMMA EndsDo ==
    ASSUME SetupTyped, Install!Migrate \/ Install!Interrupt
    PROVE  /\ UNCHANGED <<scenario, config, cluster, passwords, rows, srv, un, chosen, applied,
                          overtaken>>
           /\ ~ Install!At("off")
           /\ \/ Install!At("migrate") /\ wiz'.pc = "plant" /\ HoldsOn /\ UNCHANGED dropped
              \/ Returned /\ dropped' = IF Install!At("keep") THEN "unsaved" ELSE dropped
<1>1. CASE Install!Migrate
  BY <1>1 DEF Install!Migrate, Install!Goto, SetupTyped, Wizards, HoldsOn, Install!Over,
              Install!NoWizard, Returned, Install!At, Install!counted, Install!history
<1>2. CASE Install!Interrupt
  BY <1>2 DEF Install!Interrupt, Install!NoWizard, Returned, Install!At, Install!counted
<1> QED
  BY <1>1, <1>2

LEMMA BootDoes ==
    ASSUME SetupTyped, NEW h \in Install!Homes, Install!Boot(h)
    PROVE  /\ UNCHANGED <<scenario, config, cluster, passwords, rows, wiz, un, chosen, applied,
                          dropped, overtaken>>
           /\ srv'.pc = IF Install!Load(h).mode = "embedded" THEN "start" ELSE "migrate"
           /\ srv'.as = h /\ srv'.cfg = Install!Load(h) /\ srv'.crossed = FALSE
           /\ Install!Load(h).jwt # 0 /\ (h = "root" => Install!Load(h).mode = "external")
<1>1. passwords \in Nat
  BY DEF SetupTyped, FilesTyped
<1>2. Install!NoServer \in Servers(passwords) /\ Install!NoServer.crossed = FALSE
  BY <1>1, NullsTyped DEF Install!NoServer
<1>3. PICK c : c = Install!Load(h)
  OBVIOUS
<1>4. PICK p : p = IF Install!Load(h).mode = "embedded" THEN "start" ELSE "migrate"
  OBVIOUS
<1>5. srv' = [Install!NoServer EXCEPT !.as = h, !.cfg = c, !.pc = p]
  BY <1>3, <1>4 DEF Install!Boot
<1>6. srv'.pc = p /\ srv'.as = h /\ srv'.cfg = c /\ srv'.crossed = FALSE
  BY <1>2, <1>5 DEF Servers
<1> QED
  BY <1>3, <1>4, <1>6 DEF Install!Boot, Install!serverOnly, Install!IsComplete

\* The password given up by a server that goes while it holds it.
LostBy == IF Install!In("keep") /\ cluster = srv.hand THEN "unsaved" ELSE dropped

LEMMA ServerDoes ==
    ASSUME SetupTyped, ServerSteps
    PROVE  /\ UNCHANGED <<scenario, config, cluster, passwords, wiz, un, applied, overtaken>>
           /\ ~ Install!In("off")
           /\ \/ srv'.pc = "off" /\ UNCHANGED <<rows, chosen>> /\ dropped' = LostBy
              \/ /\ srv.pc \in {"migrate", "look", "plant"}
                 /\ ServesOn /\ srv'.pc \in {"look", "up", "plant"}
                 /\ UNCHANGED <<rows, chosen, dropped>>
                 /\ srv'.pc = "plant" => rows[srv.cfg.mode] = 0
              \/ /\ ServesOn /\ srv'.pc = "up" /\ Install!In("plant") /\ UNCHANGED dropped
                 /\ rows' = [rows EXCEPT ![srv.cfg.mode] = srv.cfg.admin]
                 /\ chosen' = [chosen EXCEPT ![srv.cfg.mode] = IF @ = 0 THEN srv.cfg.admin ELSE @]
              \/ /\ srv' = srv /\ Install!In("up") /\ UNCHANGED dropped
                 /\ rows' = [rows EXCEPT ![srv.cfg.mode] = admins + 1]
                 /\ chosen' = [chosen EXCEPT ![srv.cfg.mode] = admins + 1]
<1>1. srv \in Servers(passwords) /\ Install!NoServer.pc = "off"
  BY DEF SetupTyped, Install!NoServer
<1>2. UNCHANGED <<scenario, config, cluster, passwords, wiz, un, applied, overtaken>>
  BY ServerLeaves
<1>3. CASE Install!BootMigrate
  BY <1>1, <1>2, <1>3 DEF Install!BootMigrate, Install!serverOnly, Servers, ServesOn, LostBy,
                          Install!In
<1>4. CASE Install!BootLook
  BY <1>1, <1>2, <1>4 DEF Install!BootLook, Install!serverOnly, Servers, ServesOn, Install!In
<1>5. CASE Install!BootPlant
  BY <1>1, <1>2, <1>5 DEF Install!BootPlant, Servers, ServesOn, Install!In
<1>6. CASE Install!ChangeAdmin
  BY <1>1, <1>2, <1>6 DEF Install!ChangeAdmin, Install!In
<1>7. CASE Install!StopServer
  BY <1>1, <1>2, <1>7 DEF Install!StopServer, Install!serverOnly, LostBy, Install!In
<1>8. CASE Install!KillServer
  BY <1>1, <1>2, <1>8 DEF Install!KillServer, Install!serverOnly, LostBy, Install!In
<1> QED
  BY <1>3, <1>4, <1>5, <1>6, <1>7, <1>8 DEF ServerSteps

LEMMA HostDoes ==
    ASSUME SetupTyped, HostSteps
    PROVE  /\ UNCHANGED <<scenario, config, cluster, passwords, rows, wiz, chosen, applied,
                          overtaken>>
           /\ (srv' = srv /\ UNCHANGED dropped) \/ (srv'.pc = "off" /\ dropped' = LostBy)
           /\ un'.pc = "off" \/ Install!At("off") \/ un' = un \/ un.pc # "off"
<1>1. UNCHANGED <<scenario, config, cluster, passwords, rows, wiz, chosen, applied, overtaken>>
  BY HostLeaves
<1>2. Install!NoServer.pc = "off"
  BY DEF Install!NoServer
<1>3. CASE \/ Install!InstallService \/ Install!RemovalStopsPg \/ Install!RemovalEnds
           \/ Install!Reinstall
  BY <1>1, <1>3 DEF Install!InstallService, Install!RemovalStopsPg, Install!RemovalEnds,
                    Install!Reinstall
<1>6. CASE \E keep \in BOOLEAN : Install!PlanRemoval(keep)
  BY <1>1, <1>6 DEF Install!PlanRemoval
<1>4. CASE Install!UninstallService
  BY <1>1, <1>2, <1>4 DEF Install!UninstallService, LostBy, Install!In
<1>5. CASE Install!RemovalStopsServer
  BY <1>1, <1>2, <1>5 DEF Install!RemovalStopsServer, LostBy, Install!In
<1> QED
  BY <1>3, <1>4, <1>5, <1>6 DEF HostSteps

LEMMA BootPostgresDoes ==
    ASSUME SetupTyped, Install!BootPostgres
    PROVE  /\ Install!In("start")
           /\ UNCHANGED <<scenario, config, rows, wiz, un, chosen, applied, overtaken>>
           /\ \/ /\ MadeOrOpened(srv.cfg)
                      /\ dropped' = IF Install!MadeStale THEN "stale" ELSE dropped
                 /\ srv'.pc = IF srv.cfg.pw = 0 THEN "keep" ELSE "migrate"
                 /\ srv'.as = srv.as /\ srv'.cfg = srv.cfg /\ srv'.hand = cluster'
                 /\ srv'.crossed = srv.crossed
              \/ /\ MadeOrOpened(srv.cfg) /\ srv'.pc = "off"
                 /\ dropped' = IF srv.cfg.pw = 0 THEN "unsaved"
                               ELSE IF Install!MadeStale THEN "stale" ELSE dropped
              \/ srv'.pc = "off" /\ UNCHANGED <<cluster, dropped>>
<1>1. /\ passwords \in Nat /\ srv \in Servers(passwords) /\ srv.cfg \in ConfigsTo(passwords)
      /\ Install!NoServer.pc = "off"
  BY DEF SetupTyped, FilesTyped, Servers, Install!NoServer
<1>2. Install!Started(srv.cfg, "server") \/ Install!HalfStarted(srv.cfg) => MadeOrOpened(srv.cfg)
  BY <1>1, StartTyped DEF Install!Started, Install!HalfStarted, MadeOrOpened
<1>3. CASE /\ Install!Started(srv.cfg, "server")
           /\ dropped' = IF Install!MadeStale THEN "stale" ELSE dropped
           /\ srv' = [srv EXCEPT !.pc = IF srv.cfg.pw = 0 THEN "keep" ELSE "migrate",
                      !.hand = cluster']
  <2>1. /\ srv'.pc = IF srv.cfg.pw = 0 THEN "keep" ELSE "migrate"
        /\ srv'.as = srv.as /\ srv'.cfg = srv.cfg /\ srv'.hand = cluster'
        /\ srv'.crossed = srv.crossed
    BY <1>1, <1>3 DEF Servers
  <2> QED
    BY <1>2, <1>3, <2>1 DEF Install!BootPostgres, Install!serverOnly
<1>4. CASE /\ Install!HalfStarted(srv.cfg) /\ srv' = Install!NoServer
           /\ dropped' = IF srv.cfg.pw = 0 THEN "unsaved"
                         ELSE IF Install!MadeStale THEN "stale" ELSE dropped
  BY <1>1, <1>2, <1>4 DEF Install!BootPostgres, Install!serverOnly
<1>5. CASE Install!Refused(srv.cfg) /\ srv' = Install!NoServer
  BY <1>1, <1>5 DEF Install!BootPostgres, Install!serverOnly, Install!Refused
<1> QED
  BY <1>3, <1>4, <1>5 DEF Install!BootPostgres

LEMMA BootKeepDoes ==
    ASSUME SetupTyped, Install!BootKeep
    PROVE  /\ Install!In("keep")
           /\ UNCHANGED <<scenario, cluster, passwords, rows, un, chosen, overtaken>>
           /\ srv'.pc = "migrate" /\ srv'.cfg = [srv.cfg EXCEPT !.pw = srv.hand]
           /\ \/ /\ config' = [config EXCEPT !["user"] = srv'.cfg]
                 /\ applied' = IF srv.crossed THEN [applied EXCEPT !["user"] = None] ELSE applied
                 /\ wiz'.pc = wiz.pc /\ wiz'.as = wiz.as /\ wiz'.cfg = wiz.cfg
                 /\ wiz'.said = wiz.said
                 /\ wiz'.hand = wiz.hand
                 /\ wiz'.cause = IF Install!At("off") \/ wiz.as = "root" THEN wiz.cause ELSE "stale"
                 /\ wiz'.kept = IF Install!At("off") \/ wiz.as = "root"
                                 THEN wiz.kept ELSE wiz.kept /\ ~ srv.crossed
                 /\ dropped' = IF srv.crossed /\ cluster \notin {0, srv.hand}
                               THEN "stale" ELSE dropped
              \/ /\ dropped' = IF cluster = srv.hand THEN "unsaved" ELSE dropped
                 /\ UNCHANGED <<config, applied, wiz>>
<1>1. wiz \in Wizards(passwords) /\ srv \in Servers(passwords)
  BY DEF SetupTyped
<1>2. srv'.pc = "migrate" /\ srv'.cfg = [srv.cfg EXCEPT !.pw = srv.hand]
  BY <1>1 DEF Install!BootKeep, Servers
<1>3. CASE /\ config' = [config EXCEPT !["user"] = srv'.cfg]
           /\ applied' = IF srv.crossed THEN [applied EXCEPT !["user"] = None] ELSE applied
           /\ wiz' = IF Install!At("off") \/ wiz.as = "root" THEN wiz
                     ELSE [wiz EXCEPT !.cause = "stale", !.kept = @ /\ ~ srv.crossed]
           /\ dropped' = IF srv.crossed /\ cluster \notin {0, srv.hand} THEN "stale" ELSE dropped
  <2>1. CASE Install!At("off") \/ wiz.as = "root"
    BY <1>2, <1>3, <2>1 DEF Install!BootKeep, Install!In, Install!counted
  <2>2. CASE ~ (Install!At("off") \/ wiz.as = "root")
    <3>1. wiz' = [wiz EXCEPT !.cause = "stale", !.kept = @ /\ ~ srv.crossed]
      BY <1>3, <2>2
    <3>2. /\ wiz'.pc = wiz.pc /\ wiz'.as = wiz.as /\ wiz'.cfg = wiz.cfg /\ wiz'.said = wiz.said
          /\ wiz'.hand = wiz.hand /\ wiz'.cause = "stale" /\ wiz'.kept = (wiz.kept /\ ~ srv.crossed)
      BY <1>1, <3>1 DEF Wizards
    <3> QED
      BY <1>2, <1>3, <2>2, <3>2 DEF Install!BootKeep, Install!In, Install!counted
  <2> QED
    BY <2>1, <2>2
<1>4. CASE UNCHANGED <<config, applied, wiz>>
             /\ dropped' = IF cluster = srv.hand THEN "unsaved" ELSE dropped
  BY <1>2, <1>4 DEF Install!BootKeep, Install!In, Install!counted
<1> QED
  BY <1>3, <1>4 DEF Install!BootKeep

LEMMA DeletesDo ==
    ASSUME SetupTyped, Install!RemovalDeletes
    PROVE  /\ un.pc = "delete"
           /\ UNCHANGED <<scenario, passwords, wiz, overtaken>>
           /\ \/ un.keep /\ scenario.file = "inside" /\ UNCHANGED config
              \/ ~ (un.keep /\ scenario.file = "inside")
                   /\ config' = [config EXCEPT !["user"] = Install!Defaults]
           /\ \/ un.keep /\ UNCHANGED <<cluster, rows, chosen>>
              \/ /\ ~ un.keep /\ cluster' = 0 /\ rows' = [rows EXCEPT !["embedded"] = 0]
                 /\ chosen' = [chosen EXCEPT !["embedded"] = 0]
           /\ dropped' = IF cluster' = 0 THEN "none"
                         ELSE IF scenario.file = "inside" THEN dropped ELSE "uninstalled"
           /\ applied' = [applied EXCEPT !["user"] = None]
           /\ ServesOn /\ srv'.pc = srv.pc
           /\ srv'.crossed = IF srv.as = "user" THEN srv.pc # "off" ELSE srv.crossed
<1>1. /\ srv \in Servers(passwords) /\ rows \in [Install!Modes -> 0..MaxAdmins]
      /\ chosen \in [Install!Modes -> 0..MaxAdmins]
  BY DEF SetupTyped, InstallRows
<1>2. /\ [rows EXCEPT !["embedded"] = rows["embedded"]] = rows
      /\ [chosen EXCEPT !["embedded"] = chosen["embedded"]] = chosen
  BY <1>1
<1>3. \/ un.keep /\ UNCHANGED <<cluster, rows, chosen>>
      \/ /\ ~ un.keep /\ cluster' = 0 /\ rows' = [rows EXCEPT !["embedded"] = 0]
         /\ chosen' = [chosen EXCEPT !["embedded"] = 0]
  BY <1>2 DEF Install!RemovalDeletes
<1>4. ServesOn /\ srv'.pc = srv.pc
        /\ srv'.crossed = IF srv.as = "user" THEN srv.pc # "off" ELSE srv.crossed
  BY <1>1 DEF Install!RemovalDeletes, Servers, ServesOn
<1> QED
  BY <1>3, <1>4 DEF Install!RemovalDeletes, Install!hostOnly, Install!counted

\* ------------------------------------------------------ the invariant
\* Nobody is at the wizard while the uninstaller runs, a configuration with a cluster's
\* password has a signing secret, and the bundled cluster is the user's.
NobodyAside == un.pc = "off" \/ Install!At("off")
SecretsKept ==
    /\ config["user"].pw # 0 => config["user"].jwt # 0
    /\ wiz.pc \in {"confirm", "save"} \union DoingPlaces => wiz.cfg.jwt # 0
    /\ ~ Install!In("off") => srv.cfg.jwt # 0
WizardPlaced ==
    /\ wiz.pc \in {"account", "copy"} => wiz.as = "root"
    /\ Install!At("start") \/ Install!At("keep") => wiz.as = "user" /\ wiz.cfg.mode = "embedded"
    /\ (/\ wiz.as = "root"
        /\ wiz.pc \in {"listen", "admin", "jwt", "confirm", "save"} \union DoingPlaces)
          => wiz.cfg.mode = "external"
    /\ Install!In("start") \/ Install!In("keep")
         => srv.as = "user" /\ srv.cfg.mode = "embedded" /\ ~ Install!May("env")

\* The one who is about to write a password down is the only one, and it is the cluster's.
HandsHold ==
    /\ Install!At("keep") => cluster = wiz.hand /\ wiz.hand # 0 /\ wiz.cfg.pw = 0
    /\ Install!In("keep") => srv.hand # 0 /\ srv.cfg.pw = 0
    /\ Install!In("keep") /\ ~ srv.crossed => cluster = srv.hand /\ ~ Install!At("keep")
    /\ Install!In("keep") /\ cluster = 0 =>
          /\ config["user"].pw = 0
          /\ wiz.as = "user" /\ wiz.pc \in AskingPlaces \union {"start"} => wiz.cfg.pw = 0

\* What was read of the user's file still is what it says, unless something is known to have
\* come between.
ReadFresh ==
    /\ wiz.as = "user" /\ wiz.pc \in AskingPlaces /\ wiz.cause = "none"
         => wiz.cfg.pw = config["user"].pw
    /\ Install!At("start") /\ wiz.cfg.pw # 0 /\ (cluster = 0 \/ wiz.kept)
         => config["user"].pw = wiz.cfg.pw
    /\ Install!In("start") /\ ~ srv.crossed /\ cluster = 0 => srv.cfg = config["user"]
    /\ Install!In("keep") /\ ~ srv.crossed => srv.cfg = config["user"]

\* What the wizard at work has done so far, and what the last one of each home has reported.
Agrees(c, d) == c.mode = d.mode /\ c.listen = d.listen /\ c.jwt = d.jwt /\ c.admin = d.admin
OpensNow == config["user"].mode = "embedded" => config["user"].pw = cluster /\ cluster # 0
DoneSoFar ==
    /\ Agrees(wiz.cfg, wiz.said)
    /\ wiz.pc \in DoingPlaces =>
          /\ wiz.kept => Agrees(config[wiz.as], wiz.said)
          /\ applied[wiz.as] = None
          /\ wiz.as = "root" => config["root"].mode = "external"
    /\ wiz.pc \in {"migrate", "plant"} /\ wiz.kept /\ wiz.as = "user" => OpensNow
Reported ==
    /\ \A h \in Install!Homes : applied[h] # None => Agrees(config[h], applied[h])
    /\ applied["root"] # None => config["root"].mode = "external"
    /\ applied["user"] # None => OpensNow
RowsChosen ==
    /\ \A m \in Install!Modes \ overtaken : rows[m] = chosen[m]
    /\ Install!In("plant") /\ srv.cfg.mode \notin overtaken => rows[srv.cfg.mode] = 0

SetupInv ==
    /\ SetupTyped /\ MachineTyped /\ NobodyAside /\ SecretsKept /\ WizardPlaced /\ HandsHold
    /\ ReadFresh /\ Install!ClusterOpens
    /\ DoneSoFar /\ Reported /\ RowsChosen

\* The cluster's password that a wizard at its prompts is going to write: the one the file has,
\* none after a choice of an external database, or what it held before.
LEMMA PromptsPw ==
    ASSUME SetupInv, PromptSteps
    PROVE  /\ wiz'.pc \notin DoingPlaces
           /\ wiz'.as = "user" /\ wiz'.pc \in AskingPlaces =>
                 \/ wiz'.cfg.pw = config["user"].pw /\ wiz'.cause = "none"
                 \/ wiz'.cfg.pw = 0 /\ wiz'.cause = "external"
                 \/ /\ wiz.as = "user" /\ wiz.pc \in AskingPlaces
                    /\ wiz'.cfg.pw = wiz.cfg.pw /\ wiz'.cause = wiz.cause
<1>1. /\ SetupTyped /\ passwords \in Nat /\ wiz.cfg \in ConfigsTo(passwords)
      /\ config["user"] \in ConfigsTo(passwords) /\ config["user"].pw \in Nat
  BY DEF SetupInv, SetupTyped, FilesTyped, Wizards, Install!Homes, ConfigsTo
<1>2. ASSUME NEW h \in Install!Homes, wiz'.pc = "db", wiz'.as = h, wiz'.cfg = BegunWith(h),
             wiz'.cause = "none", h = "user"
      PROVE  wiz'.cfg.pw = config["user"].pw
  <2>1. Install!Load(h).pw = config[h].pw /\ Install!Load(h).jwt = config[h].jwt
    BY <1>1, <1>2 DEF Install!Load, Install!Overlay, ConfigsTo
  <2>2. config["user"].jwt = 0 => config["user"].pw = 0
    BY DEF SetupInv, SecretsKept
  <2> QED
    BY <1>1, <1>2, <2>1, <2>2 DEF BegunWith, Install!IsComplete, Install!Defaults
<1>3. CASE ~ Install!At("off") /\ Returned
  BY <1>3 DEF Returned, DoingPlaces, AskingPlaces
<1>4. CASE OneAnswer
  BY <1>1, <1>4 DEF OneAnswer, ConfigsTo, DoingPlaces, AskingPlaces, Install!At
<1>5. CASE /\ HoldsOn
           /\ \/ /\ wiz.pc \in {"db", "account", "copy"} /\ wiz'.pc \in {"db", "account", "copy"}
                 /\ (Install!At("db") => wiz.as = "root")
              \/ wiz.pc \in {"listen", "admin", "jwt"} /\ wiz'.pc \in {"db", "listen", "admin"}
              \/ Install!At("confirm") /\ wiz'.pc = "save"
  BY <1>5 DEF HoldsOn, SetupInv, WizardPlaced, DoingPlaces, AskingPlaces, Install!At
<1> QED
  BY <1>1, <1>2, <1>3, <1>4, <1>5, PromptsDo DEF DoingPlaces, AskingPlaces

LEMMA NobodyAsideStep ==
    ASSUME SetupInv, Install!Next
    PROVE  NobodyAside'
<1>1. SetupTyped
  BY DEF SetupInv
<1>2. /\ passwords \in Nat /\ wiz.cfg \in ConfigsTo(passwords) /\ srv.cfg \in ConfigsTo(passwords)
      /\ wiz.said \in ConfigsTo(passwords)
      /\ config \in [Install!Homes -> ConfigsTo(passwords)]
      /\ config["user"] \in ConfigsTo(passwords) /\ wiz.as \in Install!Homes
      /\ srv.as \in Install!Homes
      /\ applied \in [Install!Homes -> ConfigsTo(passwords) \union {None}]
  BY <1>1 DEF SetupTyped, FilesTyped, InstallRows, Wizards, Servers, Install!Homes
<1>3. CASE PromptSteps
  BY <1>1, <1>2, <1>3, PromptsDo, PromptsLeave DEF SetupInv, NobodyAside, OneAnswer, HoldsOn,
                                                   Returned, BegunWith, Install!Load,
                                                   Install!Overlay, Install!IsComplete,
                                                   Install!Defaults, Install!At, Install!In,
                                                   Install!May, Install!Homes, ConfigsTo
<1>4. CASE \E m \in Install!Modes, a \in Install!Addrs : Install!RunScripted(m, a)
  BY <1>1, <1>2, <1>4, ScriptedDoes DEF SetupInv, NobodyAside, Install!At, Install!In, Install!May,
                                        Install!Homes, ConfigsTo
<1>5. CASE Install!SaveConfig
  BY <1>1, <1>2, <1>5, SaveDoes DEF SetupInv, NobodyAside, HoldsOn, ServesOn, Returned,
                                    Install!Defaults, Install!At, Install!In, Install!May,
                                    Install!Homes, ConfigsTo
<1>6. CASE Install!StartBundled
  BY <1>1, <1>2, <1>6, StartDoes DEF SetupInv, NobodyAside, MadeOrOpened, Returned,
                                     Install!Defaults, Install!At, Install!In, Install!May,
                                     Install!Homes, ConfigsTo
<1>7. CASE Install!KeepPassword
  BY <1>1, <1>2, <1>7, KeepDoes DEF SetupInv, NobodyAside, Install!At, Install!In, Install!May,
                                    Install!Homes, ConfigsTo
<1>8. CASE Install!PlantAdmin
  BY <1>1, <1>2, <1>8, PlantDoes DEF SetupInv, NobodyAside, Returned, Install!Defaults, Install!At,
                                     Install!In, Install!May, Install!Homes, ConfigsTo
<1>9. CASE Install!Migrate \/ Install!Interrupt
  BY <1>1, <1>2, <1>9, EndsDo DEF SetupInv, NobodyAside, HoldsOn, Returned, Install!Defaults,
                                  Install!At, Install!In, Install!May, Install!Homes, ConfigsTo
<1>10. CASE \E h \in Install!Homes : Install!Boot(h)
  <2>1. PICK h \in Install!Homes : Install!Boot(h)
    BY <1>10
  <2> QED
    BY <1>1, <1>2, <2>1, BootDoes DEF SetupInv, NobodyAside, Install!Load, Install!Overlay,
                                      Install!At, Install!In, Install!May, Install!Homes, ConfigsTo
<1>11. CASE ServerSteps
  BY <1>1, <1>2, <1>11, ServerDoes DEF SetupInv, NobodyAside, ServesOn, LostBy, Install!At,
                                       Install!In, Install!May, Install!Homes, ConfigsTo
<1>12. CASE HostSteps
  BY <1>1, <1>2, <1>12, HostDoes DEF SetupInv, NobodyAside, LostBy, Install!At, Install!In,
                                     Install!May, Install!Homes, ConfigsTo
<1>13. CASE Install!BootPostgres
  BY <1>1, <1>2, <1>13, BootPostgresDoes DEF SetupInv, NobodyAside, MadeOrOpened, Install!MadeStale,
                                             Install!At, Install!In, Install!May, Install!Homes,
                                             ConfigsTo
<1>14. CASE Install!BootKeep
  BY <1>1, <1>2, <1>14, BootKeepDoes DEF SetupInv, NobodyAside, Install!At, Install!In, Install!May,
                                         Install!Homes, ConfigsTo
<1>15. CASE Install!RemovalDeletes
  BY <1>1, <1>2, <1>15, DeletesDo DEF SetupInv, NobodyAside, ServesOn, Install!Defaults, Install!At,
                                      Install!In, Install!May, Install!Homes, ConfigsTo
<1> QED
  BY <1>3, <1>4, <1>5, <1>6, <1>7, <1>8, <1>9, <1>10, <1>11, <1>12, <1>13, <1>14, <1>15, SetupSteps

LEMMA SecretsKeptStep ==
    ASSUME SetupInv, Install!Next
    PROVE  SecretsKept'
<1>1. SetupTyped
  BY DEF SetupInv
<1>2. /\ passwords \in Nat /\ wiz.cfg \in ConfigsTo(passwords) /\ srv.cfg \in ConfigsTo(passwords)
      /\ wiz.said \in ConfigsTo(passwords)
      /\ config \in [Install!Homes -> ConfigsTo(passwords)]
      /\ config["user"] \in ConfigsTo(passwords) /\ wiz.as \in Install!Homes
      /\ srv.as \in Install!Homes
      /\ applied \in [Install!Homes -> ConfigsTo(passwords) \union {None}]
  BY <1>1 DEF SetupTyped, FilesTyped, InstallRows, Wizards, Servers, Install!Homes
<1>3. CASE PromptSteps
  BY <1>1, <1>2, <1>3, PromptsDo, PromptsLeave DEF SetupInv, SecretsKept, DoingPlaces, OneAnswer,
                                                   HoldsOn, Returned, BegunWith, Install!Load,
                                                   Install!Overlay, Install!IsComplete,
                                                   Install!Defaults, Install!At, Install!In,
                                                   Install!May, Install!Homes, ConfigsTo
<1>4. CASE \E m \in Install!Modes, a \in Install!Addrs : Install!RunScripted(m, a)
  BY <1>1, <1>2, <1>4, ScriptedDoes DEF SetupInv, SecretsKept, DoingPlaces, Install!At, Install!In,
                                        Install!May, Install!Homes, ConfigsTo
<1>5. CASE Install!SaveConfig
  BY <1>1, <1>2, <1>5, SaveDoes DEF SetupInv, SecretsKept, DoingPlaces, HoldsOn, ServesOn, Returned,
                                    Install!Defaults, Install!At, Install!In, Install!May,
                                    Install!Homes, ConfigsTo
<1>6. CASE Install!StartBundled
  BY <1>1, <1>2, <1>6, StartDoes DEF SetupInv, SecretsKept, DoingPlaces, MadeOrOpened, Returned,
                                     Install!Defaults, Install!At, Install!In, Install!May,
                                     Install!Homes, ConfigsTo
<1>7. CASE Install!KeepPassword
  BY <1>1, <1>2, <1>7, KeepDoes DEF SetupInv, SecretsKept, DoingPlaces, Install!At, Install!In,
                                    Install!May, Install!Homes, ConfigsTo
<1>8. CASE Install!PlantAdmin
  BY <1>1, <1>2, <1>8, PlantDoes DEF SetupInv, SecretsKept, DoingPlaces, Returned, Install!Defaults,
                                     Install!At, Install!In, Install!May, Install!Homes, ConfigsTo
<1>9. CASE Install!Migrate \/ Install!Interrupt
  BY <1>1, <1>2, <1>9, EndsDo DEF SetupInv, SecretsKept, DoingPlaces, HoldsOn, Returned,
                                  Install!Defaults, Install!At, Install!In, Install!May,
                                  Install!Homes, ConfigsTo
<1>10. CASE \E h \in Install!Homes : Install!Boot(h)
  <2>1. PICK h \in Install!Homes : Install!Boot(h)
    BY <1>10
  <2> QED
    BY <1>1, <1>2, <2>1, BootDoes DEF SetupInv, SecretsKept, DoingPlaces, Install!Load,
                                      Install!Overlay, Install!At, Install!In, Install!May,
                                      Install!Homes, ConfigsTo
<1>11. CASE ServerSteps
  BY <1>1, <1>2, <1>11, ServerDoes DEF SetupInv, SecretsKept, DoingPlaces, ServesOn, LostBy,
                                       Install!At, Install!In, Install!May, Install!Homes, ConfigsTo
<1>12. CASE HostSteps
  BY <1>1, <1>2, <1>12, HostDoes DEF SetupInv, SecretsKept, DoingPlaces, LostBy, Install!At,
                                     Install!In, Install!May, Install!Homes, ConfigsTo
<1>13. CASE Install!BootPostgres
  BY <1>1, <1>2, <1>13, BootPostgresDoes DEF SetupInv, SecretsKept, DoingPlaces, MadeOrOpened,
                                             Install!MadeStale, Install!At, Install!In, Install!May,
                                             Install!Homes, ConfigsTo
<1>14. CASE Install!BootKeep
  BY <1>1, <1>2, <1>14, BootKeepDoes DEF SetupInv, SecretsKept, DoingPlaces, Install!At, Install!In,
                                         Install!May, Install!Homes, ConfigsTo
<1>15. CASE Install!RemovalDeletes
  BY <1>1, <1>2, <1>15, DeletesDo DEF SetupInv, SecretsKept, DoingPlaces, ServesOn,
                                      Install!Defaults, Install!At, Install!In, Install!May,
                                      Install!Homes, ConfigsTo
<1> QED
  BY <1>3, <1>4, <1>5, <1>6, <1>7, <1>8, <1>9, <1>10, <1>11, <1>12, <1>13, <1>14, <1>15, SetupSteps

LEMMA WizardPlacedStep ==
    ASSUME SetupInv, Install!Next
    PROVE  WizardPlaced'
<1>1. SetupTyped
  BY DEF SetupInv
<1>2. /\ passwords \in Nat /\ wiz.cfg \in ConfigsTo(passwords) /\ srv.cfg \in ConfigsTo(passwords)
      /\ wiz.said \in ConfigsTo(passwords)
      /\ config \in [Install!Homes -> ConfigsTo(passwords)]
      /\ config["user"] \in ConfigsTo(passwords) /\ wiz.as \in Install!Homes
      /\ srv.as \in Install!Homes
      /\ applied \in [Install!Homes -> ConfigsTo(passwords) \union {None}]
  BY <1>1 DEF SetupTyped, FilesTyped, InstallRows, Wizards, Servers, Install!Homes
<1>3. CASE PromptSteps
  BY <1>1, <1>2, <1>3, PromptsDo, PromptsLeave DEF SetupInv, WizardPlaced, DoingPlaces, OneAnswer,
                                                   HoldsOn, Returned, BegunWith, Install!Load,
                                                   Install!Overlay, Install!IsComplete,
                                                   Install!Defaults, Install!At, Install!In,
                                                   Install!May, Install!Homes, ConfigsTo
<1>4. CASE \E m \in Install!Modes, a \in Install!Addrs : Install!RunScripted(m, a)
  BY <1>1, <1>2, <1>4, ScriptedDoes DEF SetupInv, WizardPlaced, DoingPlaces, Install!At, Install!In,
                                        Install!May, Install!Homes, ConfigsTo
<1>5. CASE Install!SaveConfig
  BY <1>1, <1>2, <1>5, SaveDoes DEF SetupInv, WizardPlaced, DoingPlaces, HoldsOn, ServesOn,
                                    Returned, Install!Defaults, Install!At, Install!In, Install!May,
                                    Install!Homes, ConfigsTo
<1>6. CASE Install!StartBundled
  BY <1>1, <1>2, <1>6, StartDoes DEF SetupInv, WizardPlaced, DoingPlaces, MadeOrOpened, Returned,
                                     Install!Defaults, Install!At, Install!In, Install!May,
                                     Install!Homes, ConfigsTo
<1>7. CASE Install!KeepPassword
  BY <1>1, <1>2, <1>7, KeepDoes DEF SetupInv, WizardPlaced, DoingPlaces, Install!At, Install!In,
                                    Install!May, Install!Homes, ConfigsTo
<1>8. CASE Install!PlantAdmin
  BY <1>1, <1>2, <1>8, PlantDoes DEF SetupInv, WizardPlaced, DoingPlaces, Returned,
                                     Install!Defaults, Install!At, Install!In, Install!May,
                                     Install!Homes, ConfigsTo
<1>9. CASE Install!Migrate \/ Install!Interrupt
  BY <1>1, <1>2, <1>9, EndsDo DEF SetupInv, WizardPlaced, DoingPlaces, HoldsOn, Returned,
                                  Install!Defaults, Install!At, Install!In, Install!May,
                                  Install!Homes, ConfigsTo
<1>10. CASE \E h \in Install!Homes : Install!Boot(h)
  <2>1. PICK h \in Install!Homes : Install!Boot(h)
    BY <1>10
  <2> QED
    BY <1>1, <1>2, <2>1, BootDoes DEF SetupInv, WizardPlaced, DoingPlaces, Install!Load,
                                      Install!Overlay, Install!At, Install!In, Install!May,
                                      Install!Homes, ConfigsTo
<1>11. CASE ServerSteps
  BY <1>1, <1>2, <1>11, ServerDoes DEF SetupInv, WizardPlaced, DoingPlaces, ServesOn, LostBy,
                                       Install!At, Install!In, Install!May, Install!Homes, ConfigsTo
<1>12. CASE HostSteps
  BY <1>1, <1>2, <1>12, HostDoes DEF SetupInv, WizardPlaced, DoingPlaces, LostBy, Install!At,
                                     Install!In, Install!May, Install!Homes, ConfigsTo
<1>13. CASE Install!BootPostgres
  BY <1>1, <1>2, <1>13, BootPostgresDoes DEF SetupInv, WizardPlaced, DoingPlaces, MadeOrOpened,
                                             Install!MadeStale, Install!At, Install!In, Install!May,
                                             Install!Homes, ConfigsTo
<1>14. CASE Install!BootKeep
  BY <1>1, <1>2, <1>14, BootKeepDoes DEF SetupInv, WizardPlaced, DoingPlaces, Install!At,
                                         Install!In, Install!May, Install!Homes, ConfigsTo
<1>15. CASE Install!RemovalDeletes
  BY <1>1, <1>2, <1>15, DeletesDo DEF SetupInv, WizardPlaced, DoingPlaces, ServesOn,
                                      Install!Defaults, Install!At, Install!In, Install!May,
                                      Install!Homes, ConfigsTo
<1> QED
  BY <1>3, <1>4, <1>5, <1>6, <1>7, <1>8, <1>9, <1>10, <1>11, <1>12, <1>13, <1>14, <1>15, SetupSteps

LEMMA HandsHoldStep ==
    ASSUME SetupInv, Install!Next
    PROVE  HandsHold'
<1>1. SetupTyped
  BY DEF SetupInv
<1>2. /\ passwords \in Nat /\ wiz.cfg \in ConfigsTo(passwords) /\ srv.cfg \in ConfigsTo(passwords)
      /\ wiz.said \in ConfigsTo(passwords)
      /\ config \in [Install!Homes -> ConfigsTo(passwords)]
      /\ config["user"] \in ConfigsTo(passwords) /\ wiz.as \in Install!Homes
      /\ srv.as \in Install!Homes
      /\ applied \in [Install!Homes -> ConfigsTo(passwords) \union {None}]
  BY <1>1 DEF SetupTyped, FilesTyped, InstallRows, Wizards, Servers, Install!Homes
<1>3. CASE PromptSteps
  BY <1>1, <1>2, <1>3, PromptsPw, PromptsLeave DEF SetupInv, HandsHold, AskingPlaces, DoingPlaces,
                                                   Install!At, Install!In
<1>4. CASE \E m \in Install!Modes, a \in Install!Addrs : Install!RunScripted(m, a)
  BY <1>1, <1>2, <1>4, ScriptedDoes DEF SetupInv, HandsHold, AskingPlaces, WizardPlaced, ReadFresh,
                                        SecretsKept, DoingPlaces, Install!At, Install!In,
                                        Install!May, Install!Homes, ConfigsTo
<1>5. CASE Install!SaveConfig
  BY <1>1, <1>2, <1>5, SaveDoes DEF SetupInv, HandsHold, AskingPlaces, WizardPlaced, ReadFresh,
                                    SecretsKept, DoingPlaces, HoldsOn, ServesOn, Returned,
                                    Install!Defaults, Install!At, Install!In, Install!May,
                                    Install!Homes, ConfigsTo
<1>6. CASE Install!StartBundled
  BY <1>1, <1>2, <1>6, StartDoes DEF SetupInv, HandsHold, AskingPlaces, WizardPlaced, ReadFresh,
                                     SecretsKept, DoingPlaces, MadeOrOpened, Returned,
                                     Install!Defaults, Install!At, Install!In, Install!May,
                                     Install!Homes, ConfigsTo
<1>7. CASE Install!KeepPassword
  BY <1>1, <1>2, <1>7, KeepDoes DEF SetupInv, HandsHold, AskingPlaces, WizardPlaced, ReadFresh,
                                    SecretsKept, DoingPlaces, Install!At, Install!In, Install!May,
                                    Install!Homes, ConfigsTo
<1>8. CASE Install!PlantAdmin
  BY <1>1, <1>2, <1>8, PlantDoes DEF SetupInv, HandsHold, AskingPlaces, WizardPlaced, ReadFresh,
                                     SecretsKept, DoingPlaces, Returned, Install!Defaults,
                                     Install!At, Install!In, Install!May, Install!Homes, ConfigsTo
<1>9. CASE Install!Migrate \/ Install!Interrupt
  BY <1>1, <1>2, <1>9, EndsDo DEF SetupInv, HandsHold, AskingPlaces, WizardPlaced, ReadFresh,
                                  SecretsKept, DoingPlaces, HoldsOn, Returned, Install!Defaults,
                                  Install!At, Install!In, Install!May, Install!Homes, ConfigsTo
<1>10. CASE \E h \in Install!Homes : Install!Boot(h)
  <2>1. PICK h \in Install!Homes : Install!Boot(h)
    BY <1>10
  <2> QED
    BY <1>1, <1>2, <2>1, BootDoes DEF SetupInv, HandsHold, AskingPlaces, WizardPlaced, ReadFresh,
                                      SecretsKept, DoingPlaces, Install!Load, Install!Overlay,
                                      Install!At, Install!In, Install!May, Install!Homes, ConfigsTo
<1>11. CASE ServerSteps
  BY <1>1, <1>2, <1>11, ServerDoes DEF SetupInv, HandsHold, AskingPlaces, WizardPlaced, ReadFresh,
                                       SecretsKept, DoingPlaces, ServesOn, LostBy, Install!At,
                                       Install!In, Install!May, Install!Homes, ConfigsTo
<1>12. CASE HostSteps
  BY <1>1, <1>2, <1>12, HostDoes DEF SetupInv, HandsHold, AskingPlaces, WizardPlaced, ReadFresh,
                                     SecretsKept, DoingPlaces, LostBy, Install!At, Install!In,
                                     Install!May, Install!Homes, ConfigsTo
<1>13. CASE Install!BootPostgres
  BY <1>1, <1>2, <1>13, BootPostgresDoes DEF SetupInv, HandsHold, AskingPlaces, WizardPlaced,
                                             ReadFresh, SecretsKept, DoingPlaces, MadeOrOpened,
                                             Install!MadeStale, Install!At, Install!In, Install!May,
                                             Install!Homes, ConfigsTo
<1>14. CASE Install!BootKeep
  BY <1>1, <1>2, <1>14, BootKeepDoes DEF SetupInv, HandsHold, AskingPlaces, WizardPlaced, ReadFresh,
                                         SecretsKept, DoingPlaces, Install!At, Install!In,
                                         Install!May, Install!Homes, ConfigsTo
<1>15. CASE Install!RemovalDeletes
  <2>1. Install!At("off") /\ wiz' = wiz
    BY <1>1, <1>15, DeletesDo DEF NobodyAside, SetupInv, Install!At
  <2>2. /\ ServesOn /\ srv'.pc = srv.pc
        /\ srv'.crossed = IF srv.as = "user" THEN srv.pc # "off" ELSE srv.crossed
    BY <1>1, <1>15, DeletesDo
  <2>3. \/ UNCHANGED <<config, cluster>>
        \/ config'["user"] = Install!Defaults /\ cluster' \in {0, cluster}
             /\ config'["root"] = config["root"]
    BY <1>1, <1>2, <1>15, DeletesDo DEF Install!Homes
  <2>4. Install!In("keep") => srv.as = "user" /\ srv.hand # 0 /\ srv.cfg.pw = 0 /\ srv'.crossed
    BY <2>2 DEF SetupInv, HandsHold, WizardPlaced, Install!In
  <2>5. Install!In("keep") /\ cluster' = 0 => config'["user"].pw = 0
    BY <2>3 DEF SetupInv, HandsHold, Install!Defaults
  <2> QED
    BY <2>1, <2>2, <2>4, <2>5 DEF HandsHold, ServesOn, AskingPlaces, Install!At, Install!In
<1> QED
  BY <1>3, <1>4, <1>5, <1>6, <1>7, <1>8, <1>9, <1>10, <1>11, <1>12, <1>13, <1>14, <1>15, SetupSteps

LEMMA ReadFreshStep ==
    ASSUME SetupInv, Install!Next
    PROVE  ReadFresh'
<1>1. SetupTyped
  BY DEF SetupInv
<1>2. /\ passwords \in Nat /\ wiz.cfg \in ConfigsTo(passwords) /\ srv.cfg \in ConfigsTo(passwords)
      /\ wiz.said \in ConfigsTo(passwords)
      /\ config \in [Install!Homes -> ConfigsTo(passwords)]
      /\ config["user"] \in ConfigsTo(passwords) /\ wiz.as \in Install!Homes
      /\ srv.as \in Install!Homes
      /\ applied \in [Install!Homes -> ConfigsTo(passwords) \union {None}]
  BY <1>1 DEF SetupTyped, FilesTyped, InstallRows, Wizards, Servers, Install!Homes
<1>3. CASE PromptSteps
  BY <1>1, <1>2, <1>3, PromptsPw, PromptsLeave DEF SetupInv, ReadFresh, AskingPlaces, DoingPlaces,
                                                   Install!At, Install!In
<1>4. CASE \E m \in Install!Modes, a \in Install!Addrs : Install!RunScripted(m, a)
  BY <1>1, <1>2, <1>4, ScriptedDoes DEF SetupInv, ReadFresh, AskingPlaces, HandsHold, WizardPlaced,
                                        SecretsKept, DoingPlaces, Install!At, Install!In,
                                        Install!May, Install!Homes, ConfigsTo
<1>5. CASE Install!SaveConfig
  BY <1>1, <1>2, <1>5, SaveDoes DEF SetupInv, ReadFresh, AskingPlaces, HandsHold, WizardPlaced,
                                    SecretsKept, DoingPlaces, HoldsOn, ServesOn, Returned,
                                    Install!Defaults, Install!At, Install!In, Install!May,
                                    Install!Homes, ConfigsTo
<1>6. CASE Install!StartBundled
  BY <1>1, <1>2, <1>6, StartDoes DEF SetupInv, ReadFresh, AskingPlaces, HandsHold, WizardPlaced,
                                     SecretsKept, DoingPlaces, MadeOrOpened, Returned,
                                     Install!Defaults, Install!At, Install!In, Install!May,
                                     Install!Homes, ConfigsTo
<1>7. CASE Install!KeepPassword
  BY <1>1, <1>2, <1>7, KeepDoes DEF SetupInv, ReadFresh, AskingPlaces, HandsHold, WizardPlaced,
                                    SecretsKept, DoingPlaces, Install!At, Install!In, Install!May,
                                    Install!Homes, ConfigsTo
<1>8. CASE Install!PlantAdmin
  BY <1>1, <1>2, <1>8, PlantDoes DEF SetupInv, ReadFresh, AskingPlaces, HandsHold, WizardPlaced,
                                     SecretsKept, DoingPlaces, Returned, Install!Defaults,
                                     Install!At, Install!In, Install!May, Install!Homes, ConfigsTo
<1>9. CASE Install!Migrate \/ Install!Interrupt
  BY <1>1, <1>2, <1>9, EndsDo DEF SetupInv, ReadFresh, AskingPlaces, HandsHold, WizardPlaced,
                                  SecretsKept, DoingPlaces, HoldsOn, Returned, Install!Defaults,
                                  Install!At, Install!In, Install!May, Install!Homes, ConfigsTo
<1>10. CASE \E h \in Install!Homes : Install!Boot(h)
  <2>1. PICK h \in Install!Homes : Install!Boot(h)
    BY <1>10
  <2> QED
    BY <1>1, <1>2, <2>1, BootDoes DEF SetupInv, ReadFresh, AskingPlaces, HandsHold, WizardPlaced,
                                      SecretsKept, DoingPlaces, Install!Load, Install!Overlay,
                                      Install!At, Install!In, Install!May, Install!Homes, ConfigsTo
<1>11. CASE ServerSteps
  BY <1>1, <1>2, <1>11, ServerDoes DEF SetupInv, ReadFresh, AskingPlaces, HandsHold, WizardPlaced,
                                       SecretsKept, DoingPlaces, ServesOn, LostBy, Install!At,
                                       Install!In, Install!May, Install!Homes, ConfigsTo
<1>12. CASE HostSteps
  BY <1>1, <1>2, <1>12, HostDoes DEF SetupInv, ReadFresh, AskingPlaces, HandsHold, WizardPlaced,
                                     SecretsKept, DoingPlaces, LostBy, Install!At, Install!In,
                                     Install!May, Install!Homes, ConfigsTo
<1>13. CASE Install!BootPostgres
  BY <1>1, <1>2, <1>13, BootPostgresDoes DEF SetupInv, ReadFresh, AskingPlaces, HandsHold,
                                             WizardPlaced, SecretsKept, DoingPlaces, MadeOrOpened,
                                             Install!MadeStale, Install!At, Install!In, Install!May,
                                             Install!Homes, ConfigsTo
<1>14. CASE Install!BootKeep
  <2>1. Install!In("keep") /\ srv'.pc = "migrate" /\ cluster' = cluster
    BY <1>1, <1>14, BootKeepDoes
  <2>2. CASE UNCHANGED <<config, applied, wiz>>
    BY <2>1, <2>2 DEF SetupInv, ReadFresh, Install!In, Install!At
  <2>3. CASE /\ config' = [config EXCEPT !["user"] = srv'.cfg]
             /\ wiz'.pc = wiz.pc /\ wiz'.as = wiz.as /\ wiz'.cfg = wiz.cfg /\ wiz'.said = wiz.said
             /\ wiz'.cause = IF Install!At("off") \/ wiz.as = "root" THEN wiz.cause ELSE "stale"
             /\ wiz'.kept = IF Install!At("off") \/ wiz.as = "root"
                             THEN wiz.kept ELSE wiz.kept /\ ~ srv.crossed
             /\ applied' = IF srv.crossed THEN [applied EXCEPT !["user"] = None] ELSE applied
    <3>1. wiz.as = "user" /\ ~ Install!At("off")
            => wiz'.cause = "stale" /\ (wiz'.kept => wiz.kept /\ ~ srv.crossed)
      BY <2>3
    <3>2. Install!At("start") /\ wiz.cfg.pw # 0 => cluster # 0 /\ ~ wiz'.kept
      BY <2>1, <3>1 DEF SetupInv, HandsHold, ReadFresh, WizardPlaced, Install!At
    <3> QED
      BY <2>1, <2>3, <3>1, <3>2 DEF SetupInv, ReadFresh, WizardPlaced, AskingPlaces, Install!At,
                                    Install!In
  <2> QED
    BY <1>1, <1>14, <2>2, <2>3, BootKeepDoes
<1>15. CASE Install!RemovalDeletes
  <2>1. Install!At("off") /\ wiz' = wiz
    BY <1>1, <1>15, DeletesDo DEF NobodyAside, SetupInv, Install!At
  <2>2. /\ ServesOn /\ srv'.pc = srv.pc
        /\ srv'.crossed = IF srv.as = "user" THEN srv.pc # "off" ELSE srv.crossed
    BY <1>1, <1>15, DeletesDo
  <2>3. \/ UNCHANGED <<config, cluster>>
        \/ config'["user"] = Install!Defaults /\ cluster' \in {0, cluster}
             /\ config'["root"] = config["root"]
    BY <1>1, <1>2, <1>15, DeletesDo DEF Install!Homes
  <2> QED
    BY <1>2, <2>1, <2>2, <2>3 DEF SetupInv, ReadFresh, WizardPlaced, ServesOn, AskingPlaces,
                                  Install!At, Install!In
<1> QED
  BY <1>3, <1>4, <1>5, <1>6, <1>7, <1>8, <1>9, <1>10, <1>11, <1>12, <1>13, <1>14, <1>15, SetupSteps

LEMMA ClusterOpensStep ==
    ASSUME SetupInv, Install!Next
    PROVE  Install!ClusterOpens'
<1>1. SetupTyped
  BY DEF SetupInv
<1>2. /\ passwords \in Nat /\ wiz.cfg \in ConfigsTo(passwords) /\ srv.cfg \in ConfigsTo(passwords)
      /\ wiz.said \in ConfigsTo(passwords)
      /\ config \in [Install!Homes -> ConfigsTo(passwords)]
      /\ config["user"] \in ConfigsTo(passwords) /\ wiz.as \in Install!Homes
      /\ srv.as \in Install!Homes
      /\ applied \in [Install!Homes -> ConfigsTo(passwords) \union {None}]
  BY <1>1 DEF SetupTyped, FilesTyped, InstallRows, Wizards, Servers, Install!Homes
<1>3. CASE PromptSteps
  BY <1>3, PromptsFrom, PromptsPw, PromptsLeave DEF SetupInv, Install!ClusterOpens, HandsHold,
                                                    DoingPlaces, Install!At, Install!In
<1>4. CASE \E m \in Install!Modes, a \in Install!Addrs : Install!RunScripted(m, a)
  BY <1>1, <1>4, ScriptedDoes DEF SetupInv, Install!ClusterOpens, HandsHold, Install!At, Install!In
<1>5. CASE Install!SaveConfig
  BY <1>1, <1>2, <1>5, SaveDoes DEF SetupInv, Install!ClusterOpens, HandsHold, ReadFresh,
                                    WizardPlaced, AskingPlaces, HoldsOn, ServesOn, Returned,
                                    Install!Defaults, Install!At, Install!In, Install!May,
                                    Install!Homes, ConfigsTo
<1>6. CASE Install!StartBundled
  BY <1>1, <1>2, <1>6, StartDoes DEF SetupInv, Install!ClusterOpens, HandsHold, ReadFresh,
                                     WizardPlaced, AskingPlaces, MadeOrOpened, Returned,
                                     Install!Defaults, Install!At, Install!In, Install!May,
                                     Install!Homes, ConfigsTo
<1>7. CASE Install!KeepPassword
  BY <1>1, <1>2, <1>7, KeepDoes DEF SetupInv, Install!ClusterOpens, HandsHold, ReadFresh,
                                    WizardPlaced, AskingPlaces, Install!At, Install!In, Install!May,
                                    Install!Homes, ConfigsTo
<1>8. CASE Install!PlantAdmin
  BY <1>1, <1>2, <1>8, PlantDoes DEF SetupInv, Install!ClusterOpens, HandsHold, ReadFresh,
                                     WizardPlaced, AskingPlaces, Returned, Install!Defaults,
                                     Install!At, Install!In, Install!May, Install!Homes, ConfigsTo
<1>9. CASE Install!Migrate \/ Install!Interrupt
  BY <1>1, <1>2, <1>9, EndsDo DEF SetupInv, Install!ClusterOpens, HandsHold, ReadFresh,
                                  WizardPlaced, AskingPlaces, HoldsOn, Returned, Install!Defaults,
                                  Install!At, Install!In, Install!May, Install!Homes, ConfigsTo
<1>10. CASE \E h \in Install!Homes : Install!Boot(h)
  <2>1. PICK h \in Install!Homes : Install!Boot(h)
    BY <1>10
  <2> QED
    BY <1>1, <2>1, BootDoes DEF SetupInv, Install!ClusterOpens, Install!At, Install!In, Install!Boot
<1>11. CASE ServerSteps
  <2>1. UNCHANGED <<config, cluster, wiz>>
    BY <1>1, <1>11, ServerDoes
  <2>2. (srv'.pc = "off" /\ dropped' = LostBy) \/ (~ Install!In("keep") /\ dropped' = dropped)
    BY <1>1, <1>11, ServerDoes DEF ServesOn, Install!In
  <2> QED
    BY <2>1, <2>2 DEF SetupInv, Install!ClusterOpens, LostBy, Install!At, Install!In
<1>12. CASE HostSteps
  BY <1>1, <1>2, <1>12, HostDoes DEF SetupInv, Install!ClusterOpens, HandsHold, ReadFresh,
                                     WizardPlaced, AskingPlaces, LostBy, Install!At, Install!In,
                                     Install!May, Install!Homes, ConfigsTo
<1>13. CASE Install!BootPostgres
  BY <1>1, <1>2, <1>13, BootPostgresDoes DEF SetupInv, Install!ClusterOpens, HandsHold, ReadFresh,
                                             WizardPlaced, AskingPlaces, MadeOrOpened,
                                             Install!MadeStale, Install!At, Install!In, Install!May,
                                             Install!Homes, ConfigsTo
<1>14. CASE Install!BootKeep
  BY <1>1, <1>2, <1>14, BootKeepDoes DEF SetupInv, Install!ClusterOpens, HandsHold, ReadFresh,
                                         WizardPlaced, AskingPlaces, Install!At, Install!In,
                                         Install!May, Install!Homes, ConfigsTo
<1>15. CASE Install!RemovalDeletes
  <2>1. Install!At("off") /\ wiz' = wiz
    BY <1>1, <1>15, DeletesDo DEF NobodyAside, SetupInv, Install!At
  <2>2. /\ ServesOn /\ srv'.pc = srv.pc
        /\ srv'.crossed = IF srv.as = "user" THEN srv.pc # "off" ELSE srv.crossed
    BY <1>1, <1>15, DeletesDo
  <2>3. \/ UNCHANGED <<config, cluster>>
        \/ config'["user"] = Install!Defaults /\ cluster' \in {0, cluster}
             /\ config'["root"] = config["root"]
    BY <1>1, <1>2, <1>15, DeletesDo DEF Install!Homes
  <2>4. cluster' # 0 /\ dropped' = "none"
          => config' = config /\ cluster' = cluster /\ dropped = "none"
    BY <1>1, <1>15, DeletesDo
  <2> QED
    BY <2>1, <2>2, <2>4 DEF SetupInv, Install!ClusterOpens, ServesOn, Install!At, Install!In
<1> QED
  BY <1>3, <1>4, <1>5, <1>6, <1>7, <1>8, <1>9, <1>10, <1>11, <1>12, <1>13, <1>14, <1>15, SetupSteps

LEMMA DoneSoFarStep ==
    ASSUME SetupInv, Install!Next
    PROVE  DoneSoFar'
<1>1. SetupTyped
  BY DEF SetupInv
<1>2. /\ passwords \in Nat /\ wiz.cfg \in ConfigsTo(passwords) /\ srv.cfg \in ConfigsTo(passwords)
      /\ wiz.said \in ConfigsTo(passwords)
      /\ config \in [Install!Homes -> ConfigsTo(passwords)]
      /\ config["user"] \in ConfigsTo(passwords) /\ wiz.as \in Install!Homes
      /\ srv.as \in Install!Homes
      /\ applied \in [Install!Homes -> ConfigsTo(passwords) \union {None}]
  BY <1>1 DEF SetupTyped, FilesTyped, InstallRows, Wizards, Servers, Install!Homes
<1>3. CASE PromptSteps
  <2>1. wiz'.pc \notin DoingPlaces
    BY <1>3, PromptsPw
  <2>2. Agrees(wiz'.cfg, wiz'.said)
    <3>1. CASE OneAnswer
      <4>1. /\ wiz'.cfg = [wiz.cfg EXCEPT !.mode = "embedded"]
            /\ wiz'.said = [wiz.said EXCEPT !.mode = "embedded"]
            => Agrees(wiz'.cfg, wiz'.said)
        BY <1>2 DEF SetupInv, DoneSoFar, Agrees, ConfigsTo
      <4>2. /\ wiz'.cfg = [wiz.cfg EXCEPT !.mode = "external", !.pw = 0]
            /\ wiz'.said = [wiz.said EXCEPT !.mode = "external"]
            => Agrees(wiz'.cfg, wiz'.said)
        BY <1>2 DEF SetupInv, DoneSoFar, Agrees, ConfigsTo
      <4>3. ASSUME NEW v, wiz'.cfg = [wiz.cfg EXCEPT !.listen = v],
                   wiz'.said = [wiz.said EXCEPT !.listen = v]
            PROVE  Agrees(wiz'.cfg, wiz'.said)
        BY <1>2, <4>3 DEF SetupInv, DoneSoFar, Agrees, ConfigsTo
      <4>4. ASSUME NEW v, wiz'.cfg = [wiz.cfg EXCEPT !.admin = v],
                   wiz'.said = [wiz.said EXCEPT !.admin = v]
            PROVE  Agrees(wiz'.cfg, wiz'.said)
        BY <1>2, <4>4 DEF SetupInv, DoneSoFar, Agrees, ConfigsTo
      <4>5. ASSUME NEW v, wiz'.cfg = [wiz.cfg EXCEPT !.jwt = v],
                   wiz'.said = [wiz.said EXCEPT !.jwt = v]
            PROVE  Agrees(wiz'.cfg, wiz'.said)
        BY <1>2, <4>5 DEF SetupInv, DoneSoFar, Agrees, ConfigsTo
      <4> QED
        BY <3>1, <4>1, <4>2, <4>3, <4>4, <4>5 DEF OneAnswer
    <3>2. CASE HoldsOn \/ Returned \/ wiz'.cfg = wiz'.said
      BY <3>2 DEF HoldsOn, Returned, SetupInv, DoneSoFar, Agrees
    <3> QED
      BY <1>1, <1>3, <3>1, <3>2, PromptsDo
  <2> QED
    BY <2>1, <2>2 DEF DoneSoFar, DoingPlaces
<1>4. CASE \E m \in Install!Modes, a \in Install!Addrs : Install!RunScripted(m, a)
  BY <1>1, <1>2, <1>4, ScriptedDoes DEF SetupInv, DoneSoFar, DoingPlaces, Agrees, OpensNow,
                                        WizardPlaced, HandsHold, ReadFresh, Install!At, Install!In,
                                        Install!May, Install!Homes, ConfigsTo
<1>5. CASE Install!SaveConfig
  BY <1>1, <1>2, <1>5, SaveDoes DEF SetupInv, DoneSoFar, DoingPlaces, Agrees, OpensNow,
                                    WizardPlaced, HandsHold, ReadFresh, HoldsOn, ServesOn, Returned,
                                    Install!Defaults, Install!At, Install!In, Install!May,
                                    Install!Homes, ConfigsTo
<1>6. CASE Install!StartBundled
  BY <1>1, <1>2, <1>6, StartDoes DEF SetupInv, DoneSoFar, DoingPlaces, Agrees, OpensNow,
                                     WizardPlaced, HandsHold, ReadFresh, MadeOrOpened, Returned,
                                     Install!Defaults, Install!At, Install!In, Install!May,
                                     Install!Homes, ConfigsTo
<1>7. CASE Install!KeepPassword
  BY <1>1, <1>2, <1>7, KeepDoes DEF SetupInv, DoneSoFar, DoingPlaces, Agrees, OpensNow,
                                    WizardPlaced, HandsHold, ReadFresh, Install!At, Install!In,
                                    Install!May, Install!Homes, ConfigsTo
<1>8. CASE Install!PlantAdmin
  BY <1>1, <1>2, <1>8, PlantDoes DEF SetupInv, DoneSoFar, DoingPlaces, Agrees, OpensNow,
                                     WizardPlaced, HandsHold, ReadFresh, Returned, Install!Defaults,
                                     Install!At, Install!In, Install!May, Install!Homes, ConfigsTo
<1>9. CASE Install!Migrate \/ Install!Interrupt
  BY <1>1, <1>2, <1>9, EndsDo DEF SetupInv, DoneSoFar, DoingPlaces, Agrees, OpensNow, WizardPlaced,
                                  HandsHold, ReadFresh, HoldsOn, Returned, Install!Defaults,
                                  Install!At, Install!In, Install!May, Install!Homes, ConfigsTo
<1>10. CASE \E h \in Install!Homes : Install!Boot(h)
  <2>1. PICK h \in Install!Homes : Install!Boot(h)
    BY <1>10
  <2> QED
    BY <1>1, <1>2, <2>1, BootDoes DEF SetupInv, DoneSoFar, DoingPlaces, Agrees, OpensNow,
                                      WizardPlaced, HandsHold, ReadFresh, Install!Load,
                                      Install!Overlay, Install!At, Install!In, Install!May,
                                      Install!Homes, ConfigsTo
<1>11. CASE ServerSteps
  BY <1>1, <1>2, <1>11, ServerDoes DEF SetupInv, DoneSoFar, DoingPlaces, Agrees, OpensNow,
                                       WizardPlaced, HandsHold, ReadFresh, ServesOn, LostBy,
                                       Install!At, Install!In, Install!May, Install!Homes, ConfigsTo
<1>12. CASE HostSteps
  BY <1>1, <1>2, <1>12, HostDoes DEF SetupInv, DoneSoFar, DoingPlaces, Agrees, OpensNow,
                                     WizardPlaced, HandsHold, ReadFresh, LostBy, Install!At,
                                     Install!In, Install!May, Install!Homes, ConfigsTo
<1>13. CASE Install!BootPostgres
  BY <1>1, <1>2, <1>13, BootPostgresDoes DEF SetupInv, DoneSoFar, DoingPlaces, Agrees, OpensNow,
                                             WizardPlaced, HandsHold, ReadFresh, MadeOrOpened,
                                             Install!MadeStale, Install!At, Install!In, Install!May,
                                             Install!Homes, ConfigsTo
<1>14. CASE Install!BootKeep
  <2>1. Install!In("keep") /\ srv'.pc = "migrate" /\ cluster' = cluster
    BY <1>1, <1>14, BootKeepDoes
  <2>2. CASE UNCHANGED <<config, applied, wiz>>
    BY <2>1, <2>2 DEF SetupInv, DoneSoFar, DoingPlaces, OpensNow, Install!In, Install!At
  <2>3. CASE /\ config' = [config EXCEPT !["user"] = srv'.cfg]
             /\ wiz'.pc = wiz.pc /\ wiz'.as = wiz.as /\ wiz'.cfg = wiz.cfg /\ wiz'.said = wiz.said
             /\ wiz'.cause = IF Install!At("off") \/ wiz.as = "root" THEN wiz.cause ELSE "stale"
             /\ wiz'.kept = IF Install!At("off") \/ wiz.as = "root"
                             THEN wiz.kept ELSE wiz.kept /\ ~ srv.crossed
             /\ applied' = IF srv.crossed THEN [applied EXCEPT !["user"] = None] ELSE applied
    <3>1. ~ srv.crossed => /\ srv.cfg = config["user"] /\ cluster = srv.hand /\ srv.hand # 0
      BY <2>1 DEF SetupInv, HandsHold, ReadFresh
    <3>2. srv'.cfg = [srv.cfg EXCEPT !.pw = srv.hand]
      BY <1>1, <1>14, BootKeepDoes
    <3>3. config'["root"] = config["root"] /\ config'["user"] = srv'.cfg
      BY <1>2, <2>3 DEF Install!Homes
    <3>4. ~ srv.crossed
            => Agrees(config'["user"], config["user"]) /\ config'["user"].pw = cluster
              /\ cluster # 0
      BY <1>2, <3>1, <3>2, <3>3 DEF Agrees, ConfigsTo
    <3>5. applied'[wiz.as] = None \/ applied'[wiz.as] = applied[wiz.as]
      BY <1>2, <2>3
    <3>6. CASE wiz.pc \in DoingPlaces
      <4>1. wiz'.kept /\ wiz.as = "user" => ~ srv.crossed /\ wiz.kept
        BY <2>3, <3>6 DEF Install!At, DoingPlaces
      <4>2. wiz'.kept /\ wiz.as = "root" => wiz.kept
        BY <2>3
      <4>3. wiz.as = "user" \/ wiz.as = "root"
        BY <1>2 DEF Install!Homes
      <4> QED
        BY <2>1, <2>3, <3>3, <3>4, <3>5, <3>6, <4>1, <4>2, <4>3 DEF SetupInv, DoneSoFar, Agrees,
                                                                    OpensNow
    <3>7. CASE wiz.pc \notin DoingPlaces
      BY <2>3, <3>7 DEF SetupInv, DoneSoFar, DoingPlaces
    <3> QED
      BY <3>6, <3>7
  <2> QED
    BY <1>1, <1>14, <2>2, <2>3, BootKeepDoes
<1>15. CASE Install!RemovalDeletes
  <2>1. Install!At("off") /\ wiz' = wiz
    BY <1>1, <1>15, DeletesDo DEF NobodyAside, SetupInv, Install!At
  <2> QED
    BY <2>1 DEF SetupInv, DoneSoFar, DoingPlaces, Install!At
<1> QED
  BY <1>3, <1>4, <1>5, <1>6, <1>7, <1>8, <1>9, <1>10, <1>11, <1>12, <1>13, <1>14, <1>15, SetupSteps

LEMMA ReportedStep ==
    ASSUME SetupInv, Install!Next
    PROVE  Reported'
<1>1. SetupTyped
  BY DEF SetupInv
<1>2. /\ passwords \in Nat /\ wiz.cfg \in ConfigsTo(passwords) /\ srv.cfg \in ConfigsTo(passwords)
      /\ wiz.said \in ConfigsTo(passwords)
      /\ config \in [Install!Homes -> ConfigsTo(passwords)]
      /\ config["user"] \in ConfigsTo(passwords) /\ wiz.as \in Install!Homes
      /\ srv.as \in Install!Homes
      /\ applied \in [Install!Homes -> ConfigsTo(passwords) \union {None}]
  BY <1>1 DEF SetupTyped, FilesTyped, InstallRows, Wizards, Servers, Install!Homes
<1>3. CASE PromptSteps
  BY <1>1, <1>2, <1>3, PromptsDo, PromptsLeave DEF SetupInv, Reported, Agrees, OpensNow, DoneSoFar,
                                                   DoingPlaces, WizardPlaced, HandsHold, ReadFresh,
                                                   NobodyAside, OneAnswer, HoldsOn, Returned,
                                                   BegunWith, Install!Load, Install!Overlay,
                                                   Install!IsComplete, Install!Defaults, Install!At,
                                                   Install!In, Install!May, Install!Homes, ConfigsTo
<1>4. CASE \E m \in Install!Modes, a \in Install!Addrs : Install!RunScripted(m, a)
  BY <1>1, <1>2, <1>4, ScriptedDoes DEF SetupInv, Reported, Agrees, OpensNow, DoneSoFar,
                                        DoingPlaces, WizardPlaced, HandsHold, ReadFresh,
                                        NobodyAside, Install!At, Install!In, Install!May,
                                        Install!Homes, ConfigsTo
<1>5. CASE Install!SaveConfig
  BY <1>1, <1>2, <1>5, SaveDoes DEF SetupInv, Reported, Agrees, OpensNow, DoneSoFar, DoingPlaces,
                                    WizardPlaced, HandsHold, ReadFresh, NobodyAside, HoldsOn,
                                    ServesOn, Returned, Install!Defaults, Install!At, Install!In,
                                    Install!May, Install!Homes, ConfigsTo
<1>6. CASE Install!StartBundled
  BY <1>1, <1>2, <1>6, StartDoes DEF SetupInv, Reported, Agrees, OpensNow, DoneSoFar, DoingPlaces,
                                     WizardPlaced, HandsHold, ReadFresh, NobodyAside, MadeOrOpened,
                                     Returned, Install!Defaults, Install!At, Install!In,
                                     Install!May, Install!Homes, ConfigsTo
<1>7. CASE Install!KeepPassword
  BY <1>1, <1>2, <1>7, KeepDoes DEF SetupInv, Reported, Agrees, OpensNow, DoneSoFar, DoingPlaces,
                                    WizardPlaced, HandsHold, ReadFresh, NobodyAside, Install!At,
                                    Install!In, Install!May, Install!Homes, ConfigsTo
<1>8. CASE Install!PlantAdmin
  BY <1>1, <1>2, <1>8, PlantDoes DEF SetupInv, Reported, Agrees, OpensNow, DoneSoFar, DoingPlaces,
                                     WizardPlaced, HandsHold, ReadFresh, NobodyAside, Returned,
                                     Install!Defaults, Install!At, Install!In, Install!May,
                                     Install!Homes, ConfigsTo
<1>9. CASE Install!Migrate \/ Install!Interrupt
  BY <1>1, <1>2, <1>9, EndsDo DEF SetupInv, Reported, Agrees, OpensNow, DoneSoFar, DoingPlaces,
                                  WizardPlaced, HandsHold, ReadFresh, NobodyAside, HoldsOn,
                                  Returned, Install!Defaults, Install!At, Install!In, Install!May,
                                  Install!Homes, ConfigsTo
<1>10. CASE \E h \in Install!Homes : Install!Boot(h)
  <2>1. PICK h \in Install!Homes : Install!Boot(h)
    BY <1>10
  <2> QED
    BY <1>1, <2>1, BootDoes DEF SetupInv, Reported, OpensNow
<1>11. CASE ServerSteps
  BY <1>1, <1>2, <1>11, ServerDoes DEF SetupInv, Reported, Agrees, OpensNow, DoneSoFar, DoingPlaces,
                                       WizardPlaced, HandsHold, ReadFresh, NobodyAside, ServesOn,
                                       LostBy, Install!At, Install!In, Install!May, Install!Homes,
                                       ConfigsTo
<1>12. CASE HostSteps
  BY <1>1, <1>2, <1>12, HostDoes DEF SetupInv, Reported, Agrees, OpensNow, DoneSoFar, DoingPlaces,
                                     WizardPlaced, HandsHold, ReadFresh, NobodyAside, LostBy,
                                     Install!At, Install!In, Install!May, Install!Homes, ConfigsTo
<1>13. CASE Install!BootPostgres
  BY <1>1, <1>2, <1>13, BootPostgresDoes DEF SetupInv, Reported, Agrees, OpensNow, DoneSoFar,
                                             DoingPlaces, WizardPlaced, HandsHold, ReadFresh,
                                             NobodyAside, MadeOrOpened, Install!MadeStale,
                                             Install!At, Install!In, Install!May, Install!Homes,
                                             ConfigsTo
<1>14. CASE Install!BootKeep
  BY <1>1, <1>2, <1>14, BootKeepDoes DEF SetupInv, Reported, Agrees, OpensNow, DoneSoFar,
                                         DoingPlaces, WizardPlaced, HandsHold, ReadFresh,
                                         NobodyAside, Install!At, Install!In, Install!May,
                                         Install!Homes, ConfigsTo
<1>15. CASE Install!RemovalDeletes
  BY <1>1, <1>2, <1>15, DeletesDo DEF SetupInv, Reported, Agrees, OpensNow, DoneSoFar, DoingPlaces,
                                      WizardPlaced, HandsHold, ReadFresh, NobodyAside, ServesOn,
                                      Install!Defaults, Install!At, Install!In, Install!May,
                                      Install!Homes, ConfigsTo
<1> QED
  BY <1>3, <1>4, <1>5, <1>6, <1>7, <1>8, <1>9, <1>10, <1>11, <1>12, <1>13, <1>14, <1>15, SetupSteps

LEMMA RowsChosenStep ==
    ASSUME SetupInv, Install!Next
    PROVE  RowsChosen'
<1>1. SetupTyped
  BY DEF SetupInv
<1>2. /\ passwords \in Nat /\ wiz.cfg \in ConfigsTo(passwords) /\ srv.cfg \in ConfigsTo(passwords)
      /\ wiz.said \in ConfigsTo(passwords)
      /\ config \in [Install!Homes -> ConfigsTo(passwords)]
      /\ config["user"] \in ConfigsTo(passwords) /\ wiz.as \in Install!Homes
      /\ srv.as \in Install!Homes
      /\ applied \in [Install!Homes -> ConfigsTo(passwords) \union {None}]
  BY <1>1 DEF SetupTyped, FilesTyped, InstallRows, Wizards, Servers, Install!Homes
<1>3. CASE PromptSteps
  BY <1>1, <1>2, <1>3, PromptsDo, PromptsLeave DEF SetupInv, RowsChosen, OneAnswer, HoldsOn,
                                                   Returned, BegunWith, Install!Load,
                                                   Install!Overlay, Install!IsComplete,
                                                   Install!Defaults, Install!At, Install!In,
                                                   Install!May, Install!Homes, ConfigsTo
<1>4. CASE \E m \in Install!Modes, a \in Install!Addrs : Install!RunScripted(m, a)
  BY <1>1, <1>2, <1>4, ScriptedDoes DEF SetupInv, RowsChosen, Install!At, Install!In, Install!May,
                                        Install!Homes, ConfigsTo
<1>5. CASE Install!SaveConfig
  BY <1>1, <1>2, <1>5, SaveDoes DEF SetupInv, RowsChosen, HoldsOn, ServesOn, Returned,
                                    Install!Defaults, Install!At, Install!In, Install!May,
                                    Install!Homes, ConfigsTo
<1>6. CASE Install!StartBundled
  BY <1>1, <1>2, <1>6, StartDoes DEF SetupInv, RowsChosen, MadeOrOpened, Returned, Install!Defaults,
                                     Install!At, Install!In, Install!May, Install!Homes, ConfigsTo
<1>7. CASE Install!KeepPassword
  BY <1>1, <1>2, <1>7, KeepDoes DEF SetupInv, RowsChosen, Install!At, Install!In, Install!May,
                                    Install!Homes, ConfigsTo
<1>8. CASE Install!PlantAdmin
  <2>1. /\ rows \in [Install!Modes -> 0..MaxAdmins] /\ chosen \in [Install!Modes -> 0..MaxAdmins]
        /\ srv.cfg.mode \in Install!Modes
    BY <1>1, <1>2 DEF SetupTyped, InstallRows, ConfigsTo
  <2> QED
    BY <1>1, <1>8, <2>1, PlantDoes DEF SetupInv, RowsChosen, Install!In
<1>9. CASE Install!Migrate \/ Install!Interrupt
  BY <1>1, <1>2, <1>9, EndsDo DEF SetupInv, RowsChosen, HoldsOn, Returned, Install!Defaults,
                                  Install!At, Install!In, Install!May, Install!Homes, ConfigsTo
<1>10. CASE \E h \in Install!Homes : Install!Boot(h)
  <2>1. PICK h \in Install!Homes : Install!Boot(h)
    BY <1>10
  <2> QED
    BY <1>1, <1>2, <2>1, BootDoes DEF SetupInv, RowsChosen, Install!Load, Install!Overlay,
                                      Install!At, Install!In, Install!May, Install!Homes, ConfigsTo
<1>11. CASE ServerSteps
  <2>1. /\ rows \in [Install!Modes -> 0..MaxAdmins] /\ chosen \in [Install!Modes -> 0..MaxAdmins]
        /\ srv.cfg.mode \in Install!Modes
    BY <1>1, <1>2 DEF SetupTyped, InstallRows, ConfigsTo
  <2> QED
    BY <1>1, <1>11, <2>1, ServerDoes DEF SetupInv, RowsChosen, ServesOn, Install!In
<1>12. CASE HostSteps
  BY <1>1, <1>2, <1>12, HostDoes DEF SetupInv, RowsChosen, LostBy, Install!At, Install!In,
                                     Install!May, Install!Homes, ConfigsTo
<1>13. CASE Install!BootPostgres
  BY <1>1, <1>2, <1>13, BootPostgresDoes DEF SetupInv, RowsChosen, MadeOrOpened, Install!MadeStale,
                                             Install!At, Install!In, Install!May, Install!Homes,
                                             ConfigsTo
<1>14. CASE Install!BootKeep
  BY <1>1, <1>2, <1>14, BootKeepDoes DEF SetupInv, RowsChosen, Install!At, Install!In, Install!May,
                                         Install!Homes, ConfigsTo
<1>15. CASE Install!RemovalDeletes
  <2>1. rows \in [Install!Modes -> 0..MaxAdmins] /\ chosen \in [Install!Modes -> 0..MaxAdmins]
    BY <1>1 DEF SetupTyped, InstallRows
  <2>2. overtaken' = overtaken /\ ServesOn /\ srv'.pc = srv.pc
    BY <1>1, <1>15, DeletesDo
  <2>3. \/ UNCHANGED <<rows, chosen>>
        \/ rows' = [rows EXCEPT !["embedded"] = 0] /\ chosen' = [chosen EXCEPT !["embedded"] = 0]
    BY <1>1, <1>15, DeletesDo
  <2>4. \A m \in Install!Modes \ overtaken : rows'[m] = chosen'[m] /\ (rows[m] = 0 => rows'[m] = 0)
    BY <2>1, <2>3 DEF SetupInv, RowsChosen
  <2>5. srv.cfg.mode \in Install!Modes
    BY <1>2 DEF ConfigsTo
  <2> QED
    BY <2>2, <2>4, <2>5 DEF SetupInv, RowsChosen, ServesOn, Install!In
<1> QED
  BY <1>3, <1>4, <1>5, <1>6, <1>7, <1>8, <1>9, <1>10, <1>11, <1>12, <1>13, <1>14, <1>15, SetupSteps

LEMMA MachineTypedStep ==
    ASSUME SetupTyped, MachineTyped, Install!Next
    PROVE  MachineTyped'
<1>1. /\ passwords \in Nat /\ Install!Load("user").mode \in Install!Modes
      /\ wiz.cause \in Install!Causes
      /\ {"unsaved", "stale", "none", "uninstalled"} \subseteq Install!Causes
  BY LoadTyped DEF SetupTyped, FilesTyped, Install!Homes, ConfigsTo, Wizards, Install!Causes
<1>2. CASE PromptSteps
  <2>1. pg' = pg /\ UNCHANGED <<passwords, un, dropped, boots, installed>>
    BY <1>2, PromptsLeave DEF PromptSteps, Install!RunSetup, Install!ChooseBundled,
                              Install!ChooseExternal, Install!ChooseBundledAsRoot, Install!Listen,
                              Install!Admin, Install!Jwt, Install!Back, Install!Quit,
                              Install!Confirm, Install!CreateAccount, Install!HandOver,
                              Install!OfferService, Install!wizardOnly, Install!host,
                              Install!counted
  <2>2. CASE \E h \in Install!Homes : Install!RunSetup(h)
    BY <1>1, <2>1, <2>2, SetupConstants DEF MachineTyped, Install!RunSetup, Install!wizardOnly,
                                            Install!host
  <2>3. CASE Install!CreateAccount \/ Install!HandOver \/ Install!OfferService
    BY <1>1, <2>1, <2>3 DEF MachineTyped, Install!CreateAccount, Install!HandOver,
                            Install!OfferService, Install!counted
  <2>4. CASE \/ Install!ChooseBundled \/ Install!ChooseExternal \/ Install!ChooseBundledAsRoot
             \/ (\E a \in Install!Addrs : Install!Listen(a))
             \/ Install!Admin \/ Install!Jwt \/ Install!Back \/ Install!Quit \/ Install!Confirm
    <3>1. UNCHANGED <<runs, account, copied, unit>>
      BY <2>4 DEF Install!ChooseBundled, Install!ChooseExternal, Install!ChooseBundledAsRoot,
                  Install!Listen, Install!Admin, Install!Jwt, Install!Back, Install!Quit,
                  Install!Confirm, Install!wizardOnly, Install!host, Install!counted
    <3> QED
      BY <1>1, <2>1, <3>1 DEF MachineTyped
  <2> QED
    BY <1>2, <2>2, <2>3, <2>4 DEF PromptSteps
<1>3. CASE ServerSteps
  BY <1>1, <1>3, ServerLeaves DEF MachineTyped, ServerSteps, Install!BootMigrate, Install!BootLook,
                                  Install!BootPlant, Install!ChangeAdmin, Install!StopServer,
                                  Install!KillServer, Install!serverOnly, Install!host,
                                  Install!counted, Install!Stopped, Install!Orphaned
<1>4. CASE HostSteps
  <2>1. UNCHANGED <<passwords, runs, boots, account, copied>>
    BY <1>4, HostLeaves DEF HostSteps, Install!InstallService, Install!UninstallService,
                            Install!PlanRemoval, Install!RemovalStopsPg, Install!RemovalStopsServer,
                            Install!RemovalEnds, Install!Reinstall, Install!hostOnly,
                            Install!counted
  <2>2. CASE Install!InstallService \/ Install!UninstallService \/ Install!Reinstall
    BY <1>1, <2>1, <2>2 DEF MachineTyped, Install!InstallService, Install!UninstallService,
                            Install!Reinstall, Install!Stopped
  <2>3. CASE \E keep \in BOOLEAN : Install!PlanRemoval(keep)
    BY <1>1, <2>1, <2>3 DEF MachineTyped, Install!PlanRemoval
  <2>4. CASE Install!RemovalStopsPg \/ Install!RemovalStopsServer \/ Install!RemovalEnds
    <3>1. un' \in [pc : {"off", "pg", "server", "delete", "binary"}, keep : BOOLEAN,
                   mode : Install!Modes]
      <4>1. un' \in {[un EXCEPT !.pc = "server"], [un EXCEPT !.pc = "delete"], Install!NoRemoval}
        BY <2>4 DEF Install!RemovalStopsPg, Install!RemovalStopsServer, Install!RemovalEnds
      <4>2. Install!NoRemoval \in [pc : {"off", "pg", "server", "delete", "binary"}, keep : BOOLEAN,
                                   mode : Install!Modes]
        BY DEF Install!NoRemoval, Install!Modes
      <4> QED
        BY <4>1, <4>2 DEF MachineTyped
    <3>2. /\ pg' \in {pg, "none", "orphan"} /\ dropped' = dropped /\ unit' = unit
          /\ installed' \in {installed, FALSE}
      BY <2>4 DEF Install!RemovalStopsPg, Install!RemovalStopsServer, Install!RemovalEnds,
                  Install!Stopped, Install!Orphaned, Install!hostOnly
    <3> QED
      BY <1>1, <2>1, <3>1, <3>2 DEF MachineTyped
  <2> QED
    BY <1>4, <2>2, <2>3, <2>4 DEF HostSteps
<1>5. CASE \E m \in Install!Modes, a \in Install!Addrs : Install!RunScripted(m, a)
  BY <1>1, <1>5, SetupConstants DEF MachineTyped, Install!RunScripted, Install!wizardOnly,
                                    Install!host, Install!history
<1>6. CASE \/ Install!SaveConfig \/ Install!KeepPassword \/ Install!Migrate \/ Install!PlantAdmin
           \/ Install!Interrupt
  BY <1>1, <1>6 DEF MachineTyped, Install!SaveConfig, Install!KeepPassword, Install!Migrate,
                    Install!PlantAdmin, Install!Interrupt, Install!host, Install!counted,
                    Install!history, Install!Stopped, Install!Orphaned
<1>7. CASE Install!StartBundled
  BY <1>1, <1>7, SetupConstants DEF MachineTyped, Install!StartBundled, Install!Started,
                                    Install!HalfStarted, Install!Refused, Install!CanDraw,
                                    Install!Drawn, Install!host
<1>8. CASE \E h \in Install!Homes : Install!Boot(h)
  BY <1>1, <1>8, SetupConstants DEF MachineTyped, Install!Boot, Install!serverOnly, Install!host
<1>9. CASE Install!BootPostgres
  BY <1>1, <1>9, SetupConstants DEF MachineTyped, Install!BootPostgres, Install!Started,
                                    Install!HalfStarted, Install!Refused, Install!CanDraw,
                                    Install!Drawn, Install!serverOnly, Install!host
<1>10. CASE Install!BootKeep
  BY <1>1, <1>10 DEF MachineTyped, Install!BootKeep, Install!host, Install!counted
<1>11. CASE Install!RemovalDeletes
  BY <1>1, <1>11 DEF MachineTyped, Install!RemovalDeletes, Install!hostOnly, Install!counted
<1> QED
  BY <1>2, <1>3, <1>4, <1>5, <1>6, <1>7, <1>8, <1>9, <1>10, <1>11, SetupSteps

LEMMA SetupInvInit ==
    ASSUME Install!Init
    PROVE  SetupInv
<1>1. /\ wiz = Install!NoWizard /\ srv = Install!NoServer /\ un = Install!NoRemoval
      /\ config = [h \in Install!Homes |-> Install!Defaults] /\ cluster = 0
  BY DEF Install!Init
<1>8. MachineTyped
  <2>1. un \in [pc : {"off", "pg", "server", "delete", "binary"}, keep : BOOLEAN,
                mode : Install!Modes]
    BY <1>1 DEF Install!NoRemoval, Install!Modes
  <2>2. /\ passwords <= MaxPasswords /\ runs \in 0..MaxRuns /\ boots \in 0..MaxBoots
        /\ dropped \in Install!Causes
    BY SetupConstants DEF Install!Init, Install!Causes
  <2> QED
    BY <2>1, <2>2 DEF Install!Init, MachineTyped
<1>2. SetupTyped
  <2>1. passwords = 0 /\ admins = 0 /\ secrets = 0
    BY DEF Install!Init
  <2>2. /\ Install!Defaults \in ConfigsTo(0) /\ Install!NoWizard \in Wizards(0)
        /\ Install!NoServer \in Servers(0)
    BY NullsTyped
  <2>5. 0 \in 0..MaxAdmins /\ 0 \in 0..MaxSecrets
    BY SetupConstants
  <2>3. FilesTyped
    BY <1>1, <2>1, <2>2, <2>5 DEF FilesTyped
  <2>4. InstallRows
    BY <2>1, <2>5 DEF Install!Init, InstallRows
  <2> QED
    BY <1>1, <2>1, <2>2, <2>3, <2>4 DEF SetupTyped
<1>3. /\ wiz.pc = "off" /\ srv.pc = "off" /\ un.pc = "off" /\ wiz.cfg = Install!Defaults
      /\ wiz.said = Install!Defaults
  BY <1>1 DEF Install!NoWizard, Install!NoServer, Install!NoRemoval
<1>4. config["user"] = Install!Defaults /\ Install!Defaults.pw = 0
  BY <1>1 DEF Install!Homes, Install!Defaults
<1>5. NobodyAside /\ SecretsKept /\ WizardPlaced /\ HandsHold
  BY <1>3, <1>4 DEF NobodyAside, SecretsKept, WizardPlaced, HandsHold, Install!At, Install!In,
                    DoingPlaces
<1>6. ReadFresh /\ Install!ClusterOpens /\ DoneSoFar
  BY <1>1, <1>3 DEF ReadFresh, Install!ClusterOpens, DoneSoFar, Install!At, Install!In, DoingPlaces,
                    AskingPlaces, Agrees
<1>7. Reported /\ RowsChosen
  BY <1>3 DEF Install!Init, Reported, RowsChosen, Install!In, Install!Homes
<1> QED
  BY <1>2, <1>5, <1>6, <1>7, <1>8 DEF SetupInv

LEMMA SetupInvStep ==
    ASSUME SetupInv, Install!Next
    PROVE  SetupInv'
<1>1. SetupTyped'
  BY SetupTypedStep DEF SetupInv
<1>2. MachineTyped'
  BY MachineTypedStep DEF SetupInv
<1> QED
  BY <1>1, <1>2, NobodyAsideStep, SecretsKeptStep, WizardPlacedStep, HandsHoldStep, ReadFreshStep,
     ClusterOpensStep, DoneSoFarStep, ReportedStep, RowsChosenStep DEF SetupInv

LEMMA SetupInvShown ==
    ASSUME SetupInv
    PROVE  Install!TypeOK /\ Install!ClusterOpens /\ Install!AppliedHolds
<1>1. ASSUME NEW h \in Install!Homes, applied[h] # None
      PROVE  /\ [config[h] EXCEPT !.pw = 0] = [applied[h] EXCEPT !.pw = 0]
             /\ config[h].mode = "embedded" => config[h].pw = cluster
  <2>1. config[h] \in ConfigsTo(passwords) /\ applied[h] \in ConfigsTo(passwords)
    BY <1>1 DEF SetupInv, SetupTyped, FilesTyped, InstallRows
  <2>2. Agrees(config[h], applied[h])
    BY <1>1 DEF SetupInv, Reported
  <2>3. [config[h] EXCEPT !.pw = 0] = [applied[h] EXCEPT !.pw = 0]
    BY <2>1, <2>2 DEF Agrees, ConfigsTo
  <2>4. h = "user" \/ h = "root"
    BY DEF Install!Homes
  <2> QED
    BY <1>1, <2>3, <2>4 DEF SetupInv, Reported, OpensNow
<1>2. \A m \in Install!Modes \ overtaken : rows[m] = chosen[m]
  BY DEF SetupInv, RowsChosen
<1>3. Install!ClusterOpens
  BY DEF SetupInv
<1>4. Install!TypeOK
  <2>1. /\ passwords \in Nat /\ passwords <= MaxPasswords /\ MaxPasswords \in Nat
        /\ wiz \in Wizards(passwords) /\ srv \in Servers(passwords)
    BY SetupConstants DEF SetupInv, SetupTyped, FilesTyped, MachineTyped
  <2>2. ConfigsTo(MaxPasswords) = Install!Configs /\ ConfigsTo(passwords) \subseteq Install!Configs
    BY <2>1 DEF ConfigsTo, Install!Configs
  <2>3. wiz \in Wizards(MaxPasswords) /\ srv \in Servers(MaxPasswords)
    BY <2>1, CfgGrows
  <2>4. /\ config \in [Install!Homes -> Install!Configs]
        /\ applied \in [Install!Homes -> Install!Configs \union {None}]
    BY <2>2 DEF SetupInv, SetupTyped, FilesTyped, InstallRows
  <2>5. Install!host \in [1..4 -> BOOLEAN]
    BY DEF SetupInv, MachineTyped, Install!host
  <2>6. cluster \in 0..MaxPasswords /\ passwords \in 0..MaxPasswords
    BY <2>1 DEF SetupInv, SetupTyped, FilesTyped
  <2>7. /\ wiz \in [pc : {"off", "db", "account", "copy", "listen", "admin", "jwt", "confirm",
                          "save", "start", "keep", "migrate", "plant", "service"},
                    as : Install!Homes, child : BOOLEAN, cfg : Install!Configs,
                    said : Install!Configs,
                    hand : 0..MaxPasswords, cause : Install!Causes, kept : BOOLEAN]
        /\ srv \in [pc : {"off", "start", "keep", "migrate", "look", "plant", "up"},
                    as : Install!Homes,
                    cfg : Install!Configs, hand : 0..MaxPasswords, crossed : BOOLEAN]
    BY <2>2, <2>3 DEF Wizards, Servers, WizardPlaces, ServerPlaces, AskingPlaces, DoingPlaces
  <2> QED
    BY <2>4, <2>5, <2>6, <2>7 DEF Install!TypeOK, SetupInv, SetupTyped, FilesTyped, InstallRows,
                                  MachineTyped
<1> QED
  BY <1>1, <1>2, <1>3, <1>4 DEF Install!AppliedHolds

\* A step of another lane, or of none, leaves the installation alone.
LEMMA SetupStutters ==
    ASSUME SetupInv, UNCHANGED Install!vars
    PROVE  SetupInv'
<1>1. UNCHANGED <<scenario, config, cluster, pg, rows, wiz, srv, un, account, copied, unit,
                  installed, passwords, admins, secrets, runs, boots, chosen, applied, dropped,
                  overtaken>>
  BY DEF Install!vars, Install!host, Install!counted, Install!history
<1>2. SetupTyped' /\ MachineTyped'
  BY <1>1 DEF SetupInv, SetupTyped, FilesTyped, InstallRows, MachineTyped
<1>3. NobodyAside'
  BY <1>1 DEF SetupInv, NobodyAside, Install!At, Install!In
<1>4. SecretsKept'
  BY <1>1 DEF SetupInv, SecretsKept, Install!At, Install!In
<1>5. WizardPlaced'
  BY <1>1 DEF SetupInv, WizardPlaced, Install!At, Install!In, Install!May
<1>6. HandsHold'
  BY <1>1 DEF SetupInv, HandsHold, Install!At, Install!In, Install!May
<1>7. ReadFresh'
  BY <1>1 DEF SetupInv, ReadFresh, Install!At, Install!In
<1>8. Install!ClusterOpens'
  BY <1>1 DEF SetupInv, Install!ClusterOpens, Install!At, Install!In
<1>9. DoneSoFar'
  BY <1>1 DEF SetupInv, DoneSoFar, Agrees, OpensNow, Install!At, Install!In
<1>10. Reported' /\ RowsChosen'
  BY <1>1 DEF SetupInv, Reported, RowsChosen, Install!In, OpensNow
<1> QED
  BY <1>2, <1>3, <1>4, <1>5, <1>6, <1>7, <1>8, <1>9, <1>10 DEF SetupInv

LEMMA InstallAlways == Spec => [](lane = "Install" => SetupInv)
<1> DEFINE Inv == lane = "Install" => SetupInv
<1>1. Init => Inv
  BY InstallStart, SetupInvInit
<1>2. Inv /\ [Next]_vars => Inv'
  <2> SUFFICES ASSUME Inv, [Next]_vars, lane' = "Install" PROVE SetupInv'
    OBVIOUS
  <2>1. lane = "Install" /\ (Install!Next \/ UNCHANGED Install!vars)
    BY InstallLane
  <2> QED
    BY <2>1, SetupInvStep, SetupStutters
<1> HIDE DEF Inv
<1>3. Spec => []Inv
  BY <1>1, <1>2, PTL DEF Spec
<1> QED
  BY <1>3 DEF Inv

\* The bundled cluster opens with the password of the user's file whatever the wizards, the
\* servers and the uninstaller did, unless the password was given up in one of the ways with a
\* name, for any number of runs, boots, passwords and secrets and any courses of the machine.
THEOREM ClusterOpensHolds == Spec => []ClusterOpens
<1>1. (lane = "Install" => SetupInv) => ClusterOpens
  BY SetupInvShown DEF ClusterOpens
<1> QED
  BY <1>1, InstallAlways, PTL

\* What a wizard has reported done is still in the files and in the database, for any number
\* of runs and boots.
THEOREM AppliedAlwaysHolds == Spec => []AppliedHolds
<1>1. (lane = "Install" => SetupInv) => AppliedHolds
  BY SetupInvShown DEF AppliedHolds
<1> QED
  BY <1>1, InstallAlways, PTL

===============================================================================
