--------------------------- MODULE Barriers_proofs ---------------------------
(***************************************************************************)
(* Safety of the barrier ring for any number of processors, any ring and   *)
(* any sequence of barriers that recycles in time, and any number of       *)
(* collections: Spec => []BInv, and what follows from BInv.                *)
(*                                                                         *)
(* BInv places every reachable state between two strong barriers: l, the   *)
(* last one anybody has passed, and n, the next.  Every processor is at l  *)
(* or past it and none is past n.  The counters of l to n hold what was    *)
(* counted; those before l are 0 already, so that a slow processor, still  *)
(* in its reset for l, takes nothing away.  m is the strong barrier before *)
(* l, from which that reset started.                                       *)
(***************************************************************************)
EXTENDS Barriers, NatLemmas

(* The position in the ring of barrier number k; that of 0 is the last.    *)
Pos(k) == (k + Phase - 1) % Phase

(* l and n are strong barriers in succession, m one before them; the ring  *)
(* is long enough for all of m to n.  There is no barrier 0.               *)
Consecutive(m, l, n) ==
  /\ m <= l /\ l < n /\ n - m < Phase
  /\ l > 0 => StrongAt(l)
  /\ StrongAt(n)
  /\ \A k \in l + 1 .. n - 1 : ~ StrongAt(k)

AllAt(n) == \A p \in Procs : count[p] = n

Arrived(k) == {p \in Procs : count[p] >= k}

(* Where processor p is.                                                   *)
Place(p, m, l, n) ==
  /\ count[p] \in l .. n
  /\ barrierPhase[p] = Pos(count[p] + 1)
  /\ count[p] = 0 => pc[p] \in {"out", "next"}
  /\ count[p] \in l + 1 .. n - 1 => pc[p] \in {"out", "next"}
  /\ count[p] = n => /\ pc[p] \in {"spin", "check", "reset"}
                     /\ pc[p] # "spin" => AllAt(n)
  /\ pc[p] \in {"spin", "check", "reset"} => which[p] = Pos(count[p])
  /\ pc[p] = "reset" /\ count[p] = l => \E k \in m .. l : i[p] = Pos(k)
  /\ pc[p] = "reset" /\ count[p] = n =>
       \E k \in l .. n : /\ i[p] = Pos(k)
                         /\ \A x \in l .. k - 1 : barriers[Pos(x)] = 0

(* What the counters hold.                                                 *)
Counters(l, n) ==
  /\ \A x \in Ring : (\A k \in l .. n : x # Pos(k)) => barriers[x] = 0
  /\ \A k \in l + 1 .. n :
       \/ barriers[Pos(k)] = Cardinality(Arrived(k))
       \/ k < n /\ AllAt(n) /\ barriers[Pos(k)] = 0
  /\ l > 0 => barriers[Pos(l)] = NumProcessor \/ AllAt(n)

BAt(m, l, n) ==
  /\ Consecutive(m, l, n)
  /\ lastUsed = Pos(l)
  /\ \A p \in Procs : Place(p, m, l, n)
  /\ Counters(l, n)

BInv == TypeOK /\ \E m, l, n \in Nat : BAt(m, l, n)

----------------------------------------------------------------------------
(* Positions in the ring.                                                  *)

(* Division with remainder by a divisor that is not a numeral.             *)
LEMMA DivMod ==
  ASSUME NEW a \in Nat, NEW d \in Nat \ {0}
  PROVE  a % d \in 0 .. d - 1 /\ (a \div d) \in Nat /\ a = d * (a \div d) + (a % d)
OBVIOUS

(* A positive multiple of d is at least d.                                 *)
LEMMA Multiple ==
  ASSUME NEW d \in Nat \ {0}, NEW q \in Int, q >= 1
  PROVE  d * q >= d
OBVIOUS

(* Quotient and remainder are unique.                                      *)
LEMMA DivModUnique ==
  ASSUME NEW d \in Nat \ {0}, NEW q1 \in Int, NEW r1 \in 0 .. d - 1,
         NEW q2 \in Int, NEW r2 \in 0 .. d - 1, d * q1 + r1 = d * q2 + r2
  PROVE  q1 = q2 /\ r1 = r2
<1>1. d * (q1 - q2) = r2 - r1 /\ d * (q2 - q1) = r1 - r2
  OBVIOUS
<1>2. ~ (q1 - q2 >= 1) /\ ~ (q2 - q1 >= 1)
  BY <1>1, Multiple
<1>3. q1 = q2
  BY <1>2
<1>. QED
  BY <1>1, <1>3

(* The remainder of a number given as a multiple and a rest.               *)
LEMMA ModIs ==
  ASSUME NEW d \in Nat \ {0}, NEW a \in Nat, NEW q \in Int,
         NEW r \in 0 .. d - 1, a = d * q + r
  PROVE  a % d = r
<1>. DEFINE Q == a \div d
            R == a % d
<1>1. Q \in Int /\ R \in 0 .. d - 1 /\ a = d * Q + R
  <2>1. d \in Nat \ {0} /\ a \in Nat
    OBVIOUS
  <2>. QED
    BY ONLY <2>1, DivMod DEF Q, R
<1>. HIDE DEF Q, R
<1>2. R = r
  BY <1>1, DivModUnique
<1>. QED
  BY <1>2 DEF R

(* The ring is not empty, and positions are in it.                         *)
LEMMA PosIn ==
  ASSUME NEW k \in Nat
  PROVE  Pos(k) \in Ring
<1>1. k + Phase - 1 \in Nat /\ Phase \in Nat \ {0}
  BY BarriersAssumption
<1>. QED
  BY <1>1, DivMod DEF Pos, Ring

(* The next barrier is one position on.                                    *)
LEMMA PosNext ==
  ASSUME NEW k \in Nat
  PROVE  (Pos(k) + 1) % Phase = Pos(k + 1)
<1>. DEFINE a == k + Phase - 1
            Q == a \div Phase
            R == a % Phase
<1>1. Phase \in Nat \ {0} /\ a \in Nat /\ a + 1 \in Nat /\ Phase >= 3
  BY BarriersAssumption
<1>2. Q \in Nat /\ R \in 0 .. Phase - 1 /\ a = Phase * Q + R
  BY <1>1, DivMod
<1>3. Pos(k) = R /\ Pos(k + 1) = (a + 1) % Phase
  <2>1. k + 1 + Phase - 1 = a + 1
    BY BarriersAssumption
  <2>. QED
    BY <2>1 DEF Pos
<1>. HIDE DEF a, Q, R
<1>4. CASE R = Phase - 1
  <2>1. a + 1 = Phase * (Q + 1) + 0 /\ R + 1 = Phase * 1 + 0
    BY <1>1, <1>2, <1>4
  <2>2. (a + 1) % Phase = 0
    BY <1>1, <1>2, <2>1, ModIs
  <2>3. (R + 1) % Phase = 0
    BY <1>1, <1>2, <2>1, ModIs
  <2>. QED
    BY <1>3, <2>2, <2>3
<1>5. CASE R # Phase - 1
  <2>1. a + 1 = Phase * Q + (R + 1) /\ R + 1 = Phase * 0 + (R + 1)
        /\ R + 1 \in 0 .. Phase - 1
    BY <1>1, <1>2, <1>5
  <2>2. (a + 1) % Phase = R + 1
    BY <1>1, <1>2, <2>1, ModIs
  <2>3. (R + 1) % Phase = R + 1
    BY <1>1, <2>1, ModIs
  <2>. QED
    BY <1>3, <2>2, <2>3
<1>. QED
  BY <1>4, <1>5

(* Barriers less than Phase apart have positions of their own.             *)
LEMMA PosNear ==
  ASSUME NEW j \in Nat, NEW k \in Nat, Pos(j) = Pos(k), k - j < Phase, j - k < Phase
  PROVE  j = k
<1>. DEFINE a == j + Phase - 1
            b == k + Phase - 1
            A == a \div Phase
            B == b \div Phase
            r == Pos(j)
<1>1. Phase \in Nat \ {0} /\ a \in Nat /\ b \in Nat
  BY BarriersAssumption
<1>2. /\ A \in Nat /\ a = Phase * A + r
      /\ B \in Nat /\ b = Phase * B + r
      /\ r \in 0 .. Phase - 1
  BY <1>1, DivMod DEF Pos
<1>3. a - b = j - k
  BY <1>1
<1>. HIDE DEF a, b, A, B, r
<1>4. Phase * (A - B) = j - k /\ Phase * (B - A) = k - j
  BY <1>1, <1>2, <1>3
<1>5. ~ (A - B >= 1) /\ ~ (B - A >= 1)
  BY <1>1, <1>2, <1>4, Multiple
<1>6. A = B
  BY <1>2, <1>5
<1>. QED
  BY <1>1, <1>2, <1>3, <1>6

(* The kinds of the barriers repeat with every collection.                 *)
LEMMA StrongRepeats ==
  ASSUME NEW a \in Nat, NEW j \in Nat \ {0}
  PROVE  StrongAt(a + j) <=> StrongAt((a % Len(Program)) + j)
<1>. DEFINE L == Len(Program)
<1>1. L \in Nat \ {0}
  BY BarriersAssumption
<1>. HIDE DEF L
<1>. DEFINE q == a \div L
            r == a % L
<1>2. q \in Nat /\ r \in 0 .. L - 1 /\ a = L * q + r
  BY <1>1, DivMod
<1>. HIDE DEF q, r
<1>. DEFINE b == r + j - 1
            p == b \div L
            s == b % L
<1>3. b \in Nat
  BY <1>1, <1>2
<1>4. p \in Nat /\ s \in 0 .. L - 1 /\ b = L * p + s
  BY <1>1, <1>3, DivMod
<1>. HIDE DEF p, s
<1>5. a + j - 1 = L * (q + p) + s /\ a + j - 1 \in Nat /\ q + p \in Int
  BY <1>1, <1>2, <1>4
<1>6. (a + j - 1) % L = s
  BY <1>1, <1>4, <1>5, ModIs
<1>7. (r + j - 1) % L = s
  BY DEF s
<1>8. a + j > 0 /\ r + j > 0
  BY <1>1, <1>2
<1>. QED
  BY <1>6, <1>7, <1>8 DEF StrongAt, L, r

(* Two of any Phase - 1 barriers in a row are strong.                      *)
LEMMA TwoStrong ==
  ASSUME NEW a \in Nat
  PROVE  \E j, k \in 1 .. Phase - 1 : j < k /\ StrongAt(a + j) /\ StrongAt(a + k)
<1>1. Len(Program) \in Nat \ {0}
  BY BarriersAssumption
<1>2. a % Len(Program) \in 0 .. Len(Program) - 1
  BY <1>1, DivMod
<1>3. PICK j, k \in 1 .. Phase - 1 : /\ j < k
                                     /\ StrongAt((a % Len(Program)) + j)
                                     /\ StrongAt((a % Len(Program)) + k)
  BY <1>2, RecyclingAssumption
<1>4. j \in Nat \ {0} /\ k \in Nat \ {0}
  BY BarriersAssumption
<1>. QED
  BY <1>3, <1>4, StrongRepeats

(* After the strong barriers l and n comes another, close enough.          *)
LEMMA NextStrong ==
  ASSUME NEW m \in Nat, NEW l \in Nat, NEW n \in Nat, Consecutive(m, l, n)
  PROVE  \E o \in Nat : Consecutive(l, n, o)
<1>1. PICK j, k \in 1 .. Phase - 1 : /\ j < k
                                     /\ StrongAt(l + j) /\ StrongAt(l + k)
  BY TwoStrong
<1>2. Phase \in Nat
  BY BarriersAssumption
<1>. DEFINE S == {x \in Nat : x > n /\ StrongAt(x)}
<1>3. l + j >= n /\ l + k > n
  BY <1>1, <1>2 DEF Consecutive
<1>4. l + k \in S
  BY <1>1, <1>2, <1>3
<1>5. PICK o \in S : \A x \in S : o <= x
  BY <1>4, NatMin
<1>6. o \in Nat /\ o > n /\ StrongAt(o) /\ o <= l + k
  BY <1>4, <1>5
<1>7. \A x \in n + 1 .. o - 1 : ~ StrongAt(x)
  <2>. SUFFICES ASSUME NEW x \in n + 1 .. o - 1, StrongAt(x) PROVE FALSE
    OBVIOUS
  <2>1. x \in S /\ ~ (o <= x)
    BY <1>6
  <2>. QED
    BY <1>5, <2>1
<1>8. o - l < Phase
  BY <1>2, <1>6
<1>. QED
  BY <1>6, <1>7, <1>8 DEF Consecutive

----------------------------------------------------------------------------
(* Processors that have arrived.                                           *)

(* The processors past a barrier are finitely many; all of them are all.   *)
LEMMA ArrivedFinite ==
  ASSUME TypeOK, NEW k \in Int
  PROVE  /\ IsFiniteSet(Arrived(k)) /\ Cardinality(Arrived(k)) \in 0 .. NumProcessor
         /\ NumProcessor \in Nat
         /\ Cardinality(Arrived(k)) = NumProcessor => Arrived(k) = Procs
<1>1. Arrived(k) \in SUBSET Procs /\ IsFiniteSet(Procs)
  BY BarriersAssumption DEF Arrived
<1>. QED
  BY <1>1, FS_Subset, FS_CardinalityType DEF NumProcessor

(* A counter between two strong barriers holds at most its arrivals.       *)
LEMMA CounterAtMost ==
  ASSUME TypeOK, NEW m \in Nat, NEW l \in Nat, NEW n \in Nat, BAt(m, l, n),
         NEW k \in l + 1 .. n
  PROVE  /\ barriers[Pos(k)] \in 0 .. NumProcessor /\ Pos(k) \in Ring
         /\ ~ AllAt(n) \/ k = n => barriers[Pos(k)] = Cardinality(Arrived(k))
<1>1. Pos(k) \in Ring
  BY PosIn
<1>. QED
  BY <1>1 DEF TypeOK, BAt, Counters

(* Positions of m to n are distinct.                                       *)
LEMMA Apart ==
  ASSUME NEW m \in Nat, NEW l \in Nat, NEW n \in Nat, Consecutive(m, l, n),
         NEW j \in m .. n, NEW k \in m .. n, Pos(j) = Pos(k)
  PROVE  j = k
<1>1. j \in Nat /\ k \in Nat /\ k - j < Phase /\ j - k < Phase /\ Phase \in Nat
  BY BarriersAssumption DEF Consecutive
<1>. QED
  BY <1>1, PosNear

----------------------------------------------------------------------------
(* Steps that change no counter.                                           *)

(* A processor that does not move keeps its place while whoever has        *)
(* arrived stays so and no counter that was reset is counted again.        *)
LEMMA OthersPlace ==
  ASSUME NEW m \in Nat, NEW l \in Nat, NEW n \in Nat, NEW q \in Procs,
         Place(q, m, l, n),
         count'[q] = count[q], barrierPhase'[q] = barrierPhase[q],
         pc'[q] = pc[q], which'[q] = which[q], i'[q] = i[q],
         AllAt(n) => AllAt(n)',
         \A x \in l .. n - 1 : AllAt(n) /\ barriers[Pos(x)] = 0
                                 => barriers'[Pos(x)] = 0
  PROVE  Place(q, m, l, n)'
<1>. DEFINE PlaceP ==
       /\ count'[q] \in l .. n
       /\ barrierPhase'[q] = Pos(count'[q] + 1)
       /\ count'[q] = 0 => pc'[q] \in {"out", "next"}
       /\ count'[q] \in l + 1 .. n - 1 => pc'[q] \in {"out", "next"}
       /\ count'[q] = n => /\ pc'[q] \in {"spin", "check", "reset"}
                           /\ pc'[q] # "spin" => AllAt(n)'
       /\ pc'[q] \in {"spin", "check", "reset"} => which'[q] = Pos(count'[q])
       /\ pc'[q] = "reset" /\ count'[q] = l => \E k \in m .. l : i'[q] = Pos(k)
       /\ pc'[q] = "reset" /\ count'[q] = n =>
            \E k \in l .. n : /\ i'[q] = Pos(k)
                              /\ \A x \in l .. k - 1 : barriers'[Pos(x)] = 0
<1>1. Place(q, m, l, n)' <=> PlaceP
  BY DEF Place, Pos
<1>2. ASSUME pc[q] = "reset", count[q] = n
      PROVE  \E k \in l .. n : /\ i'[q] = Pos(k)
                               /\ \A x \in l .. k - 1 : barriers'[Pos(x)] = 0
  <2>1. PICK k \in l .. n : /\ i[q] = Pos(k)
                            /\ \A x \in l .. k - 1 : barriers[Pos(x)] = 0
    BY <1>2 DEF Place
  <2>2. AllAt(n)
    BY <1>2 DEF Place
  <2>3. \A x \in l .. k - 1 : barriers'[Pos(x)] = 0
    BY <2>1, <2>2
  <2>. QED
    BY <2>1, <2>3
<1>3. PlaceP
  BY <1>2 DEF Place
<1>. QED
  BY <1>1, <1>3

(* The next step of a processor that only moves.                           *)
LEMMA QuietKeeps ==
  ASSUME TypeOK, TypeOK', NEW m \in Nat, NEW l \in Nat, NEW n \in Nat,
         BAt(m, l, n), NEW p \in Procs,
         UNCHANGED <<barriers, lastUsed, barrierPhase, count>>,
         \A q \in Procs : q # p => /\ pc'[q] = pc[q] /\ which'[q] = which[q]
                                   /\ i'[q] = i[q],
         Place(p, m, l, n)'
  PROVE  BAt(m, l, n)'
<1>1. AllAt(n)' <=> AllAt(n)
  BY DEF AllAt
<1>2. \A q \in Procs : Place(q, m, l, n)'
  <2>. SUFFICES ASSUME NEW q \in Procs, q # p PROVE Place(q, m, l, n)'
    OBVIOUS
  <2>1. Place(q, m, l, n)
    BY DEF BAt
  <2>. QED
    BY <1>1, <2>1, OthersPlace
<1>3. Counters(l, n)'
  <2>1. \A k : Arrived(k)' = Arrived(k)
    BY DEF Arrived
  <2>. QED
    BY <1>1, <2>1 DEF BAt, Counters
<1>. QED
  BY <1>2, <1>3 DEF BAt

(* Joining a collection.                                                   *)
LEMMA StartStep ==
  ASSUME BInv, NEW p \in Procs, StartRound(p) \/ PollRound(p)
  PROVE  BInv'
<1>1. PICK m, l, n \in Nat : BAt(m, l, n)
  BY DEF BInv
<1>2. /\ pc[p] = "out" /\ pc' = [pc EXCEPT ![p] = "next"]
      /\ UNCHANGED <<barriers, lastUsed, barrierPhase, count, which, i, first>>
  BY DEF StartRound, PollRound, Goto, shared
<1>3. TypeOK'
  BY <1>2 DEF BInv, TypeOK
<1>4. pc'[p] = "next" /\ \A q \in Procs : q # p => pc'[q] = pc[q]
  BY <1>2 DEF BInv, TypeOK
<1>5. Place(p, m, l, n)'
  <2>1. Place(p, m, l, n)
    BY <1>1 DEF BAt
  <2>. QED
    BY <1>2, <1>4, <2>1 DEF Place, Pos
<1>6. BAt(m, l, n)'
  BY <1>1, <1>2, <1>3, <1>4, <1>5, QuietKeeps DEF BInv
<1>. QED
  BY <1>3, <1>6 DEF BInv

(* A processor leaves the spin of the strong barrier n only when every     *)
(* processor has arrived there.                                            *)
LEMMA FullMeansAll ==
  ASSUME TypeOK, NEW m \in Nat, NEW l \in Nat, NEW n \in Nat, BAt(m, l, n),
         barriers[Pos(n)] >= NumProcessor
  PROVE  AllAt(n)
<1>1. n \in l + 1 .. n
  BY DEF BAt, Consecutive
<1>2. barriers[Pos(n)] = Cardinality(Arrived(n))
  BY <1>1, CounterAtMost
<1>3. Arrived(n) = Procs
  BY <1>2, ArrivedFinite
<1>4. \A p \in Procs : count[p] \in l .. n /\ count[p] >= n
  BY <1>3 DEF BAt, Place, Arrived
<1>. QED
  BY <1>4 DEF AllAt

(* The steps from the spin to the reset.                                   *)
LEMMA LeaveStep ==
  ASSUME BInv, NEW p \in Procs, LeaveSpin(p) \/ ReadLastUsed(p)
  PROVE  BInv'
<1>1. PICK m, l, n \in Nat : BAt(m, l, n)
  BY DEF BInv
<1>2. /\ pc[p] \in {"spin", "check"}
      /\ UNCHANGED <<barriers, lastUsed, barrierPhase, count, which, first>>
      /\ pc[p] = "spin" => /\ pc' = [pc EXCEPT ![p] = "check"] /\ i' = i
                           /\ barriers[which[p]] >= NumProcessor
      /\ pc[p] = "check" => /\ pc' = [pc EXCEPT ![p] = "reset"]
                            /\ i' = [i EXCEPT ![p] = lastUsed]
  BY DEF LeaveSpin, ReadLastUsed, Goto, shared
<1>3. TypeOK'
  BY <1>2 DEF BInv, TypeOK
<1>4. /\ pc[p] = "spin" => pc'[p] = "check"
      /\ pc[p] = "check" => pc'[p] = "reset" /\ i'[p] = Pos(l)
      /\ \A q \in Procs : q # p => pc'[q] = pc[q] /\ i'[q] = i[q]
  BY <1>1, <1>2 DEF BInv, TypeOK, BAt
<1>5. Place(p, m, l, n)'
  <2>1. Place(p, m, l, n) /\ m <= l /\ l < n
    BY <1>1 DEF BAt, Consecutive
  <2>2. AllAt(n)' <=> AllAt(n)
    BY <1>2 DEF AllAt
  <2>3. count[p] = n => AllAt(n)
    <3>1. CASE pc[p] = "spin" /\ count[p] = n
      <4>1. barriers[Pos(n)] >= NumProcessor
        BY <1>2, <2>1, <3>1 DEF Place
      <4>. QED
        BY <1>1, <4>1, FullMeansAll DEF BInv
    <3>2. CASE pc[p] # "spin"
      BY <2>1, <3>2 DEF Place
    <3>. QED
      BY <3>1, <3>2
  <2>4. pc'[p] \in {"check", "reset"}
    BY <1>2, <1>4
  <2>5. pc'[p] = "reset" => i'[p] = Pos(l)
    BY <1>2, <1>4
  <2>6. l \in m .. l /\ l \in l .. n /\ l .. l - 1 = {}
    BY <2>1
  <2>. QED
    BY <1>2, <2>1, <2>2, <2>3, <2>4, <2>5, <2>6 DEF Place, Pos
<1>6. BAt(m, l, n)'
  BY <1>1, <1>2, <1>3, <1>4, <1>5, QuietKeeps DEF BInv
<1>. QED
  BY <1>3, <1>6 DEF BInv

----------------------------------------------------------------------------
(* Steps that change a counter, or the strong barrier passed last.         *)

(* A reset for l finds nothing left; one for n resets the counters before  *)
(* n, which nobody will read.                                              *)
LEMMA ResetStep ==
  ASSUME BInv, NEW p \in Procs, ResetCounter(p)
  PROVE  BInv'
<1>1. PICK m, l, n \in Nat : BAt(m, l, n)
  BY DEF BInv
<1>2. /\ pc[p] = "reset" /\ i[p] # which[p]
      /\ barriers' = [barriers EXCEPT ![i[p]] = 0]
      /\ i' = [i EXCEPT ![p] = (@ + 1) % Phase]
      /\ UNCHANGED <<lastUsed, barrierPhase, count, pc, which, first>>
  BY DEF ResetCounter
<1>3. /\ Consecutive(m, l, n) /\ m <= l /\ l < n /\ Place(p, m, l, n)
      /\ which[p] = Pos(count[p]) /\ count[p] \in {l, n}
  <2>1. Consecutive(m, l, n) /\ m <= l /\ l < n /\ Place(p, m, l, n)
    BY <1>1 DEF BAt, Consecutive
  <2>2. count[p] \in l .. n /\ count[p] \notin l + 1 .. n - 1
    BY <1>2, <2>1 DEF Place
  <2>3. count[p] \in {l, n}
    BY <2>2
  <2>. QED
    BY <1>2, <2>1, <2>3 DEF Place
<1>4. PICK k \in m .. n :
        /\ i[p] = Pos(k)
        /\ count[p] = l => k < l
        /\ count[p] = n => /\ k >= l /\ k < n
                           /\ \A x \in l .. k - 1 : barriers[Pos(x)] = 0
  <2>1. CASE count[p] = l
    <3>1. PICK k \in m .. l : i[p] = Pos(k)
      BY <1>2, <1>3, <2>1 DEF Place
    <3>2. k # l
      BY <1>2, <1>3, <2>1, <3>1
    <3>. QED
      BY <1>3, <2>1, <3>1, <3>2
  <2>2. CASE count[p] = n
    <3>1. PICK k \in l .. n : /\ i[p] = Pos(k)
                              /\ \A x \in l .. k - 1 : barriers[Pos(x)] = 0
      BY <1>2, <1>3, <2>2 DEF Place
    <3>2. k # n
      BY <1>2, <1>3, <2>2, <3>1
    <3>. QED
      BY <1>3, <2>2, <3>1, <3>2
  <2>. QED
    BY <1>3, <2>1, <2>2
<1>5. /\ Pos(k) \in Ring /\ k \in Nat /\ k + 1 \in Nat /\ Pos(k + 1) \in Ring
      /\ (Pos(k) + 1) % Phase = Pos(k + 1)
  BY PosIn, PosNext
<1>6. /\ barriers'[Pos(k)] = 0 /\ i'[p] = Pos(k + 1)
      /\ \A x \in Ring : x # Pos(k) => barriers'[x] = barriers[x]
      /\ \A q \in Procs : q # p => i'[q] = i[q]
  BY <1>2, <1>4, <1>5 DEF BInv, TypeOK
<1>7. TypeOK'
  <2>1. 0 \in 0 .. NumProcessor
    BY ArrivedFinite DEF BInv
  <2>2. barriers' \in [Ring -> 0 .. NumProcessor]
    BY <1>2, <1>4, <1>5, <2>1 DEF BInv, TypeOK
  <2>3. i' \in [Procs -> Ring]
    BY <1>2, <1>4, <1>5 DEF BInv, TypeOK
  <2>. QED
    BY <1>2, <2>2, <2>3 DEF BInv, TypeOK
<1>8. /\ AllAt(n)' <=> AllAt(n)
      /\ \A x : Arrived(x)' = Arrived(x)
      /\ count[p] = n => AllAt(n)
      /\ count[p] = l => ~ AllAt(n)
  BY <1>2, <1>3 DEF AllAt, Arrived, Place
<1>9. \A x \in m .. n : /\ Pos(x) \in Ring
                        /\ x # k => barriers'[Pos(x)] = barriers[Pos(x)]
  <2>. TAKE x \in m .. n
  <2>1. Pos(x) \in Ring
    BY PosIn
  <2>2. x # k => Pos(x) # Pos(k)
    BY <1>3, Apart
  <2>. QED
    BY <1>6, <2>1, <2>2
<1>10. \A x \in l .. n - 1 : barriers[Pos(x)] = 0 => barriers'[Pos(x)] = 0
  BY <1>3, <1>6, <1>9
<1>11. Place(p, m, l, n)'
  <2>1. CASE count[p] = l
    <3>1. k + 1 \in m .. l
      BY <1>4, <2>1
    <3>. QED
      BY <1>2, <1>3, <1>6, <1>8, <2>1, <3>1 DEF Place, Pos
  <2>2. CASE count[p] = n
    <3>1. k + 1 \in l .. n /\ \A x \in l .. k + 1 - 1 : x \in m .. n
      BY <1>3, <1>4, <2>2
    <3>2. \A x \in l .. k + 1 - 1 : barriers'[Pos(x)] = 0
      <4>. TAKE x \in l .. k + 1 - 1
      <4>1. x = k \/ x \in l .. k - 1
        BY <1>4, <2>2
      <4>. QED
        BY <1>4, <1>6, <1>9, <2>2, <3>1, <4>1
    <3>. QED
      BY <1>2, <1>3, <1>6, <1>8, <2>2, <3>1, <3>2 DEF Place, Pos
  <2>. QED
    BY <1>3, <2>1, <2>2
<1>12. \A q \in Procs : Place(q, m, l, n)'
  <2>. SUFFICES ASSUME NEW q \in Procs, q # p PROVE Place(q, m, l, n)'
    BY <1>11
  <2>1. Place(q, m, l, n)
    BY <1>1 DEF BAt
  <2>. QED
    BY <1>2, <1>6, <1>8, <1>10, <2>1, OthersPlace
<1>13. Counters(l, n)'
  <2>1. \A x \in Ring : (\A j \in l .. n : x # Pos(j)) => barriers'[x] = 0
    BY <1>1, <1>6 DEF BAt, Counters
  <2>2. \A j \in l + 1 .. n :
          \/ barriers'[Pos(j)] = Cardinality(Arrived(j))
          \/ j < n /\ AllAt(n) /\ barriers'[Pos(j)] = 0
    <3>. TAKE j \in l + 1 .. n
    <3>1. j \in m .. n
      BY <1>3
    <3>2. CASE j # k
      BY <1>1, <1>9, <3>1, <3>2 DEF BAt, Counters
    <3>3. CASE j = k
      <4>1. count[p] = n
        BY <1>3, <1>4, <3>3
      <4>. QED
        BY <1>4, <1>6, <1>8, <3>3, <4>1
    <3>. QED
      BY <3>2, <3>3
  <2>3. l > 0 => barriers'[Pos(l)] = NumProcessor \/ AllAt(n)
    <3>1. CASE count[p] = l
      <4>1. l \in m .. n /\ l # k
        BY <1>3, <1>4, <3>1
      <4>. QED
        BY <1>1, <1>9, <4>1 DEF BAt, Counters
    <3>2. CASE count[p] = n
      BY <1>8, <3>2
    <3>. QED
      BY <1>3, <3>1, <3>2
  <2>. QED
    BY <1>8, <2>1, <2>2, <2>3 DEF Counters, Pos
<1>14. BAt(m, l, n)'
  BY <1>1, <1>2, <1>12, <1>13 DEF BAt
<1>. QED
  BY <1>7, <1>14 DEF BInv

(* The next barrier of a processor inside a collection is the one after    *)
(* its count, and is not past the strong barrier n.                        *)
LEMMA NextBarrier ==
  ASSUME TypeOK, NEW m \in Nat, NEW l \in Nat, NEW n \in Nat, BAt(m, l, n),
         NEW p \in Procs, pc[p] \in {"out", "next"}
  PROVE  /\ count[p] \in l .. n - 1 /\ count[p] + 1 \in l + 1 .. n
         /\ ~ AllAt(n)
         /\ barrierPhase[p] = Pos(count[p] + 1)
         /\ Kind(p) = "strong" <=> count[p] + 1 = n
<1>1. Place(p, m, l, n) /\ l < n /\ Consecutive(m, l, n)
  BY DEF BAt, Consecutive
<1>2. count[p] # n
  BY <1>1 DEF Place
<1>3. count[p] \in l .. n - 1 /\ count[p] + 1 \in l + 1 .. n
  BY <1>1, <1>2 DEF Place
<1>4. count[p] + 1 > 0 /\ count[p] + 1 - 1 = count[p] /\ count[p] \in Nat
  BY <1>3
<1>5. Kind(p) = "strong" <=> StrongAt(count[p] + 1)
  BY <1>4 DEF Kind, StrongAt
<1>6. StrongAt(count[p] + 1) <=> count[p] + 1 = n
  BY <1>1, <1>3 DEF Consecutive
<1>. QED
  BY <1>1, <1>2, <1>3, <1>5, <1>6 DEF AllAt, Place

(* An arrival at the next barrier, weak or strong.                         *)
LEMMA ArriveStep ==
  ASSUME BInv, NEW p \in Procs, WeakBarrier(p) \/ StrongBarrier(p)
  PROVE  BInv'
<1>1. PICK m, l, n \in Nat : BAt(m, l, n)
  BY DEF BInv
<1>2. /\ pc[p] = "next" /\ Arrive(p) /\ UNCHANGED <<lastUsed, i>>
  BY DEF WeakBarrier, StrongBarrier, Goto
<1>3. PICK c : c = count[p]
  OBVIOUS
<1>4. /\ c \in l .. n - 1 /\ c + 1 \in l + 1 .. n /\ ~ AllAt(n) /\ c \in Nat
      /\ barrierPhase[p] = Pos(c + 1)
      /\ Kind(p) = "strong" <=> c + 1 = n
  BY <1>1, <1>2, <1>3, NextBarrier DEF BInv
<1>5. /\ barriers' = [barriers EXCEPT ![Pos(c + 1)] = @ + 1]
      /\ barrierPhase' = [barrierPhase EXCEPT ![p] = Pos(c + 1 + 1)]
      /\ count' = [count EXCEPT ![p] = c + 1]
  <2>1. (Pos(c + 1) + 1) % Phase = Pos(c + 1 + 1)
    BY <1>4, PosNext
  <2>2. barrierPhase \in [Procs -> Ring] /\ count \in [Procs -> Nat]
    BY DEF BInv, TypeOK
  <2>3. barriers' = [barriers EXCEPT ![Pos(c + 1)] = @ + 1]
    BY <1>2, <1>4 DEF Arrive
  <2>4. count' = [count EXCEPT ![p] = c + 1]
    BY <1>2, <1>3, <2>2 DEF Arrive
  <2>5. barrierPhase' = [barrierPhase EXCEPT ![p] = (barrierPhase[p] + 1) % Phase]
    BY <1>2, <2>2 DEF Arrive
  <2>. QED
    BY <1>4, <2>1, <2>3, <2>4, <2>5
<1>6. /\ count'[p] = c + 1 /\ barrierPhase'[p] = Pos(c + 1 + 1)
      /\ \A q \in Procs : q # p => /\ count'[q] = count[q]
                                   /\ barrierPhase'[q] = barrierPhase[q]
  BY <1>5 DEF BInv, TypeOK
<1>7. /\ c + 1 = n => pc' = [pc EXCEPT ![p] = "spin"] /\ which'[p] = Pos(n)
      /\ c + 1 # n => /\ pc'[p] \in {"out", "next"}
                      /\ \A q \in Procs : q # p => pc'[q] = pc[q]
      /\ \A q \in Procs : q # p => which'[q] = which[q]
      /\ pc' \in [Procs -> {"out", "next", "spin", "check", "reset"}]
      /\ which' \in [Procs -> Ring]
      /\ first' \in [Procs -> BOOLEAN]
  <2>1. CASE c + 1 = n
    <3>1. StrongBarrier(p)
      BY <1>4, <2>1 DEF WeakBarrier
    <3>2. /\ pc' = [pc EXCEPT ![p] = "spin"]
          /\ which' = [which EXCEPT ![p] = Pos(c + 1)] /\ first' = first
      BY <1>4, <3>1 DEF StrongBarrier, Goto
    <3>3. Pos(c + 1) \in Ring
      BY <1>4, PosIn
    <3>. QED
      BY <2>1, <3>2, <3>3 DEF BInv, TypeOK
  <2>2. CASE c + 1 # n
    <3>1. WeakBarrier(p)
      BY <1>4, <2>2 DEF StrongBarrier
    <3>2. /\ which' = which
          /\ pc' = [pc EXCEPT ![p] = After(p)']
          /\ first' = [first EXCEPT ![p] = barriers[barrierPhase[p]] = 0]
      BY <3>1 DEF WeakBarrier
    <3>3. After(p)' \in {"out", "next"}
      BY DEF After
    <3>. QED
      BY <2>2, <3>2, <3>3 DEF BInv, TypeOK
  <2>. QED
    BY <2>1, <2>2
<1>8. \A k \in Int : Arrived(k)' = IF k = c + 1 THEN Arrived(k) \cup {p}
                                   ELSE Arrived(k)
  <2>1. \A q \in Procs : count[q] \in Nat
    BY DEF BInv, TypeOK
  <2>2. \A k \in Int, q \in Procs :
          count'[q] >= k <=> count[q] >= k \/ (k = c + 1 /\ q = p)
    BY <1>3, <1>4, <1>6, <2>1
  <2>. QED
    BY <2>2 DEF Arrived
<1>9. /\ barriers[Pos(c + 1)] = Cardinality(Arrived(c + 1))
      /\ Cardinality(Arrived(c + 1) \cup {p}) = Cardinality(Arrived(c + 1)) + 1
      /\ Cardinality(Arrived(c + 1)) + 1 \in 0 .. NumProcessor
      /\ Pos(c + 1) \in Ring
  <2>1. barriers[Pos(c + 1)] = Cardinality(Arrived(c + 1)) /\ Pos(c + 1) \in Ring
    BY <1>1, <1>4, CounterAtMost DEF BInv
  <2>2. p \notin Arrived(c + 1)
    BY <1>3, <1>4 DEF Arrived
  <2>3. IsFiniteSet(Arrived(c + 1))
    BY <1>4, ArrivedFinite DEF BInv
  <2>4. Cardinality(Arrived(c + 1) \cup {p}) = Cardinality(Arrived(c + 1)) + 1
    BY <2>2, <2>3, FS_AddElement
  <2>5. Arrived(c + 1) \cup {p} \in SUBSET Procs /\ IsFiniteSet(Procs)
    BY BarriersAssumption DEF Arrived
  <2>6. Cardinality(Arrived(c + 1) \cup {p}) <= NumProcessor
    BY <2>5, FS_Subset DEF NumProcessor
  <2>7. Cardinality(Arrived(c + 1)) \in Nat /\ NumProcessor \in Nat
    BY <1>4, ArrivedFinite DEF BInv
  <2>. QED
    BY <2>1, <2>4, <2>6, <2>7
<1>10. barriers' = [barriers EXCEPT ![Pos(c + 1)] = Cardinality(Arrived(c + 1)) + 1]
  BY <1>5, <1>9
<1>11. TypeOK'
  <2>1. barriers' \in [Ring -> 0 .. NumProcessor]
    BY <1>9, <1>10 DEF BInv, TypeOK
  <2>2. barrierPhase' \in [Procs -> Ring]
    BY <1>4, <1>5, PosIn DEF BInv, TypeOK
  <2>3. count' \in [Procs -> Nat]
    BY <1>4, <1>5 DEF BInv, TypeOK
  <2>. QED
    BY <1>2, <1>7, <2>1, <2>2, <2>3 DEF BInv, TypeOK
<1>12. /\ barriers'[Pos(c + 1)] = Cardinality(Arrived(c + 1) \cup {p})
       /\ \A x \in Ring : x # Pos(c + 1) => barriers'[x] = barriers[x]
  BY <1>9, <1>10 DEF BInv, TypeOK
<1>13. Place(p, m, l, n)'
  <2>1. c + 1 = n => AllAt(n)' \/ pc'[p] = "spin"
    BY <1>7 DEF BInv, TypeOK
  <2>2. c + 1 # n => c + 1 \in l + 1 .. n - 1 /\ c + 1 # l
    BY <1>4
  <2>3. c + 1 = n => pc'[p] = "spin"
    BY <1>7 DEF BInv, TypeOK
  <2>4. c + 1 # 0 /\ c + 1 # l /\ c + 1 \in l .. n
        /\ (c + 1 = n => c + 1 \notin l + 1 .. n - 1)
    BY <1>4
  <2>. QED
    BY <1>6, <1>7, <2>2, <2>3, <2>4 DEF Place, Pos
<1>14. \A q \in Procs : Place(q, m, l, n)'
  <2>. SUFFICES ASSUME NEW q \in Procs, q # p PROVE Place(q, m, l, n)'
    BY <1>13
  <2>1. Place(q, m, l, n)
    BY <1>1 DEF BAt
  <2>2. pc'[q] = pc[q]
    BY <1>7 DEF BInv, TypeOK
  <2>. QED
    BY <1>2, <1>4, <1>6, <1>7, <2>1, <2>2, OthersPlace
<1>15. Counters(l, n)'
  <2>1. \A x \in Ring : (\A k \in l .. n : x # Pos(k)) => barriers'[x] = 0
    BY <1>1, <1>4, <1>12 DEF BAt, Counters
  <2>2. \A k \in l + 1 .. n : barriers'[Pos(k)] = Cardinality(Arrived(k)')
    <3>. TAKE k \in l + 1 .. n
    <3>1. CASE k = c + 1
      BY <1>8, <1>12, <3>1
    <3>2. CASE k # c + 1
      <4>1. k \in m .. n /\ c + 1 \in m .. n /\ Consecutive(m, l, n)
        BY <1>1, <1>4 DEF BAt, Consecutive
      <4>2. Pos(k) # Pos(c + 1) /\ Pos(k) \in Ring
        BY <3>2, <4>1, Apart, PosIn
      <4>3. barriers[Pos(k)] = Cardinality(Arrived(k))
        BY <1>1, <1>4, CounterAtMost DEF BInv
      <4>4. Arrived(k)' = Arrived(k)
        BY <1>8, <3>2
      <4>. QED
        BY <1>12, <4>2, <4>3, <4>4
    <3>. QED
      BY <3>1, <3>2
  <2>3. l > 0 => barriers'[Pos(l)] = NumProcessor
    <3>1. l \in m .. n /\ c + 1 \in m .. n /\ Consecutive(m, l, n) /\ l # c + 1
      BY <1>1, <1>4 DEF BAt, Consecutive
    <3>2. Pos(l) # Pos(c + 1) /\ Pos(l) \in Ring
      BY <3>1, Apart, PosIn
    <3>. QED
      BY <1>1, <1>4, <1>12, <3>2 DEF BAt, Counters
  <2>. QED
    BY <2>1, <2>2, <2>3 DEF Counters, Pos, NumProcessor
<1>16. BAt(m, l, n)'
  BY <1>1, <1>2, <1>14, <1>15 DEF BAt
<1>. QED
  BY <1>11, <1>16 DEF BInv

(* Passing the strong barrier n opens the way to the one after it, and     *)
(* what the slow processors still do is a reset for n.                     *)
LEMMA PassStep ==
  ASSUME BInv, NEW p \in Procs, PassStrong(p)
  PROVE  BInv'
<1>1. PICK m, l, n \in Nat : BAt(m, l, n)
  BY DEF BInv
<1>2. /\ pc[p] = "reset" /\ i[p] = which[p]
      /\ pc' = [pc EXCEPT ![p] = After(p)]
      /\ lastUsed' = which[p]
      /\ i' = [i EXCEPT ![p] = 0]
      /\ which' = [which EXCEPT ![p] = 0]
      /\ UNCHANGED <<barriers, barrierPhase, count>>
  BY DEF PassStrong, Goto
<1>3. After(p) \in {"out", "next"}
  BY DEF After
<1>4. /\ pc'[p] \in {"out", "next"}
      /\ \A q \in Procs : q # p => /\ pc'[q] = pc[q] /\ which'[q] = which[q]
                                   /\ i'[q] = i[q]
  BY <1>2, <1>3 DEF BInv, TypeOK
<1>5. TypeOK'
  <2>1. 0 \in Ring
    BY BarriersAssumption DEF Ring
  <2>2. first' \in [Procs -> BOOLEAN]
    BY DEF PassStrong, BInv, TypeOK
  <2>3. lastUsed' \in Ring /\ i' \in [Procs -> Ring] /\ which' \in [Procs -> Ring]
    BY <1>2, <2>1 DEF BInv, TypeOK
  <2>4. pc' \in [Procs -> {"out", "next", "spin", "check", "reset"}]
    BY <1>2, <1>3 DEF BInv, TypeOK
  <2>. QED
    BY <1>2, <2>2, <2>3, <2>4 DEF BInv, TypeOK
<1>6. /\ Consecutive(m, l, n) /\ m <= l /\ l < n /\ Place(p, m, l, n)
      /\ which[p] = Pos(count[p]) /\ count[p] \in {l, n}
  <2>1. Consecutive(m, l, n) /\ m <= l /\ l < n /\ Place(p, m, l, n)
    BY <1>1 DEF BAt, Consecutive
  <2>2. count[p] \in l .. n /\ count[p] \notin l + 1 .. n - 1
    BY <1>2, <2>1 DEF Place
  <2>3. count[p] \in {l, n}
    BY <2>2
  <2>. QED
    BY <1>2, <2>1, <2>3 DEF Place
<1>7. CASE count[p] = l
  <2>1. lastUsed' = lastUsed
    BY <1>1, <1>2, <1>6, <1>7 DEF BAt
  <2>2. Place(p, m, l, n)'
    BY <1>2, <1>4, <1>6, <1>7 DEF Place, Pos
  <2>3. BAt(m, l, n)'
    BY <1>1, <1>2, <1>4, <1>5, <2>1, <2>2, QuietKeeps DEF BInv
  <2>. QED
    BY <1>5, <2>3 DEF BInv
<1>8. CASE count[p] = n
  <2>1. AllAt(n)
    BY <1>2, <1>6, <1>8 DEF Place
  <2>2. PICK o \in Nat : Consecutive(l, n, o)
    BY <1>6, NextStrong
  <2>3. n < o /\ n > 0
    BY <1>6, <2>2 DEF Consecutive
  <2>4. \A x \in l .. n - 1 : barriers[Pos(x)] = 0
    <3>1. PICK k \in l .. n : /\ i[p] = Pos(k)
                              /\ \A x \in l .. k - 1 : barriers[Pos(x)] = 0
      BY <1>2, <1>6, <1>8 DEF Place
    <3>2. k \in m .. n /\ n \in m .. n /\ Pos(k) = Pos(n)
      BY <1>2, <1>6, <1>8, <3>1
    <3>3. k = n
      BY <1>6, <3>2, Apart
    <3>. QED
      BY <3>1, <3>3
  <2>5. \A q \in Procs : Place(q, l, n, o)'
    <3>. TAKE q \in Procs
    <3>1. count'[q] = n /\ n \in n .. o /\ n \notin n + 1 .. o - 1 /\ n # o /\ n # 0
      BY <1>2, <2>1, <2>3 DEF AllAt
    <3>2. barrierPhase'[q] = Pos(n + 1)
      BY <1>1, <1>2, <2>1 DEF BAt, Place, AllAt
    <3>3. CASE q = p
      BY <1>4, <3>1, <3>2, <3>3 DEF Place, Pos
    <3>4. CASE q # p
      <4>1. Place(q, m, l, n) /\ count[q] = n
        BY <1>1, <2>1 DEF BAt, AllAt
      <4>2. pc[q] \in {"spin", "check", "reset"} /\ which[q] = Pos(n)
        BY <4>1 DEF Place
      <4>3. pc[q] = "reset" => \E k \in l .. n : i[q] = Pos(k)
        BY <4>1 DEF Place
      <4>. QED
        BY <1>4, <3>1, <3>2, <3>4, <4>2, <4>3 DEF Place, Pos
    <3>. QED
      BY <3>3, <3>4
  <2>6. \A x \in Ring : x # Pos(n) => barriers[x] = 0
    <3>. TAKE x \in Ring
    <3>1. CASE \A k \in l .. n : x # Pos(k)
      BY <1>1, <3>1 DEF BAt, Counters
    <3>2. CASE \E k \in l .. n : x = Pos(k)
      <4>1. PICK k \in l .. n : x = Pos(k)
        BY <3>2
      <4>2. k = n \/ k \in l .. n - 1
        BY <1>6
      <4>. QED
        BY <2>4, <4>1, <4>2
    <3>. QED
      BY <3>1, <3>2
  <2>7. barriers[Pos(n)] = NumProcessor
    <3>1. n \in l + 1 .. n
      BY <1>6
    <3>2. barriers[Pos(n)] = Cardinality(Arrived(n))
      BY <1>1, <3>1, CounterAtMost DEF BInv
    <3>3. Arrived(n) = Procs
      BY <2>1 DEF Arrived, AllAt
    <3>. QED
      BY <3>2, <3>3 DEF NumProcessor
  <2>8. \A k \in n + 1 .. o : barriers[Pos(k)] = Cardinality(Arrived(k))
    <3>. TAKE k \in n + 1 .. o
    <3>1. k \in l .. o /\ n \in l .. o /\ k # n /\ k \in Nat
      BY <1>6, <2>3
    <3>2. Pos(k) # Pos(n) /\ Pos(k) \in Ring
      BY <2>2, <3>1, Apart, PosIn
    <3>3. Arrived(k) = {}
      BY <2>1 DEF Arrived, AllAt
    <3>. QED
      BY <2>6, <3>2, <3>3, FS_EmptySet
  <2>9. Counters(n, o)'
    <3>1. \A k : Arrived(k)' = Arrived(k)
      BY <1>2 DEF Arrived
    <3>2. \A x \in Ring : (\A k \in n .. o : x # Pos(k)) => barriers'[x] = 0
      BY <1>2, <2>3, <2>6
    <3>. QED
      BY <1>2, <2>7, <2>8, <3>1, <3>2 DEF Counters, Pos, NumProcessor
  <2>10. lastUsed' = Pos(n)
    BY <1>2, <1>6, <1>8
  <2>11. BAt(l, n, o)'
    BY <2>2, <2>5, <2>9, <2>10 DEF BAt, Consecutive, Pos, StrongAt
  <2>. QED
    BY <1>5, <2>11 DEF BInv
<1>. QED
  BY <1>6, <1>7, <1>8

----------------------------------------------------------------------------
(* The invariant and what follows from it.                                 *)

(* At the start nobody has passed a barrier, and the first strong one is   *)
(* less than a ring away.                                                  *)
LEMMA InitInv == Init => BInv
<1>. SUFFICES ASSUME Init PROVE BInv
  OBVIOUS
<1>1. Phase \in Nat /\ Phase >= 3
  BY BarriersAssumption
<1>2. PICK n \in Nat : Consecutive(0, 0, n)
  <2>. DEFINE S == {x \in Nat : x > 0 /\ StrongAt(x)}
  <2>1. PICK j, k \in 1 .. Phase - 1 : j < k /\ StrongAt(0 + j) /\ StrongAt(0 + k)
    BY TwoStrong
  <2>2. j \in S
    BY <1>1, <2>1
  <2>3. PICK n \in S : \A x \in S : n <= x
    BY <2>2, NatMin
  <2>4. n \in Nat /\ n > 0 /\ StrongAt(n) /\ n <= j
    BY <2>2, <2>3
  <2>5. \A x \in 0 + 1 .. n - 1 : ~ StrongAt(x)
    <3>. SUFFICES ASSUME NEW x \in 0 + 1 .. n - 1, StrongAt(x) PROVE FALSE
      OBVIOUS
    <3>1. x \in S /\ ~ (n <= x)
      BY <2>4
    <3>. QED
      BY <2>3, <3>1
  <2>6. n - 0 < Phase
    BY <1>1, <2>4
  <2>. QED
    BY <2>4, <2>5, <2>6 DEF Consecutive
<1>3. TypeOK
  <2>1. NumProcessor \in Nat
    BY BarriersAssumption, FS_CardinalityType DEF NumProcessor
  <2>. QED
    BY <1>1, <2>1 DEF Init, TypeOK, Ring
<1>4. Pos(0) = Phase - 1 /\ Pos(1) = 0
  <2>1. Phase - 1 = Phase * 0 + (Phase - 1) /\ Phase = Phase * 1 + 0
    BY <1>1
  <2>2. (Phase - 1) % Phase = Phase - 1 /\ Phase % Phase = 0
    BY <1>1, <2>1, ModIs
  <2>3. 0 + Phase - 1 = Phase - 1 /\ 1 + Phase - 1 = Phase
    BY <1>1
  <2>. QED
    BY <2>2, <2>3 DEF Pos
<1>5. n > 0
  BY <1>2 DEF Consecutive
<1>6. \A p \in Procs : Place(p, 0, 0, n)
  <2>. TAKE p \in Procs
  <2>1. count[p] = 0 /\ barrierPhase[p] = Pos(0 + 1) /\ pc[p] = "out"
    BY <1>4 DEF Init
  <2>2. 0 \in 0 .. n /\ 0 # n
    BY <1>5
  <2>. QED
    BY <2>1, <2>2 DEF Place
<1>7. Counters(0, n)
  <2>1. \A k \in 0 + 1 .. n : Arrived(k) = {} /\ Pos(k) \in Ring
    BY PosIn DEF Init, Arrived
  <2>2. \A k \in 0 + 1 .. n : barriers[Pos(k)] = Cardinality(Arrived(k))
    BY <2>1, FS_EmptySet DEF Init
  <2>. QED
    BY <2>2 DEF Init, Counters
<1>8. BAt(0, 0, n)
  BY <1>2, <1>4, <1>6, <1>7 DEF BAt, Init
<1>. QED
  BY <1>3, <1>8 DEF BInv

(* Every step keeps the invariant.                                         *)
LEMMA NextInv == BInv /\ [Next]_vars => BInv'
<1>1. ASSUME BInv, NEW p \in Procs, StartRound(p) \/ Collect(p)
      PROVE  BInv'
  <2>1. CASE StartRound(p) \/ PollRound(p)
    BY <1>1, <2>1, StartStep
  <2>2. CASE WeakBarrier(p) \/ StrongBarrier(p)
    BY <1>1, <2>2, ArriveStep
  <2>3. CASE LeaveSpin(p) \/ ReadLastUsed(p)
    BY <1>1, <2>3, LeaveStep
  <2>4. CASE ResetCounter(p)
    BY <1>1, <2>4, ResetStep
  <2>5. CASE PassStrong(p)
    BY <1>1, <2>5, PassStep
  <2>. QED
    BY <1>1, <2>1, <2>2, <2>3, <2>4, <2>5 DEF Collect
<1>2. ASSUME BInv, UNCHANGED vars PROVE BInv'
  <2>1. PICK m, l, n \in Nat : BAt(m, l, n)
    BY <1>2 DEF BInv
  <2>2. UNCHANGED <<barriers, lastUsed, barrierPhase, count, pc, which, i, first>>
    BY <1>2 DEF vars, shared
  <2>3. TypeOK'
    BY <1>2, <2>2 DEF BInv, TypeOK
  <2>4. (AllAt(n)' <=> AllAt(n)) /\ \A k : Arrived(k)' = Arrived(k)
    BY <2>2 DEF AllAt, Arrived
  <2>5. \A q \in Procs : Place(q, m, l, n)'
    <3>. TAKE q \in Procs
    <3>1. Place(q, m, l, n)
      BY <2>1 DEF BAt
    <3>. QED
      BY <2>2, <2>4, <3>1, OthersPlace
  <2>6. Counters(l, n)'
    BY <2>1, <2>2, <2>4 DEF BAt, Counters
  <2>7. BAt(m, l, n)'
    BY <2>1, <2>2, <2>5, <2>6 DEF BAt
  <2>. QED
    BY <2>3, <2>7 DEF BInv
<1>. QED
  BY <1>1, <1>2 DEF Next

(* What BInv says holds in every reachable state.                          *)
THEOREM InvHolds == Spec => []BInv
BY InitInv, NextInv, PTL DEF Spec

(* Every counter stays between 0 and the number of processors, so that     *)
(* index[which][index] is written within its row (barriers.c:18, 36, 69).  *)
THEOREM TypeCorrect == Spec => []TypeOK
<1>1. BInv => TypeOK
  BY DEF BInv
<1>. QED
  BY <1>1, InvHolds, PTL

(* No processor returns from a strongBarrier that another one has not      *)
(* reached, while the counters are recycled (barriers.c:37-60).            *)
THEOREM StrongHolds == Spec => []StrongBarrierHolds
<1>1. ASSUME BInv PROVE StrongBarrierHolds
  <2>. SUFFICES ASSUME NEW p \in Procs, NEW q \in Procs, NEW k \in 1 .. count[p],
                       Passed(p, k)
                PROVE  count[q] >= k
    BY DEF StrongBarrierHolds
  <2>1. PICK m, l, n \in Nat : BAt(m, l, n)
    BY <1>1 DEF BInv
  <2>2. Place(p, m, l, n) /\ Place(q, m, l, n) /\ Consecutive(m, l, n)
    BY <2>1 DEF BAt
  <2>3. count[p] \in l .. n /\ count[q] \in l .. n /\ k <= count[p] /\ StrongAt(k)
    BY <2>2 DEF Place, Passed
  <2>4. k \notin l + 1 .. n - 1
    BY <2>2, <2>3 DEF Consecutive
  <2>5. CASE k <= l
    BY <2>3, <2>5
  <2>6. CASE k = n
    <3>1. count[p] = n /\ pc[p] # "spin"
      BY <2>3, <2>6 DEF Passed
    <3>2. AllAt(n)
      BY <2>2, <3>1 DEF Place
    <3>. QED
      BY <2>3, <2>6, <3>2 DEF AllAt
  <2>. QED
    BY <2>3, <2>4, <2>5, <2>6
<1>. QED
  BY <1>1, InvHolds, PTL

(* The assertion of strongBarrier, barriers[which] == numProcessor, holds  *)
(* whenever a processor reads the counter for it (barriers.c:48).          *)
THEOREM AssertionHolds == Spec => []CounterStillFull
<1>1. ASSUME BInv PROVE CounterStillFull
  <2>. SUFFICES ASSUME NEW p \in Procs, pc[p] = "check"
                PROVE  barriers[which[p]] = NumProcessor
    BY DEF CounterStillFull
  <2>1. PICK m, l, n \in Nat : BAt(m, l, n)
    BY <1>1 DEF BInv
  <2>2. Place(p, m, l, n) /\ l < n /\ which[p] = Pos(count[p])
    BY <2>1 DEF BAt, Consecutive, Place
  <2>3. count[p] \in l .. n /\ count[p] \notin l + 1 .. n - 1
    BY <2>2 DEF Place
  <2>4. CASE count[p] = n
    <3>1. AllAt(n) /\ n \in l + 1 .. n
      BY <2>2, <2>4 DEF Place
    <3>2. barriers[Pos(n)] = Cardinality(Arrived(n))
      BY <1>1, <2>1, <3>1, CounterAtMost DEF BInv
    <3>3. Arrived(n) = Procs
      BY <3>1 DEF AllAt, Arrived
    <3>. QED
      BY <2>2, <2>4, <3>2, <3>3 DEF NumProcessor
  <2>5. CASE count[p] = l
    <3>1. l > 0
      BY <2>2, <2>5 DEF Place
    <3>2. ~ AllAt(n)
      BY <2>2, <2>5 DEF AllAt
    <3>. QED
      BY <2>1, <2>2, <2>5, <3>1, <3>2 DEF BAt, Counters
  <2>. QED
    BY <2>3, <2>4, <2>5
<1>. QED
  BY <1>1, InvHolds, PTL

(* checkBarrier finds a positive counter only while a collection that the  *)
(* processor has not joined is under way (gc_semi_para.c:167-173).         *)
THEOREM PollIsTrue == Spec => []PollMeansCollection
<1>1. ASSUME BInv PROVE PollMeansCollection
  <2>. SUFFICES ASSUME NEW p \in Procs, pc[p] = "out", barriers[barrierPhase[p]] > 0
                PROVE  \E q \in Procs : count[q] > count[p]
    BY DEF PollMeansCollection
  <2>1. PICK m, l, n \in Nat : BAt(m, l, n)
    BY <1>1 DEF BInv
  <2>2. /\ count[p] + 1 \in l + 1 .. n /\ ~ AllAt(n)
        /\ barrierPhase[p] = Pos(count[p] + 1)
    BY <1>1, <2>1, NextBarrier DEF BInv
  <2>3. barriers[Pos(count[p] + 1)] = Cardinality(Arrived(count[p] + 1))
    BY <1>1, <2>1, <2>2, CounterAtMost DEF BInv
  <2>4. Cardinality(Arrived(count[p] + 1)) # 0
    BY <2>2, <2>3
  <2>5. Arrived(count[p] + 1) # {}
    BY <2>4, FS_EmptySet
  <2>6. PICK q \in Procs : count[q] >= count[p] + 1
    BY <2>5 DEF Arrived
  <2>7. count[q] \in Nat /\ count[p] \in Nat
    BY <1>1 DEF BInv, TypeOK
  <2>. QED
    BY <2>6, <2>7
<1>. QED
  BY <1>1, InvHolds, PTL

----------------------------------------------------------------------------
(* Who is first, when a collection starts with a weak barrier and goes on  *)
(* with strong ones.                                                       *)

(* The shape of a collection, or of one phase of a concurrent one.         *)
WeakFirst == /\ Len(Program) >= 2
             /\ \A k \in 1 .. Len(Program) : Program[k] = "weak" <=> k = 1

(* The processors that were told they are first after barrier b.           *)
Firsts(b) == {q \in Procs : first[q] /\ count[q] > b}

(* Everybody is in the collection that follows barrier b, or at b; one of  *)
(* those that have arrived at its weak barrier is the first.               *)
RoundAt(b) ==
  /\ b % Len(Program) = 0
  /\ \A q \in Procs :
       /\ count[q] \in b .. b + Len(Program)
       /\ count[q] = b + Len(Program) => pc[q] \in {"spin", "check", "reset"}
       /\ count[q] = b /\ pc[q] \in {"out", "next"} => ~ first[q]
  /\ (\E q \in Procs : count[q] > b) => Cardinality(Firsts(b)) = 1

FInv == BInv /\ \E b \in Nat : RoundAt(b)

(* In the collection after b, only b and its last barrier end one.         *)
LEMMA EndsAt ==
  ASSUME WeakFirst, NEW b \in Nat, b % Len(Program) = 0,
         NEW c \in b .. b + Len(Program)
  PROVE  /\ c % Len(Program) = 0 <=> c \in {b, b + Len(Program)}
         /\ Program[(c % Len(Program)) + 1] = "weak" <=> c \in {b, b + Len(Program)}
         /\ Program[(c % Len(Program)) + 1] \in {"weak", "strong"}
<1>. DEFINE L == Len(Program)
            q == b \div L
<1>1. L \in Nat \ {0} /\ L >= 2
  BY BarriersAssumption DEF WeakFirst
<1>2. q \in Nat /\ b = L * q + 0
  BY <1>1, DivMod
<1>. HIDE DEF L, q
<1>3. c \in Nat /\ b + L \in Nat
  BY <1>1 DEF L
<1>4. (b + L) % L = 0
  <2>1. b + L = L * (q + 1) + 0
    BY <1>1, <1>2
  <2>. QED
    BY <1>1, <1>2, <1>3, <2>1, ModIs
<1>5. c \notin {b, b + L} => c % L # 0
  <2>. SUFFICES ASSUME c \notin {b, b + L} PROVE c % L # 0
    OBVIOUS
  <2>1. PICK r : r = c - b
    OBVIOUS
  <2>2. r \in 0 .. L - 1 /\ r # 0 /\ c = b + r
    BY <1>1, <1>3, <2>1 DEF L
  <2>3. c = L * q + r
    BY <1>1, <1>2, <2>2
  <2>4. c % L = r
    BY <1>1, <1>2, <1>3, <2>2, <2>3, ModIs
  <2>. QED
    BY <2>2, <2>4
<1>6. c % L = 0 <=> c \in {b, b + L}
  BY <1>4, <1>5 DEF L
<1>7. c % L \in 0 .. L - 1 /\ (c % L) + 1 \in 1 .. L
  <2>1. c % L \in 0 .. L - 1
    BY <1>1, <1>3, DivMod
  <2>. QED
    BY <1>1, <2>1
<1>8. Program[(c % L) + 1] = "weak" <=> c % L = 0
  <2>1. Program[(c % L) + 1] = "weak" <=> (c % L) + 1 = 1
    BY <1>7 DEF WeakFirst, L
  <2>. QED
    BY <1>1, <1>7, <2>1
<1>9. Program[(c % L) + 1] \in {"weak", "strong"}
  BY <1>7, BarriersAssumption DEF L
<1>. QED
  BY <1>6, <1>8, <1>9 DEF L

(* The steps in which nobody arrives at or passes a barrier.               *)
LEMMA RoundQuiet ==
  ASSUME TypeOK, NEW b \in Nat, RoundAt(b), NEW p \in Procs,
         \/ StartRound(p) \/ PollRound(p) \/ LeaveSpin(p) \/ ReadLastUsed(p)
         \/ ResetCounter(p)
  PROVE  RoundAt(b)'
<1>1. count' = count /\ first' = first
  BY DEF StartRound, PollRound, LeaveSpin, ReadLastUsed, ResetCounter
<1>2. \A q \in Procs : /\ pc'[q] \in {"out", "next"} <=> pc[q] \in {"out", "next"}
                       /\ pc'[q] \in {"spin", "check", "reset"}
                            <=> pc[q] \in {"spin", "check", "reset"}
  BY DEF StartRound, PollRound, LeaveSpin, ReadLastUsed, ResetCounter, Goto, TypeOK
<1>3. Firsts(b)' = Firsts(b)
  BY <1>1 DEF Firsts
<1>. QED
  BY <1>1, <1>2, <1>3 DEF RoundAt

(* Only the weak barrier makes a processor the first, when nobody else has *)
(* arrived there.                                                          *)
LEMMA RoundArrive ==
  ASSUME WeakFirst, BInv, NEW b \in Nat, RoundAt(b), NEW p \in Procs,
         WeakBarrier(p) \/ StrongBarrier(p)
  PROVE  RoundAt(b)'
<1>. DEFINE L == Len(Program)
<1>1. L \in Nat /\ L >= 2
  BY BarriersAssumption DEF WeakFirst
<1>. HIDE DEF L
<1>2. PICK c : c = count[p]
  OBVIOUS
<1>3. /\ c \in b .. b + L /\ c # b + L
      /\ Kind(p) = "weak" <=> c = b
      /\ Kind(p) \in {"weak", "strong"}
  <2>1. pc[p] = "next"
    BY DEF WeakBarrier, StrongBarrier, Goto
  <2>2. c \in b .. b + L /\ c # b + L
    BY <1>2, <2>1 DEF RoundAt, L
  <2>. QED
    BY <1>2, <2>2, EndsAt DEF Kind, RoundAt, L
<1>4. count'[p] = c + 1 /\ \A q \in Procs : q # p => count'[q] = count[q]
  BY <1>2 DEF WeakBarrier, StrongBarrier, Arrive, BInv, TypeOK
<1>5. \A q \in Procs : count[q] \in Nat
  BY DEF BInv, TypeOK
<1>6. CASE c = b
  <2>1. WeakBarrier(p)
    BY <1>3, <1>6 DEF StrongBarrier
  <2>2. /\ pc[p] = "next"
        /\ \A q \in Procs : q # p => pc'[q] = pc[q] /\ first'[q] = first[q]
        /\ first'[p] = (barriers[barrierPhase[p]] = 0)
    BY <2>1 DEF WeakBarrier, BInv, TypeOK
  <2>3. barriers[barrierPhase[p]] = Cardinality(Arrived(b + 1))
        /\ IsFiniteSet(Arrived(b + 1))
    <3>1. PICK m, l, n \in Nat : BAt(m, l, n)
      BY DEF BInv
    <3>2. /\ count[p] + 1 \in l + 1 .. n /\ ~ AllAt(n)
          /\ barrierPhase[p] = Pos(count[p] + 1)
      BY <2>2, <3>1, NextBarrier DEF BInv
    <3>3. b + 1 \in l + 1 .. n /\ barrierPhase[p] = Pos(b + 1) /\ b + 1 \in Int
      <4>1. count[p] = b
        BY <1>2, <1>6
      <4>. QED
        BY <3>2, <4>1
    <3>4. barriers[Pos(b + 1)] = Cardinality(Arrived(b + 1))
      BY <3>1, <3>2, <3>3, CounterAtMost DEF BInv
    <3>. QED
      BY <3>3, <3>4, ArrivedFinite DEF BInv
  <2>4. first'[p] <=> Arrived(b + 1) = {}
    BY <2>2, <2>3, FS_EmptySet
  <2>5. Arrived(b + 1) = {} <=> \A q \in Procs : ~ (count[q] > b)
    <3>1. \A q \in Procs : count[q] >= b + 1 <=> count[q] > b
      BY <1>5
    <3>. QED
      BY <3>1 DEF Arrived
  <2>6. Cardinality(Firsts(b)') = 1
    <3>1. \A q \in Procs : count'[q] > b <=> (count[q] > b \/ q = p)
      BY <1>2, <1>4, <1>5, <1>6
    <3>2. CASE \A q \in Procs : ~ (count[q] > b)
      <4>1. Firsts(b)' = {p}
        BY <2>2, <2>4, <2>5, <3>1, <3>2 DEF Firsts
      <4>. QED
        BY <4>1, FS_Singleton
    <3>3. CASE \E q \in Procs : count[q] > b
      <4>1. ~ first'[p] /\ ~ (count[p] > b)
        BY <1>2, <1>5, <1>6, <2>4, <2>5, <3>3
      <4>2. Firsts(b)' = Firsts(b)
        BY <2>2, <3>1, <4>1 DEF Firsts
      <4>. QED
        BY <3>3, <4>2 DEF RoundAt
    <3>. QED
      BY <3>2, <3>3
  <2>7. c + 1 \in b .. b + L /\ c + 1 # b + L /\ c + 1 # b
    BY <1>1, <1>6
  <2>8. \A q \in Procs :
          /\ count'[q] \in b .. b + L
          /\ count'[q] = b + L => pc'[q] \in {"spin", "check", "reset"}
          /\ count'[q] = b /\ pc'[q] \in {"out", "next"} => ~ first'[q]
    BY <1>4, <2>2, <2>7 DEF RoundAt, L
  <2>. QED
    BY <2>6, <2>8 DEF RoundAt, L
<1>7. CASE c # b
  <2>1. StrongBarrier(p)
    BY <1>3, <1>7 DEF WeakBarrier
  <2>2. /\ pc'[p] = "spin"
        /\ \A q \in Procs : q # p => pc'[q] = pc[q]
        /\ first' = first
    BY <2>1 DEF StrongBarrier, Goto, BInv, TypeOK
  <2>3. c > b /\ c + 1 > b /\ c + 1 \in b .. b + L /\ c + 1 # b
    BY <1>1, <1>3, <1>7
  <2>4. \A q \in Procs : count'[q] > b <=> count[q] > b
    BY <1>2, <1>4, <2>3
  <2>5. Firsts(b)' = Firsts(b)
    BY <2>2, <2>4 DEF Firsts
  <2>6. \A q \in Procs :
          /\ count'[q] \in b .. b + L
          /\ count'[q] = b + L => pc'[q] \in {"spin", "check", "reset"}
          /\ count'[q] = b /\ pc'[q] \in {"out", "next"} => ~ first'[q]
    BY <1>4, <2>2, <2>3 DEF RoundAt, L
  <2>. QED
    BY <2>4, <2>5, <2>6 DEF RoundAt, L
<1>. QED
  BY <1>6, <1>7

(* A processor that has left the spin of a strong barrier knows that       *)
(* everybody has arrived there.                                            *)
LEMMA NoneBehind ==
  ASSUME BInv, NEW p \in Procs, pc[p] \in {"check", "reset"}, NEW q \in Procs
  PROVE  count[q] >= count[p]
<1>1. PICK m, l, n \in Nat : BAt(m, l, n)
  BY DEF BInv
<1>2. Place(p, m, l, n) /\ Place(q, m, l, n) /\ l < n
  BY <1>1 DEF BAt, Consecutive
<1>3. count[p] \in l .. n /\ count[p] \notin l + 1 .. n - 1 /\ count[q] \in l .. n
  BY <1>2 DEF Place
<1>4. CASE count[p] = l
  BY <1>3, <1>4
<1>5. CASE count[p] = n
  <2>1. AllAt(n)
    BY <1>2, <1>5 DEF Place
  <2>. QED
    BY <1>3, <1>5, <2>1 DEF AllAt
<1>. QED
  BY <1>3, <1>4, <1>5

(* Whoever leaves the collection is no longer the first, and the next one  *)
(* begins when the first of them leaves.                                   *)
LEMMA RoundPass ==
  ASSUME WeakFirst, BInv, NEW b \in Nat, RoundAt(b), NEW p \in Procs,
         PassStrong(p)
  PROVE  \E a \in Nat : RoundAt(a)'
<1>. DEFINE L == Len(Program)
<1>1. L \in Nat /\ L >= 2
  BY BarriersAssumption DEF WeakFirst
<1>. HIDE DEF L
<1>2. /\ pc[p] = "reset" /\ count' = count
      /\ pc'[p] = After(p)
      /\ first'[p] = (first[p] /\ After(p) # "out")
      /\ \A q \in Procs : q # p => pc'[q] = pc[q] /\ first'[q] = first[q]
  BY DEF PassStrong, Goto, BInv, TypeOK
<1>3. /\ count[p] \in b .. b + L
      /\ After(p) = "out" <=> count[p] \in {b, b + L}
      /\ After(p) \in {"out", "next"}
  BY EndsAt DEF RoundAt, After, L
<1>4. \A q \in Procs : count[q] \in Nat
  BY DEF BInv, TypeOK
<1>5. CASE count[p] = b
  <2>1. ~ first'[p] /\ ~ (count[p] > b)
    <3>1. After(p) = "out"
      BY <1>3, <1>5
    <3>2. ~ first'[p]
      BY <1>2, <3>1
    <3>3. ~ (count[p] > b)
      BY <1>5
    <3>. QED
      BY <3>2, <3>3
  <2>2. Firsts(b)' = Firsts(b)
    BY <1>2, <2>1 DEF Firsts
  <2>3. count[p] # b + L
    BY <1>1, <1>5
  <2>4. RoundAt(b)'
    BY <1>2, <2>1, <2>2, <2>3 DEF RoundAt, L
  <2>. QED
    BY <2>4
<1>6. CASE count[p] \notin {b, b + L}
  <2>1. first'[p] <=> first[p]
    BY <1>2, <1>3, <1>6
  <2>2. Firsts(b)' = Firsts(b)
    BY <1>2, <2>1 DEF Firsts
  <2>3. RoundAt(b)'
    BY <1>2, <1>6, <2>1, <2>2 DEF RoundAt, L
  <2>. QED
    BY <2>3
<1>7. CASE count[p] = b + L
  <2>1. \A q \in Procs : count[q] = b + L /\ ~ (count[q] > b + L)
    <3>. TAKE q \in Procs
    <3>1. count[q] >= count[p]
      BY <1>2, NoneBehind
    <3>2. count[q] \in b .. b + L
      BY DEF RoundAt, L
    <3>. QED
      BY <1>1, <1>7, <3>1, <3>2
  <2>2. ~ first'[p]
    BY <1>2, <1>3, <1>7
  <2>3. \A q \in Procs : q # p => pc'[q] \in {"spin", "check", "reset"}
    BY <1>2, <2>1 DEF RoundAt, L
  <2>4. b + L \in Nat /\ (b + L) % L = 0 /\ b + L # b + L + L
        /\ b + L \in b + L .. b + L + L
    <3>1. b + L \in b .. b + L
      BY <1>1
    <3>2. (b + L) % L = 0
      BY <3>1, EndsAt DEF RoundAt, L
    <3>. QED
      BY <1>1, <3>2
  <2>5. RoundAt(b + L)'
    BY <1>2, <2>1, <2>2, <2>3, <2>4 DEF RoundAt, L
  <2>. QED
    BY <2>4, <2>5
<1>. QED
  BY <1>5, <1>6, <1>7

(* In every collection exactly one processor is told that it is the first  *)
(* (gc_semi_para.c:63-69), for as long as it goes on.                      *)
THEOREM FirstIsUnique ==
  ASSUME WeakFirst
  PROVE  Spec => []OneFirst
<1>1. Init => FInv
  <2>. SUFFICES ASSUME Init PROVE \E b \in Nat : RoundAt(b)
    BY InitInv DEF FInv
  <2>1. Len(Program) \in Nat \ {0}
    BY BarriersAssumption
  <2>2. 0 % Len(Program) = 0
    <3>1. 0 = Len(Program) * 0 + 0
      BY <2>1
    <3>. QED
      BY <2>1, <3>1, ModIs
  <2>3. RoundAt(0)
    BY <2>1, <2>2 DEF Init, RoundAt
  <2>. QED
    BY <2>3
<1>2. FInv /\ [Next]_vars => FInv'
  <2>. SUFFICES ASSUME FInv, [Next]_vars PROVE FInv'
    OBVIOUS
  <2>1. BInv'
    BY NextInv DEF FInv
  <2>2. PICK b \in Nat : RoundAt(b)
    BY DEF FInv
  <2>3. ASSUME NEW p \in Procs, StartRound(p) \/ Collect(p)
        PROVE  \E a \in Nat : RoundAt(a)'
    <3>1. CASE WeakBarrier(p) \/ StrongBarrier(p)
      BY <2>2, <3>1, RoundArrive DEF FInv
    <3>2. CASE PassStrong(p)
      BY <2>2, <3>2, RoundPass DEF FInv
    <3>3. CASE \/ StartRound(p) \/ PollRound(p) \/ LeaveSpin(p)
               \/ ReadLastUsed(p) \/ ResetCounter(p)
      BY <2>2, <3>3, RoundQuiet DEF FInv, BInv
    <3>. QED
      BY <2>3, <3>1, <3>2, <3>3 DEF Collect
  <2>4. ASSUME UNCHANGED vars PROVE \E a \in Nat : RoundAt(a)'
    <3>1. RoundAt(b)'
      BY <2>2, <2>4 DEF RoundAt, Firsts, vars
    <3>. QED
      BY <3>1
  <2>5. \E a \in Nat : RoundAt(a)'
    BY <2>3, <2>4 DEF Next
  <2>. QED
    BY <2>1, <2>5 DEF FInv
<1>3. ASSUME FInv PROVE OneFirst
  <2>. SUFFICES ASSUME NEW p \in Procs, pc[p] = "check", After(p) = "next"
                PROVE  Cardinality({q \in Procs : first[q]}) = 1
    BY DEF OneFirst
  <2>1. PICK b \in Nat : RoundAt(b)
    BY <1>3 DEF FInv
  <2>2. /\ count[p] \in b .. b + Len(Program) /\ count[p] \notin {b, b + Len(Program)}
        /\ Len(Program) \in Nat
    BY <2>1, EndsAt, BarriersAssumption DEF RoundAt, After
  <2>3. \A q \in Procs : count[q] > b
    <3>. TAKE q \in Procs
    <3>1. count[q] >= count[p] /\ count[q] \in Nat
      BY <1>3, NoneBehind DEF FInv, BInv, TypeOK
    <3>. QED
      BY <2>2, <3>1
  <2>4. Firsts(b) = {q \in Procs : first[q]}
    BY <2>3 DEF Firsts
  <2>. QED
    BY <2>1, <2>3, <2>4 DEF RoundAt
<1>. QED
  BY <1>1, <1>2, <1>3, PTL DEF Spec
=============================================================================
