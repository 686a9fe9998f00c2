-------------------------- MODULE SemiPara_proofs --------------------------
(***************************************************************************)
(* Proofs about SemiPara: type correctness, WorkConserved, EmptyMeansDone  *)
(* and EmptyAfterCollection, for any number of processors, threads and     *)
(* shared sets and any graph of objects, as long as no pop moves a cursor  *)
(* up: PopsNeverIncrement.  A comment of gc_para.c takes that for granted, *)
(* and MCStaleSize.cfg refutes it for the default fetch sizes.  A lemma    *)
(* shows that there are sizes with which it holds (PopsAreSafe).           *)
(*                                                                         *)
(* The invariant says in which room each processor is, what it may hold at *)
(* each label, which words of the shared sets it has claimed, and that     *)
(* every piece of work is in exactly one word of a shared set or of a      *)
(* processor.                                                              *)
(***************************************************************************)
EXTENDS SemiPara, FiniteSetTheorems, SequenceTheorems, TLAPS

Before == {"stopCopy", "check", "isEmpty", "checked", "aborted", "reset"}
Popping == {"fetch", "overreach", "copy", "popEnd"}
Pushing == {"reserve", "fill", "pushEnd"}
Leaving == {"leave", "finalizer", "noFinalizer"}
Claiming == {"fill", "overreach", "copy"}
Labels == Before \cup Popping \cup Pushing \cup Leaving
            \cup {"await", "roots", "shared", "pushed", "popEnter", "popped",
                  "adjust", "end"}

(* The room p is in, waits for or has just left.                           *)
RoomOf(p) ==
  IF pc[p] \in Popping \/ (pc[p] \in Leaving /\ ret[p] = "popped") THEN 0 ELSE 1

----------------------------------------------------------------------------
(* The rooms.                                                              *)

RoomTypes ==
  /\ queue \in [Rooms -> Seq(Procs)]
  /\ inside \in [Rooms -> SUBSET Procs]
  /\ closing \in SUBSET Procs

WaitsOnce ==
  \A r, s \in Rooms : \A m \in DOMAIN queue[r], n \in DOMAIN queue[s] :
    queue[r][m] = queue[s][n] => r = s /\ m = n

Waits ==
  \A r \in Rooms : \A m \in DOMAIN queue[r] :
    /\ pc[queue[r][m]] \in {"fetch", "reserve", "isEmpty"}
    /\ RoomOf(queue[r][m]) = r
    /\ queue[r][m] \notin inside[r]

IsInside ==
  /\ \A r \in Rooms : \A p \in inside[r] :
       /\ pc[p] \in Popping \cup Pushing \cup {"isEmpty", "leave"}
       /\ RoomOf(p) = r
  /\ \A p \in Procs :
       pc[p] \in {"overreach", "copy", "popEnd", "fill", "pushEnd", "leave"} =>
         p \in inside[RoomOf(p)]
  /\ \A p \in Procs : fetched[p] => p \in inside[0]

OneRoom ==
  /\ \A r, s \in Rooms : inside[r] # {} /\ inside[s] # {} => r = s
  /\ \A p \in Procs : pc[p] \in {"finalizer", "noFinalizer"} <=> p \in closing
  /\ closing # {} => \A r \in Rooms : inside[r] = {}
  /\ \A p, q \in closing : p = q

RoomsOK == RoomTypes /\ WaitsOnce /\ Waits /\ IsInside /\ OneRoom

----------------------------------------------------------------------------
(* One processor.                                                          *)

RegTypes ==
  /\ local \in [Procs -> [Kinds -> Seq(Items)]]
  /\ hasShared \in [Procs -> BOOLEAN]
  /\ pc \in [Procs -> Labels]
  /\ ret \in [Procs -> {"checked", "shared", "pushed", "popped"}]
  /\ kind \in [Procs -> Kinds]
  /\ request \in [Procs -> Int] /\ objRequest \in [Procs -> Int]
  /\ lo \in [Procs -> Nat] /\ hi \in [Procs -> Nat]
  /\ fetched \in [Procs -> BOOLEAN] /\ verdict \in [Procs -> BOOLEAN]
  /\ stage \in [Procs -> 0 .. 3]
  /\ first \in Procs \cup {NoProc}
  /\ unscanned \subseteq Threads
  /\ worked \in [Procs -> BOOLEAN]

Empty(p) == \A k \in Kinds : local[p][k] = <<>>

(* p leaves the room it has pushed from or looked at.                      *)
LeavesEmpty(p) == pc[p] \in Leaving /\ ret[p] # "popped"

(* Who is counted, and who holds work.                                     *)
Counted(p) ==
  /\ pc[p] \in Before \cup {"await", "shared", "pushed", "popEnter", "pushEnd",
                            "adjust", "end"} \/ LeavesEmpty(p) => Empty(p)
  /\ \/ pc[p] \in Before \cup Popping \cup {"shared", "pushed", "popEnter",
                                            "adjust", "end"}
     \/ pc[p] = "await" /\ stage[p] # 1
     \/ LeavesEmpty(p)
     => ~ hasShared[p]
  /\ pc[p] = "roots" \/ (pc[p] = "await" /\ stage[p] = 1) => hasShared[p]
  /\ pc[p] \notin Popping /\ ~ Empty(p) => hasShared[p]
  /\ pc[p] \in Popping /\ ~ Empty(p) => fetched[p]
  /\ fetched[p] => pc[p] \in Popping

(* Which part of the collection p is in.                                   *)
Staged(p) ==
  /\ pc[p] \in {"stopCopy", "reset", "aborted"} => stage[p] = 0
  /\ pc[p] \in {"check", "isEmpty", "checked"} => stage[p] \in {0, 2}
  /\ pc[p] \in Leaving /\ ret[p] = "checked" => stage[p] \in {0, 2}
  /\ pc[p] \in Leaving /\ ret[p] # "checked" => stage[p] = 1
  /\ pc[p] \in Popping \cup Pushing \cup {"roots", "shared", "pushed", "popEnter",
                                          "popped"} => stage[p] = 1
  /\ pc[p] = "await" => stage[p] \in 1 .. 3
  /\ pc[p] = "adjust" => stage[p] = 2
  /\ pc[p] = "end" => stage[p] = 3

Registers(p) ==
  /\ pc[p] \in Popping \cup {"popEnter"} => ret[p] = "popped"
  /\ pc[p] \in Pushing => ret[p] \in {"shared", "pushed"}
  /\ pc[p] = "isEmpty" => ret[p] = "checked"
  /\ verdict[p] => \/ pc[p] \in {"pushed", "checked"}
                   \/ pc[p] \in Leaving /\ ret[p] = "checked"
  /\ pc[p] = "fetch" => request[p] # 0
  /\ pc[p] \in {"overreach", "copy"} => request[p] > 0
  /\ pc[p] \notin {"fetch", "overreach", "copy", "reserve", "fill"} => kind[p] = 1
  /\ pc[p] \in {"reserve", "fill"} =>
       \A k \in Kinds : k < kind[p] => local[p][k] = <<>>

LocalOK(p) == Counted(p) /\ Staged(p) /\ Registers(p)

----------------------------------------------------------------------------
(* The words of the shared sets.                                           *)

(* A push has reserved words below the cursor, a pop has taken words off   *)
(* above it.                                                               *)
Claims ==
  \A p \in Procs :
    /\ pc[p] = "fill" => /\ hi[p] - lo[p] = Len(local[p][kind[p]])
                         /\ lo[p] < hi[p] /\ hi[p] <= last[kind[p]]
    /\ pc[p] \in {"overreach", "copy"} =>
         last[kind[p]] <= lo[p] /\ lo[p] <= hi[p] /\ hi[p] <= Capacity
    /\ pc[p] = "overreach" => lo[p] = 0

ClaimsApart ==
  \A p, q \in Procs :
    pc[p] \in Claiming /\ pc[q] \in Claiming /\ kind[p] = kind[q] /\ p # q =>
      \A n \in Range_(p) : n \notin Range_(q)

Cursors ==
  /\ slots \in [Kinds -> [0 .. Capacity - 1 -> Items \cup {NoItem}]]
  /\ last \in [Kinds -> Int]
  /\ \A k \in Kinds : last[k] <= Capacity
  /\ \A k \in Kinds : last[k] < 0 =>
       \E p \in Procs : pc[p] = "overreach" /\ kind[p] = k

SharedOK == Claims /\ ClaimsApart /\ Cursors

Count == numLocalStack = Cardinality({p \in Procs : hasShared[p]})

----------------------------------------------------------------------------
(* The work.                                                               *)

Graph ==
  /\ copied \subseteq Items \ Roots
  /\ scanned \subseteq Found \cup copied
  /\ \A i \in scanned : Targets(i) \subseteq copied

SharedIsWork ==
  \A k \in Kinds : \A n \in SharedWords(k) : slots[k][n] \in Pending

LocalIsWork ==
  \A p \in Procs, k \in Kinds : \A n \in DOMAIN local[p][k] : local[p][k][n] \in Pending

SharedOnce ==
  \A k, j \in Kinds : \A m \in SharedWords(k), n \in SharedWords(j) :
    slots[k][m] = slots[j][n] => k = j /\ m = n

LocalOnce ==
  \A p, q \in Procs, k, j \in Kinds :
    \A m \in DOMAIN local[p][k], n \in DOMAIN local[q][j] :
      local[p][k][m] = local[q][j][n] => p = q /\ k = j /\ m = n

NotBoth ==
  \A p \in Procs, k, j \in Kinds : \A m \in DOMAIN local[p][k], n \in SharedWords(j) :
    local[p][k][m] # slots[j][n]

WorkIsSomewhere ==
  \A i \in Pending :
    \/ \E k \in Kinds : \E n \in SharedWords(k) : slots[k][n] = i
    \/ \E p \in Procs, k \in Kinds : \E n \in DOMAIN local[p][k] : local[p][k][n] = i

Conserved == /\ SharedIsWork /\ LocalIsWork /\ SharedOnce /\ LocalOnce /\ NotBoth
             /\ WorkIsSomewhere

----------------------------------------------------------------------------
(* The course of the collection.                                           *)

(* p has seen that no thread is left to be scanned.                        *)
PastRoots(p) ==
  \/ stage[p] >= 2
  \/ stage[p] = 1 /\ pc[p] \notin {"await", "roots"}

(* p has left the second strong barrier.                                   *)
PastSecond(p) == stage[p] = 3 \/ (stage[p] = 2 /\ pc[p] # "await")

Phases ==
  /\ \A p \in Procs : PastRoots(p) => unscanned = {}
  /\ \A p, q \in Procs : PastSecond(p) => stage[q] >= 2
  /\ \A p \in Procs : stage[p] = 2 /\ (pc[p] = "checked" \/ pc[p] \in Leaving) =>
       verdict[p]

Done ==
  \A p \in Procs : (verdict[p] /\ pc[p] = "pushed") \/ stage[p] >= 2 => Pending = {}

Inv ==
  /\ RoomsOK
  /\ RegTypes /\ \A p \in Procs : LocalOK(p)
  /\ SharedOK /\ Count
  /\ Graph /\ Conserved
  /\ Phases /\ Done

----------------------------------------------------------------------------
(* What stays.                                                             *)

(* A step of another processor leaves the registers of q alone.            *)
Same(q) ==
  /\ pc'[q] = pc[q] /\ ret'[q] = ret[q] /\ stage'[q] = stage[q]
  /\ local'[q] = local[q] /\ hasShared'[q] = hasShared[q]
  /\ kind'[q] = kind[q] /\ request'[q] = request[q]
  /\ lo'[q] = lo[q] /\ hi'[q] = hi[q]
  /\ fetched'[q] = fetched[q] /\ verdict'[q] = verdict[q]

LEMMA KindsAre ==
  /\ Len(FetchSize) \in Nat \ {0}
  /\ Kinds = 1 .. Len(FetchSize)
  /\ ObjKind \in Kinds /\ RootKind \in Kinds
<1>. QED
  BY SharedStackAssumption, SemiParaAssumption DEF Kinds

LEMMA RoomsAre == Rooms = 0 .. 2
<1>. QED
  BY SharedStackAssumption DEF Rooms

LEMMA NumProcIs == NumProc \in Nat \ {0}
<1>. QED
  BY SharedStackAssumption, FS_CardinalityType, FS_EmptySet DEF NumProc

LEMMA LocalSame ==
  ASSUME NEW q \in Procs, LocalOK(q), Same(q)
  PROVE  LocalOK(q)'
<1>1. Empty(q)' <=> Empty(q)
  BY DEF Empty, Same
<1>2. LeavesEmpty(q)' <=> LeavesEmpty(q)
  BY DEF LeavesEmpty, Same
<1>3. Counted(q)'
  BY <1>1, <1>2 DEF LocalOK, Counted, Same
<1>4. Staged(q)'
  BY DEF LocalOK, Staged, Same
<1>5. Registers(q)'
  BY DEF LocalOK, Registers, Same
<1>. QED
  BY <1>3, <1>4, <1>5 DEF LocalOK

(* The words that hold work are those of the cursors and the claims.       *)
LEMMA InShared ==
  ASSUME NEW k \in Kinds, NEW n
  PROVE  n \in SharedWords(k) <=>
           \/ /\ n \in 0 .. last[k] - 1
              /\ \A p \in Procs : pc[p] = "fill" /\ kind[p] = k => n \notin Range_(p)
           \/ \E p \in Procs : pc[p] \in {"overreach", "copy"} /\ kind[p] = k
                                 /\ n \in Range_(p)
<1>. QED
  BY DEF SharedWords

LEMMA InSharedNext ==
  ASSUME NEW k \in Kinds, NEW n
  PROVE  n \in SharedWords(k)' <=>
           \/ /\ n \in 0 .. last'[k] - 1
              /\ \A p \in Procs : pc'[p] = "fill" /\ kind'[p] = k =>
                   n \notin lo'[p] .. hi'[p] - 1
           \/ \E p \in Procs : pc'[p] \in {"overreach", "copy"} /\ kind'[p] = k
                                 /\ n \in lo'[p] .. hi'[p] - 1
<1>. QED
  BY DEF SharedWords, Range_

(* A set of work is the same when what it depends on is.                   *)
LEMMA SamePending ==
  ASSUME UNCHANGED <<unscanned, copied, scanned>>
  PROVE  Found' = Found /\ Pending' = Pending
<1>. QED
  BY DEF Found, Pending

LEMMA SameConserved ==
  ASSUME Conserved, UNCHANGED <<slots, local, unscanned, copied, scanned>>,
         \A k \in Kinds : SharedWords(k)' = SharedWords(k)
  PROVE  Conserved'
<1>1. Pending' = Pending
  BY SamePending
<1>. HIDE DEF SharedWords, Pending
<1>2. SharedIsWork' /\ LocalIsWork' /\ SharedOnce' /\ LocalOnce' /\ NotBoth'
  BY <1>1 DEF Conserved, SharedIsWork, LocalIsWork, SharedOnce, LocalOnce, NotBoth
<1>3. WorkIsSomewhere'
  BY <1>1 DEF Conserved, WorkIsSomewhere
<1>. QED
  BY <1>2, <1>3 DEF Conserved

LEMMA SameGraph ==
  ASSUME Graph, UNCHANGED <<unscanned, copied, scanned>>
  PROVE  Graph'
<1>. QED
  BY SamePending DEF Graph, Targets

(* A step that neither moves a cursor nor claims a word.                   *)
LEMMA WorkUntouched ==
  ASSUME Inv, NEW p \in Procs, \A q \in Procs \ {p} : Same(q),
         UNCHANGED <<slots, last, local, unscanned, copied, scanned>>,
         pc[p] \notin Claiming, pc'[p] \notin Claiming
  PROVE  SharedOK' /\ Graph' /\ Conserved' /\ Pending' = Pending
<1>1. \A q \in Procs : pc'[q] \in Claiming \/ pc[q] \in Claiming =>
        Same(q)
  OBVIOUS
<1>2. SharedOK /\ Conserved /\ Graph
  BY DEF Inv
<1>3. Claims'
  BY <1>1, <1>2 DEF Claims, SharedOK, Claiming, Same
<1>4. ClaimsApart'
  BY <1>1, <1>2 DEF ClaimsApart, SharedOK, Same, Range_
<1>5. Cursors'
  BY <1>1, <1>2 DEF Cursors, SharedOK, Claiming, Same
<1>6. \A k \in Kinds : SharedWords(k)' = SharedWords(k)
  <2>. TAKE k \in Kinds
  <2>1. \A n : n \in SharedWords(k)' <=> n \in SharedWords(k)
    BY <1>1, InShared, InSharedNext DEF Claiming, Same, Range_
  <2>. QED
    BY <2>1
<1>7. Conserved'
  BY <1>2, <1>6, SameConserved
<1>. QED
  BY <1>2, <1>3, <1>4, <1>5, <1>7, SameGraph, SamePending DEF SharedOK

----------------------------------------------------------------------------
(* The rooms under the steps of one processor.                             *)

Working == Popping \cup Pushing \cup {"isEmpty", "leave"}

(* A processor is inside the room it is in, or waits, or neither.          *)
LEMMA InsideIs ==
  ASSUME Inv, NEW p \in Procs
  PROVE  /\ InRoom(p) => p \in inside[RoomOf(p)] /\ pc[p] \in Working
         /\ InRoom(p) => ~ Queued(p)
         /\ Queued(p) => pc[p] \in {"fetch", "reserve", "isEmpty"}
         /\ RoomOf(p) \in Rooms
         /\ pc[p] \notin Working => ~ InRoom(p)
<1>1. RoomsOK
  BY DEF Inv
<1>2. InRoom(p) => p \in inside[RoomOf(p)] /\ pc[p] \in Working
  BY <1>1 DEF RoomsOK, IsInside, InRoom, Working
<1>3. InRoom(p) => ~ Queued(p)
  <2>. SUFFICES ASSUME InRoom(p), NEW r \in Rooms, NEW n \in 1 .. Len(queue[r]),
                       queue[r][n] = p
                PROVE  FALSE
    BY DEF Queued
  <2>1. n \in DOMAIN queue[r]
    BY <1>1 DEF RoomsOK, RoomTypes
  <2>2. RoomOf(p) = r /\ p \notin inside[r]
    BY <1>1, <2>1 DEF RoomsOK, Waits
  <2>. QED
    BY <1>2, <2>2
<1>4. Queued(p) => pc[p] \in {"fetch", "reserve", "isEmpty"}
  <2>. SUFFICES ASSUME NEW r \in Rooms, NEW n \in 1 .. Len(queue[r]), queue[r][n] = p
                PROVE  pc[p] \in {"fetch", "reserve", "isEmpty"}
    BY DEF Queued
  <2>1. n \in DOMAIN queue[r]
    BY <1>1 DEF RoomsOK, RoomTypes
  <2>. QED
    BY <1>1, <2>1 DEF RoomsOK, Waits
<1>5. RoomOf(p) \in Rooms
  BY RoomsAre DEF RoomOf
<1>. QED
  BY <1>2, <1>3, <1>4, <1>5

(* A step in which p stays in its room, or outside of all.                 *)
LEMMA RoomsStay ==
  ASSUME Inv, NEW p \in Procs, \A q \in Procs \ {p} : Same(q), UNCHANGED absVars,
         ~ Queued(p), InRoom(p) \/ pc[p] \notin Working,
         InRoom(p) => pc'[p] \in Working /\ RoomOf(p)' = RoomOf(p),
         ~ InRoom(p) => pc'[p] \notin Working \cup Leaving /\ ~ fetched'[p],
         fetched'[p] => pc'[p] \in Popping,
         pc[p] \notin {"finalizer", "noFinalizer"}
  PROVE  RoomsOK'
<1>1. RoomsOK
  BY DEF Inv
<1>2. \A q \in Procs \ {p} : RoomOf(q)' = RoomOf(q)
  BY DEF RoomOf, Same
<1>3. \A r \in Rooms : \A m \in DOMAIN queue[r] : queue[r][m] \in Procs \ {p}
  <2>. TAKE r \in Rooms
  <2>. TAKE m \in DOMAIN queue[r]
  <2>1. m \in 1 .. Len(queue[r]) /\ queue[r][m] \in Procs
    BY <1>1 DEF RoomsOK, RoomTypes
  <2>. QED
    BY <2>1 DEF Queued
<1>4. RoomTypes' /\ WaitsOnce'
  BY <1>1 DEF RoomsOK, RoomTypes, WaitsOnce, absVars
<1>5. Waits'
  BY <1>1, <1>2, <1>3 DEF RoomsOK, Waits, absVars, Same
<1>6. InRoom(p) => p \in inside[RoomOf(p)]
  BY InsideIs
<1>7. IsInside'
  <2>1. ASSUME NEW r \in Rooms, NEW q \in inside'[r]
        PROVE  /\ pc'[q] \in Popping \cup Pushing \cup {"isEmpty", "leave"}
               /\ RoomOf(q)' = r
    <3>1. q \in inside[r] /\ q \in Procs
      BY <1>1 DEF RoomsOK, RoomTypes, absVars
    <3>2. CASE q = p
      <4>1. InRoom(p) /\ RoomOf(p) = r
        BY <1>1, <3>1, <3>2 DEF InRoom, RoomsOK, IsInside
      <4>. QED
        BY <3>2, <4>1 DEF Working
    <3>3. CASE q # p
      BY <1>1, <1>2, <3>1, <3>3 DEF RoomsOK, IsInside, Same
    <3>. QED
      BY <3>2, <3>3
  <2>2. ASSUME NEW q \in Procs,
               pc'[q] \in {"overreach", "copy", "popEnd", "fill", "pushEnd", "leave"}
        PROVE  q \in inside'[RoomOf(q)']
    <3>1. CASE q = p
      BY <1>6, <2>2, <3>1 DEF absVars, Working, Popping, Pushing
    <3>2. CASE q # p
      BY <1>1, <1>2, <2>2, <3>2 DEF RoomsOK, IsInside, Same, absVars
    <3>. QED
      BY <3>1, <3>2
  <2>3. ASSUME NEW q \in Procs, fetched'[q]
        PROVE  q \in inside'[0]
    <3>1. CASE q = p
      <4>1. InRoom(p) /\ RoomOf(p)' = 0
        BY <2>3, <3>1 DEF RoomOf
      <4>. QED
        BY <1>6, <3>1, <4>1 DEF absVars
    <3>2. CASE q # p
      BY <1>1, <2>3, <3>2 DEF RoomsOK, IsInside, Same, absVars
    <3>. QED
      BY <3>1, <3>2
  <2>. QED
    BY <2>1, <2>2, <2>3 DEF IsInside
<1>8. OneRoom'
  <2>1. pc'[p] \notin {"finalizer", "noFinalizer"}
    BY DEF Working, Leaving, Popping, Pushing
  <2>. QED
    BY <1>1, <2>1 DEF RoomsOK, OneRoom, Same, absVars
<1>. QED
  BY <1>4, <1>5, <1>7, <1>8 DEF RoomsOK

(* p takes a ticket for room r.                                            *)
LEMMA RoomsArrive ==
  ASSUME Inv, NEW p \in Procs, NEW r \in Rooms, \A q \in Procs \ {p} : Same(q),
         Arrive(p, r), pc[p] \notin Working \cup Leaving,
         pc'[p] \in {"fetch", "reserve", "isEmpty"}, RoomOf(p)' = r, ~ fetched'[p]
  PROVE  RoomsOK'
<1>1. RoomsOK
  BY DEF Inv
<1>2. \A q \in Procs \ {p} : RoomOf(q)' = RoomOf(q)
  BY DEF RoomOf, Same
<1>3. /\ queue' = [queue EXCEPT ![r] = Append(queue[r], p)]
      /\ inside' = inside /\ closing' = closing
  BY DEF Arrive
<1>4. queue \in [Rooms -> Seq(Procs)]
  BY <1>1 DEF RoomsOK, RoomTypes
<1>5. RoomTypes'
  BY <1>1, <1>3, <1>4 DEF RoomsOK, RoomTypes
<1>6. /\ \A s \in Rooms : \A m \in DOMAIN queue'[s] :
           \/ m \in DOMAIN queue[s] /\ queue'[s][m] = queue[s][m]
           \/ s = r /\ m = Len(queue[r]) + 1 /\ queue'[s][m] = p
  <2>1. \A s \in Rooms : Len(queue[s]) \in Nat /\ DOMAIN queue[s] = 1 .. Len(queue[s])
    BY <1>4
  <2>2. /\ DOMAIN queue'[r] = 1 .. Len(queue[r]) + 1
        /\ queue'[r][Len(queue[r]) + 1] = p
        /\ \A m \in 1 .. Len(queue[r]) : queue'[r][m] = queue[r][m]
    BY <1>3, <1>4, AppendProperties
  <2>3. \A s \in Rooms \ {r} : queue'[s] = queue[s]
    BY <1>3, <1>4
  <2>. QED
    BY <2>1, <2>2, <2>3
<1>7. \A s \in Rooms : \A m \in DOMAIN queue[s] : queue[s][m] \in Procs \ {p}
  <2>. TAKE s \in Rooms
  <2>. TAKE m \in DOMAIN queue[s]
  <2>1. m \in 1 .. Len(queue[s]) /\ queue[s][m] \in Procs
    BY <1>4
  <2>. QED
    BY <2>1 DEF Arrive, Queued
<1>8. WaitsOnce'
  BY <1>1, <1>6, <1>7 DEF RoomsOK, WaitsOnce
<1>9. ~ InRoom(p)
  BY InsideIs
<1>10. Waits'
  <2>1. ASSUME NEW s \in Rooms, NEW m \in DOMAIN queue'[s], NEW q, q = queue'[s][m]
        PROVE  /\ pc'[q] \in {"fetch", "reserve", "isEmpty"}
               /\ RoomOf(q)' = s /\ q \notin inside'[s]
    <3>1. CASE m \in DOMAIN queue[s] /\ q = queue[s][m]
      <4>1. q \in Procs \ {p}
        BY <1>7, <3>1
      <4>2. /\ pc[q] \in {"fetch", "reserve", "isEmpty"}
            /\ RoomOf(q) = s /\ q \notin inside[s]
        BY <1>1, <3>1 DEF RoomsOK, Waits
      <4>. QED
        BY <1>2, <1>3, <4>1, <4>2 DEF Same
    <3>2. CASE s = r /\ q = p
      BY <1>3, <1>9, <3>2 DEF InRoom
    <3>. QED
      BY <1>6, <2>1, <3>1, <3>2
  <2>. QED
    BY <2>1, Zenon DEF Waits, RoomOf
<1>11. IsInside'
  <2>1. \A s \in Rooms : \A q \in inside[s] : q \in Procs \ {p}
    BY <1>1, <1>9 DEF InRoom, RoomsOK, RoomTypes
  <2>2. \A q \in Procs \ {p} : pc'[q] = pc[q] /\ fetched'[q] = fetched[q]
    BY DEF Same
  <2>. QED
    BY <1>1, <1>2, <1>3, <2>1, <2>2 DEF RoomsOK, IsInside
<1>12. OneRoom'
  BY <1>1, <1>3 DEF RoomsOK, OneRoom, Same, Leaving
<1>. QED
  BY <1>5, <1>8, <1>10, <1>11, <1>12 DEF RoomsOK

(* p leaves; the last one becomes responsible for the exit code.           *)
LEMMA RoomsLeave ==
  ASSUME Inv, NEW p \in Procs, NEW r \in Rooms, \A q \in Procs \ {p} : Same(q),
         Leave(p, r), pc[p] = "leave", ~ fetched'[p],
         IF inside[r] = {p} THEN pc'[p] \in {"finalizer", "noFinalizer"}
                            ELSE pc'[p] \notin Working \cup Leaving
  PROVE  RoomsOK'
<1>1. RoomsOK
  BY DEF Inv
<1>2. \A q \in Procs \ {p} : RoomOf(q)' = RoomOf(q) /\ pc'[q] = pc[q] /\ fetched'[q] = fetched[q]
  BY DEF RoomOf, Same
<1>3. /\ p \in inside[r] /\ queue' = queue
      /\ inside' = [inside EXCEPT ![r] = inside[r] \ {p}]
      /\ closing' = IF inside[r] = {p} THEN {p} ELSE closing
  BY DEF Leave
<1>4. RoomTypes' /\ WaitsOnce'
  BY <1>1, <1>3 DEF RoomsOK, RoomTypes, WaitsOnce
<1>5. closing = {}
  BY <1>1, <1>3 DEF RoomsOK, OneRoom
<1>6. \A s \in Rooms : s # r => inside[s] = {}
  BY <1>1, <1>3 DEF RoomsOK, OneRoom
<1>7. /\ inside'[r] = inside[r] \ {p}
      /\ \A s \in Rooms : s # r => inside'[s] = inside[s]
  BY <1>1, <1>3 DEF RoomsOK, RoomTypes
<1>8. \A s \in Rooms : \A m \in DOMAIN queue[s] : queue[s][m] \in Procs \ {p}
  <2>. TAKE s \in Rooms
  <2>. TAKE m \in DOMAIN queue[s]
  <2>1. m \in 1 .. Len(queue[s]) /\ queue[s][m] \in Procs
    BY <1>1 DEF RoomsOK, RoomTypes
  <2>. QED
    BY <1>1, <2>1 DEF RoomsOK, Waits
<1>9. Waits'
  <2>1. ASSUME NEW s \in Rooms, NEW m \in DOMAIN queue'[s], NEW q, q = queue'[s][m]
        PROVE  /\ pc'[q] \in {"fetch", "reserve", "isEmpty"}
               /\ RoomOf(q)' = s /\ q \notin inside'[s]
    BY <1>1, <1>2, <1>3, <1>7, <1>8, <2>1 DEF RoomsOK, Waits
  <2>. QED
    BY <2>1, Zenon DEF Waits, RoomOf
<1>10. IsInside'
  <2>1. ASSUME NEW s \in Rooms, NEW q \in inside'[s]
        PROVE  /\ pc'[q] \in Popping \cup Pushing \cup {"isEmpty", "leave"}
               /\ RoomOf(q)' = s
    <3>1. q \in inside[s] /\ q \in Procs /\ q # p
      BY <1>1, <1>6, <1>7, <2>1 DEF RoomsOK, RoomTypes
    <3>. QED
      BY <1>1, <1>2, <3>1 DEF RoomsOK, IsInside
  <2>2. ASSUME NEW q \in Procs,
               pc'[q] \in {"overreach", "copy", "popEnd", "fill", "pushEnd", "leave"}
        PROVE  q \in inside'[RoomOf(q)']
    <3>1. q # p
      BY <2>2 DEF Working, Leaving, Popping, Pushing
    <3>2. q \in inside[RoomOf(q)] /\ RoomOf(q) \in Rooms
      BY <1>1, <1>2, <2>2, <3>1, RoomsAre DEF RoomsOK, IsInside, RoomOf
    <3>. QED
      BY <1>2, <1>7, <3>1, <3>2
  <2>3. ASSUME NEW q \in Procs, fetched'[q]
        PROVE  q \in inside'[0]
    <3>1. q # p
      BY <2>3
    <3>2. q \in inside[0] /\ 0 \in Rooms
      BY <1>1, <1>2, <2>3, <3>1, RoomsAre DEF RoomsOK, IsInside
    <3>. QED
      BY <1>7, <3>1, <3>2
  <2>. QED
    BY <2>1, <2>2, <2>3 DEF IsInside
<1>11. OneRoom'
  <2>1. \A s, u \in Rooms : inside'[s] # {} /\ inside'[u] # {} => s = u
    BY <1>6, <1>7
  <2>2. \A q \in Procs : pc'[q] \in {"finalizer", "noFinalizer"} <=> q \in closing'
    BY <1>1, <1>2, <1>3, <1>5 DEF RoomsOK, OneRoom, Leaving
  <2>3. closing' # {} => \A s \in Rooms : inside'[s] = {}
    BY <1>3, <1>5, <1>6, <1>7
  <2>4. \A q, u \in closing' : q = u
    BY <1>3, <1>5
  <2>. QED
    BY <2>1, <2>2, <2>3, <2>4 DEF OneRoom
<1>. QED
  BY <1>4, <1>9, <1>10, <1>11 DEF RoomsOK

(* p has run the exit code.                                                *)
LEMMA RoomsExit ==
  ASSUME Inv, NEW p \in Procs, \A q \in Procs \ {p} : Same(q),
         RunExitCode(p), pc'[p] \notin Working \cup Leaving, ~ fetched'[p]
  PROVE  RoomsOK'
<1>1. RoomsOK
  BY DEF Inv
<1>2. \A q \in Procs \ {p} : RoomOf(q)' = RoomOf(q) /\ pc'[q] = pc[q] /\ fetched'[q] = fetched[q]
  BY DEF RoomOf, Same
<1>3. closing = {p} /\ closing' = {} /\ queue' = queue /\ inside' = inside
  BY DEF RunExitCode
<1>4. pc[p] \in {"finalizer", "noFinalizer"} /\ \A s \in Rooms : inside[s] = {}
  BY <1>1, <1>3 DEF RoomsOK, OneRoom
<1>5. RoomTypes' /\ WaitsOnce'
  BY <1>1, <1>3 DEF RoomsOK, RoomTypes, WaitsOnce
<1>6. \A s \in Rooms : \A m \in DOMAIN queue[s] : queue[s][m] \in Procs \ {p}
  <2>. TAKE s \in Rooms
  <2>. TAKE m \in DOMAIN queue[s]
  <2>1. m \in 1 .. Len(queue[s]) /\ queue[s][m] \in Procs
    BY <1>1 DEF RoomsOK, RoomTypes
  <2>. QED
    BY <1>1, <1>4, <2>1 DEF RoomsOK, Waits
<1>7. Waits'
  <2>1. ASSUME NEW s \in Rooms, NEW m \in DOMAIN queue'[s], NEW q, q = queue'[s][m]
        PROVE  /\ pc'[q] \in {"fetch", "reserve", "isEmpty"}
               /\ RoomOf(q)' = s /\ q \notin inside'[s]
    BY <1>1, <1>2, <1>3, <1>6, <2>1 DEF RoomsOK, Waits
  <2>. QED
    BY <2>1, Zenon DEF Waits, RoomOf
<1>8. IsInside'
  <2>1. \A q \in Procs :
          /\ pc'[q] \notin {"overreach", "copy", "popEnd", "fill", "pushEnd", "leave"}
          /\ ~ fetched'[q]
    <3>. TAKE q \in Procs
    <3>1. CASE q = p
      BY <3>1 DEF Working, Popping, Pushing
    <3>2. CASE q # p
      <4>1. 0 \in Rooms /\ RoomOf(q) \in Rooms
        BY RoomsAre DEF RoomOf
      <4>. QED
        BY <1>1, <1>2, <1>4, <3>2, <4>1 DEF RoomsOK, IsInside
    <3>. QED
      BY <3>1, <3>2
  <2>. QED
    BY <1>3, <1>4, <2>1 DEF IsInside
<1>9. OneRoom'
  BY <1>1, <1>2, <1>3, <1>4 DEF RoomsOK, OneRoom, Leaving
<1>. QED
  BY <1>5, <1>7, <1>8, <1>9 DEF RoomsOK

(* The first n that wait for room r are admitted.                          *)
LEMMA RoomsAdmit ==
  ASSUME Inv, NEW r \in Rooms, NEW n \in 1 .. Len(queue[r]), Admit(r, n),
         UNCHANGED <<pc, ret, fetched>>
  PROVE  RoomsOK'
<1>1. RoomsOK
  BY DEF Inv
<1>2. \A q \in Procs : RoomOf(q)' = RoomOf(q)
  BY DEF RoomOf
<1>. DEFINE l == Len(queue[r])
<1>3. l \in Nat /\ n \in 1 .. l /\ queue[r] \in Seq(Procs) /\ DOMAIN queue[r] = 1 .. l
  BY <1>1 DEF RoomsOK, RoomTypes
<1>4. /\ \A s \in Rooms : inside[s] = {}
      /\ closing = {} /\ closing' = {}
      /\ inside' = [inside EXCEPT ![r] = {queue[r][m] : m \in 1 .. n}]
      /\ queue' = [queue EXCEPT ![r] = SubSeq(queue[r], n + 1, l)]
  BY DEF Admit
<1>5. /\ SubSeq(queue[r], n + 1, l) \in Seq(Procs)
      /\ Len(SubSeq(queue[r], n + 1, l)) = l - n
      /\ \A m \in 1 .. l - n : SubSeq(queue[r], n + 1, l)[m] = queue[r][n + m]
  <2>1. n + 1 \in Int
    BY <1>3
  <2>2. \A m \in n + 1 .. l : queue[r][m] \in Procs
    BY <1>3
  <2>. HIDE DEF l
  <2>. QED
    BY <1>3, <2>1, <2>2, SubSeqProperties
<1>. HIDE DEF l
<1>6. /\ DOMAIN queue'[r] = 1 .. l - n
      /\ \A m \in DOMAIN queue'[r] : n + m \in DOMAIN queue[r] /\ queue'[r][m] = queue[r][n + m]
      /\ \A s \in Rooms \ {r} : queue'[s] = queue[s]
  <2>1. queue \in [Rooms -> Seq(Procs)]
    BY <1>1 DEF RoomsOK, RoomTypes
  <2>2. queue'[r] = SubSeq(queue[r], n + 1, l)
    BY <1>4, <2>1
  <2>3. l - n \in Nat
    BY <1>3
  <2>4. DOMAIN queue'[r] = 1 .. l - n
    BY <1>5, <2>2, LenProperties
  <2>. QED
    BY <1>3, <1>4, <1>5, <2>1, <2>2, <2>3, <2>4
<1>7. /\ inside'[r] = {queue[r][m] : m \in 1 .. n}
      /\ \A s \in Rooms \ {r} : inside'[s] = {}
  BY <1>1, <1>4 DEF RoomsOK, RoomTypes
<1>8. RoomTypes'
  BY <1>1, <1>3, <1>4, <1>5 DEF RoomsOK, RoomTypes
<1>9. WaitsOnce'
  <2>1. SUFFICES ASSUME NEW s \in Rooms, NEW u \in Rooms, NEW m \in DOMAIN queue'[s],
                        NEW k \in DOMAIN queue'[u], queue'[s][m] = queue'[u][k]
                 PROVE  s = u /\ m = k
    BY DEF WaitsOnce
  <2>2. PICK i \in DOMAIN queue[s] : /\ queue'[s][m] = queue[s][i]
                                     /\ i = IF s = r THEN n + m ELSE m
    BY <1>6
  <2>3. PICK j \in DOMAIN queue[u] : /\ queue'[u][k] = queue[u][j]
                                     /\ j = IF u = r THEN n + k ELSE k
    BY <1>6
  <2>4. s = u /\ i = j
    <3>1. queue[s][i] = queue[u][j]
      BY <2>1, <2>2, <2>3
    <3>2. WaitsOnce
      BY <1>1 DEF RoomsOK
    <3>. QED
      BY <3>1, <3>2, Zenon DEF WaitsOnce
  <2>5. s = r => m \in Int /\ k \in Int
    BY <1>3, <1>6, <2>4
  <2>. QED
    BY <1>3, <2>2, <2>3, <2>4, <2>5
<1>10. Waits'
  <2>1. ASSUME NEW s \in Rooms, NEW m \in DOMAIN queue'[s], NEW q, q = queue'[s][m]
        PROVE  /\ pc'[q] \in {"fetch", "reserve", "isEmpty"}
               /\ RoomOf(q)' = s /\ q \notin inside'[s]
    <3>1. PICK i \in DOMAIN queue[s] : q = queue[s][i] /\ i = IF s = r THEN n + m ELSE m
      BY <1>6, <2>1
    <3>2. i \in 1 .. Len(queue[s]) /\ q \in Procs
      BY <1>1, <3>1 DEF RoomsOK, RoomTypes
    <3>3. q \notin inside'[s]
      <4>1. CASE s = r
        <5>1. SUFFICES ASSUME NEW k \in 1 .. n, q = queue[r][k]
                       PROVE  FALSE
          BY <1>7, <4>1
        <5>2. k \in DOMAIN queue[r]
          BY <1>3
        <5>3. k = i
          BY <1>1, <3>1, <4>1, <5>1, <5>2 DEF RoomsOK, WaitsOnce
        <5>4. m \in 1 .. l - n
          BY <1>6, <4>1
        <5>. QED
          BY <1>3, <3>1, <4>1, <5>3, <5>4
      <4>2. CASE s # r
        BY <1>7, <4>2
      <4>. QED
        BY <4>1, <4>2
    <3>. QED
      BY <1>1, <1>2, <3>1, <3>2, <3>3 DEF RoomsOK, Waits
  <2>. QED
    BY <2>1, Zenon DEF Waits, RoomOf
<1>11. IsInside'
  <2>1. ASSUME NEW s \in Rooms, NEW q \in inside'[s]
        PROVE  /\ pc'[q] \in Popping \cup Pushing \cup {"isEmpty", "leave"}
               /\ RoomOf(q)' = s
    <3>1. s = r /\ \E m \in DOMAIN queue[r] : q = queue[r][m]
      BY <1>3, <1>7, <2>1
    <3>2. q \in Procs
      BY <1>3, <3>1
    <3>. QED
      BY <1>1, <1>2, <3>1, <3>2 DEF RoomsOK, Waits, Popping, Pushing
  <2>2. \A q \in Procs :
          /\ pc[q] \notin {"overreach", "copy", "popEnd", "fill", "pushEnd", "leave"}
          /\ ~ fetched[q]
    <3>. TAKE q \in Procs
    <3>1. 0 \in Rooms /\ RoomOf(q) \in Rooms
      BY RoomsAre DEF RoomOf
    <3>. QED
      BY <1>1, <1>4, <3>1 DEF RoomsOK, IsInside
  <2>. QED
    BY <2>1, <2>2 DEF IsInside
<1>12. OneRoom'
  <2>1. \A s, u \in Rooms : inside'[s] # {} /\ inside'[u] # {} => s = u
    BY <1>7
  <2>. QED
    BY <1>1, <1>4, <2>1 DEF RoomsOK, OneRoom
<1>. QED
  BY <1>8, <1>9, <1>10, <1>11, <1>12 DEF RoomsOK

----------------------------------------------------------------------------
(* The course of the collection, and putting the parts together.           *)

LEMMA PhasesKeep ==
  ASSUME Inv, NEW p \in Procs, \A q \in Procs \ {p} : Same(q), RegTypes',
         unscanned' \subseteq unscanned, stage'[p] >= stage[p],
         PastRoots(p)' => PastRoots(p) \/ unscanned = {},
         PastSecond(p)' => PastSecond(p) \/ \A q \in Procs : stage[q] >= 2,
         stage'[p] = 2 /\ (pc'[p] = "checked" \/ pc'[p] \in Leaving) => verdict'[p]
  PROVE  Phases'
<1>1. Phases /\ RegTypes
  BY DEF Inv
<1>2. \A q \in Procs \ {p} : /\ PastRoots(q)' <=> PastRoots(q)
                             /\ PastSecond(q)' <=> PastSecond(q)
  BY DEF Same, PastRoots, PastSecond
<1>3. \A q \in Procs : PastRoots(q)' => unscanned' = {}
  <2>. TAKE q \in Procs
  <2>1. PastRoots(q)' => unscanned = {}
    BY <1>1, <1>2 DEF Phases
  <2>. QED
    BY <2>1
<1>4. \A q, r \in Procs : PastSecond(q)' => stage'[r] >= 2
  <2>. SUFFICES ASSUME NEW q \in Procs, NEW r \in Procs, PastSecond(q)'
                PROVE  stage'[r] >= 2
    OBVIOUS
  <2>1. stage[r] \in 0 .. 3 /\ stage'[r] \in 0 .. 3
    BY <1>1 DEF RegTypes
  <2>2. PastSecond(q) \/ \A u \in Procs : stage[u] >= 2
    BY <1>2
  <2>3. stage[r] >= 2
    BY <1>1, <2>2 DEF Phases
  <2>4. stage'[r] >= stage[r]
    BY <2>1 DEF Same
  <2>. QED
    BY <2>1, <2>3, <2>4
<1>5. \A q \in Procs : stage'[q] = 2 /\ (pc'[q] = "checked" \/ pc'[q] \in Leaving) =>
        verdict'[q]
  BY <1>1 DEF Phases, Same
<1>. QED
  BY <1>3, <1>4, <1>5 DEF Phases

(* p knows that the work is done.                                          *)
Knows(p) == (verdict[p] /\ pc[p] = "pushed") \/ stage[p] >= 2

LEMMA DoneKeeps ==
  ASSUME Inv, NEW p \in Procs, \A q \in Procs \ {p} : Same(q),
         Pending = {} => Pending' = {},
         Knows(p)' => Knows(p) \/ Pending' = {}
  PROVE  Done'
<1>1. Done
  BY DEF Inv
<1>2. \A q \in Procs \ {p} : Knows(q)' <=> Knows(q)
  BY DEF Same, Knows
<1>. HIDE DEF Pending
<1>3. \A q \in Procs : Knows(q) => Pending = {}
  BY <1>1 DEF Done, Knows
<1>4. \A q \in Procs : Knows(q)' => Pending' = {}
  BY <1>2, <1>3
<1>. QED
  BY <1>4 DEF Done, Knows

LEMMA Finish ==
  ASSUME Inv, NEW p \in Procs, \A q \in Procs \ {p} : Same(q), RegTypes', LocalOK(p)',
         RoomsOK', SharedOK', Count', Graph', Conserved', Phases', Done'
  PROVE  Inv'
<1>1. \A q \in Procs : LocalOK(q)'
  <2>. TAKE q \in Procs
  <2>1. CASE q = p
    BY <2>1
  <2>2. CASE q # p
    BY <2>2, LocalSame DEF Inv
  <2>. QED
    BY <2>1, <2>2
<1>. QED
  BY <1>1 DEF Inv

(* A step of p that moves no work.                                         *)
LEMMA Quiet ==
  ASSUME Inv, NEW p \in Procs, \A q \in Procs \ {p} : Same(q), RegTypes', LocalOK(p)',
         UNCHANGED <<slots, last, local, unscanned, copied, scanned>>,
         pc[p] \notin Claiming, pc'[p] \notin Claiming,
         RoomsOK', Count', stage'[p] >= stage[p],
         PastRoots(p)' => PastRoots(p) \/ unscanned = {},
         PastSecond(p)' => PastSecond(p) \/ \A q \in Procs : stage[q] >= 2,
         stage'[p] = 2 /\ (pc'[p] = "checked" \/ pc'[p] \in Leaving) => verdict'[p],
         Knows(p)' => Knows(p) \/ Pending = {}
  PROVE  Inv'
<1>1. SharedOK' /\ Graph' /\ Conserved' /\ Pending' = Pending
  BY WorkUntouched
<1>2. Phases'
  BY PhasesKeep
<1>3. Done'
  BY <1>1, DoneKeeps
<1>. QED
  BY <1>1, <1>2, <1>3, Finish

LEMMA SameCount ==
  ASSUME Count, UNCHANGED <<numLocalStack, hasShared>>
  PROVE  Count'
<1>. QED
  BY DEF Count

(* p enters the count, or leaves it.                                       *)
LEMMA CountUp ==
  ASSUME Inv, NEW p \in Procs, ~ hasShared[p],
         hasShared' = [hasShared EXCEPT ![p] = TRUE], numLocalStack' = numLocalStack + 1
  PROVE  Count'
<1>. DEFINE S == {q \in Procs : hasShared[q]}
            T == {q \in Procs : hasShared'[q]}
<1>1. hasShared \in [Procs -> BOOLEAN] /\ numLocalStack = Cardinality(S)
  BY DEF Inv, RegTypes, Count
<1>2. T = S \cup {p} /\ p \notin S
  BY <1>1
<1>3. IsFiniteSet(S)
  BY SharedStackAssumption, FS_Subset
<1>4. Cardinality(T) = Cardinality(S) + 1
  BY <1>2, <1>3, FS_AddElement
<1>. QED
  BY <1>1, <1>4 DEF Count

LEMMA CountDown ==
  ASSUME Inv, NEW p \in Procs, hasShared[p],
         hasShared' = [hasShared EXCEPT ![p] = FALSE], numLocalStack' = numLocalStack - 1
  PROVE  Count'
<1>. DEFINE S == {q \in Procs : hasShared[q]}
            T == {q \in Procs : hasShared'[q]}
<1>1. hasShared \in [Procs -> BOOLEAN] /\ numLocalStack = Cardinality(S)
  BY DEF Inv, RegTypes, Count
<1>2. T = S \ {p} /\ p \in S
  BY <1>1
<1>3. IsFiniteSet(S)
  BY SharedStackAssumption, FS_Subset
<1>4. Cardinality(T) = Cardinality(S) - 1
  BY <1>2, <1>3, FS_RemoveElement
<1>. QED
  BY <1>1, <1>4 DEF Count

(* A step of p between the first and the second strong barrier.            *)
LEMMA Middle ==
  ASSUME Inv, NEW p \in Procs, \A q \in Procs \ {p} : Same(q), RegTypes', LocalOK(p)',
         UNCHANGED <<slots, last, local, unscanned, copied, scanned>>,
         pc[p] \notin Claiming, pc'[p] \notin Claiming,
         RoomsOK', Count', stage[p] = 1, stage'[p] = 1,
         pc[p] \notin {"await", "roots"} \/ unscanned = {},
         verdict'[p] /\ pc'[p] = "pushed" => Pending = {}
  PROVE  Inv'
<1>1. PastRoots(p)' => PastRoots(p) \/ unscanned = {}
  BY DEF PastRoots
<1>2. ~ PastSecond(p)'
  BY DEF PastSecond
<1>3. Knows(p)' => Pending = {}
  BY DEF Knows
<1>. QED
  BY <1>1, <1>2, <1>3, Quiet

(* A step of p while it looks at the stack, before the collection or       *)
(* after it.                                                               *)
LEMMA Looking ==
  ASSUME Inv, NEW p \in Procs, \A q \in Procs \ {p} : Same(q), RegTypes', LocalOK(p)',
         UNCHANGED <<slots, last, local, unscanned, copied, scanned>>,
         pc[p] \notin Claiming \cup {"await"}, pc'[p] \notin Claiming \cup {"await"},
         RoomsOK', Count', stage[p] \in {0, 2}, stage'[p] = stage[p],
         stage[p] = 2 /\ (pc'[p] = "checked" \/ pc'[p] \in Leaving) => verdict'[p],
         pc'[p] # "pushed"
  PROVE  Inv'
<1>1. PastRoots(p)' => PastRoots(p)
  BY DEF PastRoots
<1>2. PastSecond(p)' => PastSecond(p)
  BY DEF PastSecond
<1>3. Knows(p)' => Knows(p)
  BY DEF Knows
<1>. QED
  BY <1>1, <1>2, <1>3, Quiet

----------------------------------------------------------------------------
(* The steps of the shared stack that move no work.                        *)

LEMMA Unfold ==
  ASSUME Inv, NEW p \in Procs
  PROVE  /\ RegTypes /\ Count /\ Counted(p) /\ Staged(p) /\ Registers(p) /\ Phases
         /\ kind[p] \in Kinds /\ 1 \in Kinds
<1>1. RegTypes /\ Count /\ LocalOK(p) /\ Phases
  BY DEF Inv
<1>2. kind[p] \in Kinds /\ 1 \in Kinds
  BY <1>1, KindsAre DEF RegTypes
<1>. QED
  BY <1>1, <1>2 DEF LocalOK

LEMMA BaseType ==
  ASSUME Inv, NEW p \in Procs, NEW k \in Kinds
  PROVE  Base(p, k) \in Int /\ Base(p, 1) # 0
<1>1. FetchSize \in Seq(Nat \ {0}) /\ ObjKind # 1
  BY SharedStackAssumption
<1>2. \A j \in Kinds : FetchSize[j] \in Nat \ {0}
  BY <1>1 DEF Kinds
<1>3. objRequest[p] \in Int
  BY DEF Inv, RegTypes
<1>4. 1 \in Kinds
  BY KindsAre
<1>. QED
  BY <1>1, <1>2, <1>3, <1>4 DEF Base

LEMMA TruncDivType ==
  ASSUME NEW a \in Int, NEW n \in Nat \ {0}
  PROVE  TruncDiv(a, n) \in Int
<1>. QED
  BY DEF TruncDiv

LEMMA PopEnterKeeps ==
  ASSUME Inv, NEW p \in Procs, PopEnter(p), UNCHANGED gcVars
  PROVE  Inv'
<1>0. /\ RegTypes /\ Count /\ Counted(p) /\ Staged(p) /\ Registers(p)
      /\ kind[p] \in Kinds /\ 1 \in Kinds
  BY Unfold
<1>1. /\ pc[p] = "popEnter" /\ pc' = [pc EXCEPT ![p] = "fetch"]
      /\ kind' = [kind EXCEPT ![p] = 1] /\ request' = [request EXCEPT ![p] = Base(p, 1)]
      /\ Arrive(p, 0)
      /\ UNCHANGED <<stackVars, gcVars, objRequest, lo, hi, fetched, ret, verdict>>
  BY DEF PopEnter, Goto
<1>2. Base(p, 1) \in Int \ {0}
  BY <1>0, BaseType
<1>3. \A q \in Procs \ {p} : Same(q)
  BY <1>0, <1>1 DEF Same, RegTypes, gcVars, stackVars
<1>4. RegTypes'
  BY <1>0, <1>1, <1>2 DEF RegTypes, gcVars, stackVars, Labels, Popping
<1>5. /\ pc'[p] = "fetch" /\ kind'[p] = 1 /\ request'[p] # 0 /\ ret'[p] = "popped"
      /\ ~ fetched'[p] /\ ~ verdict'[p] /\ ~ hasShared'[p]
      /\ stage[p] = 1 /\ stage'[p] = 1 /\ (Empty(p)' <=> Empty(p)) /\ Empty(p)
  BY <1>0, <1>1, <1>2 DEF RegTypes, Counted, Staged, Registers, Empty, gcVars, stackVars,
     Leaving, Popping
<1>6. LocalOK(p)'
  BY <1>5 DEF LocalOK, Counted, Staged, Registers, LeavesEmpty, Before, Popping, Pushing, Leaving
<1>7. RoomsOK'
  <2>1. RoomOf(p)' = 0 /\ 0 \in Rooms
    BY <1>5, RoomsAre DEF RoomOf, Popping
  <2>2. pc[p] \notin Working \cup Leaving /\ pc'[p] \in {"fetch", "reserve", "isEmpty"}
    BY <1>1, <1>5 DEF Working, Popping, Pushing, Leaving
  <2>. QED
    BY <1>1, <1>3, <1>5, <2>1, <2>2, RoomsArrive
<1>8. Count'
  BY <1>0, <1>1, SameCount DEF stackVars
<1>9. /\ UNCHANGED <<slots, last, local, unscanned, copied, scanned>>
      /\ pc[p] \notin Claiming \cup {"await", "roots"} /\ pc'[p] \notin Claiming
      /\ ~ (verdict'[p] /\ pc'[p] = "pushed")
  BY <1>1, <1>5 DEF stackVars, gcVars, Claiming
<1>. QED
  BY <1>3, <1>4, <1>5, <1>6, <1>7, <1>8, <1>9, Middle

LEMMA PopEndKeeps ==
  ASSUME Inv, NEW p \in Procs, PopEnd(p), UNCHANGED gcVars
  PROVE  Inv'
<1>0. /\ RegTypes /\ Count /\ Counted(p) /\ Staged(p) /\ Registers(p)
      /\ kind[p] \in Kinds /\ 1 \in Kinds
  BY Unfold
<1>1. /\ pc[p] = "popEnd" /\ pc' = [pc EXCEPT ![p] = "leave"]
      /\ hasShared' = [hasShared EXCEPT ![p] = hasShared[p] \/ fetched[p]]
      /\ numLocalStack' = IF fetched[p] THEN numLocalStack + 1 ELSE numLocalStack
      /\ fetched' = [fetched EXCEPT ![p] = FALSE]
      /\ objRequest' = [objRequest EXCEPT ![p] = 0]
      /\ UNCHANGED <<absVars, slots, last, local, kind, request, lo, hi, ret, verdict, gcVars>>
  BY DEF PopEnd, Goto
<1>3. \A q \in Procs \ {p} : Same(q)
  BY <1>0, <1>1 DEF Same, RegTypes, gcVars
<1>4. RegTypes'
  <2>1. hasShared' \in [Procs -> BOOLEAN]
    BY <1>0, <1>1 DEF RegTypes
  <2>2. /\ pc' \in [Procs -> Labels] /\ fetched' \in [Procs -> BOOLEAN]
        /\ objRequest' \in [Procs -> Int]
    BY <1>0, <1>1 DEF RegTypes, Labels, Leaving
  <2>3. UNCHANGED <<local, kind, request, lo, hi, ret, verdict, gcVars>>
    BY <1>1
  <2>. QED
    BY <1>0, <2>1, <2>2, <2>3 DEF RegTypes, gcVars
<1>5. /\ pc'[p] = "leave" /\ kind'[p] = 1 /\ ret'[p] = "popped" /\ ret[p] = "popped"
      /\ ~ fetched'[p] /\ ~ verdict'[p] /\ ~ hasShared[p] /\ (hasShared'[p] <=> fetched[p])
      /\ stage[p] = 1 /\ stage'[p] = 1 /\ (Empty(p)' <=> Empty(p)) /\ (~ Empty(p) => fetched[p])
  BY <1>0, <1>1 DEF RegTypes, Counted, Staged, Registers, Empty, gcVars, Leaving, Popping
<1>6. LocalOK(p)'
  BY <1>5 DEF LocalOK, Counted, Staged, Registers, LeavesEmpty, Before, Popping, Pushing, Leaving
<1>7. RoomsOK'
  <2>1. InRoom(p)
    BY <1>1, InsideIs DEF Inv, RoomsOK, IsInside, InRoom
  <2>2. pc'[p] \in Working /\ RoomOf(p)' = RoomOf(p)
    BY <1>1, <1>5 DEF Working, RoomOf, Popping, Leaving
  <2>3. ~ Queued(p)
    BY <2>1, InsideIs
  <2>. QED
    BY <1>1, <1>3, <1>5, <2>1, <2>2, <2>3, RoomsStay
<1>8. Count'
  <2>1. CASE fetched[p]
    <3>1. hasShared' = [hasShared EXCEPT ![p] = TRUE] /\ numLocalStack' = numLocalStack + 1
      BY <1>1, <2>1
    <3>. QED
      BY <1>5, <3>1, CountUp
  <2>2. CASE ~ fetched[p]
    <3>1. hasShared' = hasShared /\ numLocalStack' = numLocalStack
      BY <1>0, <1>1, <2>2 DEF RegTypes
    <3>. QED
      BY <1>0, <3>1, SameCount
  <2>. QED
    BY <2>1, <2>2
<1>9. /\ UNCHANGED <<slots, last, local, unscanned, copied, scanned>>
      /\ pc[p] \notin Claiming \cup {"await", "roots"} /\ pc'[p] \notin Claiming
      /\ ~ (verdict'[p] /\ pc'[p] = "pushed")
  BY <1>1, <1>5 DEF gcVars, Claiming
<1>. QED
  BY <1>3, <1>4, <1>5, <1>6, <1>7, <1>8, <1>9, Middle

(* The next set is the one after it, or none.                              *)
LEMMA NextKind ==
  ASSUME NEW k \in Kinds
  PROVE  /\ k + 1 \notin Kinds => \A j \in Kinds : j < k \/ j = k
         /\ k + 1 \in Kinds => \A j \in Kinds : j < k + 1 => j < k \/ j = k
<1>. QED
  BY KindsAre

LEMMA SkipEmptyKeeps ==
  ASSUME Inv, NEW p \in Procs, SkipEmpty(p), UNCHANGED gcVars
  PROVE  Inv'
<1>0. /\ RegTypes /\ Count /\ Counted(p) /\ Staged(p) /\ Registers(p)
      /\ kind[p] \in Kinds /\ 1 \in Kinds
  BY Unfold
<1>. DEFINE more == kind[p] + 1 \in Kinds
<1>1. /\ pc[p] = "reserve" /\ pc' = [pc EXCEPT ![p] = IF more THEN "reserve" ELSE "pushEnd"]
      /\ kind' = [kind EXCEPT ![p] = IF more THEN kind[p] + 1 ELSE 1]
      /\ InRoom(p) /\ local[p][kind[p]] = <<>>
      /\ UNCHANGED <<absVars, stackVars, request, objRequest, lo, hi, fetched, ret, verdict, gcVars>>
  BY DEF SkipEmpty, AfterKind, Goto
<1>. HIDE DEF more
<1>3. \A q \in Procs \ {p} : Same(q)
  BY <1>0, <1>1 DEF Same, RegTypes, gcVars, stackVars
<1>4. RegTypes'
  <2>1. kind' \in [Procs -> Kinds]
    BY <1>0, <1>1 DEF RegTypes, more
  <2>. QED
    BY <1>0, <1>1, <2>1 DEF RegTypes, gcVars, stackVars, Labels, Pushing
<1>5. /\ pc'[p] = IF more THEN "reserve" ELSE "pushEnd"
      /\ kind'[p] = IF more THEN kind[p] + 1 ELSE 1
      /\ ret'[p] = ret[p] /\ ret[p] \in {"shared", "pushed"}
      /\ ~ fetched'[p] /\ ~ verdict'[p] /\ hasShared'[p] = hasShared[p]
      /\ stage[p] = 1 /\ stage'[p] = 1 /\ local' = local /\ (~ Empty(p) => hasShared[p])
  BY <1>0, <1>1 DEF RegTypes, Counted, Staged, Registers, gcVars, stackVars, Leaving,
     Pushing, Popping
<1>6. /\ more => \A k \in Kinds : k < kind'[p] => local'[p][k] = <<>>
      /\ ~ more => Empty(p)'
      /\ Empty(p)' <=> Empty(p)
  <2>1. \A k \in Kinds : k < kind[p] \/ k = kind[p] => local[p][k] = <<>>
    BY <1>0, <1>1 DEF Registers
  <2>2. more => \A k \in Kinds : k < kind'[p] => local'[p][k] = <<>>
    BY <1>0, <1>5, <2>1, NextKind DEF more
  <2>3. ~ more => Empty(p)
    BY <1>0, <2>1, NextKind DEF more, Empty
  <2>. QED
    BY <1>5, <2>2, <2>3 DEF Empty
<1>7. LocalOK(p)'
  BY <1>5, <1>6 DEF LocalOK, Counted, Staged, Registers, LeavesEmpty, Before, Popping, Pushing,
     Leaving
<1>8. RoomsOK'
  <2>1. pc'[p] \in Working /\ RoomOf(p)' = RoomOf(p)
    BY <1>1, <1>5 DEF Working, RoomOf, Popping, Pushing, Leaving
  <2>2. ~ Queued(p)
    BY <1>1, InsideIs
  <2>. QED
    BY <1>1, <1>3, <1>5, <2>1, <2>2, RoomsStay
<1>9. Count'
  BY <1>0, <1>1, SameCount DEF stackVars
<1>10. /\ UNCHANGED <<slots, last, local, unscanned, copied, scanned>>
       /\ pc[p] \notin Claiming \cup {"await", "roots"} /\ pc'[p] \notin Claiming
       /\ ~ (verdict'[p] /\ pc'[p] = "pushed")
  BY <1>1, <1>5 DEF gcVars, stackVars, Claiming
<1>. QED
  BY <1>3, <1>4, <1>5, <1>7, <1>8, <1>9, <1>10, Middle

LEMMA PushEndKeeps ==
  ASSUME Inv, NEW p \in Procs, PushEnd(p), UNCHANGED gcVars
  PROVE  Inv'
<1>0. /\ RegTypes /\ Count /\ Counted(p) /\ Staged(p) /\ Registers(p)
      /\ kind[p] \in Kinds /\ 1 \in Kinds
  BY Unfold
<1>1. /\ pc[p] = "pushEnd" /\ pc' = [pc EXCEPT ![p] = "leave"]
      /\ numLocalStack' = IF hasShared[p] THEN numLocalStack - 1 ELSE numLocalStack
      /\ hasShared' = [hasShared EXCEPT ![p] = FALSE]
      /\ UNCHANGED <<absVars, slots, last, local, regVars, ret, verdict, gcVars>>
  BY DEF PushEnd, Goto
<1>3. \A q \in Procs \ {p} : Same(q)
  BY <1>0, <1>1 DEF Same, RegTypes, gcVars, regVars
<1>4. RegTypes'
  BY <1>0, <1>1 DEF RegTypes, gcVars, regVars, Labels, Leaving
<1>5. /\ pc'[p] = "leave" /\ kind'[p] = 1 /\ ret'[p] = ret[p] /\ ret[p] \in {"shared", "pushed"}
      /\ ~ fetched'[p] /\ ~ verdict'[p] /\ ~ hasShared'[p]
      /\ stage[p] = 1 /\ stage'[p] = 1 /\ (Empty(p)' <=> Empty(p)) /\ Empty(p)
  BY <1>0, <1>1 DEF RegTypes, Counted, Staged, Registers, Empty, gcVars, regVars, Leaving,
     Popping, Pushing
<1>6. LocalOK(p)'
  BY <1>5 DEF LocalOK, Counted, Staged, Registers, LeavesEmpty, Before, Popping, Pushing, Leaving
<1>7. RoomsOK'
  <2>1. InRoom(p)
    BY <1>1, InsideIs DEF Inv, RoomsOK, IsInside, InRoom
  <2>2. pc'[p] \in Working /\ RoomOf(p)' = RoomOf(p)
    BY <1>1, <1>5 DEF Working, RoomOf, Popping, Leaving
  <2>3. ~ Queued(p)
    BY <2>1, InsideIs
  <2>. QED
    BY <1>1, <1>3, <1>5, <2>1, <2>2, <2>3, RoomsStay
<1>8. Count'
  <2>1. CASE hasShared[p]
    BY <1>1, <2>1, CountDown
  <2>2. CASE ~ hasShared[p]
    <3>1. hasShared' = hasShared /\ numLocalStack' = numLocalStack
      BY <1>0, <1>1, <2>2 DEF RegTypes
    <3>. QED
      BY <1>0, <3>1, SameCount
  <2>. QED
    BY <2>1, <2>2
<1>9. /\ UNCHANGED <<slots, last, local, unscanned, copied, scanned>>
      /\ pc[p] \notin Claiming \cup {"await", "roots"} /\ pc'[p] \notin Claiming
      /\ ~ (verdict'[p] /\ pc'[p] = "pushed")
  BY <1>1, <1>5 DEF gcVars, Claiming
<1>. QED
  BY <1>3, <1>4, <1>5, <1>6, <1>7, <1>8, <1>9, Middle

(* With no claim on a set, and no work in it, its cursor is at the start.  *)
LEMMA NoWork ==
  ASSUME Inv, Pending = {}, \A q \in Procs : pc[q] \notin Claiming
  PROVE  \A k \in Kinds : last[k] = 0
<1>. TAKE k \in Kinds
<1>1. Cursors /\ SharedIsWork
  BY DEF Inv, SharedOK, Conserved
<1>2. last[k] \in Int /\ ~ last[k] < 0
  BY <1>1 DEF Cursors, Claiming
<1>3. last[k] > 0 => 0 \in SharedWords(k)
  BY <1>2, InShared DEF Claiming
<1>4. 0 \notin SharedWords(k)
  <2>. HIDE DEF SharedWords, Pending
  <2>. QED
    BY <1>1 DEF SharedIsWork
<1>. QED
  BY <1>2, <1>3, <1>4

(* The assertion after the collection: the stack is empty.                 *)
LEMMA EmptyInTheEnd ==
  ASSUME Inv, NEW p \in Procs, PastSecond(p)
  PROVE  InternalIsEmpty
<1>0. Phases /\ RegTypes /\ Done /\ Count
  BY DEF Inv
<1>1. \A q \in Procs : stage[q] >= 2 /\ stage[q] \in 0 .. 3
  BY <1>0 DEF Phases, RegTypes
<1>2. \A q \in Procs : stage[q] \in {2, 3}
  <2>. TAKE q \in Procs
  <2>1. stage[q] >= 2 /\ stage[q] \in 0 .. 3
    BY <1>1
  <2>. QED
    BY <2>1
<1>3. \A q \in Procs : pc[q] \notin Claiming /\ ~ hasShared[q]
  <2>. TAKE q \in Procs
  <2>1. Staged(q) /\ Counted(q) /\ stage[q] \in {2, 3} /\ pc[q] \in Labels
    BY <1>0, <1>2, Unfold DEF RegTypes
  <2>2. /\ pc[q] \in {"check", "isEmpty", "checked", "await", "adjust", "end"} \cup Leaving
        /\ pc[q] \in Leaving => ret[q] = "checked"
    BY <2>1 DEF Staged, Labels, Before, Popping, Pushing, Leaving
  <2>3. ~ hasShared[q]
    BY <2>1, <2>2 DEF Counted, Before, LeavesEmpty
  <2>. QED
    BY <2>2, <2>3 DEF Claiming, Leaving
<1>4. {q \in Procs : hasShared[q]} = {}
  BY <1>3
<1>5. numLocalStack = 0
  BY <1>0, <1>4, FS_EmptySet DEF Count
<1>6. Pending = {}
  BY <1>0, <1>1 DEF Done
<1>7. \A k \in Kinds : last[k] = 0
  BY <1>3, <1>6, NoWork
<1>. QED
  BY <1>5, <1>7 DEF InternalIsEmpty

LEMMA IsEmptyKeeps ==
  ASSUME Inv, NEW p \in Procs, IsEmpty(p), UNCHANGED gcVars
  PROVE  Inv'
<1>0. /\ RegTypes /\ Count /\ Counted(p) /\ Staged(p) /\ Registers(p)
      /\ kind[p] \in Kinds /\ 1 \in Kinds
  BY Unfold
<1>1. /\ pc[p] = "isEmpty" /\ pc' = [pc EXCEPT ![p] = "leave"]
      /\ InRoom(p) /\ verdict' = [verdict EXCEPT ![p] = InternalIsEmpty]
      /\ UNCHANGED <<absVars, stackVars, regVars, ret, gcVars>>
  BY DEF IsEmpty, Goto
<1>2. InternalIsEmpty \in BOOLEAN
  BY DEF InternalIsEmpty
<1>3. \A q \in Procs \ {p} : Same(q)
  BY <1>0, <1>1 DEF Same, RegTypes, gcVars, regVars, stackVars
<1>4. RegTypes'
  BY <1>0, <1>1, <1>2 DEF RegTypes, gcVars, regVars, stackVars, Labels, Leaving
<1>5. /\ pc'[p] = "leave" /\ kind'[p] = 1 /\ ret'[p] = "checked" /\ ret[p] = "checked"
      /\ ~ fetched'[p] /\ (verdict'[p] <=> InternalIsEmpty) /\ ~ hasShared'[p]
      /\ stage[p] \in {0, 2} /\ stage'[p] = stage[p] /\ (Empty(p)' <=> Empty(p)) /\ Empty(p)
  BY <1>0, <1>1, <1>2 DEF RegTypes, Counted, Staged, Registers, Empty, gcVars, regVars, stackVars,
     Before, Popping
<1>6. LocalOK(p)'
  BY <1>5 DEF LocalOK, Counted, Staged, Registers, LeavesEmpty, Before, Popping, Pushing, Leaving
<1>7. RoomsOK'
  <2>1. pc'[p] \in Working /\ RoomOf(p)' = RoomOf(p)
    BY <1>1, <1>5 DEF Working, RoomOf, Popping, Leaving
  <2>2. ~ Queued(p)
    BY <1>1, InsideIs
  <2>. QED
    BY <1>1, <1>3, <1>5, <2>1, <2>2, RoomsStay
<1>8. Count'
  BY <1>0, <1>1, SameCount DEF stackVars
<1>9. stage[p] = 2 => verdict'[p]
  BY <1>1, <1>5, EmptyInTheEnd DEF PastSecond
<1>10. /\ UNCHANGED <<slots, last, local, unscanned, copied, scanned>>
       /\ pc[p] \notin Claiming \cup {"await"} /\ pc'[p] \notin Claiming \cup {"await"}
       /\ pc'[p] # "pushed"
  BY <1>1, <1>5 DEF gcVars, stackVars, Claiming
<1>. QED
  BY <1>3, <1>4, <1>5, <1>6, <1>7, <1>8, <1>9, <1>10, Looking

----------------------------------------------------------------------------
(* Leaving the room.                                                       *)

LEMMA LeavingKeeps ==
  ASSUME Inv, NEW p \in Procs, \A q \in Procs \ {p} : Same(q), RegTypes', RoomsOK',
         pc[p] \in Leaving, pc'[p] \in Leaving \cup {ret[p]},
         UNCHANGED <<stackVars, regVars, ret, gcVars>>,
         \/ verdict'[p] = verdict[p]
         \/ pc'[p] = "pushed" /\ ret[p] = "pushed" /\ (verdict'[p] => Pending = {})
  PROVE  Inv'
<1>0. /\ RegTypes /\ Count /\ Counted(p) /\ Staged(p) /\ Registers(p) /\ Phases
      /\ kind[p] \in Kinds /\ 1 \in Kinds
  BY Unfold
<1>1. /\ ret[p] \in {"checked", "shared", "pushed", "popped"} /\ ret'[p] = ret[p]
      /\ ~ fetched[p] /\ ~ fetched'[p] /\ kind'[p] = 1 /\ hasShared'[p] = hasShared[p]
      /\ stage'[p] = stage[p] /\ (Empty(p)' <=> Empty(p))
      /\ ret[p] # "popped" => Empty(p) /\ ~ hasShared[p]
      /\ ~ Empty(p) => hasShared[p]
      /\ IF ret[p] = "checked" THEN stage[p] \in {0, 2} ELSE stage[p] = 1
      /\ verdict[p] => ret[p] = "checked"
  BY <1>0 DEF RegTypes, Counted, Staged, Registers, LeavesEmpty, Empty, gcVars, regVars, stackVars,
     Leaving, Popping
<1>2. LocalOK(p)'
  BY <1>1 DEF LocalOK, Counted, Staged, Registers, LeavesEmpty, Before, Popping, Pushing, Leaving
<1>3. Count'
  BY <1>0, SameCount DEF stackVars
<1>4. /\ UNCHANGED <<slots, last, local, unscanned, copied, scanned>>
      /\ pc[p] \notin Claiming \cup {"await", "roots"}
      /\ pc'[p] \notin Claiming \cup {"await"}
  BY <1>1 DEF gcVars, stackVars, Claiming, Leaving
<1>5. CASE ret[p] = "checked"
  <2>1. stage[p] = 2 => verdict'[p]
    BY <1>0, <1>5 DEF Phases
  <2>2. pc'[p] # "pushed"
    BY <1>5 DEF Leaving
  <2>. QED
    BY <1>1, <1>2, <1>3, <1>4, <1>5, <2>1, <2>2, Looking
<1>6. CASE ret[p] # "checked"
  <2>1. verdict'[p] => Pending = {}
    BY <1>1, <1>6
  <2>. QED
    BY <1>1, <1>2, <1>3, <1>4, <1>6, <2>1, Middle
<1>. QED
  BY <1>5, <1>6

LEMMA ExitRoomKeeps ==
  ASSUME Inv, NEW p \in Procs, ExitRoom(p), UNCHANGED gcVars
  PROVE  Inv'
<1>0. /\ RegTypes /\ Count /\ Counted(p) /\ Staged(p) /\ Registers(p)
      /\ kind[p] \in Kinds /\ 1 \in Kinds
  BY Unfold
<1>1. PICK r \in Rooms :
        /\ Leave(p, r) /\ pc[p] = "leave"
        /\ pc' = [pc EXCEPT ![p] = IF inside[r] # {p} THEN ret[p]
                                   ELSE IF r = 1 THEN "finalizer" ELSE "noFinalizer"]
        /\ UNCHANGED <<stackVars, regVars, ret, verdict>>
  BY DEF ExitRoom, Goto
<1>2. pc'[p] = IF inside[r] # {p} THEN ret[p] ELSE IF r = 1 THEN "finalizer" ELSE "noFinalizer"
  BY <1>0, <1>1 DEF RegTypes
<1>3. \A q \in Procs \ {p} : Same(q)
  BY <1>0, <1>1 DEF Same, RegTypes, gcVars, regVars, stackVars
<1>4. ret[p] \in {"checked", "shared", "pushed", "popped"}
  BY <1>0 DEF RegTypes
<1>5. pc' \in [Procs -> Labels]
  BY <1>0, <1>1, <1>4 DEF RegTypes, Labels, Before, Leaving
<1>6. RegTypes'
  BY <1>0, <1>1, <1>5 DEF RegTypes, gcVars, regVars, stackVars
<1>7. RoomsOK'
  <2>1. ~ fetched'[p]
    BY <1>0, <1>1 DEF Counted, regVars, Popping
  <2>2. IF inside[r] = {p} THEN pc'[p] \in {"finalizer", "noFinalizer"}
                           ELSE pc'[p] \notin Working \cup Leaving
    BY <1>2, <1>4 DEF Working, Leaving, Popping, Pushing
  <2>. QED
    BY <1>1, <1>3, <2>1, <2>2, RoomsLeave
<1>8. pc[p] \in Leaving /\ pc'[p] \in Leaving \cup {ret[p]} /\ verdict'[p] = verdict[p]
  BY <1>1, <1>2 DEF Leaving
<1>. QED
  BY <1>1, <1>3, <1>6, <1>7, <1>8, LeavingKeeps

LEMMA NoFinalizerKeeps ==
  ASSUME Inv, NEW p \in Procs, NoFinalizer(p), UNCHANGED gcVars
  PROVE  Inv'
<1>0. /\ RegTypes /\ Count /\ Counted(p) /\ Staged(p) /\ Registers(p)
      /\ kind[p] \in Kinds /\ 1 \in Kinds
  BY Unfold
<1>1. /\ pc[p] = "noFinalizer" /\ pc' = [pc EXCEPT ![p] = ret[p]] /\ RunExitCode(p)
      /\ UNCHANGED <<stackVars, regVars, ret, verdict>>
  BY DEF NoFinalizer, Goto
<1>2. ret[p] \in {"checked", "shared", "pushed", "popped"} /\ pc'[p] = ret[p]
  BY <1>0, <1>1 DEF RegTypes
<1>3. \A q \in Procs \ {p} : Same(q)
  BY <1>0, <1>1 DEF Same, RegTypes, gcVars, regVars, stackVars
<1>4. pc' \in [Procs -> Labels]
  BY <1>0, <1>1, <1>2 DEF RegTypes, Labels, Before, Leaving
<1>5. RegTypes'
  BY <1>0, <1>1, <1>4 DEF RegTypes, gcVars, regVars, stackVars
<1>6. RoomsOK'
  <2>1. ~ fetched'[p]
    BY <1>0, <1>1 DEF Counted, regVars, Popping
  <2>2. pc'[p] \notin Working \cup Leaving
    BY <1>2 DEF Working, Leaving, Popping, Pushing
  <2>. QED
    BY <1>1, <1>3, <2>1, <2>2, RoomsExit
<1>7. pc[p] \in Leaving /\ pc'[p] \in Leaving \cup {ret[p]} /\ verdict'[p] = verdict[p]
  BY <1>1, <1>2 DEF Leaving
<1>. QED
  BY <1>1, <1>3, <1>5, <1>6, <1>7, LeavingKeeps

(* When nobody is in a room, nobody is counted and the sets are empty, all *)
(* work has been done.                                                     *)
LEMMA EmptyIsDone ==
  ASSUME Inv, closing # {}, InternalIsEmpty
  PROVE  Pending = {}
<1>0. Count /\ IsInside /\ OneRoom /\ WorkIsSomewhere /\ RegTypes /\ RoomTypes
  BY DEF Inv, RoomsOK, Conserved
<1>1. \A r \in Rooms : inside[r] = {}
  BY <1>0 DEF OneRoom
<1>2. \A q \in Procs : RoomOf(q) \in Rooms /\ 0 \in Rooms
  BY RoomsAre DEF RoomOf
<1>3. \A q \in Procs : pc[q] \notin Claiming /\ ~ fetched[q]
  BY <1>0, <1>1, <1>2 DEF IsInside, Claiming
<1>4. \A k \in Kinds : SharedWords(k) = {}
  <2>. TAKE k \in Kinds
  <2>1. last[k] = 0
    BY DEF InternalIsEmpty
  <2>2. \A n : n \notin SharedWords(k)
    BY <1>3, <2>1, InShared DEF Claiming
  <2>. QED
    BY <2>2
<1>5. \A q \in Procs : ~ hasShared[q]
  <2>1. Cardinality({q \in Procs : hasShared[q]}) = 0
    BY <1>0 DEF Count, InternalIsEmpty
  <2>2. IsFiniteSet({q \in Procs : hasShared[q]})
    BY SharedStackAssumption, FS_Subset
  <2>3. {q \in Procs : hasShared[q]} = {}
    BY <2>1, <2>2, FS_EmptySet
  <2>. QED
    BY <2>3
<1>6. \A q \in Procs : Empty(q)
  <2>. TAKE q \in Procs
  <2>1. Counted(q)
    BY Unfold
  <2>. QED
    BY <1>3, <1>5, <2>1 DEF Counted
<1>7. \A q \in Procs, k \in Kinds : DOMAIN local[q][k] = {}
  BY <1>6 DEF Empty
<1>. HIDE DEF SharedWords, Pending
<1>. QED
  BY <1>0, <1>4, <1>7 DEF WorkIsSomewhere

LEMMA FinalizerKeeps ==
  ASSUME Inv, NEW p \in Procs, Finalizer(p), UNCHANGED gcVars
  PROVE  Inv'
<1>0. /\ RegTypes /\ Count /\ Counted(p) /\ Staged(p) /\ Registers(p)
      /\ kind[p] \in Kinds /\ 1 \in Kinds
  BY Unfold
<1>1. /\ pc[p] = "finalizer" /\ pc' = [pc EXCEPT ![p] = ret[p]] /\ RunExitCode(p)
      /\ verdict' = [verdict EXCEPT ![p] = IF ret[p] = "pushed" THEN InternalIsEmpty
                                                                ELSE verdict[p]]
      /\ UNCHANGED <<stackVars, regVars, ret>>
  BY DEF Finalizer, Goto
<1>2. ret[p] \in {"checked", "shared", "pushed", "popped"} /\ pc'[p] = ret[p]
  BY <1>0, <1>1 DEF RegTypes
<1>3. \A q \in Procs \ {p} : Same(q)
  BY <1>0, <1>1 DEF Same, RegTypes, gcVars, regVars, stackVars
<1>4. pc' \in [Procs -> Labels]
  BY <1>0, <1>1, <1>2 DEF RegTypes, Labels, Before, Leaving
<1>5. verdict' \in [Procs -> BOOLEAN]
  <2>1. InternalIsEmpty \in BOOLEAN
    BY DEF InternalIsEmpty
  <2>. QED
    BY <1>0, <1>1, <2>1 DEF RegTypes
<1>6. RegTypes'
  <2>1. UNCHANGED <<stackVars, regVars, ret>>
    BY <1>1
  <2>. QED
    BY <1>0, <1>4, <1>5, <2>1 DEF RegTypes, gcVars, regVars, stackVars
<1>7. RoomsOK'
  <2>1. ~ fetched'[p]
    BY <1>0, <1>1 DEF Counted, regVars, Popping
  <2>2. pc'[p] \notin Working \cup Leaving
    BY <1>2 DEF Working, Leaving, Popping, Pushing
  <2>. QED
    BY <1>1, <1>3, <2>1, <2>2, RoomsExit
<1>8. \/ verdict'[p] = verdict[p]
      \/ pc'[p] = "pushed" /\ ret[p] = "pushed" /\ (verdict'[p] => Pending = {})
  <2>1. CASE ret[p] = "pushed"
    <3>1. verdict'[p] <=> InternalIsEmpty
      BY <1>0, <1>1, <2>1 DEF RegTypes, InternalIsEmpty
    <3>2. closing # {}
      BY <1>1 DEF RunExitCode
    <3>. QED
      BY <1>2, <2>1, <3>1, <3>2, EmptyIsDone
  <2>2. CASE ret[p] # "pushed"
    BY <1>0, <1>1, <2>2 DEF RegTypes
  <2>. QED
    BY <2>1, <2>2
<1>9. pc[p] \in Leaving /\ pc'[p] \in Leaving \cup {ret[p]}
  BY <1>1, <1>2 DEF Leaving
<1>. QED
  BY <1>1, <1>3, <1>6, <1>7, <1>8, <1>9, LeavingKeeps

----------------------------------------------------------------------------
(* The steps of the collection that move no work.                          *)

LEMMA RoomsOutside ==
  ASSUME Inv, NEW p \in Procs, \A q \in Procs \ {p} : Same(q), UNCHANGED absVars,
         pc[p] \notin Working \cup Leaving, pc'[p] \notin Working \cup Leaving,
         ~ fetched'[p]
  PROVE  RoomsOK'
<1>1. ~ InRoom(p) /\ ~ Queued(p)
  BY InsideIs DEF Working, Popping, Pushing
<1>2. pc[p] \notin {"finalizer", "noFinalizer"}
  BY DEF Leaving
<1>. QED
  BY <1>1, <1>2, RoomsStay

LEMMA WeakBarrierKeeps ==
  ASSUME Inv, NEW p \in Procs, WeakBarrier(p)
  PROVE  Inv'
<1>0. /\ RegTypes /\ Count /\ Counted(p) /\ Staged(p) /\ Registers(p)
      /\ kind[p] \in Kinds /\ 1 \in Kinds
  BY Unfold
<1>1. /\ pc[p] = "stopCopy"
      /\ pc' = [pc EXCEPT ![p] = IF first = NoProc THEN "check" ELSE "reset"]
      /\ first' \in {p, first}
      /\ UNCHANGED <<absVars, stackVars, regVars, ret, verdict, stage, unscanned,
                     copied, scanned, worked>>
  BY DEF WeakBarrier, Goto
<1>3. \A q \in Procs \ {p} : Same(q)
  BY <1>0, <1>1 DEF Same, RegTypes, regVars, stackVars
<1>4. RegTypes'
  BY <1>0, <1>1 DEF RegTypes, regVars, stackVars, Labels, Before
<1>5. /\ pc'[p] \in {"check", "reset"} /\ kind'[p] = 1
      /\ ~ fetched'[p] /\ ~ verdict'[p] /\ ~ hasShared'[p]
      /\ stage[p] = 0 /\ stage'[p] = 0 /\ (Empty(p)' <=> Empty(p)) /\ Empty(p)
  BY <1>0, <1>1 DEF RegTypes, Counted, Staged, Registers, Empty, regVars, stackVars,
     Before, Leaving, Popping
<1>6. LocalOK(p)'
  BY <1>5 DEF LocalOK, Counted, Staged, Registers, LeavesEmpty, Before, Popping, Pushing, Leaving
<1>7. RoomsOK'
  BY <1>1, <1>3, <1>5, RoomsOutside DEF Working, Popping, Pushing, Leaving
<1>8. Count'
  BY <1>0, <1>1, SameCount DEF stackVars
<1>9. /\ UNCHANGED <<slots, last, local, unscanned, copied, scanned>>
      /\ pc[p] \notin Claiming \cup {"await"} /\ pc'[p] \notin Claiming \cup {"await"}
      /\ pc'[p] # "pushed"
  BY <1>1, <1>5 DEF stackVars, Claiming
<1>. QED
  BY <1>3, <1>4, <1>5, <1>6, <1>7, <1>8, <1>9, Looking

LEMMA CheckKeeps ==
  ASSUME Inv, NEW p \in Procs, Check(p)
  PROVE  Inv'
<1>0. /\ RegTypes /\ Count /\ Counted(p) /\ Staged(p) /\ Registers(p)
      /\ kind[p] \in Kinds /\ 1 \in Kinds
  BY Unfold
<1>1. /\ pc[p] = "check" /\ pc' = [pc EXCEPT ![p] = "isEmpty"]
      /\ Arrive(p, 1) /\ ret' = [ret EXCEPT ![p] = "checked"]
      /\ UNCHANGED <<stackVars, regVars, verdict, gcVars>>
  BY DEF Check, StartIsEmpty, Goto
<1>3. \A q \in Procs \ {p} : Same(q)
  BY <1>0, <1>1 DEF Same, RegTypes, gcVars, regVars, stackVars
<1>4. RegTypes'
  BY <1>0, <1>1 DEF RegTypes, gcVars, regVars, stackVars, Labels, Before
<1>5. /\ pc'[p] = "isEmpty" /\ kind'[p] = 1 /\ ret'[p] = "checked"
      /\ ~ fetched'[p] /\ ~ verdict'[p] /\ ~ hasShared'[p]
      /\ stage[p] \in {0, 2} /\ stage'[p] = stage[p] /\ (Empty(p)' <=> Empty(p)) /\ Empty(p)
  BY <1>0, <1>1 DEF RegTypes, Counted, Staged, Registers, Empty, gcVars, regVars, stackVars,
     Before, Leaving, Popping
<1>6. LocalOK(p)'
  BY <1>5 DEF LocalOK, Counted, Staged, Registers, LeavesEmpty, Before, Popping, Pushing, Leaving
<1>7. RoomsOK'
  <2>1. RoomOf(p)' = 1 /\ 1 \in Rooms
    BY <1>5, RoomsAre DEF RoomOf, Popping, Leaving
  <2>2. pc[p] \notin Working \cup Leaving
    BY <1>1 DEF Working, Popping, Pushing, Leaving
  <2>. QED
    BY <1>1, <1>3, <1>5, <2>1, <2>2, RoomsArrive
<1>8. Count'
  BY <1>0, <1>1, SameCount DEF stackVars
<1>9. /\ UNCHANGED <<slots, last, local, unscanned, copied, scanned>>
      /\ pc[p] \notin Claiming \cup {"await"} /\ pc'[p] \notin Claiming \cup {"await"}
      /\ ~ (pc'[p] = "checked" \/ pc'[p] \in Leaving) /\ pc'[p] # "pushed"
  BY <1>1, <1>5 DEF gcVars, stackVars, Claiming, Leaving
<1>. QED
  BY <1>3, <1>4, <1>5, <1>6, <1>7, <1>8, <1>9, Looking

LEMMA AssertEmptyKeeps ==
  ASSUME Inv, NEW p \in Procs, AssertEmpty(p)
  PROVE  Inv'
<1>0. /\ RegTypes /\ Count /\ Counted(p) /\ Staged(p) /\ Registers(p)
      /\ kind[p] \in Kinds /\ 1 \in Kinds
  BY Unfold
<1>1. /\ pc[p] = "checked"
      /\ pc' = [pc EXCEPT ![p] = IF ~ verdict[p] THEN "aborted"
                                 ELSE IF stage[p] = 0 THEN "reset" ELSE "await"]
      /\ verdict' = [verdict EXCEPT ![p] = FALSE]
      /\ stage' = IF verdict[p] /\ stage[p] > 0 THEN [stage EXCEPT ![p] = stage[p] + 1] ELSE stage
      /\ UNCHANGED <<absVars, stackVars, regVars, ret, first, unscanned, copied, scanned, worked>>
  BY DEF AssertEmpty, Goto
<1>2. stage[p] \in {0, 2} /\ (stage[p] = 2 => verdict[p])
  BY <1>0, <1>1 DEF Staged, Inv, Phases
<1>3. \A q \in Procs \ {p} : Same(q)
  BY <1>0, <1>1 DEF Same, RegTypes, regVars, stackVars
<1>4. RegTypes'
  <2>1. pc' \in [Procs -> Labels] /\ verdict' \in [Procs -> BOOLEAN]
    BY <1>0, <1>1 DEF RegTypes, Labels, Before
  <2>2. stage' \in [Procs -> 0 .. 3]
    BY <1>0, <1>1, <1>2 DEF RegTypes
  <2>. QED
    BY <1>0, <1>1, <2>1, <2>2 DEF RegTypes, regVars, stackVars
<1>5. /\ kind'[p] = 1 /\ ~ fetched'[p] /\ ~ verdict'[p] /\ ~ hasShared'[p]
      /\ (Empty(p)' <=> Empty(p)) /\ Empty(p)
      /\ \/ stage[p] = 0 /\ stage'[p] = 0 /\ pc'[p] \in {"aborted", "reset"}
         \/ stage[p] = 2 /\ stage'[p] = 3 /\ pc'[p] = "await"
  BY <1>0, <1>1, <1>2 DEF RegTypes, Counted, Registers, Empty, regVars, stackVars,
     Before, Leaving, Popping
<1>6. LocalOK(p)'
  BY <1>5 DEF LocalOK, Counted, Staged, Registers, LeavesEmpty, Before, Popping, Pushing, Leaving
<1>7. RoomsOK'
  BY <1>1, <1>3, <1>5, RoomsOutside DEF Working, Popping, Pushing, Leaving
<1>8. Count'
  BY <1>0, <1>1, SameCount DEF stackVars
<1>9. /\ UNCHANGED <<slots, last, local, unscanned, copied, scanned>>
      /\ pc[p] \notin Claiming /\ pc'[p] \notin Claiming /\ stage'[p] >= stage[p]
      /\ stage'[p] # 2
  BY <1>1, <1>5 DEF stackVars, Claiming
<1>10. /\ PastRoots(p)' => PastRoots(p)
       /\ PastSecond(p)' => PastSecond(p)
       /\ Knows(p)' => Knows(p)
  BY <1>1, <1>5 DEF PastRoots, PastSecond, Knows
<1>. QED
  BY <1>3, <1>4, <1>6, <1>7, <1>8, <1>9, <1>10, Quiet

LEMMA PrepareKeeps ==
  ASSUME Inv, NEW p \in Procs, Prepare(p)
  PROVE  Inv'
<1>0. /\ RegTypes /\ Count /\ Counted(p) /\ Staged(p) /\ Registers(p)
      /\ kind[p] \in Kinds /\ 1 \in Kinds
  BY Unfold
<1>1. /\ pc[p] = "reset" /\ pc' = [pc EXCEPT ![p] = "await"]
      /\ hasShared' = [hasShared EXCEPT ![p] = TRUE]
      /\ numLocalStack' = numLocalStack + 1
      /\ stage' = [stage EXCEPT ![p] = 1]
      /\ UNCHANGED <<absVars, slots, last, local, regVars, ret, verdict, first, unscanned, copied,
                     scanned, worked>>
  BY DEF Prepare, Reset, Goto
<1>3. \A q \in Procs \ {p} : Same(q)
  BY <1>0, <1>1 DEF Same, RegTypes, regVars
<1>4. RegTypes'
  BY <1>0, <1>1 DEF RegTypes, regVars, Labels
<1>5. /\ pc'[p] = "await" /\ kind'[p] = 1 /\ ~ fetched'[p] /\ ~ verdict'[p]
      /\ ~ hasShared[p] /\ hasShared'[p]
      /\ (Empty(p)' <=> Empty(p)) /\ Empty(p) /\ stage[p] = 0 /\ stage'[p] = 1
  BY <1>0, <1>1 DEF RegTypes, Counted, Staged, Registers, Empty, regVars,
     Before, Leaving, Popping
<1>6. LocalOK(p)'
  BY <1>5 DEF LocalOK, Counted, Staged, Registers, LeavesEmpty, Before, Popping, Pushing, Leaving
<1>7. RoomsOK'
  BY <1>1, <1>3, <1>5, RoomsOutside DEF Working, Popping, Pushing, Leaving
<1>8. Count'
  BY <1>1, <1>5, CountUp
<1>9. /\ UNCHANGED <<slots, last, local, unscanned, copied, scanned>>
      /\ pc[p] \notin Claiming /\ pc'[p] \notin Claiming /\ stage'[p] >= stage[p]
      /\ stage'[p] # 2
  BY <1>1, <1>5 DEF Claiming
<1>10. ~ PastRoots(p)' /\ ~ PastSecond(p)' /\ ~ Knows(p)'
  BY <1>5 DEF PastRoots, PastSecond, Knows
<1>. QED
  BY <1>3, <1>4, <1>6, <1>7, <1>8, <1>9, <1>10, Quiet

LEMMA StrongBarrierKeeps ==
  ASSUME Inv, NEW p \in Procs, StrongBarrier(p)
  PROVE  Inv'
<1>0. /\ RegTypes /\ Count /\ Counted(p) /\ Staged(p) /\ Registers(p)
      /\ kind[p] \in Kinds /\ 1 \in Kinds
  BY Unfold
<1>1. /\ pc[p] = "await" /\ stage[p] \in 1 .. 3
      /\ \A q \in Procs : stage[q] >= stage[p]
      /\ UNCHANGED <<absVars, stackVars, regVars, ret, verdict, gcVars>>
  BY <1>0 DEF StrongBarrier, Staged
<1>2. PICK to \in {"roots", "check", "adjust", "end"} :
        /\ pc' = [pc EXCEPT ![p] = to]
        /\ stage[p] = IF to = "roots" THEN 1 ELSE IF to = "end" THEN 3 ELSE 2
  <2>. DEFINE goto == CASE stage[p] = 1 -> "roots"
                        [] stage[p] = 2 -> IF p = first THEN "check" ELSE "adjust"
                        [] stage[p] = 3 -> "end"
  <2>1. pc' = [pc EXCEPT ![p] = goto]
    BY DEF StrongBarrier
  <2>2. /\ goto \in {"roots", "check", "adjust", "end"}
        /\ stage[p] = IF goto = "roots" THEN 1 ELSE IF goto = "end" THEN 3 ELSE 2
    BY <1>1
  <2>. HIDE DEF goto
  <2>. QED
    BY <2>1, <2>2
<1>3. \A q \in Procs \ {p} : Same(q)
  BY <1>0, <1>1, <1>2 DEF Same, RegTypes, gcVars, regVars, stackVars
<1>4. RegTypes'
  BY <1>0, <1>1, <1>2 DEF RegTypes, gcVars, regVars, stackVars, Labels, Before
<1>5. /\ pc'[p] = to /\ kind'[p] = 1 /\ ~ fetched'[p] /\ ~ verdict'[p]
      /\ (hasShared'[p] <=> stage[p] = 1)
      /\ (Empty(p)' <=> Empty(p)) /\ Empty(p) /\ stage'[p] = stage[p]
  BY <1>0, <1>1, <1>2 DEF RegTypes, Counted, Registers, Empty, gcVars, regVars, stackVars,
     Before, Leaving, Popping
<1>6. LocalOK(p)'
  BY <1>2, <1>5 DEF LocalOK, Counted, Staged, Registers, LeavesEmpty, Before, Popping, Pushing,
     Leaving
<1>7. RoomsOK'
  BY <1>1, <1>2, <1>3, <1>5, RoomsOutside DEF Working, Popping, Pushing, Leaving
<1>8. Count'
  BY <1>0, <1>1, SameCount DEF stackVars
<1>9. /\ UNCHANGED <<slots, last, local, unscanned, copied, scanned>>
      /\ pc[p] \notin Claiming /\ pc'[p] \notin Claiming /\ stage'[p] >= stage[p]
      /\ ~ (pc'[p] = "checked" \/ pc'[p] \in Leaving)
  BY <1>1, <1>2, <1>5 DEF stackVars, gcVars, Claiming, Leaving
<1>10. /\ PastRoots(p)' => PastRoots(p)
       /\ PastSecond(p)' => PastSecond(p) \/ \A q \in Procs : stage[q] >= 2
       /\ Knows(p)' => Knows(p)
  <2>1. PastRoots(p)' => PastRoots(p)
    BY <1>1, <1>2, <1>5 DEF PastRoots
  <2>2. stage[p] = 2 => \A q \in Procs : stage[q] >= 2
    BY <1>1
  <2>3. PastSecond(p)' => stage[p] = 3 \/ stage[p] = 2
    BY <1>5 DEF PastSecond
  <2>4. PastSecond(p)' => PastSecond(p) \/ \A q \in Procs : stage[q] >= 2
    BY <2>2, <2>3 DEF PastSecond
  <2>5. Knows(p)' => Knows(p)
    BY <1>2, <1>5 DEF Knows
  <2>. QED
    BY <2>1, <2>4, <2>5
<1>. QED
  BY <1>3, <1>4, <1>6, <1>7, <1>8, <1>9, <1>10, Quiet

LEMMA PushRootsKeeps ==
  ASSUME Inv, NEW p \in Procs, PushRoots(p)
  PROVE  Inv'
<1>0. /\ RegTypes /\ Count /\ Counted(p) /\ Staged(p) /\ Registers(p)
      /\ kind[p] \in Kinds /\ 1 \in Kinds
  BY Unfold
<1>1. /\ pc[p] = "roots" /\ pc' = [pc EXCEPT ![p] = "reserve"]
      /\ Arrive(p, 1) /\ ret' = [ret EXCEPT ![p] = "shared"]
      /\ unscanned = {}
      /\ UNCHANGED <<stackVars, regVars, verdict, gcVars>>
  BY DEF PushRoots, StartPush, PushRoom, Goto
<1>3. \A q \in Procs \ {p} : Same(q)
  BY <1>0, <1>1 DEF Same, RegTypes, gcVars, regVars, stackVars
<1>4. RegTypes'
  BY <1>0, <1>1 DEF RegTypes, gcVars, regVars, stackVars, Labels, Pushing
<1>5. /\ pc'[p] = "reserve" /\ kind'[p] = 1 /\ ret'[p] = "shared"
      /\ ~ fetched'[p] /\ ~ verdict'[p] /\ hasShared'[p] = hasShared[p]
      /\ stage[p] = 1 /\ stage'[p] = 1 /\ (Empty(p)' <=> Empty(p))
      /\ (~ Empty(p) => hasShared[p])
  BY <1>0, <1>1 DEF RegTypes, Counted, Staged, Registers, Empty, gcVars, regVars, stackVars,
     Leaving, Popping
<1>6. \A k \in Kinds : ~ k < 1
  BY KindsAre
<1>7. LocalOK(p)'
  BY <1>5, <1>6 DEF LocalOK, Counted, Staged, Registers, LeavesEmpty, Before, Popping, Pushing,
     Leaving
<1>8. RoomsOK'
  <2>1. RoomOf(p)' = 1 /\ 1 \in Rooms
    BY <1>5, RoomsAre DEF RoomOf, Popping, Leaving
  <2>2. pc[p] \notin Working \cup Leaving
    BY <1>1 DEF Working, Popping, Pushing, Leaving
  <2>. QED
    BY <1>1, <1>3, <1>5, <2>1, <2>2, RoomsArrive
<1>9. Count'
  BY <1>0, <1>1, SameCount DEF stackVars
<1>10. /\ UNCHANGED <<slots, last, local, unscanned, copied, scanned>>
       /\ pc[p] \notin Claiming /\ pc'[p] \notin Claiming
       /\ pc[p] \notin {"await", "roots"} \/ unscanned = {}
       /\ ~ (verdict'[p] /\ pc'[p] = "pushed")
  BY <1>1, <1>5 DEF gcVars, stackVars, Claiming
<1>. QED
  BY <1>3, <1>4, <1>5, <1>7, <1>8, <1>9, <1>10, Middle

LEMMA PushKeeps ==
  ASSUME Inv, NEW p \in Procs, Push(p)
  PROVE  Inv'
<1>0. /\ RegTypes /\ Count /\ Counted(p) /\ Staged(p) /\ Registers(p)
      /\ kind[p] \in Kinds /\ 1 \in Kinds
  BY Unfold
<1>1. /\ pc[p] = "popped" /\ pc' = [pc EXCEPT ![p] = "reserve"]
      /\ Arrive(p, 1) /\ ret' = [ret EXCEPT ![p] = "pushed"]
      /\ UNCHANGED <<stackVars, regVars, verdict, gcVars>>
  BY DEF Push, StartPush, PushRoom, Goto
<1>3. \A q \in Procs \ {p} : Same(q)
  BY <1>0, <1>1 DEF Same, RegTypes, gcVars, regVars, stackVars
<1>4. RegTypes'
  BY <1>0, <1>1 DEF RegTypes, gcVars, regVars, stackVars, Labels, Pushing
<1>5. /\ pc'[p] = "reserve" /\ kind'[p] = 1 /\ ret'[p] = "pushed"
      /\ ~ fetched'[p] /\ ~ verdict'[p] /\ hasShared'[p] = hasShared[p]
      /\ stage[p] = 1 /\ stage'[p] = 1 /\ (Empty(p)' <=> Empty(p))
      /\ (~ Empty(p) => hasShared[p])
  BY <1>0, <1>1 DEF RegTypes, Counted, Staged, Registers, Empty, gcVars, regVars, stackVars,
     Leaving, Popping
<1>6. \A k \in Kinds : ~ k < 1
  BY KindsAre
<1>7. LocalOK(p)'
  BY <1>5, <1>6 DEF LocalOK, Counted, Staged, Registers, LeavesEmpty, Before, Popping, Pushing,
     Leaving
<1>8. RoomsOK'
  <2>1. RoomOf(p)' = 1 /\ 1 \in Rooms
    BY <1>5, RoomsAre DEF RoomOf, Popping, Leaving
  <2>2. pc[p] \notin Working \cup Leaving
    BY <1>1 DEF Working, Popping, Pushing, Leaving
  <2>. QED
    BY <1>1, <1>3, <1>5, <2>1, <2>2, RoomsArrive
<1>9. Count'
  BY <1>0, <1>1, SameCount DEF stackVars
<1>10. /\ UNCHANGED <<slots, last, local, unscanned, copied, scanned>>
       /\ pc[p] \notin Claiming /\ pc'[p] \notin Claiming
       /\ pc[p] \notin {"await", "roots"} \/ unscanned = {}
       /\ ~ (verdict'[p] /\ pc'[p] = "pushed")
  BY <1>1, <1>5 DEF gcVars, stackVars, Claiming
<1>. QED
  BY <1>3, <1>4, <1>5, <1>7, <1>8, <1>9, <1>10, Middle

LEMMA PopKeeps ==
  ASSUME Inv, NEW p \in Procs, Pop(p)
  PROVE  Inv'
<1>0. /\ RegTypes /\ Count /\ Counted(p) /\ Staged(p) /\ Registers(p)
      /\ kind[p] \in Kinds /\ 1 \in Kinds
  BY Unfold
<1>. DEFINE r == Smaller(FetchSize[ObjKind], 1 + TruncDiv(last[ObjKind], NumProc))
<1>1. /\ pc[p] \in {"shared", "pushed"} /\ (pc[p] = "pushed" => ~ verdict[p])
      /\ pc' = [pc EXCEPT ![p] = "popEnter"]
      /\ ret' = [ret EXCEPT ![p] = "popped"]
      /\ objRequest' = [objRequest EXCEPT ![p] = r]
      /\ worked' = [worked EXCEPT ![p] = FALSE]
      /\ UNCHANGED <<stackVars, absVars, kind, request, lo, hi, fetched, verdict, stage, first,
                     unscanned, copied, scanned>>
  BY DEF Pop, StartPop, Goto
<1>2. r \in Int
  <2>1. last[ObjKind] \in Int
    BY KindsAre DEF Inv, SharedOK, Cursors
  <2>2. FetchSize[ObjKind] \in Int
    BY SharedStackAssumption DEF Kinds
  <2>3. TruncDiv(last[ObjKind], NumProc) \in Int
    BY <2>1, NumProcIs, TruncDivType
  <2>. QED
    BY <2>2, <2>3 DEF Smaller
<1>. HIDE DEF r
<1>3. \A q \in Procs \ {p} : Same(q)
  BY <1>0, <1>1 DEF Same, RegTypes, stackVars
<1>4. RegTypes'
  BY <1>0, <1>1, <1>2 DEF RegTypes, stackVars, Labels
<1>5. /\ pc'[p] = "popEnter" /\ kind'[p] = 1 /\ ret'[p] = "popped"
      /\ ~ fetched'[p] /\ ~ verdict'[p] /\ ~ hasShared'[p]
      /\ stage[p] = 1 /\ stage'[p] = 1 /\ (Empty(p)' <=> Empty(p)) /\ Empty(p)
  BY <1>0, <1>1 DEF RegTypes, Counted, Staged, Registers, Empty, stackVars, Leaving, Popping
<1>6. LocalOK(p)'
  BY <1>5 DEF LocalOK, Counted, Staged, Registers, LeavesEmpty, Before, Popping, Pushing, Leaving
<1>7. RoomsOK'
  BY <1>1, <1>3, <1>5, RoomsOutside DEF Working, Popping, Pushing, Leaving
<1>8. Count'
  BY <1>0, <1>1, SameCount DEF stackVars
<1>9. /\ UNCHANGED <<slots, last, local, unscanned, copied, scanned>>
      /\ pc[p] \notin Claiming \cup {"await", "roots"} /\ pc'[p] \notin Claiming
      /\ ~ (verdict'[p] /\ pc'[p] = "pushed")
  BY <1>1, <1>5 DEF stackVars, Claiming
<1>. QED
  BY <1>3, <1>4, <1>5, <1>6, <1>7, <1>8, <1>9, Middle

LEMMA StopWorkKeeps ==
  ASSUME Inv, NEW p \in Procs, StopWork(p)
  PROVE  Inv'
<1>0. /\ RegTypes /\ Count /\ Counted(p) /\ Staged(p) /\ Registers(p)
      /\ kind[p] \in Kinds /\ 1 \in Kinds
  BY Unfold
<1>1. /\ pc[p] = "pushed" /\ pc' = [pc EXCEPT ![p] = "await"]
      /\ verdict' = [verdict EXCEPT ![p] = FALSE] /\ stage' = [stage EXCEPT ![p] = 2]
      /\ UNCHANGED <<absVars, stackVars, regVars, ret, first, unscanned, copied, scanned, worked>>
  BY DEF StopWork, Goto
<1>2. verdict[p]
  BY DEF StopWork
<1>3. \A q \in Procs \ {p} : Same(q)
  BY <1>0, <1>1 DEF Same, RegTypes, regVars, stackVars
<1>4. RegTypes'
  <2>1. pc' \in [Procs -> Labels]
    BY <1>0, <1>1 DEF RegTypes, Labels
  <2>4. stage' \in [Procs -> 0 .. 3]
    <3>1. stage \in [Procs -> 0 .. 3] /\ 2 \in 0 .. 3 /\ stage' = [stage EXCEPT ![p] = 2]
      BY <1>0, <1>1 DEF RegTypes
    <3>. QED
      BY <3>1
  <2>2. verdict' \in [Procs -> BOOLEAN]
    BY <1>0, <1>1 DEF RegTypes
  <2>3. UNCHANGED <<stackVars, regVars, ret, first, unscanned, worked>>
    BY <1>1
  <2>. QED
    BY <1>0, <2>1, <2>2, <2>3, <2>4 DEF RegTypes, regVars, stackVars
<1>5. /\ pc'[p] = "await" /\ kind'[p] = 1 /\ ~ fetched'[p] /\ ~ verdict'[p] /\ ~ hasShared'[p]
      /\ (Empty(p)' <=> Empty(p)) /\ Empty(p) /\ stage[p] = 1 /\ stage'[p] = 2
  BY <1>0, <1>1 DEF RegTypes, Counted, Staged, Registers, Empty, regVars, stackVars,
     Leaving, Popping
<1>6. LocalOK(p)'
  BY <1>5 DEF LocalOK, Counted, Staged, Registers, LeavesEmpty, Before, Popping, Pushing, Leaving
<1>7. RoomsOK'
  BY <1>1, <1>3, <1>5, RoomsOutside DEF Working, Popping, Pushing, Leaving
<1>8. Count'
  BY <1>0, <1>1, SameCount DEF stackVars
<1>9. /\ UNCHANGED <<slots, last, local, unscanned, copied, scanned>>
      /\ pc[p] \notin Claiming /\ pc'[p] \notin Claiming /\ stage'[p] >= stage[p]
      /\ ~ (pc'[p] = "checked" \/ pc'[p] \in Leaving)
  BY <1>1, <1>5 DEF stackVars, Claiming, Leaving
<1>10. /\ PastRoots(p)' => PastRoots(p)
       /\ PastSecond(p)' => PastSecond(p)
       /\ Knows(p)' => Knows(p)
  BY <1>1, <1>2, <1>5 DEF PastRoots, PastSecond, Knows
<1>. QED
  BY <1>3, <1>4, <1>6, <1>7, <1>8, <1>9, <1>10, Quiet

LEMMA AdjustKeeps ==
  ASSUME Inv, NEW p \in Procs, Adjust(p)
  PROVE  Inv'
<1>0. /\ RegTypes /\ Count /\ Counted(p) /\ Staged(p) /\ Registers(p)
      /\ kind[p] \in Kinds /\ 1 \in Kinds
  BY Unfold
<1>1. /\ pc[p] = "adjust" /\ pc' = [pc EXCEPT ![p] = "await"]
      /\ verdict' = verdict /\ stage' = [stage EXCEPT ![p] = 3]
      /\ UNCHANGED <<absVars, stackVars, regVars, ret, first, unscanned, copied, scanned, worked>>
  BY DEF Adjust, Goto
<1>3. \A q \in Procs \ {p} : Same(q)
  BY <1>0, <1>1 DEF Same, RegTypes, regVars, stackVars
<1>4. RegTypes'
  <2>1. pc' \in [Procs -> Labels]
    BY <1>0, <1>1 DEF RegTypes, Labels
  <2>2. stage' \in [Procs -> 0 .. 3]
    BY <1>0, <1>1 DEF RegTypes
  <2>3. RegTypes
    BY <1>0
  <2>4. UNCHANGED <<local, hasShared, ret, kind, request, objRequest, lo, hi, fetched, verdict,
                    first, unscanned, worked>>
    BY <1>1 DEF regVars, stackVars
  <2>. QED
    BY <2>1, <2>2, <2>3, <2>4 DEF RegTypes
<1>5. /\ pc'[p] = "await" /\ kind'[p] = 1 /\ ~ fetched'[p] /\ ~ verdict'[p] /\ ~ hasShared'[p]
      /\ (Empty(p)' <=> Empty(p)) /\ Empty(p) /\ stage[p] = 2 /\ stage'[p] = 3
  BY <1>0, <1>1 DEF RegTypes, Counted, Staged, Registers, Empty, regVars, stackVars,
     Leaving, Popping
<1>6. LocalOK(p)'
  BY <1>5 DEF LocalOK, Counted, Staged, Registers, LeavesEmpty, Before, Popping, Pushing, Leaving
<1>7. RoomsOK'
  BY <1>1, <1>3, <1>5, RoomsOutside DEF Working, Popping, Pushing, Leaving
<1>8. Count'
  BY <1>0, <1>1, SameCount DEF stackVars
<1>9. /\ UNCHANGED <<slots, last, local, unscanned, copied, scanned>>
      /\ pc[p] \notin Claiming /\ pc'[p] \notin Claiming /\ stage'[p] >= stage[p]
      /\ ~ (pc'[p] = "checked" \/ pc'[p] \in Leaving)
  BY <1>1, <1>5 DEF stackVars, Claiming, Leaving
<1>10. /\ PastRoots(p)' => PastRoots(p)
       /\ PastSecond(p)' => PastSecond(p)
       /\ Knows(p)' => Knows(p)
  BY <1>1, <1>5 DEF PastRoots, PastSecond, Knows
<1>. QED
  BY <1>3, <1>4, <1>6, <1>7, <1>8, <1>9, <1>10, Quiet

(* A batch is admitted: no processor does anything.                        *)
LEMMA AdmitNextKeeps ==
  ASSUME Inv, NEW r \in Rooms, AdmitNext(r)
  PROVE  Inv'
<1>1. UNCHANGED <<ssVars, gcVars>> /\ \E n \in 1 .. Len(queue[r]) : Admit(r, n)
  BY DEF AdmitNext, AdmitSome
<1>2. RoomsOK'
  BY <1>1, RoomsAdmit DEF ssVars, regVars
<1>3. \A q \in Procs : LocalOK(q)'
  BY <1>1, LocalSame DEF Inv, Same, ssVars, regVars, stackVars, gcVars
<1>4. RegTypes' /\ Count'
  BY <1>1 DEF Inv, RegTypes, Count, ssVars, regVars, stackVars, gcVars
<1>5. SharedOK' /\ Graph' /\ Conserved' /\ Phases' /\ Done'
  <2>1. PICK p \in Procs : TRUE
    BY SharedStackAssumption
  <2>2. \A k \in Kinds : SharedWords(k)' = SharedWords(k)
    BY <1>1 DEF SharedWords, Range_, ssVars, regVars, stackVars
  <2>3. Graph' /\ Conserved'
    BY <1>1, <2>2, SameGraph, SameConserved DEF Inv, ssVars, stackVars, gcVars
  <2>4. SharedOK'
    BY <1>1 DEF Inv, SharedOK, Claims, ClaimsApart, Cursors, Range_, ssVars, regVars, stackVars
  <2>5. Pending' = Pending
    BY <1>1, SamePending DEF gcVars
  <2>6. Phases' /\ Done'
    BY <1>1, <2>5 DEF Inv, Phases, Done, PastRoots, PastSecond, ssVars, gcVars
  <2>. QED
    BY <2>3, <2>4, <2>6
<1>. QED
  BY <1>2, <1>3, <1>4, <1>5 DEF Inv

----------------------------------------------------------------------------
(* Words claimed by pops.                                                  *)

(* A step of p between the barriers that moves work.                       *)
LEMMA Moves ==
  ASSUME Inv, NEW p \in Procs, \A q \in Procs \ {p} : Same(q), RegTypes', LocalOK(p)',
         RoomsOK', Count', SharedOK', Graph', Conserved',
         unscanned' = unscanned, stage[p] = 1, stage'[p] = 1,
         pc[p] \notin {"await", "roots"}, ~ (verdict'[p] /\ pc'[p] = "pushed"),
         Pending = {} => Pending' = {}
  PROVE  Inv'
<1>1. Phases'
  <2>1. PastRoots(p)' => PastRoots(p)
    BY DEF PastRoots
  <2>2. ~ PastSecond(p)'
    BY DEF PastSecond
  <2>3. stage'[p] >= stage[p] /\ stage'[p] # 2 /\ unscanned' \subseteq unscanned
    OBVIOUS
  <2>. QED
    BY <2>1, <2>2, <2>3, PhasesKeep
<1>2. Done'
  <2>1. ~ Knows(p)'
    BY DEF Knows
  <2>. QED
    BY <2>1, DoneKeeps
<1>. QED
  BY <1>1, <1>2, Finish

(* A processor in the pop room means that no push is under way, and one in *)
(* the push room that no pop is.                                           *)
LEMMA OneSide ==
  ASSUME Inv, NEW p \in Procs
  PROVE  /\ p \in inside[0] => \A q \in Procs : pc[q] # "fill"
         /\ p \in inside[1] => \A q \in Procs : pc[q] \notin {"overreach", "copy"}
<1>1. IsInside /\ OneRoom
  BY DEF Inv, RoomsOK
<1>2. 0 \in Rooms /\ 1 \in Rooms
  BY RoomsAre
<1>3. \A q \in Procs : pc[q] = "fill" => q \in inside[1]
  BY <1>1 DEF IsInside, RoomOf, Popping, Leaving
<1>4. \A q \in Procs : pc[q] \in {"overreach", "copy"} => q \in inside[0]
  BY <1>1 DEF IsInside, RoomOf, Popping, Leaving
<1>5. inside[0] # {} /\ inside[1] # {} => FALSE
  BY <1>1, <1>2 DEF OneRoom
<1>. QED
  BY <1>3, <1>4, <1>5

LEMMA FetchKeeps ==
  ASSUME Inv, NEW p \in Procs, Fetch(p), UNCHANGED gcVars,
         last'[kind[p]] <= last[kind[p]]
  PROVE  Inv'
<1>0. /\ RegTypes /\ Count /\ Counted(p) /\ Staged(p) /\ Registers(p)
      /\ kind[p] \in Kinds /\ 1 \in Kinds
  BY Unfold
<1>. DEFINE new == last[kind[p]] - request[p]
            over == last[kind[p]] <= 0 \/ new < 0
<1>1. /\ pc[p] = "fetch" /\ pc' = [pc EXCEPT ![p] = IF over THEN "overreach" ELSE "copy"]
      /\ InRoom(p)
      /\ last' = [last EXCEPT ![kind[p]] = new]
      /\ hi' = [hi EXCEPT ![p] = IF last[kind[p]] <= 0 THEN 0 ELSE last[kind[p]]]
      /\ lo' = [lo EXCEPT ![p] = IF over THEN 0 ELSE new]
      /\ UNCHANGED <<absVars, slots, numLocalStack, local, hasShared, kind,
                     request, objRequest, fetched, ret, verdict, gcVars>>
  BY DEF Fetch, Goto
<1>2. SharedOK /\ Graph /\ Conserved
  BY DEF Inv
<1>3. PICK k \in Kinds : k = kind[p]
  BY <1>0
<1>4. PICK L \in Int : L = last[k] /\ L <= Capacity
  BY <1>2 DEF SharedOK, Cursors
<1>5. PICK r \in Int : r = request[p]
  BY <1>0 DEF RegTypes
<1>6. last \in [Kinds -> Int] /\ new = L - r /\ Capacity \in Nat
  BY <1>2, <1>3, <1>4, <1>5, SharedStackAssumption DEF SharedOK, Cursors
<1>7. r > 0
  <2>1. last'[k] = L - r
    BY <1>1, <1>3, <1>6
  <2>2. r # 0
    BY <1>0, <1>1, <1>5 DEF Registers
  <2>3. L - r <= L
    BY <1>3, <1>4, <2>1
  <2>. QED
    BY <1>4, <1>5, <2>2, <2>3
<1>8. over <=> L <= 0 \/ L - r < 0
  BY <1>3, <1>4, <1>6
<1>9. /\ last' = [last EXCEPT ![k] = L - r]
      /\ lo' = [lo EXCEPT ![p] = IF over THEN 0 ELSE L - r]
      /\ hi' = [hi EXCEPT ![p] = IF L <= 0 THEN 0 ELSE L]
  BY <1>1, <1>3, <1>4, <1>6
<1>. HIDE DEF new, over
<1>10. \A q \in Procs \ {p} : Same(q)
  BY <1>0, <1>1, <1>9 DEF Same, RegTypes, gcVars
<1>11. /\ lo'[p] \in Nat /\ hi'[p] \in Nat /\ lo'[p] <= hi'[p] /\ hi'[p] <= Capacity
       /\ L - r <= lo'[p] /\ (over => lo'[p] = 0)
       /\ \A n : n \in 0 .. L - 1 <=> n \in 0 .. (L - r) - 1 \/ n \in lo'[p] .. hi'[p] - 1
       /\ \A n : n \in lo'[p] .. hi'[p] - 1 => n \in Int /\ n < L
       /\ ~ over => L - r >= 0
  <2>1. lo'[p] = (IF over THEN 0 ELSE L - r) /\ hi'[p] = (IF L <= 0 THEN 0 ELSE L)
    BY <1>0, <1>9 DEF RegTypes
  <2>2. CASE over
    BY <1>4, <1>5, <1>6, <1>7, <1>8, <2>1, <2>2
  <2>3. CASE ~ over
    BY <1>4, <1>5, <1>6, <1>7, <1>8, <2>1, <2>3
  <2>. QED
    BY <2>2, <2>3
<1>12. RegTypes'
  <2>1. lo' \in [Procs -> Nat] /\ hi' \in [Procs -> Nat]
    BY <1>0, <1>9, <1>11 DEF RegTypes
  <2>2. pc' \in [Procs -> Labels]
    BY <1>0, <1>1 DEF RegTypes, Labels, Popping
  <2>. QED
    BY <1>0, <1>1, <2>1, <2>2 DEF RegTypes, gcVars
<1>13. /\ pc'[p] = IF over THEN "overreach" ELSE "copy"
       /\ kind'[p] = k /\ request'[p] = r /\ ret'[p] = "popped" /\ ret[p] = "popped"
       /\ fetched'[p] = fetched[p] /\ ~ verdict'[p] /\ ~ hasShared'[p]
       /\ stage[p] = 1 /\ stage'[p] = 1 /\ (Empty(p)' <=> Empty(p)) /\ (~ Empty(p) => fetched[p])
  BY <1>0, <1>1, <1>3, <1>5 DEF RegTypes, Counted, Staged, Registers, Empty, gcVars,
     Popping, Leaving
<1>14. LocalOK(p)'
  BY <1>7, <1>13 DEF LocalOK, Counted, Staged, Registers, LeavesEmpty, Before, Popping, Pushing,
     Leaving
<1>15. RoomsOK'
  <2>1. pc'[p] \in Working /\ RoomOf(p)' = RoomOf(p) /\ pc'[p] \in Popping
    BY <1>1, <1>13 DEF Working, RoomOf, Popping
  <2>2. ~ Queued(p)
    BY <1>1, InsideIs
  <2>. QED
    BY <1>1, <1>10, <2>1, <2>2, RoomsStay
<1>16. \A q \in Procs : pc[q] # "fill"
  <2>1. p \in inside[0]
    BY <1>1, InsideIs DEF RoomOf, Popping
  <2>. QED
    BY <2>1, OneSide
<1>17. /\ pc'[p] \in {"overreach", "copy"} /\ pc'[p] # "fill"
       /\ \A q \in Procs : pc'[q] # "fill"
  BY <1>10, <1>13, <1>16 DEF Same
<1>18. /\ last'[k] = L - r
       /\ \A j \in Kinds : j # k => last'[j] = last[j]
       /\ \A j \in Kinds : last'[j] <= last[j] /\ last'[j] \in Int
  BY <1>4, <1>5, <1>6, <1>7, <1>9
<1>19. Claims'
  <2>1. ASSUME NEW q \in Procs
        PROVE  /\ pc'[q] \in {"overreach", "copy"} =>
                    last'[kind'[q]] <= lo'[q] /\ lo'[q] <= hi'[q] /\ hi'[q] <= Capacity
               /\ pc'[q] = "overreach" => lo'[q] = 0
    <3>1. CASE q = p
      BY <1>11, <1>13, <1>18, <3>1
    <3>2. CASE q # p
      <4>1. /\ pc'[q] = pc[q] /\ kind'[q] = kind[q] /\ lo'[q] = lo[q] /\ hi'[q] = hi[q]
            /\ kind[q] \in Kinds /\ lo[q] \in Int
        BY <1>0, <1>10, <3>2 DEF Same, RegTypes
      <4>2. /\ pc[q] \in {"overreach", "copy"} =>
                 last[kind[q]] <= lo[q] /\ lo[q] <= hi[q] /\ hi[q] <= Capacity
            /\ pc[q] = "overreach" => lo[q] = 0
        BY <1>2 DEF SharedOK, Claims
      <4>3. last'[kind[q]] <= last[kind[q]] /\ last'[kind[q]] \in Int /\ last[kind[q]] \in Int
        BY <1>6, <1>18, <4>1
      <4>. QED
        BY <4>1, <4>2, <4>3
    <3>. QED
      BY <3>1, <3>2
  <2>. QED
    BY <1>17, <2>1 DEF Claims
<1>20. ClaimsApart'
  <2>1. ASSUME NEW q \in Procs, q # p, pc[q] \in Claiming, kind[q] = k,
               NEW n \in lo'[p] .. hi'[p] - 1
        PROVE  n \notin lo[q] .. hi[q] - 1
    <3>1. L <= lo[q] /\ lo[q] \in Nat /\ hi[q] \in Nat
      BY <1>0, <1>2, <1>4, <1>16, <2>1 DEF SharedOK, Claims, Claiming, RegTypes
    <3>2. n \in Int /\ n < L
      BY <1>11
    <3>. QED
      BY <1>4, <3>1, <3>2
  <2>2. \A q \in Procs \ {p} : pc'[q] = pc[q] /\ kind'[q] = kind[q] /\ lo'[q] = lo[q] /\ hi'[q] = hi[q]
    BY <1>10 DEF Same
  <2>. QED
    BY <1>2, <1>13, <2>1, <2>2 DEF SharedOK, ClaimsApart, Range_
<1>21. Cursors'
  <2>1. \A j \in Kinds : last'[j] < 0 =>
          \E q \in Procs : pc'[q] = "overreach" /\ kind'[q] = j
    <3>. SUFFICES ASSUME NEW j \in Kinds, last'[j] < 0
                  PROVE  \E q \in Procs : pc'[q] = "overreach" /\ kind'[q] = j
      OBVIOUS
    <3>1. CASE j = k
      BY <1>4, <1>5, <1>11, <1>13, <1>18, <3>1
    <3>2. CASE j # k
      <4>1. PICK q \in Procs : pc[q] = "overreach" /\ kind[q] = j
        BY <1>2, <1>18, <3>2 DEF SharedOK, Cursors
      <4>. QED
        BY <1>1, <1>10, <4>1 DEF Same
    <3>. QED
      BY <3>1, <3>2
  <2>2. last' \in [Kinds -> Int]
    BY <1>4, <1>5, <1>6, <1>9
  <2>3. \A j \in Kinds : last'[j] <= Capacity
    BY <1>2, <1>6, <1>18 DEF SharedOK, Cursors
  <2>. QED
    BY <1>1, <1>2, <2>1, <2>2, <2>3 DEF SharedOK, Cursors
<1>22. \A j \in Kinds : SharedWords(j)' = SharedWords(j)
  <2>. TAKE j \in Kinds
  <2>1. ASSUME NEW n
        PROVE  n \in SharedWords(j)' <=> n \in SharedWords(j)
    <3>1. n \in SharedWords(j) <=>
            \/ n \in 0 .. last[j] - 1
            \/ \E q \in Procs \ {p} : pc[q] \in {"overreach", "copy"} /\ kind[q] = j
                                        /\ n \in lo[q] .. hi[q] - 1
      BY <1>1, <1>16, InShared DEF Range_
    <3>2. n \in SharedWords(j)' <=>
            \/ n \in 0 .. last'[j] - 1
            \/ j = k /\ n \in lo'[p] .. hi'[p] - 1
            \/ \E q \in Procs \ {p} : pc[q] \in {"overreach", "copy"} /\ kind[q] = j
                                        /\ n \in lo[q] .. hi[q] - 1
      BY <1>10, <1>13, <1>17, InSharedNext DEF Same
    <3>3. CASE j = k
      BY <1>4, <1>11, <1>18, <3>1, <3>2, <3>3
    <3>4. CASE j # k
      BY <1>18, <3>1, <3>2, <3>4
    <3>. QED
      BY <3>3, <3>4
  <2>. QED
    BY <2>1
<1>23. Graph' /\ Conserved' /\ Pending' = Pending
  BY <1>1, <1>2, <1>22, SameGraph, SameConserved, SamePending DEF gcVars
<1>24. Count'
  BY <1>0, <1>1, SameCount
<1>25. unscanned' = unscanned /\ pc[p] \notin {"await", "roots"} /\ ~ (verdict'[p] /\ pc'[p] = "pushed")
  BY <1>1, <1>13 DEF gcVars
<1>. QED
  BY <1>10, <1>12, <1>13, <1>14, <1>15, <1>19, <1>20, <1>21, <1>23, <1>24, <1>25, Moves DEF SharedOK

LEMMA ResetLastKeeps ==
  ASSUME Inv, NEW p \in Procs, ResetLast(p), UNCHANGED gcVars
  PROVE  Inv'
<1>0. /\ RegTypes /\ Count /\ Counted(p) /\ Staged(p) /\ Registers(p)
      /\ kind[p] \in Kinds /\ 1 \in Kinds
  BY Unfold
<1>1. /\ pc[p] = "overreach" /\ pc' = [pc EXCEPT ![p] = "copy"]
      /\ last' = [last EXCEPT ![kind[p]] = 0]
      /\ UNCHANGED <<absVars, slots, numLocalStack, local, hasShared, regVars, ret, verdict, gcVars>>
  BY DEF ResetLast, Goto
<1>2. SharedOK /\ Graph /\ Conserved
  BY DEF Inv
<1>3. PICK k \in Kinds : k = kind[p]
  BY <1>0
<1>4. /\ last \in [Kinds -> Int] /\ Capacity \in Nat /\ last[k] <= 0
      /\ lo[p] <= hi[p] /\ hi[p] <= Capacity
  BY <1>1, <1>2, <1>3, SharedStackAssumption DEF SharedOK, Cursors, Claims
<1>5. last' = [last EXCEPT ![k] = 0]
  BY <1>1, <1>3
<1>10. \A q \in Procs \ {p} : Same(q)
  BY <1>0, <1>1 DEF Same, RegTypes, gcVars, regVars
<1>12. RegTypes'
  <2>1. pc' \in [Procs -> Labels]
    BY <1>0, <1>1 DEF RegTypes, Labels, Popping
  <2>. QED
    BY <1>0, <1>1, <2>1 DEF RegTypes, gcVars, regVars
<1>13. /\ pc'[p] = "copy" /\ kind' = kind /\ lo' = lo /\ hi' = hi
       /\ kind'[p] = k /\ request'[p] > 0 /\ ret'[p] = "popped" /\ ret[p] = "popped"
       /\ fetched'[p] = fetched[p] /\ ~ verdict'[p] /\ ~ hasShared'[p]
       /\ stage[p] = 1 /\ stage'[p] = 1 /\ (Empty(p)' <=> Empty(p)) /\ (~ Empty(p) => fetched[p])
  BY <1>0, <1>1, <1>3 DEF RegTypes, Counted, Staged, Registers, Empty, gcVars, regVars,
     Popping, Leaving
<1>14. LocalOK(p)'
  BY <1>13 DEF LocalOK, Counted, Staged, Registers, LeavesEmpty, Before, Popping, Pushing,
     Leaving
<1>15. RoomsOK'
  <2>1. pc'[p] \in Working /\ RoomOf(p)' = RoomOf(p) /\ pc'[p] \in Popping
    BY <1>1, <1>13 DEF Working, RoomOf, Popping
  <2>2. InRoom(p)
    BY <1>1, InsideIs DEF Inv, RoomsOK, IsInside, InRoom
  <2>3. ~ Queued(p)
    BY <2>2, InsideIs
  <2>4. pc[p] \notin {"finalizer", "noFinalizer"}
    BY <1>1
  <2>. QED
    BY <1>1, <1>10, <2>1, <2>2, <2>3, <2>4, RoomsStay
<1>16. \A q \in Procs : pc[q] # "fill" /\ pc'[q] # "fill"
  <2>1. p \in inside[0]
    BY <1>1, <1>13 DEF Inv, RoomsOK, IsInside, RoomOf, Popping
  <2>. QED
    BY <2>1, <1>10, <1>13, OneSide DEF Same
<1>17. \A q \in Procs : pc'[q] \in {"overreach", "copy"} <=> pc[q] \in {"overreach", "copy"}
  BY <1>1, <1>10, <1>13 DEF Same
<1>18. /\ last'[k] = 0
       /\ \A j \in Kinds : j # k => last'[j] = last[j]
  BY <1>4, <1>5
<1>19. Claims'
  <2>1. ASSUME NEW q \in Procs, pc[q] \in {"overreach", "copy"}
        PROVE  last'[kind[q]] <= lo[q]
    <3>1. kind[q] \in Kinds /\ lo[q] \in Nat /\ last[kind[q]] <= lo[q]
      BY <1>0, <1>2, <2>1 DEF SharedOK, Claims, RegTypes
    <3>2. CASE kind[q] = k
      BY <1>18, <3>1, <3>2
    <3>3. CASE kind[q] # k
      BY <1>18, <3>1, <3>3
    <3>. QED
      BY <3>2, <3>3
  <2>2. \A q \in Procs : pc'[q] = "overreach" => pc[q] = "overreach"
    BY <1>10, <1>13 DEF Same
  <2>. QED
    BY <1>2, <1>13, <1>16, <1>17, <2>1, <2>2 DEF SharedOK, Claims
<1>20. ClaimsApart'
  BY <1>2, <1>13, <1>16, <1>17 DEF SharedOK, ClaimsApart, Range_, Claiming
<1>21. Cursors'
  <2>1. \A j \in Kinds : last'[j] < 0 =>
          \E q \in Procs : pc'[q] = "overreach" /\ kind'[q] = j
    <3>. SUFFICES ASSUME NEW j \in Kinds, last'[j] < 0
                  PROVE  \E q \in Procs : pc'[q] = "overreach" /\ kind'[q] = j
      OBVIOUS
    <3>1. j # k
      BY <1>18
    <3>2. PICK q \in Procs : pc[q] = "overreach" /\ kind[q] = j
      BY <1>2, <1>18, <3>1 DEF SharedOK, Cursors
    <3>. QED
      BY <1>3, <1>10, <3>1, <3>2 DEF Same
  <2>2. last' \in [Kinds -> Int]
    BY <1>4, <1>5
  <2>3. \A j \in Kinds : last'[j] <= Capacity
    BY <1>2, <1>4, <1>18 DEF SharedOK, Cursors
  <2>. QED
    BY <1>1, <1>2, <2>1, <2>2, <2>3 DEF SharedOK, Cursors
<1>22. \A j \in Kinds : SharedWords(j)' = SharedWords(j)
  <2>. TAKE j \in Kinds
  <2>1. ASSUME NEW n
        PROVE  n \in SharedWords(j)' <=> n \in SharedWords(j)
    <3>1. n \in SharedWords(j) <=>
            \/ n \in 0 .. last[j] - 1
            \/ \E q \in Procs : pc[q] \in {"overreach", "copy"} /\ kind[q] = j
                                        /\ n \in lo[q] .. hi[q] - 1
      BY <1>16, InShared DEF Range_
    <3>2. n \in SharedWords(j)' <=>
            \/ n \in 0 .. last'[j] - 1
            \/ \E q \in Procs : pc[q] \in {"overreach", "copy"} /\ kind[q] = j
                                        /\ n \in lo[q] .. hi[q] - 1
      BY <1>13, <1>16, <1>17, InSharedNext
    <3>3. n \in 0 .. last[j] - 1 <=> n \in 0 .. last'[j] - 1
      <4>1. CASE j = k
        BY <1>4, <1>18, <4>1
      <4>2. CASE j # k
        BY <1>18, <4>2
      <4>. QED
        BY <4>1, <4>2
    <3>. QED
      BY <3>1, <3>2, <3>3
  <2>. QED
    BY <2>1
<1>23. Graph' /\ Conserved' /\ Pending' = Pending
  BY <1>1, <1>2, <1>22, SameGraph, SameConserved, SamePending DEF gcVars
<1>24. Count'
  BY <1>0, <1>1, SameCount
<1>25. unscanned' = unscanned /\ pc[p] \notin {"await", "roots"} /\ ~ (verdict'[p] /\ pc'[p] = "pushed")
  BY <1>1, <1>13 DEF gcVars
<1>. QED
  BY <1>10, <1>12, <1>13, <1>14, <1>15, <1>19, <1>20, <1>21, <1>23, <1>24, <1>25, Moves DEF SharedOK

----------------------------------------------------------------------------
(* Moving work between the shared sets and a processor.                    *)

LEMMA PendingItems ==
  ASSUME Graph
  PROVE  Pending \subseteq Items /\ Found \subseteq Roots /\ Roots \subseteq Items
<1>1. \A t \in Threads : RootsOf[t] \in Seq(Items)
  BY SemiParaAssumption
<1>2. \A t \in Threads : \A n \in DOMAIN RootsOf[t] : RootsOf[t][n] \in Items
  BY <1>1
<1>3. Roots \subseteq Items
  BY <1>2 DEF Roots
<1>4. Found \subseteq Roots
  BY DEF Found, Roots
<1>. QED
  BY <1>3, <1>4 DEF Graph, Pending

(* The words a .. b - 1 of shared set k go to the end of set k of p.       *)
LEMMA TakenIn ==
  ASSUME Conserved, Pending' = Pending, slots' = slots,
         NEW p \in Procs, NEW k \in Kinds, NEW a \in Int, NEW b \in Int, NEW L \in Nat,
         \A q \in Procs, j \in Kinds : q # p \/ j # k => local'[q][j] = local[q][j],
         \A j \in Kinds : j # k => SharedWords(j)' = SharedWords(j),
         \A n : n \in SharedWords(k)' <=> n \in SharedWords(k) /\ n \notin a .. b - 1,
         \A n \in a .. b - 1 : n \in SharedWords(k),
         DOMAIN local[p][k] = 1 .. L, DOMAIN local'[p][k] = 1 .. L + (b - a),
         \A m \in 1 .. L : local'[p][k][m] = local[p][k][m],
         \A m \in L + 1 .. L + (b - a) : local'[p][k][m] = slots[k][a + (m - L) - 1],
         a <= b
  PROVE  Conserved'
<1>. HIDE DEF SharedWords, Pending
<1>. DEFINE Old(q, j, m) == /\ m \in DOMAIN local[q][j]
                            /\ local'[q][j][m] = local[q][j][m]
            w(m) == a + (m - L) - 1
            New(q, j, m) == /\ q = p /\ j = k /\ m \in L + 1 .. L + (b - a)
                            /\ w(m) \in SharedWords(k) /\ w(m) \in a .. b - 1
                            /\ local'[p][k][m] = slots[k][w(m)]
<1>1. ASSUME NEW q \in Procs, NEW j \in Kinds, NEW m \in DOMAIN local'[q][j]
      PROVE  Old(q, j, m) \/ New(q, j, m)
  <2>1. CASE q # p \/ j # k
    BY <2>1
  <2>2. CASE q = p /\ j = k
    <3>1. m \in Int /\ 1 <= m /\ m <= L + (b - a)
      BY <2>2
    <3>2. CASE m <= L
      BY <2>2, <3>1, <3>2
    <3>3. CASE m > L
      <4>1. w(m) \in a .. b - 1 /\ m \in L + 1 .. L + (b - a)
        BY <3>1, <3>3
      <4>. QED
        BY <2>2, <4>1
    <3>. QED
      BY <3>1, <3>2, <3>3
  <2>. QED
    BY <2>1, <2>2
<1>2. \A j \in Kinds : \A n : n \in SharedWords(j)' =>
        n \in SharedWords(j) /\ (j = k => n \notin a .. b - 1)
  OBVIOUS
<1>3. ASSUME NEW m, NEW n, New(p, k, m), New(p, k, n), w(m) = w(n)
      PROVE  m = n
  BY <1>3
<1>. HIDE DEF w
<1>4. /\ \A q, j, m : Old(q, j, m) => m \in DOMAIN local[q][j] /\ local'[q][j][m] = local[q][j][m]
      /\ \A q, j, m : New(q, j, m) =>
           /\ q = p /\ j = k /\ w(m) \in SharedWords(k) /\ w(m) \in a .. b - 1
           /\ local'[p][k][m] = slots[k][w(m)]
  OBVIOUS
<1>. HIDE DEF Old, New
<1>5. SharedIsWork' /\ SharedOnce'
  BY <1>2 DEF Conserved, SharedIsWork, SharedOnce
<1>6. LocalIsWork'
  <2>. SUFFICES ASSUME NEW q \in Procs, NEW j \in Kinds, NEW m \in DOMAIN local'[q][j]
                PROVE  local'[q][j][m] \in Pending
    BY DEF LocalIsWork
  <2>1. CASE Old(q, j, m)
    BY <1>4, <2>1 DEF Conserved, LocalIsWork
  <2>2. CASE New(q, j, m)
    BY <1>4, <2>2 DEF Conserved, SharedIsWork
  <2>. QED
    BY <1>1, <2>1, <2>2
<1>7. NotBoth'
  <2>. SUFFICES ASSUME NEW q \in Procs, NEW j \in Kinds, NEW i \in Kinds,
                       NEW m \in DOMAIN local'[q][j], NEW n \in SharedWords(i)',
                       local'[q][j][m] = slots[i][n]
                PROVE  FALSE
    BY DEF NotBoth
  <2>1. n \in SharedWords(i) /\ (i = k => n \notin a .. b - 1)
    BY <1>2
  <2>2. CASE Old(q, j, m)
    BY <1>4, <2>1, <2>2 DEF Conserved, NotBoth
  <2>3. CASE New(q, j, m)
    <3>1. w(m) \in SharedWords(k) /\ w(m) \in a .. b - 1 /\ slots[k][w(m)] = slots[i][n]
      BY <1>4, <2>3
    <3>2. k = i /\ w(m) = n
      BY <2>1, <3>1 DEF Conserved, SharedOnce
    <3>. QED
      BY <2>1, <3>1, <3>2
  <2>. QED
    BY <1>1, <2>2, <2>3
<1>8. LocalOnce'
  <2>. SUFFICES ASSUME NEW q \in Procs, NEW r \in Procs, NEW j \in Kinds, NEW i \in Kinds,
                       NEW m \in DOMAIN local'[q][j], NEW n \in DOMAIN local'[r][i],
                       local'[q][j][m] = local'[r][i][n]
                PROVE  q = r /\ j = i /\ m = n
    BY DEF LocalOnce
  <2>1. CASE Old(q, j, m) /\ Old(r, i, n)
    BY <1>4, <2>1 DEF Conserved, LocalOnce
  <2>2. CASE Old(q, j, m) /\ New(r, i, n)
    BY <1>4, <2>2 DEF Conserved, NotBoth
  <2>3. CASE New(q, j, m) /\ Old(r, i, n)
    BY <1>4, <2>3 DEF Conserved, NotBoth
  <2>4. CASE New(q, j, m) /\ New(r, i, n)
    <3>1. /\ q = p /\ j = k /\ r = p /\ i = k /\ New(p, k, m) /\ New(p, k, n)
          /\ slots[k][w(m)] = slots[k][w(n)] /\ w(m) \in SharedWords(k) /\ w(n) \in SharedWords(k)
      BY <1>4, <2>4
    <3>2. w(m) = w(n)
      BY <3>1 DEF Conserved, SharedOnce
    <3>. QED
      BY <1>3, <3>1, <3>2
  <2>. QED
    BY <1>1, <2>1, <2>2, <2>3, <2>4
<1>9. WorkIsSomewhere'
  <2>. SUFFICES ASSUME NEW i \in Pending
                PROVE  \/ \E j \in Kinds : \E n \in SharedWords(j)' : slots[j][n] = i
                       \/ \E q \in Procs, j \in Kinds : \E n \in DOMAIN local'[q][j] :
                            local'[q][j][n] = i
    BY DEF WorkIsSomewhere
  <2>1. ASSUME NEW j \in Kinds, NEW n \in SharedWords(j), slots[j][n] = i,
               n \notin SharedWords(j)'
        PROVE  \E m \in DOMAIN local'[p][k] : local'[p][k][m] = i
    <3>1. j = k /\ n \in a .. b - 1
      BY <2>1
    <3>2. L + (n - a) + 1 \in L + 1 .. L + (b - a) /\ a + ((L + (n - a) + 1) - L) - 1 = n
      BY <3>1
    <3>3. L + (n - a) + 1 \in 1 .. L + (b - a)
      BY <3>2
    <3>4. local'[p][k][L + (n - a) + 1] = slots[k][n]
      BY <3>2
    <3>. QED
      BY <2>1, <3>1, <3>3, <3>4
  <2>2. ASSUME NEW q \in Procs, NEW j \in Kinds, NEW n \in DOMAIN local[q][j], local[q][j][n] = i
        PROVE  n \in DOMAIN local'[q][j] /\ local'[q][j][n] = i
    <3>1. CASE q # p \/ j # k
      BY <2>2, <3>1
    <3>2. CASE q = p /\ j = k
      <4>1. n \in 1 .. L /\ n \in 1 .. L + (b - a)
        BY <3>2
      <4>. QED
        BY <2>2, <3>2, <4>1
    <3>. QED
      BY <3>1, <3>2
  <2>3. CASE \E j \in Kinds : \E n \in SharedWords(j) : slots[j][n] = i
    BY <2>1, <2>3
  <2>4. CASE \E q \in Procs, j \in Kinds : \E n \in DOMAIN local[q][j] : local[q][j][n] = i
    BY <2>2, <2>4
  <2>. QED
    BY <2>3, <2>4 DEF Conserved, WorkIsSomewhere
<1>. QED
  BY <1>5, <1>6, <1>7, <1>8, <1>9 DEF Conserved

(* Set k of p goes to the words a .. b - 1 of shared set k.                *)
LEMMA PutOut ==
  ASSUME Conserved, Pending' = Pending,
         NEW p \in Procs, NEW k \in Kinds, NEW a \in Int, NEW b \in Int,
         \A q \in Procs, j \in Kinds : q # p \/ j # k => local'[q][j] = local[q][j],
         \A j \in Kinds : j # k => SharedWords(j)' = SharedWords(j),
         \A n : n \in SharedWords(k)' <=> n \in SharedWords(k) \/ n \in a .. b - 1,
         \A n \in a .. b - 1 : n \notin SharedWords(k),
         DOMAIN local[p][k] = 1 .. b - a, DOMAIN local'[p][k] = {},
         \A j \in Kinds : \A n \in SharedWords(j) : slots'[j][n] = slots[j][n],
         \A n \in a .. b - 1 : slots'[k][n] = local[p][k][n - a + 1]
  PROVE  Conserved'
<1>. HIDE DEF SharedWords, Pending
<1>. DEFINE Old(j, n) == n \in SharedWords(j) /\ slots'[j][n] = slots[j][n]
            w(n) == n - a + 1
            New(j, n) == /\ j = k /\ n \in a .. b - 1
                         /\ w(n) \in DOMAIN local[p][k]
                         /\ slots'[k][n] = local[p][k][w(n)]
<1>1. ASSUME NEW j \in Kinds, NEW n \in SharedWords(j)'
      PROVE  Old(j, n) \/ New(j, n)
  <2>1. CASE n \in SharedWords(j)
    BY <2>1
  <2>2. CASE n \notin SharedWords(j)
    <3>1. j = k /\ n \in a .. b - 1
      BY <2>2
    <3>2. w(n) \in 1 .. b - a
      BY <3>1
    <3>. QED
      BY <3>1, <3>2
  <2>. QED
    BY <2>1, <2>2
<1>2. \A q \in Procs, j \in Kinds : \A m \in DOMAIN local'[q][j] :
        /\ m \in DOMAIN local[q][j] /\ local'[q][j][m] = local[q][j][m]
        /\ q # p \/ j # k
  OBVIOUS
<1>3. ASSUME NEW m, NEW n, New(k, m), New(k, n), w(m) = w(n)
      PROVE  m = n
  BY <1>3
<1>. HIDE DEF w
<1>4. /\ \A j, n : Old(j, n) => n \in SharedWords(j) /\ slots'[j][n] = slots[j][n]
      /\ \A j, n : New(j, n) =>
           j = k /\ w(n) \in DOMAIN local[p][k] /\ slots'[j][n] = local[p][k][w(n)]
  OBVIOUS
<1>. HIDE DEF Old, New
<1>5. LocalIsWork' /\ LocalOnce'
  BY <1>2 DEF Conserved, LocalIsWork, LocalOnce
<1>6. SharedIsWork'
  <2>. SUFFICES ASSUME NEW j \in Kinds, NEW n \in SharedWords(j)'
                PROVE  slots'[j][n] \in Pending
    BY DEF SharedIsWork
  <2>1. CASE Old(j, n)
    BY <1>4, <2>1 DEF Conserved, SharedIsWork
  <2>2. CASE New(j, n)
    BY <1>4, <2>2 DEF Conserved, LocalIsWork
  <2>. QED
    BY <1>1, <2>1, <2>2
<1>7. NotBoth'
  <2>. SUFFICES ASSUME NEW q \in Procs, NEW j \in Kinds, NEW i \in Kinds,
                       NEW m \in DOMAIN local'[q][j], NEW n \in SharedWords(i)',
                       local'[q][j][m] = slots'[i][n]
                PROVE  FALSE
    BY DEF NotBoth
  <2>1. m \in DOMAIN local[q][j] /\ local[q][j][m] = slots'[i][n] /\ (q # p \/ j # k)
    BY <1>2
  <2>2. CASE Old(i, n)
    BY <1>4, <2>1, <2>2 DEF Conserved, NotBoth
  <2>3. CASE New(i, n)
    BY <1>4, <2>1, <2>3 DEF Conserved, LocalOnce
  <2>. QED
    BY <1>1, <2>2, <2>3
<1>8. SharedOnce'
  <2>. SUFFICES ASSUME NEW j \in Kinds, NEW i \in Kinds,
                       NEW m \in SharedWords(j)', NEW n \in SharedWords(i)',
                       slots'[j][m] = slots'[i][n]
                PROVE  j = i /\ m = n
    BY DEF SharedOnce
  <2>1. CASE Old(j, m) /\ Old(i, n)
    BY <1>4, <2>1 DEF Conserved, SharedOnce
  <2>2. CASE Old(j, m) /\ New(i, n)
    BY <1>4, <2>2 DEF Conserved, NotBoth
  <2>3. CASE New(j, m) /\ Old(i, n)
    BY <1>4, <2>3 DEF Conserved, NotBoth
  <2>4. CASE New(j, m) /\ New(i, n)
    <3>1. /\ j = k /\ i = k /\ New(k, m) /\ New(k, n)
          /\ local[p][k][w(m)] = local[p][k][w(n)]
          /\ w(m) \in DOMAIN local[p][k] /\ w(n) \in DOMAIN local[p][k]
      BY <1>4, <2>4
    <3>2. w(m) = w(n)
      BY <3>1 DEF Conserved, LocalOnce
    <3>. QED
      BY <1>3, <3>1, <3>2
  <2>. QED
    BY <1>1, <2>1, <2>2, <2>3, <2>4
<1>9. WorkIsSomewhere'
  <2>. SUFFICES ASSUME NEW i \in Pending
                PROVE  \/ \E j \in Kinds : \E n \in SharedWords(j)' : slots'[j][n] = i
                       \/ \E q \in Procs, j \in Kinds : \E n \in DOMAIN local'[q][j] :
                            local'[q][j][n] = i
    BY DEF WorkIsSomewhere
  <2>1. ASSUME NEW q \in Procs, NEW j \in Kinds, NEW m \in DOMAIN local[q][j], local[q][j][m] = i
        PROVE  \/ m \in DOMAIN local'[q][j] /\ local'[q][j][m] = i
               \/ \E n \in SharedWords(k)' : slots'[k][n] = i
    <3>1. CASE q # p \/ j # k
      BY <2>1, <3>1
    <3>2. CASE q = p /\ j = k
      <4>1. m \in 1 .. b - a
        BY <3>2
      <4>2. a + m - 1 \in a .. b - 1 /\ (a + m - 1) - a + 1 = m
        BY <4>1
      <4>3. slots'[k][a + m - 1] = local[p][k][m]
        BY <4>2
      <4>. QED
        BY <2>1, <3>2, <4>2, <4>3
    <3>. QED
      BY <3>1, <3>2
  <2>2. ASSUME NEW j \in Kinds, NEW n \in SharedWords(j), slots[j][n] = i
        PROVE  n \in SharedWords(j)' /\ slots'[j][n] = i
    BY <2>2
  <2>3. CASE \E j \in Kinds : \E n \in SharedWords(j) : slots[j][n] = i
    BY <2>2, <2>3
  <2>4. CASE \E q \in Procs, j \in Kinds : \E n \in DOMAIN local[q][j] : local[q][j][n] = i
    BY <2>1, <2>4
  <2>. QED
    BY <2>3, <2>4 DEF Conserved, WorkIsSomewhere
<1>. QED
  BY <1>5, <1>6, <1>7, <1>8, <1>9 DEF Conserved

LEMMA CopyKeeps ==
  ASSUME Inv, NEW p \in Procs, Copy(p), UNCHANGED gcVars
  PROVE  Inv'
<1>0. /\ RegTypes /\ Count /\ Counted(p) /\ Staged(p) /\ Registers(p)
      /\ kind[p] \in Kinds /\ 1 \in Kinds
  BY Unfold
<1>2. SharedOK /\ Graph /\ Conserved
  BY DEF Inv
<1>3. PICK k \in Kinds : k = kind[p]
  BY <1>0
<1>. DEFINE g == hi[p] - lo[p]
            nx == IF k + 1 \in Kinds THEN MakeFraction(Base(p, k + 1), request[p], g) ELSE 0
            word == [n \in 1 .. g |-> slots[k][lo[p] + n - 1]]
<1>1. /\ pc[p] = "copy" /\ pc' = [pc EXCEPT ![p] = IF nx = 0 THEN "popEnd" ELSE "fetch"]
      /\ local' = [local EXCEPT ![p][k] = local[p][k] \o word]
      /\ fetched' = [fetched EXCEPT ![p] = fetched[p] \/ g # 0]
      /\ kind' = [kind EXCEPT ![p] = IF nx = 0 THEN 1 ELSE k + 1]
      /\ request' = [request EXCEPT ![p] = nx]
      /\ lo' = [lo EXCEPT ![p] = 0] /\ hi' = [hi EXCEPT ![p] = 0]
      /\ UNCHANGED <<absVars, slots, last, numLocalStack, hasShared, objRequest, ret, verdict, gcVars>>
  BY <1>3 DEF Copy, Goto
<1>4. PICK a \in Nat : a = lo[p]
  BY <1>0 DEF RegTypes
<1>5. PICK b \in Nat : b = hi[p]
  BY <1>0 DEF RegTypes
<1>6. /\ last \in [Kinds -> Int] /\ Capacity \in Nat
      /\ last[k] <= a /\ a <= b /\ b <= Capacity
  BY <1>1, <1>2, <1>3, <1>4, <1>5, SharedStackAssumption DEF SharedOK, Cursors, Claims
<1>7. g = b - a /\ g \in Nat
  BY <1>4, <1>5, <1>6
<1>8. nx \in Int /\ (nx # 0 => k + 1 \in Kinds)
  <2>1. PICK r \in Nat \ {0} : r = request[p]
    BY <1>0, <1>1 DEF RegTypes, Registers
  <2>2. ASSUME k + 1 \in Kinds
        PROVE  nx \in Int
    <3>1. PICK c \in Int : c = Base(p, k + 1)
      BY <2>2, BaseType
    <3>2. c * (r - g) \in Int
      BY <1>7
    <3>3. TruncDiv(c * (r - g), r) \in Int
      BY <3>2, TruncDivType
    <3>4. nx = TruncDiv(c * (r - g), r)
      BY <2>1, <2>2, <3>1 DEF MakeFraction
    <3>. QED
      BY <3>3, <3>4
  <2>. QED
    BY <2>2
<1>9. \A n \in a .. b - 1 : n \in SharedWords(k) /\ slots[k][n] \in Items
  <2>. TAKE n \in a .. b - 1
  <2>1. n \in SharedWords(k)
    BY <1>1, <1>3, <1>4, <1>5, InShared DEF Range_
  <2>. HIDE DEF SharedWords, Pending
  <2>. QED
    BY <1>2, <2>1, PendingItems DEF Conserved, SharedIsWork
<1>10. word \in Seq(Items) /\ Len(word) = g /\ \A n \in 1 .. g : word[n] = slots[k][a + n - 1]
  <2>1. \A n \in 1 .. g : slots[k][lo[p] + n - 1] \in Items
    <3>. TAKE n \in 1 .. g
    <3>1. lo[p] + n - 1 \in a .. b - 1
      BY <1>4, <1>7
    <3>. QED
      BY <1>9, <3>1
  <2>. QED
    BY <1>4, <1>7, <2>1
<1>. HIDE DEF g, nx, word
<1>11. PICK old \in Seq(Items) : old = local[p][k]
  BY <1>0 DEF RegTypes
<1>12. PICK L \in Nat : L = Len(old)
  BY <1>11
<1>13. /\ local' = [local EXCEPT ![p] = [local[p] EXCEPT ![k] = old \o word]]
       /\ old \o word \in Seq(Items) /\ DOMAIN (old \o word) = 1 .. L + (b - a)
       /\ \A m \in 1 .. L : (old \o word)[m] = old[m]
       /\ \A m \in L + 1 .. L + (b - a) : (old \o word)[m] = slots[k][a + (m - L) - 1]
       /\ (g = 0 => old \o word = old)
  <2>1. local' = [local EXCEPT ![p] = [local[p] EXCEPT ![k] = old \o word]]
    BY <1>1, <1>11
  <2>2. old \o word \in Seq(Items) /\ DOMAIN (old \o word) = 1 .. L + (b - a)
    <3>1. old \o word \in Seq(Items)
      BY <1>10, <1>11, ConcatProperties
    <3>2. Len(old \o word) = L + (b - a)
      <4>1. Len(old \o word) = Len(old) + Len(word)
        BY <1>10, <1>11, ConcatProperties
      <4>. QED
        BY <1>7, <1>10, <1>12, <4>1
    <3>3. DOMAIN (old \o word) = 1 .. Len(old \o word)
      BY <3>1, LenProperties
    <3>. QED
      BY <3>1, <3>2, <3>3
  <2>3. \A m \in 1 .. L : (old \o word)[m] = old[m]
    BY <1>7, <1>10, <1>11, <1>12
  <2>4. \A m \in L + 1 .. L + (b - a) : (old \o word)[m] = slots[k][a + (m - L) - 1]
    <3>. TAKE m \in L + 1 .. L + (b - a)
    <3>1. m - L \in 1 .. g
      BY <1>7
    <3>2. (old \o word)[m] = word[m - L]
      BY <1>7, <1>10, <1>11, <1>12
    <3>. QED
      BY <1>10, <3>1, <3>2
  <2>5. g = 0 => word = <<>>
    BY <1>10, EmptySeq
  <2>6. g = 0 => old \o word = old
    BY <1>11, <2>5
  <2>. QED
    BY <2>1, <2>2, <2>3, <2>4, <2>6
<1>14. /\ local'[p][k] = old \o word
       /\ \A q \in Procs, j \in Kinds : q # p \/ j # k => local'[q][j] = local[q][j]
       /\ local' \in [Procs -> [Kinds -> Seq(Items)]]
  <2>1. local \in [Procs -> [Kinds -> Seq(Items)]]
    BY <1>0 DEF RegTypes
  <2>2. old \o word \in Seq(Items)
    BY <1>13
  <2>3. [local[p] EXCEPT ![k] = old \o word] \in [Kinds -> Seq(Items)]
    BY <2>1, <2>2
  <2>. QED
    BY <1>13, <2>1, <2>2, <2>3
<1>15. \A q \in Procs \ {p} : Same(q)
  BY <1>0, <1>1 DEF Same, RegTypes, gcVars
<1>16. RegTypes'
  <2>1. fetched' \in [Procs -> BOOLEAN]
    BY <1>0, <1>1 DEF RegTypes
  <2>2. kind' \in [Procs -> Kinds] /\ request' \in [Procs -> Int] /\ lo' \in [Procs -> Nat]
        /\ hi' \in [Procs -> Nat] /\ pc' \in [Procs -> Labels]
    BY <1>0, <1>1, <1>8 DEF RegTypes, Labels, Popping
  <2>. QED
    BY <1>0, <1>1, <1>14, <2>1, <2>2 DEF RegTypes, gcVars
<1>17. /\ pc'[p] = IF nx = 0 THEN "popEnd" ELSE "fetch"
       /\ kind'[p] = IF nx = 0 THEN 1 ELSE k + 1
       /\ request'[p] = nx /\ ret'[p] = "popped" /\ ret[p] = "popped"
       /\ ~ verdict'[p] /\ ~ hasShared'[p] /\ (fetched'[p] <=> fetched[p] \/ g # 0)
       /\ stage[p] = 1 /\ stage'[p] = 1 /\ (~ Empty(p) => fetched[p])
  BY <1>0, <1>1 DEF RegTypes, Counted, Staged, Registers, gcVars, Popping, Leaving
<1>18. ~ Empty(p)' => fetched'[p]
  BY <1>11, <1>13, <1>14, <1>17 DEF Empty
<1>19. LocalOK(p)'
  BY <1>17, <1>18 DEF LocalOK, Counted, Staged, Registers, LeavesEmpty, Before, Popping, Pushing,
     Leaving
<1>20. p \in inside[0]
  BY <1>1, <1>17 DEF Inv, RoomsOK, IsInside, RoomOf, Popping
<1>21. RoomsOK'
  <2>1. pc'[p] \in Working /\ RoomOf(p)' = RoomOf(p) /\ pc'[p] \in Popping
    BY <1>1, <1>17 DEF Working, RoomOf, Popping
  <2>2. InRoom(p)
    BY <1>20, RoomsAre DEF InRoom
  <2>3. ~ Queued(p)
    BY <2>2, InsideIs
  <2>4. pc[p] \notin {"finalizer", "noFinalizer"}
    BY <1>1
  <2>. QED
    BY <1>1, <1>15, <2>1, <2>2, <2>3, <2>4, RoomsStay
<1>22. \A q \in Procs : pc[q] # "fill" /\ pc'[q] # "fill"
  BY <1>15, <1>17, <1>20, OneSide DEF Same
<1>23. /\ pc[p] \in Claiming /\ pc'[p] \notin Claiming
       /\ \A q \in Procs : pc'[q] \in Claiming => q # p
       /\ \A q \in Procs : pc[q] = "overreach" => q # p
  BY <1>1, <1>17 DEF Claiming
<1>24. SharedOK'
  <2>1. Claims'
    BY <1>1, <1>2, <1>15, <1>22, <1>23 DEF SharedOK, Claims, Same, Claiming
  <2>2. ClaimsApart'
    BY <1>2, <1>15, <1>23 DEF SharedOK, ClaimsApart, Same, Range_
  <2>3. Cursors'
    BY <1>1, <1>2, <1>15, <1>23 DEF SharedOK, Cursors, Same
  <2>. QED
    BY <2>1, <2>2, <2>3 DEF SharedOK
<1>25. ASSUME NEW j \in Kinds, NEW n
       PROVE  n \in SharedWords(j)' <=> n \in SharedWords(j) /\ (j = k => n \notin a .. b - 1)
  <2>1. n \in SharedWords(j) <=>
          \/ n \in 0 .. last[j] - 1
          \/ j = k /\ n \in a .. b - 1
          \/ \E q \in Procs \ {p} : pc[q] \in {"overreach", "copy"} /\ kind[q] = j
                                      /\ n \in lo[q] .. hi[q] - 1
    BY <1>1, <1>3, <1>4, <1>5, <1>22, InShared DEF Range_
  <2>2. n \in SharedWords(j)' <=>
          \/ n \in 0 .. last[j] - 1
          \/ \E q \in Procs \ {p} : pc[q] \in {"overreach", "copy"} /\ kind[q] = j
                                      /\ n \in lo[q] .. hi[q] - 1
    <3>1. \A q \in Procs \ {p} : /\ pc'[q] = pc[q] /\ kind'[q] = kind[q]
                                 /\ lo'[q] = lo[q] /\ hi'[q] = hi[q]
      BY <1>15 DEF Same
    <3>2. pc'[p] \notin {"overreach", "copy"} /\ last' = last
      BY <1>1, <1>17
    <3>. QED
      BY <1>22, <3>1, <3>2, InSharedNext
  <2>3. j = k /\ n \in 0 .. last[j] - 1 => n \notin a .. b - 1
    BY <1>6
  <2>4. ASSUME NEW q \in Procs \ {p}, pc[q] \in {"overreach", "copy"}, kind[q] = j, j = k,
               n \in lo[q] .. hi[q] - 1
        PROVE  n \notin a .. b - 1
    BY <1>1, <1>2, <1>3, <1>4, <1>5, <2>4 DEF SharedOK, ClaimsApart, Claiming, Range_
  <2>. QED
    BY <2>1, <2>2, <2>3, <2>4
<1>26. Graph' /\ Pending' = Pending /\ unscanned' = unscanned
  BY <1>1, <1>2, SameGraph, SamePending DEF gcVars
<1>27. Conserved'
  <2>1. /\ slots' = slots /\ DOMAIN local[p][k] = 1 .. L
        /\ DOMAIN local'[p][k] = 1 .. L + (b - a)
        /\ \A m \in 1 .. L : local'[p][k][m] = local[p][k][m]
        /\ \A m \in L + 1 .. L + (b - a) : local'[p][k][m] = slots[k][a + (m - L) - 1]
    BY <1>1, <1>11, <1>12, <1>13, <1>14
  <2>2. \A j \in Kinds : j # k => SharedWords(j)' = SharedWords(j)
    <3>. TAKE j \in Kinds
    <3>1. j # k => \A n : n \in SharedWords(j)' <=> n \in SharedWords(j)
      BY <1>25
    <3>. QED
      BY <3>1
  <2>3. \A n : n \in SharedWords(k)' <=> n \in SharedWords(k) /\ n \notin a .. b - 1
    BY <1>25
  <2>4. \A n \in a .. b - 1 : n \in SharedWords(k)
    BY <1>9
  <2>. HIDE DEF SharedWords, Pending
  <2>5. \A q \in Procs, j \in Kinds : q # p \/ j # k => local'[q][j] = local[q][j]
    BY <1>14
  <2>6. a \in Int /\ b \in Int /\ a <= b /\ Pending' = Pending /\ Conserved
    BY <1>2, <1>6, <1>26
  <2>. QED
    BY <2>1, <2>2, <2>3, <2>4, <2>5, <2>6, TakenIn
<1>28. Count'
  BY <1>0, <1>1, SameCount
<1>29. pc[p] \notin {"await", "roots"} /\ ~ (verdict'[p] /\ pc'[p] = "pushed")
  BY <1>1, <1>17
<1>. QED
  BY <1>15, <1>16, <1>17, <1>19, <1>21, <1>24, <1>26, <1>27, <1>28, <1>29, Moves

----------------------------------------------------------------------------
(* The work fits in a shared set.                                          *)

LEMMA AtMost ==
  ASSUME NEW S, IsFiniteSet(S), NEW N \in Nat, NEW f, f \in [1 .. N -> S],
         \A m, n \in 1 .. N : f[m] = f[n] => m = n
  PROVE  N <= Cardinality(S)
<1>1. f \in Injection(1 .. N, S)
  BY DEF Injection, IsInjective
<1>2. Cardinality(1 .. N) = N
  BY FS_Interval
<1>3. Cardinality(1 .. N) <= Cardinality(S)
  BY <1>1, FS_Injection
<1>. QED
  BY <1>2, <1>3

LEMMA LocalFits ==
  ASSUME Inv, NEW p \in Procs, NEW k \in Kinds
  PROVE  Len(local[p][k]) \in Nat /\ Len(local[p][k]) <= Cardinality(Items)
<1>1. local[p][k] \in Seq(Items)
  BY DEF Inv, RegTypes
<1>2. PICK L \in Nat : L = Len(local[p][k]) /\ local[p][k] \in [1 .. L -> Items]
  BY <1>1, LenProperties
<1>3. \A m, n \in 1 .. L : local[p][k][m] = local[p][k][n] => m = n
  <2>1. LocalOnce /\ DOMAIN local[p][k] = 1 .. L
    BY <1>2 DEF Inv, Conserved
  <2>. QED
    BY <2>1 DEF LocalOnce
<1>. QED
  BY <1>2, <1>3, AtMost, SemiParaAssumption

(* The words below the cursor and the set that is about to be pushed are   *)
(* different pieces of work.                                               *)
LEMMA CursorFits ==
  ASSUME Inv, NEW p \in Procs, p \in inside[1], NEW k \in Kinds, pc[p] = "reserve"
  PROVE  last[k] >= 0 /\ last[k] + Len(local[p][k]) <= Capacity
<1>1. /\ SharedOK /\ Graph /\ Conserved /\ RegTypes
      /\ \A q \in Procs : pc[q] \notin {"overreach", "copy"}
  BY OneSide DEF Inv
<1>2. PICK c \in Nat : c = last[k]
  BY <1>1 DEF SharedOK, Cursors
<1>3. local[p][k] \in Seq(Items)
  BY <1>1 DEF RegTypes
<1>4. PICK L \in Nat : L = Len(local[p][k]) /\ DOMAIN local[p][k] = 1 .. L
  BY <1>3
<1>. DEFINE Filling(q, n) == q \in Procs /\ pc[q] = "fill" /\ kind[q] = k /\ n \in Range_(q)
            owner(n) == CHOOSE q : Filling(q, n)
            f == [m \in 1 .. c + L |->
                   IF m > c THEN local[p][k][m - c]
                   ELSE IF m - 1 \in SharedWords(k) THEN slots[k][m - 1]
                   ELSE local[owner(m - 1)][k][(m - 1) - lo[owner(m - 1)] + 1]]
            Mine(m) == m - c \in DOMAIN local[p][k] /\ f[m] = local[p][k][m - c]
            Word(m) == m - 1 \in SharedWords(k) /\ f[m] = slots[k][m - 1]
            Theirs(m) == \E q \in Procs \ {p} :
                           /\ (m - 1) - lo[q] + 1 \in DOMAIN local[q][k]
                           /\ f[m] = local[q][k][(m - 1) - lo[q] + 1]
                           /\ lo[q] \in Nat
<1>5. ASSUME NEW m \in 1 .. c + L
      PROVE  (Mine(m) /\ m \in Int /\ m > c) \/ (Word(m) /\ m \in Int)
               \/ (Theirs(m) /\ m \in Int)
  <2>. HIDE DEF SharedWords, owner
  <2>1. CASE m > c
    BY <1>4, <2>1
  <2>2. CASE m <= c /\ m - 1 \in SharedWords(k)
    BY <2>2
  <2>3. CASE m <= c /\ m - 1 \notin SharedWords(k)
    <3>1. m - 1 \in 0 .. last[k] - 1
      BY <1>2, <2>3
    <3>2. \E q : Filling(q, m - 1)
      BY <2>3, <3>1, InShared
    <3>3. Filling(owner(m - 1), m - 1)
      BY <3>2 DEF owner
    <3>4. PICK q \in Procs : q = owner(m - 1) /\ pc[q] = "fill" /\ kind[q] = k /\ m - 1 \in Range_(q)
      BY <3>3
    <3>5. hi[q] - lo[q] = Len(local[q][k]) /\ lo[q] \in Nat /\ hi[q] \in Nat
      BY <1>1, <3>4 DEF SharedOK, Claims, RegTypes
    <3>6. local[q][k] \in Seq(Items)
      BY <1>1 DEF RegTypes
    <3>7. (m - 1) - lo[q] + 1 \in DOMAIN local[q][k]
      <4>1. DOMAIN local[q][k] = 1 .. (hi[q] - lo[q])
        BY <3>5, <3>6
      <4>. QED
        BY <3>4, <3>5, <4>1 DEF Range_
    <3>8. q # p
      BY <3>4
    <3>9. f[m] = local[q][k][(m - 1) - lo[q] + 1]
      BY <2>3, <3>4
    <3>. QED
      BY <3>5, <3>7, <3>8, <3>9
  <2>. QED
    BY <1>2, <2>1, <2>2, <2>3
<1>. HIDE DEF f, SharedWords, Pending
<1>6. f \in [1 .. c + L -> Items]
  <2>1. \A m \in 1 .. c + L : f[m] \in Pending
    <3>. TAKE m \in 1 .. c + L
    <3>. QED
      BY <1>1, <1>5 DEF Conserved, LocalIsWork, SharedIsWork
  <2>2. \A m \in 1 .. c + L : f[m] \in Items
    BY <1>1, <2>1, PendingItems
  <2>. QED
    BY <2>2 DEF f
<1>7. ASSUME NEW m \in 1 .. c + L, NEW n \in 1 .. c + L, f[m] = f[n]
      PROVE  m = n
  <2>1. CASE Mine(m) /\ Mine(n)
    <3>1. PICK x \in DOMAIN local[p][k] : x = m - c /\ f[m] = local[p][k][x]
      BY <2>1
    <3>2. PICK y \in DOMAIN local[p][k] : y = n - c /\ f[n] = local[p][k][y]
      BY <2>1
    <3>3. local[p][k][x] = local[p][k][y]
      BY <1>7, <3>1, <3>2
    <3>4. x = y
      BY <1>1, <3>3 DEF Conserved, LocalOnce
    <3>. QED
      BY <1>2, <3>1, <3>2, <3>4
  <2>2. CASE Word(m) /\ Word(n)
    <3>1. PICK x \in SharedWords(k) : x = m - 1 /\ f[m] = slots[k][x]
      BY <2>2
    <3>2. PICK y \in SharedWords(k) : y = n - 1 /\ f[n] = slots[k][y]
      BY <2>2
    <3>3. slots[k][x] = slots[k][y]
      BY <1>7, <3>1, <3>2
    <3>4. x = y
      BY <1>1, <3>3 DEF Conserved, SharedOnce
    <3>. QED
      BY <1>2, <3>1, <3>2, <3>4
  <2>3. CASE Theirs(m) /\ Theirs(n)
    <3>1. PICK q \in Procs \ {p} : /\ (m - 1) - lo[q] + 1 \in DOMAIN local[q][k]
                                  /\ f[m] = local[q][k][(m - 1) - lo[q] + 1]
                                  /\ lo[q] \in Nat
      BY <2>3
    <3>2. PICK r \in Procs \ {p} : /\ (n - 1) - lo[r] + 1 \in DOMAIN local[r][k]
                                  /\ f[n] = local[r][k][(n - 1) - lo[r] + 1]
                                  /\ lo[r] \in Nat
      BY <2>3
    <3>3. local[q][k][(m - 1) - lo[q] + 1] = local[r][k][(n - 1) - lo[r] + 1]
      BY <1>7, <3>1, <3>2
    <3>4. PICK x \in DOMAIN local[q][k] : x = (m - 1) - lo[q] + 1
      BY <3>1
    <3>5. PICK y \in DOMAIN local[r][k] : y = (n - 1) - lo[r] + 1
      BY <3>2
    <3>6. q = r /\ x = y
      BY <1>1, <3>3, <3>4, <3>5 DEF Conserved, LocalOnce
    <3>. QED
      BY <3>1, <3>4, <3>5, <3>6
  <2>4. CASE (Mine(m) \/ Theirs(m)) /\ Word(n)
    BY <1>1, <1>7, <2>4 DEF Conserved, NotBoth
  <2>5. CASE (Mine(n) \/ Theirs(n)) /\ Word(m)
    BY <1>1, <1>7, <2>5 DEF Conserved, NotBoth
  <2>6. CASE (Mine(m) /\ Theirs(n)) \/ (Mine(n) /\ Theirs(m))
    BY <1>1, <1>7, <2>6 DEF Conserved, LocalOnce
  <2>7. (Mine(m) \/ Word(m) \/ Theirs(m)) /\ (Mine(n) \/ Word(n) \/ Theirs(n))
    BY <1>5
  <2>. HIDE DEF Mine, Word, Theirs
  <2>. QED
    BY <2>1, <2>2, <2>3, <2>4, <2>5, <2>6, <2>7
<1>8. c + L <= Cardinality(Items)
  <2>1. \A m, n \in 1 .. c + L : f[m] = f[n] => m = n
    BY <1>7
  <2>2. c + L \in Nat /\ IsFiniteSet(Items)
    BY <1>2, <1>4, SemiParaAssumption
  <2>. QED
    BY <1>6, <2>1, <2>2, AtMost
<1>9. Cardinality(Items) \in Nat /\ Capacity \in Nat /\ Cardinality(Items) <= Capacity
  BY SemiParaAssumption, SharedStackAssumption, FS_CardinalityType
<1>. QED
  BY <1>2, <1>4, <1>8, <1>9

LEMMA ReserveKeeps ==
  ASSUME Inv, NEW p \in Procs, Reserve(p), UNCHANGED gcVars
  PROVE  Inv'
<1>0. /\ RegTypes /\ Count /\ Counted(p) /\ Staged(p) /\ Registers(p)
      /\ kind[p] \in Kinds /\ 1 \in Kinds
  BY Unfold
<1>2. SharedOK /\ Graph /\ Conserved
  BY DEF Inv
<1>3. PICK k \in Kinds : k = kind[p]
  BY <1>0
<1>4. PICK L \in Nat : L = Len(local[p][k])
  BY LocalFits
<1>1. /\ pc[p] = "reserve" /\ pc' = [pc EXCEPT ![p] = "fill"]
      /\ InRoom(p) /\ L > 0
      /\ last' = [last EXCEPT ![k] = last[k] + L]
      /\ lo' = [lo EXCEPT ![p] = last[k]] /\ hi' = [hi EXCEPT ![p] = last[k] + L]
      /\ UNCHANGED <<absVars, slots, numLocalStack, local, hasShared, kind,
                     request, objRequest, fetched, ret, verdict, gcVars>>
  BY <1>3, <1>4 DEF Reserve, Goto
<1>5. p \in inside[1]
  <2>1. RoomOf(p) = 1
    BY <1>1 DEF RoomOf, Popping, Leaving
  <2>. QED
    BY <1>1, <2>1, InsideIs
<1>6. PICK c \in Nat : c = last[k] /\ c + L <= Capacity
  <2>1. last[k] >= 0 /\ last[k] + L <= Capacity
    BY <1>1, <1>4, <1>5, CursorFits
  <2>2. last[k] \in Int
    BY <1>2 DEF SharedOK, Cursors
  <2>. QED
    BY <2>1, <2>2
<1>7. last \in [Kinds -> Int] /\ Capacity \in Nat
  BY <1>2, SharedStackAssumption DEF SharedOK, Cursors
<1>8. /\ last'[k] = c + L
      /\ \A j \in Kinds : j # k => last'[j] = last[j]
      /\ \A j \in Kinds : last'[j] >= last[j] /\ last'[j] \in Int
  BY <1>1, <1>6, <1>7
<1>9. lo'[p] = c /\ hi'[p] = c + L
  BY <1>0, <1>1, <1>6 DEF RegTypes
<1>10. \A q \in Procs \ {p} : Same(q)
  BY <1>0, <1>1 DEF Same, RegTypes, gcVars
<1>12. RegTypes'
  <2>1. lo' \in [Procs -> Nat] /\ hi' \in [Procs -> Nat]
    <3>1. last[k] \in Nat /\ last[k] + L \in Nat
      BY <1>6
    <3>. QED
      BY <1>0, <1>1, <3>1 DEF RegTypes
  <2>2. pc' \in [Procs -> Labels]
    BY <1>0, <1>1 DEF RegTypes, Labels, Pushing
  <2>. QED
    BY <1>0, <1>1, <2>1, <2>2 DEF RegTypes, gcVars
<1>13. /\ pc'[p] = "fill" /\ kind'[p] = k /\ local' = local
       /\ ret'[p] = ret[p] /\ ret[p] \in {"shared", "pushed"}
       /\ ~ fetched'[p] /\ ~ verdict'[p] /\ hasShared'[p] = hasShared[p]
       /\ stage[p] = 1 /\ stage'[p] = 1 /\ (Empty(p)' <=> Empty(p)) /\ (~ Empty(p) => hasShared[p])
       /\ \A j \in Kinds : j < k => local'[p][j] = <<>>
  BY <1>0, <1>1, <1>3 DEF RegTypes, Counted, Staged, Registers, gcVars, Leaving,
     Pushing, Popping, Empty
<1>14. LocalOK(p)'
  BY <1>13 DEF LocalOK, Counted, Staged, Registers, LeavesEmpty, Before, Popping, Pushing,
     Leaving
<1>15. RoomsOK'
  <2>1. pc'[p] \in Working /\ RoomOf(p)' = RoomOf(p)
    BY <1>1, <1>13 DEF Working, RoomOf, Popping, Pushing, Leaving
  <2>2. ~ Queued(p)
    BY <1>1, InsideIs
  <2>. QED
    BY <1>1, <1>10, <1>13, <2>1, <2>2, RoomsStay
<1>16. \A q \in Procs : pc[q] \notin {"overreach", "copy"} /\ pc'[q] \notin {"overreach", "copy"}
  BY <1>5, <1>10, <1>13, OneSide DEF Same
<1>17. \A q \in Procs \ {p} : /\ pc'[q] = pc[q] /\ kind'[q] = kind[q]
                              /\ lo'[q] = lo[q] /\ hi'[q] = hi[q] /\ local'[q] = local[q]
  BY <1>10 DEF Same
<1>18. \A q \in Procs \ {p} : pc[q] = "fill" =>
         /\ hi[q] - lo[q] = Len(local[q][kind[q]])
         /\ lo[q] < hi[q] /\ hi[q] <= last[kind[q]] /\ kind[q] \in Kinds
         /\ hi[q] \in Nat /\ lo[q] \in Nat
  BY <1>0, <1>2 DEF SharedOK, Claims, RegTypes
<1>19. Claims'
  <2>1. ASSUME NEW q \in Procs, pc'[q] = "fill"
        PROVE  /\ hi'[q] - lo'[q] = Len(local'[q][kind'[q]])
               /\ lo'[q] < hi'[q] /\ hi'[q] <= last'[kind'[q]]
    <3>1. CASE q = p
      BY <1>1, <1>4, <1>8, <1>9, <1>13, <3>1
    <3>2. CASE q # p
      <4>1. hi[q] <= last[kind[q]] /\ last[kind[q]] <= last'[kind[q]]
            /\ last'[kind[q]] \in Int /\ last[kind[q]] \in Int /\ hi[q] \in Nat
        BY <1>7, <1>8, <1>17, <1>18, <2>1, <3>2
      <4>2. hi[q] <= last'[kind[q]]
        BY <4>1
      <4>. QED
        BY <1>17, <1>18, <2>1, <3>2, <4>2
    <3>. QED
      BY <3>1, <3>2
  <2>. QED
    BY <1>16, <2>1 DEF Claims
<1>20. ClaimsApart'
  <2>1. ASSUME NEW q \in Procs \ {p}, pc[q] = "fill", kind[q] = k,
               NEW n \in lo'[p] .. hi'[p] - 1
        PROVE  n \notin lo[q] .. hi[q] - 1
    <3>1. hi[q] <= c /\ hi[q] \in Nat /\ lo[q] \in Nat
      BY <1>6, <1>18, <2>1
    <3>2. n \in Int /\ n >= c
      BY <1>9
    <3>. QED
      BY <3>1, <3>2
  <2>. QED
    BY <1>2, <1>13, <1>16, <1>17, <2>1 DEF SharedOK, ClaimsApart, Range_, Claiming
<1>21. Cursors'
  <2>1. \A j \in Kinds : ~ last'[j] < 0
    <3>. TAKE j \in Kinds
    <3>1. ~ last[j] < 0 /\ last[j] \in Int
      BY <1>2, <1>16 DEF SharedOK, Cursors
    <3>. QED
      BY <1>8, <3>1
  <2>2. last' \in [Kinds -> Int]
    BY <1>1, <1>6, <1>7
  <2>3. \A j \in Kinds : last'[j] <= Capacity
    BY <1>2, <1>6, <1>8 DEF SharedOK, Cursors
  <2>. QED
    BY <1>1, <1>2, <2>1, <2>2, <2>3 DEF SharedOK, Cursors
<1>22. \A j \in Kinds : SharedWords(j)' = SharedWords(j)
  <2>. TAKE j \in Kinds
  <2>1. ASSUME NEW n
        PROVE  n \in SharedWords(j)' <=> n \in SharedWords(j)
    <3>1. n \in SharedWords(j) <=>
            /\ n \in 0 .. last[j] - 1
            /\ \A q \in Procs \ {p} : pc[q] = "fill" /\ kind[q] = j => n \notin lo[q] .. hi[q] - 1
      BY <1>1, <1>16, InShared DEF Range_
    <3>2. n \in SharedWords(j)' <=>
            /\ n \in 0 .. last'[j] - 1
            /\ j = k => n \notin lo'[p] .. hi'[p] - 1
            /\ \A q \in Procs \ {p} : pc[q] = "fill" /\ kind[q] = j => n \notin lo[q] .. hi[q] - 1
      BY <1>13, <1>16, <1>17, InSharedNext
    <3>3. n \in 0 .. last[j] - 1 <=>
            n \in 0 .. last'[j] - 1 /\ (j = k => n \notin lo'[p] .. hi'[p] - 1)
      <4>1. CASE j = k
        BY <1>6, <1>8, <1>9, <4>1
      <4>2. CASE j # k
        BY <1>8, <4>2
      <4>. QED
        BY <4>1, <4>2
    <3>. QED
      BY <3>1, <3>2, <3>3
  <2>. QED
    BY <2>1
<1>23. Graph' /\ Conserved' /\ Pending' = Pending
  BY <1>1, <1>2, <1>22, SameGraph, SameConserved, SamePending DEF gcVars
<1>24. Count'
  BY <1>0, <1>1, SameCount
<1>25. unscanned' = unscanned /\ pc[p] \notin {"await", "roots"} /\ ~ (verdict'[p] /\ pc'[p] = "pushed")
  BY <1>1, <1>13 DEF gcVars
<1>. QED
  BY <1>10, <1>12, <1>13, <1>14, <1>15, <1>19, <1>20, <1>21, <1>23, <1>24, <1>25, Moves DEF SharedOK

LEMMA FillKeeps ==
  ASSUME Inv, NEW p \in Procs, Fill(p), UNCHANGED gcVars
  PROVE  Inv'
<1>0. /\ RegTypes /\ Count /\ Counted(p) /\ Staged(p) /\ Registers(p)
      /\ kind[p] \in Kinds /\ 1 \in Kinds
  BY Unfold
<1>2. SharedOK /\ Graph /\ Conserved
  BY DEF Inv
<1>3. PICK k \in Kinds : k = kind[p]
  BY <1>0
<1>. DEFINE more == k + 1 \in Kinds
            words == [n \in 0 .. Capacity - 1 |->
                        IF n \in lo[p] .. hi[p] - 1 THEN local[p][k][n - lo[p] + 1]
                                                    ELSE slots[k][n]]
<1>1. /\ pc[p] = "fill" /\ pc' = [pc EXCEPT ![p] = IF more THEN "reserve" ELSE "pushEnd"]
      /\ kind' = [kind EXCEPT ![p] = IF more THEN k + 1 ELSE 1]
      /\ slots' = [slots EXCEPT ![k] = words]
      /\ local' = [local EXCEPT ![p][k] = <<>>]
      /\ lo' = [lo EXCEPT ![p] = 0] /\ hi' = [hi EXCEPT ![p] = 0]
      /\ UNCHANGED <<absVars, last, numLocalStack, hasShared, request, objRequest,
                     fetched, ret, verdict, gcVars>>
  BY <1>3 DEF Fill, AfterKind, Goto
<1>4. PICK a \in Nat : a = lo[p]
  BY <1>0 DEF RegTypes
<1>5. PICK b \in Nat : b = hi[p]
  BY <1>0 DEF RegTypes
<1>6. PICK set \in Seq(Items) : set = local[p][k]
  BY <1>0 DEF RegTypes
<1>7. /\ last \in [Kinds -> Int] /\ Capacity \in Nat
      /\ b - a = Len(set) /\ a < b /\ b <= last[k] /\ last[k] <= Capacity
      /\ slots \in [Kinds -> [0 .. Capacity - 1 -> Items \cup {NoItem}]]
  BY <1>1, <1>2, <1>3, <1>4, <1>5, <1>6, SharedStackAssumption DEF SharedOK, Cursors, Claims
<1>8. DOMAIN set = 1 .. b - a
  BY <1>6, <1>7, LenProperties
<1>9. /\ words \in [0 .. Capacity - 1 -> Items \cup {NoItem}]
      /\ \A n \in a .. b - 1 : words[n] = set[n - a + 1]
      /\ \A n \in 0 .. Capacity - 1 : n \notin a .. b - 1 => words[n] = slots[k][n]
  <2>1. \A n \in a .. b - 1 : n - a + 1 \in DOMAIN set
    BY <1>8
  <2>2. \A n \in a .. b - 1 : set[n - a + 1] \in Items
    BY <1>6, <2>1
  <2>3. \A n \in 0 .. Capacity - 1 : slots[k][n] \in Items \cup {NoItem}
    BY <1>7
  <2>4. \A n \in a .. b - 1 : n \in 0 .. Capacity - 1
    BY <1>7
  <2>5. words = [n \in 0 .. Capacity - 1 |->
                   IF n \in a .. b - 1 THEN set[n - a + 1] ELSE slots[k][n]]
    BY <1>4, <1>5, <1>6
  <2>. QED
    BY <2>2, <2>3, <2>4, <2>5
<1>. HIDE DEF more, words
<1>10. /\ slots'[k] = words /\ \A j \in Kinds : j # k => slots'[j] = slots[j]
       /\ slots' \in [Kinds -> [0 .. Capacity - 1 -> Items \cup {NoItem}]]
  BY <1>1, <1>7, <1>9
<1>11. /\ local' \in [Procs -> [Kinds -> Seq(Items)]]
       /\ local'[p][k] = <<>>
       /\ \A q \in Procs, j \in Kinds : q # p \/ j # k => local'[q][j] = local[q][j]
  <2>1. local \in [Procs -> [Kinds -> Seq(Items)]]
    BY <1>0 DEF RegTypes
  <2>2. local' = [local EXCEPT ![p] = [local[p] EXCEPT ![k] = <<>>]]
    BY <1>1
  <2>3. [local[p] EXCEPT ![k] = <<>>] \in [Kinds -> Seq(Items)]
    BY <2>1
  <2>. QED
    BY <2>1, <2>2, <2>3
<1>12. \A q \in Procs \ {p} : Same(q)
  BY <1>0, <1>1 DEF Same, RegTypes, gcVars
<1>13. RegTypes'
  <2>1. kind' \in [Procs -> Kinds]
    BY <1>0, <1>1 DEF RegTypes, more
  <2>2. lo' \in [Procs -> Nat] /\ hi' \in [Procs -> Nat] /\ pc' \in [Procs -> Labels]
    BY <1>0, <1>1 DEF RegTypes, Labels, Pushing
  <2>. QED
    BY <1>0, <1>1, <1>11, <2>1, <2>2 DEF RegTypes, gcVars
<1>14. /\ pc'[p] = IF more THEN "reserve" ELSE "pushEnd"
       /\ kind'[p] = IF more THEN k + 1 ELSE 1
       /\ ret'[p] = ret[p] /\ ret[p] \in {"shared", "pushed"}
       /\ ~ fetched'[p] /\ ~ verdict'[p] /\ hasShared'[p] = hasShared[p]
       /\ stage[p] = 1 /\ stage'[p] = 1 /\ (~ Empty(p) => hasShared[p])
  BY <1>0, <1>1 DEF RegTypes, Counted, Staged, Registers, gcVars, Leaving,
     Pushing, Popping
<1>15. /\ more => \A j \in Kinds : j < kind'[p] => local'[p][j] = <<>>
       /\ ~ more => Empty(p)'
       /\ ~ Empty(p)' => ~ Empty(p)
  <2>1. \A j \in Kinds : j < k \/ j = k => local'[p][j] = <<>>
    BY <1>0, <1>1, <1>3, <1>11 DEF Registers
  <2>2. more => \A j \in Kinds : j < kind'[p] => local'[p][j] = <<>>
    BY <1>14, <2>1, NextKind DEF more
  <2>3. ~ more => Empty(p)'
    BY <2>1, NextKind DEF more, Empty
  <2>4. ~ Empty(p)' => ~ Empty(p)
    BY <1>11 DEF Empty
  <2>. QED
    BY <2>2, <2>3, <2>4
<1>16. LocalOK(p)'
  BY <1>14, <1>15 DEF LocalOK, Counted, Staged, Registers, LeavesEmpty, Before, Popping, Pushing,
     Leaving
<1>17. p \in inside[1]
  BY <1>1 DEF Inv, RoomsOK, IsInside, RoomOf, Popping, Leaving
<1>18. RoomsOK'
  <2>1. pc'[p] \in Working /\ RoomOf(p)' = RoomOf(p)
    BY <1>1, <1>14 DEF Working, RoomOf, Popping, Pushing, Leaving
  <2>2. InRoom(p)
    BY <1>17, RoomsAre DEF InRoom
  <2>3. ~ Queued(p)
    BY <2>2, InsideIs
  <2>4. pc[p] \notin {"finalizer", "noFinalizer"}
    BY <1>1
  <2>. QED
    BY <1>1, <1>12, <1>14, <2>1, <2>2, <2>3, <2>4, RoomsStay
<1>19. \A q \in Procs : pc[q] \notin {"overreach", "copy"} /\ pc'[q] \notin {"overreach", "copy"}
  BY <1>12, <1>14, <1>17, OneSide DEF Same
<1>20. /\ pc[p] \in Claiming /\ pc'[p] \notin Claiming
       /\ \A q \in Procs : pc'[q] \in Claiming => q # p
       /\ \A q \in Procs : pc[q] = "overreach" => q # p
  BY <1>1, <1>14 DEF Claiming
<1>21. \A q \in Procs \ {p} : /\ pc'[q] = pc[q] /\ kind'[q] = kind[q]
                              /\ lo'[q] = lo[q] /\ hi'[q] = hi[q] /\ local'[q] = local[q]
  BY <1>12 DEF Same
<1>22. SharedOK'
  <2>1. Claims'
    BY <1>1, <1>2, <1>19, <1>20, <1>21 DEF SharedOK, Claims, Claiming
  <2>2. ClaimsApart'
    BY <1>2, <1>20, <1>21 DEF SharedOK, ClaimsApart, Range_
  <2>3. Cursors'
    <3>1. last' = last /\ Cursors
      BY <1>1, <1>2 DEF SharedOK
    <3>2. \A j \in Kinds : ~ last'[j] < 0
      BY <1>19, <3>1 DEF Cursors
    <3>. QED
      BY <1>10, <3>1, <3>2 DEF Cursors
  <2>. QED
    BY <2>1, <2>2, <2>3 DEF SharedOK
<1>23. ASSUME NEW j \in Kinds, NEW n
       PROVE  /\ n \in SharedWords(j)' <=> n \in SharedWords(j) \/ (j = k /\ n \in a .. b - 1)
              /\ j = k /\ n \in a .. b - 1 => n \notin SharedWords(j)
              /\ n \in SharedWords(j) => n \in 0 .. Capacity - 1
  <2>1. n \in SharedWords(j) <=>
          /\ n \in 0 .. last[j] - 1
          /\ j = k => n \notin a .. b - 1
          /\ \A q \in Procs \ {p} : pc[q] = "fill" /\ kind[q] = j => n \notin lo[q] .. hi[q] - 1
    BY <1>1, <1>3, <1>4, <1>5, <1>19, InShared DEF Range_
  <2>2. n \in SharedWords(j)' <=>
          /\ n \in 0 .. last[j] - 1
          /\ \A q \in Procs \ {p} : pc[q] = "fill" /\ kind[q] = j => n \notin lo[q] .. hi[q] - 1
    <3>1. pc'[p] # "fill" /\ last' = last
      BY <1>1, <1>14
    <3>. QED
      BY <1>19, <1>21, <3>1, InSharedNext
  <2>3. j = k /\ n \in a .. b - 1 => n \in 0 .. last[j] - 1
    BY <1>7
  <2>4. ASSUME NEW q \in Procs \ {p}, pc[q] = "fill", kind[q] = j, j = k, n \in a .. b - 1
        PROVE  n \notin lo[q] .. hi[q] - 1
    BY <1>1, <1>2, <1>3, <1>4, <1>5, <2>4 DEF SharedOK, ClaimsApart, Claiming, Range_
  <2>5. n \in 0 .. last[j] - 1 => n \in 0 .. Capacity - 1
    BY <1>2, <1>7 DEF SharedOK, Cursors
  <2>. QED
    BY <2>1, <2>2, <2>3, <2>4, <2>5
<1>24. Graph' /\ Pending' = Pending /\ unscanned' = unscanned
  BY <1>1, <1>2, SameGraph, SamePending DEF gcVars
<1>25. Conserved'
  <2>1. DOMAIN local[p][k] = 1 .. b - a /\ DOMAIN local'[p][k] = {}
    BY <1>6, <1>8, <1>11
  <2>2. \A j \in Kinds : j # k => SharedWords(j)' = SharedWords(j)
    <3>. TAKE j \in Kinds
    <3>1. j # k => \A n : n \in SharedWords(j)' <=> n \in SharedWords(j)
      BY <1>23
    <3>. QED
      BY <3>1
  <2>3. \A n : n \in SharedWords(k)' <=> n \in SharedWords(k) \/ n \in a .. b - 1
    BY <1>23
  <2>4. \A n \in a .. b - 1 : n \notin SharedWords(k)
    BY <1>23
  <2>5. \A j \in Kinds : \A n \in SharedWords(j) : n \in 0 .. Capacity - 1
    BY <1>23
  <2>. HIDE DEF SharedWords, Pending
  <2>6. \A j \in Kinds : \A n \in SharedWords(j) : slots'[j][n] = slots[j][n]
    BY <1>9, <1>10, <2>4, <2>5
  <2>7. \A n \in a .. b - 1 : slots'[k][n] = local[p][k][n - a + 1]
    BY <1>6, <1>9, <1>10
  <2>8. a \in Int /\ b \in Int /\ Pending' = Pending /\ Conserved
    BY <1>2, <1>24
  <2>9. \A q \in Procs, j \in Kinds : q # p \/ j # k => local'[q][j] = local[q][j]
    BY <1>11
  <2>. QED
    BY <2>1, <2>2, <2>3, <2>4, <2>6, <2>7, <2>8, <2>9, PutOut
<1>28. Count'
  BY <1>0, <1>1, SameCount
<1>29. pc[p] \notin {"await", "roots"} /\ ~ (verdict'[p] /\ pc'[p] = "pushed")
  BY <1>1, <1>14
<1>. QED
  BY <1>12, <1>13, <1>14, <1>16, <1>18, <1>22, <1>24, <1>25, <1>28, <1>29, Moves

----------------------------------------------------------------------------
(* Finding and doing work.                                                 *)

(* p has done the work D it held, and holds the new work W, new[1] to      *)
(* new[N], at the end of its set o, after base others.                     *)
Renewed(p, o, W, D, base, N, new) ==
  /\ Pending' = (Pending \ D) \cup W /\ W \cap Pending = {} /\ W \cap D = {}
  /\ \A q \in Procs \ {p} : local'[q] = local[q]
  /\ \A d \in D : \E j \in Kinds : \E m \in DOMAIN local[p][j] : local[p][j][m] = d
  /\ \A j \in Kinds : \A m \in DOMAIN local'[p][j] :
       \/ m \in DOMAIN local[p][j] /\ local'[p][j][m] = local[p][j][m]
            /\ local[p][j][m] \notin D
       \/ j = o /\ m \in Int /\ m - base \in 1 .. N /\ local'[p][j][m] = new[m - base]
  /\ \A j \in Kinds : \A m \in DOMAIN local[p][j] :
       \/ local[p][j][m] \in D
       \/ m \in DOMAIN local'[p][j] /\ local'[p][j][m] = local[p][j][m]
  /\ \A n \in 1 .. N : base + n \in DOMAIN local'[p][o] /\ local'[p][o][base + n] = new[n]
  /\ \A n \in 1 .. N : new[n] \in W
  /\ \A w \in W : \E n \in 1 .. N : new[n] = w
  /\ \A m, n \in 1 .. N : new[m] = new[n] => m = n

LEMMA Worked ==
  ASSUME Conserved, slots' = slots, \A j \in Kinds : SharedWords(j)' = SharedWords(j),
         NEW p \in Procs, NEW o \in Kinds, NEW W, NEW D,
         NEW base \in Nat, NEW N \in Nat, NEW new, Renewed(p, o, W, D, base, N, new)
  PROVE  Conserved'
<1>. HIDE DEF SharedWords, Pending
<1>. USE DEF Renewed
<1>. DEFINE Old(q, j, m) == /\ m \in DOMAIN local[q][j]
                            /\ local'[q][j][m] = local[q][j][m]
                            /\ local[q][j][m] \notin D
            New(q, j, m) == /\ q = p /\ j = o /\ m \in Int /\ m - base \in 1 .. N
                            /\ local'[q][j][m] = new[m - base]
<1>1. \A q \in Procs \ {p}, j \in Kinds : \A m \in DOMAIN local[q][j] : local[q][j][m] \notin D
  BY DEF Conserved, LocalOnce
<1>2. \A j \in Kinds : \A n \in SharedWords(j) : slots[j][n] \notin D
  BY DEF Conserved, NotBoth
<1>3. ASSUME NEW q \in Procs, NEW j \in Kinds, NEW m \in DOMAIN local'[q][j]
      PROVE  Old(q, j, m) \/ New(q, j, m)
  <2>1. CASE q = p
    BY <2>1
  <2>2. CASE q # p
    BY <1>1, <2>2
  <2>. QED
    BY <2>1, <2>2
<1>4. ASSUME NEW q, NEW j, NEW m, NEW r, NEW i, NEW n, New(q, j, m), New(r, i, n),
             local'[q][j][m] = local'[r][i][n]
      PROVE  q = r /\ j = i /\ m = n
  <2>1. PICK x \in 1 .. N : x = m - base /\ local'[q][j][m] = new[x]
    BY <1>4
  <2>2. PICK y \in 1 .. N : y = n - base /\ local'[r][i][n] = new[y]
    BY <1>4
  <2>3. x = y
    BY <1>4, <2>1, <2>2
  <2>4. m \in Int /\ n \in Int
    BY <1>4
  <2>. QED
    BY <1>4, <2>1, <2>2, <2>3, <2>4
<1>5. /\ \A q \in Procs, j \in Kinds : \A m : Old(q, j, m) =>
           /\ m \in DOMAIN local[q][j] /\ local'[q][j][m] = local[q][j][m]
           /\ local'[q][j][m] \in Pending \ D
      /\ \A q, j, m : New(q, j, m) => local'[q][j][m] \in W
  BY DEF Conserved, LocalIsWork
<1>. HIDE DEF Old, New
<1>6. LocalIsWork'
  <2>. SUFFICES ASSUME NEW q \in Procs, NEW j \in Kinds, NEW m \in DOMAIN local'[q][j]
                PROVE  local'[q][j][m] \in Pending'
    BY DEF LocalIsWork
  <2>. QED
    BY <1>3, <1>5
<1>7. SharedIsWork' /\ SharedOnce'
  <2>1. \A j \in Kinds : \A n \in SharedWords(j)' : slots'[j][n] \in Pending'
    BY <1>2 DEF Conserved, SharedIsWork
  <2>2. SharedOnce'
    BY DEF Conserved, SharedOnce
  <2>. QED
    BY <2>1, <2>2 DEF SharedIsWork
<1>8. NotBoth'
  <2>. SUFFICES ASSUME NEW q \in Procs, NEW j \in Kinds, NEW i \in Kinds,
                       NEW m \in DOMAIN local'[q][j], NEW n \in SharedWords(i),
                       local'[q][j][m] = slots[i][n]
                PROVE  FALSE
    BY DEF NotBoth
  <2>1. slots[i][n] \in Pending
    BY DEF Conserved, SharedIsWork
  <2>2. CASE Old(q, j, m)
    BY <1>5, <2>2 DEF Conserved, NotBoth
  <2>3. CASE New(q, j, m)
    BY <1>5, <2>1, <2>3
  <2>. QED
    BY <1>3, <2>2, <2>3
<1>9. LocalOnce'
  <2>. SUFFICES ASSUME NEW q \in Procs, NEW r \in Procs, NEW j \in Kinds, NEW i \in Kinds,
                       NEW m \in DOMAIN local'[q][j], NEW n \in DOMAIN local'[r][i],
                       local'[q][j][m] = local'[r][i][n]
                PROVE  q = r /\ j = i /\ m = n
    BY DEF LocalOnce
  <2>1. CASE Old(q, j, m) /\ Old(r, i, n)
    BY <1>5, <2>1 DEF Conserved, LocalOnce
  <2>2. CASE Old(q, j, m) /\ New(r, i, n)
    BY <1>5, <2>2
  <2>3. CASE New(q, j, m) /\ Old(r, i, n)
    BY <1>5, <2>3
  <2>4. CASE New(q, j, m) /\ New(r, i, n)
    BY <1>4, <2>4
  <2>. QED
    BY <1>3, <2>1, <2>2, <2>3, <2>4
<1>10. WorkIsSomewhere'
  <2>. SUFFICES ASSUME NEW i \in Pending'
                PROVE  \/ \E j \in Kinds : \E n \in SharedWords(j) : slots[j][n] = i
                       \/ \E q \in Procs, j \in Kinds : \E n \in DOMAIN local'[q][j] :
                            local'[q][j][n] = i
    BY DEF WorkIsSomewhere
  <2>1. ASSUME NEW q \in Procs, NEW j \in Kinds, NEW m \in DOMAIN local[q][j], local[q][j][m] = i,
               i \notin D
        PROVE  m \in DOMAIN local'[q][j] /\ local'[q][j][m] = i
    <3>1. CASE q = p
      BY <2>1, <3>1
    <3>2. CASE q # p
      BY <2>1, <3>2
    <3>. QED
      BY <3>1, <3>2
  <2>2. CASE i \in W
    <3>1. PICK n \in 1 .. N : new[n] = i
      BY <2>2
    <3>2. base + n \in DOMAIN local'[p][o] /\ local'[p][o][base + n] = i
      BY <3>1
    <3>. QED
      BY <3>2
  <2>3. CASE i \in Pending /\ i \notin D
    <3>1. CASE \E j \in Kinds : \E n \in SharedWords(j) : slots[j][n] = i
      BY <3>1
    <3>2. CASE \E q \in Procs, j \in Kinds : \E n \in DOMAIN local[q][j] : local[q][j][n] = i
      BY <2>1, <2>3, <3>2
    <3>. QED
      BY <2>3, <3>1, <3>2 DEF Conserved, WorkIsSomewhere
  <2>. QED
    BY <2>2, <2>3
<1>. QED
  BY <1>6, <1>7, <1>8, <1>9, <1>10 DEF Conserved

LEMMA Appended ==
  ASSUME NEW S, NEW s \in Seq(S), NEW t \in Seq(S)
  PROVE  /\ s \o t \in Seq(S) /\ DOMAIN (s \o t) = 1 .. Len(s) + Len(t)
         /\ \A m \in 1 .. Len(s) : (s \o t)[m] = s[m]
         /\ \A n \in 1 .. Len(t) : (s \o t)[Len(s) + n] = t[n]
<1>. DEFINE L == Len(s)
            N == Len(t)
<1>0. L \in Nat /\ N \in Nat
  OBVIOUS
<1>1. s \o t \in Seq(S)
  BY ConcatProperties
<1>2. Len(s \o t) = L + N
  <2>1. Len(s \o t) = Len(s) + Len(t)
    BY ConcatProperties
  <2>. QED
    BY <2>1
<1>3. DOMAIN (s \o t) = 1 .. Len(s \o t)
  BY <1>1, LenProperties
<1>4. \A i \in 1 .. L + N : (s \o t)[i] = IF i <= L THEN s[i] ELSE t[i - L]
  OBVIOUS
<1>. HIDE DEF L, N
<1>5. \A m \in 1 .. L : (s \o t)[m] = s[m]
  <2>. TAKE m \in 1 .. L
  <2>1. m \in 1 .. L + N /\ m <= L
    BY <1>0
  <2>. QED
    BY <1>4, <2>1
<1>6. \A n \in 1 .. N : (s \o t)[L + n] = t[n]
  <2>. TAKE n \in 1 .. N
  <2>1. L + n \in 1 .. L + N /\ ~ L + n <= L /\ (L + n) - L = n
    BY <1>0
  <2>. QED
    BY <1>4, <2>1
<1>. QED
  BY <1>1, <1>2, <1>3, <1>5, <1>6 DEF L, N

(* New work is found only while nobody knows that the work is done.        *)
LEMMA NobodyKnows ==
  ASSUME Inv, NEW p \in Procs, \A q \in Procs \ {p} : Same(q), ~ Knows(p)',
         Pending # {} \/ unscanned # {}
  PROVE  Done'
<1>1. \A q \in Procs : ~ Knows(q)
  <2>. TAKE q \in Procs
  <2>1. Done /\ Phases
    BY DEF Inv
  <2>2. Knows(q) => PastRoots(q)
    <3>1. pc[q] = "pushed" => stage[q] = 1
      BY Unfold DEF Staged
    <3>. QED
      BY <3>1 DEF Knows, PastRoots
  <2>3. Knows(q) => unscanned = {}
    BY <2>1, <2>2 DEF Phases
  <2>. HIDE DEF Pending
  <2>4. Knows(q) => Pending = {}
    BY <2>1 DEF Done, Knows
  <2>. QED
    BY <2>3, <2>4
<1>2. \A q \in Procs \ {p} : ~ Knows(q)'
  BY <1>1 DEF Knows, Same
<1>3. \A q \in Procs : ~ Knows(q)'
  BY <1>2
<1>. HIDE DEF Pending
<1>. QED
  BY <1>3 DEF Done, Knows

LEMMA ScanThreadKeeps ==
  ASSUME Inv, NEW p \in Procs, NEW t \in Threads, ScanThread(p, t)
  PROVE  Inv'
<1>0. /\ RegTypes /\ Count /\ Counted(p) /\ Staged(p) /\ Registers(p)
      /\ kind[p] \in Kinds /\ 1 \in Kinds
  BY Unfold
<1>1. /\ pc[p] = "roots" /\ t \in unscanned /\ unscanned' = unscanned \ {t}
      /\ local' = [local EXCEPT ![p][RootKind] = local[p][RootKind] \o RootsOf[t]]
      /\ UNCHANGED <<absVars, slots, last, numLocalStack, hasShared, regVars, pc,
                     ret, verdict, stage, first, copied, scanned, worked>>
  BY DEF ScanThread
<1>2. SharedOK /\ Graph /\ Conserved
  BY DEF Inv
<1>3. PICK k \in Kinds : k = RootKind
  BY KindsAre
<1>4. PICK old \in Seq(Items) : old = local[p][k]
  BY <1>0 DEF RegTypes
<1>5. PICK L \in Nat : L = Len(old)
  BY <1>4
<1>6. PICK new \in Seq(Items) : new = RootsOf[t]
  BY SemiParaAssumption
<1>7. PICK N \in Nat : N = Len(new) /\ DOMAIN new = 1 .. N
  BY <1>6
<1>8. /\ old \o new \in Seq(Items) /\ DOMAIN (old \o new) = 1 .. L + N
      /\ \A m \in 1 .. L : (old \o new)[m] = old[m]
      /\ \A n \in 1 .. N : (old \o new)[L + n] = new[n]
  <2>1. old \in Seq(Items) /\ new \in Seq(Items) /\ L \in Nat /\ N \in Nat
    OBVIOUS
  <2>2. L = Len(old) /\ N = Len(new)
    BY <1>5, <1>7
  <2>. QED
    BY <2>1, <2>2, Appended
<1>9. /\ local' \in [Procs -> [Kinds -> Seq(Items)]]
      /\ local'[p][k] = old \o new
      /\ \A q \in Procs, j \in Kinds : q # p \/ j # k => local'[q][j] = local[q][j]
  <2>1. local \in [Procs -> [Kinds -> Seq(Items)]] /\ old \o new \in Seq(Items)
    BY <1>0, <1>8 DEF RegTypes
  <2>2. local' = [local EXCEPT ![p] = [local[p] EXCEPT ![k] = old \o new]]
    BY <1>1, <1>3, <1>4, <1>6
  <2>3. [local[p] EXCEPT ![k] = old \o new] \in [Kinds -> Seq(Items)]
    BY <2>1
  <2>. QED
    BY <2>1, <2>2, <2>3
<1>10. \A q \in Procs \ {p} : Same(q)
  BY <1>0, <1>1 DEF Same, RegTypes, regVars
<1>11. RegTypes'
  BY <1>0, <1>1, <1>9 DEF RegTypes, regVars
<1>12. /\ pc'[p] = "roots" /\ kind'[p] = 1 /\ ret'[p] = ret[p]
       /\ ~ fetched'[p] /\ ~ verdict'[p] /\ hasShared'[p]
       /\ stage[p] = 1 /\ stage'[p] = 1
  BY <1>0, <1>1 DEF RegTypes, Counted, Staged, Registers, regVars, Leaving, Popping
<1>13. LocalOK(p)'
  BY <1>12 DEF LocalOK, Counted, Staged, Registers, LeavesEmpty, Before, Popping, Pushing,
     Leaving
<1>14. RoomsOK'
  <2>1. UNCHANGED <<absVars, pc, ret, fetched>>
    BY <1>1 DEF regVars
  <2>. QED
    BY <2>1 DEF Inv, RoomsOK, RoomTypes, WaitsOnce, Waits, IsInside, OneRoom, RoomOf, absVars
<1>15. UNCHANGED <<slots, last, pc, kind, lo, hi, copied, scanned>>
  BY <1>1 DEF regVars
<1>16. SharedOK'
  <2>1. Claims'
    <3>1. \A q \in Procs : pc[q] \in Claiming => q # p
      BY <1>1 DEF Claiming
    <3>2. \A q \in Procs : pc'[q] \in Claiming => local'[q] = local[q]
      BY <1>10, <1>15, <3>1 DEF Same
    <3>. QED
      BY <1>2, <1>15, <3>2 DEF SharedOK, Claims, Claiming
  <2>2. ClaimsApart'
    BY <1>2, <1>15 DEF SharedOK, ClaimsApart, Range_
  <2>3. Cursors'
    BY <1>2, <1>15 DEF SharedOK, Cursors
  <2>. QED
    BY <2>1, <2>2, <2>3 DEF SharedOK
<1>17. \A j \in Kinds : SharedWords(j)' = SharedWords(j)
  BY <1>15 DEF SharedWords, Range_
<1>. DEFINE W == {new[n] : n \in 1 .. N}
            D == {}
<1>18. Found' = Found \cup W
  <2>1. Threads \ unscanned' = (Threads \ unscanned) \cup {t}
    BY <1>1
  <2>. QED
    BY <1>6, <1>7, <2>1 DEF Found
<1>19. W \subseteq Roots
  BY <1>6, <1>7 DEF Roots
<1>20. W \cap Found = {}
  <2>. SUFFICES ASSUME NEW n \in 1 .. N, new[n] \in Found PROVE FALSE
    OBVIOUS
  <2>0. PICK u \in Threads \ unscanned : \E m \in DOMAIN RootsOf[u] : RootsOf[u][m] = new[n]
    BY DEF Found
  <2>1. PICK m \in DOMAIN RootsOf[u] : RootsOf[u][m] = new[n]
    BY <2>0
  <2>2. n \in DOMAIN RootsOf[t] /\ RootsOf[t][n] = RootsOf[u][m]
    BY <1>6, <1>7, <2>1
  <2>3. t = u
    BY <2>1, <2>2, SemiParaAssumption
  <2>. QED
    BY <1>1, <2>1, <2>3
<1>21. W \cap copied = {} /\ W \cap scanned = {}
  BY <1>2, <1>19, <1>20 DEF Graph
<1>22. Pending' = (Pending \ D) \cup W /\ W \cap Pending = {}
  BY <1>15, <1>18, <1>20, <1>21 DEF Pending
<1>23. Graph'
  BY <1>2, <1>15, <1>18 DEF Graph, Targets
<1>24. Conserved'
  <2>1. DOMAIN local[p][k] = 1 .. L
    BY <1>4, <1>5
  <2>2. \A j \in Kinds : \A m \in DOMAIN local'[p][j] :
           \/ m \in DOMAIN local[p][j] /\ local'[p][j][m] = local[p][j][m]
                /\ local[p][j][m] \notin D
           \/ j = k /\ m \in Int /\ m - L \in 1 .. N /\ local'[p][j][m] = new[m - L]
    <3>. TAKE j \in Kinds
    <3>. TAKE m \in DOMAIN local'[p][j]
    <3>1. CASE j # k
      BY <1>9, <3>1
    <3>2. CASE j = k /\ m <= L
      BY <1>4, <1>8, <1>9, <2>1, <3>2
    <3>3. CASE j = k /\ m > L
      <4>1. m \in Int /\ m - L \in 1 .. N /\ L + (m - L) = m
        BY <1>8, <1>9, <3>3
      <4>2. (old \o new)[L + (m - L)] = new[m - L]
        BY <1>8, <4>1
      <4>. QED
        BY <1>9, <3>3, <4>1, <4>2
    <3>4. j = k => m \in Int
      BY <1>8, <1>9
    <3>. QED
      BY <3>1, <3>2, <3>3, <3>4
  <2>3. \A j \in Kinds : \A m \in DOMAIN local[p][j] :
           \/ local[p][j][m] \in D
           \/ m \in DOMAIN local'[p][j] /\ local'[p][j][m] = local[p][j][m]
    <3>. TAKE j \in Kinds
    <3>. TAKE m \in DOMAIN local[p][j]
    <3>1. CASE j # k
      BY <1>9, <3>1
    <3>2. CASE j = k
      <4>1. m \in 1 .. L /\ m \in 1 .. L + N
        BY <2>1, <3>2
      <4>. QED
        BY <1>4, <1>8, <1>9, <3>2, <4>1
    <3>. QED
      BY <3>1, <3>2
  <2>4. \A n \in 1 .. N : L + n \in DOMAIN local'[p][k] /\ local'[p][k][L + n] = new[n]
    <3>. TAKE n \in 1 .. N
    <3>1. L + n \in 1 .. L + N
      OBVIOUS
    <3>. QED
      BY <1>8, <1>9, <3>1
  <2>5. \A m, n \in 1 .. N : new[m] = new[n] => m = n
    <3>1. \A m, n \in DOMAIN RootsOf[t] : RootsOf[t][m] = RootsOf[t][n] => m = n
      BY SemiParaAssumption
    <3>. QED
      BY <1>6, <1>7, <3>1
  <2>6. /\ \A n \in 1 .. N : new[n] \in W
        /\ \A w \in W : \E n \in 1 .. N : new[n] = w
    OBVIOUS
  <2>7. \A q \in Procs \ {p} : local'[q] = local[q]
    BY <1>10 DEF Same
  <2>8. /\ \A d \in D : \E j \in Kinds : \E m \in DOMAIN local[p][j] : local[p][j][m] = d
        /\ W \cap D = {} /\ slots' = slots
    BY <1>15
  <2>9. Conserved /\ L \in Nat /\ N \in Nat /\ k \in Kinds
    BY <1>2
  <2>. HIDE DEF SharedWords, Pending, W, D
  <2>10. Renewed(p, k, W, D, L, N, new)
    BY <1>22, <2>2, <2>3, <2>4, <2>5, <2>6, <2>7, <2>8 DEF Renewed
  <2>. QED
    BY <1>17, <2>8, <2>9, <2>10, Worked
<1>25. Count'
  BY <1>0, <1>1, SameCount
<1>26. Phases'
  <2>1. /\ stage'[p] >= stage[p] /\ unscanned' \subseteq unscanned
        /\ ~ PastRoots(p)' /\ ~ PastSecond(p)' /\ stage'[p] # 2
    BY <1>1, <1>12 DEF PastRoots, PastSecond
  <2>. QED
    BY <1>10, <1>11, <2>1, PhasesKeep
<1>27. Done'
  <2>1. ~ Knows(p)' /\ unscanned # {}
    BY <1>1, <1>12 DEF Knows
  <2>. QED
    BY <1>10, <2>1, NobodyKnows
<1>. QED
  BY <1>10, <1>11, <1>13, <1>14, <1>16, <1>23, <1>24, <1>25, <1>26, <1>27, Finish

LEMMA RoomsSame ==
  ASSUME Inv, UNCHANGED <<absVars, pc, ret, fetched>>
  PROVE  RoomsOK'
<1>. QED
  BY DEF Inv, RoomsOK, RoomTypes, WaitsOnce, Waits, IsInside, OneRoom, RoomOf, absVars

LEMMA AllOfIt ==
  ASSUME NEW S, IsFiniteSet(S), NEW new \in SE!SetToSeqs(S)
  PROVE  \E N \in Nat :
           /\ new \in [1 .. N -> S]
           /\ \A m, n \in 1 .. N : new[m] = new[n] => m = n
           /\ \A w \in S : \E n \in 1 .. N : new[n] = w
<1>1. PICK N \in Nat : N = Cardinality(S)
  BY FS_CardinalityType
<1>2. new \in [1 .. N -> S] /\ \A m, n \in 1 .. N : m # n => new[m] # new[n]
  <2>1. SE!SetToSeqs(S) = {f \in [1 .. Cardinality(S) -> S] :
                             \A m, n \in 1 .. Cardinality(S) : m # n => f[m] # f[n]}
    BY DEF SE!SetToSeqs, SE!Cardinality, Cardinality
  <2>. QED
    BY <1>1, <2>1
<1>3. new \in Injection(1 .. N, S)
  BY <1>2 DEF Injection, IsInjective
<1>4. Cardinality(1 .. N) = N
  BY FS_Interval
<1>5. new \in Surjection(1 .. N, S)
  BY <1>1, <1>3, <1>4, FS_Injection
<1>6. \A w \in S : \E n \in 1 .. N : new[n] = w
  BY <1>5 DEF Surjection
<1>. QED
  BY <1>2, <1>6

LEMMA WorkOnKeeps ==
  ASSUME Inv, NEW p \in Procs, NEW k \in Kinds, WorkOn(p, k)
  PROVE  Inv'
<1>0. /\ RegTypes /\ Count /\ Counted(p) /\ Staged(p) /\ Registers(p)
      /\ kind[p] \in Kinds /\ 1 \in Kinds
  BY Unfold
<1>2. SharedOK /\ Graph /\ Conserved
  BY DEF Inv
<1>3. PICK o \in Kinds : o = ObjKind
  BY KindsAre
<1>4. PICK items \in Seq(Items) : items = local[p][k]
  BY <1>0 DEF RegTypes
<1>5. PICK L \in Nat \ {0} : L = Len(items) /\ DOMAIN items = 1 .. L
  <2>1. items # <<>>
    BY <1>4 DEF WorkOn
  <2>. QED
    BY <2>1
<1>6. PICK i \in Items : i = items[L]
  BY <1>5
<1>. DEFINE rest == [local[p] EXCEPT ![k] = SubSeq(items, 1, L - 1)]
            NC == NotCopied(i)
<1>7. PICK new \in SE!SetToSeqs(NC) : local' = [local EXCEPT ![p] = [rest EXCEPT ![o] = rest[o] \o new]]
  BY <1>3, <1>4, <1>5, <1>6 DEF WorkOn
<1>1. /\ pc[p] = "popped" /\ copied' = copied \cup Targets(i) /\ scanned' = scanned \cup {i}
      /\ UNCHANGED <<absVars, slots, last, numLocalStack, hasShared, regVars, pc,
                     ret, verdict, stage, first, unscanned>>
      /\ worked' = [worked EXCEPT ![p] = TRUE]
  BY <1>4, <1>5, <1>6 DEF WorkOn
<1>8. Targets(i) \subseteq Items \ Roots /\ NC \subseteq Items \ Roots
  <2>1. Fields[i] \in Seq(Items \ Roots)
    BY SemiParaAssumption
  <2>2. \A n \in DOMAIN Fields[i] : Fields[i][n] \in Items \ Roots
    BY <2>1
  <2>. QED
    BY <2>2 DEF Targets, NotCopied
<1>9. IsFiniteSet(NC)
  BY <1>8, SemiParaAssumption, FS_Subset
<1>10. PICK N \in Nat :
         /\ new \in [1 .. N -> NC]
         /\ \A m, n \in 1 .. N : new[m] = new[n] => m = n
         /\ \A w \in NC : \E n \in 1 .. N : new[n] = w
  BY <1>7, <1>9, AllOfIt
<1>11. new \in Seq(Items) /\ Len(new) = N
  BY <1>8, <1>10
<1>12. /\ rest \in [Kinds -> Seq(Items)]
       /\ DOMAIN rest[k] = 1 .. L - 1
       /\ \A m \in 1 .. L - 1 : rest[k][m] = items[m]
       /\ \A j \in Kinds : j # k => rest[j] = local[p][j]
  <2>1. local[p] \in [Kinds -> Seq(Items)]
    BY <1>0 DEF RegTypes
  <2>2. /\ SubSeq(items, 1, L - 1) \in Seq(Items)
        /\ DOMAIN SubSeq(items, 1, L - 1) = 1 .. L - 1
        /\ \A m \in 1 .. L - 1 : SubSeq(items, 1, L - 1)[m] = items[m]
    BY <1>5
  <2>. QED
    BY <2>1, <2>2
<1>. HIDE DEF rest, NC
<1>13. rest[o] \in Seq(Items)
  BY <1>12
<1>14. PICK B \in Nat : B = Len(rest[o]) /\ DOMAIN rest[o] = 1 .. B
  BY <1>13
<1>15. PICK all \in Seq(Items) :
         /\ all = rest[o] \o new /\ DOMAIN all = 1 .. B + N
         /\ \A m \in 1 .. B : all[m] = rest[o][m]
         /\ \A n \in 1 .. N : all[B + n] = new[n]
  <2>1. Len(rest[o]) = B /\ Len(new) = N
    BY <1>11, <1>14
  <2>2. /\ rest[o] \o new \in Seq(Items)
        /\ DOMAIN (rest[o] \o new) = 1 .. Len(rest[o]) + Len(new)
        /\ \A m \in 1 .. Len(rest[o]) : (rest[o] \o new)[m] = rest[o][m]
        /\ \A n \in 1 .. Len(new) : (rest[o] \o new)[Len(rest[o]) + n] = new[n]
    <3>1. PICK x \in Seq(Items) : x = rest[o]
      BY <1>13
    <3>2. new \in Seq(Items)
      BY <1>11
    <3>3. /\ x \o new \in Seq(Items)
          /\ DOMAIN (x \o new) = 1 .. Len(x) + Len(new)
          /\ \A m \in 1 .. Len(x) : (x \o new)[m] = x[m]
          /\ \A n \in 1 .. Len(new) : (x \o new)[Len(x) + n] = new[n]
      BY <3>2, Appended
    <3>. QED
      BY <3>1, <3>3
  <2>. QED
    BY <2>1, <2>2
<1>16. /\ local' \in [Procs -> [Kinds -> Seq(Items)]]
       /\ local'[p][o] = all
       /\ \A j \in Kinds : j # o => local'[p][j] = rest[j]
       /\ \A q \in Procs \ {p} : local'[q] = local[q]
  <2>1. local \in [Procs -> [Kinds -> Seq(Items)]]
    BY <1>0 DEF RegTypes
  <2>2. [rest EXCEPT ![o] = all] \in [Kinds -> Seq(Items)]
    BY <1>12
  <2>3. local' = [local EXCEPT ![p] = [rest EXCEPT ![o] = all]]
    BY <1>7, <1>15
  <2>. QED
    BY <1>12, <2>1, <2>2, <2>3
<1>17. \A q \in Procs \ {p} : Same(q)
  BY <1>0, <1>1, <1>16 DEF Same, RegTypes, regVars
<1>18. worked' \in [Procs -> BOOLEAN]
  BY <1>0, <1>1 DEF RegTypes
<1>19. RegTypes'
  BY <1>0, <1>1, <1>16, <1>18 DEF RegTypes, regVars
<1>20. ~ Empty(p)
  BY <1>4, <1>5 DEF Empty
<1>21. /\ pc'[p] = "popped" /\ kind'[p] = 1 /\ ret'[p] = ret[p]
       /\ ~ fetched'[p] /\ ~ verdict'[p] /\ hasShared'[p]
       /\ stage[p] = 1 /\ stage'[p] = 1
  BY <1>0, <1>1, <1>20 DEF RegTypes, Counted, Staged, Registers, regVars, Leaving, Popping
<1>22. LocalOK(p)'
  BY <1>21 DEF LocalOK, Counted, Staged, Registers, LeavesEmpty, Before, Popping, Pushing,
     Leaving
<1>23. RoomsOK'
  <2>1. UNCHANGED <<absVars, pc, ret, fetched>>
    BY <1>1 DEF regVars
  <2>. QED
    BY <2>1, RoomsSame
<1>24. UNCHANGED <<slots, last, pc, kind, lo, hi, unscanned>>
  BY <1>1 DEF regVars
<1>25. SharedOK'
  <2>1. Claims'
    <3>1. \A q \in Procs : pc[q] \in Claiming => q # p
      BY <1>1 DEF Claiming
    <3>2. \A q \in Procs : pc'[q] \in Claiming => local'[q] = local[q]
      BY <1>16, <1>24, <3>1
    <3>. QED
      BY <1>2, <1>24, <3>2 DEF SharedOK, Claims, Claiming
  <2>2. ClaimsApart'
    BY <1>2, <1>24 DEF SharedOK, ClaimsApart, Range_
  <2>3. Cursors'
    BY <1>2, <1>24 DEF SharedOK, Cursors
  <2>. QED
    BY <2>1, <2>2, <2>3 DEF SharedOK
<1>26. \A j \in Kinds : SharedWords(j)' = SharedWords(j)
  BY <1>24 DEF SharedWords, Range_
<1>27. i \in Pending
  <2>. HIDE DEF Pending
  <2>1. L \in DOMAIN local[p][k] /\ local[p][k][L] = i
    BY <1>4, <1>5, <1>6
  <2>. QED
    BY <1>2, <2>1 DEF Conserved, LocalIsWork
<1>28. /\ Found' = Found /\ Found \subseteq Roots /\ i \in Found \cup copied /\ i \notin scanned
       /\ scanned \subseteq Found \cup copied /\ copied \subseteq Items \ Roots
       /\ NC = Targets(i) \ copied /\ \A j \in scanned : Targets(j) \subseteq copied
  BY <1>2, <1>24, <1>27, PendingItems DEF Found, Pending, Graph, NC, NotCopied
<1>29. Pending' = (Pending \ {i}) \cup NC /\ NC \cap Pending = {} /\ NC \cap {i} = {}
  BY <1>1, <1>8, <1>28 DEF Pending
<1>30. Graph'
  <2>1. copied' \subseteq Items \ Roots /\ scanned' \subseteq Found' \cup copied'
    BY <1>1, <1>8, <1>28
  <2>2. \A j \in scanned' : Targets(j) \subseteq copied'
    BY <1>1, <1>28
  <2>. QED
    BY <2>1, <2>2 DEF Graph, Targets
<1>31. Conserved'
  <2>0. \A j \in Kinds : \A m \in DOMAIN rest[j] :
           /\ m \in DOMAIN local[p][j] /\ rest[j][m] = local[p][j][m]
           /\ local[p][j][m] # i
    <3>. TAKE j \in Kinds
    <3>. TAKE m \in DOMAIN rest[j]
    <3>1. m \in DOMAIN local[p][j] /\ rest[j][m] = local[p][j][m] /\ (j = k => m # L)
      <4>1. CASE j = k
        BY <1>4, <1>5, <1>12, <4>1
      <4>2. CASE j # k
        BY <1>12, <4>2
      <4>. QED
        BY <4>1, <4>2
    <3>2. L \in DOMAIN local[p][k] /\ local[p][k][L] = i
      BY <1>4, <1>5, <1>6
    <3>3. local[p][j][m] # i
      BY <1>2, <3>1, <3>2 DEF Conserved, LocalOnce
    <3>. QED
      BY <3>1, <3>3
  <2>1. \A j \in Kinds : \A m \in DOMAIN local[p][j] :
           local[p][j][m] = i \/ m \in DOMAIN rest[j]
    <3>. TAKE j \in Kinds
    <3>. TAKE m \in DOMAIN local[p][j]
    <3>1. CASE j = k
      <4>1. m \in 1 .. L /\ (m = L \/ m \in 1 .. L - 1)
        BY <1>4, <1>5, <3>1
      <4>. QED
        BY <1>4, <1>6, <1>12, <3>1, <4>1
    <3>2. CASE j # k
      BY <1>12, <3>2
    <3>. QED
      BY <3>1, <3>2
  <2>. DEFINE D == {i}
  <2>2. \A j \in Kinds : \A m \in DOMAIN local'[p][j] :
           \/ m \in DOMAIN local[p][j] /\ local'[p][j][m] = local[p][j][m]
                /\ local[p][j][m] \notin D
           \/ j = o /\ m \in Int /\ m - B \in 1 .. N /\ local'[p][j][m] = new[m - B]
    <3>. TAKE j \in Kinds
    <3>. TAKE m \in DOMAIN local'[p][j]
    <3>1. CASE j # o
      BY <1>16, <2>0, <3>1
    <3>2. CASE j = o
      <4>1. m \in 1 .. B + N
        BY <1>15, <1>16, <3>2
      <4>2. CASE m <= B
        <5>1. m \in 1 .. B /\ m \in DOMAIN rest[o]
          BY <1>14, <4>1, <4>2
        <5>. QED
          BY <1>15, <1>16, <2>0, <3>2, <5>1
      <4>3. CASE ~ m <= B
        <5>1. m \in Int /\ m - B \in 1 .. N /\ B + (m - B) = m
          BY <4>1, <4>3
        <5>2. all[B + (m - B)] = new[m - B]
          BY <1>15, <5>1
        <5>. QED
          BY <1>16, <3>2, <5>1, <5>2
      <4>. QED
        BY <4>2, <4>3
    <3>. QED
      BY <3>1, <3>2
  <2>3. \A j \in Kinds : \A m \in DOMAIN local[p][j] :
           \/ local[p][j][m] \in D
           \/ m \in DOMAIN local'[p][j] /\ local'[p][j][m] = local[p][j][m]
    <3>. TAKE j \in Kinds
    <3>. TAKE m \in DOMAIN local[p][j]
    <3>1. CASE local[p][j][m] = i
      BY <3>1
    <3>2. CASE m \in DOMAIN rest[j] /\ j # o
      BY <1>16, <2>0, <3>2
    <3>3. CASE m \in DOMAIN rest[j] /\ j = o
      <4>1. m \in 1 .. B /\ m \in 1 .. B + N
        BY <1>14, <3>3
      <4>. QED
        BY <1>15, <1>16, <2>0, <3>3, <4>1
    <3>. QED
      BY <2>1, <3>1, <3>2, <3>3
  <2>4. \A n \in 1 .. N : B + n \in DOMAIN local'[p][o] /\ local'[p][o][B + n] = new[n]
    <3>. TAKE n \in 1 .. N
    <3>1. B + n \in 1 .. B + N
      OBVIOUS
    <3>. QED
      BY <1>15, <1>16, <3>1
  <2>5. \A m, n \in 1 .. N : new[m] = new[n] => m = n
    BY <1>10
  <2>6. /\ \A n \in 1 .. N : new[n] \in NC
        /\ \A w \in NC : \E n \in 1 .. N : new[n] = w
    BY <1>10
  <2>7. \A d \in D : \E j \in Kinds : \E m \in DOMAIN local[p][j] : local[p][j][m] = d
    BY <1>4, <1>5, <1>6
  <2>8. Pending' = (Pending \ D) \cup NC /\ NC \cap Pending = {} /\ NC \cap D = {}
    BY <1>29
  <2>9. Conserved /\ B \in Nat /\ N \in Nat /\ o \in Kinds /\ slots' = slots
    BY <1>2, <1>24
  <2>. HIDE DEF SharedWords, Pending, D
  <2>10. Renewed(p, o, NC, D, B, N, new)
    BY <1>16, <2>2, <2>3, <2>4, <2>5, <2>6, <2>7, <2>8 DEF Renewed
  <2>. QED
    BY <1>26, <2>9, <2>10, Worked
<1>32. Count'
  BY <1>0, <1>1, SameCount
<1>33. Phases'
  <2>1. /\ stage'[p] >= stage[p] /\ unscanned' \subseteq unscanned
        /\ (PastRoots(p)' => PastRoots(p)) /\ ~ PastSecond(p)' /\ stage'[p] # 2
    BY <1>1, <1>21 DEF PastRoots, PastSecond
  <2>. QED
    BY <1>17, <1>19, <2>1, PhasesKeep
<1>34. Done'
  <2>1. ~ Knows(p)' /\ Pending # {}
    BY <1>21, <1>27 DEF Knows
  <2>. QED
    BY <1>17, <2>1, NobodyKnows
<1>. QED
  BY <1>17, <1>19, <1>22, <1>23, <1>25, <1>30, <1>31, <1>32, <1>33, <1>34, Finish

----------------------------------------------------------------------------
(* The invariant holds.                                                    *)

LEMMA InitInv == Init => Inv
<1>. SUFFICES ASSUME Init PROVE Inv
  OBVIOUS
<1>1. /\ queue = [r \in Rooms |-> <<>>] /\ inside = [r \in Rooms |-> {}] /\ closing = {}
      /\ slots = [k \in Kinds |-> [n \in 0 .. Capacity - 1 |-> NoItem]]
      /\ last = [k \in Kinds |-> 0] /\ numLocalStack = 0
      /\ local = [p \in Procs |-> [k \in Kinds |-> <<>>]]
      /\ hasShared = [p \in Procs |-> FALSE] /\ ret = [p \in Procs |-> "popped"]
      /\ kind = [p \in Procs |-> 1]
      /\ request = [p \in Procs |-> 0] /\ objRequest = [p \in Procs |-> 0]
      /\ lo = [p \in Procs |-> 0] /\ hi = [p \in Procs |-> 0]
      /\ fetched = [p \in Procs |-> FALSE] /\ verdict = [p \in Procs |-> FALSE]
      /\ pc = [p \in Procs |-> "stopCopy"] /\ stage = [p \in Procs |-> 0]
      /\ first = NoProc /\ unscanned = Threads /\ copied = {} /\ scanned = {}
      /\ worked = [p \in Procs |-> FALSE]
  BY DEF Init, SharedStackInit, AbsInit
<1>2. RoomsOK
  BY <1>1 DEF RoomsOK, RoomTypes, WaitsOnce, Waits, IsInside, OneRoom
<1>3. RegTypes
  <2>1. 1 \in Kinds
    BY KindsAre
  <2>2. local \in [Procs -> [Kinds -> Seq(Items)]]
    BY <1>1
  <2>3. /\ hasShared \in [Procs -> BOOLEAN] /\ fetched \in [Procs -> BOOLEAN]
        /\ verdict \in [Procs -> BOOLEAN] /\ worked \in [Procs -> BOOLEAN]
    BY <1>1
  <2>4. pc \in [Procs -> Labels] /\ stage \in [Procs -> 0 .. 3] /\ kind \in [Procs -> Kinds]
    BY <1>1, <2>1 DEF Labels, Before
  <2>. QED
    BY <1>1, <2>2, <2>3, <2>4 DEF RegTypes
<1>4. ASSUME NEW p \in Procs PROVE LocalOK(p)
  <2>1. /\ pc[p] = "stopCopy" /\ stage[p] = 0 /\ Empty(p) /\ ~ hasShared[p] /\ ~ fetched[p]
        /\ ~ verdict[p] /\ ret[p] = "popped" /\ kind[p] = 1
    BY <1>1 DEF Empty
  <2>. QED
    BY <2>1 DEF LocalOK, Counted, Staged, Registers, LeavesEmpty, Before, Popping, Pushing,
       Leaving
<1>5. SharedOK
  <2>1. Capacity \in Nat
    BY SharedStackAssumption
  <2>2. Cursors
    BY <1>1, <2>1 DEF Cursors
  <2>. QED
    BY <1>1, <2>2 DEF SharedOK, Claims, ClaimsApart, Claiming
<1>6. Count
  <2>1. {p \in Procs : hasShared[p]} = {}
    BY <1>1
  <2>. QED
    BY <1>1, <2>1, FS_EmptySet DEF Count
<1>7. Graph /\ Pending = {}
  BY <1>1 DEF Graph, Found, Pending
<1>8. Conserved
  <2>1. \A k \in Kinds : \A n : n \notin SharedWords(k)
    BY <1>1, InShared
  <2>2. \A p \in Procs, k \in Kinds : \A n : n \notin DOMAIN local[p][k]
    BY <1>1
  <2>. HIDE DEF SharedWords, Pending
  <2>. QED
    BY <1>7, <2>1, <2>2 DEF Conserved, SharedIsWork, LocalIsWork, SharedOnce, LocalOnce, NotBoth,
       WorkIsSomewhere
<1>9. Phases /\ Done
  BY <1>1, <1>7 DEF Phases, Done, PastRoots, PastSecond, Leaving
<1>. QED
  BY <1>2, <1>3, <1>4, <1>5, <1>6, <1>7, <1>8, <1>9 DEF Inv

(* No pop of p moves a cursor up.                                          *)
PopsDown == \A p \in Procs : Fetch(p) => last'[kind[p]] <= last[kind[p]]

LEMMA StackStepKeeps ==
  ASSUME Inv, PopsDown, NEW p \in Procs, StackStep(p), UNCHANGED gcVars
  PROVE  Inv'
<1>1. CASE PopEnter(p)
  BY <1>1, PopEnterKeeps
<1>2. CASE Fetch(p)
  <2>1. last'[kind[p]] <= last[kind[p]]
    BY <1>2 DEF PopsDown
  <2>. QED
    BY <1>2, <2>1, FetchKeeps
<1>3. CASE ResetLast(p)
  BY <1>3, ResetLastKeeps
<1>4. CASE Copy(p)
  BY <1>4, CopyKeeps
<1>5. CASE PopEnd(p)
  BY <1>5, PopEndKeeps
<1>6. CASE SkipEmpty(p)
  BY <1>6, SkipEmptyKeeps
<1>7. CASE Reserve(p)
  BY <1>7, ReserveKeeps
<1>8. CASE Fill(p)
  BY <1>8, FillKeeps
<1>9. CASE PushEnd(p)
  BY <1>9, PushEndKeeps
<1>10. CASE IsEmpty(p)
  BY <1>10, IsEmptyKeeps
<1>11. CASE ExitRoom(p)
  BY <1>11, ExitRoomKeeps
<1>12. CASE NoFinalizer(p)
  BY <1>12, NoFinalizerKeeps
<1>13. CASE Finalizer(p)
  BY <1>13, FinalizerKeeps
<1>. QED
  BY <1>1, <1>2, <1>3, <1>4, <1>5, <1>6, <1>7, <1>8, <1>9, <1>10, <1>11, <1>12, <1>13
  DEF StackStep

LEMMA NextInv == Inv /\ PopsDown /\ Next => Inv'
<1>. SUFFICES ASSUME Inv, PopsDown, Next
              PROVE  Inv'
  OBVIOUS
<1>1. ASSUME NEW p \in Procs, Step(p)
      PROVE  Inv'
  <2>1. CASE StackStep(p) /\ UNCHANGED gcVars
    BY <2>1, StackStepKeeps
  <2>2. CASE WeakBarrier(p)
    BY <2>2, WeakBarrierKeeps
  <2>3. CASE Check(p)
    BY <2>3, CheckKeeps
  <2>4. CASE AssertEmpty(p)
    BY <2>4, AssertEmptyKeeps
  <2>5. CASE Prepare(p)
    BY <2>5, PrepareKeeps
  <2>6. CASE StrongBarrier(p)
    BY <2>6, StrongBarrierKeeps
  <2>7. ASSUME NEW t \in Threads, ScanThread(p, t)
        PROVE  Inv'
    BY <2>7, ScanThreadKeeps
  <2>8. CASE PushRoots(p)
    BY <2>8, PushRootsKeeps
  <2>9. CASE Pop(p)
    BY <2>9, PopKeeps
  <2>10. CASE UpdateRoot(p) \/ ScanObject(p)
    <3>1. \E k \in Kinds : WorkOn(p, k)
      BY <2>10, KindsAre DEF UpdateRoot, ScanObject
    <3>. QED
      BY <3>1, WorkOnKeeps
  <2>11. CASE Push(p)
    BY <2>11, PushKeeps
  <2>12. CASE StopWork(p)
    BY <2>12, StopWorkKeeps
  <2>13. CASE Adjust(p)
    BY <2>13, AdjustKeeps
  <2>. QED
    BY <1>1, <2>1, <2>2, <2>3, <2>4, <2>5, <2>6, <2>7, <2>8, <2>9, <2>10, <2>11, <2>12, <2>13
    DEF Step
<1>2. ASSUME NEW r \in Rooms, AdmitNext(r)
      PROVE  Inv'
  BY <1>2, AdmitNextKeeps
<1>. QED
  BY <1>1, <1>2 DEF Next

LEMMA StutterInv == Inv /\ UNCHANGED allVars => Inv'
<1>. SUFFICES ASSUME Inv, UNCHANGED allVars
              PROVE  Inv'
  OBVIOUS
<1>1. UNCHANGED <<absVars, slots, last, numLocalStack, local, hasShared, kind, request, objRequest,
                  lo, hi, fetched, pc, ret, verdict, stage, first, unscanned, copied, scanned,
                  worked>>
  BY DEF allVars, absVars, ssVars, stackVars, regVars, gcVars
<1>2. \A q \in Procs : Same(q)
  BY <1>1 DEF Same
<1>3. RegTypes' /\ RoomsOK'
  BY <1>1, RoomsSame DEF Inv, RegTypes
<1>4. PICK p \in Procs : TRUE
  BY SharedStackAssumption
<1>5. LocalOK(p)' /\ Count'
  BY <1>1, <1>2, LocalSame, SameCount DEF Inv
<1>6. SharedOK'
  BY <1>1 DEF Inv, SharedOK, Claims, ClaimsApart, Cursors, Range_
<1>7. \A k \in Kinds : SharedWords(k)' = SharedWords(k)
  BY <1>1 DEF SharedWords, Range_
<1>8. Graph' /\ Conserved' /\ Pending' = Pending
  BY <1>1, <1>7, SameGraph, SameConserved, SamePending DEF Inv
<1>9. Phases'
  BY <1>1 DEF Inv, Phases, PastRoots, PastSecond
<1>10. Done'
  <2>. HIDE DEF Pending
  <2>. QED
    BY <1>1, <1>8 DEF Inv, Done
<1>. QED
  BY <1>2, <1>3, <1>5, <1>6, <1>8, <1>9, <1>10, Finish

LEMMA Invariant == Spec /\ PopsNeverIncrement => []Inv
<1>1. Inv /\ [Next]_allVars /\ [PopsDown]_allVars => Inv'
  BY NextInv, StutterInv
<1>2. PopsNeverIncrement <=> [][PopsDown]_allVars
  BY DEF PopsNeverIncrement, PopsDown
<1>. QED
  BY <1>1, <1>2, InitInv, PTL DEF Spec

----------------------------------------------------------------------------
(* With small fetch sizes no pop moves a cursor up.                        *)

LEMMA DivSmall ==
  ASSUME NEW n \in Nat \ {0}, NEW x \in Nat, x < 2 * n
  PROVE  x \div n \in 0 .. 1
<1>. QED
  OBVIOUS

LEMMA DivPart ==
  ASSUME NEW b \in Nat, NEW r \in Nat \ {0}, NEW g \in Int, g <= r, g >= 0
  PROVE  TruncDiv(b * (r - g), r) \in 0 .. b
<1>1. b * (r - g) \in Nat /\ b * (r - g) <= b * r
  OBVIOUS
<1>2. PICK x \in Nat : x = b * (r - g)
  BY <1>1
<1>3. PICK q \in Int : q = x \div r /\ r * q <= x /\ x < r * q + r
  OBVIOUS
<1>4. q >= 0
  <2>1. ASSUME q < 0 PROVE FALSE
    <3>1. q <= -1
      BY <2>1
    <3>2. r * q <= r * (-1)
      BY <3>1
    <3>. QED
      BY <1>3, <3>2
  <2>. QED
    BY <2>1
<1>5. q <= b
  <2>1. ASSUME q > b PROVE FALSE
    <3>1. q >= b + 1
      BY <2>1
    <3>2. r * q >= r * (b + 1)
      BY <3>1
    <3>3. r * (b + 1) = b * r + r
      OBVIOUS
    <3>. QED
      BY <1>1, <1>2, <1>3, <3>2, <3>3
  <2>. QED
    BY <2>1
<1>6. TruncDiv(x, r) = q
  BY <1>2, <1>3 DEF TruncDiv
<1>. QED
  BY <1>2, <1>4, <1>5, <1>6

(* The fetch size of objs and the number of processors are such that even  *)
(* when all processors but one have overreached, the one that comes next   *)
(* does not take the set for shorter than -1 times their number.           *)
SmallFetch == FetchSize[ObjKind] * (NumProc - 1) < 2 * NumProc

(* What the pop of p asks for, and what it has got.                        *)
SizesOf(p) ==
  /\ objRequest[p] \in 0 .. FetchSize[ObjKind]
  /\ pc[p] = "fetch" => request[p] > 0
  /\ pc[p] \in {"fetch", "overreach"} /\ kind[p] = ObjKind => request[p] <= FetchSize[ObjKind]
  /\ pc[p] \in {"overreach", "copy"} => hi[p] - lo[p] <= request[p]

(* Every processor that has overreached objs has moved its cursor down by  *)
(* one request.                                                            *)
Overreaching == {p \in Procs : pc[p] = "overreach" /\ kind[p] = ObjKind}
NotTooLow == last[ObjKind] >= -(FetchSize[ObjKind] * Cardinality(Overreaching))

Sizes == (\A p \in Procs : SizesOf(p)) /\ NotTooLow

SameSizes(q) ==
  /\ pc'[q] = pc[q] /\ kind'[q] = kind[q] /\ request'[q] = request[q]
  /\ objRequest'[q] = objRequest[q] /\ lo'[q] = lo[q] /\ hi'[q] = hi[q]

LEMMA SizesStep ==
  ASSUME Sizes, NEW p \in Procs, \A q \in Procs \ {p} : SameSizes(q), SizesOf(p)', NotTooLow'
  PROVE  Sizes'
<1>1. ASSUME NEW q \in Procs PROVE SizesOf(q)'
  <2>1. CASE q = p
    BY <2>1
  <2>2. CASE q # p
    BY <2>2 DEF Sizes, SizesOf, SameSizes
  <2>. QED
    BY <2>1, <2>2
<1>. QED
  BY <1>1 DEF Sizes

LEMMA FetchSizeIs ==
  /\ FetchSize[ObjKind] \in Nat \ {0} /\ ObjKind \in Kinds /\ ObjKind # 1
  /\ \A k \in Kinds : FetchSize[k] \in Nat \ {0}
<1>1. FetchSize \in Seq(Nat \ {0}) /\ ObjKind \in Kinds \ {1}
  BY SharedStackAssumption
<1>2. \A k \in Kinds : FetchSize[k] \in Nat \ {0}
  BY <1>1 DEF Kinds
<1>. QED
  BY <1>1, <1>2

(* A step of p outside a pop.                                              *)
LEMMA SizesIdle ==
  ASSUME Inv, Sizes, NEW p \in Procs, \A q \in Procs \ {p} : SameSizes(q),
         pc[p] # "overreach", pc'[p] \notin Popping,
         objRequest'[p] \in 0 .. FetchSize[ObjKind],
         last'[ObjKind] \in Int, last'[ObjKind] >= last[ObjKind]
  PROVE  Sizes'
<1>1. SizesOf(p)'
  BY DEF SizesOf, Popping
<1>2. Overreaching' = Overreaching
  BY DEF Overreaching, SameSizes, Popping
<1>3. NotTooLow'
  <2>1. IsFiniteSet(Overreaching)
    BY SharedStackAssumption, FS_Subset DEF Overreaching
  <2>2. PICK c \in Nat : c = Cardinality(Overreaching)
    BY <2>1, FS_CardinalityType
  <2>3. PICK F \in Nat : F = FetchSize[ObjKind]
    BY FetchSizeIs
  <2>4. PICK b \in Nat : b = F * c
    BY <2>2, <2>3
  <2>5. last[ObjKind] \in Int
    BY FetchSizeIs DEF Inv, SharedOK, Cursors
  <2>6. last[ObjKind] >= -b
    BY <2>2, <2>3, <2>4 DEF Sizes, NotTooLow
  <2>7. last'[ObjKind] >= -b
    BY <2>4, <2>5, <2>6
  <2>. QED
    BY <1>2, <2>2, <2>3, <2>4, <2>7 DEF NotTooLow
<1>. QED
  BY <1>1, <1>3, SizesStep

LEMMA SizesAway ==
  ASSUME Inv, Sizes, NEW p \in Procs, UNCHANGED <<regVars, last>>,
         \A q \in Procs \ {p} : pc'[q] = pc[q],
         pc[p] # "overreach", pc'[p] \notin Popping
  PROVE  Sizes'
<1>1. \A q \in Procs \ {p} : SameSizes(q)
  BY DEF SameSizes, regVars
<1>2. objRequest'[p] \in 0 .. FetchSize[ObjKind]
  BY DEF Sizes, SizesOf, regVars
<1>3. last'[ObjKind] \in Int /\ last'[ObjKind] >= last[ObjKind]
  BY FetchSizeIs DEF Inv, SharedOK, Cursors
<1>. QED
  BY <1>1, <1>2, <1>3, SizesIdle

(* Where the size of objs is read, another processor may have overreached. *)
LEMMA PopSizes ==
  ASSUME Inv, Sizes, SmallFetch, NEW p \in Procs, Pop(p)
  PROVE  Sizes'
<1>0. RegTypes /\ Cursors
  BY DEF Inv, SharedOK
<1>1. /\ pc[p] \in {"shared", "pushed"} /\ pc' = [pc EXCEPT ![p] = "popEnter"]
      /\ objRequest' = [objRequest EXCEPT ![p] =
           Smaller(FetchSize[ObjKind], 1 + TruncDiv(last[ObjKind], NumProc))]
      /\ UNCHANGED <<last, kind, request, lo, hi>>
  BY DEF Pop, StartPop, Goto, stackVars
<1>2. PICK F \in Nat \ {0} : F = FetchSize[ObjKind]
  BY FetchSizeIs
<1>3. PICK N \in Nat \ {0} : N = NumProc
  BY NumProcIs
<1>4. PICK l \in Int : l = last[ObjKind]
  BY <1>0, FetchSizeIs DEF Cursors
<1>5. PICK c \in Nat : c = Cardinality(Overreaching) /\ c <= N - 1
  <2>1. Overreaching \subseteq Procs \ {p}
    BY <1>1 DEF Overreaching
  <2>2. IsFiniteSet(Procs \ {p}) /\ Cardinality(Procs \ {p}) = N - 1
    BY <1>3, SharedStackAssumption, FS_RemoveElement DEF NumProc
  <2>3. IsFiniteSet(Overreaching) /\ Cardinality(Overreaching) <= Cardinality(Procs \ {p})
    BY <2>1, <2>2, FS_Subset
  <2>. QED
    BY <2>2, <2>3, FS_CardinalityType
<1>6. l > -(2 * N)
  <2>1. l >= -(F * c)
    BY <1>2, <1>4, <1>5 DEF Sizes, NotTooLow
  <2>2. PICK b \in Nat : b = F * c
    BY <1>2, <1>5
  <2>3. PICK d \in Nat : d = F * (N - 1)
    BY <1>2, <1>3
  <2>4. b <= d
    BY <1>5, <2>2, <2>3
  <2>5. d < 2 * N
    BY <1>2, <1>3, <2>3 DEF SmallFetch
  <2>. QED
    BY <2>1, <2>2, <2>4, <2>5
<1>7. PICK t \in Int : t = TruncDiv(l, N) /\ t >= -1
  <2>1. CASE l >= 0
    <3>1. l \div N \in Nat
      BY <2>1
    <3>. QED
      BY <2>1, <3>1 DEF TruncDiv
  <2>2. CASE l < 0
    <3>1. (-l) \div N \in 0 .. 1
      BY <1>6, <2>2, DivSmall
    <3>. QED
      BY <2>2, <3>1 DEF TruncDiv
  <2>. QED
    BY <2>1, <2>2
<1>8. Smaller(FetchSize[ObjKind], 1 + TruncDiv(last[ObjKind], NumProc)) \in 0 .. FetchSize[ObjKind]
  <2>1. Smaller(F, 1 + t) \in 0 .. F
    BY <1>7 DEF Smaller
  <2>. QED
    BY <1>2, <1>3, <1>4, <1>7, <2>1
<1>9. \A q \in Procs \ {p} : SameSizes(q)
  BY <1>0, <1>1 DEF SameSizes, RegTypes
<1>10. objRequest'[p] \in 0 .. FetchSize[ObjKind]
  BY <1>0, <1>1, <1>8 DEF RegTypes
<1>11. pc'[p] = "popEnter" /\ pc[p] # "overreach"
  BY <1>0, <1>1 DEF RegTypes
<1>12. last'[ObjKind] \in Int /\ last'[ObjKind] >= last[ObjKind]
  BY <1>1, <1>4
<1>. QED
  BY <1>9, <1>10, <1>11, <1>12, SizesIdle DEF Popping

LEMMA PopEndSizes ==
  ASSUME Inv, Sizes, NEW p \in Procs, PopEnd(p)
  PROVE  Sizes'
<1>0. RegTypes /\ Cursors
  BY DEF Inv, SharedOK
<1>1. /\ pc[p] = "popEnd" /\ pc' = [pc EXCEPT ![p] = "leave"]
      /\ objRequest' = [objRequest EXCEPT ![p] = 0]
      /\ UNCHANGED <<last, kind, request, lo, hi>>
  BY DEF PopEnd, Goto
<1>2. \A q \in Procs \ {p} : SameSizes(q)
  BY <1>0, <1>1 DEF SameSizes, RegTypes
<1>3. objRequest'[p] \in 0 .. FetchSize[ObjKind] /\ pc'[p] = "leave"
  BY <1>0, <1>1, FetchSizeIs DEF RegTypes
<1>4. last'[ObjKind] \in Int /\ last'[ObjKind] >= last[ObjKind]
  BY <1>0, <1>1, FetchSizeIs DEF Cursors
<1>. QED
  BY <1>1, <1>2, <1>3, <1>4, SizesIdle DEF Popping

LEMMA PushSizes ==
  ASSUME Inv, Sizes, NEW p \in Procs, SkipEmpty(p) \/ Reserve(p) \/ Fill(p)
  PROVE  Sizes'
<1>0. RegTypes /\ Cursors
  BY DEF Inv, SharedOK
<1>1. /\ pc[p] \in {"reserve", "fill"}
      /\ \E to \in {"reserve", "fill", "pushEnd"} : pc' = [pc EXCEPT ![p] = to]
      /\ objRequest' = objRequest /\ request' = request
      /\ \A q \in Procs \ {p} : kind'[q] = kind[q] /\ lo'[q] = lo[q] /\ hi'[q] = hi[q]
  BY <1>0 DEF SkipEmpty, Reserve, Fill, AfterKind, Goto, RegTypes
<1>2. \A q \in Procs \ {p} : SameSizes(q)
  BY <1>0, <1>1 DEF SameSizes, RegTypes
<1>3. objRequest'[p] \in 0 .. FetchSize[ObjKind]
  BY <1>1 DEF Sizes, SizesOf
<1>4. pc'[p] \in {"reserve", "fill", "pushEnd"}
  BY <1>0, <1>1 DEF RegTypes
<1>5. last'[ObjKind] \in Int /\ last'[ObjKind] >= last[ObjKind]
  <2>1. last[ObjKind] \in Int /\ last \in [Kinds -> Int] /\ ObjKind \in Kinds
    BY <1>0, FetchSizeIs DEF Cursors
  <2>2. CASE last' = last
    BY <2>1, <2>2
  <2>3. CASE Reserve(p)
    <3>1. PICK n \in Nat : last' = [last EXCEPT ![kind[p]] = last[kind[p]] + n]
      <4>1. kind[p] \in Kinds
        BY <1>0 DEF RegTypes
      <4>. QED
        BY <2>3, <4>1, LocalFits DEF Reserve
    <3>. QED
      BY <2>1, <3>1
  <2>. QED
    BY <2>2, <2>3 DEF SkipEmpty, Fill, stackVars
<1>. QED
  BY <1>1, <1>2, <1>3, <1>4, <1>5, SizesIdle DEF Popping

LEMMA PopEnterSizes ==
  ASSUME Inv, Sizes, NEW p \in Procs, PopEnter(p)
  PROVE  Sizes'
<1>0. RegTypes /\ Cursors
  BY DEF Inv, SharedOK
<1>1. /\ pc[p] = "popEnter" /\ pc' = [pc EXCEPT ![p] = "fetch"]
      /\ kind' = [kind EXCEPT ![p] = 1] /\ request' = [request EXCEPT ![p] = Base(p, 1)]
      /\ UNCHANGED <<last, objRequest, lo, hi>>
  BY DEF PopEnter, Goto, stackVars
<1>2. Base(p, 1) > 0 /\ Base(p, 1) \in Int
  BY FetchSizeIs, KindsAre DEF Base
<1>3. \A q \in Procs \ {p} : SameSizes(q)
  BY <1>0, <1>1 DEF SameSizes, RegTypes
<1>4. pc'[p] = "fetch" /\ kind'[p] = 1 /\ request'[p] = Base(p, 1) /\ objRequest'[p] = objRequest[p]
  BY <1>0, <1>1 DEF RegTypes
<1>5. SizesOf(p)'
  BY <1>2, <1>4, FetchSizeIs DEF Sizes, SizesOf
<1>6. NotTooLow'
  <2>1. Overreaching' = Overreaching
    BY <1>1, <1>3, <1>4 DEF Overreaching, SameSizes
  <2>. QED
    BY <1>1, <2>1 DEF Sizes, NotTooLow
<1>. QED
  BY <1>3, <1>5, <1>6, SizesStep

(* A pop that overreaches objs moves its cursor down by no more than the   *)
(* fetch size, and counts among those that overreach it.                   *)
LEMMA FetchSizes ==
  ASSUME Inv, Sizes, NEW p \in Procs, Fetch(p)
  PROVE  Sizes' /\ last'[kind[p]] <= last[kind[p]]
<1>0. RegTypes /\ Cursors /\ kind[p] \in Kinds
  BY KindsAre DEF Inv, SharedOK, RegTypes
<1>1. PICK k \in Kinds : k = kind[p]
  BY <1>0
<1>2. PICK L \in Int : L = last[k]
  BY <1>0 DEF Cursors
<1>3. PICK r \in Int : r = request[p]
  BY <1>0 DEF RegTypes
<1>. DEFINE over == L <= 0 \/ L - r < 0
<1>4. /\ pc[p] = "fetch" /\ pc' = [pc EXCEPT ![p] = IF over THEN "overreach" ELSE "copy"]
      /\ last' = [last EXCEPT ![k] = L - r]
      /\ hi' = [hi EXCEPT ![p] = IF L <= 0 THEN 0 ELSE L]
      /\ lo' = [lo EXCEPT ![p] = IF over THEN 0 ELSE L - r]
      /\ UNCHANGED <<kind, request, objRequest>>
  BY <1>1, <1>2, <1>3 DEF Fetch, Goto
<1>. HIDE DEF over
<1>5. r > 0 /\ (k = ObjKind => r <= FetchSize[ObjKind])
  BY <1>1, <1>3, <1>4 DEF Sizes, SizesOf
<1>6. last \in [Kinds -> Int] /\ last'[k] = L - r /\ \A j \in Kinds : j # k => last'[j] = last[j]
  BY <1>0, <1>4 DEF Cursors
<1>7. \A q \in Procs \ {p} : SameSizes(q)
  BY <1>0, <1>4 DEF SameSizes, RegTypes
<1>8. /\ pc'[p] = IF over THEN "overreach" ELSE "copy"
      /\ hi'[p] = (IF L <= 0 THEN 0 ELSE L) /\ lo'[p] = (IF over THEN 0 ELSE L - r)
      /\ kind'[p] = k /\ request'[p] = r /\ objRequest'[p] = objRequest[p]
  BY <1>0, <1>1, <1>3, <1>4 DEF RegTypes
<1>9. SizesOf(p)'
  <2>1. hi'[p] - lo'[p] <= r
    BY <1>5, <1>8 DEF over
  <2>. QED
    BY <1>5, <1>8, <2>1 DEF Sizes, SizesOf
<1>10. NotTooLow'
  <2>1. IsFiniteSet(Overreaching)
    BY SharedStackAssumption, FS_Subset DEF Overreaching
  <2>2. PICK c \in Nat : c = Cardinality(Overreaching)
    BY <2>1, FS_CardinalityType
  <2>3. PICK F \in Nat : F = FetchSize[ObjKind]
    BY FetchSizeIs
  <2>4. last[ObjKind] >= -(F * c)
    BY <2>2, <2>3 DEF Sizes, NotTooLow
  <2>5. CASE k = ObjKind /\ over
    <3>1. Overreaching' = Overreaching \cup {p} /\ p \notin Overreaching
      BY <1>4, <1>7, <1>8, <2>5 DEF Overreaching, SameSizes
    <3>2. Cardinality(Overreaching') = c + 1
      BY <2>1, <2>2, <3>1, FS_AddElement
    <3>3. F * (c + 1) = F * c + F
      OBVIOUS
    <3>4. PICK b \in Nat : b = F * c
      BY <2>2, <2>3
    <3>5. L >= -b /\ r <= F
      BY <1>2, <1>5, <2>3, <2>4, <2>5, <3>4
    <3>6. L - r >= -(b + F)
      BY <3>5
    <3>. QED
      BY <1>6, <2>3, <2>5, <3>2, <3>3, <3>4, <3>6 DEF NotTooLow
  <2>6. CASE ~ (k = ObjKind /\ over)
    <3>1. Overreaching' = Overreaching
      BY <1>4, <1>7, <1>8, <2>6 DEF Overreaching, SameSizes
    <3>2. PICK b \in Nat : b = F * c
      BY <2>2, <2>3
    <3>3. last'[ObjKind] >= -b
      <4>1. CASE k = ObjKind
        BY <1>5, <1>6, <2>6, <3>2, <4>1 DEF over
      <4>2. CASE k # ObjKind
        BY <1>6, <2>4, <3>2, <4>2, FetchSizeIs
      <4>. QED
        BY <4>1, <4>2
    <3>. QED
      BY <2>2, <2>3, <3>1, <3>2, <3>3 DEF NotTooLow
  <2>. QED
    BY <2>5, <2>6
<1>11. last'[kind[p]] <= last[kind[p]]
  BY <1>1, <1>2, <1>5, <1>6
<1>. QED
  BY <1>7, <1>9, <1>10, <1>11, SizesStep

LEMMA ResetLastSizes ==
  ASSUME Inv, Sizes, NEW p \in Procs, ResetLast(p)
  PROVE  Sizes'
<1>0. RegTypes /\ Cursors /\ kind[p] \in Kinds
  BY KindsAre DEF Inv, SharedOK, RegTypes
<1>1. /\ pc[p] = "overreach" /\ pc' = [pc EXCEPT ![p] = "copy"]
      /\ last' = [last EXCEPT ![kind[p]] = 0]
      /\ UNCHANGED <<kind, request, objRequest, lo, hi>>
  BY DEF ResetLast, Goto, regVars
<1>2. \A q \in Procs \ {p} : SameSizes(q)
  BY <1>0, <1>1 DEF SameSizes, RegTypes
<1>3. pc'[p] = "copy"
  BY <1>0, <1>1 DEF RegTypes
<1>4. SizesOf(p)'
  BY <1>1, <1>3 DEF Sizes, SizesOf
<1>5. NotTooLow'
  <2>1. PICK F \in Nat : F = FetchSize[ObjKind]
    BY FetchSizeIs
  <2>2. CASE kind[p] = ObjKind
    <3>1. last'[ObjKind] = 0
      BY <1>0, <1>1, <2>2 DEF Cursors
    <3>2. IsFiniteSet(Overreaching')
      BY SharedStackAssumption, FS_Subset DEF Overreaching
    <3>3. PICK c \in Nat : c = Cardinality(Overreaching')
      BY <3>2, FS_CardinalityType
    <3>4. F * c \in Nat
      OBVIOUS
    <3>. QED
      BY <2>1, <3>1, <3>3, <3>4 DEF NotTooLow
  <2>3. CASE kind[p] # ObjKind
    <3>1. Overreaching' = Overreaching
      BY <1>1, <1>2, <1>3, <2>3 DEF Overreaching, SameSizes
    <3>2. last'[ObjKind] = last[ObjKind]
      BY <1>0, <1>1, <2>3, FetchSizeIs DEF Cursors
    <3>. QED
      BY <3>1, <3>2 DEF Sizes, NotTooLow
  <2>. QED
    BY <2>2, <2>3
<1>. QED
  BY <1>2, <1>4, <1>5, SizesStep

(* The part of a request that was not met asks for no more than the base   *)
(* of the next set.                                                        *)
LEMMA CopySizes ==
  ASSUME Inv, Sizes, NEW p \in Procs, Copy(p)
  PROVE  Sizes'
<1>0. RegTypes /\ Cursors /\ SharedOK /\ kind[p] \in Kinds /\ Registers(p)
  BY Unfold DEF Inv, SharedOK
<1>1. PICK k \in Kinds : k = kind[p]
  BY <1>0
<1>. DEFINE g == hi[p] - lo[p]
            nx == IF k + 1 \in Kinds THEN MakeFraction(Base(p, k + 1), request[p], g) ELSE 0
<1>2. /\ pc[p] = "copy" /\ pc' = [pc EXCEPT ![p] = IF nx = 0 THEN "popEnd" ELSE "fetch"]
      /\ kind' = [kind EXCEPT ![p] = IF nx = 0 THEN 1 ELSE k + 1]
      /\ request' = [request EXCEPT ![p] = nx]
      /\ lo' = [lo EXCEPT ![p] = 0] /\ hi' = [hi EXCEPT ![p] = 0]
      /\ UNCHANGED <<last, objRequest>>
  BY <1>1 DEF Copy, Goto
<1>3. PICK r \in Nat \ {0} : r = request[p]
  BY <1>0, <1>2 DEF RegTypes, Registers
<1>4. PICK d \in Nat : d = g /\ d <= r
  <2>1. lo[p] \in Nat /\ hi[p] \in Nat /\ lo[p] <= hi[p]
    BY <1>0, <1>2 DEF SharedOK, Claims, RegTypes
  <2>2. hi[p] - lo[p] <= request[p]
    BY <1>2 DEF Sizes, SizesOf
  <2>. QED
    BY <1>3, <2>1, <2>2
<1>5. nx \in Nat /\ (nx # 0 => k + 1 \in Kinds) /\ (k + 1 = ObjKind => nx <= FetchSize[ObjKind])
  <2>1. CASE k + 1 \in Kinds
    <3>1. PICK F \in Nat : F = FetchSize[ObjKind]
      BY FetchSizeIs
    <3>2. PICK b \in Nat : b = Base(p, k + 1) /\ (k + 1 = ObjKind => b <= F)
      BY <2>1, <3>1, FetchSizeIs DEF Base, Sizes, SizesOf
    <3>3. nx = TruncDiv(b * (r - d), r)
      BY <1>3, <1>4, <2>1, <3>2 DEF MakeFraction
    <3>4. TruncDiv(b * (r - d), r) \in 0 .. b
      <4>1. d \in Int /\ d <= r /\ d >= 0
        BY <1>4
      <4>. QED
        BY <4>1, DivPart
    <3>5. PICK x \in 0 .. b : x = nx
      BY <3>3, <3>4
    <3>. QED
      BY <2>1, <3>1, <3>2, <3>5
  <2>2. CASE k + 1 \notin Kinds
    BY <2>2, FetchSizeIs
  <2>. QED
    BY <2>1, <2>2
<1>. HIDE DEF g, nx
<1>6. \A q \in Procs \ {p} : SameSizes(q)
  BY <1>0, <1>2 DEF SameSizes, RegTypes
<1>7. /\ pc'[p] = IF nx = 0 THEN "popEnd" ELSE "fetch"
      /\ kind'[p] = IF nx = 0 THEN 1 ELSE k + 1
      /\ request'[p] = nx /\ objRequest'[p] = objRequest[p]
  BY <1>0, <1>2 DEF RegTypes
<1>8. SizesOf(p)'
  <2>1. CASE nx = 0
    BY <1>7, <2>1 DEF Sizes, SizesOf
  <2>2. CASE nx # 0
    BY <1>5, <1>7, <2>2 DEF Sizes, SizesOf
  <2>. QED
    BY <2>1, <2>2
<1>9. NotTooLow'
  <2>1. Overreaching' = Overreaching
    BY <1>2, <1>6, <1>7 DEF Overreaching, SameSizes
  <2>. QED
    BY <1>2, <2>1 DEF Sizes, NotTooLow
<1>. QED
  BY <1>6, <1>8, <1>9, SizesStep

LEMMA InitSizes == Init => Sizes
<1>. SUFFICES ASSUME Init PROVE Sizes
  OBVIOUS
<1>1. /\ last = [k \in Kinds |-> 0] /\ pc = [p \in Procs |-> "stopCopy"]
      /\ objRequest = [p \in Procs |-> 0]
  BY DEF Init, SharedStackInit
<1>2. \A p \in Procs : SizesOf(p)
  <2>1. 0 \in 0 .. FetchSize[ObjKind]
    BY FetchSizeIs
  <2>2. \A p \in Procs : objRequest[p] = 0 /\ pc[p] = "stopCopy"
    BY <1>1
  <2>. QED
    BY <2>1, <2>2 DEF SizesOf
<1>3. Overreaching = {} /\ last[ObjKind] = 0
  BY <1>1, FetchSizeIs DEF Overreaching
<1>4. NotTooLow
  <2>1. Cardinality(Overreaching) = 0
    BY <1>3, FS_EmptySet
  <2>2. PICK F \in Nat : F = FetchSize[ObjKind]
    BY FetchSizeIs
  <2>. QED
    BY <1>3, <2>1, <2>2 DEF NotTooLow
<1>. QED
  BY <1>2, <1>4 DEF Sizes

LEMMA SizesSame == Sizes /\ UNCHANGED <<regVars, last, pc>> => Sizes'
  BY DEF Sizes, SizesOf, NotTooLow, Overreaching, regVars

(* The steps of a processor at labels outside a pop.                       *)
LEMMA AwaySizes ==
  ASSUME Inv, Sizes, NEW p \in Procs,
         \/ PushEnd(p) \/ IsEmpty(p) \/ ExitRoom(p) \/ NoFinalizer(p) \/ Finalizer(p)
         \/ WeakBarrier(p) \/ Check(p) \/ AssertEmpty(p) \/ Prepare(p) \/ StrongBarrier(p)
         \/ PushRoots(p) \/ Push(p) \/ StopWork(p) \/ Adjust(p)
  PROVE  Sizes'
<1>0. RegTypes
  BY DEF Inv
<1>1. UNCHANGED <<regVars, last>>
  BY DEF PushEnd, IsEmpty, ExitRoom, NoFinalizer, Finalizer, WeakBarrier, Check, AssertEmpty,
     Prepare, StrongBarrier, PushRoots, Push, StopWork, Adjust, stackVars, StartIsEmpty, StartPush,
     Reset
<1>2. /\ pc[p] # "overreach"
      /\ \E l : pc' = [pc EXCEPT ![p] = l] /\ l \notin Popping
  <2>1. ret[p] \notin Popping
    BY <1>0 DEF RegTypes, Popping
  <2>2. CASE PushEnd(p) \/ IsEmpty(p)
    BY <2>2 DEF PushEnd, IsEmpty, Goto, Popping
  <2>3. CASE ExitRoom(p) \/ NoFinalizer(p) \/ Finalizer(p)
    <3>1. PICK l \in {ret[p], "finalizer", "noFinalizer"} :
            /\ pc[p] # "overreach"
            /\ pc' = [pc EXCEPT ![p] = l]
      BY <2>3 DEF ExitRoom, NoFinalizer, Finalizer, Goto
    <3>. QED
      BY <2>1, <3>1 DEF Popping
  <2>4. CASE WeakBarrier(p) \/ Check(p) \/ Prepare(p) \/ PushRoots(p) \/ Push(p)
    BY <2>4 DEF WeakBarrier, Check, Prepare, PushRoots, Push, Goto, Popping
  <2>5. CASE AssertEmpty(p) \/ StopWork(p) \/ Adjust(p)
    BY <2>5 DEF AssertEmpty, StopWork, Adjust, Goto, Popping
  <2>6. CASE StrongBarrier(p)
    <3>1. stage[p] \in 1 .. 3
      <4>1. pc[p] = "await" /\ LocalOK(p)
        BY <2>6 DEF StrongBarrier, Inv
      <4>. QED
        BY <4>1 DEF LocalOK, Staged
    <3>2. pc[p] = "await"
      BY <2>6 DEF StrongBarrier
    <3>. DEFINE l == CASE stage[p] = 1 -> "roots"
                       [] stage[p] = 2 -> IF p = first THEN "check" ELSE "adjust"
                       [] stage[p] = 3 -> "end"
    <3>3. l \notin Popping
      BY <3>1 DEF Popping
    <3>4. pc' = [pc EXCEPT ![p] = l]
      BY <2>6 DEF StrongBarrier
    <3>. HIDE DEF l
    <3>. QED
      BY <3>2, <3>3, <3>4
  <2>. QED
    BY <2>2, <2>3, <2>4, <2>5, <2>6
<1>3. \A q \in Procs \ {p} : pc'[q] = pc[q]
  BY <1>0, <1>2 DEF RegTypes
<1>4. pc'[p] \notin Popping
  BY <1>0, <1>2 DEF RegTypes
<1>. QED
  BY <1>1, <1>2, <1>3, <1>4, SizesAway

LEMMA StackStepSizes ==
  ASSUME Inv, Sizes, NEW p \in Procs, StackStep(p)
  PROVE  Sizes'
<1>1. CASE PopEnter(p)
  BY <1>1, PopEnterSizes
<1>2. CASE Fetch(p)
  BY <1>2, FetchSizes
<1>3. CASE ResetLast(p)
  BY <1>3, ResetLastSizes
<1>4. CASE Copy(p)
  BY <1>4, CopySizes
<1>5. CASE PopEnd(p)
  BY <1>5, PopEndSizes
<1>6. CASE SkipEmpty(p) \/ Reserve(p) \/ Fill(p)
  BY <1>6, PushSizes
<1>7. CASE PushEnd(p) \/ IsEmpty(p) \/ ExitRoom(p) \/ NoFinalizer(p) \/ Finalizer(p)
  BY <1>7, AwaySizes
<1>. QED
  BY <1>1, <1>2, <1>3, <1>4, <1>5, <1>6, <1>7 DEF StackStep

LEMMA NextSizes == Inv /\ Sizes /\ SmallFetch /\ Next => Sizes'
<1>. SUFFICES ASSUME Inv, Sizes, SmallFetch, Next
              PROVE  Sizes'
  OBVIOUS
<1>1. ASSUME NEW p \in Procs, Step(p)
      PROVE  Sizes'
  <2>1. CASE StackStep(p)
    BY <2>1, StackStepSizes
  <2>2. CASE \/ WeakBarrier(p) \/ Check(p) \/ AssertEmpty(p) \/ Prepare(p) \/ StrongBarrier(p)
             \/ PushRoots(p) \/ Push(p) \/ StopWork(p) \/ Adjust(p)
    BY <2>2, AwaySizes
  <2>3. CASE \E t \in Threads : ScanThread(p, t)
    BY <2>3, SizesSame DEF ScanThread
  <2>4. CASE Pop(p)
    BY <2>4, PopSizes
  <2>5. CASE UpdateRoot(p) \/ ScanObject(p)
    BY <2>5, SizesSame DEF UpdateRoot, ScanObject, WorkOn
  <2>. QED
    BY <1>1, <2>1, <2>2, <2>3, <2>4, <2>5 DEF Step
<1>2. ASSUME NEW r \in Rooms, AdmitNext(r)
      PROVE  Sizes'
  BY <1>2, SizesSame DEF AdmitNext, AdmitSome, ssVars, stackVars
<1>. QED
  BY <1>1, <1>2 DEF Next

LEMMA SizesPopsDown ==
  ASSUME Inv, Sizes
  PROVE  PopsDown
  BY FetchSizes DEF PopsDown

(* "Ok since there are no increments", say the comments of gc_para.c       *)
(* (74-77) where getFromSharedStack resets a cursor from several           *)
(* processors.  They are right, for any number of processors, when         *)
(* FetchSize[ObjKind] * (NumProc - 1) < 2 * NumProc: the cursor of objs is *)
(* then never so low that a processor asks for a negative number of them.  *)
(* With one processor that always holds; the default objFetchSize of 100   *)
(* (gc.c:80) satisfies it for no other number, and MCStaleSize.cfg shows   *)
(* what happens then.  The lemma says that the hypothesis of the theorems  *)
(* below can be met, with the sizes of MCSemiPara.cfg for one, and nothing *)
(* of the program as it is shipped.                                        *)
LEMMA PopsAreSafe == SmallFetch => (Spec => PopsNeverIncrement)
<1>. SUFFICES ASSUME SmallFetch PROVE Spec => PopsNeverIncrement
  OBVIOUS
<1>. DEFINE Both == Inv /\ Sizes
<1>1. Init => Both
  BY InitInv, InitSizes
<1>2. Both /\ [Next]_allVars => Both'
  <2>1. CASE Inv /\ Sizes /\ Next
    BY <2>1, SizesPopsDown, NextInv, NextSizes
  <2>2. CASE Inv /\ Sizes /\ UNCHANGED allVars
    <3>1. UNCHANGED <<regVars, last, pc>>
      BY <2>2 DEF allVars, ssVars, stackVars
    <3>. QED
      BY <2>2, <3>1, StutterInv, SizesSame
  <2>. QED
    BY <2>1, <2>2
<1>3. Both => [PopsDown]_allVars
  BY SizesPopsDown
<1>4. PopsNeverIncrement <=> [][PopsDown]_allVars
  BY DEF PopsNeverIncrement, PopsDown
<1>. QED
  BY <1>1, <1>2, <1>3, <1>4, PTL DEF Spec

----------------------------------------------------------------------------
(* What the invariant says of the collection.                              *)

(* The state keeps its types, and numLocalStack is never below 0 nor above *)
(* the number of processors, as the assertions in gc_para.c (208, 251)     *)
(* say: a processor that fetched something counts itself once, and its     *)
(* push takes it off.                                                      *)
THEOREM StackTypes == Spec /\ PopsNeverIncrement => []TypeOK
<1>1. ASSUME Inv PROVE TypeOK
  <2>1. RegTypes /\ Cursors /\ Count /\ Graph
    BY <1>1 DEF Inv, SharedOK
  <2>2. numLocalStack \in 0 .. NumProc
    <3>1. PICK S \in SUBSET Procs : S = {p \in Procs : hasShared[p]}
      OBVIOUS
    <3>2. IsFiniteSet(S) /\ Cardinality(S) <= Cardinality(Procs)
      BY SharedStackAssumption, FS_Subset
    <3>3. Cardinality(S) \in Nat /\ numLocalStack = Cardinality(S)
      BY <2>1, <3>1, <3>2, FS_CardinalityType DEF Count
    <3>. QED
      BY <3>2, <3>3, NumProcIs DEF NumProc
  <2>3. copied \subseteq Items /\ scanned \subseteq Items
    BY <2>1, PendingItems DEF Graph
  <2>4. pc \in [Procs -> {"stopCopy", "check", "isEmpty", "checked", "aborted",
                          "reset", "await", "roots", "reserve", "fill",
                          "pushEnd", "leave", "finalizer", "noFinalizer",
                          "shared", "pushed", "popEnter", "fetch", "overreach",
                          "copy", "popEnd", "popped", "adjust", "end"}]
    BY <2>1 DEF RegTypes, Labels, Before, Popping, Pushing, Leaving
  <2>. QED
    BY <2>1, <2>2, <2>3, <2>4 DEF TypeOK, RegTypes, Cursors
<1>. QED
  BY <1>1, Invariant, PTL

LEMMA SharedBounds ==
  ASSUME Inv, NEW k \in Kinds, NEW n \in SharedWords(k)
  PROVE  n \in 0 .. Capacity - 1
<1>1. SharedOK /\ RegTypes
  BY DEF Inv
<1>2. Capacity \in Nat
  BY SharedStackAssumption
<1>3. last[k] \in Int /\ last[k] <= Capacity
  BY <1>1 DEF SharedOK, Cursors
<1>4. ASSUME NEW p \in Procs, pc[p] \in {"overreach", "copy"}, n \in Range_(p)
      PROVE  n \in 0 .. Capacity - 1
  <2>1. lo[p] \in Nat /\ hi[p] \in Nat /\ hi[p] <= Capacity
    BY <1>1, <1>4 DEF SharedOK, Claims, RegTypes
  <2>. QED
    BY <1>2, <1>4, <2>1 DEF Range_
<1>5. n \in 0 .. last[k] - 1 => n \in 0 .. Capacity - 1
  BY <1>2, <1>3
<1>. QED
  BY <1>4, <1>5, InShared

(* Pushes and pops lose and duplicate nothing, whatever the number of      *)
(* processors, overreaching or not: a root or an object that is still to   *)
(* be handled is in exactly one word of a shared set or of a processor,    *)
(* and nothing else is in any.                                             *)
THEOREM NothingLostOrTwice == Spec /\ PopsNeverIncrement => []WorkConserved
<1>1. ASSUME Inv, NEW i \in Items
      PROVE  Cardinality(Copies(i)) = IF i \in Pending THEN 1 ELSE 0
  <2>0. Conserved
    BY <1>1 DEF Inv
  <2>. DEFINE InWord(w) == /\ w \in Kinds \X (0 .. Capacity - 1)
                           /\ w[2] \in SharedWords(w[1]) /\ slots[w[1]][w[2]] = i
              InSet(w) == /\ w \in Procs \X Kinds \X (1 .. Cardinality(Items))
                          /\ w[3] \in DOMAIN local[w[1]][w[2]]
                          /\ local[w[1]][w[2]][w[3]] = i
  <2>1. \A w : w \in Copies(i) <=> InWord(w) \/ InSet(w)
    BY DEF Copies
  <2>2. ASSUME NEW k \in Kinds, NEW n \in SharedWords(k), slots[k][n] = i
        PROVE  InWord(<<k, n>>)
    BY <1>1, <2>2, SharedBounds
  <2>3. ASSUME NEW p \in Procs, NEW k \in Kinds, NEW n \in DOMAIN local[p][k], local[p][k][n] = i
        PROVE  InSet(<<p, k, n>>)
    <3>1. PICK L \in Nat : L = Len(local[p][k]) /\ L <= Cardinality(Items)
      BY <1>1, LocalFits
    <3>2. local[p][k] \in Seq(Items)
      BY <1>1 DEF Inv, RegTypes
    <3>3. Cardinality(Items) \in Nat
      BY SemiParaAssumption, FS_CardinalityType
    <3>4. n \in 1 .. Cardinality(Items)
      BY <3>1, <3>2, <3>3
    <3>. QED
      BY <2>3, <3>4
  <2>4. ASSUME NEW v, NEW w, InWord(v), InWord(w)
        PROVE  v = w
    <3>1. PICK k \in Kinds, n \in 0 .. Capacity - 1 : v = <<k, n>>
      BY <2>4
    <3>2. PICK j \in Kinds, m \in 0 .. Capacity - 1 : w = <<j, m>>
      BY <2>4
    <3>3. /\ n \in SharedWords(k) /\ m \in SharedWords(j)
          /\ slots[k][n] = i /\ slots[j][m] = i
      <4>. HIDE DEF SharedWords
      <4>. QED
        BY <2>4, <3>1, <3>2
    <3>. HIDE DEF SharedWords
    <3>4. k = j /\ n = m
      BY <2>0, <3>3 DEF Conserved, SharedOnce
    <3>. QED
      BY <3>1, <3>2, <3>4
  <2>5. ASSUME NEW v, NEW w, InSet(v), InSet(w)
        PROVE  v = w
    <3>1. PICK p \in Procs, k \in Kinds, n \in 1 .. Cardinality(Items) : v = <<p, k, n>>
      BY <2>5
    <3>2. PICK q \in Procs, j \in Kinds, m \in 1 .. Cardinality(Items) : w = <<q, j, m>>
      BY <2>5
    <3>3. /\ n \in DOMAIN local[p][k] /\ m \in DOMAIN local[q][j]
          /\ local[p][k][n] = i /\ local[q][j][m] = i
      BY <2>5, <3>1, <3>2
    <3>4. p = q /\ k = j /\ n = m
      BY <2>0, <3>3 DEF Conserved, LocalOnce
    <3>. QED
      BY <3>1, <3>2, <3>4
  <2>6. ASSUME NEW v, NEW w, InWord(v), InSet(w)
        PROVE  FALSE
    <3>. HIDE DEF SharedWords
    <3>1. PICK k \in Kinds, n \in 0 .. Capacity - 1 : v = <<k, n>>
      BY <2>6
    <3>2. PICK q \in Procs, j \in Kinds, m \in 1 .. Cardinality(Items) : w = <<q, j, m>>
      BY <2>6
    <3>3. /\ n \in SharedWords(k) /\ slots[k][n] = i
          /\ m \in DOMAIN local[q][j] /\ local[q][j][m] = i
      BY <2>6, <3>1, <3>2
    <3>. QED
      BY <2>0, <3>3 DEF Conserved, NotBoth
  <2>7. \A w : InWord(w) \/ InSet(w) => i \in Pending
    <3>1. ASSUME NEW w, InWord(w) PROVE i \in Pending
      <4>. HIDE DEF SharedWords, Pending
      <4>1. w[1] \in Kinds /\ w[2] \in SharedWords(w[1]) /\ slots[w[1]][w[2]] = i
        BY <3>1
      <4>. QED
        BY <2>0, <4>1 DEF Conserved, SharedIsWork
    <3>2. ASSUME NEW w, InSet(w) PROVE i \in Pending
      <4>. HIDE DEF Pending
      <4>1. /\ w[1] \in Procs /\ w[2] \in Kinds /\ w[3] \in DOMAIN local[w[1]][w[2]]
            /\ local[w[1]][w[2]][w[3]] = i
        BY <3>2
      <4>. QED
        BY <2>0, <4>1 DEF Conserved, LocalIsWork
    <3>. QED
      BY <3>1, <3>2
  <2>8. i \in Pending => \E w : InWord(w) \/ InSet(w)
    <3>. HIDE DEF SharedWords, Pending, InWord, InSet
    <3>. QED
      BY <2>0, <2>2, <2>3 DEF Conserved, WorkIsSomewhere
  <2>. HIDE DEF SharedWords, Pending, InWord, InSet, Copies
  <2>9. CASE i \in Pending
    <3>1. PICK w : InWord(w) \/ InSet(w)
      BY <2>8, <2>9
    <3>2. \A v : InWord(v) \/ InSet(v) => v = w
      BY <2>4, <2>5, <2>6, <3>1
    <3>3. Copies(i) = {w}
      BY <2>1, <3>1, <3>2
    <3>. QED
      BY <2>9, <3>3, FS_Singleton
  <2>10. CASE i \notin Pending
    <3>1. Copies(i) = {}
      BY <2>1, <2>7, <2>10
    <3>. QED
      BY <2>10, <3>1, FS_EmptySet
  <2>. QED
    BY <2>9, <2>10
<1>2. Inv => WorkConserved
  <2>. HIDE DEF Copies, Pending
  <2>. QED
    BY <1>1 DEF WorkConserved
<1>. QED
  BY <1>2, Invariant, PTL

(* A push that finds the stack empty is right about all processors: the    *)
(* count and the cursors it reads in the exit code of the room say that no *)
(* work is left anywhere, and no thread is left to be scanned, so that     *)
(* everything reachable from the roots has been copied and scanned.        *)
THEOREM EmptyStackMeansDone == Spec /\ PopsNeverIncrement => []EmptyMeansDone
<1>1. ASSUME Inv PROVE EmptyMeansDone
  <2>. SUFFICES ASSUME NEW p \in Procs, Knows(p)
                PROVE  /\ unscanned = {} /\ Pending = {}
                       /\ \A i \in scanned : Targets(i) \subseteq scanned
    BY DEF EmptyMeansDone, Knows
  <2>1. Done /\ Phases /\ Graph
    BY <1>1 DEF Inv
  <2>2. PastRoots(p)
    <3>1. pc[p] = "pushed" => stage[p] = 1
      BY <1>1, Unfold DEF Staged
    <3>. QED
      BY <3>1 DEF Knows, PastRoots
  <2>3. unscanned = {}
    BY <2>1, <2>2 DEF Phases
  <2>4. Pending = {}
    BY <2>1 DEF Done, Knows
  <2>5. copied \subseteq scanned
    BY <2>4 DEF Pending
  <2>6. \A i \in scanned : Targets(i) \subseteq scanned
    BY <2>1, <2>5 DEF Graph
  <2>. QED
    BY <2>3, <2>4, <2>6
<1>. QED
  BY <1>1, Invariant, PTL

(* The assertion after the collection (gc_semi_para.c:152) holds: when the *)
(* first processor looks, the stack is empty and nobody counts.            *)
THEOREM AssertionAfterHolds == Spec /\ PopsNeverIncrement => []EmptyAfterCollection
<1>1. Inv => EmptyAfterCollection
  BY Unfold DEF EmptyAfterCollection, Staged
<1>. QED
  BY <1>1, Invariant, PTL
=============================================================================
