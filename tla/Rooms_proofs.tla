---------------------------- MODULE Rooms_proofs ----------------------------
(***************************************************************************)
(* Safety of the rooms for any set of processes, any number of rooms and   *)
(* any bound on tickets: Spec => []IInv, what follows from IInv, and that  *)
(* the steps of Rooms implement RoomsAbs.                                  *)
(*                                                                         *)
(* A step of a process is either quiet (it changes no shared variable, no  *)
(* ticket that is still waiting, no occupancy and no boss), or it takes a  *)
(* ticket, or it is one of the few steps that write which, cur or prev.    *)
(* QuietKeeps and OthersKeep do the common part; every action then has a   *)
(* lemma with what is particular to it.  For the refinement, a quiet step  *)
(* stutters, and each of the others is one action of RoomsAbs.             *)
(***************************************************************************)
EXTENDS Rooms, Sequences, FiniteSetTheorems, FunctionTheorems, TLAPS

(* What the invariant says of the locals of one process.                   *)
Local(p) ==
  /\ change[p] => pc[p] \in {"ticket", "leave", "compare", "final", "scan",
                             "open", "rdnew", "wrnew", "none"}
  /\ pc[p] = "ticket" => change[p]
  /\ pc[p] = "leave" /\ change[p] => oldWait[p] > cur[room[p]]
  /\ pc[p] = "compare" => j[p] <= prev[wh[p]]
  /\ pc[p] = "wrcur" => oldWait[p] <= seen[p] /\ seen[p] <= wait[room[p]]
  /\ pc[p] \in {"open", "rdnew"} => cur[NewWh(p)] < wait[NewWh(p)]
  /\ pc[p] = "wrnew" => /\ cur[NewWh(p)] < seen[p]
                        /\ seen[p] <= wait[NewWh(p)]
  /\ pc[p] = "scan" =>
       /\ k[p] \in 1 .. Size
       /\ change[p] => \A m \in 1 .. k[p] - 1 : Ring(wh[p], m) # room[p]
  /\ ~ (pc[p] = "none" /\ change[p])

Tickets == TicketsIssued /\ TicketsDistinct /\ TicketsHeld

Occupancy == OccupantsCounted /\ RoomExclusion /\ BossAlone

(* IInv in three parts.                                                    *)
LEMMA Parts ==
  IInv <=> TypeOK /\ (\A p \in Procs : Local(p)) /\ Tickets /\ Occupancy
BY DEF IInv, Local, Tickets, Occupancy, ChangeOK, TicketAhead, PositionPast,
       CopyPending, ScanPassed, ChangeRoomNeverDies

(* The same decomposition of the next state.                               *)
LEMMA PartsPrimed ==
  IInv' <=> TypeOK' /\ (\A p \in Procs : Local(p)') /\ Tickets' /\ Occupancy'
BY DEF IInv, Local, Tickets, Occupancy, ChangeOK, TicketAhead, PositionPast,
       CopyPending, ScanPassed, ChangeRoomNeverDies

(* Every room the last leaver looks at is a room.                          *)
LEMMA RingInRooms ==
  ASSUME NEW w \in Rooms, NEW m \in 0 .. Size
  PROVE  Ring(w, m) \in Rooms
BY RoomsAssumption DEF Ring, Rooms

(* The scan of Size rooms in ring order meets every room.                  *)
LEMMA RingCovers ==
  ASSUME NEW w \in Rooms, NEW r \in Rooms
  PROVE  \E m \in 1 .. Size : Ring(w, m) = r
<1>1. CASE r > w
  <2>1. r - w \in 1 .. Size /\ Ring(w, r - w) = r
    BY <1>1, RoomsAssumption DEF Ring, Rooms
  <2> QED BY <2>1
<1>2. CASE r <= w
  <2>1. r - w + Size \in 1 .. Size /\ Ring(w, r - w + Size) = r
    BY <1>2, RoomsAssumption DEF Ring, Rooms
  <2> QED BY <2>1
<1> QED BY <1>1, <1>2 DEF Rooms

----------------------------------------------------------------------------
(* Only the locals of p change in the step.                                *)
Only(p) ==
  \A q \in Procs \ {p} :
    /\ pc'[q] = pc[q] /\ room'[q] = room[q] /\ oldWait'[q] = oldWait[q]
    /\ wh'[q] = wh[q] /\ j'[q] = j[q] /\ k'[q] = k[q] /\ seen'[q] = seen[q]
    /\ change'[q] = change[q]

(* While cur stays and wait and prev only grow, what the invariant says of *)
(* the locals of the others stays true.                                    *)
LEMMA OthersKeep ==
  ASSUME IInv, NEW p \in Procs, Only(p), TypeOK', cur' = cur,
         \A r \in Rooms : wait'[r] >= wait[r] /\ prev'[r] >= prev[r],
         NEW q \in Procs \ {p}
  PROVE  Local(q)'
<1>1. TypeOK /\ Local(q)
  BY Parts
<1>2. NewWh(q)' = NewWh(q)
  BY DEF Only, NewWh, Ring
<1>3. NewWh(q) \in Rooms
  BY <1>1, RingInRooms DEF NewWh, TypeOK
<1>4. /\ room[q] \in Rooms /\ wh[q] \in Rooms /\ j[q] \in Nat
      /\ oldWait[q] \in Nat /\ seen[q] \in Nat
      /\ \A r \in Rooms : /\ cur[r] \in Nat /\ wait[r] \in Nat /\ prev[r] \in Nat
                          /\ wait'[r] \in Nat /\ prev'[r] \in Nat
  BY <1>1 DEF TypeOK
<1> QED
  BY <1>1, <1>2, <1>3, <1>4 DEF Local, Only, Ring

(* The others keep their tickets and, while cur stays, their rooms.        *)
LEMMA OthersSame ==
  ASSUME NEW p \in Procs, Only(p), NEW q \in Procs \ {p}
  PROVE  /\ HasTicket(q)' <=> HasTicket(q)
         /\ room'[q] = room[q] /\ oldWait'[q] = oldWait[q]
         /\ BossRoom(q)' = BossRoom(q)
         /\ cur' = cur => /\ \A r \in Rooms : Occupies(q, r)' <=> Occupies(q, r)
                          /\ Boss(q)' <=> Boss(q)
BY DEF Only, HasTicket, Occupies, Boss, BossRoom, NewWh, Ring

(* The ticket of p: p has no other one after the step, and keeps it if it  *)
(* is still waiting.                                                       *)
TicketKept(p) ==
  /\ HasTicket(p)' => /\ HasTicket(p)
                      /\ room'[p] = room[p] /\ oldWait'[p] = oldWait[p]
  /\ HasTicket(p) /\ oldWait[p] > cur[room[p]] =>
       HasTicket(p)' /\ room'[p] = room[p] /\ oldWait'[p] = oldWait[p]

(* Ticket facts survive a step that changes no ticket of a process that    *)
(* still has one.                                                          *)
LEMMA TicketsKeep ==
  ASSUME IInv, NEW p \in Procs, Only(p), UNCHANGED <<cur, wait>>, TicketKept(p)
  PROVE  Tickets'
<1>1. TypeOK /\ Tickets
  BY Parts
<1>2. \A q \in Procs : HasTicket(q)' => /\ HasTicket(q)
                                        /\ room'[q] = room[q]
                                        /\ oldWait'[q] = oldWait[q]
  BY OthersSame DEF TicketKept
<1>3. TicketsIssued'
  BY <1>1, <1>2 DEF Tickets, TicketsIssued
<1>4. TicketsDistinct'
  BY <1>1, <1>2 DEF Tickets, TicketsDistinct
<1>5. TicketsHeld'
  <2> SUFFICES ASSUME NEW r \in Rooms, NEW t \in cur[r] + 1 .. wait[r]
               PROVE  \E q \in Procs : HasTicket(q)' /\ room'[q] = r
                                         /\ oldWait'[q] = t
    BY DEF TicketsHeld
  <2>1. PICK q \in Procs : HasTicket(q) /\ room[q] = r /\ oldWait[q] = t
    BY <1>1 DEF Tickets, TicketsHeld
  <2>2. oldWait[q] > cur[room[q]]
    BY <2>1, <1>1 DEF TypeOK
  <2> QED BY <2>1, <2>2, OthersSame DEF TicketKept
<1> QED BY <1>3, <1>4, <1>5 DEF Tickets

(* A step that changes no shared variable, no waiting ticket, no occupancy *)
(* and makes nobody a boss.                                                *)
LEMMA QuietKeeps ==
  ASSUME IInv, NEW p \in Procs, Only(p), UNCHANGED shared, TicketKept(p),
         \A r \in Rooms : Occupies(p, r)' <=> Occupies(p, r),
         Boss(p)' => Boss(p) /\ BossRoom(p)' = BossRoom(p)
  PROVE  Tickets' /\ Occupancy'
<1>1. TypeOK /\ Tickets /\ Occupancy
  BY Parts
<1>2. UNCHANGED <<which, cur, wait, prev>>
  BY DEF shared
<1>3. \A q \in Procs, r \in Rooms : Occupies(q, r)' <=> Occupies(q, r)
  BY <1>2, OthersSame
<1>4. \A q \in Procs : Boss(q)' => Boss(q) /\ BossRoom(q)' = BossRoom(q)
  BY <1>2, OthersSame
<1>5. OccupantsCounted' /\ RoomExclusion'
  BY <1>1, <1>2, <1>3 DEF Occupancy, OccupantsCounted, RoomExclusion, Occ
<1>6. BossAlone'
  BY <1>1, <1>2, <1>3, <1>4 DEF Occupancy, BossAlone
<1>7. Tickets'
  BY <1>2, TicketsKeep
<1> QED BY <1>5, <1>6, <1>7 DEF Occupancy

----------------------------------------------------------------------------
(* What the invariant says of a process at certain points.                 *)

(* A process inside has the ticket of the open room, and that room counts  *)
(* it.                                                                     *)
LEMMA InsideFacts ==
  ASSUME IInv, NEW p \in Procs
  PROVE  /\ pc[p] = "in" => which = room[p]
         /\ pc[p] \in {"ticket", "leave"} => which = wh[p]
         /\ pc[p] \in {"in", "ticket", "leave"} =>
              \A q \in Procs : ~ Boss(q)
<1>1. TypeOK /\ RoomExclusion /\ BossAlone
  BY DEF IInv
<1>2. room[p] \in Rooms /\ wh[p] \in Rooms
  BY <1>1 DEF TypeOK
<1>3. /\ pc[p] = "in" => Occupies(p, room[p])
      /\ pc[p] \in {"ticket", "leave"} => Occupies(p, wh[p])
  BY DEF Occupies
<1> QED BY <1>1, <1>2, <1>3 DEF RoomExclusion, BossAlone

(* When as many have left the open room as were admitted, nobody occupies  *)
(* it.                                                                     *)
LEMMA NobodyInside ==
  ASSUME IInv, \A q \in Procs : \A r \in Rooms : ~ Occupies(q, r)
  PROVE  /\ \A r \in Rooms : cur[r] = prev[r]
         /\ \A q \in Procs : pc[q] \notin {"in", "ticket", "leave"}
         /\ \A q \in Procs : HasTicket(q) => oldWait[q] > cur[room[q]]
<1>1. TypeOK /\ OccupantsCounted
  BY DEF IInv
<1>2. ASSUME NEW r \in Rooms PROVE cur[r] = prev[r]
  <2>1. Occ(r) = {}
    BY DEF Occ
  <2>2. Cardinality(Occ(r)) = 0
    BY <2>1, FS_EmptySet
  <2>3. Cardinality(Occ(r)) = cur[r] - prev[r]
    BY <1>1 DEF OccupantsCounted
  <2>4. cur[r] \in Nat /\ prev[r] \in Nat
    BY <1>1 DEF TypeOK
  <2> QED BY <2>2, <2>3, <2>4
<1>3. ASSUME NEW q \in Procs
      PROVE  /\ pc[q] \notin {"in", "ticket", "leave"}
             /\ HasTicket(q) => oldWait[q] > cur[room[q]]
  <2>1. room[q] \in Rooms /\ wh[q] \in Rooms /\ oldWait[q] \in Nat
        /\ cur[room[q]] \in Nat
    BY <1>1 DEF TypeOK
  <2>2. ~ Occupies(q, room[q]) /\ ~ Occupies(q, wh[q])
    BY <2>1
  <2> QED BY <2>1, <2>2 DEF Occupies
<1> QED BY <1>2, <1>3

(* As many processes wait for room r with a ticket up to s as there are    *)
(* tickets from cur[r] + 1 to s.                                           *)
LEMMA BatchSize ==
  ASSUME IInv, NEW r \in Rooms, NEW s \in Nat, cur[r] <= s, s <= wait[r],
         \A q \in Procs : HasTicket(q) => oldWait[q] > cur[room[q]]
  PROVE  Cardinality({q \in Procs : HasTicket(q) /\ room[q] = r
                                       /\ oldWait[q] <= s}) = s - cur[r]
<1> DEFINE A == {q \in Procs : HasTicket(q) /\ room[q] = r /\ oldWait[q] <= s}
           T == cur[r] + 1 .. s
           f == [q \in A |-> oldWait[q]]
<1>1. TypeOK /\ TicketsDistinct /\ TicketsHeld
  BY DEF IInv
<1>2. cur[r] \in Nat /\ wait[r] \in Nat /\ \A q \in Procs : oldWait[q] \in Nat
  BY <1>1 DEF TypeOK
<1>3. IsFiniteSet(A)
  BY RoomsAssumption, FS_Subset
<1>4. f \in [A -> T]
  BY <1>2
<1>5. \A a, b \in A : f[a] = f[b] => a = b
  BY <1>1 DEF TicketsDistinct
<1>6. ASSUME NEW t \in T PROVE \E a \in A : f[a] = t
  <2>1. t \in cur[r] + 1 .. wait[r]
    BY <1>2
  <2>2. PICK q \in Procs : HasTicket(q) /\ room[q] = r /\ oldWait[q] = t
    BY <1>1, <2>1 DEF TicketsHeld
  <2>3. q \in A
    BY <2>2, <1>2
  <2> QED BY <2>2, <2>3
<1>7. f \in Bijection(A, T)
  BY <1>4, <1>5, <1>6, Fun_IsBij
<1>8. Cardinality(A) = Cardinality(T)
  BY <1>3, <1>7, FS_Bijection DEF ExistsBijection
<1>9. Cardinality(T) = s - cur[r]
  <2>1. cur[r] + 1 \in Int /\ s \in Int
    BY <1>2
  <2>2. Cardinality(T) = IF cur[r] + 1 > s THEN 0 ELSE s - (cur[r] + 1) + 1
    BY <2>1, FS_Interval
  <2> QED BY <2>2, <1>2
<1> QED BY <1>8, <1>9

----------------------------------------------------------------------------
(* The quiet steps.                                                        *)

(* The loop test of enterRoom.                                             *)
LEMMA TestTicketKeeps ==
  ASSUME IInv, NEW p \in Procs, TestTicket(p)
  PROVE  IInv'
<1>1. TypeOK /\ Local(p)
  BY Parts
<1>2. TypeOK'
  BY <1>1, InsideFacts, RingInRooms DEF TypeOK, TestTicket, Goto, shared
<1>3. Only(p)
  BY <1>1 DEF Only, TypeOK, TestTicket, Goto, shared
<1>4. Local(p)'
  BY <1>1 DEF Local, TypeOK, NewWh, Ring, TestTicket, Goto, shared
<1>5. Tickets' /\ Occupancy'
  <2>1. TicketKept(p)
    BY <1>1 DEF TicketKept, Local, HasTicket, TypeOK, TestTicket, Goto, shared
  <2>2. \A r \in Rooms : Occupies(p, r)' <=> Occupies(p, r)
    BY <1>1, InsideFacts DEF Local, Occupies, HasTicket, TypeOK, TestTicket, Goto, shared
  <2>3. Boss(p)' => Boss(p) /\ BossRoom(p)' = BossRoom(p)
    BY <1>1 DEF Boss, BossRoom, NewWh, Ring, TypeOK, TestTicket, Goto, shared
  <2> QED BY <1>3, <2>1, <2>2, <2>3, QuietKeeps DEF TestTicket, Goto, shared
<1> QED
  BY <1>2, <1>3, <1>4, <1>5, OthersKeep, PartsPrimed DEF TestTicket, Goto, shared, TypeOK

(* The read of wait[i] by the process that claimed the rooms.              *)
LEMMA ReadWaitKeeps ==
  ASSUME IInv, NEW p \in Procs, ReadWait(p)
  PROVE  IInv'
<1>1. TypeOK /\ Local(p)
  BY Parts
<1>2. TypeOK'
  BY <1>1, InsideFacts, RingInRooms DEF TypeOK, ReadWait, Goto, shared
<1>3. Only(p)
  BY <1>1 DEF Only, TypeOK, ReadWait, Goto, shared
<1>4. Local(p)'
  <2>1. oldWait[p] <= wait[room[p]]
    BY DEF IInv, TicketsIssued, HasTicket, ReadWait, Goto
  <2> QED
    BY <1>1, <2>1 DEF Local, TypeOK, NewWh, Ring, ReadWait, Goto, shared
<1>5. Tickets' /\ Occupancy'
  <2>1. TicketKept(p)
    BY <1>1 DEF TicketKept, Local, HasTicket, TypeOK, ReadWait, Goto, shared
  <2>2. \A r \in Rooms : Occupies(p, r)' <=> Occupies(p, r)
    BY <1>1, InsideFacts DEF Local, Occupies, HasTicket, TypeOK, ReadWait, Goto, shared
  <2>3. Boss(p)' => Boss(p) /\ BossRoom(p)' = BossRoom(p)
    BY <1>1 DEF Boss, BossRoom, NewWh, Ring, TypeOK, ReadWait, Goto, shared
  <2> QED BY <1>3, <2>1, <2>2, <2>3, QuietKeeps DEF ReadWait, Goto, shared
<1> QED
  BY <1>2, <1>3, <1>4, <1>5, OthersKeep, PartsPrimed DEF ReadWait, Goto, shared, TypeOK

(* exitRoom reads which while the process keeps that room open.            *)
LEMMA ExitRoomKeeps ==
  ASSUME IInv, NEW p \in Procs, ExitRoom(p)
  PROVE  IInv'
<1>1. TypeOK /\ Local(p)
  BY Parts
<1>2. TypeOK'
  BY <1>1, InsideFacts, RingInRooms DEF TypeOK, ExitRoom, Goto, shared
<1>3. Only(p)
  BY <1>1 DEF Only, TypeOK, ExitRoom, Goto, shared
<1>4. Local(p)'
  BY <1>1 DEF Local, TypeOK, NewWh, Ring, ExitRoom, Goto, shared
<1>5. Tickets' /\ Occupancy'
  <2>1. TicketKept(p)
    BY <1>1 DEF TicketKept, Local, HasTicket, TypeOK, ExitRoom, Goto, shared
  <2>2. \A r \in Rooms : Occupies(p, r)' <=> Occupies(p, r)
    BY <1>1, InsideFacts DEF Local, Occupies, HasTicket, TypeOK, ExitRoom, Goto, shared
  <2>3. Boss(p)' => Boss(p) /\ BossRoom(p)' = BossRoom(p)
    BY <1>1 DEF Boss, BossRoom, NewWh, Ring, TypeOK, ExitRoom, Goto, shared
  <2> QED BY <1>3, <2>1, <2>2, <2>3, QuietKeeps DEF ExitRoom, Goto, shared
<1> QED
  BY <1>2, <1>3, <1>4, <1>5, OthersKeep, PartsPrimed DEF ExitRoom, Goto, shared, TypeOK

(* A leaver that is not the last only returns.                             *)
LEMMA NotLastKeeps ==
  ASSUME IInv, NEW p \in Procs, NotLast(p)
  PROVE  IInv'
<1>1. TypeOK /\ Local(p)
  BY Parts
<1>2. TypeOK'
  <2>1. 0 \in Rooms /\ 0 \in 0 .. Size
    BY RoomsAssumption DEF Rooms
  <2>2. /\ wh' \in [Procs -> Rooms] /\ j' \in [Procs -> Nat]
        /\ k' \in [Procs -> 0 .. Size] /\ change' \in [Procs -> BOOLEAN]
    BY <1>1, <2>1 DEF TypeOK, NotLast, Return
  <2>3. pc' \in [Procs -> {"out", "test", "cas", "rdwait", "wrcur", "in",
                          "ticket", "leave", "compare", "final", "scan",
                          "open", "rdnew", "wrnew", "none", "spin"}]
    BY <1>1 DEF TypeOK, NotLast, Return
  <2> QED
    BY <1>1, <2>2, <2>3 DEF TypeOK, NotLast, shared
<1>3. Only(p)
  BY <1>1 DEF Only, TypeOK, NotLast, Return, shared
<1>4. Local(p)'
  BY <1>1 DEF Local, TypeOK, NewWh, Ring, NotLast, Return, shared
<1>5. Tickets' /\ Occupancy'
  <2>1. TicketKept(p)
    BY <1>1 DEF TicketKept, Local, HasTicket, TypeOK, NotLast, Return, shared
  <2>2. \A r \in Rooms : Occupies(p, r)' <=> Occupies(p, r)
    BY <1>1, InsideFacts DEF Local, Occupies, HasTicket, TypeOK, NotLast, Return, shared
  <2>3. Boss(p)' => Boss(p) /\ BossRoom(p)' = BossRoom(p)
    BY <1>1 DEF Boss, BossRoom, NewWh, Ring, TypeOK, NotLast, Return, shared
  <2> QED BY <1>3, <2>1, <2>2, <2>3, QuietKeeps DEF NotLast, Return, shared
<1> QED
  BY <1>2, <1>3, <1>4, <1>5, OthersKeep, PartsPrimed DEF NotLast, Return, shared, TypeOK

(* The last leaver, found by comparing its position with cur, becomes the  *)
(* boss.                                                                   *)
LEMMA LastKeeps ==
  ASSUME IInv, NEW p \in Procs, Last(p)
  PROVE  IInv'
<1>1. TypeOK /\ Local(p)
  BY Parts
<1>2. TypeOK'
  BY <1>1, InsideFacts, RingInRooms DEF TypeOK, Last, Goto, shared
<1>3. Only(p)
  BY <1>1 DEF Only, TypeOK, Last, Goto, shared
<1>4. Local(p)'
  BY <1>1 DEF Local, TypeOK, NewWh, Ring, Last, Goto, shared
<1>5. Tickets' /\ Occupancy'
  <2>1. TicketKept(p)
    BY <1>1 DEF TicketKept, Local, HasTicket, TypeOK, Last, Goto, shared
  <2>2. \A r \in Rooms : Occupies(p, r)' <=> Occupies(p, r)
    BY <1>1, InsideFacts DEF Local, Occupies, HasTicket, TypeOK, Last, Goto, shared
  <2>3. Boss(p)' => Boss(p) /\ BossRoom(p)' = BossRoom(p)
    BY <1>1 DEF Boss, BossRoom, NewWh, Ring, TypeOK, Last, Goto, shared
  <2> QED BY <1>3, <2>1, <2>2, <2>3, QuietKeeps DEF Last, Goto, shared
<1> QED
  BY <1>2, <1>3, <1>4, <1>5, OthersKeep, PartsPrimed DEF Last, Goto, shared, TypeOK

(* The exit code changes nothing of the rooms.                             *)
LEMMA FinalizeKeeps ==
  ASSUME IInv, NEW p \in Procs, Finalize(p)
  PROVE  IInv'
<1>1. TypeOK /\ Local(p)
  BY Parts
<1>2. TypeOK'
  BY <1>1, RoomsAssumption DEF TypeOK, Finalize, Goto, shared
<1>3. Only(p)
  BY <1>1 DEF Only, TypeOK, Finalize, Goto, shared
<1>4. Local(p)'
  BY <1>1, RoomsAssumption DEF Local, TypeOK, NewWh, Ring, Finalize, Goto, shared
<1>5. Tickets' /\ Occupancy'
  <2>1. TicketKept(p)
    BY <1>1 DEF TicketKept, Local, HasTicket, TypeOK, Finalize, Goto, shared
  <2>2. \A r \in Rooms : Occupies(p, r)' <=> Occupies(p, r)
    BY <1>1, InsideFacts DEF Local, Occupies, HasTicket, TypeOK, Finalize, Goto, shared
  <2>3. Boss(p)' => Boss(p) /\ BossRoom(p)' = BossRoom(p)
    BY <1>1 DEF Boss, BossRoom, NewWh, Ring, TypeOK, Finalize, Goto, shared
  <2> QED BY <1>3, <2>1, <2>2, <2>3, QuietKeeps DEF Finalize, Goto, shared
<1> QED
  BY <1>2, <1>3, <1>4, <1>5, OthersKeep, PartsPrimed DEF Finalize, Goto, shared, TypeOK

(* One look at a room of the ring; a room with waiters ends the scan.      *)
LEMMA ScanKeeps ==
  ASSUME IInv, NEW p \in Procs, Scan(p)
  PROVE  IInv'
<1>1. TypeOK /\ Local(p)
  BY Parts
<1>2. TypeOK'
  <2>1. k[p] \in Nat /\ k[p] <= Size /\ (k[p] < Size => k[p] + 1 \in 0 .. Size)
    BY <1>1, RoomsAssumption DEF TypeOK
  <2>2. k' \in [Procs -> 0 .. Size]
    BY <1>1, <2>1 DEF TypeOK, Scan
  <2> QED
    BY <1>1, <2>2 DEF TypeOK, Scan, Goto, shared
<1>3. Only(p)
  BY <1>1 DEF Only, TypeOK, Scan, Goto, shared
<1>4. Local(p)'
  <2>1. /\ wh[p] \in Rooms /\ room[p] \in Rooms /\ k[p] \in 1 .. Size
        /\ pc[p] = "scan" /\ Size \in Nat
    BY <1>1, RoomsAssumption DEF TypeOK, Local, Scan, Goto
  <2>2. CASE cur[NewWh(p)] < wait[NewWh(p)]
    <3>1. pc'[p] = "open" /\ NewWh(p)' = NewWh(p)
      BY <1>1, <2>2 DEF TypeOK, NewWh, Scan, Goto
    <3> QED BY <1>1, <2>2, <3>1 DEF Local, Scan, shared
  <2>3. CASE ~ (cur[NewWh(p)] < wait[NewWh(p)])
    <3>1. change[p] => NewWh(p) # room[p]
      <4>1. change[p] => HasTicket(p)
        <5>1. pc[p] # "ticket"
          BY <2>1
        <5> QED BY <5>1, Zenon DEF HasTicket
      <4>2. HasTicket(p) => /\ oldWait[p] <= wait[room[p]]
                            /\ oldWait[p] > cur[room[p]]
        <5>1. \A q \in Procs : \A r \in Rooms : ~ Occupies(q, r)
          BY <2>1 DEF IInv, BossAlone, Boss
        <5>2. HasTicket(p) => oldWait[p] <= wait[room[p]]
          BY DEF IInv, TicketsIssued
        <5>3. \A q \in Procs : HasTicket(q) => oldWait[q] > cur[room[q]]
          BY <5>1, NobodyInside
        <5> QED BY <5>2, <5>3
      <4>3. /\ cur[room[p]] \in Nat /\ wait[room[p]] \in Nat
            /\ oldWait[p] \in Nat
        BY <1>1, <2>1 DEF TypeOK
      <4> QED BY <2>3, <4>1, <4>2, <4>3
    <3>2. change[p] => \A m \in 1 .. k[p] : Ring(wh[p], m) # room[p]
      <4>1. change[p] => \A m \in 1 .. k[p] - 1 : Ring(wh[p], m) # room[p]
        BY <1>1, <2>1 DEF Local
      <4> QED BY <2>1, <3>1, <4>1 DEF NewWh
    <3>3. CASE k[p] < Size
      <4>1. /\ pc'[p] = "scan" /\ k'[p] = k[p] + 1 /\ wh'[p] = wh[p]
            /\ room'[p] = room[p] /\ change'[p] = change[p]
        BY <1>1, <2>1, <2>3, <3>3 DEF TypeOK, Scan
      <4>2. k'[p] \in 1 .. Size /\ k'[p] - 1 = k[p]
        BY <2>1, <3>3, <4>1
      <4>3. change'[p] => \A m \in 1 .. k'[p] - 1 : Ring(wh'[p], m) # room'[p]
        BY <3>2, <4>1, <4>2
      <4> QED BY <4>1, <4>2, <4>3 DEF Local, Ring
    <3>4. CASE ~ (k[p] < Size)
      <4>1. pc'[p] = "none" /\ change'[p] = change[p]
        BY <1>1, <2>3, <3>4 DEF TypeOK, Scan, Goto
      <4>2. k[p] = Size
        BY <2>1, <3>4
      <4>3. ~ change[p]
        BY <2>1, <3>2, <4>2, RingCovers
      <4> QED BY <4>1, <4>3 DEF Local
    <3> QED BY <3>3, <3>4
  <2> QED BY <2>2, <2>3
<1>5. Tickets' /\ Occupancy'
  <2>1. TicketKept(p)
    BY <1>1 DEF TicketKept, Local, HasTicket, TypeOK, Scan, Goto, shared
  <2>2. \A r \in Rooms : Occupies(p, r)' <=> Occupies(p, r)
    BY <1>1, InsideFacts DEF Local, Occupies, HasTicket, TypeOK, Scan, Goto, shared
  <2>3. Boss(p)' => Boss(p) /\ BossRoom(p)' = BossRoom(p)
    BY <1>1 DEF Boss, BossRoom, NewWh, Ring, TypeOK, Scan, Goto, shared
  <2> QED BY <1>3, <2>1, <2>2, <2>3, QuietKeeps DEF Scan, Goto, shared
<1> QED
  BY <1>2, <1>3, <1>4, <1>5, OthersKeep, PartsPrimed DEF Scan, Goto, shared, TypeOK

(* The boss reads wait of the room it opens.                               *)
LEMMA ReadNewWaitKeeps ==
  ASSUME IInv, NEW p \in Procs, ReadNewWait(p)
  PROVE  IInv'
<1>1. TypeOK /\ Local(p)
  BY Parts
<1>0. NewWh(p) \in Rooms /\ wait[NewWh(p)] \in Nat /\ cur[NewWh(p)] \in Nat
  BY <1>1, RingInRooms DEF TypeOK, NewWh
<1>2. TypeOK'
  BY <1>0, <1>1 DEF TypeOK, ReadNewWait, Goto, shared
<1>3. Only(p)
  BY <1>1 DEF Only, TypeOK, ReadNewWait, Goto, shared
<1>4. Local(p)'
  <2>1. NewWh(p)' = NewWh(p)
    BY <1>1 DEF NewWh, ReadNewWait
  <2> QED
    BY <1>0, <1>1, <2>1 DEF Local, TypeOK, ReadNewWait, Goto, shared
<1>5. Tickets' /\ Occupancy'
  <2>1. TicketKept(p)
    BY <1>1 DEF TicketKept, Local, HasTicket, TypeOK, ReadNewWait, Goto, shared
  <2>2. \A r \in Rooms : Occupies(p, r)' <=> Occupies(p, r)
    BY <1>1, InsideFacts DEF Local, Occupies, HasTicket, TypeOK, ReadNewWait, Goto, shared
  <2>3. Boss(p)' => Boss(p) /\ BossRoom(p)' = BossRoom(p)
    BY <1>1 DEF Boss, BossRoom, NewWh, Ring, TypeOK, ReadNewWait, Goto, shared
  <2> QED BY <1>3, <2>1, <2>2, <2>3, QuietKeeps DEF ReadNewWait, Goto, shared
<1> QED
  BY <1>2, <1>3, <1>4, <1>5, OthersKeep, PartsPrimed DEF ReadNewWait, Goto, shared, TypeOK

(* The spin of changeRoom ends when the new room has admitted the ticket.  *)
LEMMA SpinKeeps ==
  ASSUME IInv, NEW p \in Procs, Spin(p)
  PROVE  IInv'
<1>1. TypeOK /\ Local(p)
  BY Parts
<1>2. TypeOK'
  BY <1>1, InsideFacts, RingInRooms DEF TypeOK, Spin, Goto, shared
<1>3. Only(p)
  BY <1>1 DEF Only, TypeOK, Spin, Goto, shared
<1>4. Local(p)'
  BY <1>1 DEF Local, TypeOK, NewWh, Ring, Spin, Goto, shared
<1>5. Tickets' /\ Occupancy'
  <2>1. TicketKept(p)
    BY <1>1 DEF TicketKept, Local, HasTicket, TypeOK, Spin, Goto, shared
  <2>2. \A r \in Rooms : Occupies(p, r)' <=> Occupies(p, r)
    BY <1>1, InsideFacts DEF Local, Occupies, HasTicket, TypeOK, Spin, Goto, shared
  <2>3. Boss(p)' => Boss(p) /\ BossRoom(p)' = BossRoom(p)
    BY <1>1 DEF Boss, BossRoom, NewWh, Ring, TypeOK, Spin, Goto, shared
  <2> QED BY <1>3, <2>1, <2>2, <2>3, QuietKeeps DEF Spin, Goto, shared
<1> QED
  BY <1>2, <1>3, <1>4, <1>5, OthersKeep, PartsPrimed DEF Spin, Goto, shared, TypeOK

(* changeRoom reads which and notes the new room.                          *)
LEMMA ChangeRoomKeeps ==
  ASSUME IInv, NEW p \in Procs, NEW r \in Rooms, ChangeRoom(p, r)
  PROVE  IInv'
<1>1. TypeOK /\ Local(p)
  BY Parts
<1>2. TypeOK'
  BY <1>1, InsideFacts, RingInRooms DEF TypeOK, ChangeRoom, Goto, shared
<1>3. Only(p)
  BY <1>1 DEF Only, TypeOK, ChangeRoom, Goto, shared
<1>4. Local(p)'
  BY <1>1 DEF Local, TypeOK, NewWh, Ring, ChangeRoom, Goto, shared
<1>5. Tickets' /\ Occupancy'
  <2>1. TicketKept(p)
    BY <1>1 DEF TicketKept, Local, HasTicket, TypeOK, ChangeRoom, Goto, shared
  <2>2. \A s \in Rooms : Occupies(p, s)' <=> Occupies(p, s)
    BY <1>1, InsideFacts DEF Local, Occupies, HasTicket, TypeOK, ChangeRoom, Goto, shared
  <2>3. Boss(p)' => Boss(p) /\ BossRoom(p)' = BossRoom(p)
    BY <1>1 DEF Boss, BossRoom, NewWh, Ring, TypeOK, ChangeRoom, Goto, shared
  <2> QED BY <1>3, <2>1, <2>2, <2>3, QuietKeeps DEF ChangeRoom, Goto, shared
<1> QED
  BY <1>2, <1>3, <1>4, <1>5, OthersKeep, PartsPrimed DEF ChangeRoom, Goto, shared, TypeOK

----------------------------------------------------------------------------
(* Taking a ticket.                                                        *)

(* FetchAndAdd on wait hands out a ticket that nobody holds.               *)
LEMMA TicketTaken ==
  ASSUME IInv, NEW p \in Procs, NEW r \in Rooms, Only(p), TypeOK',
         UNCHANGED <<which, cur, prev>>,
         wait' = [wait EXCEPT ![r] = @ + 1],
         ~ HasTicket(p), HasTicket(p)', room'[p] = r, oldWait'[p] = wait[r] + 1,
         \A s \in Rooms : Occupies(p, s)' <=> Occupies(p, s),
         ~ Boss(p)'
  PROVE  Tickets' /\ Occupancy'
<1>1. TypeOK /\ Tickets /\ Occupancy
  BY Parts
<1>2. \A s \in Rooms : /\ cur[s] \in Nat /\ wait[s] \in Nat
                       /\ wait'[s] = IF s = r THEN wait[s] + 1 ELSE wait[s]
  BY <1>1 DEF TypeOK
<1>3. \A q \in Procs : room[q] \in Rooms /\ oldWait[q] \in Nat
  BY <1>1 DEF TypeOK
<1>4. ASSUME NEW q \in Procs, q # p
      PROVE  /\ HasTicket(q)' <=> HasTicket(q)
             /\ room'[q] = room[q] /\ oldWait'[q] = oldWait[q]
             /\ HasTicket(q) => oldWait[q] <= wait[room[q]]
  BY <1>1, <1>4, OthersSame DEF Tickets, TicketsIssued
<1>5. TicketsIssued'
  <2>1. \A s \in Rooms : cur'[s] <= wait'[s]
    BY <1>1, <1>2 DEF Tickets, TicketsIssued
  <2>2. ASSUME NEW q \in Procs, HasTicket(q)'
        PROVE  oldWait'[q] <= wait'[room'[q]]
    <3>1. CASE q = p
      BY <1>2, <3>1
    <3>2. CASE q # p
      BY <1>2, <1>3, <1>4, <2>2, <3>2
    <3> QED BY <3>1, <3>2
  <2> QED BY <2>1, <2>2 DEF TicketsIssued
<1>6. TicketsDistinct'
  <2> SUFFICES ASSUME NEW a \in Procs, NEW b \in Procs, HasTicket(a)',
                      HasTicket(b)', room'[a] = room'[b],
                      oldWait'[a] = oldWait'[b]
               PROVE  a = b
    BY DEF TicketsDistinct
  <2>1. ASSUME NEW q \in Procs, q # p, HasTicket(q)', room'[q] = r
        PROVE  oldWait'[q] # wait[r] + 1
    BY <1>2, <1>3, <1>4, <2>1
  <2>2. CASE a # p /\ b # p
    BY <1>1, <1>4, <2>2 DEF Tickets, TicketsDistinct
  <2> QED BY <2>1, <2>2
<1>7. TicketsHeld'
  <2> SUFFICES ASSUME NEW s \in Rooms, NEW t \in cur[s] + 1 .. wait'[s]
               PROVE  \E q \in Procs : HasTicket(q)' /\ room'[q] = s
                                         /\ oldWait'[q] = t
    BY DEF TicketsHeld
  <2>1. CASE s = r /\ t = wait[r] + 1
    BY <2>1
  <2>2. CASE ~ (s = r /\ t = wait[r] + 1)
    <3>1. t \in cur[s] + 1 .. wait[s]
      BY <1>2, <2>2
    <3>2. PICK q \in Procs : HasTicket(q) /\ room[q] = s /\ oldWait[q] = t
      BY <1>1, <3>1 DEF Tickets, TicketsHeld
    <3> QED BY <1>4, <3>2
  <2> QED BY <2>1, <2>2
<1>8. \A q \in Procs, s \in Rooms : Occupies(q, s)' <=> Occupies(q, s)
  BY OthersSame
<1>9. \A q \in Procs : Boss(q)' => Boss(q) /\ BossRoom(q)' = BossRoom(q)
  BY OthersSame
<1>10. OccupantsCounted' /\ RoomExclusion'
  BY <1>1, <1>8 DEF Occupancy, OccupantsCounted, RoomExclusion, Occ
<1>11. BossAlone'
  BY <1>1, <1>8, <1>9 DEF Occupancy, BossAlone
<1> QED BY <1>5, <1>6, <1>7, <1>10, <1>11 DEF Tickets, Occupancy

(* enterRoom takes a ticket.                                               *)
LEMMA EnterRoomKeeps ==
  ASSUME IInv, NEW p \in Procs, NEW r \in Rooms, EnterRoom(p, r)
  PROVE  IInv'
<1>1. TypeOK /\ Local(p) /\ cur[r] <= wait[r]
  BY Parts DEF Tickets, TicketsIssued
<1>2. TypeOK'
  BY <1>1 DEF TypeOK, EnterRoom, Goto
<1>3. Only(p)
  BY <1>1 DEF Only, TypeOK, EnterRoom, Goto
<1>4. /\ pc[p] = "out" /\ pc'[p] = "test" /\ ~ change[p] /\ ~ change'[p]
      /\ room'[p] = r /\ oldWait'[p] = wait[r] + 1
      /\ UNCHANGED <<which, cur, prev, wh, j, k, seen, change>>
      /\ wait' = [wait EXCEPT ![r] = @ + 1]
      /\ \A s \in Rooms : wait[s] \in Nat /\ wait'[s] \in Nat /\ cur[s] \in Nat
                            /\ prev[s] \in Nat /\ wait'[s] >= wait[s]
  BY <1>1 DEF TypeOK, Local, EnterRoom, Goto
<1>5. Local(p)'
  BY <1>4 DEF Local
<1>6. ~ HasTicket(p) /\ HasTicket(p)' /\ ~ Boss(p)'
  BY <1>4 DEF HasTicket, Boss
<1>7. \A s \in Rooms : Occupies(p, s)' <=> Occupies(p, s)
  BY <1>1, <1>4 DEF Occupies, HasTicket
<1>8. Tickets' /\ Occupancy'
  BY <1>2, <1>3, <1>4, <1>6, <1>7, TicketTaken
<1> QED
  BY <1>2, <1>3, <1>4, <1>5, <1>8, OthersKeep, PartsPrimed

(* changeRoom takes a ticket while it still occupies the old room.         *)
LEMMA TakeTicketKeeps ==
  ASSUME IInv, NEW p \in Procs, TakeTicket(p)
  PROVE  IInv'
<1>1. TypeOK /\ Local(p) /\ room[p] \in Rooms /\ cur[room[p]] <= wait[room[p]]
  BY Parts DEF Tickets, TicketsIssued, TypeOK
<1>2. TypeOK'
  BY <1>1 DEF TypeOK, TakeTicket, Goto
<1>3. Only(p)
  BY <1>1 DEF Only, TypeOK, TakeTicket, Goto
<1>4. /\ pc[p] = "ticket" /\ pc'[p] = "leave"
      /\ oldWait'[p] = wait[room[p]] + 1
      /\ UNCHANGED <<which, cur, prev, room, wh, j, k, seen, change>>
      /\ wait' = [wait EXCEPT ![room[p]] = @ + 1]
      /\ \A s \in Rooms : wait[s] \in Nat /\ wait'[s] \in Nat /\ cur[s] \in Nat
                            /\ prev[s] \in Nat /\ wait'[s] >= wait[s]
  BY <1>1 DEF TypeOK, TakeTicket, Goto
<1>5. Local(p)'
  BY <1>1, <1>4 DEF Local
<1>6. ~ HasTicket(p) /\ HasTicket(p)' /\ ~ Boss(p)'
  BY <1>1, <1>4 DEF HasTicket, Boss, Local
<1>7. \A s \in Rooms : Occupies(p, s)' <=> Occupies(p, s)
  BY <1>1, <1>4 DEF Occupies, HasTicket, Local
<1>8. Tickets' /\ Occupancy'
  BY <1>1, <1>2, <1>3, <1>4, <1>6, <1>7, TicketTaken
<1> QED
  BY <1>2, <1>3, <1>4, <1>5, <1>8, OthersKeep, PartsPrimed

----------------------------------------------------------------------------
(* Steps that write which while nobody is inside.                          *)

(* A boss is alone: every other process is outside or waits for a ticket.  *)
LEMMA BossFacts ==
  ASSUME IInv, NEW p \in Procs, Boss(p)
  PROVE  /\ which = BossRoom(p)
         /\ \A q \in Procs : Boss(q) => q = p
         /\ \A q \in Procs : \A r \in Rooms : ~ Occupies(q, r)
BY DEF IInv, BossAlone

(* The rooms are closed: nobody is inside and nobody is a boss.            *)
LEMMA Closed ==
  ASSUME IInv, which = -1
  PROVE  /\ \A q \in Procs : ~ Boss(q)
         /\ \A q \in Procs : \A r \in Rooms : ~ Occupies(q, r)
<1>1. TypeOK /\ RoomExclusion
  BY DEF IInv
<1>2. -1 \notin Rooms
  BY RoomsAssumption DEF Rooms
<1>3. ASSUME NEW q \in Procs, Boss(q) PROVE FALSE
  <2>1. which = BossRoom(q)
    BY <1>3, BossFacts
  <2>2. NewWh(q) \in Rooms /\ room[q] \in Rooms /\ wh[q] \in Rooms
    BY <1>1, RingInRooms DEF TypeOK, NewWh
  <2>3. BossRoom(q) \in Rooms
    BY <2>2 DEF BossRoom
  <2> QED BY <1>2, <2>1, <2>3
<1> QED BY <1>1, <1>2, <1>3 DEF RoomExclusion

(* Where which may change, no process occupies a room.                     *)
LEMMA WhichMoves ==
  ASSUME IInv, NEW p \in Procs, Only(p), UNCHANGED <<cur, wait, prev>>,
         TicketKept(p),
         \A q \in Procs : \A r \in Rooms : ~ Occupies(q, r),
         \A r \in Rooms : ~ Occupies(p, r)',
         \A q \in Procs : Boss(q) => q = p,
         Boss(p)' => which' = BossRoom(p)'
  PROVE  Tickets' /\ Occupancy'
<1>1. OccupantsCounted
  BY DEF IInv
<1>2. \A q \in Procs : \A r \in Rooms : ~ Occupies(q, r)'
  BY OthersSame
<1>3. \A q \in Procs : Boss(q)' => q = p
  BY OthersSame
<1>4. \A r \in Rooms : Occ(r) = {} /\ Occ(r)' = {}
  BY <1>2 DEF Occ
<1>5. OccupantsCounted'
  BY <1>1, <1>4 DEF OccupantsCounted
<1>6. RoomExclusion' /\ BossAlone'
  BY <1>2, <1>3 DEF RoomExclusion, BossAlone
<1>7. Tickets'
  BY TicketsKeep
<1> QED BY <1>5, <1>6, <1>7 DEF Occupancy

(* CompareAndSwap on which makes at most one waiting process the boss.     *)
LEMMA ClaimRoomsKeeps ==
  ASSUME IInv, NEW p \in Procs, ClaimRooms(p)
  PROVE  IInv'
<1>1. TypeOK /\ Local(p)
  BY Parts
<1>2. TypeOK'
  BY <1>1 DEF TypeOK, ClaimRooms, Goto
<1>3. Only(p)
  BY <1>1 DEF Only, TypeOK, ClaimRooms, Goto
<1>4. /\ pc[p] = "cas" /\ pc'[p] = IF which = -1 THEN "rdwait" ELSE "test"
      /\ which' = IF which = -1 THEN room[p] ELSE which
      /\ UNCHANGED <<cur, wait, prev, room, oldWait, wh, j, k, seen, change>>
      /\ ~ change[p]
  BY <1>1 DEF TypeOK, Local, ClaimRooms, Goto
<1>5. Local(p)'
  BY <1>4 DEF Local
<1>6. TicketKept(p)
  BY <1>4 DEF TicketKept, HasTicket
<1>7. \A r \in Rooms : Occupies(p, r)' <=> Occupies(p, r)
  BY <1>4 DEF Occupies, HasTicket
<1>8. CASE which = -1
  <2>1. Boss(p)' => which' = BossRoom(p)'
    BY <1>4, <1>8 DEF BossRoom
  <2> QED
    BY <1>2, <1>3, <1>4, <1>5, <1>6, <1>7, <1>8, <2>1, Closed, WhichMoves,
       OthersKeep, PartsPrimed DEF TypeOK
<1>9. CASE which # -1
  <2>1. ~ Boss(p)'
    BY <1>4, <1>9 DEF Boss
  <2>2. UNCHANGED shared
    BY <1>4, <1>9 DEF shared
  <2> QED
    BY <1>2, <1>3, <1>4, <1>5, <1>6, <1>7, <2>1, <2>2, QuietKeeps,
       OthersKeep, PartsPrimed DEF TypeOK
<1> QED BY <1>8, <1>9

(* The boss moves which to the room it found.                              *)
LEMMA OpenRoomKeeps ==
  ASSUME IInv, NEW p \in Procs, OpenRoom(p)
  PROVE  IInv'
<1>1. TypeOK /\ Local(p)
  BY Parts
<1>2. NewWh(p) \in Rooms
  BY <1>1, RingInRooms DEF TypeOK, NewWh
<1>3. TypeOK'
  BY <1>1, <1>2 DEF TypeOK, OpenRoom, Goto
<1>4. Only(p)
  BY <1>1 DEF Only, TypeOK, OpenRoom, Goto
<1>5. /\ pc[p] = "open" /\ pc'[p] = "rdnew" /\ which' = NewWh(p)
      /\ UNCHANGED <<cur, wait, prev, room, oldWait, wh, j, k, seen, change>>
      /\ NewWh(p)' = NewWh(p)
  BY <1>1 DEF TypeOK, OpenRoom, Goto, NewWh
<1>6. Local(p)'
  BY <1>1, <1>5 DEF Local
<1>7. TicketKept(p)
  BY <1>5 DEF TicketKept, HasTicket
<1>8. Boss(p) /\ (Boss(p)' => which' = BossRoom(p)')
  BY <1>5 DEF Boss, BossRoom
<1>9. \A r \in Rooms : ~ Occupies(p, r)'
  <2>1. \A r \in Rooms : Occupies(p, r)' <=> Occupies(p, r)
    BY <1>5 DEF Occupies, HasTicket
  <2> QED BY <1>8, <2>1, BossFacts
<1>10. Tickets' /\ Occupancy'
  BY <1>4, <1>5, <1>7, <1>8, <1>9, BossFacts, WhichMoves
<1> QED
  BY <1>3, <1>4, <1>5, <1>6, <1>10, OthersKeep, PartsPrimed DEF TypeOK

(* The boss closes the rooms when its scan found no waiters.               *)
LEMMA CloseRoomsKeeps ==
  ASSUME IInv, NEW p \in Procs, CloseRooms(p)
  PROVE  IInv'
<1>1. TypeOK /\ Local(p)
  BY Parts
<1>2. 0 \in Rooms /\ 0 \in 0 .. Size
  BY RoomsAssumption DEF Rooms
<1>3. TypeOK'
  BY <1>1, <1>2 DEF TypeOK, CloseRooms, Return
<1>4. Only(p)
  BY <1>1 DEF Only, TypeOK, CloseRooms, Return
<1>5. /\ pc[p] = "none" /\ pc'[p] = "out" /\ ~ change[p] /\ ~ change'[p]
      /\ UNCHANGED <<cur, wait, prev, room, oldWait, seen>>
  BY <1>1 DEF TypeOK, CloseRooms, Return
<1>6. Local(p)'
  BY <1>5 DEF Local
<1>7. TicketKept(p)
  BY <1>5 DEF TicketKept, HasTicket
<1>8. Boss(p) /\ ~ Boss(p)'
  BY <1>5 DEF Boss
<1>9. \A r \in Rooms : ~ Occupies(p, r)'
  BY <1>5 DEF Occupies, HasTicket
<1>10. Tickets' /\ Occupancy'
  BY <1>4, <1>5, <1>7, <1>8, <1>9, BossFacts, WhichMoves
<1> QED
  BY <1>3, <1>4, <1>5, <1>6, <1>10, OthersKeep, PartsPrimed DEF TypeOK

----------------------------------------------------------------------------
(* Leaving: one occupant less, and one more on prev.                       *)

(* FetchAndAdd on prev: at most one leaver reaches cur, and only after all *)
(* others.                                                                 *)
LEMMA LeaveRoomKeeps ==
  ASSUME IInv, NEW p \in Procs, LeaveRoom(p)
  PROVE  IInv'
<1>1. TypeOK /\ Local(p) /\ Tickets /\ Occupancy
  BY Parts
<1>w. PICK w \in Rooms : w = wh[p]
  BY <1>1 DEF TypeOK
<1>2. w \in Rooms /\ room[p] \in Rooms /\ oldWait[p] \in Nat
      /\ \A r \in Rooms : cur[r] \in Nat /\ prev[r] \in Nat /\ wait[r] \in Nat
  BY <1>1 DEF TypeOK
<1>3. TypeOK'
  BY <1>1, <1>2 DEF TypeOK, LeaveRoom, Goto
<1>4. Only(p)
  BY <1>1 DEF Only, TypeOK, LeaveRoom, Goto
<1>5. /\ pc[p] = "leave" /\ pc'[p] = "compare"
      /\ prev' = [prev EXCEPT ![w] = @ + 1] /\ j'[p] = prev[w] + 1 /\ wh[p] = w
      /\ UNCHANGED <<which, cur, wait, room, oldWait, wh, k, seen, change>>
  BY <1>1, <1>w DEF TypeOK, LeaveRoom, Goto
<1>6. \A r \in Rooms : prev'[r] = IF r = w THEN prev[r] + 1 ELSE prev[r]
  BY <1>1, <1>2, <1>5 DEF TypeOK
<1>7. Local(p)'
  BY <1>1, <1>2, <1>5, <1>6 DEF Local
<1>8. Tickets'
  <2>1. TicketKept(p)
    BY <1>5 DEF TicketKept, HasTicket
  <2> QED BY <1>4, <1>5, <2>1, TicketsKeep
<1>9. HasTicket(p) => change[p]
  BY <1>5 DEF HasTicket
<1>10. \A r \in Rooms : /\ Occupies(p, r) <=> r = w
                        /\ ~ Occupies(p, r)'
  <2>1. HasTicket(p) => oldWait[p] > cur[room[p]]
    BY <1>1, <1>5, <1>9 DEF Local
  <2>2. HasTicket(p)' => HasTicket(p)
    BY <1>5 DEF HasTicket
  <2> QED BY <1>2, <1>5, <2>1, <2>2 DEF Occupies
<1>11. \A q \in Procs \ {p} : /\ Boss(q)' <=> Boss(q)
                              /\ \A r \in Rooms : Occupies(q, r)' <=> Occupies(q, r)
  BY <1>4, <1>5, OthersSame
<1>12. Occ(w)' = Occ(w) \ {p} /\ p \in Occ(w)
  BY <1>2, <1>10, <1>11 DEF Occ
<1>13. \A r \in Rooms \ {w} : Occ(r) = {} /\ Occ(r)' = {}
  BY <1>1, <1>2, <1>10, <1>11 DEF Occ, Occupancy, RoomExclusion
<1>14. IsFiniteSet(Occ(w)) /\ Cardinality(Occ(w)) = cur[w] - prev[w]
  BY <1>1, <1>2, RoomsAssumption, FS_Subset DEF Occ, Occupancy, OccupantsCounted
<1>15. Cardinality(Occ(w)') = cur[w] - prev[w] - 1 /\ IsFiniteSet(Occ(w)')
  BY <1>12, <1>14, FS_RemoveElement
<1>16. OccupantsCounted'
  <2> SUFFICES ASSUME NEW r \in Rooms
               PROVE  Cardinality(Occ(r)') = cur[r] - prev'[r]
    BY <1>5 DEF OccupantsCounted
  <2>1. CASE r = w
    BY <1>2, <1>6, <1>15, <2>1
  <2>2. CASE r # w
    <3>1. Occ(r) = Occ(r)' /\ prev'[r] = prev[r]
      BY <1>6, <1>13, <2>2
    <3> QED BY <1>1, <3>1 DEF Occupancy, OccupantsCounted
  <2> QED BY <2>1, <2>2
<1>17. RoomExclusion'
  BY <1>1, <1>5, <1>10, <1>11 DEF Occupancy, RoomExclusion
<1>18. \A q \in Procs : Boss(q)' => q = p
  BY <1>5, <1>11, InsideFacts
<1>19. Boss(p)' => \A q \in Procs : \A r \in Rooms : ~ Occupies(q, r)'
  <2> SUFFICES ASSUME Boss(p)'
               PROVE  \A q \in Procs : \A r \in Rooms : ~ Occupies(q, r)'
    OBVIOUS
  <2>1. prev[w] + 1 = cur[w]
    BY <1>5 DEF Boss
  <2>2. Occ(w)' = {}
    BY <1>2, <1>15, <2>1, FS_EmptySet
  <2> QED BY <1>13, <2>2 DEF Occ
<1>20. Boss(p)' => which' = BossRoom(p)'
  BY <1>5, InsideFacts DEF BossRoom
<1>21. BossAlone'
  BY <1>18, <1>19, <1>20 DEF BossAlone
<1> QED
  <2>1. \A r \in Rooms : wait'[r] >= wait[r] /\ prev'[r] >= prev[r]
    BY <1>2, <1>5, <1>6
  <2> QED BY <1>3, <1>4, <1>5, <1>7, <1>8, <1>16, <1>17, <1>21, <2>1,
             OthersKeep, PartsPrimed DEF Occupancy

----------------------------------------------------------------------------
(* Admitting a batch: cur[r] moves up to s while p is the boss of room r.  *)

(* Raising cur to wait admits exactly the processes that hold the new      *)
(* tickets.                                                                *)
LEMMA Admitted ==
  ASSUME IInv, NEW p \in Procs, Boss(p), NEW r \in Rooms, which = r,
         NEW s \in Nat, cur[r] < s, s <= wait[r],
         Only(p), UNCHANGED <<which, wait, prev>>, cur' = [cur EXCEPT ![r] = s],
         HasTicket(p)' => /\ HasTicket(p)
                          /\ room'[p] = room[p] /\ oldWait'[p] = oldWait[p],
         HasTicket(p) /\ ~ (room[p] = r /\ oldWait[p] <= s) =>
           HasTicket(p)' /\ room'[p] = room[p] /\ oldWait'[p] = oldWait[p],
         \A t \in Rooms : Occupies(p, t)' <=>
           HasTicket(p) /\ room[p] = t /\ oldWait[p] <= cur'[t],
         ~ Boss(p)'
  PROVE  Tickets' /\ Occupancy' /\ \A q \in Procs \ {p} : Local(q)'
<1>1. TypeOK /\ Tickets /\ Occupancy /\ \A q \in Procs : Local(q)
  BY Parts
<1>2. /\ \A q \in Procs : /\ room[q] \in Rooms /\ wh[q] \in Rooms
                           /\ oldWait[q] \in Nat /\ j[q] \in Nat
      /\ \A t \in Rooms : /\ cur[t] \in Nat /\ prev[t] \in Nat /\ wait[t] \in Nat
                           /\ cur'[t] = IF t = r THEN s ELSE cur[t]
  BY <1>1 DEF TypeOK
<1>3. /\ \A q \in Procs : Boss(q) => q = p
      /\ \A q \in Procs : \A t \in Rooms : ~ Occupies(q, t)
  BY BossFacts
<1>4. /\ \A t \in Rooms : cur[t] = prev[t]
      /\ \A q \in Procs : pc[q] \notin {"in", "ticket", "leave"}
      /\ \A q \in Procs : HasTicket(q) => oldWait[q] > cur[room[q]]
  BY <1>3, NobodyInside
<1>5. ASSUME NEW q \in Procs \ {p}
      PROVE  /\ HasTicket(q)' <=> HasTicket(q)
             /\ room'[q] = room[q] /\ oldWait'[q] = oldWait[q]
             /\ pc'[q] = pc[q] /\ wh'[q] = wh[q] /\ j'[q] = j[q]
  BY <1>5, OthersSame DEF Only
<1>6. TicketsIssued'
  <2>1. \A t \in Rooms : cur'[t] <= wait[t]
    BY <1>1, <1>2 DEF Tickets, TicketsIssued
  <2>2. \A q \in Procs : HasTicket(q)' => oldWait'[q] <= wait[room'[q]]
    BY <1>1, <1>5 DEF Tickets, TicketsIssued
  <2> QED BY <2>1, <2>2 DEF TicketsIssued
<1>7. TicketsDistinct'
  <2>1. \A q \in Procs : HasTicket(q)' => /\ HasTicket(q)
                                          /\ room'[q] = room[q]
                                          /\ oldWait'[q] = oldWait[q]
    BY <1>5
  <2> QED BY <1>1, <2>1 DEF Tickets, TicketsDistinct
<1>8. TicketsHeld'
  <2> SUFFICES ASSUME NEW t \in Rooms, NEW n \in cur'[t] + 1 .. wait[t]
               PROVE  \E q \in Procs : HasTicket(q)' /\ room'[q] = t
                                         /\ oldWait'[q] = n
    BY DEF TicketsHeld
  <2>1. n \in cur[t] + 1 .. wait[t] /\ (t = r => n > s)
    BY <1>2
  <2>2. PICK q \in Procs : HasTicket(q) /\ room[q] = t /\ oldWait[q] = n
    BY <1>1, <2>1 DEF Tickets, TicketsHeld
  <2>3. ~ (room[q] = r /\ oldWait[q] <= s)
    BY <1>2, <2>1, <2>2
  <2> QED BY <1>5, <2>2, <2>3
<1>9. \A q \in Procs : \A t \in Rooms :
        Occupies(q, t)' <=> HasTicket(q) /\ room[q] = t /\ oldWait[q] <= cur'[t]
  BY <1>4, <1>5 DEF Occupies
<1>10. \A q \in Procs : \A t \in Rooms : t # r => ~ Occupies(q, t)'
  BY <1>2, <1>4, <1>9
<1>11. RoomExclusion'
  BY <1>10 DEF RoomExclusion
<1>12. OccupantsCounted'
  <2> SUFFICES ASSUME NEW t \in Rooms
               PROVE  Cardinality(Occ(t)') = cur'[t] - prev[t]
    BY DEF OccupantsCounted
  <2>1. CASE t = r
    <3>1. Occ(r)' = {q \in Procs : HasTicket(q) /\ room[q] = r
                                     /\ oldWait[q] <= s}
      BY <1>2, <1>9 DEF Occ
    <3>2. Cardinality(Occ(r)') = s - cur[r]
      BY <1>2, <1>4, <3>1, BatchSize
    <3> QED BY <1>2, <1>4, <2>1, <3>2
  <2>2. CASE t # r
    <3>1. Occ(t)' = {}
      BY <1>10, <2>2 DEF Occ
    <3> QED BY <1>2, <1>4, <2>2, <3>1, FS_EmptySet
  <2> QED BY <2>1, <2>2
<1>13. \A q \in Procs : ~ Boss(q)'
  <2> SUFFICES ASSUME NEW q \in Procs \ {p} PROVE ~ Boss(q)'
    OBVIOUS
  <2>1. ~ Boss(q)
    BY <1>3
  <2>2. pc[q] = "compare" => j[q] # cur'[wh[q]]
    <3>1. pc[q] = "compare" => j[q] # cur[wh[q]] /\ j[q] <= cur[wh[q]]
      BY <1>1, <1>2, <1>4, <2>1 DEF Boss, Local
    <3> QED BY <1>2, <3>1
  <2> QED BY <1>5, <2>1, <2>2 DEF Boss
<1>14. BossAlone'
  BY <1>13 DEF BossAlone
<1>15. ASSUME NEW q \in Procs \ {p} PROVE Local(q)'
  <2>1. ~ Boss(q)
    BY <1>3
  <2> QED BY <1>1, <1>4, <2>1 DEF Local, Boss, Only, Ring
<1> QED
  BY <1>6, <1>7, <1>8, <1>11, <1>12, <1>14, <1>15 DEF Tickets, Occupancy

(* The claimer admits its batch.                                           *)
LEMMA WriteCurKeeps ==
  ASSUME IInv, NEW p \in Procs, WriteCur(p)
  PROVE  IInv'
<1>1. TypeOK /\ Local(p)
  BY Parts
<1>2. PICK r \in Rooms, s \in Nat : r = room[p] /\ s = seen[p]
  BY <1>1 DEF TypeOK
<1>3. TypeOK'
  BY <1>1 DEF TypeOK, WriteCur, Goto
<1>4. Only(p)
  BY <1>1 DEF Only, TypeOK, WriteCur, Goto
<1>5. /\ pc[p] = "wrcur" /\ pc'[p] = "in" /\ ~ change[p] /\ ~ change'[p]
      /\ cur' = [cur EXCEPT ![r] = s] /\ room[p] = r /\ room'[p] = r
      /\ UNCHANGED <<which, wait, prev, oldWait>>
  BY <1>1, <1>2 DEF TypeOK, Local, WriteCur, Goto
<1>6. Local(p)'
  BY <1>5 DEF Local
<1>7. Boss(p) /\ which = r /\ ~ Boss(p)'
  <2>1. Boss(p) /\ ~ Boss(p)'
    BY <1>5 DEF Boss
  <2> QED BY <1>5, <2>1, BossFacts DEF BossRoom
<1>8. HasTicket(p) /\ ~ HasTicket(p)'
  BY <1>5 DEF HasTicket
<1>9. oldWait[p] <= s /\ s <= wait[r] /\ cur[r] < s
  <2>1. oldWait[p] <= s /\ s <= wait[r]
    BY <1>1, <1>2, <1>5 DEF Local
  <2>2. cur[r] < oldWait[p]
    BY <1>2, <1>7, <1>8, BossFacts, NobodyInside
  <2>3. cur[r] \in Nat /\ oldWait[p] \in Nat
    BY <1>1, <1>2 DEF TypeOK
  <2> QED BY <1>2, <2>1, <2>2, <2>3
<1>10. \A t \in Rooms : Occupies(p, t)' <=>
         HasTicket(p) /\ room[p] = t /\ oldWait[p] <= cur'[t]
  <2>1. cur'[r] = s
    BY <1>1, <1>5 DEF TypeOK
  <2>2. \A t \in Rooms : Occupies(p, t)' <=> t = r
    BY <1>5, <1>8 DEF Occupies
  <2> QED BY <1>5, <1>8, <1>9, <2>1, <2>2
<1>11. Tickets' /\ Occupancy' /\ \A q \in Procs \ {p} : Local(q)'
  BY <1>4, <1>5, <1>7, <1>8, <1>9, <1>10, Admitted
<1> QED BY <1>3, <1>6, <1>11, PartsPrimed

(* The last leaver admits the next batch.                                  *)
LEMMA WriteNewCurKeeps ==
  ASSUME IInv, NEW p \in Procs, WriteNewCur(p)
  PROVE  IInv'
<1>1. TypeOK /\ Local(p) /\ NewWh(p) \in Rooms
  BY Parts, RingInRooms DEF TypeOK, NewWh
<1>2. PICK r \in Rooms, s \in Nat : r = NewWh(p) /\ s = seen[p]
  BY <1>1 DEF TypeOK
<1>3. TypeOK'
  <2>1. 0 \in Rooms /\ 0 \in 0 .. Size
    BY RoomsAssumption DEF Rooms
  <2>2. /\ wh' \in [Procs -> Rooms] /\ j' \in [Procs -> Nat]
        /\ k' \in [Procs -> 0 .. Size] /\ change' \in [Procs -> BOOLEAN]
    BY <1>1, <2>1 DEF TypeOK, WriteNewCur, Return
  <2>3. pc' \in [Procs -> {"out", "test", "cas", "rdwait", "wrcur", "in",
                          "ticket", "leave", "compare", "final", "scan",
                          "open", "rdnew", "wrnew", "none", "spin"}]
    BY <1>1 DEF TypeOK, WriteNewCur, Return
  <2>4. cur' \in [Rooms -> Nat] /\ seen' \in [Procs -> Nat]
    BY <1>1 DEF TypeOK, WriteNewCur
  <2> QED BY <1>1, <2>2, <2>3, <2>4 DEF TypeOK, WriteNewCur
<1>4. Only(p)
  BY <1>1 DEF Only, TypeOK, WriteNewCur, Return
<1>5. /\ pc[p] = "wrnew" /\ pc'[p] = IF change[p] THEN "spin" ELSE "out"
      /\ ~ change'[p] /\ cur' = [cur EXCEPT ![r] = s]
      /\ UNCHANGED <<which, wait, prev, room, oldWait>>
  BY <1>1, <1>2 DEF TypeOK, WriteNewCur, Return
<1>6. Local(p)'
  BY <1>5 DEF Local
<1>7. Boss(p) /\ which = r /\ ~ Boss(p)'
  <2>1. Boss(p) /\ ~ Boss(p)'
    BY <1>5 DEF Boss
  <2> QED BY <1>2, <1>5, <2>1, BossFacts DEF BossRoom
<1>8. HasTicket(p)' <=> HasTicket(p)
  <2>1. CASE change[p]
    BY <1>5, <2>1 DEF HasTicket
  <2>2. CASE ~ change[p]
    BY <1>5, <2>2 DEF HasTicket
  <2> QED BY <2>1, <2>2
<1>9. s <= wait[r] /\ cur[r] < s
  BY <1>1, <1>2, <1>5 DEF Local
<1>10. \A t \in Rooms : Occupies(p, t)' <=>
         HasTicket(p) /\ room[p] = t /\ oldWait[p] <= cur'[t]
  BY <1>5, <1>8 DEF Occupies
<1>11. Tickets' /\ Occupancy' /\ \A q \in Procs \ {p} : Local(q)'
  BY <1>4, <1>5, <1>7, <1>8, <1>9, <1>10, Admitted
<1> QED BY <1>3, <1>6, <1>11, PartsPrimed

----------------------------------------------------------------------------
(* Initially nobody holds a ticket and the rooms are closed.               *)
LEMMA InitIInv == Init => IInv
<1> SUFFICES ASSUME Init PROVE IInv
  OBVIOUS
<1>1. 0 \in Rooms /\ 0 \in 0 .. Size
  BY RoomsAssumption DEF Rooms
<1>2. TypeOK
  BY <1>1 DEF Init, TypeOK
<1>3. \A p \in Procs : pc[p] = "out" /\ ~ change[p]
  BY DEF Init
<1>4. \A p \in Procs : Local(p) /\ ~ HasTicket(p) /\ ~ Boss(p)
  BY <1>3 DEF Local, HasTicket, Boss
<1>5. \A p \in Procs, r \in Rooms : ~ Occupies(p, r)
  BY <1>3, <1>4 DEF Occupies
<1>6. Tickets
  BY <1>4 DEF Tickets, TicketsIssued, TicketsDistinct, TicketsHeld, Init
<1>7. \A r \in Rooms : Cardinality(Occ(r)) = cur[r] - prev[r]
  BY <1>5, FS_EmptySet DEF Occ, Init
<1>8. Occupancy
  BY <1>4, <1>5, <1>7 DEF Occupancy, OccupantsCounted, RoomExclusion, BossAlone
<1> QED BY <1>2, <1>4, <1>6, <1>8, Parts

(* Every step of the rooms preserves the inductive invariant.              *)
LEMMA NextIInv == IInv /\ [Next]_vars => IInv'
<1> SUFFICES ASSUME IInv, [Next]_vars PROVE IInv'
  OBVIOUS
<1>1. CASE UNCHANGED vars
  BY <1>1 DEF vars, shared, locals, IInv, TypeOK, ChangeOK, TicketsIssued,
     TicketsDistinct, TicketsHeld, OccupantsCounted, RoomExclusion, BossAlone,
     TicketAhead, PositionPast, CopyPending, ScanPassed, ChangeRoomNeverDies,
     HasTicket, Occupies, Occ, Boss, BossRoom, NewWh, Ring
<1>2. ASSUME NEW p \in Procs, NEW r \in Rooms, EnterRoom(p, r) PROVE IInv'
  BY <1>2, EnterRoomKeeps
<1>3. ASSUME NEW p \in Procs, NEW r \in Rooms, ChangeRoom(p, r) PROVE IInv'
  BY <1>3, ChangeRoomKeeps
<1>4. ASSUME NEW p \in Procs, ExitRoom(p) PROVE IInv'
  BY <1>4, ExitRoomKeeps
<1>5. ASSUME NEW p \in Procs, Entering(p) PROVE IInv'
  BY <1>5, TestTicketKeeps, ClaimRoomsKeeps, ReadWaitKeeps, WriteCurKeeps
     DEF Entering
<1>6. ASSUME NEW p \in Procs, Leaving(p) PROVE IInv'
  BY <1>6, TakeTicketKeeps, LeaveRoomKeeps, NotLastKeeps, LastKeeps,
     FinalizeKeeps, ScanKeeps, OpenRoomKeeps, ReadNewWaitKeeps,
     WriteNewCurKeeps, CloseRoomsKeeps, SpinKeeps DEF Leaving
<1> QED BY <1>1, <1>2, <1>3, <1>4, <1>5, <1>6 DEF Next, Call

(* The counters, tickets and bosses of rooms.c stay consistent under any   *)
(* interleaving of enterRoom, exitRoom and changeRoom.                     *)
THEOREM InductiveInvariant == Spec => []IInv
BY InitIInv, NextIInv, PTL DEF Spec

(* Every variable has its type; in particular the scan for a room with     *)
(* waiters never indexes outside the rooms.                                *)
THEOREM TypeCorrect == Spec => []TypeOK
<1>1. IInv => TypeOK
  BY DEF IInv
<1> QED BY <1>1, InductiveInvariant, PTL

(* Mutual exclusion: processes inside are all in the one open room.        *)
THEOREM Exclusion == Spec => []RoomExclusion
<1>1. IInv => RoomExclusion
  BY DEF IInv
<1> QED BY <1>1, InductiveInvariant, PTL

(* The exit code of a room runs while nobody is inside any room.           *)
THEOREM ExitCodeRunsAlone == Spec => []ExitCodeAlone
<1>1. IInv => ExitCodeAlone
  BY DEF IInv, ExitCodeAlone, BossAlone, Boss
<1> QED BY <1>1, InductiveInvariant, PTL

(* DIE("changeRoom") is unreachable.                                       *)
THEOREM NeverDies == Spec => []ChangeRoomNeverDies
<1>1. IInv => ChangeRoomNeverDies
  BY DEF IInv
<1> QED BY <1>1, InductiveInvariant, PTL

----------------------------------------------------------------------------
(* The refinement of RoomsAbs.  The queues, the occupants and the pending  *)
(* exit code that a state of Rooms stands for.                             *)
Queue == [r \in Rooms |-> [n \in 1 .. wait[r] - cur[r] |-> Holder(r, cur[r] + n)]]
Inside == [r \in Rooms |-> {p \in Procs : Occupies(p, r)}]
Closing == {p \in Procs : LastLeaver(p)}

(* p waits for room r with the n-th of its tickets that are not admitted.  *)
Waits(p, r, n) == HasTicket(p) /\ room[p] = r /\ oldWait[p] = cur[r] + n

(* The n-th in the queue of a room is the one who holds that ticket.       *)
QueueOK ==
  \A r \in Rooms :
    /\ wait[r] - cur[r] \in Nat
    /\ Queue[r] = [n \in 1 .. wait[r] - cur[r] |-> Queue[r][n]]
    /\ \A n \in 1 .. wait[r] - cur[r] :
         /\ Queue[r][n] \in Procs
         /\ \A p \in Procs : Queue[r][n] = p <=> Waits(p, r, n)

LEMMA QueueIs == IInv => QueueOK
<1>. SUFFICES ASSUME IInv, NEW r \in Rooms
              PROVE  /\ wait[r] - cur[r] \in Nat
                     /\ Queue[r] = [n \in 1 .. wait[r] - cur[r] |-> Queue[r][n]]
                     /\ \A n \in 1 .. wait[r] - cur[r] :
                          /\ Queue[r][n] \in Procs
                          /\ \A p \in Procs : Queue[r][n] = p <=> Waits(p, r, n)
  BY DEF QueueOK
<1>1. TypeOK /\ TicketsIssued /\ TicketsHeld /\ TicketsDistinct
  BY DEF IInv
<1>2. cur[r] \in Nat /\ wait[r] \in Nat /\ cur[r] <= wait[r]
  BY <1>1 DEF TypeOK, TicketsIssued
<1>3. Queue[r] = [n \in 1 .. wait[r] - cur[r] |-> Holder(r, cur[r] + n)]
  BY DEF Queue
<1>4. ASSUME NEW n \in 1 .. wait[r] - cur[r]
      PROVE  /\ Queue[r][n] \in Procs
             /\ \A p \in Procs : Queue[r][n] = p <=> Waits(p, r, n)
  <2>. PICK h : h = Holder(r, cur[r] + n)
    OBVIOUS
  <2>1. Queue[r][n] = h
    BY <1>3
  <2>2. cur[r] + n \in cur[r] + 1 .. wait[r]
    BY <1>2
  <2>3. \E p \in Procs : HasTicket(p) /\ room[p] = r /\ oldWait[p] = cur[r] + n
    BY <1>1, <2>2 DEF TicketsHeld
  <2>4. h \in Procs /\ HasTicket(h) /\ room[h] = r /\ oldWait[h] = cur[r] + n
    BY <2>3, Zenon DEF Holder
  <2>5. \A p \in Procs : Waits(p, r, n) => p = h
    BY <1>1, <2>4 DEF Waits, TicketsDistinct
  <2>. QED
    BY <2>1, <2>4, <2>5 DEF Waits
<1>. QED
  BY <1>2, <1>3, <1>4

LEMMA QueueNext == IInv' => QueueOK'
BY QueueIs, PTL

(* Two states with as many waiting for a room, in the same order.          *)
LEMMA SameQueue ==
  ASSUME QueueOK, QueueOK', NEW r \in Rooms, NEW d \in Nat,
         wait'[r] - cur'[r] = wait[r] - cur[r] - d,
         \A n \in 1 .. wait'[r] - cur'[r], p \in Procs :
           Waits(p, r, n + d) => Waits(p, r, n)'
  PROVE  Queue'[r] = [n \in 1 .. wait[r] - cur[r] - d |-> Queue[r][n + d]]
<1>. PICK l, x, y : l = wait[r] - cur[r] /\ x = Queue[r] /\ y = Queue'[r]
  BY DEF QueueOK
<1>1. /\ l \in Nat /\ l - d \in Nat /\ wait'[r] - cur'[r] = l - d
      /\ y = [n \in 1 .. l - d |-> y[n]]
      /\ \A n \in 1 .. l - d : y[n] \in Procs /\ \A p \in Procs : y[n] = p <=> Waits(p, r, n)'
  BY DEF QueueOK
<1>2. \A n \in 1 .. l : x[n] \in Procs /\ \A p \in Procs : x[n] = p <=> Waits(p, r, n)
  BY DEF QueueOK
<1>3. \A n \in 1 .. l - d : y[n] = x[n + d]
  <2>. TAKE n \in 1 .. l - d
  <2>1. n + d \in 1 .. l
    BY <1>1
  <2>2. PICK p \in Procs : x[n + d] = p
    BY <1>2, <2>1
  <2>3. Waits(p, r, n)'
    BY <1>1, <1>2, <2>1, <2>2
  <2>. QED
    BY <1>1, <2>2, <2>3
<1>. QED
  BY <1>1, <1>3

(* A step that leaves the tickets alone leaves the queues alone.           *)
LEMMA QueueStays ==
  ASSUME IInv, IInv', NEW p \in Procs, Only(p), UNCHANGED <<cur, wait>>, TicketKept(p)
  PROVE  Queue' = Queue
<1>1. QueueOK /\ QueueOK' /\ TypeOK
  BY QueueIs, QueueNext DEF IInv
<1>2. \A q \in Procs \ {p} : /\ HasTicket(q)' <=> HasTicket(q)
                             /\ room'[q] = room[q] /\ oldWait'[q] = oldWait[q]
  BY OthersSame
<1>3. ASSUME NEW r \in Rooms PROVE Queue'[r] = Queue[r]
  <2>1. cur[r] \in Nat /\ wait[r] \in Nat /\ wait' = wait /\ cur' = cur
    BY <1>1 DEF TypeOK
  <2>2. \A n \in 1 .. wait'[r] - cur'[r], q \in Procs : Waits(q, r, n + 0) => Waits(q, r, n)'
    <3>. TAKE n \in 1 .. wait'[r] - cur'[r], q \in Procs
    <3>1. Waits(q, r, n + 0) => HasTicket(q) /\ room[q] = r /\ oldWait[q] = cur[r] + n
      BY <2>1 DEF Waits
    <3>2. Waits(q, r, n + 0) => oldWait[q] > cur[room[q]]
      BY <2>1, <3>1
    <3>3. Waits(q, r, n + 0) => HasTicket(q)' /\ room'[q] = r /\ oldWait'[q] = cur[r] + n
      BY <1>2, <3>1, <3>2 DEF TicketKept
    <3>. QED
      BY <2>1, <3>3 DEF Waits
  <2>3. Queue'[r] = [n \in 1 .. wait[r] - cur[r] - 0 |-> Queue[r][n + 0]]
    <3>1. 0 \in Nat /\ wait'[r] - cur'[r] = wait[r] - cur[r] - 0
      BY <2>1
    <3>. QED
      BY ONLY <1>1, <2>2, <3>1, SameQueue
  <2>4. Queue[r] = [n \in 1 .. wait[r] - cur[r] |-> Queue[r][n]]
    BY <1>1 DEF QueueOK
  <2>. QED
    BY <2>1, <2>3, <2>4
<1>. QED
  BY <1>3 DEF Queue

(* A step that the callers of the rooms cannot see.                        *)
Unseen(p) ==
  /\ Only(p) /\ UNCHANGED <<cur, wait>> /\ TicketKept(p)
  /\ \A r \in Rooms : Occupies(p, r)' <=> Occupies(p, r)
  /\ LastLeaver(p)' <=> LastLeaver(p)

LEMMA UnseenStutters ==
  ASSUME IInv, IInv', NEW p \in Procs, Unseen(p)
  PROVE  UNCHANGED <<Queue, Inside, Closing>>
<1>1. \A q \in Procs \ {p} : /\ HasTicket(q)' <=> HasTicket(q)
                             /\ \A r \in Rooms : Occupies(q, r)' <=> Occupies(q, r)
  BY OthersSame DEF Unseen
<1>2. Queue' = Queue
  BY QueueStays DEF Unseen
<1>3. Inside' = Inside
  BY <1>1 DEF Unseen, Inside
<1>4. Closing' = Closing
  BY DEF Unseen, Only, Closing, LastLeaver
<1>. QED
  BY <1>2, <1>3, <1>4

(* Steps inside a call that admit nobody, let nobody go and end no exit    *)
(* code.                                                                   *)
LEMMA QuietIsUnseen ==
  ASSUME IInv, NEW p \in Procs,
         \/ TestTicket(p) \/ ClaimRooms(p) \/ ReadWait(p) \/ ExitRoom(p)
         \/ NotLast(p) \/ Last(p) \/ Scan(p) \/ OpenRoom(p) \/ ReadNewWait(p)
         \/ CloseRooms(p) \/ Spin(p) \/ \E r \in Rooms : ChangeRoom(p, r)
  PROVE  Unseen(p)
<1>1. TypeOK /\ Local(p)
  BY Parts
<1>2. Only(p)
  <2>1. CASE TestTicket(p) \/ ClaimRooms(p) \/ ReadWait(p)
    BY <1>1, <2>1 DEF Only, TypeOK, TestTicket, ClaimRooms, ReadWait, Goto, shared
  <2>2. CASE ExitRoom(p) \/ Last(p) \/ ReadNewWait(p) \/ OpenRoom(p) \/ Spin(p)
    BY <1>1, <2>2 DEF Only, TypeOK, ExitRoom, Last, ReadNewWait, OpenRoom, Spin, Goto, shared
  <2>3. CASE NotLast(p) \/ CloseRooms(p)
    BY <1>1, <2>3 DEF Only, TypeOK, NotLast, CloseRooms, Return, shared
  <2>4. CASE Scan(p)
    BY <1>1, <2>4 DEF Only, TypeOK, Scan, Goto, shared
  <2>5. CASE \E r \in Rooms : ChangeRoom(p, r)
    BY <1>1, <2>5 DEF Only, TypeOK, ChangeRoom, Goto, shared
  <2>. QED
    BY <2>1, <2>2, <2>3, <2>4, <2>5
<1>3. UNCHANGED <<cur, wait>>
  BY DEF TestTicket, ClaimRooms, ReadWait, ExitRoom, NotLast, Last, Scan, OpenRoom,
         ReadNewWait, CloseRooms, Spin, ChangeRoom, Goto, Return, shared
<1>4. TicketKept(p) /\ (LastLeaver(p)' <=> LastLeaver(p))
  <2>1. CASE TestTicket(p) \/ ClaimRooms(p) \/ ReadWait(p)
    BY <1>1, <2>1 DEF TicketKept, LastLeaver, Local, HasTicket, TypeOK, TestTicket,
                      ClaimRooms, ReadWait, Goto, shared
  <2>2. CASE ExitRoom(p) \/ Last(p) \/ ReadNewWait(p) \/ OpenRoom(p) \/ Spin(p)
    BY <1>1, <2>2 DEF TicketKept, LastLeaver, Local, HasTicket, TypeOK, ExitRoom, Last,
                      ReadNewWait, OpenRoom, Spin, Goto, shared
  <2>3. CASE NotLast(p) \/ CloseRooms(p)
    BY <1>1, <2>3 DEF TicketKept, LastLeaver, Local, HasTicket, TypeOK, NotLast,
                      CloseRooms, Return, shared
  <2>4. CASE Scan(p)
    BY <1>1, <2>4 DEF TicketKept, LastLeaver, Local, HasTicket, TypeOK, Scan, Goto, shared
  <2>5. CASE \E r \in Rooms : ChangeRoom(p, r)
    BY <1>1, <2>5 DEF TicketKept, LastLeaver, Local, HasTicket, TypeOK, ChangeRoom, Goto,
                      shared
  <2>. QED
    BY <2>1, <2>2, <2>3, <2>4, <2>5
<1>5. \A r \in Rooms : Occupies(p, r)' <=> Occupies(p, r)
  <2>1. CASE TestTicket(p) \/ ClaimRooms(p) \/ ReadWait(p)
    BY <1>1, <2>1 DEF Local, Occupies, HasTicket, TypeOK, TestTicket, ClaimRooms, ReadWait,
                      Goto, shared
  <2>2. CASE ExitRoom(p) \/ Last(p) \/ ReadNewWait(p) \/ OpenRoom(p) \/ Spin(p)
    BY <1>1, <2>2, InsideFacts DEF Local, Occupies, HasTicket, TypeOK, ExitRoom, Last,
                      ReadNewWait, OpenRoom, Spin, Goto, shared
  <2>3. CASE NotLast(p) \/ CloseRooms(p)
    BY <1>1, <2>3 DEF Local, Occupies, HasTicket, TypeOK, NotLast, CloseRooms, Return, shared
  <2>4. CASE Scan(p)
    BY <1>1, <2>4 DEF Local, Occupies, HasTicket, TypeOK, Scan, Goto, shared
  <2>5. CASE \E r \in Rooms : ChangeRoom(p, r)
    BY <1>1, <2>5, InsideFacts DEF Local, Occupies, HasTicket, TypeOK, ChangeRoom, Goto, shared
  <2>. QED
    BY <2>1, <2>2, <2>3, <2>4, <2>5
<1>. QED
  BY <1>2, <1>3, <1>4, <1>5 DEF Unseen

(* A ticket puts its holder at the end of the queue.                       *)
LEMMA TicketArrives ==
  ASSUME IInv, IInv', NEW p \in Procs, NEW r \in Rooms,
         EnterRoom(p, r) \/ (TakeTicket(p) /\ room[p] = r)
  PROVE  /\ \A s \in Rooms : \A n \in 1 .. wait[s] - cur[s] : Queue[s][n] # p
         /\ Queue' = [Queue EXCEPT ![r] = Append(@, p)]
         /\ UNCHANGED <<Inside, Closing>>
<1>1. TypeOK /\ Local(p) /\ QueueOK /\ QueueOK'
  BY Parts, QueueIs, QueueNext
<1>2. /\ Only(p) /\ wait' = [wait EXCEPT ![r] = @ + 1] /\ cur' = cur
      /\ ~ HasTicket(p) /\ HasTicket(p)' /\ room'[p] = r /\ oldWait'[p] = wait[r] + 1
      /\ ~ LastLeaver(p) /\ ~ LastLeaver(p)'
  <2>1. CASE EnterRoom(p, r)
    BY <1>1, <2>1 DEF Only, HasTicket, LastLeaver, Local, TypeOK, EnterRoom, Goto
  <2>2. CASE TakeTicket(p) /\ room[p] = r
    BY <1>1, <2>2 DEF Only, HasTicket, LastLeaver, Local, TypeOK, TakeTicket, Goto
  <2>. QED
    BY <2>1, <2>2
<1>3. \A s \in Rooms : Occupies(p, s)' <=> Occupies(p, s)
  <2>1. cur[r] <= wait[r]
    BY DEF IInv, TicketsIssued
  <2>2. CASE EnterRoom(p, r)
    BY <1>1, <2>1, <2>2 DEF Occupies, HasTicket, Local, TypeOK, EnterRoom, Goto
  <2>3. CASE TakeTicket(p) /\ room[p] = r
    BY <1>1, <2>1, <2>3 DEF Occupies, HasTicket, Local, TypeOK, TakeTicket, Goto
  <2>. QED
    BY <2>2, <2>3
<1>4. \A q \in Procs \ {p} : /\ HasTicket(q)' <=> HasTicket(q)
                             /\ room'[q] = room[q] /\ oldWait'[q] = oldWait[q]
                             /\ \A s \in Rooms : Occupies(q, s)' <=> Occupies(q, s)
  BY <1>2, OthersSame
<1>5. \A s \in Rooms : \A n \in 1 .. wait[s] - cur[s] : Queue[s][n] # p
  <2>. TAKE s \in Rooms
  <2>. TAKE n \in 1 .. wait[s] - cur[s]
  <2>1. Queue[s][n] = p => Waits(p, s, n)
    BY <1>1 DEF QueueOK
  <2>. QED
    BY <1>2, <2>1 DEF Waits
<1>6. \A s \in Rooms : /\ cur[s] \in Nat /\ wait[s] \in Nat /\ wait[s] - cur[s] \in Nat
                       /\ wait'[s] = IF s = r THEN wait[s] + 1 ELSE wait[s]
                       /\ cur'[s] = cur[s]
  BY <1>1, <1>2 DEF TypeOK, QueueOK
<1>7. \A s \in Rooms : \A n \in 1 .. wait[s] - cur[s] : Queue'[s][n] = Queue[s][n]
  <2>. TAKE s \in Rooms
  <2>. TAKE n \in 1 .. wait[s] - cur[s]
  <2>. PICK q \in Procs : q = Queue[s][n]
    BY <1>1 DEF QueueOK
  <2>1. Waits(q, s, n) /\ q # p
    BY <1>1, <1>5 DEF QueueOK
  <2>2. Waits(q, s, n)'
    BY <1>4, <1>6, <2>1 DEF Waits
  <2>3. n \in 1 .. wait'[s] - cur'[s]
    BY <1>6
  <2>4. \A m \in 1 .. wait'[s] - cur'[s], o \in Procs : Queue'[s][m] = o <=> Waits(o, s, m)'
    BY <1>1 DEF QueueOK
  <2>. QED
    BY <2>2, <2>3, <2>4
<1>8. Queue'[r][wait[r] - cur[r] + 1] = p
  <2>. PICK n \in Nat : n = wait[r] - cur[r] + 1
    BY <1>6
  <2>1. n \in 1 .. wait'[r] - cur'[r] /\ cur'[r] + n = wait[r] + 1
    BY <1>6
  <2>2. Waits(p, r, n)'
    BY <1>2, <2>1 DEF Waits
  <2>3. \A m \in 1 .. wait'[r] - cur'[r], o \in Procs : Queue'[r][m] = o <=> Waits(o, r, m)'
    BY <1>1 DEF QueueOK
  <2>. QED
    BY <2>1, <2>2, <2>3
<1>9. Queue' = [Queue EXCEPT ![r] = Append(@, p)]
  <2>. PICK x, y, l : x = Queue /\ y = Queue' /\ l = wait[r] - cur[r]
    OBVIOUS
  <2>1. y = [s \in Rooms |-> y[s]] /\ x = [s \in Rooms |-> x[s]]
    BY DEF Queue
  <2>2. ASSUME NEW s \in Rooms, s # r PROVE y[s] = x[s]
    <3>1. PICK m : m = wait[s] - cur[s]
      OBVIOUS
    <3>2. y[s] = [n \in 1 .. m |-> y[s][n]] /\ x[s] = [n \in 1 .. m |-> x[s][n]]
      BY <1>1, <1>6, <2>2, <3>1 DEF QueueOK
    <3>3. \A n \in 1 .. m : y[s][n] = x[s][n]
      BY <1>7, <3>1
    <3>. QED
      BY <3>2, <3>3
  <2>3. y[r] = Append(x[r], p)
    <3>1. l \in Nat /\ y[r] = [n \in 1 .. l + 1 |-> y[r][n]] /\ x[r] = [n \in 1 .. l |-> x[r][n]]
      <4>1. l \in Nat /\ wait'[r] - cur'[r] = l + 1
        BY <1>6
      <4>2. /\ Queue'[r] = [n \in 1 .. wait'[r] - cur'[r] |-> Queue'[r][n]]
            /\ Queue[r] = [n \in 1 .. wait[r] - cur[r] |-> Queue[r][n]]
        BY <1>1 DEF QueueOK
      <4>. QED
        BY <4>1, <4>2
    <3>2. x[r] \in Seq(Procs) /\ Len(x[r]) = l
      <4>1. \A n \in 1 .. l : x[r][n] \in Procs
        BY <1>1 DEF QueueOK
      <4>2. [n \in 1 .. l |-> x[r][n]] \in Seq(Procs)
        BY <3>1, <4>1
      <4>. QED
        BY <3>1, <4>2
    <3>3. \A n \in 1 .. l + 1 : y[r][n] = IF n = l + 1 THEN p ELSE x[r][n]
      BY <1>7, <1>8, <3>1
    <3>4. Append(x[r], p) = [n \in 1 .. l + 1 |-> IF n = l + 1 THEN p ELSE x[r][n]]
      BY <3>1, <3>2
    <3>. QED
      BY <3>1, <3>3, <3>4
  <2>. QED
    BY <2>1, <2>2, <2>3
<1>10. Inside' = Inside
  BY <1>3, <1>4 DEF Inside
<1>11. Closing' = Closing
  BY <1>2 DEF Only, Closing, LastLeaver
<1>. QED
  BY <1>5, <1>9, <1>10, <1>11

(* The first d that wait for room r are let in together.                   *)
AdmitsFirst(r, d) ==
  /\ \A t \in Rooms : Inside[t] = {}
  /\ Closing = {} /\ Closing' = {}
  /\ Inside' = [Inside EXCEPT ![r] = {Queue[r][m] : m \in 1 .. d}]
  /\ Queue' = [Queue EXCEPT ![r] = SubSeq(@, d + 1, Len(@))]

(* The write of cur[r] by the one in charge of the rooms admits the        *)
(* holders of the tickets up to s: the first of the queue of r.            *)
LEMMA BatchAdmits ==
  ASSUME IInv, IInv', NEW p \in Procs, Boss(p), ~ LastLeaver(p), NEW r \in Rooms,
         NEW s \in Nat, cur[r] < s, s <= wait[r],
         Only(p), wait' = wait, cur' = [cur EXCEPT ![r] = s],
         HasTicket(p) /\ ~ (room[p] = r /\ oldWait[p] <= s) =>
           HasTicket(p)' /\ room'[p] = room[p] /\ oldWait'[p] = oldWait[p],
         \A t \in Rooms : Occupies(p, t)' <=>
           HasTicket(p) /\ room[p] = t /\ oldWait[p] <= cur'[t]
  PROVE  \E d \in 1 .. Len(Queue[r]) : AdmitsFirst(r, d)
<1>. PICK d, l : d = s - cur[r] /\ l = wait[r] - cur[r]
  OBVIOUS
<1>1. TypeOK /\ QueueOK /\ QueueOK'
  BY QueueIs, QueueNext DEF IInv
<1>2. /\ \A q \in Procs : room[q] \in Rooms /\ oldWait[q] \in Nat
      /\ \A t \in Rooms : /\ cur[t] \in Nat /\ wait[t] \in Nat
                          /\ cur'[t] = IF t = r THEN s ELSE cur[t]
      /\ d \in Nat /\ l \in Nat /\ d \in 1 .. l /\ l - d = wait'[r] - cur'[r]
  BY <1>1 DEF TypeOK
<1>3. /\ \A q \in Procs : Boss(q) => q = p
      /\ \A q \in Procs : \A t \in Rooms : ~ Occupies(q, t)
  BY BossFacts
<1>4. /\ \A q \in Procs : pc[q] \notin {"in", "ticket", "leave"}
      /\ \A q \in Procs : HasTicket(q) => oldWait[q] > cur[room[q]]
  BY <1>3, NobodyInside
<1>5. \A q \in Procs \ {p} : /\ HasTicket(q)' <=> HasTicket(q)
                             /\ room'[q] = room[q] /\ oldWait'[q] = oldWait[q]
                             /\ pc'[q] = pc[q]
  BY OthersSame DEF Only
<1>6. \A q \in Procs : \A t \in Rooms :
        Occupies(q, t)' <=> HasTicket(q) /\ room[q] = t /\ oldWait[q] <= cur'[t]
  BY <1>4, <1>5 DEF Occupies
<1>7. \A m \in 1 .. l, q \in Procs : Queue[r][m] = q <=> Waits(q, r, m)
  BY <1>1 DEF QueueOK
<1>8. \A m \in 1 .. l : Queue[r][m] \in Procs
  BY <1>1 DEF QueueOK
<1>9. Inside'[r] = {Queue[r][m] : m \in 1 .. d}
  <2>1. ASSUME NEW q \in Procs, Occupies(q, r)'
        PROVE  \E m \in 1 .. d : Queue[r][m] = q
    <3>1. HasTicket(q) /\ room[q] = r /\ oldWait[q] <= s /\ oldWait[q] > cur[r]
      BY <1>2, <1>4, <1>6, <2>1
    <3>. PICK m \in Int : m = oldWait[q] - cur[r]
      BY <1>2
    <3>2. m \in 1 .. d /\ m \in 1 .. l /\ Waits(q, r, m)
      BY <1>2, <3>1 DEF Waits
    <3>. QED
      BY <1>7, <3>2
  <2>2. ASSUME NEW m \in 1 .. d, NEW q \in Procs, Queue[r][m] = q
        PROVE  Occupies(q, r)'
    <3>1. Waits(q, r, m)
      BY <1>2, <1>7, <2>2
    <3>2. HasTicket(q) /\ room[q] = r /\ oldWait[q] <= cur'[r]
      BY <1>2, <3>1 DEF Waits
    <3>. QED
      BY <1>6, <3>2
  <2>3. \A q : q \in Inside'[r] <=> q \in Procs /\ Occupies(q, r)'
    BY DEF Inside
  <2>4. \A m \in 1 .. d : Queue[r][m] \in Procs
    BY <1>2, <1>8
  <2>5. \A q : q \in Inside'[r] <=> \E m \in 1 .. d : Queue[r][m] = q
    BY <2>1, <2>2, <2>3, <2>4
  <2>. QED
    BY <2>5
<1>10. \A t \in Rooms : Inside[t] = {} /\ (t # r => Inside'[t] = {})
  BY <1>2, <1>3, <1>4, <1>6 DEF Inside
<1>11. Inside' = [Inside EXCEPT ![r] = {Queue[r][m] : m \in 1 .. d}]
  <2>. PICK x, y, z : x = Inside /\ y = Inside' /\ z = {Queue[r][m] : m \in 1 .. d}
    OBVIOUS
  <2>1. y = [t \in Rooms |-> y[t]] /\ x = [t \in Rooms |-> x[t]]
    BY DEF Inside
  <2>2. \A t \in Rooms : y[t] = IF t = r THEN z ELSE x[t]
    BY <1>9, <1>10
  <2>. QED
    BY <2>1, <2>2
<1>12. Closing = {}
  BY <1>3 DEF Closing, LastLeaver, Boss
<1>13. Closing' = {}
  <2>1. \E q \in Procs : Occupies(q, r)'
    <3>. PICK q \in Procs : q = Queue[r][1]
      BY <1>2, <1>8
    <3>1. Waits(q, r, 1)
      BY <1>2, <1>7
    <3>. QED
      BY <1>2, <1>6, <3>1 DEF Waits
  <2>2. \A q \in Procs : ~ Boss(q)'
    BY <2>1 DEF IInv, BossAlone
  <2>. QED
    BY <2>2 DEF Closing, LastLeaver, Boss
<1>14. Queue' = [Queue EXCEPT ![r] = SubSeq(@, d + 1, Len(@))]
  <2>1. ASSUME NEW t \in Rooms, NEW q \in Procs, NEW n \in 1 .. wait[t] - cur'[t],
               HasTicket(q), room[q] = t, oldWait[q] = cur'[t] + n
        PROVE  Waits(q, t, n)'
    <3>1. ~ (room[q] = r /\ oldWait[q] <= s)
      BY <1>2, <2>1
    <3>2. HasTicket(q)' /\ room'[q] = t /\ oldWait'[q] = cur'[t] + n
      BY <1>5, <2>1, <3>1
    <3>. QED
      BY <3>2 DEF Waits
  <2>2. ASSUME NEW t \in Rooms, t # r PROVE Queue'[t] = Queue[t]
    <3>1. 0 \in Nat /\ wait'[t] - cur'[t] = wait[t] - cur[t] - 0
      BY <1>2, <2>2
    <3>2. \A n \in 1 .. wait'[t] - cur'[t], q \in Procs : Waits(q, t, n + 0) => Waits(q, t, n)'
      BY <1>2, <2>1, <2>2 DEF Waits
    <3>3. Queue'[t] = [n \in 1 .. wait[t] - cur[t] - 0 |-> Queue[t][n + 0]]
      BY ONLY <1>1, <3>1, <3>2, SameQueue
    <3>4. Queue[t] = [n \in 1 .. wait[t] - cur[t] |-> Queue[t][n]]
      BY <1>1 DEF QueueOK
    <3>. QED
      BY <1>2, <3>3, <3>4
  <2>3. Queue'[r] = [n \in 1 .. l - d |-> Queue[r][n + d]]
    <3>1. wait'[r] - cur'[r] = wait[r] - cur[r] - d
      BY <1>2
    <3>2. \A n \in 1 .. wait'[r] - cur'[r], q \in Procs : Waits(q, r, n + d) => Waits(q, r, n)'
      <4>. TAKE n \in 1 .. wait'[r] - cur'[r], q \in Procs
      <4>1. Waits(q, r, n + d) => HasTicket(q) /\ room[q] = r /\ oldWait[q] = cur'[r] + n
        BY <1>2 DEF Waits
      <4>. QED
        BY <2>1, <4>1
    <3>3. Queue'[r] = [n \in 1 .. wait[r] - cur[r] - d |-> Queue[r][n + d]]
      BY ONLY <1>1, <1>2, <3>1, <3>2, SameQueue
    <3>. QED
      BY <3>3
  <2>4. SubSeq(Queue[r], d + 1, Len(Queue[r])) = [n \in 1 .. l - d |-> Queue[r][n + d]]
    <3>. PICK z : z = Queue[r]
      OBVIOUS
    <3>1. z = [n \in 1 .. l |-> z[n]] /\ \A n \in 1 .. l : z[n] \in Procs
      BY <1>1, <1>8 DEF QueueOK
    <3>2. [n \in 1 .. l |-> z[n]] \in Seq(Procs)
      BY ONLY <1>2, <3>1
    <3>3. z \in Seq(Procs) /\ Len(z) = l
      BY ONLY <1>2, <3>1, <3>2
    <3>4. SubSeq(z, d + 1, Len(z)) = [n \in 1 .. l - d |-> z[n + d]]
      BY ONLY <1>2, <3>3
    <3>. QED
      BY <3>4
  <2>. PICK x, y : x = Queue /\ y = Queue'
    OBVIOUS
  <2>5. y = [t \in Rooms |-> y[t]] /\ x = [t \in Rooms |-> x[t]]
    BY DEF Queue
  <2>. QED
    BY <2>2, <2>3, <2>4, <2>5
<1>15. Len(Queue[r]) = l
  <2>1. Queue[r] = [n \in 1 .. l |-> Queue[r][n]]
    BY <1>1 DEF QueueOK
  <2>. QED
    BY <1>2, <2>1
<1>16. AdmitsFirst(r, d)
  BY <1>10, <1>11, <1>12, <1>13, <1>14 DEF AdmitsFirst
<1>. QED
  BY <1>2, <1>15, <1>16

(* Both writes of cur admit the tickets up to the value that was read.     *)
LEMMA WritesAdmit ==
  ASSUME IInv, IInv', NEW p \in Procs, WriteCur(p) \/ WriteNewCur(p)
  PROVE  \E r \in Rooms : \E d \in 1 .. Len(Queue[r]) : AdmitsFirst(r, d)
<1>1. TypeOK /\ Local(p) /\ NewWh(p) \in Rooms
  BY Parts, RingInRooms DEF TypeOK, NewWh
<1>2. Boss(p) /\ ~ LastLeaver(p)
  BY DEF WriteCur, WriteNewCur, Goto, Boss, LastLeaver
<1>3. HasTicket(p) => oldWait[p] > cur[room[p]]
  BY <1>2, BossFacts, NobodyInside
<1>. PICK r \in Rooms, s \in Nat : r = BossRoom(p) /\ s = seen[p]
  BY <1>1 DEF TypeOK, BossRoom, WriteCur, WriteNewCur, Goto
<1>4. /\ Only(p) /\ wait' = wait /\ cur' = [cur EXCEPT ![r] = s]
      /\ room'[p] = room[p] /\ oldWait'[p] = oldWait[p]
  <2>1. CASE WriteCur(p)
    BY <1>1, <2>1 DEF Only, TypeOK, BossRoom, WriteCur, Goto
  <2>2. CASE WriteNewCur(p)
    BY <1>1, <2>2 DEF Only, TypeOK, BossRoom, WriteNewCur, Return
  <2>. QED
    BY <2>1, <2>2
<1>5. /\ \A t \in Rooms : cur[t] \in Nat /\ wait[t] \in Nat
      /\ cur'[r] = s /\ oldWait[p] \in Nat
  BY <1>1, <1>4 DEF TypeOK
<1>6. cur[r] < s /\ s <= wait[r]
  <2>1. CASE WriteCur(p)
    <3>1. r = room[p] /\ oldWait[p] <= s /\ s <= wait[r] /\ HasTicket(p)
      BY <1>1, <2>1 DEF Local, BossRoom, HasTicket, WriteCur, Goto
    <3>. QED
      BY <1>3, <1>5, <3>1
  <2>2. CASE WriteNewCur(p)
    BY <1>1, <2>2 DEF Local, BossRoom, WriteNewCur
  <2>. QED
    BY <2>1, <2>2
<1>7. /\ HasTicket(p) /\ ~ (room[p] = r /\ oldWait[p] <= s) =>
           HasTicket(p)' /\ room'[p] = room[p] /\ oldWait'[p] = oldWait[p]
      /\ \A t \in Rooms : Occupies(p, t)' <=>
           HasTicket(p) /\ room[p] = t /\ oldWait[p] <= cur'[t]
  <2>1. CASE WriteCur(p)
    <3>1. /\ pc[p] = "wrcur" /\ pc'[p] = "in" /\ ~ change'[p] /\ r = room[p]
          /\ oldWait[p] <= s
      BY <1>1, <2>1 DEF TypeOK, Local, BossRoom, WriteCur, Goto
    <3>2. HasTicket(p) /\ ~ HasTicket(p)'
      BY <3>1 DEF HasTicket
    <3>3. \A t \in Rooms : Occupies(p, t)' <=> t = r
      BY <1>4, <3>1, <3>2 DEF Occupies
    <3>. QED
      BY <1>5, <3>1, <3>2, <3>3
  <2>2. CASE WriteNewCur(p)
    <3>1. /\ pc[p] = "wrnew" /\ pc'[p] = IF change[p] THEN "spin" ELSE "out"
          /\ ~ change'[p]
      BY <1>1, <2>2 DEF TypeOK, WriteNewCur, Return
    <3>2. HasTicket(p)' <=> HasTicket(p)
      <4>1. CASE change[p]
        BY <3>1, <4>1 DEF HasTicket
      <4>2. CASE ~ change[p]
        BY <3>1, <4>2 DEF HasTicket
      <4>. QED
        BY <4>1, <4>2
    <3>. QED
      BY <1>4, <3>1, <3>2 DEF Occupies
  <2>. QED
    BY <2>1, <2>2
<1>. QED
  BY <1>2, <1>4, <1>6, <1>7, BatchAdmits

(* Leaving a room; the one who was the last owes it the exit code.         *)
LEMMA LeaverLeaves ==
  ASSUME IInv, IInv', NEW p \in Procs, LeaveRoom(p)
  PROVE  \E r \in Rooms :
           /\ p \in Inside[r]
           /\ Inside' = [Inside EXCEPT ![r] = @ \ {p}]
           /\ Closing' = IF Inside[r] = {p} THEN {p} ELSE Closing
           /\ Queue' = Queue
<1>1. TypeOK /\ Local(p) /\ RoomExclusion /\ QueueOK /\ QueueOK'
  BY Parts, QueueIs, QueueNext DEF IInv
<1>. PICK w \in Rooms : w = wh[p]
  BY <1>1 DEF TypeOK
<1>2. /\ \A r \in Rooms : cur[r] \in Nat /\ prev[r] \in Nat
      /\ room[p] \in Rooms /\ oldWait[p] \in Nat
  BY <1>1 DEF TypeOK
<1>3. /\ Only(p) /\ pc[p] = "leave" /\ pc'[p] = "compare"
      /\ prev'[w] = prev[w] + 1 /\ j'[p] = prev[w] + 1 /\ wh'[p] = w
      /\ UNCHANGED <<cur, wait>>
      /\ room'[p] = room[p] /\ oldWait'[p] = oldWait[p] /\ change'[p] = change[p]
  BY <1>1 DEF Only, TypeOK, LeaveRoom, Goto
<1>4. /\ HasTicket(p)' <=> HasTicket(p)
      /\ HasTicket(p) => oldWait[p] > cur[room[p]]
  <2>1. (HasTicket(p) <=> change[p]) /\ (HasTicket(p)' <=> change[p])
    BY <1>3 DEF HasTicket
  <2>. QED
    BY <1>1, <1>3, <2>1 DEF Local
<1>5. \A r \in Rooms : (Occupies(p, r) <=> r = w) /\ ~ Occupies(p, r)'
  BY <1>2, <1>3, <1>4 DEF Occupies
<1>6. \A q \in Procs \ {p} : \A r \in Rooms : Occupies(q, r)' <=> Occupies(q, r)
  BY <1>3, OthersSame
<1>7. Inside' = [Inside EXCEPT ![w] = @ \ {p}] /\ p \in Inside[w]
  <2>. PICK x, y : x = Inside /\ y = Inside'
    OBVIOUS
  <2>1. y = [t \in Rooms |-> y[t]] /\ x = [t \in Rooms |-> x[t]]
    BY DEF Inside
  <2>2. /\ \A t \in Rooms : x[t] = {q \in Procs : Occupies(q, t)}
        /\ \A t \in Rooms : y[t] = {q \in Procs : Occupies(q, t)'}
    BY DEF Inside
  <2>3. ASSUME NEW t \in Rooms PROVE y[t] = IF t = w THEN x[t] \ {p} ELSE x[t]
    <3>1. \A q : q \in x[t] <=> q \in Procs /\ Occupies(q, t)
      BY <2>2
    <3>2. \A q : q \in y[t] <=> q \in Procs /\ Occupies(q, t)'
      BY <2>2
    <3>3. \A q : q \in y[t] <=> q \in x[t] /\ q # p
      BY <1>5, <1>6, <3>1, <3>2
    <3>4. p \in x[t] <=> t = w
      BY <1>5, <3>1
    <3>. QED
      BY <3>3, <3>4
  <2>4. p \in x[w]
    BY <1>5, <2>2
  <2>5. y = [x EXCEPT ![w] = @ \ {p}]
    BY <2>1, <2>3
  <2>. QED
    BY <2>4, <2>5
<1>8. LastLeaver(p)' <=> Inside[w] = {p}
  <2>1. LastLeaver(p)' <=> prev'[w] = cur'[w]
    BY <1>3 DEF LastLeaver
  <2>2. Inside'[w] = Inside[w] \ {p} /\ Inside'[w] = Occ(w)'
    BY <1>7 DEF Inside, Occ
  <2>3. IsFiniteSet(Inside'[w]) /\ Cardinality(Inside'[w]) = cur'[w] - prev'[w]
    BY <2>2, RoomsAssumption, FS_Subset DEF IInv, OccupantsCounted, Occ
  <2>4. Inside'[w] = {} <=> cur'[w] = prev'[w]
    BY <1>2, <1>3, <2>3, FS_EmptySet
  <2>. QED
    BY <1>7, <2>1, <2>2, <2>4
<1>9. \A q \in Procs : ~ LastLeaver(q) /\ (q # p => ~ LastLeaver(q)')
  <2>1. \A q \in Procs : ~ Boss(q)
    BY <1>3, InsideFacts
  <2>2. \A q \in Procs : ~ LastLeaver(q)
    BY <2>1 DEF LastLeaver, Boss
  <2>3. \A q \in Procs \ {p} : LastLeaver(q)' <=> LastLeaver(q)
    BY <1>3 DEF Only, LastLeaver
  <2>. QED
    BY <2>2, <2>3
<1>10. Closing' = IF Inside[w] = {p} THEN {p} ELSE Closing
  BY <1>8, <1>9 DEF Closing
<1>11. Queue' = Queue
  <2>1. TicketKept(p)
    BY <1>3, <1>4 DEF TicketKept
  <2>. QED
    BY <1>3, <2>1, QueueStays
<1>. QED
  BY <1>7, <1>10, <1>11

(* The exit code has run.                                                  *)
LEMMA ExitCodeRuns ==
  ASSUME IInv, IInv', NEW p \in Procs, Finalize(p)
  PROVE  Closing = {p} /\ Closing' = {} /\ UNCHANGED <<Queue, Inside>>
<1>1. TypeOK
  BY DEF IInv
<1>2. /\ Only(p) /\ pc[p] = "final" /\ pc'[p] = "scan" /\ UNCHANGED <<cur, wait>>
      /\ room'[p] = room[p] /\ oldWait'[p] = oldWait[p] /\ change'[p] = change[p]
  BY <1>1 DEF Only, TypeOK, Finalize, Goto, shared
<1>3. (HasTicket(p)' <=> HasTicket(p)) /\ \A r \in Rooms : Occupies(p, r)' <=> Occupies(p, r)
  BY <1>2 DEF HasTicket, Occupies
<1>4. Queue' = Queue
  BY <1>2, <1>3, QueueStays DEF TicketKept
<1>5. Inside' = Inside
  BY <1>2, <1>3, OthersSame DEF Inside
<1>6. \A q \in Procs : Boss(q) => q = p
  BY <1>2, BossFacts DEF Boss
<1>7. \A q \in Procs : LastLeaver(q) <=> q = p
  BY <1>2, <1>6 DEF LastLeaver, Boss
<1>8. \A q \in Procs : ~ LastLeaver(q)'
  BY <1>2, <1>7 DEF Only, LastLeaver
<1>. QED
  BY <1>4, <1>5, <1>7, <1>8 DEF Closing

(* The step lemma, one step per action, each named by what it is at the    *)
(* level of RoomsAbs.                                                      *)
MapsTo ==
  \/ \E p \in Procs, r \in Rooms :
       /\ \A s \in Rooms : \A n \in 1 .. wait[s] - cur[s] : Queue[s][n] # p
       /\ Queue' = [Queue EXCEPT ![r] = Append(@, p)]
       /\ UNCHANGED <<Inside, Closing>>
  \/ \E r \in Rooms : \E d \in 1 .. Len(Queue[r]) : AdmitsFirst(r, d)
  \/ \E p \in Procs, r \in Rooms :
       /\ p \in Inside[r]
       /\ Inside' = [Inside EXCEPT ![r] = @ \ {p}]
       /\ Closing' = IF Inside[r] = {p} THEN {p} ELSE Closing
       /\ Queue' = Queue
  \/ \E p \in Procs : Closing = {p} /\ Closing' = {} /\ UNCHANGED <<Queue, Inside>>
  \/ UNCHANGED <<Queue, Inside, Closing>>

LEMMA StepMaps ==
  ASSUME IInv, IInv', [Next]_vars
  PROVE  MapsTo
<1>1. CASE UNCHANGED vars
  <2>1. UNCHANGED <<Queue, Inside, Closing>>
    BY <1>1 DEF vars, shared, locals, Queue, Inside, Closing, Holder, HasTicket,
                Occupies, LastLeaver
  <2>. QED
    BY <2>1 DEF MapsTo
<1>2. ASSUME NEW p \in Procs, Call(p) \/ ExitRoom(p) \/ Entering(p) \/ Leaving(p)
      PROVE  MapsTo
  <2>1. ASSUME NEW r \in Rooms, EnterRoom(p, r) \/ (TakeTicket(p) /\ room[p] = r)
        PROVE  MapsTo
    <3>1. /\ \A s \in Rooms : \A n \in 1 .. wait[s] - cur[s] : Queue[s][n] # p
          /\ Queue' = [Queue EXCEPT ![r] = Append(@, p)]
          /\ UNCHANGED <<Inside, Closing>>
      BY ONLY <2>1, <1>2, IInv, IInv', TicketArrives
    <3>. QED
      BY <3>1, Zenon DEF MapsTo
  <2>2. CASE TakeTicket(p)
    <3>1. room[p] \in Rooms
      BY DEF IInv, TypeOK
    <3>. QED
      BY <2>1, <2>2, <3>1
  <2>3. CASE WriteCur(p) \/ WriteNewCur(p)
    BY <2>3, WritesAdmit DEF MapsTo
  <2>4. CASE LeaveRoom(p)
    BY <2>4, LeaverLeaves DEF MapsTo
  <2>5. CASE Finalize(p)
    BY <2>5, ExitCodeRuns DEF MapsTo
  <2>6. CASE \/ TestTicket(p) \/ ClaimRooms(p) \/ ReadWait(p) \/ ExitRoom(p)
             \/ NotLast(p) \/ Last(p) \/ Scan(p) \/ OpenRoom(p) \/ ReadNewWait(p)
             \/ CloseRooms(p) \/ Spin(p) \/ \E r \in Rooms : ChangeRoom(p, r)
    <3>1. Unseen(p)
      BY <2>6, QuietIsUnseen
    <3>2. UNCHANGED <<Queue, Inside, Closing>>
      BY <3>1, UnseenStutters
    <3>. QED
      BY <3>2 DEF MapsTo
  <2>. QED
    BY <1>2, <2>1, <2>2, <2>3, <2>4, <2>5, <2>6 DEF Call, Entering, Leaving
<1>. QED
  BY <1>1, <1>2 DEF Next

(* The mapped step is a step of RoomsAbs, or a stutter.                    *)
LEMMA AbsStep ==
  ASSUME IInv, MapsTo
  PROVE  [Abs!AbsNext]_(Abs!absVars)
<1>1. QueueOK
  BY QueueIs
<1>2. CASE \E p \in Procs, r \in Rooms :
             /\ \A s \in Rooms : \A n \in 1 .. wait[s] - cur[s] : Queue[s][n] # p
             /\ Queue' = [Queue EXCEPT ![r] = Append(@, p)]
             /\ UNCHANGED <<Inside, Closing>>
  <2>. PICK p \in Procs, r \in Rooms :
             /\ \A s \in Rooms : \A n \in 1 .. wait[s] - cur[s] : Queue[s][n] # p
             /\ Queue' = [Queue EXCEPT ![r] = Append(@, p)]
             /\ UNCHANGED <<Inside, Closing>>
    BY <1>2, Zenon
  <2>1. \A s \in Rooms : Len(Queue[s]) = wait[s] - cur[s]
    <3>. TAKE s \in Rooms
    <3>1. PICK x, l : x = Queue[s] /\ l = wait[s] - cur[s]
      OBVIOUS
    <3>2. l \in Nat /\ x = [n \in 1 .. l |-> x[n]]
      BY <1>1, <3>1 DEF QueueOK
    <3>3. Len(x) = l
      BY <3>2
    <3>. QED
      BY <3>1, <3>3
  <2>2. ~ \E s \in Rooms : \E n \in 1 .. Len(Queue[s]) : Queue[s][n] = p
    BY <2>1
  <2>3. Abs!Arrive(p, r)
    BY <2>2 DEF Abs!Arrive, Abs!Queued, Abs!Rooms, Rooms, Queue, Inside, Closing
  <2>4. r \in Abs!Rooms
    BY DEF Abs!Rooms, Rooms
  <2>. QED
    BY <2>3, <2>4, Zenon DEF Abs!AbsNext
<1>3. CASE \E r \in Rooms : \E d \in 1 .. Len(Queue[r]) : AdmitsFirst(r, d)
  BY <1>3, Zenon DEF AdmitsFirst, Abs!AbsNext, Abs!Admit, Abs!Rooms, Rooms, Queue, Inside, Closing
<1>4. CASE \E p \in Procs, r \in Rooms :
             /\ p \in Inside[r]
             /\ Inside' = [Inside EXCEPT ![r] = @ \ {p}]
             /\ Closing' = IF Inside[r] = {p} THEN {p} ELSE Closing
             /\ Queue' = Queue
  BY <1>4, Zenon DEF Abs!AbsNext, Abs!Leave, Abs!Rooms, Rooms, Queue, Inside, Closing
<1>5. CASE \E p \in Procs : Closing = {p} /\ Closing' = {} /\ UNCHANGED <<Queue, Inside>>
  BY <1>5, Zenon DEF Abs!AbsNext, Abs!RunExitCode, Abs!Rooms, Rooms, Queue, Inside, Closing
<1>6. CASE UNCHANGED <<Queue, Inside, Closing>>
  BY <1>6 DEF Abs!absVars, Queue, Inside, Closing
<1>. QED
  BY <1>2, <1>3, <1>4, <1>5, <1>6 DEF MapsTo

LEMMA InitMaps == Init => Abs!AbsInit
<1>. SUFFICES ASSUME Init PROVE Abs!AbsInit
  OBVIOUS
<1>1. \A p \in Procs : pc[p] = "out" /\ ~ change[p]
  BY DEF Init
<1>2. \A p \in Procs : ~ LastLeaver(p) /\ \A r \in Rooms : ~ Occupies(p, r)
  BY <1>1 DEF LastLeaver, Occupies, HasTicket
<1>3. Queue = [r \in Rooms |-> <<>>]
  <2>1. \A r \in Rooms : wait[r] - cur[r] = 0
    BY DEF Init
  <2>2. \A r \in Rooms : Queue[r] = [n \in 1 .. 0 |-> Holder(r, cur[r] + n)]
    BY <2>1 DEF Queue
  <2>3. \A r \in Rooms : Queue[r] = <<>>
    BY <2>2
  <2>. PICK x : x = Queue
    OBVIOUS
  <2>4. x = [r \in Rooms |-> x[r]]
    BY DEF Queue
  <2>. QED
    BY <2>3, <2>4
<1>4. Inside = [r \in Rooms |-> {}]
  <2>1. \A r \in Rooms : Inside[r] = {}
    BY <1>2 DEF Inside
  <2>. PICK x : x = Inside
    OBVIOUS
  <2>2. x = [r \in Rooms |-> x[r]]
    BY DEF Inside
  <2>. QED
    BY <2>1, <2>2
<1>5. Closing = {}
  BY <1>2 DEF Closing
<1>. QED
  BY <1>3, <1>4, <1>5 DEF Abs!AbsInit, Abs!Rooms, Rooms, Queue, Inside, Closing

(* rooms.c implements RoomsAbs: tickets are admitted in the order of the   *)
(* FetchAndAdd on wait (rooms.c:63), a whole prefix of one queue at once,  *)
(* and only after the last batch has left and its exit code has run once   *)
(* (rooms.c:96-111), for any number of processors and rooms.               *)
THEOREM Refines == Spec => BatchesInTicketOrder
<1>1. Init => Abs!AbsInit
  BY InitMaps
<1>2. IInv /\ IInv' /\ [Next]_vars => [Abs!AbsNext]_(Abs!absVars)
  BY StepMaps, AbsStep
<1>. QED
  BY <1>1, <1>2, InductiveInvariant, PTL DEF Spec, BatchesInTicketOrder, Abs!AbsSpec
=============================================================================
