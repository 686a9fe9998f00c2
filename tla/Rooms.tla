------------------------------- MODULE Rooms --------------------------------
(***************************************************************************)
(* The room synchronization of Runtime/sparc/rooms.c, one action per       *)
(* access to shared memory.  A process takes a ticket for a room by        *)
(* FetchAndAdd on wait[i] and spins until cur[i] has reached its ticket;   *)
(* the last process to leave a room (prev[wh] has reached cur[wh]) runs    *)
(* the room's exit code and hands the rooms over to the next room in ring  *)
(* order that has waiters, or sets which to -1 so that a spinning entrant  *)
(* can claim them by CompareAndSwap.                                       *)
(*                                                                         *)
(* Locals that the code no longer reads are set back to 0, and the exit    *)
(* code is one step of its caller: lockRooms around it is uncontended,     *)
(* because assignExitCode and assignLogCode run only while the rooms are   *)
(* set up (gc_para.c:40-41).                                               *)
(***************************************************************************)
EXTENDS Integers, FiniteSets

CONSTANTS Procs,       \* the system processors
          Size,        \* number of rooms, the argument of createRooms
          MaxTicket    \* bound: no call takes a ticket for a room past this one

ASSUME RoomsAssumption == /\ IsFiniteSet(Procs)
                          /\ Size \in Nat \ {0}
                          /\ MaxTicket \in Nat

Rooms == 0 .. Size - 1

VARIABLES
  which,    \* the open room, or -1
  cur,      \* cur[r]: tickets up to this one have been admitted to r
  wait,     \* wait[r]: tickets handed out for r
  prev,     \* prev[r]: number of processes that have left r
  pc,       \* what each process does next
  room,     \* the argument i of its enterRoom or changeRoom
  oldWait,  \* its ticket for that room
  wh,       \* exitRoom and changeRoom: the room it leaves
  j,        \* its position in the order of leaving
  k,        \* how many rooms the last leaver has looked at
  seen,     \* register of the copy cur[r] = wait[r]
  change    \* whether it runs changeRoom

shared == <<which, cur, wait, prev>>
locals == <<pc, room, oldWait, wh, j, k, seen, change>>
vars == <<shared, locals>>

Init == /\ which = -1
        /\ cur = [r \in Rooms |-> 0]
        /\ wait = [r \in Rooms |-> 0]
        /\ prev = [r \in Rooms |-> 0]
        /\ pc = [p \in Procs |-> "out"]
        /\ room = [p \in Procs |-> 0]
        /\ oldWait = [p \in Procs |-> 0]
        /\ wh = [p \in Procs |-> 0]
        /\ j = [p \in Procs |-> 0]
        /\ k = [p \in Procs |-> 0]
        /\ seen = [p \in Procs |-> 0]
        /\ change = [p \in Procs |-> FALSE]

Goto(p, from, to) == /\ pc[p] = from
                     /\ pc' = [pc EXCEPT ![p] = to]

----------------------------------------------------------------------------
(* enterRoom.                                                              *)

(* The call takes a ticket.                                                *)
EnterRoom(p, r) ==
  /\ wait[r] < MaxTicket
  /\ Goto(p, "out", "test")
  /\ oldWait' = [oldWait EXCEPT ![p] = wait[r] + 1]
  /\ wait' = [wait EXCEPT ![r] = @ + 1]
  /\ room' = [room EXCEPT ![p] = r]
  /\ UNCHANGED <<which, cur, prev, wh, j, k, seen, change>>

(* The loop test: has this ticket been admitted?                           *)
TestTicket(p) ==
  /\ Goto(p, "test", IF oldWait[p] > cur[room[p]] THEN "cas" ELSE "in")
  /\ UNCHANGED <<shared, room, oldWait, wh, j, k, seen, change>>

(* Claiming the rooms whether or not they are open.                        *)
ClaimRooms_NoCompare(p) ==
  /\ Goto(p, "cas", "rdwait")
  /\ which' = room[p]
  /\ UNCHANGED <<cur, wait, prev, room, oldWait, wh, j, k, seen, change>>

(* Giving up the rooms to nobody: a failed CompareAndSwap never retried.   *)
ClaimRooms_NoRetry(p) ==
  /\ Goto(p, "cas", IF which = -1 THEN "rdwait" ELSE "cas")
  /\ which' = IF which = -1 THEN room[p] ELSE which
  /\ UNCHANGED <<cur, wait, prev, room, oldWait, wh, j, k, seen, change>>

(* CompareAndSwap(&r->which, -1, i).                                       *)
ClaimRooms(p) ==
  /\ Goto(p, "cas", IF which = -1 THEN "rdwait" ELSE "test")
  /\ which' = IF which = -1 THEN room[p] ELSE which
  /\ UNCHANGED <<cur, wait, prev, room, oldWait, wh, j, k, seen, change>>

(* Admitting a ticket nobody has taken yet.                                *)
ReadWait_Ahead(p) ==
  /\ Goto(p, "rdwait", "wrcur")
  /\ seen' = [seen EXCEPT ![p] = wait[room[p]] + 1]
  /\ UNCHANGED <<shared, room, oldWait, wh, j, k, change>>

(* cur[i] = wait[i]: the read, then the write that admits the batch.       *)
ReadWait(p) ==
  /\ Goto(p, "rdwait", "wrcur")
  /\ seen' = [seen EXCEPT ![p] = wait[room[p]]]
  /\ UNCHANGED <<shared, room, oldWait, wh, j, k, change>>

WriteCur(p) ==
  /\ Goto(p, "wrcur", "in")
  /\ cur' = [cur EXCEPT ![room[p]] = seen[p]]
  /\ seen' = [seen EXCEPT ![p] = 0]
  /\ UNCHANGED <<which, wait, prev, room, oldWait, wh, j, k, change>>

----------------------------------------------------------------------------
(* exitRoom and changeRoom.                                                *)

(* Both read which first.                                                  *)
ExitRoom(p) ==
  /\ Goto(p, "in", "leave")
  /\ wh' = [wh EXCEPT ![p] = which]
  /\ UNCHANGED <<shared, room, oldWait, j, k, seen, change>>

ChangeRoom(p, r) ==
  /\ wait[r] < MaxTicket
  /\ Goto(p, "in", "ticket")
  /\ wh' = [wh EXCEPT ![p] = which]
  /\ room' = [room EXCEPT ![p] = r]
  /\ change' = [change EXCEPT ![p] = TRUE]
  /\ UNCHANGED <<shared, oldWait, j, k, seen>>

(* changeRoom takes its ticket for the new room before it leaves.          *)
TakeTicket(p) ==
  /\ Goto(p, "ticket", "leave")
  /\ oldWait' = [oldWait EXCEPT ![p] = wait[room[p]] + 1]
  /\ wait' = [wait EXCEPT ![room[p]] = @ + 1]
  /\ UNCHANGED <<which, cur, prev, room, wh, j, k, seen, change>>

(* FetchAndAdd(&r->prev[wh], 1).                                           *)
LeaveRoom(p) ==
  /\ Goto(p, "leave", "compare")
  /\ prev' = [prev EXCEPT ![wh[p]] = @ + 1]
  /\ j' = [j EXCEPT ![p] = prev[wh[p]] + 1]
  /\ UNCHANGED <<which, cur, wait, room, oldWait, wh, k, seen, change>>

(* The end of a call: changeRoom goes on to wait for its new room.         *)
Return(p) == /\ pc' = [pc EXCEPT ![p] = IF change[p] THEN "spin" ELSE "out"]
             /\ wh' = [wh EXCEPT ![p] = 0]
             /\ j' = [j EXCEPT ![p] = 0]
             /\ k' = [k EXCEPT ![p] = 0]
             /\ change' = [change EXCEPT ![p] = FALSE]

(* Only the last leaver, whose position is cur[wh], goes on.               *)
NotLast(p) ==
  /\ pc[p] = "compare"
  /\ j[p] # cur[wh[p]]
  /\ Return(p)
  /\ UNCHANGED <<shared, room, oldWait, seen>>

(* The last leaver taken to be the one before the last.                    *)
Last_Early(p) ==
  /\ j[p] + 1 = cur[wh[p]]
  /\ Goto(p, "compare", "final")
  /\ j' = [j EXCEPT ![p] = 0]
  /\ UNCHANGED <<shared, room, oldWait, wh, k, seen, change>>

Last(p) ==
  /\ j[p] = cur[wh[p]]
  /\ Goto(p, "compare", "final")
  /\ j' = [j EXCEPT ![p] = 0]
  /\ UNCHANGED <<shared, room, oldWait, wh, k, seen, change>>

(* The exit code of room wh runs here, if it has any.                      *)
Finalize(p) ==
  /\ Goto(p, "final", "scan")
  /\ k' = [k EXCEPT ![p] = 1]
  /\ UNCHANGED <<shared, room, oldWait, wh, j, seen, change>>

Ring(w, m) == IF w + m < Size THEN w + m ELSE w + m - Size

NewWh(p) == Ring(wh[p], k[p])

(* The scan stops one room early and never looks at wh itself.             *)
Scan_ShortRing(p) ==
  /\ pc[p] = "scan"
  /\ IF cur[NewWh(p)] < wait[NewWh(p)]
       THEN /\ Goto(p, "scan", "open")
            /\ UNCHANGED k
       ELSE IF k[p] + 1 < Size
              THEN /\ k' = [k EXCEPT ![p] = @ + 1]
                   /\ UNCHANGED pc
              ELSE /\ Goto(p, "scan", "none")
                   /\ UNCHANGED k
  /\ UNCHANGED <<shared, room, oldWait, wh, j, seen, change>>

(* The scan goes round the ring for ever.                                  *)
Scan_NoBound(p) ==
  /\ pc[p] = "scan"
  /\ IF cur[NewWh(p)] < wait[NewWh(p)]
       THEN /\ Goto(p, "scan", "open")
            /\ UNCHANGED k
       ELSE /\ k' = [k EXCEPT ![p] = @ + 1]
            /\ UNCHANGED pc
  /\ UNCHANGED <<shared, room, oldWait, wh, j, seen, change>>

(* One iteration of the loop over the rooms, in ring order from wh + 1.    *)
Scan(p) ==
  /\ pc[p] = "scan"
  /\ IF cur[NewWh(p)] < wait[NewWh(p)]
       THEN /\ Goto(p, "scan", "open")
            /\ UNCHANGED k
       ELSE IF k[p] < Size
              THEN /\ k' = [k EXCEPT ![p] = @ + 1]
                   /\ UNCHANGED pc
              ELSE /\ Goto(p, "scan", "none")
                   /\ UNCHANGED k
  /\ UNCHANGED <<shared, room, oldWait, wh, j, seen, change>>

(* Hand over to newWh: which first, then cur[newWh] = wait[newWh].         *)
OpenRoom(p) ==
  /\ Goto(p, "open", "rdnew")
  /\ which' = NewWh(p)
  /\ UNCHANGED <<cur, wait, prev, room, oldWait, wh, j, k, seen, change>>

ReadNewWait(p) ==
  /\ Goto(p, "rdnew", "wrnew")
  /\ seen' = [seen EXCEPT ![p] = wait[NewWh(p)]]
  /\ UNCHANGED <<shared, room, oldWait, wh, j, k, change>>

WriteNewCur(p) ==
  /\ pc[p] = "wrnew"
  /\ cur' = [cur EXCEPT ![NewWh(p)] = seen[p]]
  /\ seen' = [seen EXCEPT ![p] = 0]
  /\ Return(p)
  /\ UNCHANGED <<which, wait, prev, room, oldWait>>

(* Nobody waits: exitRoom closes the rooms.  changeRoom has no such case:  *)
(* there the code calls DIE.                                               *)
CloseRooms(p) ==
  /\ pc[p] = "none"
  /\ ~ change[p]
  /\ which' = -1
  /\ Return(p)
  /\ UNCHANGED <<cur, wait, prev, room, oldWait, seen>>

(* The loop that ends changeRoom.                                          *)
Spin(p) ==
  /\ Goto(p, "spin", "in")
  /\ oldWait[p] <= cur[room[p]]
  /\ UNCHANGED <<shared, room, oldWait, wh, j, k, seen, change>>

----------------------------------------------------------------------------
Entering(p) == TestTicket(p) \/ ClaimRooms(p) \/ ReadWait(p) \/ WriteCur(p)

Leaving(p) == \/ TakeTicket(p) \/ LeaveRoom(p) \/ NotLast(p) \/ Last(p)
              \/ Finalize(p) \/ Scan(p) \/ OpenRoom(p) \/ ReadNewWait(p)
              \/ WriteNewCur(p) \/ CloseRooms(p) \/ Spin(p)

Call(p) == \E r \in Rooms : EnterRoom(p, r) \/ ChangeRoom(p, r)

Next == \E p \in Procs : Call(p) \/ ExitRoom(p) \/ Entering(p) \/ Leaving(p)

(* Every processor keeps running, and a process inside a room leaves it:   *)
(* rooms are held for a bounded amount of work (gc_para.c:237-255).        *)
Fairness == \A p \in Procs : WF_vars(ExitRoom(p) \/ Entering(p) \/ Leaving(p))

Spec == Init /\ [][Next]_vars /\ Fairness

----------------------------------------------------------------------------
(* The types of the state; k stays within 0 .. Size, so the last leaver    *)
(* never looks past the ring of rooms.                                     *)
TypeOK == /\ which \in Rooms \cup {-1}
          /\ cur \in [Rooms -> Nat]
          /\ wait \in [Rooms -> Nat]
          /\ prev \in [Rooms -> Nat]
          /\ pc \in [Procs -> {"out", "test", "cas", "rdwait", "wrcur", "in",
                               "ticket", "leave", "compare", "final", "scan",
                               "open", "rdnew", "wrnew", "none", "spin"}]
          /\ room \in [Procs -> Rooms]
          /\ oldWait \in [Procs -> Nat]
          /\ wh \in [Procs -> Rooms]
          /\ j \in [Procs -> Nat]
          /\ k \in [Procs -> 0 .. Size]
          /\ seen \in [Procs -> Nat]
          /\ change \in [Procs -> BOOLEAN]

(* p holds a ticket for room[p] that it has not yet seen admitted.         *)
HasTicket(p) == \/ pc[p] \in {"test", "cas", "rdwait", "wrcur", "spin"}
                \/ change[p] /\ pc[p] # "ticket"

(* The room p occupies: from the write of cur that admits its ticket to    *)
(* its FetchAndAdd on prev.                                                *)
Occupies(p, r) == \/ pc[p] = "in" /\ room[p] = r
                  \/ pc[p] \in {"ticket", "leave"} /\ wh[p] = r
                  \/ HasTicket(p) /\ room[p] = r /\ oldWait[p] <= cur[r]

(* All occupants are in one room, and it is the open one.  This is what    *)
(* assert(r->which == i) in enterRoom (rooms.c:87) and every user of the   *)
(* rooms rely on: a pop never overlaps a push.                             *)
RoomExclusion == \A p \in Procs, r \in Rooms : Occupies(p, r) => which = r

(* The exit code of a room runs when no process is inside any room, so it  *)
(* sees the state the last batch left (rooms.c:96-104).                    *)
ExitCodeAlone == \A p, q \in Procs, r \in Rooms :
                   pc[p] = "final" => ~ Occupies(q, r)

(* DIE("changeRoom") (rooms.c:149) is unreachable: the caller's own ticket *)
(* keeps the scan from finding no waiter.                                  *)
ChangeRoomNeverDies == \A p \in Procs : ~ (pc[p] = "none" /\ change[p])

(* A process that has taken a ticket gets into its room, whatever the      *)
(* other processes do and however they interleave with the hand-over.      *)
EveryTicketAdmitted ==
  \A p \in Procs : HasTicket(p) ~> pc[p] = "in"

(* The steps of rooms.c implement the batches of RoomsAbs: tickets are     *)
(* admitted in order, a whole prefix at once, only when the previous batch *)
(* has left and its exit code has run, and each batch runs it once.        *)
Holder(r, t) ==
  CHOOSE p \in Procs : HasTicket(p) /\ room[p] = r /\ oldWait[p] = t

LastLeaver(p) == \/ pc[p] = "compare" /\ j[p] = cur[wh[p]]
                 \/ pc[p] = "final"

Abs == INSTANCE RoomsAbs WITH
         queue   <- [r \in Rooms |->
                     [n \in 1 .. wait[r] - cur[r] |-> Holder(r, cur[r] + n)]],
         inside  <- [r \in Rooms |-> {p \in Procs : Occupies(p, r)}],
         closing <- {p \in Procs : LastLeaver(p)}

BatchesInTicketOrder == Abs!AbsSpec

----------------------------------------------------------------------------
(* The strengthening that makes the invariants above inductive.            *)

Occ(r) == {p \in Procs : Occupies(p, r)}

(* The one process that may change which and cur.                          *)
Boss(p) == \/ pc[p] \in {"rdwait", "wrcur", "final", "scan", "open", "rdnew",
                         "wrnew", "none"}
           \/ pc[p] = "compare" /\ j[p] = cur[wh[p]]

(* The room a boss has which set to.                                       *)
BossRoom(p) == CASE pc[p] \in {"rdwait", "wrcur"} -> room[p]
                 [] pc[p] \in {"rdnew", "wrnew"} -> NewWh(p)
                 [] OTHER -> wh[p]

ChangeOK == \A p \in Procs :
              /\ change[p] => pc[p] \in
                   {"ticket", "leave", "compare", "final", "scan", "open",
                    "rdnew", "wrnew", "none"}
              /\ pc[p] = "ticket" => change[p]

TicketsIssued == /\ \A r \in Rooms : cur[r] <= wait[r]
                 /\ \A p \in Procs : HasTicket(p) => oldWait[p] <= wait[room[p]]

TicketsDistinct ==
  \A p, q \in Procs : HasTicket(p) /\ HasTicket(q) /\ room[p] = room[q]
                      /\ oldWait[p] = oldWait[q] => p = q

TicketsHeld ==
  \A r \in Rooms : \A t \in cur[r] + 1 .. wait[r] :
    \E p \in Procs : HasTicket(p) /\ room[p] = r /\ oldWait[p] = t

OccupantsCounted == \A r \in Rooms : Cardinality(Occ(r)) = cur[r] - prev[r]

BossAlone == \A p \in Procs : Boss(p) =>
               /\ which = BossRoom(p)
               /\ \A q \in Procs : Boss(q) => q = p
               /\ \A q \in Procs, r \in Rooms : ~ Occupies(q, r)

TicketAhead == \A p \in Procs : pc[p] = "leave" /\ change[p] =>
                                  oldWait[p] > cur[room[p]]

PositionPast == \A p \in Procs : pc[p] = "compare" => j[p] <= prev[wh[p]]

CopyPending ==
  \A p \in Procs :
    /\ pc[p] = "wrcur" => oldWait[p] <= seen[p] /\ seen[p] <= wait[room[p]]
    /\ pc[p] \in {"open", "rdnew"} => cur[NewWh(p)] < wait[NewWh(p)]
    /\ pc[p] = "wrnew" => /\ cur[NewWh(p)] < seen[p]
                          /\ seen[p] <= wait[NewWh(p)]

ScanPassed ==
  \A p \in Procs : pc[p] = "scan" =>
    /\ k[p] \in 1 .. Size
    /\ change[p] => \A m \in 1 .. k[p] - 1 : Ring(wh[p], m) # room[p]

(* The counters of rooms.c tell the truth: cur - prev processes are in the *)
(* open room and none in the others, cur .. wait are the tickets waiting,  *)
(* and whoever changes which and cur is the only one to do so.             *)
IInv == /\ TypeOK /\ ChangeOK
        /\ TicketsIssued /\ TicketsDistinct /\ TicketsHeld
        /\ OccupantsCounted /\ RoomExclusion /\ BossAlone
        /\ TicketAhead /\ PositionPast /\ CopyPending /\ ScanPassed
        /\ ChangeRoomNeverDies
=============================================================================
