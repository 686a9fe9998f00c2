------------------------------ MODULE RoomsAbs ------------------------------
(***************************************************************************)
(* What the room synchronization of Runtime/sparc/rooms.c promises its     *)
(* callers.  A set of processes shares Size rooms.  At most one room is    *)
(* open at a time.  Processes queue for a room in the order of their       *)
(* tickets; when every occupant has left and the exit code of the open     *)
(* room has run, a whole prefix of some queue is admitted at once, and     *)
(* nobody else is admitted until that batch has drained.                   *)
(***************************************************************************)
EXTENDS Integers, Sequences

CONSTANTS Procs,    \* the system processors
          Size      \* number of rooms, the argument of createRooms

ASSUME RoomsAbsAssumption == Size \in Nat \ {0}

Rooms == 0 .. Size - 1

VARIABLES queue,    \* queue[r]: the processes waiting for room r, in ticket order
          inside,   \* inside[r]: the processes admitted to room r and not yet gone
          closing   \* the last leaver, while its run of the exit code is pending

absVars == <<queue, inside, closing>>

AbsInit == /\ queue = [r \in Rooms |-> <<>>]
           /\ inside = [r \in Rooms |-> {}]
           /\ closing = {}

Queued(p) == \E r \in Rooms : \E n \in 1 .. Len(queue[r]) : queue[r][n] = p

(* enterRoom or changeRoom takes a ticket for room r.                      *)
Arrive(p, r) == /\ ~ Queued(p)
                /\ queue' = [queue EXCEPT ![r] = Append(@, p)]
                /\ UNCHANGED <<inside, closing>>

(* The first n waiters of room r are admitted together.                    *)
Admit(r, n) == /\ \A s \in Rooms : inside[s] = {}
               /\ closing = {}
               /\ inside' = [inside EXCEPT ![r] = {queue[r][m] : m \in 1 .. n}]
               /\ queue' = [queue EXCEPT ![r] = SubSeq(@, n + 1, Len(@))]
               /\ UNCHANGED closing

(* p leaves; the last one to leave becomes responsible for the exit code.  *)
Leave(p, r) == /\ p \in inside[r]
               /\ inside' = [inside EXCEPT ![r] = @ \ {p}]
               /\ closing' = IF inside[r] = {p} THEN {p} ELSE closing
               /\ UNCHANGED queue

(* The last leaver runs the exit code of the room that has just drained.   *)
RunExitCode(p) == /\ closing = {p}
                  /\ closing' = {}
                  /\ UNCHANGED <<queue, inside>>

AbsNext == \/ \E p \in Procs, r \in Rooms : Arrive(p, r)
           \/ \E r \in Rooms : \E n \in 1 .. Len(queue[r]) : Admit(r, n)
           \/ \E p \in Procs, r \in Rooms : Leave(p, r)
           \/ \E p \in Procs : RunExitCode(p)

AbsSpec == AbsInit /\ [][AbsNext]_absVars
=============================================================================
