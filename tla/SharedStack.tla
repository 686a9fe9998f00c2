---------------------------- MODULE SharedStack -----------------------------
(***************************************************************************)
(* The shared work stack of the parallel collectors, Runtime/sparc/        *)
(* gc_para.c, on top of the rooms of RoomsAbs: poppers work in room 0,     *)
(* pushers in room 1 and conditional pushers in room 2.  A LocalWork_t is  *)
(* several sets (stacklets, globals, roots, gray regions, objs, ...); here *)
(* they are numbered in the order popSharedStack visits them.              *)
(*                                                                         *)
(* This module defines the steps of the operations; its client (SemiPara)  *)
(* says when they are called.  A step begins or ends at every access to    *)
(* memory that processors share.  A word is one position, and position 0   *)
(* is the pointer data of a set.                                           *)
(***************************************************************************)
EXTENDS RoomsAbs, FiniteSets

CONSTANTS Items,       \* what the sets hold: locations and objects
          NoItem,      \* a word that has never been written
          FetchSize,   \* FetchSize[k]: how many items of set k one pop asks for
          ObjKind,     \* the set objs, whose request depends on its length
          Capacity     \* limit - data of every shared set

Kinds == DOMAIN FetchSize
NumProc == Cardinality(Procs)

ASSUME SharedStackAssumption ==
         /\ Size = 3
         /\ NoItem \notin Items
         /\ IsFiniteSet(Procs) /\ Procs # {}
         /\ Len(FetchSize) \in Nat \ {0}
         /\ FetchSize \in Seq(Nat \ {0})
         /\ ObjKind \in Kinds \ {1}
         /\ Capacity \in Nat

VARIABLES
  slots,          \* slots[k]: the words of shared set k
  last,           \* last[k]: its cursor last - data, below 0 after an overreach
  numLocalStack,  \* number of processors that hold work taken from the stack
  local,          \* local[p][k]: the local set k of p
  hasShared,      \* whether p is counted in numLocalStack
  pc,             \* what each processor does next
  ret,            \* where it goes on after exitRoom
  kind,           \* the set its pop or push is at
  request,        \* how many items its pop asks for
  objRequest,     \* the request for objs, computed before it enters the room
  lo, hi,         \* the words lo .. hi - 1 its memcpy reads or writes
  fetched,        \* whether its pop has fetched anything
  verdict         \* result of exitRoom or of isEmptySharedStack: stack empty?

stackVars == <<slots, last, numLocalStack, local, hasShared>>
regVars == <<kind, request, objRequest, lo, hi, fetched>>
ssVars == <<stackVars, regVars, pc, ret, verdict>>

SharedStackInit ==
  /\ AbsInit
  /\ slots = [k \in Kinds |-> [n \in 0 .. Capacity - 1 |-> NoItem]]
  /\ last = [k \in Kinds |-> 0]
  /\ numLocalStack = 0
  /\ local = [p \in Procs |-> [k \in Kinds |-> <<>>]]
  /\ hasShared = [p \in Procs |-> FALSE]
  /\ ret = [p \in Procs |-> "popped"]
  /\ kind = [p \in Procs |-> 1]
  /\ request = [p \in Procs |-> 0]
  /\ objRequest = [p \in Procs |-> 0]
  /\ lo = [p \in Procs |-> 0]
  /\ hi = [p \in Procs |-> 0]
  /\ fetched = [p \in Procs |-> FALSE]
  /\ verdict = [p \in Procs |-> FALSE]

Goto(p, from, to) == /\ pc[p] = from
                     /\ pc' = [pc EXCEPT ![p] = to]

InRoom(p) == \E r \in Rooms : p \in inside[r]

(* internalIsEmptySharedStack.                                             *)
InternalIsEmpty == numLocalStack = 0 /\ \A k \in Kinds : last[k] = 0

Smaller(a, b) == IF a < b THEN a ELSE b

(* Division of C: rounds towards 0.                                        *)
TruncDiv(a, n) == IF a >= 0 THEN a \div n ELSE -((-a) \div n)

(* MakeFraction: a scaled by the part of request b that was not met by c.  *)
MakeFraction(a, b, c) ==
  IF b > 0 THEN TruncDiv(a * (b - c), b) ELSE TruncDiv(a * (c - b), -b)

----------------------------------------------------------------------------
(* resetSharedStack(ss, lw, 0).                                            *)

Reset(p) ==
  /\ hasShared' = [hasShared EXCEPT ![p] = TRUE]
  /\ numLocalStack' = numLocalStack + 1
  /\ UNCHANGED <<slots, last, local>>

----------------------------------------------------------------------------
(* popSharedStack.                                                         *)

(* The length of objs is read before the room is entered.                  *)
StartPop(p) ==
  /\ objRequest' = [objRequest EXCEPT ![p] =
       Smaller(FetchSize[ObjKind], 1 + TruncDiv(last[ObjKind], NumProc))]
  /\ ret' = [ret EXCEPT ![p] = "popped"]
  /\ UNCHANGED <<stackVars, absVars, kind, request, lo, hi, fetched>>

Base(p, n) == IF n = ObjKind THEN objRequest[p] ELSE FetchSize[n]

PopEnter(p) ==
  /\ Goto(p, "popEnter", "fetch")
  /\ Arrive(p, 0)
  /\ kind' = [kind EXCEPT ![p] = 1]
  /\ request' = [request EXCEPT ![p] = Base(p, 1)]
  /\ UNCHANGED <<stackVars, objRequest, lo, hi, fetched, ret, verdict>>

(* getFromSharedStack: FetchAndAdd(&from->last, -numToFetch), and what the *)
(* old cursor says about this request: met, overreached completely, or     *)
(* overreached in part.                                                    *)
Fetch(p) ==
  LET k == kind[p]
      new == last[k] - request[p] IN
  /\ InRoom(p)
  /\ Goto(p, "fetch", IF last[k] <= 0 \/ new < 0 THEN "overreach" ELSE "copy")
  /\ last' = [last EXCEPT ![k] = new]
  /\ hi' = [hi EXCEPT ![p] = IF last[k] <= 0 THEN 0 ELSE last[k]]
  /\ lo' = [lo EXCEPT ![p] = IF last[k] <= 0 \/ new < 0 THEN 0 ELSE new]
  /\ UNCHANGED <<absVars, slots, numLocalStack, local, hasShared, kind,
                 request, objRequest, fetched, ret, verdict>>

(* from->last = from->data.                                                *)
ResetLast(p) ==
  /\ Goto(p, "overreach", "copy")
  /\ last' = [last EXCEPT ![kind[p]] = 0]
  /\ UNCHANGED <<absVars, slots, numLocalStack, local, hasShared, regVars,
                 ret, verdict>>

(* The memcpy, and the request for the next set: the chain ends at the     *)
(* first request that comes out as 0.                                      *)
Copy(p) ==
  LET k == kind[p]
      got == hi[p] - lo[p]
      next == IF k + 1 \in Kinds
                THEN MakeFraction(Base(p, k + 1), request[p], got) ELSE 0 IN
  /\ Goto(p, "copy", IF next = 0 THEN "popEnd" ELSE "fetch")
  /\ local' = [local EXCEPT ![p][k] =
                 @ \o [n \in 1 .. got |-> slots[k][lo[p] + n - 1]]]
  /\ fetched' = [fetched EXCEPT ![p] = @ \/ got # 0]
  /\ kind' = [kind EXCEPT ![p] = IF next = 0 THEN 1 ELSE k + 1]
  /\ request' = [request EXCEPT ![p] = next]
  /\ lo' = [lo EXCEPT ![p] = 0]
  /\ hi' = [hi EXCEPT ![p] = 0]
  /\ UNCHANGED <<absVars, slots, last, numLocalStack, hasShared, objRequest,
                 ret, verdict>>

(* done: a processor that fetched anything counts itself.                  *)
PopEnd(p) ==
  /\ Goto(p, "popEnd", "leave")
  /\ hasShared' = [hasShared EXCEPT ![p] = @ \/ fetched[p]]
  /\ numLocalStack' = IF fetched[p] THEN numLocalStack + 1 ELSE numLocalStack
  /\ fetched' = [fetched EXCEPT ![p] = FALSE]
  /\ objRequest' = [objRequest EXCEPT ![p] = 0]
  /\ UNCHANGED <<absVars, slots, last, local, kind, request, lo, hi, ret,
                 verdict>>

----------------------------------------------------------------------------
(* pushSharedStack.                                                        *)

PushRoom(conditional) == IF conditional THEN 2 ELSE 1

StartPush(p, conditional, to) ==
  /\ Arrive(p, PushRoom(conditional))
  /\ ret' = [ret EXCEPT ![p] = to]
  /\ UNCHANGED <<stackVars, regVars>>

AfterKind(p, from) ==
  /\ Goto(p, from, IF kind[p] + 1 \in Kinds THEN "reserve" ELSE "pushEnd")
  /\ kind' = [kind EXCEPT ![p] = IF @ + 1 \in Kinds THEN @ + 1 ELSE 1]

(* moveToSharedStack of an empty set changes nothing.                      *)
SkipEmpty(p) ==
  /\ InRoom(p)
  /\ local[p][kind[p]] = <<>>
  /\ AfterKind(p, "reserve")
  /\ UNCHANGED <<absVars, stackVars, request, objRequest, lo, hi, fetched,
                 ret, verdict>>

(* The cursor read and written back instead of FetchAndAdd: the words it   *)
(* names are not reserved.                                                 *)
Reserve_NotAtomic(p) ==
  LET n == Len(local[p][kind[p]]) IN
  /\ InRoom(p)
  /\ n > 0
  /\ Goto(p, "reserve", "fill")
  /\ lo' = [lo EXCEPT ![p] = last[kind[p]]]
  /\ hi' = [hi EXCEPT ![p] = last[kind[p]] + n]
  /\ UNCHANGED <<absVars, stackVars, kind, request, objRequest, fetched, ret,
                 verdict>>

(* FetchAndAdd(&to->last, numToTransfer); Capacity is never reached here.  *)
Reserve(p) ==
  LET n == Len(local[p][kind[p]]) IN
  /\ InRoom(p)
  /\ n > 0
  /\ Goto(p, "reserve", "fill")
  /\ last' = [last EXCEPT ![kind[p]] = @ + n]
  /\ lo' = [lo EXCEPT ![p] = last[kind[p]]]
  /\ hi' = [hi EXCEPT ![p] = last[kind[p]] + n]
  /\ UNCHANGED <<absVars, slots, numLocalStack, local, hasShared, kind,
                 request, objRequest, fetched, ret, verdict>>

(* The memcpy into the reserved words; the local set becomes empty.        *)
Fill(p) ==
  LET k == kind[p] IN
  /\ AfterKind(p, "fill")
  /\ slots' = [slots EXCEPT ![k] =
       [n \in 0 .. Capacity - 1 |->
          IF n \in lo[p] .. hi[p] - 1 THEN local[p][k][n - lo[p] + 1]
                                      ELSE @[n]]]
  /\ local' = [local EXCEPT ![p][k] = <<>>]
  /\ lo' = [lo EXCEPT ![p] = 0]
  /\ hi' = [hi EXCEPT ![p] = 0]
  /\ UNCHANGED <<absVars, last, numLocalStack, hasShared, request, objRequest,
                 fetched, ret, verdict>>

(* Every push takes the processor off the count, as if it held work.       *)
PushEnd_Unguarded(p) ==
  /\ Goto(p, "pushEnd", "leave")
  /\ numLocalStack' = numLocalStack - 1
  /\ hasShared' = [hasShared EXCEPT ![p] = FALSE]
  /\ UNCHANGED <<absVars, slots, last, local, regVars, ret, verdict>>

(* An unconditional push takes the processor off the count.                *)
PushEnd(p) ==
  /\ Goto(p, "pushEnd", "leave")
  /\ numLocalStack' = IF hasShared[p] THEN numLocalStack - 1
                                      ELSE numLocalStack
  /\ hasShared' = [hasShared EXCEPT ![p] = FALSE]
  /\ UNCHANGED <<absVars, slots, last, local, regVars, ret, verdict>>

----------------------------------------------------------------------------
(* isEmptySharedStack.                                                     *)

StartIsEmpty(p) ==
  /\ Arrive(p, 1)
  /\ ret' = [ret EXCEPT ![p] = "checked"]
  /\ UNCHANGED <<stackVars, regVars>>

IsEmpty(p) ==
  /\ InRoom(p)
  /\ Goto(p, "isEmpty", "leave")
  /\ verdict' = [verdict EXCEPT ![p] = InternalIsEmpty]
  /\ UNCHANGED <<absVars, stackVars, regVars, ret>>

----------------------------------------------------------------------------
(* exitRoom, for all operations.                                           *)

(* Only the last leaver goes on to the exit code.                          *)
ExitRoom(p) ==
  \E r \in Rooms :
    /\ Leave(p, r)
    /\ Goto(p, "leave", IF inside[r] # {p} THEN ret[p]
                        ELSE IF r = 1 THEN "finalizer" ELSE "noFinalizer")
    /\ UNCHANGED <<stackVars, regVars, ret, verdict>>

(* Rooms 0 and 2 have no exit code.                                        *)
NoFinalizer(p) ==
  /\ Goto(p, "noFinalizer", ret[p])
  /\ RunExitCode(p)
  /\ UNCHANGED <<stackVars, regVars, ret, verdict>>

(* The stack judged by its contents alone, whoever still holds work.       *)
Finalizer_ContentsOnly(p) ==
  /\ Goto(p, "finalizer", ret[p])
  /\ RunExitCode(p)
  /\ verdict' = [verdict EXCEPT ![p] = IF ret[p] = "pushed"
                   THEN \A k \in Kinds : last[k] = 0 ELSE @]
  /\ UNCHANGED <<stackVars, regVars, ret>>

(* The exit code of the push room.  Only the pushes of the main loop use   *)
(* its result.                                                             *)
Finalizer(p) ==
  /\ Goto(p, "finalizer", ret[p])
  /\ RunExitCode(p)
  /\ verdict' = [verdict EXCEPT ![p] = IF ret[p] = "pushed"
                                         THEN InternalIsEmpty ELSE @]
  /\ UNCHANGED <<stackVars, regVars, ret>>

AdmitSome(r) == /\ \E n \in 1 .. Len(queue[r]) : Admit(r, n)
                /\ UNCHANGED ssVars

StackStep(p) == \/ PopEnter(p) \/ Fetch(p) \/ ResetLast(p) \/ Copy(p)
                \/ PopEnd(p) \/ SkipEmpty(p) \/ Reserve(p) \/ Fill(p)
                \/ PushEnd(p) \/ IsEmpty(p) \/ ExitRoom(p) \/ NoFinalizer(p)
                \/ Finalizer(p)
=============================================================================
