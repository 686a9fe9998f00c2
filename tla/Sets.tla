------------------------------- MODULE Sets -------------------------------
(***************************************************************************)
(* The resizable arrays of pointers that hold all of the collectors' work: *)
(* Set_t of queue.c and sparc.h.  A set is used as a stack, or, for the    *)
(* implicit order of the sequential collector, as a queue.                 *)
(*                                                                         *)
(* What a caller should find in the set is the sequence contents.  Items   *)
(* are numbered as they are pushed, so that one that is lost, repeated or  *)
(* misplaced shows.                                                        *)
(***************************************************************************)
EXTENDS Integers, Sequences

CONSTANTS InitialSize, \* what SetInit is asked for
          MaxItems,    \* bound: items in the set
          MaxStamp     \* bound: item numbers

(* SetInit allocates what it is asked for but gives the set a size of at   *)
(* least 16.  The sets of work are asked for with more; the two of global  *)
(* roots with the number of globals (stack.c:659), which may be less, but  *)
(* then they never hold more than that.                                    *)
ASSUME SetsAssumption ==
  InitialSize \in Nat /\ InitialSize >= 16 /\ MaxItems \in Nat /\ MaxStamp \in Nat

VARIABLES use,      \* "stack" or "queue"
          data,     \* the words allocated for the set, from 0
          first,    \* index of the first item
          last,     \* index after the last item
          size,     \* words between data and limit
          overrun,  \* a word outside data has been written
          contents  \* the items a caller should find

setVars == <<use, data, first, last, size, overrun, contents>>

(* A word that holds no item any more is 0 again.                          *)
Words(n) == [i \in 0 .. n - 1 |-> 0]

SetInit(n) ==
  /\ data = Words(n) /\ size = IF n > 16 THEN n ELSE 16
  /\ first = 0 /\ last = 0 /\ overrun = FALSE /\ contents = <<>>

(* The state of a set: its words and its indices.                          *)
Set == [data |-> data, first |-> first, last |-> last, size |-> size]

Becomes(s) ==
  /\ data' = s.data /\ first' = s.first /\ last' = s.last /\ size' = s.size

(* SetNormalizeExpand without the new first: the gap is never reclaimed.   *)
NormalizeExpand_KeepsGap(s, addSize) ==
  LET n == s.last - s.first
      effSize == n + addSize
      newSize == IF 4 + effSize >= s.size \/ 4 * effSize >= 3 * s.size
                   THEN 2 * effSize ELSE s.size
  IN [data |-> [i \in 0 .. newSize - 1 |->
                  IF i < n THEN s.data[s.first + i] ELSE 0],
      first |-> s.first, last |-> s.first + n, size |-> newSize]

(* The items move to the start of the words, or of twice as many as are    *)
(* needed when three quarters of them, or all but four, would be in use.   *)
NormalizeExpand(s, addSize) ==
  LET n == s.last - s.first
      effSize == n + addSize
      newSize == IF 4 + effSize >= s.size \/ 4 * effSize >= 3 * s.size
                   THEN 2 * effSize ELSE s.size
  IN [data |-> [i \in 0 .. newSize - 1 |->
                  IF i < n THEN s.data[s.first + i] ELSE 0],
      first |-> 0, last |-> n, size |-> newSize]

(* Items k .. k + n - 1 written at last.                                   *)
Written(s, k, n) ==
  [s EXCEPT !.data = [i \in DOMAIN s.data |->
                        IF i \in s.last .. s.last + n - 1 THEN k + i - s.last
                        ELSE s.data[i]],
            !.last = @ + n]

Stamp == IF contents = <<>> THEN 1 ELSE contents[Len(contents)] + 1
Stamps(n) == [i \in 1 .. n |-> Stamp + i - 1]

Insert(s, n) ==
  /\ Len(contents) + n <= MaxItems /\ Stamp + n <= MaxStamp
  /\ Becomes(Written(s, Stamp, n))
  /\ overrun' = (overrun \/ ~ (s.last .. s.last + n - 1 \subseteq DOMAIN s.data))
  /\ contents' = contents \o Stamps(n)
  /\ UNCHANGED use

(* SetPush, SetPush2 and SetPush3.                                         *)
Push(n) == Insert(IF last + n >= size THEN NormalizeExpand(Set, 0) ELSE Set, n)

(* SetPop takes any item; SetPop2 and SetPop3 only whole groups.           *)
Pop(n) ==
  /\ use = "stack" /\ last >= first + n
  /\ last' = last - n
  /\ data' = [i \in DOMAIN data |-> IF i < last - n THEN data[i] ELSE 0]
  /\ contents' = SubSeq(contents, 1, Len(contents) - n)
  /\ UNCHANGED <<use, first, size, overrun>>

SetDequeue ==
  /\ use = "queue" /\ first # last
  /\ first' = first + 1 /\ contents' = Tail(contents)
  /\ data' = [data EXCEPT ![first] = 0]
  /\ UNCHANGED <<use, last, size, overrun>>

(* SetCopy and SetTransfer into a set of which nothing is dequeued: its    *)
(* room is judged from first, not from last.                               *)
SetCopy(n) ==
  LET to == IF first = last THEN [Set EXCEPT !.first = 0, !.last = 0] ELSE Set
      room == IF last - first + n + 1 >= size THEN NormalizeExpand(to, n)
              ELSE IF to.first + n + 1 >= size THEN NormalizeExpand(to, 0)
              ELSE to
  IN use = "stack" /\ Insert(room, n)

SetReset ==
  /\ last # 0
  /\ first' = 0 /\ last' = 0 /\ contents' = <<>>
  /\ data' = [i \in DOMAIN data |-> 0]
  /\ UNCHANGED <<use, size, overrun>>

SetsInit == use \in {"stack", "queue"} /\ SetInit(InitialSize)

SetsNext ==
  \/ \E n \in 1 .. 3 : Push(n) \/ Pop(n)
  \/ SetDequeue
  \/ \E n \in 0 .. InitialSize : SetCopy(n)
  \/ SetReset

----------------------------------------------------------------------------
(* A set is the sequence of the items pushed and not yet taken, whatever   *)
(* has been moved or grown in between, and nothing is ever written outside *)
(* the words it allocated (queue.c:32-57, sparc.h:1776-1848).              *)
SetIsSequence ==
  /\ ~ overrun
  /\ contents = [i \in 1 .. last - first |-> data[first + i - 1]]
=============================================================================
