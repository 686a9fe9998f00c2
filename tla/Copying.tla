------------------------------ MODULE Copying ------------------------------
(***************************************************************************)
(* Copying one object graph from fromSpace to toSpace while several        *)
(* processors copy, scan and write it, at the grain of single memory       *)
(* accesses: genericAlloc and acquireOwnership in Runtime/sparc/forward.c, *)
(* genericScan in gcinline.h, and the replication of new objects and       *)
(* writes by GCRelease_SemiConc in gc_semi_conc.c.                         *)
(*                                                                         *)
(* A primary's tag is its own tag (Orig), STALL_TAG while a processor      *)
(* copies it (Stall), or the forwarding pointer to its replica.  Fields    *)
(* hold primaries, replicas, or a value that is not a heap pointer (Nil).  *)
(* The sets of gray objects, local and shared, are one set `work': what    *)
(* SharedStack and SemiPara say of them is not repeated.  Three variants   *)
(* of the code are chosen at the start: "copy" copies all fields at once   *)
(* with the mutators stopped; "primarySet" and "replicaSet" only allocate  *)
(* the replica, leave a back pointer in its first field, and gray the      *)
(* primary or the replica, while mutators run.                             *)
(***************************************************************************)
EXTENDS Integers, FiniteSets, Sequences

CONSTANTS Procs,        \* processors, each running one mutator
          Objs,         \* primaries at the start of the collection
          News,         \* primaries that mutators may allocate
          Graph,        \* Graph[o]: the fields of a primary at the start
          Arrays,       \* primaries that are mutable pointer arrays
          Segmented,    \* arrays longer than arraySegmentSize
          Base,         \* Base[p]: the array in the registers of p's mutator
          Held,         \* Held[p]: what the other register has at the start
          MayWrite,     \* MayWrite[p]: the fields of Base[p] that p writes
          MaxSteps,     \* MaxSteps[p]: bound on the steps of p's mutator
          Orig, Stall, Proceed, Nil, Cleared

Prims == Objs \cup News

(* A replica is named after the processor and the count of its copies.     *)
Replicas == Procs \X (Nat \ {0})

ASSUME CopyingAssumption ==
         /\ IsFiniteSet(Procs) /\ IsFiniteSet(Prims) /\ Objs \cap News = {}
         /\ Graph \in [Objs -> Seq(Objs \cup {Nil})]
         /\ Segmented \subseteq Arrays /\ Arrays \subseteq Objs
         /\ \A o \in Segmented : Graph[o] # <<>>
         /\ Base \in [Procs -> Arrays] /\ Held \in [Procs -> Objs \cup {Nil}]
         /\ MaxSteps \in [Procs -> Nat]
         /\ \A p, q \in Procs :
              /\ MayWrite[p] \subseteq DOMAIN Graph[Base[p]]
              /\ p # q /\ Base[p] = Base[q] => MayWrite[p] \cap MayWrite[q] = {}
         /\ Stall \notin {Orig, Proceed}
         /\ {Orig, Stall, Proceed, Nil, Cleared} \cap (Prims \cup Replicas) = {}
         /\ Prims \cap Replicas = {}

VARIABLES
  mode,     \* "copy", "primarySet" or "replicaSet"
  tag,      \* tag[o]: the word before the first field of a primary
  field,    \* field[o]: the fields of a primary
  rep,      \* rep[r]: a replica, from the moment it is allocated
  work,     \* gray roots, objects and segments, handled by nobody yet
  data,     \* data[p]: the other pointer register of p's mutator
  steps,    \* steps p's mutator may still take
  log,      \* log[p]: new objects and writes since p's last release
  pc,       \* the next step of p
  job,      \* job[p]: what p is handling
  white     \* white[p]: the pointer p is about to forward

heapVars == <<tag, field, rep>>
vars == <<mode, heapVars, work, data, steps, log, pc, job, white>>

Root(o) == [kind |-> "root", obj |-> o]
Gray(x) == [kind |-> "gray", obj |-> x]
Segment(o, i) == [kind |-> "segment", obj |-> o, index |-> i]
New(o) == [kind |-> "new", obj |-> o]
Write(o, i, old) == [kind |-> "write", obj |-> o, index |-> i, old |-> old]
(* Scanning fields index .. last of rep, whose primary is obj.             *)
Scan(o, r, i, n) ==
  [kind |-> "scan", obj |-> o, rep |-> r, index |-> i, last |-> n]

Init ==
  /\ mode \in {"copy", "primarySet", "replicaSet"}
  /\ tag = [o \in Prims |-> Orig]
  /\ field = [o \in Prims |-> IF o \in Objs THEN Graph[o] ELSE <<>>]
  /\ rep = [r \in {} |-> Nil]
  /\ work = {Root(o) : o \in (UNION {{Base[p], Held[p]} : p \in Procs}) \ {Nil}}
  /\ data = Held
  /\ steps = [p \in Procs |-> IF mode = "copy" THEN 0 ELSE MaxSteps[p]]
  /\ log = [p \in Procs |-> <<>>]
  /\ pc = [p \in Procs |-> "mutator"]
  /\ job = [p \in Procs |-> Root(Nil)]
  /\ white = [p \in Procs |-> Nil]

At(p, here) == pc[p] \in here
To(p, there) == pc' = [pc EXCEPT ![p] = there]

(* p has finished with an entry of its log, or with a piece of work.       *)
Finish(p) ==
  /\ To(p, IF log[p] = <<>> THEN "mutator" ELSE "release")
  /\ job' = [job EXCEPT ![p] = Root(Nil)]
  /\ white' = [white EXCEPT ![p] = Nil]

(* p goes on to forward the pointer v, or to the step `there` if v is none.*)
Give(p, v, there) ==
  /\ To(p, IF v \in Prims THEN "alloc" ELSE there)
  /\ white' = [white EXCEPT ![p] = v]

----------------------------------------------------------------------------
(* The mutator of p, which sees primaries only.                            *)
MutatorStep(p) ==
  /\ At(p, {"mutator"}) /\ steps[p] > 0
  /\ steps' = [steps EXCEPT ![p] = @ - 1]
  /\ UNCHANGED <<mode, tag, rep, work, pc, job, white>>

Load(p, i) ==
  /\ MutatorStep(p)
  /\ data' = [data EXCEPT ![p] = field[Base[p]][i]]
  /\ UNCHANGED <<field, log>>

(* The write list gets the array, the place and the pointer that was there.*)
Store(p, i, v) ==
  /\ MutatorStep(p)
  /\ field' = [field EXCEPT ![Base[p]][i] = v]
  /\ log' = [log EXCEPT ![p] =
                Append(@, Write(Base[p], i, field[Base[p]][i]))]
  /\ UNCHANGED data

(* A new record that holds the pointer in data.                            *)
Allocate(p, o) ==
  /\ MutatorStep(p)
  /\ field[o] = <<>>
  /\ field' = [field EXCEPT ![o] = <<data[p]>>]
  /\ data' = [data EXCEPT ![p] = o]
  /\ log' = [log EXCEPT ![p] = <<New(o)>> \o @]

Mutate(p) == \/ \E i \in DOMAIN Graph[Base[p]] : Load(p, i)
             \/ \E i \in MayWrite[p] : \E v \in {data[p], Nil} : Store(p, i, v)
             \/ \E o \in News : Allocate(p, o)

----------------------------------------------------------------------------
(* GCRelease_SemiConc takes the new objects first, then the writes.        *)
TakeEntry(p) ==
  LET e == Head(log[p]) IN
  /\ At(p, {"mutator", "release"}) /\ log[p] # <<>>
  /\ log' = [log EXCEPT ![p] = Tail(@)]
  /\ job' = [job EXCEPT ![p] = e]
  /\ IF e.kind = "new" THEN Give(p, e.obj, "")
                       ELSE To(p, "writeTag") /\ UNCHANGED white
  /\ UNCHANGED <<mode, heapVars, work, data, steps>>

(* A write to an object that is not copied only grays the pointer that was *)
(* overwritten, so that the snapshot stays whole; an object that is being  *)
(* copied is waited for.                                                   *)
WriteTag(p) ==
  LET old == job[p].old IN
  /\ At(p, {"writeTag"}) /\ tag[job[p].obj] # Stall
  /\ IF tag[job[p].obj] # Orig THEN To(p, "replicaTag") /\ UNCHANGED <<job, white>>
     ELSE IF old = Nil THEN Finish(p)
     ELSE job' = [job EXCEPT ![p] = New(old)] /\ Give(p, old, "")
  /\ UNCHANGED <<mode, heapVars, work, data, steps, log>>

(* tag = replica[-1], which is STALL_TAG while a short array is scanned.   *)
ReplicaTag(p) ==
  /\ At(p, {"replicaTag"})
  /\ To(p, IF rep[tag[job[p].obj]].tag = Stall THEN "noArray" ELSE "array")
  /\ UNCHANGED <<mode, heapVars, work, data, steps, log, job, white>>

(* A back pointer shows that no field has been scanned yet: the scan will  *)
(* see the new value.  Otherwise the length and the type of the array are  *)
(* taken from the tag; STALL_TAG has the type of no array.                 *)
BackPointer(p) ==
  LET o == job[p].obj IN
  /\ At(p, {"array", "noArray"})
  /\ IF rep[tag[o]].fields[1] = o THEN Finish(p)
     ELSE To(p, IF pc[p] = "noArray" THEN "die" ELSE "sync") /\ UNCHANGED <<job, white>>
  /\ UNCHANGED <<mode, heapVars, work, data, steps, log>>

(* The new value goes to the replica without a wait for the scan.          *)
ReadField_NoWait(p) ==
  /\ At(p, {"sync"})
  /\ Give(p, field[job[p].obj][job[p].index], "store")
  /\ UNCHANGED <<mode, heapVars, work, data, steps, log, job>>

(* The writer waits while the segment is scanned and reads the field again.*)
ReadField(p) ==
  LET j == job[p] IN
  /\ At(p, {"sync"})
  /\ j.obj \in Segmented => rep[tag[j.obj]].seg[j.index] # Stall
  /\ Give(p, field[j.obj][j.index], "store")
  /\ UNCHANGED <<mode, heapVars, work, data, steps, log, job>>

Release(p) == \/ TakeEntry(p) \/ WriteTag(p) \/ ReplicaTag(p)
              \/ BackPointer(p) \/ ReadField(p)

----------------------------------------------------------------------------
(* genericAlloc and acquireOwnership: the primary white[p] gets a replica  *)
(* once, and every caller gets that replica.                               *)

Forwarded(p) ==
  IF job[p].kind \in {"scan", "write"}
    THEN To(p, "store") /\ UNCHANGED <<job, white>>
    ELSE Finish(p)

(* The tag is read; if somebody else is the copier, p spins until he has   *)
(* written the forwarding pointer.                                         *)
ReadTag(p) ==
  LET t == tag[white[p]] IN
  /\ At(p, {"alloc"}) /\ t # Stall
  /\ IF t = Orig THEN To(p, "own") /\ UNCHANGED <<job, white>> ELSE Forwarded(p)
  /\ UNCHANGED <<mode, heapVars, work, data, steps, log>>

(* STALL_TAG is stored without comparing.                                  *)
Own_NoCompare(p) ==
  /\ At(p, {"own"})
  /\ To(p, "copier")
  /\ tag' = [tag EXCEPT ![white[p]] = Stall]
  /\ UNCHANGED <<mode, field, rep, work, data, steps, log, job, white>>

(* cas: STALL_TAG is swapped in if the tag is still the one that was read; *)
(* otherwise somebody else is the copier.                                  *)
Own(p) ==
  LET mine == tag[white[p]] = Orig IN
  /\ At(p, {"own"})
  /\ To(p, IF mine THEN "copier" ELSE "alloc")
  /\ tag' = [tag EXCEPT ![white[p]] = IF mine THEN Stall ELSE @]
  /\ UNCHANGED <<mode, field, rep, work, data, steps, log, job, white>>

(* What a replica holds before its scan: everything, or a back pointer.    *)
NewFields(o) ==
  IF mode = "copy" THEN field[o]
  ELSE [i \in DOMAIN field[o] |-> IF i = 1 THEN o ELSE Cleared]

(* The copier fills the replica, whose address nobody else has, stores the *)
(* forwarding pointer last, and grays the object.                          *)
Copy(p) ==
  LET o == white[p]
      r == <<p, Cardinality({x \in DOMAIN rep : x[1] = p}) + 1>>
      new == [src |-> o, tag |-> Orig,
              seg |-> [i \in DOMAIN field[o] |-> Proceed],
              fields |-> NewFields(o)] IN
  /\ At(p, {"copier"})
  /\ rep' = [x \in DOMAIN rep \cup {r} |-> IF x = r THEN new ELSE rep[x]]
  /\ tag' = [tag EXCEPT ![o] = r]
  /\ work' = work \cup {Gray(IF mode = "primarySet" THEN o ELSE r)}
  /\ Forwarded(p)
  /\ UNCHANGED <<mode, field, data, steps, log>>

NextField(p) ==
  job' = [job EXCEPT ![p].index = @ + 1] /\ white' = [white EXCEPT ![p] = Nil]

(* The location that held the pointer gets the replica.                    *)
StoreReplica(p) ==
  LET j == job[p]
      r == IF j.kind = "scan" THEN j.rep ELSE tag[j.obj]
      v == white[p] IN
  /\ At(p, {"store"})
  /\ rep' = [rep EXCEPT ![r].fields[j.index] = IF v \in Prims THEN tag[v] ELSE v]
  /\ IF j.kind = "scan" THEN To(p, "field") /\ NextField(p) ELSE Finish(p)
  /\ UNCHANGED <<mode, tag, field, work, data, steps, log>>

Forward(p) == ReadTag(p) \/ Own(p) \/ Copy(p) \/ StoreReplica(p)

----------------------------------------------------------------------------
(* A processor that has released works on some of the gray things.         *)
Idle(p) == At(p, {"mutator"}) /\ log[p] = <<>>

UpdateRoot(p, w) ==
  /\ Idle(p) /\ w.kind = "root"
  /\ work' = work \ {w}
  /\ job' = [job EXCEPT ![p] = w]
  /\ Give(p, w.obj, "")
  /\ UNCHANGED <<mode, heapVars, data, steps, log>>

(* genericScan starts: the replica of a gray primary is its forwarding     *)
(* pointer, the primary of a gray replica is its back pointer.             *)
GrayReplica(x) == IF x \in Prims THEN tag[x] ELSE x
GrayPrimary(x) == IF x \in Prims THEN x
                  ELSE IF mode = "copy" THEN Nil ELSE rep[x].fields[1]

Sync(r) == mode # "copy" /\ rep[r].src \in Arrays

IsLong(r) == mode # "copy" /\ rep[r].src \in Segmented

(* A long array is broken up into segments, and its back pointer cleared.  *)
BreakUp(p, w) ==
  LET o == GrayPrimary(w.obj)
      r == GrayReplica(w.obj) IN
  /\ Idle(p) /\ w.kind = "gray" /\ IsLong(r)
  /\ work' = (work \ {w}) \cup {Segment(o, i) : i \in DOMAIN rep[r].fields}
  /\ rep' = [rep EXCEPT ![r].fields[1] = Cleared]
  /\ UNCHANGED <<mode, tag, field, data, steps, log, pc, job, white>>

(* Arrays that mutators may write meanwhile are reserved by STALL_TAG.     *)
ScanObject(p, w) ==
  LET r == GrayReplica(w.obj) IN
  /\ Idle(p) /\ w.kind = "gray" /\ ~ IsLong(r)
  /\ work' = work \ {w}
  /\ job' = [job EXCEPT ![p] =
               Scan(GrayPrimary(w.obj), r, 1, Len(rep[r].fields))]
  /\ rep' = [rep EXCEPT ![r].tag = IF Sync(r) THEN Stall ELSE @]
  /\ To(p, "field")
  /\ UNCHANGED <<mode, tag, field, data, steps, log, white>>

(* A segment (here one field) is reserved by SEGSTALL_TAG.                 *)
ScanSegment(p, w) ==
  LET r == tag[w.obj] IN
  /\ Idle(p) /\ w.kind = "segment"
  /\ work' = work \ {w}
  /\ job' = [job EXCEPT ![p] = Scan(w.obj, r, w.index, w.index)]
  /\ rep' = [rep EXCEPT ![r].seg[w.index] = Stall]
  /\ To(p, "field")
  /\ UNCHANGED <<mode, tag, field, data, steps, log, white>>

TransferField(p) ==
  LET j == job[p] IN
  /\ At(p, {"field"}) /\ j.index <= j.last
  /\ rep' = IF mode = "copy" THEN rep
            ELSE [rep EXCEPT ![j.rep].fields[j.index] = field[j.obj][j.index]]
  /\ To(p, "forward")
  /\ UNCHANGED <<mode, tag, field, work, data, steps, log, job, white>>

(* genericField, after the test for an array that points to itself.        *)
ForwardField(p) ==
  LET j == job[p]
      v == rep[j.rep].fields[j.index]
      self == Sync(j.rep) /\ field[j.obj][j.index] = j.obj IN
  /\ At(p, {"forward"})
  /\ rep' = [rep EXCEPT ![j.rep].fields[j.index] = IF self THEN j.rep ELSE @]
  /\ IF ~ self /\ v \in Prims THEN Give(p, v, "") /\ UNCHANGED job
                             ELSE To(p, "field") /\ NextField(p)
  /\ UNCHANGED <<mode, tag, field, work, data, steps, log>>

(* The tag is written back, but not the tag of a segment.                  *)
ScanEnds_SegmentStalls(p) ==
  LET j == job[p] IN
  /\ At(p, {"field"}) /\ j.index > j.last
  /\ rep' = [rep EXCEPT ![j.rep].tag = Orig]
  /\ Finish(p)
  /\ UNCHANGED <<mode, tag, field, work, data, steps, log>>

(* The tag of the array or of the segment is written back.                 *)
ScanEnds(p) ==
  LET j == job[p] IN
  /\ At(p, {"field"}) /\ j.index > j.last
  /\ rep' = IF IsLong(j.rep) THEN [rep EXCEPT ![j.rep].seg[j.last] = Proceed]
                            ELSE [rep EXCEPT ![j.rep].tag = Orig]
  /\ Finish(p)
  /\ UNCHANGED <<mode, tag, field, work, data, steps, log>>

Work(p) == \/ \E w \in work : \/ UpdateRoot(p, w) \/ BreakUp(p, w)
                               \/ ScanObject(p, w) \/ ScanSegment(p, w)
           \/ TransferField(p) \/ ForwardField(p) \/ ScanEnds(p)

Collect(p) == Release(p) \/ Forward(p) \/ Work(p)

Next == \E p \in Procs : Mutate(p) \/ Collect(p)

(* Every processor goes on with its part of the collection; its mutator    *)
(* need not do anything.                                                   *)
Spec == Init /\ [][Next]_vars /\ \A p \in Procs : WF_vars(Collect(p))

----------------------------------------------------------------------------
Replica == [src : Prims, tag : {Orig, Stall}, seg : Seq({Proceed, Stall}),
            fields : Seq(Prims \cup Replicas \cup {Nil, Cleared})]

(* The types of the state.  A primary that is being copied is held by      *)
(* exactly one processor, between its cas and its forwarding pointer.      *)
TypeOK ==
  /\ mode \in {"copy", "primarySet", "replicaSet"}
  /\ tag \in [Prims -> {Orig, Stall} \cup DOMAIN rep]
  /\ field \in [Prims -> Seq(Prims \cup {Nil})]
  /\ DOMAIN rep \subseteq Replicas /\ \A r \in DOMAIN rep : rep[r] \in Replica
  /\ \A w \in work : w.obj \in Prims \cup DOMAIN rep
  /\ data \in [Procs -> Prims \cup {Nil}] /\ \A p \in Procs : steps[p] \in 0 .. MaxSteps[p]
  /\ \A o \in Prims : tag[o] = Stall =>
       Cardinality({p \in Procs : pc[p] = "copier" /\ white[p] = o}) = 1
  /\ white \in [Procs -> Prims \cup Replicas \cup {Nil, Cleared}]

(* "the object being copied is locked first to prevent multiple copies     *)
(* from being made because of multiple copiers" (sparc.h:1057-1059): no    *)
(* primary ever gets two replicas, whoever races for it - scans, roots,    *)
(* new objects, overwritten pointers and written values.                   *)
OneReplica ==
  \A r \in DOMAIN rep : tag[rep[r].src] = r

Quiet == work = {} /\ \A p \in Procs : log[p] = <<>> /\ pc[p] = "mutator"

Image(v) == IF v \in Prims THEN tag[v] ELSE v

(* Whenever nothing is left to release or to scan - the moments at which   *)
(* the collector may flip - every replica holds, field by field, the image *)
(* of its primary as it is now: no write was lost to a concurrent scan,    *)
(* none was overwritten by an older value, and no pointer into fromSpace   *)
(* is left.                                                                *)
ReplicasUpToDate ==
  Quiet =>
    /\ \A p \in Procs : tag[Base[p]] \in DOMAIN rep
    /\ \A r \in DOMAIN rep :
         LET o == rep[r].src IN
         /\ rep[r].tag = Orig
         /\ rep[r].fields = [i \in DOMAIN field[o] |-> Image(field[o][i])]
         /\ \A i \in DOMAIN field[o] :
              field[o][i] \in Prims => rep[r].fields[i] \in DOMAIN rep

(* "Snapshot-at-the-beginning (Yuasa) write barrier requires copying       *)
(* prevPtrVal even if it might die to prevent the mutator from hiding live *)
(* data" (gc_semi_conc.c:489-491): at those moments whatever a register    *)
(* points to has a replica, as flipRootLoc asserts (148).                  *)
RegistersCopied ==
  Quiet => \A p \in Procs : data[p] \in Prims => tag[data[p]] \in DOMAIN rep

(* Nobody spins for ever on STALL_TAG or SEGSTALL_TAG, and the gray things *)
(* run out: the snapshot and what was allocated since are finite.          *)
CopyingEnds == <>[] Quiet

(* "the object is reserved by writing STALL_TAG; to synchronize a copier   *)
(* and a writer" (sparc.h:1024-1026): a release never takes the length and *)
(* the type of an array from STALL_TAG.                                    *)
WriterNeverDies == \A p \in Procs : pc[p] # "die"
=============================================================================
