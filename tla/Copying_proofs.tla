--------------------------- MODULE Copying_proofs ---------------------------
(***************************************************************************)
(* Proofs about Copying: a primary gets one replica, whoever races for it, *)
(* and, whenever nothing is left to release or to scan, every replica is   *)
(* up to date.  The second holds as long as no array holds itself in its   *)
(* first field, where a raw self pointer looks like a back pointer.        *)
(***************************************************************************)
EXTENDS Copying, FiniteSetTheorems, SequenceTheorems, TLAPS

AllWords == Prims \cup Replicas \cup {Nil, Cleared}
Labels == {"mutator", "release", "writeTag", "replicaTag", "array", "noArray",
           "die", "sync", "alloc", "own", "copier", "store", "field", "forward"}
Forwarding == {"alloc", "own", "copier"}
Entries == [kind : {"new"}, obj : Prims] \cup
           [kind : {"write"}, obj : Arrays, index : Nat, old : Prims \cup {Nil}]

(* The primaries that exist: no pointer goes to any other.                 *)
Known == Objs \cup {o \in News : field[o] # <<>>}
Safe(x) == x \in Prims => x \in Known

HeapTypes ==
  /\ mode \in {"copy", "primarySet", "replicaSet"}
  /\ field \in [Prims -> Seq(Prims \cup {Nil})]
  /\ \A o \in Objs : Len(field[o]) = Len(Graph[o])
  /\ \A o \in Prims : \A i \in DOMAIN field[o] : Safe(field[o][i])
  /\ tag \in [Prims -> {Orig, Stall} \cup DOMAIN rep]
  /\ data \in [Procs -> Prims \cup {Nil}] /\ \A p \in Procs : Safe(data[p])
  /\ white \in [Procs -> AllWords] /\ \A p \in Procs : Safe(white[p])
  /\ pc \in [Procs -> Labels]
  /\ DOMAIN job = Procs /\ job = [p \in Procs |-> job[p]]
  /\ steps \in [Procs -> Int]

RepTypes ==
  /\ rep \in [DOMAIN rep -> Replica]
  /\ \A r \in DOMAIN rep :
       /\ rep[r].src \in Known
       /\ Len(rep[r].fields) = Len(field[rep[r].src])
       /\ Len(rep[r].seg) = Len(field[rep[r].src])
       /\ \A i \in DOMAIN rep[r].fields : Safe(rep[r].fields[i])

(* The names of replicas: a new one is not taken.  A forwarding pointer    *)
(* leads to a copy of its own primary.                                     *)
Copies(p) == {x \in DOMAIN rep : x[1] = p}
NamesOK == /\ IsFiniteSet(DOMAIN rep) /\ DOMAIN rep \subseteq Replicas
           /\ \A r \in DOMAIN rep : r[2] <= Cardinality(Copies(r[1]))
           /\ \A o \in Prims : tag[o] \in DOMAIN rep => rep[tag[o]].src = o

(* What may be gray.                                                       *)
WorkOK(w) ==
  \/ w = Root(w.obj) /\ w.obj \in Objs
  \/ /\ w = Gray(w.obj)
     /\ IF mode = "primarySet" THEN w.obj \in Known /\ tag[w.obj] \in DOMAIN rep
                               ELSE w.obj \in DOMAIN rep
  \/ /\ w = Segment(w.obj, w.index) /\ mode # "copy"
     /\ w.obj \in Segmented /\ tag[w.obj] \in DOMAIN rep
     /\ w.index \in DOMAIN field[w.obj]

(* Mutators run with the concurrent collectors only.                       *)
Stopped == mode = "copy" => \A p \in Procs : steps[p] = 0 /\ log[p] = <<>>

(* A write of p goes to the array in its registers, and nobody else writes *)
(* that field.                                                             *)
IsWrite(p, e) == /\ e = Write(Base[p], e.index, e.old)
                 /\ e.index \in MayWrite[p]
                 /\ e.old \in Prims \cup {Nil} /\ Safe(e.old)

LogOK == /\ log \in [Procs -> Seq(Entries)]
         /\ \A p \in Procs : \A k \in DOMAIN log[p] :
              IF log[p][k].kind = "new" THEN log[p][k].obj \in Known
                                        ELSE IsWrite(p, log[p][k])

Scans(p) == job[p].kind = "scan"
Writes(p) == job[p].kind = "write"

JobOK(p) ==
  /\ job[p].kind \in {"root", "new", "write", "scan"}
  /\ pc[p] \in {"mutator", "release"} => job[p] = Root(Nil)
  /\ pc[p] \in {"writeTag", "replicaTag", "array", "noArray", "sync", "die"} => Writes(p)
  /\ pc[p] = "store" => Scans(p) \/ Writes(p)
  /\ pc[p] \in {"field", "forward"} => Scans(p)
  /\ pc[p] \in Forwarding => white[p] \in Known
  /\ Writes(p) => IsWrite(p, job[p]) /\ mode # "copy"

ScanOK(p) ==
  LET j == job[p] IN
  Scans(p) =>
    /\ j = Scan(j.obj, j.rep, j.index, j.last)
    /\ j.rep \in DOMAIN rep /\ j.index \in Nat \ {0}
    /\ j.last \in 0 .. Len(rep[j.rep].fields)
    /\ j.index <= j.last \/ (pc[p] = "field" /\ j.index = j.last + 1)
    /\ j.index <= j.last => mode = "copy" \/ j.obj = rep[j.rep].src
    /\ IF IsLong(j.rep) THEN j.last > 0 /\ j.index >= j.last
                        ELSE j.last = Len(rep[j.rep].fields)
    /\ pc[p] \in Forwarding \cup {"store"} => white[p] \in Known
    /\ pc[p] \in Forwarding \cup {"store", "field", "forward"}

(* The lock on a primary: the copier alone holds it.                       *)
CopierOK ==
  /\ \A p \in Procs : pc[p] = "copier" => tag[white[p]] = Stall
  /\ \A p, q \in Procs :
       pc[p] = "copier" /\ pc[q] = "copier" /\ white[p] = white[q] => p = q
  /\ \A o \in Prims : tag[o] = Stall =>
       \E p \in Procs : pc[p] = "copier" /\ white[p] = o

(* The array in the registers of a mutator is copied, or will be.          *)
BaseOK ==
  \A p \in Procs :
    \/ tag[Base[p]] \in DOMAIN rep \/ Root(Base[p]) \in work
    \/ \E q \in Procs : pc[q] \in Forwarding /\ white[q] = Base[p]

Unscanned(r) == Gray(r) \in work \/ Gray(rep[r].src) \in work

(* A replica is scanned once, and so is each segment of a long one.        *)
ScanOnce ==
  /\ \A r \in DOMAIN rep : Unscanned(r) =>
       /\ \A p \in Procs : Scans(p) => job[p].rep # r
       /\ \A i \in Nat : Segment(rep[r].src, i) \notin work
  /\ \A p, q \in Procs :
       Scans(p) /\ Scans(q) /\ job[p].rep = job[q].rep /\ job[p].last = job[q].last => p = q
  /\ \A p \in Procs : Scans(p) =>
       Segment(rep[job[p].rep].src, job[p].last) \notin work

(* STALL_TAG and SEGSTALL_TAG are there while somebody scans, and only     *)
(* then.                                                                   *)
StallOK ==
  /\ \A p \in Procs : Scans(p) =>
       IF IsLong(job[p].rep) THEN rep[job[p].rep].seg[job[p].last] = Stall
                             ELSE Sync(job[p].rep) => rep[job[p].rep].tag = Stall
  /\ \A r \in DOMAIN rep : rep[r].tag = Stall =>
       \E p \in Procs : Scans(p) /\ job[p].rep = r /\ ~ IsLong(r)

(* A back pointer shows that nothing has been scanned.                     *)
BackOK ==
  \A r \in DOMAIN rep :
    rep[r].src \in Arrays /\ mode # "copy" /\ rep[r].fields # <<>>
      /\ rep[r].fields[1] = rep[r].src =>
        \/ Unscanned(r)
        \/ \E p \in Procs : /\ Scans(p) /\ job[p].rep = r /\ job[p].index = 1
                            /\ pc[p] = "field" /\ ~ IsLong(r)

(* A gray replica has its back pointer.                                    *)
BackThere ==
  \A r \in DOMAIN rep :
    mode # "copy" /\ Unscanned(r) /\ rep[r].fields # <<>> =>
      rep[r].fields[1] = rep[r].src

(* A release that has found the array copied, one that has found it        *)
(* scanned or being scanned, and one that has read the field.              *)
WriteOK(p) ==
  Writes(p) =>
    /\ pc[p] \in {"writeTag", "replicaTag", "array", "noArray", "die", "sync", "store"}
                   \cup Forwarding
    /\ pc[p] # "writeTag" => tag[job[p].obj] \in DOMAIN rep
    /\ pc[p] \in {"sync", "store"} \cup Forwarding => ~ Unscanned(tag[job[p].obj])
    /\ pc[p] \in {"store"} \cup Forwarding => white[p] = field[job[p].obj][job[p].index]

StoreOK ==
  \A p \in Procs : pc[p] = "store" /\ white[p] \in Prims => tag[white[p]] \in DOMAIN rep

(* Field i of replica r is the image of the primary's field.               *)
Current(r, i) ==
  /\ rep[r].fields[i] = Image(field[rep[r].src][i])
  /\ field[rep[r].src][i] \in Prims => Image(field[rep[r].src][i]) \in DOMAIN rep

(* A write of q to field i of o that q's release has still to handle.      *)
InLog(q, o, i) == \E k \in DOMAIN log[q] : /\ log[q][k].kind = "write"
                                           /\ log[q][k].obj = o /\ log[q][k].index = i
Writing(q, o, i) == InLog(q, o, i) \/ (Writes(q) /\ job[q].obj = o /\ job[q].index = i)

(* One that may still have to wait for a scan.                             *)
Early(q, o, i) ==
  \/ InLog(q, o, i)
  \/ /\ Writes(q) /\ job[q].obj = o /\ job[q].index = i
     /\ \/ pc[q] \in {"writeTag", "replicaTag", "noArray", "die"}
        \/ pc[q] \in {"array", "sync"} /\ o \in Segmented

Delayed(o, i) == \E q \in Procs : Early(q, o, i)

(* What a scan has read from the primary is still there, or a release will *)
(* come after the scan.                                                    *)
FreshOK(p) ==
  LET r == job[p].rep
      i == job[p].index
      o == rep[r].src IN
  /\ Scans(p) /\ pc[p] = "forward" =>
       rep[r].fields[i] = field[o][i] \/ Current(r, i) \/ Delayed(o, i)
  /\ Scans(p) /\ pc[p] \in {"store"} \cup Forwarding =>
       white[p] = field[o][i] \/ Delayed(o, i)

(* A scan that has read a pointer and not yet stored its image.            *)
Carries(p) == Scans(p) /\ pc[p] \in {"forward", "store"} \cup Forwarding

Scanning(p, r, i) == Scans(p) /\ job[p].rep = r /\ job[p].index <= i /\ i <= job[p].last

(* A field of a replica is up to date, or somebody will see to it.         *)
FieldOK(r, i) ==
  \/ Current(r, i) \/ Unscanned(r) \/ Segment(rep[r].src, i) \in work
  \/ \E p \in Procs : Scanning(p, r, i)
  \/ \E p \in Procs : Writing(p, rep[r].src, i)
FieldsOK == \A r \in DOMAIN rep : \A i \in DOMAIN field[rep[r].src] : FieldOK(r, i)

(* With the mutators stopped a replica holds the fields from the start.    *)
CopiedOK ==
  mode = "copy" => \A r \in DOMAIN rep : \A i \in DOMAIN field[rep[r].src] :
                     rep[r].fields[i] = field[rep[r].src][i] \/ Current(r, i)

(* The invariant of OneReplica.                                            *)
LockInv ==
  /\ HeapTypes /\ RepTypes /\ NamesOK /\ (\A w \in work : WorkOK(w)) /\ Stopped /\ LogOK
  /\ \A p \in Procs : JobOK(p) /\ ScanOK(p) /\ WriteOK(p)
  /\ OneReplica /\ CopierOK /\ BaseOK /\ ScanOnce /\ StallOK /\ BackThere /\ StoreOK

(* The invariant of ReplicasUpToDate.                                      *)
ImageInv == BackOK /\ CopiedOK /\ FieldsOK /\ \A p \in Procs : FreshOK(p)
CopyInv == LockInv /\ ImageInv

(* No array holds itself in its first field.                               *)
NoSelf == \A o \in Arrays : field[o] # <<>> => field[o][1] # o

----------------------------------------------------------------------------
(* What the assumption says of the constants.                              *)
LEMMA Constants ==
  /\ Orig # Stall /\ Proceed # Stall
  /\ \A x \in {Orig, Stall, Proceed, Nil, Cleared} : x \notin Prims /\ x \notin Replicas
  /\ \A x \in Prims : x \notin Replicas
  /\ Objs \subseteq Prims /\ News \subseteq Prims /\ Objs \cap News = {}
  /\ Arrays \subseteq Objs /\ Segmented \subseteq Arrays
  /\ Graph \in [Objs -> Seq(Objs \cup {Nil})]
  /\ \A o \in Segmented : Graph[o] # <<>>
  /\ Base \in [Procs -> Arrays] /\ Held \in [Procs -> Objs \cup {Nil}]
  /\ \A p \in Procs : MayWrite[p] \subseteq DOMAIN Graph[Base[p]]
  /\ \A p, q \in Procs :
       p # q /\ Base[p] = Base[q] => MayWrite[p] \cap MayWrite[q] = {}
<1>1. /\ Stall \notin {Orig, Proceed}
      /\ {Orig, Stall, Proceed, Nil, Cleared} \cap (Prims \cup Replicas) = {}
      /\ Prims \cap Replicas = {}
  BY CopyingAssumption
<1>2. Objs \subseteq Prims /\ News \subseteq Prims
  BY DEF Prims
<1>. QED
  BY <1>1, <1>2, CopyingAssumption

(* The existing primaries only grow in number.                             *)
LEMMA KnownIs ==
  ASSUME field' = field
  PROVE  Known' = Known /\ \A x : Safe(x)' <=> Safe(x)
BY DEF Known, Safe

(* The effect of storing field i of a replica.                             *)
FieldSet(r, i, v) ==
  /\ DOMAIN rep' = DOMAIN rep /\ rep' \in [DOMAIN rep -> Replica]
  /\ \A x \in DOMAIN rep : x # r => rep'[x] = rep[x]
  /\ rep'[r].src = rep[r].src /\ rep'[r].tag = rep[r].tag /\ rep'[r].seg = rep[r].seg
  /\ Len(rep'[r].fields) = Len(rep[r].fields)
  /\ DOMAIN rep'[r].fields = DOMAIN rep[r].fields
  /\ i \in DOMAIN rep[r].fields => rep'[r].fields[i] = v
  /\ \A k \in DOMAIN rep[r].fields : k # i => rep'[r].fields[k] = rep[r].fields[k]

(* A field of a replica is stored.                                         *)
LEMMA SetField ==
  ASSUME rep \in [DOMAIN rep -> Replica], NEW r \in DOMAIN rep,
         NEW i, NEW v \in AllWords, rep' = [rep EXCEPT ![r].fields[i] = v]
  PROVE  FieldSet(r, i, v)
<1>. PICK s, t : s = rep[r].fields /\ t = [rep[r].fields EXCEPT ![i] = v]
  OBVIOUS
<1>1. s \in Seq(AllWords) /\ rep[r] \in Replica
  BY DEF Replica, AllWords
<1>2. /\ t \in Seq(AllWords) /\ Len(t) = Len(s) /\ DOMAIN t = DOMAIN s
      /\ i \in DOMAIN s => t[i] = v
      /\ \A k \in DOMAIN s : k # i => t[k] = s[k]
  <2>1. t = [s EXCEPT ![i] = v]
    OBVIOUS
  <2>2. CASE i \in DOMAIN s
    BY <1>1, <2>1, <2>2, ExceptSeq
  <2>3. CASE i \notin DOMAIN s
    <3>1. t = s
      BY <1>1, <2>1, <2>3
    <3>. QED
      BY <1>1, <2>3, <3>1
  <2>. QED
    BY <2>2, <2>3
<1>. PICK z : z = [rep[r] EXCEPT !.fields = t]
  OBVIOUS
<1>3. /\ z \in Replica /\ z.src = rep[r].src /\ z.tag = rep[r].tag /\ z.seg = rep[r].seg
      /\ z.fields = t
  BY <1>1, <1>2 DEF Replica, AllWords
<1>4. rep' = [rep EXCEPT ![r] = z]
  OBVIOUS
<1>5. DOMAIN rep' = DOMAIN rep /\ rep'[r] = z /\ \A x \in DOMAIN rep : x # r => rep'[x] = rep[x]
  BY <1>4
<1>6. rep' \in [DOMAIN rep -> Replica]
  BY <1>3, <1>4
<1>7. rep'[r].fields = t /\ s = rep[r].fields
  BY <1>3, <1>5
<1>. QED
  BY ONLY <1>2, <1>3, <1>5, <1>6, <1>7 DEF FieldSet

(* The effect of storing the tag of a replica.                             *)
TagSet(r, v) ==
  /\ DOMAIN rep' = DOMAIN rep /\ rep' \in [DOMAIN rep -> Replica]
  /\ \A x \in DOMAIN rep : x # r => rep'[x] = rep[x]
  /\ rep'[r].src = rep[r].src /\ rep'[r].tag = v /\ rep'[r].seg = rep[r].seg
  /\ rep'[r].fields = rep[r].fields

(* The tag of a replica is stored.                                         *)
LEMMA SetTag ==
  ASSUME rep \in [DOMAIN rep -> Replica], NEW r \in DOMAIN rep,
         NEW v \in {Orig, Stall}, rep' = [rep EXCEPT ![r].tag = v]
  PROVE  TagSet(r, v)
<1>. PICK z : z = [rep[r] EXCEPT !.tag = v]
  OBVIOUS
<1>1. /\ z \in Replica /\ z.src = rep[r].src /\ z.tag = v /\ z.seg = rep[r].seg
      /\ z.fields = rep[r].fields
  BY DEF Replica
<1>2. rep' = [rep EXCEPT ![r] = z]
  OBVIOUS
<1>3. DOMAIN rep' = DOMAIN rep /\ rep'[r] = z /\ \A x \in DOMAIN rep : x # r => rep'[x] = rep[x]
  BY <1>2
<1>4. rep' \in [DOMAIN rep -> Replica]
  BY <1>1, <1>2
<1>. QED
  BY <1>1, <1>3, <1>4 DEF TagSet

(* The effect of storing the tag of a segment of a replica.                *)
SegSet(r, i, v) ==
  /\ DOMAIN rep' = DOMAIN rep /\ rep' \in [DOMAIN rep -> Replica]
  /\ \A x \in DOMAIN rep : x # r => rep'[x] = rep[x]
  /\ rep'[r].src = rep[r].src /\ rep'[r].tag = rep[r].tag /\ rep'[r].fields = rep[r].fields
  /\ Len(rep'[r].seg) = Len(rep[r].seg)
  /\ i \in DOMAIN rep[r].seg => rep'[r].seg[i] = v
  /\ \A k \in DOMAIN rep[r].seg : k # i => rep'[r].seg[k] = rep[r].seg[k]

(* The tag of a segment of a replica is stored.                            *)
LEMMA SetSeg ==
  ASSUME rep \in [DOMAIN rep -> Replica], NEW r \in DOMAIN rep,
         NEW i, NEW v \in {Proceed, Stall}, rep' = [rep EXCEPT ![r].seg[i] = v]
  PROVE  SegSet(r, i, v)
<1>. PICK s, t : s = rep[r].seg /\ t = [rep[r].seg EXCEPT ![i] = v]
  OBVIOUS
<1>1. s \in Seq({Proceed, Stall}) /\ rep[r] \in Replica
  BY DEF Replica
<1>2. /\ t \in Seq({Proceed, Stall}) /\ Len(t) = Len(s) /\ DOMAIN t = DOMAIN s
      /\ i \in DOMAIN s => t[i] = v
      /\ \A k \in DOMAIN s : k # i => t[k] = s[k]
  <2>1. t = [s EXCEPT ![i] = v]
    OBVIOUS
  <2>2. CASE i \in DOMAIN s
    BY <1>1, <2>1, <2>2, ExceptSeq
  <2>3. CASE i \notin DOMAIN s
    <3>1. t = s
      BY <1>1, <2>1, <2>3
    <3>. QED
      BY <1>1, <2>3, <3>1
  <2>. QED
    BY <2>2, <2>3
<1>. PICK z : z = [rep[r] EXCEPT !.seg = t]
  OBVIOUS
<1>3. /\ z \in Replica /\ z.src = rep[r].src /\ z.tag = rep[r].tag /\ z.seg = t
      /\ z.fields = rep[r].fields
  BY <1>1, <1>2 DEF Replica
<1>4. rep' = [rep EXCEPT ![r] = z]
  OBVIOUS
<1>5. DOMAIN rep' = DOMAIN rep /\ rep'[r] = z /\ \A x \in DOMAIN rep : x # r => rep'[x] = rep[x]
  BY <1>4
<1>6. rep' \in [DOMAIN rep -> Replica]
  BY <1>3, <1>4
<1>7. rep'[r].seg = t /\ s = rep[r].seg
  BY <1>3, <1>5
<1>. QED
  BY ONLY <1>2, <1>3, <1>5, <1>6, <1>7 DEF SegSet

(* The name of a new replica.                                              *)
LEMMA NewName ==
  ASSUME NamesOK, NEW p \in Procs, NEW r, NEW D,
         r = <<p, Cardinality(Copies(p)) + 1>>, D = DOMAIN rep \cup {r}
  PROVE  /\ r \in Replicas /\ r \notin DOMAIN rep /\ IsFiniteSet(D) /\ D \subseteq Replicas
         /\ \A x \in D : x[2] <= Cardinality({y \in D : y[1] = x[1]})
<1>1. \A q : IsFiniteSet(Copies(q)) /\ Cardinality(Copies(q)) \in Nat
  BY FS_Subset, FS_CardinalityType DEF NamesOK, Copies
<1>2. r \in Replicas /\ r[1] = p /\ r[2] = Cardinality(Copies(p)) + 1
  BY <1>1 DEF Replicas
<1>3. r \notin DOMAIN rep
  BY <1>1, <1>2 DEF NamesOK
<1>4. IsFiniteSet(D) /\ D \subseteq Replicas
  BY <1>2, FS_AddElement DEF NamesOK
<1>5. ASSUME NEW x \in D
      PROVE  x[2] <= Cardinality({y \in D : y[1] = x[1]})
  <2>. PICK E : E = {y \in D : y[1] = x[1]}
    OBVIOUS
  <2>1. CASE x[1] = p
    <3>1. E = Copies(p) \cup {r} /\ r \notin Copies(p)
      BY <1>2, <1>3, <2>1 DEF Copies
    <3>2. Cardinality(E) = Cardinality(Copies(p)) + 1
      BY <1>1, <3>1, FS_AddElement
    <3>3. x = r \/ x[2] <= Cardinality(Copies(p))
      BY <2>1 DEF NamesOK
    <3>4. x[2] \in Nat
      BY <1>4 DEF Replicas
    <3>. QED
      BY <1>1, <1>2, <3>2, <3>3, <3>4
  <2>2. CASE x[1] # p
    <3>1. x \in DOMAIN rep /\ E = Copies(x[1])
      BY <1>2, <2>2 DEF Copies
    <3>. QED
      BY <3>1 DEF NamesOK
  <2>. QED
    BY <2>1, <2>2
<1>. QED
  BY <1>2, <1>3, <1>4, <1>5

(* The lengths of fields of arrays.                                        *)
LEMMA ArrayFields ==
  ASSUME HeapTypes, NEW o \in Objs
  PROVE  field[o] \in Seq(Prims \cup {Nil}) /\ DOMAIN field[o] = DOMAIN Graph[o]
                                            /\ Len(field[o]) \in Nat
<1>1. o \in Prims /\ Graph[o] \in Seq(Objs \cup {Nil})
  BY Constants
<1>2. field[o] \in Seq(Prims \cup {Nil}) /\ Len(field[o]) = Len(Graph[o])
  BY <1>1 DEF HeapTypes
<1>. QED
  BY <1>1, <1>2

(* The invariant holds at the start of a collection.                       *)
LEMMA CopyInitInv == Init => CopyInv
<1>. SUFFICES ASSUME Init PROVE CopyInv
  OBVIOUS
<1>1. /\ DOMAIN rep = {} /\ \A p \in Procs : log[p] = <<>> /\ job[p] = Root(Nil)
      /\ \A p \in Procs : pc[p] = "mutator" /\ white[p] = Nil
      /\ \A p \in Procs : job[p].kind = "root"
      /\ tag = [o \in Prims |-> Orig]
  BY DEF Init, Root
<1>2. HeapTypes
  <2>1. \A o \in Objs : /\ o \in Prims /\ field[o] = Graph[o]
                        /\ Graph[o] \in Seq(Objs \cup {Nil})
    BY Constants DEF Init
  <2>2. \A o \in News : field[o] = <<>>
    BY Constants DEF Init
  <2>3. field \in [Prims -> Seq(Prims \cup {Nil})]
    <3>1. \A o \in Prims : field[o] \in Seq(Prims \cup {Nil})
      <4>. TAKE o \in Prims
      <4>1. CASE o \in Objs
        <5>. PICK s : s = Graph[o]
          OBVIOUS
        <5>1. s \in Seq(Objs \cup {Nil}) /\ field[o] = s
          BY <2>1, <4>1
        <5>2. s \in Seq(Prims \cup {Nil})
          BY <5>1, Constants
        <5>. QED
          BY <5>1, <5>2
      <4>2. CASE o \in News
        BY <2>2, <4>2, EmptySeq
      <4>. QED
        BY <4>1, <4>2 DEF Prims
    <3>. QED
      BY <3>1 DEF Init
  <2>4. \A o \in Prims : \A i \in DOMAIN field[o] : Safe(field[o][i])
    <3>. SUFFICES ASSUME NEW o \in Prims, NEW i \in DOMAIN field[o]
                  PROVE  field[o][i] \in Objs \cup {Nil}
      BY Constants DEF Safe, Known
    <3>1. CASE o \in Objs
      BY <2>1, <3>1
    <3>2. CASE o \in News
      BY <2>2, <3>2
    <3>. QED
      BY <3>1, <3>2 DEF Prims
  <2>5. data \in [Procs -> Objs \cup {Nil}]
    BY Constants DEF Init
  <2>6. data \in [Procs -> Prims \cup {Nil}] /\ \A p \in Procs : Safe(data[p])
    BY <2>5, Constants DEF Safe, Known
  <2>7. white \in [Procs -> AllWords] /\ \A p \in Procs : Safe(white[p])
    BY Constants DEF Init, AllWords, Safe, Known
  <2>8. MaxSteps \in [Procs -> Nat]
    BY CopyingAssumption
  <2>. QED
    BY <1>1, <2>1, <2>3, <2>4, <2>6, <2>7, <2>8 DEF HeapTypes, Init, Labels
<1>3. RepTypes /\ OneReplica
  BY <1>1 DEF RepTypes, OneReplica, Init
<1>4. NamesOK
  BY <1>1, FS_EmptySet DEF NamesOK, Copies
<1>5. \A w \in work : WorkOK(w)
  <2>. SUFFICES ASSUME NEW w \in work PROVE WorkOK(w)
    OBVIOUS
  <2>1. PICK o \in (UNION {{Base[p], Held[p]} : p \in Procs}) \ {Nil} : w = Root(o)
    BY DEF Init
  <2>2. o \in Objs
    BY Constants
  <2>. QED
    BY <2>1, <2>2 DEF WorkOK, Root
<1>6. Stopped /\ LogOK
  BY <1>1 DEF Stopped, LogOK, Init
<1>7. \A p \in Procs : ~ Scans(p) /\ ~ Writes(p)
  BY <1>1 DEF Scans, Writes
<1>8. \A p \in Procs : JobOK(p) /\ ScanOK(p) /\ WriteOK(p) /\ FreshOK(p)
  BY <1>1, <1>7 DEF JobOK, ScanOK, WriteOK, FreshOK, Forwarding
<1>9. CopierOK
  BY <1>1, Constants DEF CopierOK
<1>10. BaseOK
  <2>. SUFFICES ASSUME NEW p \in Procs PROVE Root(Base[p]) \in work
    BY DEF BaseOK
  <2>1. Base[p] \in Prims /\ Nil \notin Prims
    BY Constants
  <2>2. Base[p] \in (UNION {{Base[q], Held[q]} : q \in Procs}) \ {Nil}
    BY <2>1
  <2>. QED
    BY <2>2 DEF Init
<1>11. ScanOnce /\ StallOK /\ BackThere /\ StoreOK /\ BackOK /\ CopiedOK /\ FieldsOK
  BY <1>1, <1>7 DEF ScanOnce, StallOK, BackThere, StoreOK, BackOK, CopiedOK, FieldsOK
<1>. QED
  BY <1>2, <1>3, <1>4, <1>5, <1>6, <1>8, <1>9, <1>10, <1>11 DEF CopyInv, ImageInv, LockInv

----------------------------------------------------------------------------
(* A step of p that changes no primary: the part of the invariant that     *)
(* says nothing of p.                                                      *)
Moves(p) ==
  /\ pc' = [pc EXCEPT ![p] = pc'[p]] /\ job' = [job EXCEPT ![p] = job'[p]]
  /\ white' = [white EXCEPT ![p] = white'[p]]
  /\ pc'[p] \in Labels /\ white'[p] \in AllWords /\ Safe(white'[p])
  /\ UNCHANGED <<mode, tag, field, data>> /\ steps' \in [Procs -> Int]
  /\ DOMAIN rep' = DOMAIN rep
  /\ \A r \in DOMAIN rep : rep'[r].src = rep[r].src

LEMMA Others ==
  ASSUME HeapTypes, NEW p \in Procs, Moves(p)
  PROVE  \A q \in Procs : q # p => pc'[q] = pc[q] /\ job'[q] = job[q] /\ white'[q] = white[q]
BY DEF HeapTypes, Moves

LEMMA SameLong ==
  ASSUME NEW p \in Procs, Moves(p)
  PROVE  \A r \in DOMAIN rep : /\ IsLong(r)' <=> IsLong(r)
                               /\ Sync(r)' <=> Sync(r)
BY DEF Moves, IsLong, Sync

LEMMA StepLock ==
  ASSUME LockInv, NEW p \in Procs, Moves(p),
         \A x : Gray(x) \in work' => Gray(x) \in work,
         RepTypes', \A w \in work' : WorkOK(w)', Stopped', LogOK',
         JobOK(p)', ScanOK(p)', WriteOK(p)',
         BaseOK', ScanOnce', StallOK', BackThere',
         pc[p] # "copier", pc'[p] # "copier",
         pc'[p] = "store" /\ white'[p] \in Prims => tag[white'[p]] \in DOMAIN rep
  PROVE  LockInv'
<1>1. \A q \in Procs : q # p => pc'[q] = pc[q] /\ job'[q] = job[q] /\ white'[q] = white[q]
  BY Others DEF LockInv
<1>2. mode' = mode /\ tag' = tag /\ field' = field /\ data' = data
  BY DEF Moves
<1>3. Known' = Known /\ \A x : Safe(x)' <=> Safe(x)
  BY <1>2, KnownIs
<1>4. HeapTypes'
  <2>1. /\ pc' \in [Procs -> Labels] /\ white' \in [Procs -> AllWords]
        /\ DOMAIN job' = Procs /\ job' = [q \in Procs |-> job'[q]]
    BY DEF LockInv, HeapTypes, Moves
  <2>2. \A q \in Procs : Safe(white'[q])
    <3>. TAKE q \in Procs
    <3>1. CASE q = p
      BY <3>1 DEF Moves
    <3>2. CASE q # p
      BY <1>1, <3>2 DEF LockInv, HeapTypes
    <3>. QED
      BY <3>1, <3>2
  <2>. QED
    BY <1>2, <1>3, <2>1, <2>2 DEF LockInv, HeapTypes, Moves
<1>5. NamesOK' /\ OneReplica'
  BY <1>2 DEF LockInv, NamesOK, OneReplica, Moves, Copies
<1>6. ASSUME NEW q \in Procs, q # p
      PROVE  JobOK(q)' /\ ScanOK(q)' /\ WriteOK(q)'
  <2>1. pc'[q] = pc[q] /\ job'[q] = job[q] /\ white'[q] = white[q]
    BY <1>1, <1>6
  <2>2. JobOK(q)'
    <3>1. JobOK(q)
      BY DEF LockInv
    <3>2. IsWrite(q, job[q])' <=> IsWrite(q, job[q])
      BY <1>3, <2>1 DEF IsWrite
    <3>. QED
      BY <1>2, <1>3, <2>1, <3>1, <3>2 DEF JobOK, Writes, Scans
  <2>3. ScanOK(q)'
    <3>. SUFFICES ASSUME Scans(q) PROVE ScanOK(q)'
      BY <2>1 DEF ScanOK, Scans
    <3>. PICK r : r = job[q].rep
      OBVIOUS
    <3>1. ScanOK(q) /\ r \in DOMAIN rep
      BY DEF LockInv, ScanOK
    <3>2. /\ r \in DOMAIN rep' /\ rep'[r].src = rep[r].src
          /\ Len(rep'[r].fields) = Len(rep[r].fields)
      BY <1>2, <3>1 DEF Moves, LockInv, RepTypes
    <3>3. IsLong(r)' <=> IsLong(r)
      BY <3>1, SameLong
    <3>. QED
      BY <1>2, <1>3, <2>1, <3>1, <3>2, <3>3 DEF ScanOK, Scans
  <2>4. WriteOK(q)'
    <3>. SUFFICES ASSUME Writes(q) PROVE WriteOK(q)'
      BY <2>1 DEF WriteOK, Writes
    <3>1. WriteOK(q)
      BY DEF LockInv
    <3>2. \A r \in DOMAIN rep : Unscanned(r)' => Unscanned(r)
      BY DEF Unscanned, Moves
    <3>. QED
      BY <1>2, <2>1, <3>1, <3>2 DEF WriteOK, Writes, Moves, Forwarding
  <2>. QED
    BY <2>2, <2>3, <2>4
<1>7. CopierOK'
  BY <1>1, <1>2 DEF LockInv, CopierOK
<1>8. StoreOK'
  <2>. SUFFICES ASSUME NEW q \in Procs, pc'[q] = "store", white'[q] \in Prims
                PROVE  tag'[white'[q]] \in DOMAIN rep'
    BY DEF StoreOK
  <2>1. CASE q = p
    BY <1>2, <2>1 DEF Moves
  <2>2. CASE q # p
    BY <1>1, <1>2, <2>2 DEF Moves, LockInv, StoreOK
  <2>. QED
    BY <2>1, <2>2
<1>. QED
  BY <1>4, <1>5, <1>6, <1>7, <1>8 DEF LockInv

(* A step of p that forwards no root.                                      *)
LEMMA BaseKeeps ==
  ASSUME LockInv, NEW p \in Procs, Moves(p),
         \A o : Root(o) \in work => Root(o) \in work',
         \/ pc[p] \notin Forwarding \/ tag[white[p]] \in DOMAIN rep
         \/ pc'[p] \in Forwarding /\ white'[p] = white[p]
  PROVE  BaseOK'
<1>1. \A q \in Procs : q # p => pc'[q] = pc[q] /\ white'[q] = white[q]
  BY Others DEF LockInv
<1>. SUFFICES ASSUME NEW q \in Procs
              PROVE  \/ tag[Base[q]] \in DOMAIN rep \/ Root(Base[q]) \in work'
                     \/ \E u \in Procs : pc'[u] \in Forwarding /\ white'[u] = Base[q]
  BY DEF BaseOK, Moves
<1>2. CASE tag[Base[q]] \in DOMAIN rep \/ Root(Base[q]) \in work
  BY <1>2
<1>3. ASSUME NEW u \in Procs, pc[u] \in Forwarding, white[u] = Base[q]
      PROVE  \/ tag[Base[q]] \in DOMAIN rep
             \/ \E v \in Procs : pc'[v] \in Forwarding /\ white'[v] = Base[q]
  <2>1. CASE u = p
    BY <1>3, <2>1
  <2>2. CASE u # p
    BY <1>1, <1>3, <2>2
  <2>. QED
    BY <2>1, <2>2
<1>. QED
  BY <1>2, <1>3 DEF LockInv, BaseOK

(* A step of p that changes no replica either, and goes on with its scan   *)
(* if it has one.                                                          *)
LEMMA LocalLock ==
  ASSUME LockInv, NEW p \in Procs, Moves(p), rep' = rep, work' \subseteq work,
         Stopped', LogOK', JobOK(p)', ScanOK(p)', WriteOK(p)', BaseOK',
         Scans(p)' <=> Scans(p),
         Scans(p) => job'[p].rep = job[p].rep /\ job'[p].last = job[p].last,
         pc[p] # "copier", pc'[p] # "copier",
         pc'[p] = "store" /\ white'[p] \in Prims => tag[white'[p]] \in DOMAIN rep
  PROVE  LockInv'
<1>1. \A q \in Procs : q # p => pc'[q] = pc[q] /\ job'[q] = job[q]
  BY Others DEF LockInv
<1>2. mode' = mode /\ tag' = tag /\ field' = field
  BY DEF Moves
<1>3. Known' = Known /\ \A x : Safe(x)' <=> Safe(x)
  BY <1>2, KnownIs
<1>4. RepTypes'
  BY <1>2, <1>3 DEF LockInv, RepTypes
<1>5. \A w \in work' : WorkOK(w)'
  BY <1>2, <1>3 DEF LockInv, WorkOK
<1>6. \A r : Unscanned(r)' => Unscanned(r)
  BY DEF Unscanned
<1>7. BackThere'
  BY <1>2, <1>6 DEF LockInv, BackThere
<1>8. \A q \in Procs : /\ Scans(q)' <=> Scans(q)
                       /\ Scans(q) => /\ job'[q].rep = job[q].rep
                                      /\ job'[q].last = job[q].last
  BY <1>1 DEF Scans
<1>9. ScanOnce'
  BY <1>6, <1>8 DEF LockInv, ScanOnce
<1>10. StallOK'
  <2>1. \A r \in DOMAIN rep : (IsLong(r)' <=> IsLong(r)) /\ (Sync(r)' <=> Sync(r))
    BY SameLong
  <2>2. \A q \in Procs : Scans(q) => job[q].rep \in DOMAIN rep
    BY DEF LockInv, ScanOK
  <2>. QED
    BY <1>8, <2>1, <2>2 DEF LockInv, StallOK
<1>. QED
  BY <1>4, <1>5, <1>7, <1>9, <1>10, StepLock

(* Entries of a log and writes stay what they are.                         *)
LEMMA LogKeeps ==
  ASSUME LogOK, Stopped, field' = field, log' = log, steps' = steps, mode' = mode
  PROVE  LogOK' /\ Stopped'
<1>1. Known' = Known /\ \A x : Safe(x)' <=> Safe(x)
  BY KnownIs
<1>. QED
  BY <1>1 DEF LogOK, Stopped, IsWrite

----------------------------------------------------------------------------
(* The release: an entry of the log is taken.                              *)
LEMMA TakeEntryIs ==
  ASSUME LockInv, NEW p \in Procs, TakeEntry(p)
  PROVE  /\ Moves(p) /\ rep' = rep /\ work' = work /\ steps' = steps
         /\ pc[p] \in {"mutator", "release"} /\ mode # "copy" /\ log[p] # <<>>
         /\ log' = [log EXCEPT ![p] = Tail(log[p])]
         /\ job'[p] = Head(log[p]) /\ Head(log[p]) \in Entries
         /\ IF Head(log[p]).kind = "new"
              THEN pc'[p] = "alloc" /\ white'[p] = Head(log[p]).obj /\ white'[p] \in Known
              ELSE pc'[p] = "writeTag" /\ white' = white /\ IsWrite(p, Head(log[p]))
<1>. PICK e : e = Head(log[p])
  OBVIOUS
<1>1. log[p] \in Seq(Entries) /\ log[p] # <<>>
  BY Zenon DEF LockInv, LogOK, TakeEntry
<1>2. e \in Entries /\ e = log[p][1] /\ 1 \in DOMAIN log[p]
  BY <1>1
<1>3. IF e.kind = "new" THEN e.obj \in Known ELSE IsWrite(p, e)
  BY <1>2 DEF LockInv, LogOK
<1>4. Known \subseteq Prims
  BY Constants DEF Known
<1>5. /\ pc[p] \in {"mutator", "release"} /\ rep' = rep /\ work' = work
      /\ log' = [log EXCEPT ![p] = Tail(log[p])]
      /\ job' = [job EXCEPT ![p] = e]
      /\ UNCHANGED <<mode, tag, field, data, steps>>
  BY Zenon DEF TakeEntry, At, heapVars
<1>6. IF e.kind = "new"
        THEN pc' = [pc EXCEPT ![p] = "alloc"] /\ white' = [white EXCEPT ![p] = e.obj]
        ELSE pc' = [pc EXCEPT ![p] = "writeTag"] /\ white' = white
  BY <1>3, <1>4, Zenon DEF TakeEntry, Give, To
<1>7. /\ pc \in [Procs -> Labels] /\ white \in [Procs -> AllWords] /\ DOMAIN job = Procs
      /\ steps \in [Procs -> Int] /\ \A q \in Procs : Safe(white[q])
  BY DEF LockInv, HeapTypes
<1>8. job'[p] = e
  BY <1>5, <1>7
<1>9. mode # "copy"
  BY <1>1 DEF LockInv, Stopped
<1>10. Known' = Known /\ \A x : Safe(x)' <=> Safe(x)
  BY <1>5, KnownIs
<1>11. Moves(p) /\ IF e.kind = "new" THEN pc'[p] = "alloc" /\ white'[p] = e.obj
                                     ELSE pc'[p] = "writeTag" /\ white' = white
  <2>1. CASE e.kind = "new"
    BY <1>3, <1>4, <1>5, <1>6, <1>7, <1>8, <1>10, <2>1
      DEF Moves, Labels, AllWords, Safe
  <2>2. CASE e.kind # "new"
    BY <1>5, <1>6, <1>7, <1>8, <1>10, <2>2 DEF Moves, Labels
  <2>. QED
    BY <2>1, <2>2
<1>. QED
  BY <1>1, <1>2, <1>3, <1>5, <1>8, <1>9, <1>11

LEMMA TakeEntryLock ==
  ASSUME LockInv, NEW p \in Procs, TakeEntry(p)
  PROVE  LockInv'
<1>. PICK e : e = Head(log[p])
  OBVIOUS
<1>1. /\ Moves(p) /\ rep' = rep /\ work' = work /\ steps' = steps
      /\ pc[p] \in {"mutator", "release"} /\ mode # "copy" /\ log[p] # <<>>
      /\ log' = [log EXCEPT ![p] = Tail(log[p])]
      /\ job'[p] = e /\ e \in Entries
      /\ IF e.kind = "new" THEN pc'[p] = "alloc" /\ white'[p] = e.obj /\ white'[p] \in Known
                           ELSE pc'[p] = "writeTag" /\ white' = white /\ IsWrite(p, e)
  BY TakeEntryIs
<1>2. mode' = mode /\ field' = field /\ tag' = tag
  BY <1>1 DEF Moves
<1>3. Known' = Known /\ \A x : Safe(x)' <=> Safe(x)
  BY <1>2, KnownIs
<1>4. e.kind \in {"new", "write"} /\ job[p].kind = "root"
  BY <1>1 DEF LockInv, JobOK, Root, Entries
<1>5. JobOK(p)'
  <2>1. \A x : IsWrite(p, x)' <=> IsWrite(p, x)
    BY <1>3 DEF IsWrite
  <2>. QED
    BY <1>1, <1>2, <1>3, <1>4, <2>1 DEF JobOK, Writes, Scans, Forwarding
<1>6. ScanOK(p)' /\ WriteOK(p)'
  BY <1>1, <1>4 DEF ScanOK, WriteOK, Scans, Writes, Forwarding
<1>7. BaseOK'
  BY <1>1, BaseKeeps DEF Forwarding
<1>8. Stopped' /\ LogOK'
  <2>1. log[p] \in Seq(Entries) /\ DOMAIN log = Procs
    BY DEF LockInv, LogOK
  <2>2. /\ Tail(log[p]) \in Seq(Entries) /\ log'[p] = Tail(log[p])
        /\ \A k \in DOMAIN log'[p] : k + 1 \in DOMAIN log[p] /\ log'[p][k] = log[p][k + 1]
    BY <1>1, <2>1
  <2>3. log' \in [Procs -> Seq(Entries)] /\ \A q \in Procs : q # p => log'[q] = log[q]
    BY <1>1, <2>1, <2>2 DEF LockInv, LogOK
  <2>4. \A q \in Procs : \A k \in DOMAIN log'[q] :
          IF log'[q][k].kind = "new" THEN log'[q][k].obj \in Known ELSE IsWrite(q, log'[q][k])
    <3>. TAKE q \in Procs
    <3>1. CASE q = p
      BY <2>2, <3>1 DEF LockInv, LogOK
    <3>2. CASE q # p
      BY <2>3, <3>2 DEF LockInv, LogOK
    <3>. QED
      BY <3>1, <3>2
  <2>. QED
    BY <1>1, <1>2, <1>3, <2>3, <2>4 DEF Stopped, LogOK, IsWrite
<1>. QED
  BY <1>1, <1>4, <1>5, <1>6, <1>7, <1>8, LocalLock DEF Scans

----------------------------------------------------------------------------
(* A step in terms of what p does next.                                    *)
LEMMA MovesTo ==
  ASSUME HeapTypes, NEW p \in Procs, NEW c \in Labels, NEW w \in AllWords, Safe(w), NEW j,
         pc' = [pc EXCEPT ![p] = c], job' = [job EXCEPT ![p] = j],
         white' = [white EXCEPT ![p] = w],
         UNCHANGED <<mode, tag, field, data, steps>>, DOMAIN rep' = DOMAIN rep,
         \A r \in DOMAIN rep : rep'[r].src = rep[r].src
  PROVE  Moves(p) /\ pc'[p] = c /\ job'[p] = j /\ white'[p] = w
<1>1. pc'[p] = c /\ job'[p] = j /\ white'[p] = w
  BY DEF HeapTypes
<1>2. Safe(w)'
  BY KnownIs
<1>3. steps' \in [Procs -> Int]
  BY DEF HeapTypes
<1>. QED
  BY <1>1, <1>2, <1>3 DEF Moves, Safe

(* What is unchanged, written as MovesTo wants it.                         *)
LEMMA Unmoved ==
  ASSUME HeapTypes, NEW p \in Procs
  PROVE  /\ pc = [pc EXCEPT ![p] = pc[p]] /\ job = [job EXCEPT ![p] = job[p]]
         /\ white = [white EXCEPT ![p] = white[p]]
         /\ pc[p] \in Labels /\ white[p] \in AllWords /\ Safe(white[p])
BY DEF HeapTypes

(* Finish, in terms of what p does next.                                   *)
LEMMA FinishIs ==
  ASSUME HeapTypes, NEW p \in Procs, Finish(p),
         UNCHANGED <<mode, tag, field, data, steps>>, DOMAIN rep' = DOMAIN rep,
         \A r \in DOMAIN rep : rep'[r].src = rep[r].src
  PROVE  /\ Moves(p) /\ pc'[p] \in {"mutator", "release"}
         /\ job'[p] = Root(Nil) /\ white'[p] = Nil
<1>. PICK c : c = IF log[p] = <<>> THEN "mutator" ELSE "release"
  OBVIOUS
<1>1. Nil \in AllWords /\ Safe(Nil)
  BY Constants DEF AllWords, Safe
<1>2. /\ pc' = [pc EXCEPT ![p] = c] /\ job' = [job EXCEPT ![p] = Root(Nil)]
      /\ white' = [white EXCEPT ![p] = Nil]
  BY DEF Finish, To
<1>3. c \in {"mutator", "release"} /\ c \in Labels
  BY DEF Labels
<1>. QED
  BY <1>1, <1>2, <1>3, MovesTo

(* After Finish nothing is asked of p.                                     *)
LEMMA DoneOK ==
  ASSUME NEW p \in Procs, pc'[p] \in {"mutator", "release"}, job'[p] = Root(Nil)
  PROVE  /\ JobOK(p)' /\ ScanOK(p)' /\ WriteOK(p)' /\ ~ Scans(p)'
         /\ pc'[p] # "copier" /\ pc'[p] # "store"
BY DEF JobOK, ScanOK, WriteOK, Scans, Writes, Forwarding, Root

(* A release, or a root, that needs no replica or has it now.              *)
LEMMA FinishLock ==
  ASSUME LockInv, NEW p \in Procs, Finish(p), ~ Scans(p), pc[p] # "copier",
         UNCHANGED <<mode, tag, field, data, steps, rep, log>>, work' \subseteq work,
         \A o : Root(o) \in work => Root(o) \in work',
         pc[p] \notin Forwarding \/ tag[white[p]] \in DOMAIN rep
  PROVE  LockInv'
<1>1. /\ Moves(p) /\ pc'[p] \in {"mutator", "release"} /\ job'[p] = Root(Nil)
      /\ white'[p] = Nil
  BY FinishIs DEF LockInv
<1>2. /\ JobOK(p)' /\ ScanOK(p)' /\ WriteOK(p)' /\ ~ Scans(p)'
      /\ pc'[p] # "copier" /\ pc'[p] # "store"
  BY <1>1, DoneOK
<1>3. LogOK' /\ Stopped'
  BY LogKeeps DEF LockInv
<1>4. BaseOK'
  BY <1>1, BaseKeeps
<1>. QED
  BY <1>1, <1>2, <1>3, <1>4, LocalLock

(* The array, the field and the pointers of a write in the hands of p.     *)
LEMMA WriteIs ==
  ASSUME LockInv, NEW p \in Procs, Writes(p)
  PROVE  /\ job[p] = Write(Base[p], job[p].index, job[p].old) /\ job[p].obj = Base[p]
         /\ Base[p] \in Arrays /\ Base[p] \in Prims /\ Base[p] \in Objs /\ mode # "copy"
         /\ job[p].index \in MayWrite[p]
         /\ job[p].index \in DOMAIN field[Base[p]] /\ job[p].index \in Nat \ {0}
         /\ job[p].old \in Prims \cup {Nil} /\ Safe(job[p].old)
         /\ field[Base[p]][job[p].index] \in Prims \cup {Nil}
         /\ Safe(field[Base[p]][job[p].index]) /\ ~ Scans(p)
         /\ tag[Base[p]] \in DOMAIN rep => rep[tag[Base[p]]].src = Base[p]
<1>1. IsWrite(p, job[p]) /\ mode # "copy" /\ ~ Scans(p)
  BY DEF LockInv, JobOK, Writes, Scans
<1>2. Base[p] \in Arrays /\ Base[p] \in Prims /\ Base[p] \in Objs
  BY Constants
<1>3. job[p].index \in MayWrite[p] /\ job[p].index \in DOMAIN Graph[Base[p]]
  BY <1>1, Constants DEF IsWrite
<1>4. HeapTypes /\ NamesOK
  BY DEF LockInv
<1>5. job[p].index \in DOMAIN field[Base[p]] /\ field[Base[p]] \in Seq(Prims \cup {Nil})
  BY <1>2, <1>3, <1>4, ArrayFields
<1>6. Safe(field[Base[p]][job[p].index])
  BY <1>2, <1>4, <1>5 DEF HeapTypes
<1>. QED
  BY <1>1, <1>2, <1>3, <1>4, <1>5, <1>6 DEF IsWrite, Write, NamesOK

(* p keeps its write and goes on with it.                                  *)
LEMMA ReleaseLock ==
  ASSUME LockInv, NEW p \in Procs, Writes(p), Moves(p), job'[p] = job[p],
         UNCHANGED <<steps, rep, log, work>>, pc[p] \notin Forwarding,
         pc'[p] \notin {"copier", "mutator", "release", "field", "forward"},
         pc'[p] \in Forwarding => white'[p] \in Known,
         pc'[p] = "store" /\ white'[p] \in Prims => tag[white'[p]] \in DOMAIN rep,
         WriteOK(p)'
  PROVE  LockInv'
<1>1. mode' = mode /\ field' = field
  BY DEF Moves
<1>2. Known' = Known /\ \A x : Safe(x)' <=> Safe(x)
  BY <1>1, KnownIs
<1>3. LogOK' /\ Stopped'
  BY <1>1, LogKeeps DEF LockInv
<1>4. BaseOK'
  BY BaseKeeps
<1>5. ~ Scans(p) /\ ~ Scans(p)' /\ Writes(p)' /\ IsWrite(p, job[p]) /\ mode # "copy"
  BY DEF LockInv, JobOK, Writes, Scans
<1>6. IsWrite(p, job[p])' /\ ScanOK(p)'
  BY <1>2, <1>5 DEF IsWrite, ScanOK
<1>7. JobOK(p)'
  BY <1>1, <1>2, <1>5, <1>6 DEF JobOK, Writes, Scans, Forwarding
<1>8. /\ pc[p] # "copier" /\ pc'[p] # "copier" /\ WriteOK(p)' /\ work' \subseteq work
      /\ rep' = rep
  BY DEF Forwarding
<1>. QED
  BY <1>3, <1>4, <1>5, <1>6, <1>7, <1>8, LocalLock

LEMMA WriteTagLock ==
  ASSUME LockInv, NEW p \in Procs, WriteTag(p)
  PROVE  LockInv'
<1>. PICK o, old, j : o = job[p].obj /\ old = job[p].old /\ j = New(old)
  OBVIOUS
<1>1. /\ pc[p] = "writeTag" /\ tag[o] # Stall
      /\ UNCHANGED <<mode, tag, field, rep, work, data, steps, log>>
  BY Zenon DEF WriteTag, At, heapVars
<1>2. Writes(p) /\ HeapTypes
  BY <1>1 DEF LockInv, JobOK
<1>3. /\ o = Base[p] /\ o \in Prims /\ old \in Prims \cup {Nil} /\ Safe(old) /\ ~ Scans(p)
      /\ mode # "copy"
  BY <1>2, WriteIs
<1>4. CASE tag[o] # Orig
  <2>1. pc' = [pc EXCEPT ![p] = "replicaTag"] /\ job' = job /\ white' = white
    BY <1>1, <1>4 DEF WriteTag, To
  <2>2. /\ job = [job EXCEPT ![p] = job[p]] /\ white = [white EXCEPT ![p] = white[p]]
        /\ white[p] \in AllWords /\ Safe(white[p]) /\ "replicaTag" \in Labels
    BY <1>2, Unmoved DEF Labels
  <2>3. Moves(p) /\ pc'[p] = "replicaTag" /\ job'[p] = job[p]
    BY <1>1, <1>2, <2>1, <2>2, KnownIs DEF Moves, HeapTypes
  <2>4. tag[o] \in DOMAIN rep
    BY <1>1, <1>2, <1>3, <1>4 DEF HeapTypes
  <2>5. WriteOK(p)'
    BY <1>1, <1>2, <2>3, <2>4 DEF WriteOK, Writes, Forwarding
  <2>. QED
    BY <1>1, <1>2, <2>3, <2>5, ReleaseLock DEF Forwarding
<1>5. CASE tag[o] = Orig /\ old = Nil
  <2>1. Finish(p)
    BY <1>5 DEF WriteTag
  <2>. QED
    BY <1>1, <1>3, <2>1, FinishLock DEF Forwarding
<1>6. CASE tag[o] = Orig /\ old # Nil
  <2>1. old \in Prims /\ old \in Known
    BY <1>3, <1>6 DEF Safe
  <2>2. /\ pc' = [pc EXCEPT ![p] = "alloc"] /\ job' = [job EXCEPT ![p] = j]
        /\ white' = [white EXCEPT ![p] = old]
    BY <1>6, <2>1 DEF WriteTag, Give, To
  <2>3. old \in AllWords /\ "alloc" \in Labels
    BY <2>1 DEF AllWords, Labels
  <2>4. Moves(p) /\ pc'[p] = "alloc" /\ job'[p] = j /\ white'[p] = old
    BY <1>1, <1>2, <1>3, <2>2, <2>3, KnownIs DEF Moves, HeapTypes
  <2>5. /\ j.kind = "new" /\ ~ Scans(p)' /\ ~ Writes(p)'
    BY <2>4 DEF New, Scans, Writes
  <2>6. Known' = Known
    BY <1>1, KnownIs
  <2>7. JobOK(p)' /\ ScanOK(p)' /\ WriteOK(p)'
    BY <2>1, <2>4, <2>5, <2>6 DEF JobOK, ScanOK, WriteOK
  <2>8. LogOK' /\ Stopped'
    BY <1>1, LogKeeps DEF LockInv
  <2>9. BaseOK'
    BY <1>1, <2>4, BaseKeeps DEF Forwarding
  <2>. QED
    BY <1>1, <1>3, <2>4, <2>5, <2>7, <2>8, <2>9, LocalLock
<1>. QED
  BY <1>4, <1>5, <1>6

LEMMA ReplicaTagLock ==
  ASSUME LockInv, NEW p \in Procs, ReplicaTag(p)
  PROVE  LockInv'
<1>. PICK c : c = IF rep[tag[job[p].obj]].tag = Stall THEN "noArray" ELSE "array"
  OBVIOUS
<1>1. /\ pc[p] = "replicaTag" /\ pc' = [pc EXCEPT ![p] = c] /\ job' = job /\ white' = white
      /\ UNCHANGED <<mode, tag, field, rep, work, data, steps, log>>
  BY DEF ReplicaTag, At, To, heapVars
<1>2. Writes(p) /\ HeapTypes
  BY <1>1 DEF LockInv, JobOK
<1>3. /\ job = [job EXCEPT ![p] = job[p]] /\ white = [white EXCEPT ![p] = white[p]]
      /\ white[p] \in AllWords /\ Safe(white[p]) /\ c \in Labels /\ c \in {"noArray", "array"}
  BY <1>2, Unmoved DEF Labels
<1>4. Moves(p) /\ pc'[p] = c /\ job'[p] = job[p]
  BY <1>1, <1>2, <1>3, KnownIs DEF Moves, HeapTypes
<1>5. WriteOK(p)'
  <2>1. WriteOK(p)
    BY DEF LockInv
  <2>. QED
    BY <1>1, <1>2, <1>3, <1>4, <2>1 DEF WriteOK, Writes, Forwarding
<1>. QED
  BY <1>1, <1>2, <1>3, <1>4, <1>5, ReleaseLock DEF Forwarding

(* The release goes on when the replica is being scanned, or was.          *)
LEMMA BackPointerLock ==
  ASSUME LockInv, NEW p \in Procs, BackPointer(p)
  PROVE  LockInv'
<1>. PICK o, r : o = job[p].obj /\ r = tag[o]
  OBVIOUS
<1>1. /\ pc[p] \in {"array", "noArray"}
      /\ UNCHANGED <<mode, tag, field, rep, work, data, steps, log>>
  BY DEF BackPointer, At, heapVars
<1>2. Writes(p) /\ HeapTypes /\ WriteOK(p)
  BY <1>1 DEF LockInv, JobOK
<1>3. o = Base[p] /\ o \in Prims /\ ~ Scans(p) /\ mode # "copy" /\ job[p].index \in DOMAIN field[o]
  BY <1>2, WriteIs
<1>4. CASE rep[r].fields[1] = o
  <2>1. Finish(p)
    BY <1>1, <1>4 DEF BackPointer
  <2>. QED
    BY <1>1, <1>3, <2>1, FinishLock DEF Forwarding
<1>5. CASE rep[r].fields[1] # o
  <2>. PICK c : c = IF pc[p] = "noArray" THEN "die" ELSE "sync"
    OBVIOUS
  <2>1. pc' = [pc EXCEPT ![p] = c] /\ job' = job /\ white' = white
    BY <1>1, <1>5 DEF BackPointer, To
  <2>2. /\ job = [job EXCEPT ![p] = job[p]] /\ white = [white EXCEPT ![p] = white[p]]
        /\ white[p] \in AllWords /\ Safe(white[p]) /\ c \in Labels /\ c \in {"die", "sync"}
    BY <1>2, Unmoved DEF Labels
  <2>3. Moves(p) /\ pc'[p] = c /\ job'[p] = job[p]
    BY <1>1, <1>2, <2>1, <2>2, KnownIs DEF Moves, HeapTypes
  <2>4. r \in DOMAIN rep /\ rep[r].src = o
    <3>1. r \in DOMAIN rep
      BY <1>1, <1>2 DEF WriteOK
    <3>. QED
      BY <1>3, <3>1 DEF LockInv, NamesOK
  <2>5. ~ Unscanned(r)
    <3>1. rep[r].fields # <<>>
      <4>1. Len(rep[r].fields) = Len(field[o]) /\ rep[r] \in Replica
        BY <2>4 DEF LockInv, RepTypes
      <4>2. field[o] \in Seq(Prims \cup {Nil}) /\ Len(field[o]) > 0
        <5>1. field[o] \in Seq(Prims \cup {Nil})
          BY <1>2, <1>3 DEF HeapTypes
        <5>. QED
          BY <1>3, <5>1
      <4>3. rep[r].fields \in Seq(AllWords)
        BY <4>1 DEF Replica, AllWords
      <4>. QED
        BY <4>1, <4>2, <4>3
    <3>. QED
      BY <1>3, <1>5, <2>4, <3>1 DEF LockInv, BackThere
  <2>6. ~ Unscanned(r)'
    BY <1>1, <2>5 DEF Unscanned
  <2>7. WriteOK(p)'
    BY <1>1, <1>2, <2>2, <2>3, <2>4, <2>6 DEF WriteOK, Writes, Forwarding
  <2>. QED
    BY <1>1, <1>2, <2>2, <2>3, <2>7, ReleaseLock DEF Forwarding
<1>. QED
  BY <1>4, <1>5

LEMMA ReadFieldLock ==
  ASSUME LockInv, NEW p \in Procs, ReadField(p)
  PROVE  LockInv'
<1>. PICK o, v, c : /\ o = job[p].obj /\ v = field[o][job[p].index]
                    /\ c = IF v \in Prims THEN "alloc" ELSE "store"
  OBVIOUS
<1>1. /\ pc[p] = "sync" /\ pc' = [pc EXCEPT ![p] = c] /\ white' = [white EXCEPT ![p] = v]
      /\ UNCHANGED <<mode, tag, field, rep, work, data, steps, log, job>>
  BY DEF ReadField, At, Give, To, heapVars
<1>2. Writes(p) /\ HeapTypes /\ WriteOK(p)
  BY <1>1 DEF LockInv, JobOK
<1>3. o = Base[p] /\ v \in Prims \cup {Nil} /\ Safe(v)
  BY <1>2, WriteIs
<1>4. v \in AllWords /\ c \in Labels /\ c \in {"alloc", "store"}
  BY <1>3 DEF AllWords, Labels
<1>5. job' = [job EXCEPT ![p] = job[p]]
  BY <1>1, <1>2, Unmoved
<1>6. Moves(p) /\ pc'[p] = c /\ job'[p] = job[p] /\ white'[p] = v
  BY <1>1, <1>2, <1>3, <1>4, <1>5, KnownIs DEF Moves, HeapTypes
<1>7. WriteOK(p)'
  <2>1. tag[o] \in DOMAIN rep /\ ~ Unscanned(tag[o])
    BY <1>1, <1>2 DEF WriteOK, Forwarding
  <2>2. ~ Unscanned(tag[o])'
    BY <1>1, <2>1 DEF Unscanned
  <2>. QED
    BY <1>1, <1>2, <1>4, <1>6, <2>1, <2>2 DEF WriteOK, Writes, Forwarding
<1>8. c = "alloc" => v \in Known
  BY <1>3 DEF Safe
<1>. QED
  BY <1>1, <1>2, <1>4, <1>6, <1>7, <1>8, ReleaseLock DEF Forwarding

----------------------------------------------------------------------------
(* Forwarding: p goes on with the pointer in its hands.                    *)
LEMMA HoldLock ==
  ASSUME LockInv, NEW p \in Procs, pc[p] \in {"alloc", "own"},
         pc' = [pc EXCEPT ![p] = pc'[p]], job' = job, white' = white,
         UNCHANGED <<mode, tag, field, data, steps, rep, log, work>>,
         \/ pc'[p] \in {"alloc", "own"}
         \/ pc'[p] = "store" /\ tag[white[p]] \in DOMAIN rep /\ (Scans(p) \/ Writes(p))
  PROVE  LockInv'
<1>1. HeapTypes /\ JobOK(p) /\ ScanOK(p) /\ WriteOK(p)
  BY DEF LockInv
<1>2. Moves(p)
  BY <1>1, Unmoved, KnownIs DEF Moves, HeapTypes, Labels
<1>3. Known' = Known /\ \A x : Safe(x)' <=> Safe(x)
  BY KnownIs
<1>4. LogOK' /\ Stopped'
  BY LogKeeps DEF LockInv
<1>5. /\ Scans(p)' <=> Scans(p)
      /\ Writes(p)' <=> Writes(p)
      /\ \A x : IsWrite(p, x)' <=> IsWrite(p, x)
      /\ \A r : (IsLong(r)' <=> IsLong(r)) /\ (Unscanned(r)' <=> Unscanned(r))
  BY <1>3 DEF Scans, Writes, IsWrite, IsLong, Unscanned
<1>6. JobOK(p)' /\ ScanOK(p)' /\ WriteOK(p)'
  <2>1. JobOK(p)'
    BY <1>1, <1>3, <1>5 DEF JobOK, Forwarding
  <2>2. ScanOK(p)'
    BY <1>1, <1>3, <1>5 DEF ScanOK, Forwarding
  <2>3. WriteOK(p)'
    BY <1>1, <1>5 DEF WriteOK, Forwarding
  <2>. QED
    BY <2>1, <2>2, <2>3
<1>7. BaseOK'
  BY <1>2, BaseKeeps DEF Forwarding
<1>. QED
  BY <1>2, <1>4, <1>5, <1>6, <1>7, LocalLock

LEMMA ReadTagLock ==
  ASSUME LockInv, NEW p \in Procs, ReadTag(p)
  PROVE  LockInv'
<1>. PICK v, t : v = white[p] /\ t = tag[v]
  OBVIOUS
<1>1. /\ pc[p] = "alloc" /\ t # Stall
      /\ UNCHANGED <<mode, tag, field, data, steps, rep, log, work>>
  BY DEF ReadTag, At, heapVars
<1>2. HeapTypes /\ JobOK(p) /\ pc \in [Procs -> Labels]
  BY DEF LockInv, HeapTypes
<1>3. v \in Prims
  BY <1>1, <1>2, Constants DEF JobOK, Forwarding, Known
<1>4. CASE t = Orig
  <2>1. pc' = [pc EXCEPT ![p] = "own"] /\ job' = job /\ white' = white
    BY <1>4 DEF ReadTag, To
  <2>. QED
    BY <1>1, <1>2, <2>1, HoldLock
<1>5. CASE t # Orig
  <2>1. t \in DOMAIN rep
    BY <1>1, <1>2, <1>3, <1>5 DEF HeapTypes
  <2>2. Forwarded(p)
    BY <1>5 DEF ReadTag
  <2>3. CASE Scans(p) \/ Writes(p)
    <3>1. pc' = [pc EXCEPT ![p] = "store"] /\ job' = job /\ white' = white
      BY <2>2, <2>3 DEF Forwarded, To, Scans, Writes
    <3>. QED
      BY <1>1, <1>2, <2>1, <2>3, <3>1, HoldLock
  <2>4. CASE ~ Scans(p) /\ ~ Writes(p)
    <3>1. Finish(p)
      BY <2>2, <2>4 DEF Forwarded, Scans, Writes
    <3>. QED
      BY <1>1, <2>1, <2>4, <3>1, FinishLock
  <2>. QED
    BY <2>3, <2>4
<1>. QED
  BY <1>4, <1>5

(* A root is taken.                                                        *)
LEMMA UpdateRootLock ==
  ASSUME LockInv, NEW p \in Procs, NEW w \in work, UpdateRoot(p, w)
  PROVE  LockInv'
<1>. PICK o : o = w.obj
  OBVIOUS
<1>1. /\ pc[p] = "mutator" /\ w.kind = "root" /\ work' = work \ {w}
      /\ job' = [job EXCEPT ![p] = w] /\ UNCHANGED <<mode, tag, field, rep, data, steps, log>>
  BY Zenon DEF UpdateRoot, Idle, At, heapVars
<1>2. w = Root(o) /\ o \in Objs
  BY <1>1 DEF LockInv, WorkOK, Root, Gray, Segment
<1>3. o \in Prims /\ o \in Known
  BY <1>2, Constants DEF Known
<1>4. HeapTypes /\ JobOK(p)
  BY DEF LockInv
<1>5. pc' = [pc EXCEPT ![p] = "alloc"] /\ white' = [white EXCEPT ![p] = o]
  BY <1>3 DEF UpdateRoot, Give, To
<1>6. Moves(p) /\ pc'[p] = "alloc" /\ white'[p] = o /\ job'[p] = w
  BY <1>1, <1>3, <1>4, <1>5, KnownIs DEF Moves, HeapTypes, Labels, AllWords, Safe
<1>7. ~ Scans(p) /\ ~ Scans(p)' /\ ~ Writes(p)'
  BY <1>1, <1>4, <1>6 DEF Scans, Writes, JobOK, Root
<1>8. Known' = Known
  BY <1>1, KnownIs
<1>9. JobOK(p)' /\ ScanOK(p)' /\ WriteOK(p)'
  BY <1>1, <1>3, <1>6, <1>7, <1>8 DEF JobOK, ScanOK, WriteOK
<1>10. LogOK' /\ Stopped'
  BY <1>1, LogKeeps DEF LockInv
<1>11. BaseOK'
  <2>. SUFFICES ASSUME NEW q \in Procs
                PROVE  \/ tag[Base[q]] \in DOMAIN rep \/ Root(Base[q]) \in work'
                       \/ \E u \in Procs : pc'[u] \in Forwarding /\ white'[u] = Base[q]
    BY <1>1 DEF BaseOK
  <2>1. CASE Root(Base[q]) = w
    BY <1>2, <1>6, <2>1 DEF Root, Forwarding
  <2>2. CASE Root(Base[q]) # w /\ Root(Base[q]) \in work
    BY <1>1, <2>2
  <2>3. CASE tag[Base[q]] \in DOMAIN rep
    BY <2>3
  <2>4. ASSUME NEW u \in Procs, pc[u] \in Forwarding, white[u] = Base[q]
        PROVE  \E v \in Procs : pc'[v] \in Forwarding /\ white'[v] = Base[q]
    <3>1. u # p
      BY <1>1, <2>4 DEF Forwarding
    <3>. QED
      BY <1>4, <1>6, <2>4, <3>1, Others
  <2>. QED
    BY <2>1, <2>2, <2>3, <2>4 DEF LockInv, BaseOK
<1>. QED
  BY <1>1, <1>6, <1>7, <1>9, <1>10, <1>11, LocalLock

----------------------------------------------------------------------------
(* A scan goes on to its next step or to its next field.                   *)
LEMMA ScanGoes ==
  ASSUME LockInv, NEW p \in Procs, Moves(p), Scans(p), job[p].index <= job[p].last,
         \A r \in DOMAIN rep : Len(rep'[r].fields) = Len(rep[r].fields),
         \/ job'[p] = job[p] /\ pc'[p] \in {"forward", "store"} \cup Forwarding
         \/ job'[p] = [job[p] EXCEPT !.index = @ + 1] /\ pc'[p] = "field",
         pc'[p] \in Forwarding \cup {"store"} => white'[p] \in Known
  PROVE  /\ JobOK(p)' /\ ScanOK(p)' /\ WriteOK(p)' /\ Scans(p)'
         /\ job'[p].rep = job[p].rep /\ job'[p].last = job[p].last
<1>. PICK j, k : j = job[p] /\ k = job'[p]
  OBVIOUS
<1>1. mode' = mode /\ field' = field /\ DOMAIN rep' = DOMAIN rep
  BY DEF Moves
<1>2. Known' = Known
  BY <1>1, KnownIs
<1>3. JobOK(p) /\ ScanOK(p)
  BY DEF LockInv
<1>4. j = Scan(j.obj, j.rep, j.index, j.last) /\ j.rep \in DOMAIN rep /\ j.index \in Nat \ {0}
  BY <1>3 DEF ScanOK
<1>5. /\ k = Scan(j.obj, j.rep, k.index, j.last)
      /\ k.index = j.index \/ k.index = j.index + 1
      /\ k.index = j.index + 1 => pc'[p] = "field"
  <2>1. CASE k = j
    BY <1>4, <2>1
  <2>2. CASE k = [j EXCEPT !.index = @ + 1] /\ pc'[p] = "field"
    BY <1>4, <2>2 DEF Scan
  <2>. QED
    BY <2>1, <2>2
<1>6. /\ k.kind = "scan" /\ k.rep = j.rep /\ k.last = j.last /\ k.obj = j.obj
      /\ Scans(p)' /\ ~ Writes(p)'
  BY <1>5 DEF Scan, Scans, Writes
<1>7. IsLong(j.rep)' <=> IsLong(j.rep)
  BY <1>4, SameLong
<1>8. JobOK(p)' /\ WriteOK(p)'
  BY <1>2, <1>6 DEF JobOK, WriteOK, Forwarding
<1>9. /\ rep'[j.rep].src = rep[j.rep].src
      /\ Len(rep'[j.rep].fields) = Len(rep[j.rep].fields)
  BY <1>4 DEF Moves
<1>10. j.index <= j.last /\ j.last \in Int /\ j.index \in Int
  <2>1. Len(rep[j.rep].fields) \in Nat
    BY <1>4 DEF LockInv, RepTypes, Replica
  <2>. QED
    BY <1>3, <1>4, <2>1 DEF ScanOK
<1>11. ScanOK(p)'
  <2>1. /\ k.rep \in DOMAIN rep' /\ k.index \in Nat \ {0}
        /\ k.last \in 0 .. Len(rep'[k.rep].fields)
        /\ k.index <= k.last => mode = "copy" \/ k.obj = rep'[k.rep].src
    BY <1>1, <1>3, <1>4, <1>5, <1>6, <1>9, <1>10 DEF ScanOK
  <2>2. k.index <= k.last \/ (pc'[p] = "field" /\ k.index = k.last + 1)
    BY <1>4, <1>5, <1>6, <1>10
  <2>3. IF IsLong(k.rep) THEN k.last > 0 /\ k.index >= k.last
                         ELSE k.last = Len(rep'[k.rep].fields)
    BY <1>3, <1>4, <1>5, <1>6, <1>9, <1>10 DEF ScanOK
  <2>4. pc'[p] \in Forwarding \cup {"store", "field", "forward"}
    OBVIOUS
  <2>. QED
    BY <1>1, <1>2, <1>5, <1>6, <1>7, <2>1, <2>2, <2>3, <2>4 DEF ScanOK
<1>. QED
  BY <1>6, <1>8, <1>11

(* p stores a field of a replica that is not gray.                         *)
LEMMA FieldLock ==
  ASSUME LockInv, NEW p \in Procs, Moves(p), UNCHANGED <<work, log, steps>>,
         NEW r \in DOMAIN rep, ~ Unscanned(r), NEW i, NEW v \in AllWords, Safe(v),
         rep' = [rep EXCEPT ![r].fields[i] = v],
         JobOK(p)', ScanOK(p)', WriteOK(p)', Scans(p)' <=> Scans(p),
         Scans(p) => job'[p].rep = job[p].rep /\ job'[p].last = job[p].last,
         pc[p] \notin Forwarding, pc'[p] # "copier",
         pc'[p] = "store" /\ white'[p] \in Prims => tag[white'[p]] \in DOMAIN rep
  PROVE  LockInv'
<1>1. rep \in [DOMAIN rep -> Replica]
  BY DEF LockInv, RepTypes
<1>2. /\ DOMAIN rep' = DOMAIN rep /\ rep' \in [DOMAIN rep -> Replica]
      /\ \A x \in DOMAIN rep : x # r => rep'[x] = rep[x]
      /\ rep'[r].src = rep[r].src /\ rep'[r].tag = rep[r].tag /\ rep'[r].seg = rep[r].seg
      /\ Len(rep'[r].fields) = Len(rep[r].fields)
      /\ DOMAIN rep'[r].fields = DOMAIN rep[r].fields
      /\ i \in DOMAIN rep[r].fields => rep'[r].fields[i] = v
      /\ \A k \in DOMAIN rep[r].fields : k # i => rep'[r].fields[k] = rep[r].fields[k]
  <2>1. FieldSet(r, i, v)
    BY <1>1, SetField
  <2>. QED
    BY <2>1 DEF FieldSet
<1>3. mode' = mode /\ tag' = tag /\ field' = field
  BY DEF Moves
<1>4. Known' = Known /\ \A x : Safe(x)' <=> Safe(x)
  BY <1>3, KnownIs
<1>5. RepTypes'
  <2>. SUFFICES ASSUME NEW x \in DOMAIN rep
                PROVE  /\ rep'[x].src \in Known'
                       /\ Len(rep'[x].fields) = Len(field[rep'[x].src])
                       /\ Len(rep'[x].seg) = Len(field[rep'[x].src])
                       /\ \A k \in DOMAIN rep'[x].fields : Safe(rep'[x].fields[k])
    BY <1>2, <1>3, <1>4 DEF RepTypes
  <2>1. CASE x = r
    BY <1>2, <1>4, <2>1 DEF LockInv, RepTypes
  <2>2. CASE x # r
    BY <1>2, <1>4, <2>2 DEF LockInv, RepTypes
  <2>. QED
    BY <2>1, <2>2
<1>6. \A w \in work' : WorkOK(w)'
  BY <1>2, <1>3, <1>4 DEF LockInv, WorkOK
<1>7. LogOK' /\ Stopped'
  BY <1>3, LogKeeps DEF LockInv
<1>8. BaseOK'
  BY BaseKeeps
<1>9. \A q \in Procs : /\ Scans(q)' <=> Scans(q)
                       /\ Scans(q) => /\ job'[q].rep = job[q].rep
                                      /\ job'[q].last = job[q].last
  BY Others DEF Scans, LockInv
<1>10. \A x \in DOMAIN rep : Unscanned(x)' <=> Unscanned(x)
  BY DEF Unscanned, Moves
<1>11. \A q \in Procs : Scans(q) => job[q].rep \in DOMAIN rep
  BY DEF LockInv, ScanOK
<1>12. ScanOnce'
  <2>1. \A x \in DOMAIN rep : rep'[x].src = rep[x].src
    BY DEF Moves
  <2>2. \A x \in DOMAIN rep' : Unscanned(x)' =>
          /\ \A q \in Procs : Scans(q)' => job'[q].rep # x
          /\ \A k \in Nat : Segment(rep'[x].src, k) \notin work'
    BY <1>2, <1>9, <1>10, <2>1 DEF LockInv, ScanOnce
  <2>3. \A q, u \in Procs :
          Scans(q)' /\ Scans(u)' /\ job'[q].rep = job'[u].rep /\ job'[q].last = job'[u].last
            => q = u
    BY <1>9 DEF LockInv, ScanOnce
  <2>4. \A q \in Procs : Scans(q)' =>
          Segment(rep'[job'[q].rep].src, job'[q].last) \notin work'
    BY <1>9, <1>11, <2>1 DEF LockInv, ScanOnce
  <2>. QED
    BY <2>2, <2>3, <2>4 DEF ScanOnce
<1>13. StallOK'
  <2>1. \A x \in DOMAIN rep : (IsLong(x)' <=> IsLong(x)) /\ (Sync(x)' <=> Sync(x))
    BY SameLong
  <2>2. \A x \in DOMAIN rep : rep'[x].tag = rep[x].tag /\ rep'[x].seg = rep[x].seg
    BY <1>2
  <2>. QED
    BY <1>2, <1>9, <1>11, <2>1, <2>2 DEF LockInv, StallOK
<1>14. BackThere'
  <2>. SUFFICES ASSUME NEW x \in DOMAIN rep, mode # "copy", Unscanned(x), rep'[x].fields # <<>>
                PROVE  rep'[x].fields[1] = rep'[x].src
    BY <1>2, <1>3, <1>10 DEF BackThere
  <2>1. x # r
    OBVIOUS
  <2>. QED
    BY <1>2, <2>1 DEF LockInv, BackThere
<1>. QED
  BY <1>5, <1>6, <1>7, <1>8, <1>12, <1>13, <1>14, StepLock DEF Forwarding

(* What p scans, and the field it is at.                                   *)
LEMMA ScanIs ==
  ASSUME LockInv, NEW p \in Procs, Scans(p)
  PROVE  LET j == job[p]
             o == rep[j.rep].src IN
         /\ j = Scan(j.obj, j.rep, j.index, j.last) /\ j.kind = "scan" /\ ~ Writes(p)
         /\ j.rep \in DOMAIN rep /\ ~ Unscanned(j.rep) /\ o \in Known /\ o \in Prims
         /\ j.index \in Nat \ {0} /\ j.last \in Nat
         /\ j.last <= Len(rep[j.rep].fields)
         /\ rep[j.rep].fields \in Seq(AllWords)
         /\ field[o] \in Seq(Prims \cup {Nil}) /\ Len(field[o]) = Len(rep[j.rep].fields)
         /\ j.index <= j.last =>
              /\ j.index \in DOMAIN rep[j.rep].fields /\ j.index \in DOMAIN field[o]
              /\ field[o][j.index] \in Prims \cup {Nil} /\ Safe(field[o][j.index])
              /\ rep[j.rep].fields[j.index] \in AllWords
              /\ Safe(rep[j.rep].fields[j.index])
              /\ mode # "copy" => j.obj = o
<1>. PICK j, o : j = job[p] /\ o = rep[j.rep].src
  OBVIOUS
<1>1. ScanOK(p) /\ j.kind = "scan" /\ ~ Writes(p)
  BY DEF LockInv, Scans, Writes
<1>2. /\ j = Scan(j.obj, j.rep, j.index, j.last) /\ j.rep \in DOMAIN rep
      /\ j.index \in Nat \ {0} /\ j.last \in 0 .. Len(rep[j.rep].fields)
      /\ j.index <= j.last => mode = "copy" \/ j.obj = o
  BY <1>1 DEF ScanOK
<1>3. /\ rep[j.rep] \in Replica /\ o \in Known /\ Len(rep[j.rep].fields) = Len(field[o])
      /\ \A i \in DOMAIN rep[j.rep].fields : Safe(rep[j.rep].fields[i])
  BY <1>2 DEF LockInv, RepTypes
<1>4. o \in Prims
  BY <1>3, Constants DEF Known
<1>5. rep[j.rep].fields \in Seq(AllWords)
  BY <1>3 DEF Replica, AllWords
<1>6. /\ field[o] \in Seq(Prims \cup {Nil})
      /\ \A i \in DOMAIN field[o] : Safe(field[o][i])
  BY <1>4 DEF LockInv, HeapTypes
<1>7. ~ Unscanned(j.rep)
  BY <1>2 DEF LockInv, ScanOnce
<1>8. j.last \in Nat /\ j.last <= Len(rep[j.rep].fields)
  BY <1>2, <1>5
<1>9. j.index <= j.last => j.index \in DOMAIN rep[j.rep].fields /\ j.index \in DOMAIN field[o]
  BY <1>2, <1>3, <1>5, <1>6, <1>8
<1>10. j.index <= j.last => /\ rep[j.rep].fields[j.index] \in AllWords
                            /\ field[o][j.index] \in Prims \cup {Nil}
  BY <1>5, <1>6, <1>9
<1>. QED
  BY <1>1, <1>2, <1>3, <1>4, <1>5, <1>6, <1>7, <1>8, <1>9, <1>10

(* p copies a field of the primary to the replica.                         *)
LEMMA TransferFieldIs ==
  ASSUME LockInv, NEW p \in Procs, TransferField(p)
  PROVE  LET j == job[p]
             o == rep[j.rep].src IN
         /\ Scans(p) /\ j.index <= j.last /\ pc[p] = "field"
         /\ Moves(p) /\ pc'[p] = "forward" /\ job' = job /\ white' = white
         /\ UNCHANGED <<work, log, steps>>
         /\ IF mode = "copy" THEN rep' = rep
            ELSE /\ FieldSet(j.rep, j.index, field[o][j.index])
                 /\ rep' = [rep EXCEPT ![j.rep].fields[j.index] = field[o][j.index]]
<1>. PICK j, o, r, i : j = job[p] /\ r = j.rep /\ i = j.index /\ o = rep[r].src
  OBVIOUS
<1>1. /\ pc[p] = "field" /\ i <= j.last /\ pc' = [pc EXCEPT ![p] = "forward"]
      /\ UNCHANGED <<mode, tag, field, work, data, steps, log, job, white>>
      /\ rep' = IF mode = "copy" THEN rep
                ELSE [rep EXCEPT ![r].fields[i] = field[j.obj][i]]
  BY DEF TransferField, At, To
<1>2. Scans(p) /\ HeapTypes /\ rep \in [DOMAIN rep -> Replica]
  BY <1>1 DEF LockInv, JobOK, RepTypes
<1>3. /\ r \in DOMAIN rep
      /\ mode # "copy" => j.obj = o
      /\ field[o][i] \in Prims \cup {Nil}
  BY <1>1, <1>2, ScanIs
<1>4. CASE mode = "copy"
  <2>1. rep' = rep
    BY <1>1, <1>4
  <2>2. Moves(p) /\ pc'[p] = "forward"
    BY <1>1, <1>2, <2>1, Unmoved, KnownIs DEF Moves, HeapTypes, Labels
  <2>. QED
    BY <1>1, <1>2, <1>4, <2>1, <2>2
<1>5. CASE mode # "copy"
  <2>1. rep' = [rep EXCEPT ![r].fields[i] = field[o][i]]
    BY <1>1, <1>3, <1>5
  <2>. PICK v : v = field[o][i]
    OBVIOUS
  <2>2. v \in AllWords /\ rep' = [rep EXCEPT ![r].fields[i] = v]
    BY <1>3, <2>1 DEF AllWords
  <2>3. FieldSet(r, i, v)
    BY <1>2, <1>3, <2>2, SetField
  <2>4. DOMAIN rep' = DOMAIN rep /\ \A x \in DOMAIN rep : rep'[x].src = rep[x].src
    BY <2>3 DEF FieldSet
  <2>5. Moves(p) /\ pc'[p] = "forward"
    BY <1>1, <1>2, <2>4, Unmoved, KnownIs DEF Moves, HeapTypes, Labels
  <2>. QED
    BY <1>1, <1>2, <1>5, <2>1, <2>3, <2>5
<1>. QED
  BY <1>4, <1>5

LEMMA TransferFieldLock ==
  ASSUME LockInv, NEW p \in Procs, TransferField(p)
  PROVE  LockInv'
<1>. PICK j, o, r, i, v : /\ j = job[p] /\ r = j.rep /\ i = j.index /\ o = rep[r].src
                          /\ v = field[o][i]
  OBVIOUS
<1>1. /\ Scans(p) /\ i <= j.last /\ pc[p] = "field"
      /\ Moves(p) /\ pc'[p] = "forward" /\ job' = job /\ white' = white
      /\ UNCHANGED <<work, log, steps>>
      /\ mode = "copy" => rep' = rep
      /\ mode # "copy" => /\ FieldSet(r, i, v)
                          /\ rep' = [rep EXCEPT ![r].fields[i] = v]
  BY TransferFieldIs
<1>2. r \in DOMAIN rep /\ ~ Unscanned(r) /\ v \in AllWords /\ Safe(v)
  BY <1>1, ScanIs DEF AllWords
<1>3. \A x \in DOMAIN rep : Len(rep'[x].fields) = Len(rep[x].fields)
  BY <1>1 DEF FieldSet
<1>4. /\ JobOK(p)' /\ ScanOK(p)' /\ WriteOK(p)' /\ Scans(p)'
      /\ job'[p].rep = job[p].rep /\ job'[p].last = job[p].last
  BY <1>1, <1>3, ScanGoes DEF Forwarding
<1>5. CASE mode = "copy"
  <2>1. LogOK' /\ Stopped'
    BY <1>1, LogKeeps DEF LockInv, Moves
  <2>2. BaseOK'
    BY <1>1, BaseKeeps DEF Forwarding
  <2>. QED
    BY <1>1, <1>4, <1>5, <2>1, <2>2, LocalLock
<1>6. CASE mode # "copy"
  BY <1>1, <1>2, <1>4, <1>6, FieldLock, SMTT(30) DEF Forwarding
<1>. QED
  BY <1>5, <1>6

(* A scan is through with a field.                                         *)
LEMMA NextFieldIs ==
  ASSUME LockInv, NEW p \in Procs, pc' = [pc EXCEPT ![p] = "field"], NextField(p),
         UNCHANGED <<mode, tag, field, data, steps>>, DOMAIN rep' = DOMAIN rep,
         \A r \in DOMAIN rep : rep'[r].src = rep[r].src
  PROVE  /\ Moves(p) /\ pc'[p] = "field" /\ white'[p] = Nil
         /\ job'[p] = [job[p] EXCEPT !.index = @ + 1]
<1>. PICK j : j = [job[p] EXCEPT !.index = @ + 1]
  OBVIOUS
<1>1. job' = [job EXCEPT ![p] = j] /\ white' = [white EXCEPT ![p] = Nil]
  BY DEF NextField
<1>2. HeapTypes /\ Nil \in AllWords /\ Nil \notin Prims
  BY Constants DEF LockInv, AllWords
<1>3. job'[p] = j
  BY <1>1, <1>2 DEF HeapTypes
<1>. QED
  BY <1>1, <1>2, <1>3, KnownIs DEF Moves, HeapTypes, Labels, Safe

(* p looks at the pointer that it has copied.                              *)
LEMMA ForwardFieldIs ==
  ASSUME LockInv, NEW p \in Procs, ForwardField(p)
  PROVE  LET j == job[p]
             o == rep[j.rep].src
             self == Sync(j.rep) /\ field[o][j.index] = o
             old == rep[j.rep].fields[j.index]
             v == IF self THEN j.rep ELSE old IN
         /\ Scans(p) /\ j.index <= j.last /\ pc[p] = "forward" /\ Moves(p)
         /\ UNCHANGED <<work, log, steps>>
         /\ rep' = [rep EXCEPT ![j.rep].fields[j.index] = v]
         /\ FieldSet(j.rep, j.index, v) /\ v \in AllWords /\ Safe(v)
         /\ IF ~ self /\ old \in Prims
              THEN pc'[p] = "alloc" /\ job'[p] = j /\ white'[p] = old /\ old \in Known
              ELSE pc'[p] = "field" /\ job'[p] = [j EXCEPT !.index = @ + 1] /\ white'[p] = Nil
<1>. PICK j, o, r, i, old : /\ j = job[p] /\ r = j.rep /\ i = j.index /\ o = rep[r].src
                            /\ old = rep[r].fields[i]
  OBVIOUS
<1>. PICK self \in BOOLEAN : self <=> Sync(r) /\ field[o][i] = o
  OBVIOUS
<1>. PICK v : v = IF self THEN r ELSE old
  OBVIOUS
<1>1. pc[p] = "forward" /\ UNCHANGED <<mode, tag, field, work, data, steps, log>>
  BY Zenon DEF ForwardField, At
<1>2. Scans(p) /\ HeapTypes /\ rep \in [DOMAIN rep -> Replica] /\ ScanOK(p)
  BY <1>1 DEF LockInv, JobOK, RepTypes
<1>3. i <= j.last
  BY <1>1, <1>2 DEF ScanOK
<1>4. /\ r \in DOMAIN rep /\ old \in AllWords /\ Safe(old)
      /\ mode # "copy" => j.obj = o
  BY <1>2, <1>3, ScanIs
<1>5. self <=> Sync(r) /\ field[j.obj][i] = j.obj
  BY <1>4 DEF Sync
<1>6. rep' = [rep EXCEPT ![r].fields[i] = v]
  BY <1>5, Zenon DEF ForwardField
<1>7. v \in AllWords /\ Safe(v)
  <2>1. r \in Replicas
    BY <1>4 DEF LockInv, NamesOK
  <2>. QED
    BY <1>4, <2>1, Constants DEF AllWords, Safe
<1>8. FieldSet(r, i, v)
  BY <1>2, <1>4, <1>6, <1>7, SetField
<1>9. DOMAIN rep' = DOMAIN rep /\ \A x \in DOMAIN rep : rep'[x].src = rep[x].src
  BY <1>8 DEF FieldSet
<1>10. CASE ~ self /\ old \in Prims
  <2>1. /\ pc' = [pc EXCEPT ![p] = "alloc"] /\ white' = [white EXCEPT ![p] = old]
        /\ job' = job
    BY <1>5, <1>10 DEF ForwardField, Give, To
  <2>2. Moves(p) /\ pc'[p] = "alloc" /\ white'[p] = old
    BY <1>1, <1>2, <1>4, <1>9, <2>1, Unmoved, KnownIs DEF Moves, HeapTypes, Labels, Safe
  <2>. QED
    BY <1>1, <1>2, <1>3, <1>4, <1>6, <1>7, <1>8, <1>10, <2>1, <2>2 DEF Safe
<1>11. CASE ~ (~ self /\ old \in Prims)
  <2>1. pc' = [pc EXCEPT ![p] = "field"] /\ NextField(p)
    BY <1>5, <1>11, Zenon DEF ForwardField, To
  <2>2. /\ Moves(p) /\ pc'[p] = "field" /\ white'[p] = Nil
        /\ job'[p] = [j EXCEPT !.index = @ + 1]
    BY <1>1, <1>9, <2>1, NextFieldIs
  <2>. QED
    BY <1>1, <1>2, <1>3, <1>6, <1>7, <1>8, <1>11, <2>2
<1>. QED
  BY <1>10, <1>11

LEMMA ForwardFieldLock ==
  ASSUME LockInv, NEW p \in Procs, ForwardField(p)
  PROVE  LockInv'
<1>. PICK r, i : r = job[p].rep /\ i = job[p].index
  OBVIOUS
<1>1. PICK v : /\ Scans(p) /\ i <= job[p].last /\ pc[p] = "forward" /\ Moves(p)
               /\ UNCHANGED <<work, log, steps>>
               /\ rep' = [rep EXCEPT ![r].fields[i] = v]
               /\ FieldSet(r, i, v) /\ v \in AllWords /\ Safe(v)
               /\ \/ pc'[p] = "alloc" /\ job'[p] = job[p] /\ white'[p] \in Known
                  \/ pc'[p] = "field" /\ job'[p] = [job[p] EXCEPT !.index = @ + 1]
  BY ForwardFieldIs, Zenon
<1>2. r \in DOMAIN rep /\ ~ Unscanned(r)
  BY <1>1, ScanIs
<1>3. \A x \in DOMAIN rep : Len(rep'[x].fields) = Len(rep[x].fields)
  BY <1>1 DEF FieldSet
<1>4. /\ JobOK(p)' /\ ScanOK(p)' /\ WriteOK(p)' /\ Scans(p)'
      /\ job'[p].rep = job[p].rep /\ job'[p].last = job[p].last
  BY <1>1, <1>3, ScanGoes DEF Forwarding
<1>. QED
  BY <1>1, <1>2, <1>4, FieldLock DEF Forwarding

(* The location that held the pointer gets the replica.                    *)
LEMMA StoreReplicaIs ==
  ASSUME LockInv, NEW p \in Procs, StoreReplica(p)
  PROVE  LET j == job[p]
             r == IF Scans(p) THEN j.rep ELSE tag[j.obj]
             v == Image(white[p]) IN
         /\ (Scans(p) /\ j.index <= j.last) \/ Writes(p)
         /\ pc[p] = "store" /\ Moves(p) /\ UNCHANGED <<work, log, steps>>
         /\ r \in DOMAIN rep /\ ~ Unscanned(r)
         /\ rep' = [rep EXCEPT ![r].fields[j.index] = v]
         /\ FieldSet(r, j.index, v) /\ v \in AllWords /\ Safe(v)
         /\ IF Scans(p)
              THEN pc'[p] = "field" /\ job'[p] = [j EXCEPT !.index = @ + 1] /\ white'[p] = Nil
              ELSE pc'[p] \in {"mutator", "release"} /\ job'[p] = Root(Nil) /\ white'[p] = Nil
<1>. PICK j, r, i, v : /\ j = job[p] /\ i = j.index /\ v = Image(white[p])
                       /\ r = IF Scans(p) THEN j.rep ELSE tag[j.obj]
  OBVIOUS
<1>1. /\ pc[p] = "store" /\ UNCHANGED <<mode, tag, field, work, data, steps, log>>
      /\ rep' = [rep EXCEPT ![r].fields[i] = v]
      /\ IF Scans(p) THEN pc' = [pc EXCEPT ![p] = "field"] /\ NextField(p) ELSE Finish(p)
  BY DEF StoreReplica, At, To, Scans, Image
<1>2. /\ HeapTypes /\ rep \in [DOMAIN rep -> Replica] /\ (Scans(p) \/ Writes(p))
      /\ ScanOK(p) /\ WriteOK(p)
  BY <1>1 DEF LockInv, JobOK, RepTypes
<1>3. Scans(p) => i <= j.last
  BY <1>1, <1>2 DEF ScanOK
<1>4. r \in DOMAIN rep /\ ~ Unscanned(r)
  <2>1. CASE Scans(p)
    BY <2>1, ScanIs
  <2>2. CASE ~ Scans(p)
    BY <1>1, <1>2, <2>2 DEF WriteOK, Forwarding
  <2>. QED
    BY <2>1, <2>2
<1>5. v \in AllWords /\ Safe(v)
  <2>1. white[p] \in AllWords /\ Safe(white[p])
    BY <1>2 DEF HeapTypes
  <2>2. white[p] \in Prims => v \in DOMAIN rep
    BY <1>1 DEF LockInv, StoreOK, Image
  <2>3. v \in DOMAIN rep => v \in Replicas
    BY DEF LockInv, NamesOK
  <2>. QED
    BY <2>1, <2>2, <2>3, Constants DEF AllWords, Safe, Image
<1>6. FieldSet(r, i, v)
  BY <1>1, <1>2, <1>4, <1>5, SetField, Zenon
<1>7. DOMAIN rep' = DOMAIN rep /\ \A x \in DOMAIN rep : rep'[x].src = rep[x].src
  BY <1>6 DEF FieldSet
<1>8. CASE Scans(p)
  <2>1. /\ Moves(p) /\ pc'[p] = "field" /\ white'[p] = Nil
        /\ job'[p] = [j EXCEPT !.index = @ + 1]
    BY <1>1, <1>7, <1>8, NextFieldIs
  <2>. QED
    BY <1>1, <1>3, <1>4, <1>5, <1>6, <1>8, <2>1
<1>9. CASE ~ Scans(p)
  <2>1. /\ Moves(p) /\ pc'[p] \in {"mutator", "release"} /\ job'[p] = Root(Nil)
        /\ white'[p] = Nil
    BY <1>1, <1>2, <1>7, <1>9, FinishIs
  <2>. QED
    BY <1>1, <1>2, <1>4, <1>5, <1>6, <1>9, <2>1
<1>. QED
  BY <1>8, <1>9

LEMMA StoreReplicaLock ==
  ASSUME LockInv, NEW p \in Procs, StoreReplica(p)
  PROVE  LockInv'
<1>. PICK j, r, i, v : /\ j = job[p] /\ i = j.index /\ v = Image(white[p])
                       /\ r = IF Scans(p) THEN j.rep ELSE tag[j.obj]
  OBVIOUS
<1>1. /\ (Scans(p) /\ i <= j.last) \/ Writes(p)
      /\ pc[p] = "store" /\ Moves(p) /\ UNCHANGED <<work, log, steps>>
      /\ r \in DOMAIN rep /\ ~ Unscanned(r)
      /\ rep' = [rep EXCEPT ![r].fields[i] = v]
      /\ FieldSet(r, i, v) /\ v \in AllWords /\ Safe(v)
      /\ IF Scans(p)
           THEN pc'[p] = "field" /\ job'[p] = [j EXCEPT !.index = @ + 1]
           ELSE pc'[p] \in {"mutator", "release"} /\ job'[p] = Root(Nil) /\ white'[p] = Nil
  BY StoreReplicaIs
<1>2. \A x \in DOMAIN rep : Len(rep'[x].fields) = Len(rep[x].fields)
  BY <1>1 DEF FieldSet
<1>3. /\ JobOK(p)' /\ ScanOK(p)' /\ WriteOK(p)' /\ (Scans(p)' <=> Scans(p))
      /\ Scans(p) => job'[p].rep = job[p].rep /\ job'[p].last = job[p].last
      /\ pc'[p] \notin {"copier", "store"}
  <2>1. CASE Scans(p)
    <3>1. i <= j.last /\ pc'[p] = "field" /\ job'[p] = [j EXCEPT !.index = @ + 1]
      BY <1>1, <2>1 DEF Scans, Writes
    <3>. QED
      BY <1>1, <1>2, <2>1, <3>1, ScanGoes DEF Forwarding
  <2>2. CASE ~ Scans(p)
    BY <1>1, <2>2, DoneOK
  <2>. QED
    BY <2>1, <2>2
<1>. QED
  BY <1>1, <1>3, FieldLock DEF Forwarding

----------------------------------------------------------------------------
(* What a step that stores in replicas leaves true.                        *)
LEMMA RepKeeps ==
  ASSUME RepTypes, NEW p, Moves(p), rep' \in [DOMAIN rep -> Replica],
         \A x \in DOMAIN rep :
           /\ Len(rep'[x].fields) = Len(rep[x].fields) /\ Len(rep'[x].seg) = Len(rep[x].seg)
           /\ DOMAIN rep'[x].fields = DOMAIN rep[x].fields
           /\ \A k \in DOMAIN rep[x].fields :
                rep'[x].fields[k] = rep[x].fields[k] \/ Safe(rep'[x].fields[k])
  PROVE  RepTypes'
<1>1. Known' = Known /\ \A x : Safe(x)' <=> Safe(x)
  BY KnownIs DEF Moves
<1>. QED
  BY <1>1 DEF RepTypes, Moves

LEMMA WorkKeeps ==
  ASSUME LockInv, NEW p, Moves(p), NEW w \in work
  PROVE  WorkOK(w)'
<1>1. Known' = Known
  BY KnownIs DEF Moves
<1>. QED
  BY <1>1 DEF WorkOK, LockInv, Moves

(* The replica and the primary of a gray object.                           *)
LEMMA GrayIs ==
  ASSUME LockInv, NEW w \in work, w.kind = "gray"
  PROVE  LET r == GrayReplica(w.obj)
             o == rep[r].src IN
         /\ r \in DOMAIN rep /\ Unscanned(r) /\ w = Gray(w.obj) /\ o \in Known /\ o \in Prims
         /\ tag[o] = r /\ w \in {Gray(r), Gray(o)}
         /\ rep[r].fields \in Seq(AllWords) /\ Len(rep[r].fields) = Len(field[o])
         /\ field[o] \in Seq(Prims \cup {Nil})
         /\ mode # "copy" /\ rep[r].fields # <<>> => GrayPrimary(w.obj) = o
         /\ Gray(r) \in work => w = Gray(r)
         /\ Gray(o) \in work => w = Gray(o)
<1>. PICK x, r, o : x = w.obj /\ r = GrayReplica(x) /\ o = rep[r].src
  OBVIOUS
<1>1. /\ w = Gray(x)
      /\ IF mode = "primarySet" THEN x \in Known /\ tag[x] \in DOMAIN rep
                                ELSE x \in DOMAIN rep
  BY DEF LockInv, WorkOK, Root, Gray, Segment
<1>2. Known \subseteq Prims /\ \A y \in DOMAIN rep : y \notin Prims
  BY Constants DEF Known, LockInv, NamesOK
<1>3. /\ r \in DOMAIN rep
      /\ IF mode = "primarySet" THEN r = tag[x] /\ o = x ELSE r = x
  BY <1>1, <1>2 DEF GrayReplica, LockInv, NamesOK
<1>4. Unscanned(r) /\ w \in {Gray(r), Gray(o)}
  BY <1>1, <1>3 DEF Unscanned
<1>5. /\ rep[r] \in Replica /\ o \in Known /\ Len(rep[r].fields) = Len(field[o])
  BY <1>3 DEF LockInv, RepTypes
<1>6. o \in Prims /\ tag[o] = r
  BY <1>2, <1>3, <1>5 DEF LockInv, OneReplica
<1>7. rep[r].fields \in Seq(AllWords) /\ field[o] \in Seq(Prims \cup {Nil})
  BY <1>5, <1>6 DEF Replica, AllWords, LockInv, HeapTypes
<1>8. mode # "copy" /\ rep[r].fields # <<>> => GrayPrimary(x) = o
  BY <1>1, <1>2, <1>3, <1>4 DEF GrayPrimary, LockInv, BackThere
<1>9. ASSUME NEW y \in {r, o}, Gray(y) \in work
      PROVE  w = Gray(y)
  <2>1. IF mode = "primarySet" THEN y \in Known ELSE y \in DOMAIN rep
    BY <1>9 DEF LockInv, WorkOK, Root, Gray, Segment
  <2>. QED
    BY <1>1, <1>2, <1>3, <1>6, <2>1
<1>. QED
  BY <1>1, <1>3, <1>4, <1>5, <1>6, <1>7, <1>8, <1>9

(* A long array is broken up.                                              *)
LEMMA BreakUpIs ==
  ASSUME LockInv, NEW p \in Procs, NEW w \in work, BreakUp(p, w)
  PROVE  LET r == GrayReplica(w.obj)
             o == rep[r].src IN
         /\ w.kind = "gray" /\ mode # "copy" /\ o \in Segmented /\ IsLong(r)
         /\ pc[p] = "mutator" /\ UNCHANGED <<pc, job, white, log, steps>>
         /\ Moves(p) /\ FieldSet(r, 1, Cleared)
         /\ work' = (work \ {w}) \cup {Segment(o, i) : i \in DOMAIN rep[r].fields}
         /\ DOMAIN rep[r].fields = DOMAIN field[o] /\ 1 \in DOMAIN rep[r].fields
<1>. PICK r, o : r = GrayReplica(w.obj) /\ o = rep[r].src
  OBVIOUS
<1>1. /\ w.kind = "gray" /\ IsLong(r) /\ pc[p] = "mutator"
      /\ work' = (work \ {w}) \cup {Segment(GrayPrimary(w.obj), i) : i \in DOMAIN rep[r].fields}
      /\ rep' = [rep EXCEPT ![r].fields[1] = Cleared]
      /\ UNCHANGED <<mode, tag, field, data, steps, log, pc, job, white>>
  BY DEF BreakUp, Idle, At
<1>2. mode # "copy" /\ o \in Segmented
  BY <1>1 DEF IsLong
<1>3. /\ r \in DOMAIN rep /\ rep[r].fields \in Seq(AllWords) /\ Len(rep[r].fields) = Len(field[o])
      /\ field[o] \in Seq(Prims \cup {Nil})
      /\ rep[r].fields # <<>> => GrayPrimary(w.obj) = o
  BY <1>1, <1>2, GrayIs
<1>4. HeapTypes /\ rep \in [DOMAIN rep -> Replica]
  BY DEF LockInv, RepTypes
<1>5. Len(rep[r].fields) > 0
  <2>1. o \in Objs /\ Graph[o] # <<>> /\ Graph[o] \in Seq(Objs \cup {Nil})
    BY <1>2, Constants
  <2>2. Len(field[o]) = Len(Graph[o])
    BY <1>4, <2>1 DEF HeapTypes
  <2>. QED
    BY <1>3, <2>1, <2>2
<1>6. rep[r].fields # <<>> /\ DOMAIN rep[r].fields = DOMAIN field[o] /\ 1 \in DOMAIN rep[r].fields
  BY <1>3, <1>5
<1>7. FieldSet(r, 1, Cleared)
  <2>1. Cleared \in AllWords
    BY DEF AllWords
  <2>. QED
    BY <1>1, <1>3, <1>4, <2>1, SetField
<1>8. Moves(p)
  <2>1. DOMAIN rep' = DOMAIN rep /\ \A x \in DOMAIN rep : rep'[x].src = rep[x].src
    BY <1>7 DEF FieldSet
  <2>. QED
    BY <1>1, <1>4, <2>1, Unmoved, KnownIs DEF Moves, HeapTypes, Safe
<1>. QED
  BY <1>1, <1>2, <1>3, <1>6, <1>7, <1>8

LEMMA BreakUpLock ==
  ASSUME LockInv, NEW p \in Procs, NEW w \in work, BreakUp(p, w)
  PROVE  LockInv'
<1>. PICK r, o : r = GrayReplica(w.obj) /\ o = rep[r].src
  OBVIOUS
<1>1. /\ w.kind = "gray" /\ mode # "copy" /\ o \in Segmented /\ IsLong(r)
      /\ pc[p] = "mutator" /\ UNCHANGED <<pc, job, white, log, steps>>
      /\ Moves(p) /\ FieldSet(r, 1, Cleared)
      /\ work' = (work \ {w}) \cup {Segment(o, i) : i \in DOMAIN rep[r].fields}
      /\ DOMAIN rep[r].fields = DOMAIN field[o]
  BY BreakUpIs
<1>2. /\ r \in DOMAIN rep /\ Unscanned(r) /\ w \in {Gray(r), Gray(o)} /\ tag[o] = r
      /\ Gray(r) \in work => w = Gray(r)
      /\ Gray(o) \in work => w = Gray(o)
  BY <1>1, GrayIs
<1>3. mode' = mode /\ tag' = tag /\ field' = field /\ DOMAIN rep' = DOMAIN rep
  BY <1>1 DEF Moves
<1>4. \A x : Gray(x) \in work' => Gray(x) \in work /\ Gray(x) # w
  BY <1>1 DEF Gray, Segment
<1>5. \A x \in DOMAIN rep : Unscanned(x)' => Unscanned(x) /\ x # r
  BY <1>1, <1>2, <1>4 DEF Unscanned, Moves
<1>6. \A x, y \in DOMAIN rep : rep[x].src = rep[y].src => x = y
  BY DEF LockInv, OneReplica
<1>7. RepTypes'
  <2>1. Safe(Cleared) /\ RepTypes
    BY Constants DEF Safe, LockInv
  <2>. QED
    BY <1>1, <2>1, RepKeeps DEF FieldSet
<1>8. \A x \in work' : WorkOK(x)'
  <2>. SUFFICES ASSUME NEW i \in DOMAIN field[o] PROVE WorkOK(Segment(o, i))'
    BY <1>1, WorkKeeps
  <2>. QED
    BY <1>1, <1>2, <1>3 DEF WorkOK, Segment
<1>9. LogOK' /\ Stopped'
  BY <1>1, <1>3, LogKeeps DEF LockInv
<1>10. JobOK(p)' /\ ScanOK(p)' /\ WriteOK(p)' /\ ~ Scans(p)
  <2>1. job[p] = Root(Nil)
    BY <1>1 DEF LockInv, JobOK
  <2>. QED
    BY <1>1, <2>1, DoneOK DEF Scans, Root
<1>11. BaseOK'
  <2>1. \A x : Root(x) \in work => Root(x) \in work'
    BY <1>1, <1>2 DEF Root, Gray
  <2>. QED
    BY <1>1, <2>1, BaseKeeps DEF Forwarding
<1>12. ScanOnce'
  <2>1. \A q \in Procs : Scans(q) => job[q].rep \in DOMAIN rep /\ job[q].rep # r
    BY <1>2 DEF LockInv, ScanOnce, ScanOK
  <2>2. \A x \in DOMAIN rep : x # r => \A i : Segment(rep[x].src, i) \in work' =>
                                           Segment(rep[x].src, i) \in work
    BY <1>1, <1>2, <1>6 DEF Segment
  <2>3. \A x \in DOMAIN rep : rep'[x].src = rep[x].src
    BY <1>1 DEF Moves
  <2>4. \A q \in Procs : Scans(q)' <=> Scans(q)
    BY <1>1 DEF Scans
  <2>5. \A x \in DOMAIN rep' : Unscanned(x)' =>
          /\ \A q \in Procs : Scans(q)' => job'[q].rep # x
          /\ \A i \in Nat : Segment(rep'[x].src, i) \notin work'
    BY <1>1, <1>3, <1>5, <2>2, <2>3, <2>4 DEF LockInv, ScanOnce
  <2>6. \A q, u \in Procs :
          Scans(q)' /\ Scans(u)' /\ job'[q].rep = job'[u].rep /\ job'[q].last = job'[u].last
            => q = u
    BY <1>1, <2>4 DEF LockInv, ScanOnce
  <2>7. \A q \in Procs : Scans(q)' =>
          Segment(rep'[job'[q].rep].src, job'[q].last) \notin work'
    <3>. TAKE q \in Procs
    <3>. HAVE Scans(q)'
    <3>. PICK x, k : x = job[q].rep /\ k = job[q].last
      OBVIOUS
    <3>1. x \in DOMAIN rep /\ x # r /\ Segment(rep[x].src, k) \notin work
      BY <2>1, <2>4 DEF LockInv, ScanOnce
    <3>2. Segment(rep[x].src, k) \notin work'
      BY <2>2, <3>1
    <3>. QED
      BY <1>1, <2>3, <3>1, <3>2
  <2>. QED
    BY <2>5, <2>6, <2>7 DEF ScanOnce
<1>13. StallOK'
  <2>1. \A x \in DOMAIN rep : (IsLong(x)' <=> IsLong(x)) /\ (Sync(x)' <=> Sync(x))
    BY <1>1, SameLong
  <2>2. \A x \in DOMAIN rep : rep'[x].tag = rep[x].tag /\ rep'[x].seg = rep[x].seg
    BY <1>1 DEF FieldSet
  <2>3. \A q \in Procs : Scans(q) => job[q].rep \in DOMAIN rep
    BY DEF LockInv, ScanOK
  <2>4. \A q \in Procs : Scans(q)' <=> Scans(q)
    BY <1>1 DEF Scans
  <2>. QED
    BY <1>1, <1>3, <2>1, <2>2, <2>3, <2>4 DEF LockInv, StallOK
<1>14. BackThere'
  BY <1>1, <1>3, <1>5 DEF LockInv, BackThere, FieldSet
<1>15. pc[p] # "copier" /\ pc'[p] = "mutator"
  BY <1>1
<1>. QED
  BY <1>1, <1>4, <1>7, <1>8, <1>9, <1>10, <1>11, <1>12, <1>13, <1>14, <1>15, StepLock

(* A gray object that is not long is scanned.                              *)
LEMMA ScanObjectIs ==
  ASSUME LockInv, NEW p \in Procs, NEW w \in work, ScanObject(p, w)
  PROVE  LET r == GrayReplica(w.obj)
             o == rep[r].src IN
         /\ w.kind = "gray" /\ ~ IsLong(r) /\ pc[p] = "mutator" /\ pc'[p] = "field"
         /\ Moves(p) /\ UNCHANGED <<white, log, steps>> /\ work' = work \ {w}
         /\ job'[p] = Scan(GrayPrimary(w.obj), r, 1, Len(rep[r].fields))
         /\ TagSet(r, IF Sync(r) THEN Stall ELSE rep[r].tag)
<1>. PICK r, v, n : /\ r = GrayReplica(w.obj) /\ n = Len(rep[r].fields)
                    /\ v = IF Sync(r) THEN Stall ELSE rep[r].tag
  OBVIOUS
<1>. PICK j : j = Scan(GrayPrimary(w.obj), r, 1, n)
  OBVIOUS
<1>1. /\ w.kind = "gray" /\ ~ IsLong(r) /\ pc[p] = "mutator" /\ work' = work \ {w}
      /\ pc' = [pc EXCEPT ![p] = "field"] /\ job' = [job EXCEPT ![p] = j]
      /\ rep' = [rep EXCEPT ![r].tag = v]
      /\ UNCHANGED <<mode, tag, field, data, steps, log, white>>
  BY DEF ScanObject, Idle, At, To
<1>2. HeapTypes /\ rep \in [DOMAIN rep -> Replica]
  BY DEF LockInv, RepTypes
<1>3. r \in DOMAIN rep
  BY <1>1, GrayIs
<1>4. v \in {Orig, Stall}
  BY <1>2, <1>3 DEF Replica
<1>5. TagSet(r, v)
  BY <1>1, <1>2, <1>3, <1>4, SetTag
<1>6. DOMAIN rep' = DOMAIN rep /\ \A x \in DOMAIN rep : rep'[x].src = rep[x].src
  BY <1>5 DEF TagSet
<1>7. Moves(p) /\ pc'[p] = "field" /\ job'[p] = j
  BY <1>1, <1>2, <1>6, Unmoved, KnownIs DEF Moves, HeapTypes, Labels, Safe
<1>. QED
  BY <1>1, <1>5, <1>7

(* The start of a scan of r up to field n, which nobody else scans.        *)
LEMMA StartLock ==
  ASSUME LockInv, NEW p \in Procs, NEW w \in work, Moves(p), work' = work \ {w},
         pc[p] = "mutator", pc'[p] = "field", UNCHANGED <<log, steps>>,
         w.kind # "root", NEW o, NEW r \in DOMAIN rep, NEW i \in Nat \ {0}, NEW n \in Nat,
         job'[p] = Scan(o, r, i, n), n <= Len(rep[r].fields), i <= n \/ i = n + 1,
         i <= n => mode = "copy" \/ o = rep[r].src,
         IF IsLong(r) THEN n > 0 /\ i >= n ELSE n = Len(rep[r].fields),
         rep' \in [DOMAIN rep -> Replica],
         \A x \in DOMAIN rep :
           /\ rep'[x].fields = rep[x].fields
           /\ Len(rep'[x].seg) = Len(rep[x].seg)
           /\ x # r => rep'[x].tag = rep[x].tag /\ rep'[x].seg = rep[x].seg,
         IF IsLong(r) THEN /\ rep'[r].tag = rep[r].tag /\ rep'[r].seg[n] = Stall
                           /\ \A k \in DOMAIN rep[r].seg : k # n => rep'[r].seg[k] = rep[r].seg[k]
                      ELSE Sync(r) => rep'[r].tag = Stall,
         \A x : Unscanned(x)' => x # r,
         \A q \in Procs : Scans(q) => job[q].rep # r \/ job[q].last # n,
         ~ IsLong(r) => \A q \in Procs : Scans(q) => job[q].rep # r,
         Segment(rep[r].src, n) \notin work'
  PROVE  LockInv'
<1>. PICK j : j = job'[p]
  OBVIOUS
<1>1. mode' = mode /\ tag' = tag /\ field' = field /\ DOMAIN rep' = DOMAIN rep
  BY DEF Moves
<1>2. j.kind = "scan" /\ j.rep = r /\ j.index = i /\ j.last = n /\ j.obj = o /\ Scans(p)'
  BY DEF Scan, Scans
<1>3. \A q \in Procs : q # p => pc'[q] = pc[q] /\ job'[q] = job[q] /\ (Scans(q)' <=> Scans(q))
  BY Others DEF LockInv, Scans
<1>4. ~ Scans(p) /\ ~ Writes(p)'
  BY <1>2 DEF LockInv, JobOK, Scans, Writes, Root
<1>5. \A x \in DOMAIN rep : rep'[x].src = rep[x].src
  BY DEF Moves
<1>6. \A x \in DOMAIN rep : (IsLong(x)' <=> IsLong(x)) /\ (Sync(x)' <=> Sync(x))
  BY SameLong
<1>7. \A q \in Procs : Scans(q) => job[q].rep \in DOMAIN rep
  BY DEF LockInv, ScanOK
<1>8. RepTypes'
  BY RepKeeps DEF LockInv
<1>9. \A x \in work' : WorkOK(x)'
  BY WorkKeeps
<1>10. LogOK' /\ Stopped'
  BY <1>1, LogKeeps DEF LockInv
<1>11. JobOK(p)' /\ WriteOK(p)'
  BY <1>2, <1>4 DEF JobOK, WriteOK, Forwarding
<1>12. ScanOK(p)'
  <2>1. n \in 0 .. Len(rep'[r].fields)
    <3>1. rep[r].fields \in Seq(AllWords)
      BY DEF LockInv, RepTypes, Replica, AllWords
    <3>. QED
      BY <3>1
  <2>. QED
    BY <1>1, <1>2, <1>5, <1>6, <2>1 DEF ScanOK, Forwarding
<1>13. BaseOK'
  BY BaseKeeps DEF Forwarding, Root
<1>14. \A x \in DOMAIN rep : Unscanned(x)' => Unscanned(x)
  BY <1>5 DEF Unscanned
<1>15. ScanOnce'
  <2>1. \A x \in DOMAIN rep' : Unscanned(x)' =>
          /\ \A q \in Procs : Scans(q)' => job'[q].rep # x
          /\ \A k \in Nat : Segment(rep'[x].src, k) \notin work'
    BY <1>1, <1>2, <1>3, <1>5, <1>14 DEF LockInv, ScanOnce
  <2>2. \A q, u \in Procs :
          Scans(q)' /\ Scans(u)' /\ job'[q].rep = job'[u].rep /\ job'[q].last = job'[u].last
            => q = u
    BY <1>2, <1>3 DEF LockInv, ScanOnce
  <2>3. \A q \in Procs : Scans(q)' =>
          Segment(rep'[job'[q].rep].src, job'[q].last) \notin work'
    BY <1>2, <1>3, <1>5, <1>7 DEF LockInv, ScanOnce
  <2>. QED
    BY <2>1, <2>2, <2>3 DEF ScanOnce
<1>16. StallOK'
  <2>1. ASSUME NEW q \in Procs, Scans(q)'
        PROVE  IF IsLong(job'[q].rep) THEN rep'[job'[q].rep].seg[job'[q].last] = Stall
                                      ELSE Sync(job'[q].rep) => rep'[job'[q].rep].tag = Stall
    <3>1. CASE q = p
      BY <1>2, <3>1
    <3>2. CASE q # p
      <4>. PICK x, k : x = job[q].rep /\ k = job[q].last
        OBVIOUS
      <4>1. /\ Scans(q) /\ job'[q] = job[q] /\ x \in DOMAIN rep
            /\ IF IsLong(x) THEN rep[x].seg[k] = Stall ELSE Sync(x) => rep[x].tag = Stall
        BY <1>3, <1>7, <2>1, <3>2 DEF LockInv, StallOK
      <4>2. CASE x # r
        BY <4>1, <4>2
      <4>3. CASE x = r
        <5>1. IsLong(r) /\ k # n
          BY <4>1, <4>3
        <5>2. k \in DOMAIN rep[r].seg
          <6>1. k > 0 /\ k \in 0 .. Len(rep[r].fields)
            BY <4>1, <4>3, <5>1, Zenon DEF LockInv, ScanOK
          <6>2. Len(rep[r].fields) = Len(rep[r].seg) /\ rep[r] \in Replica
            BY DEF LockInv, RepTypes
          <6>3. rep[r].seg \in Seq({Proceed, Stall})
            BY <6>2 DEF Replica
          <6>. QED
            BY <6>1, <6>2, <6>3
        <5>. QED
          BY <4>1, <4>3, <5>1, <5>2
      <4>. QED
        BY <4>2, <4>3
    <3>. QED
      BY <3>1, <3>2
  <2>2. ASSUME NEW x \in DOMAIN rep, rep'[x].tag = Stall
        PROVE  \E q \in Procs : Scans(q)' /\ job'[q].rep = x /\ ~ IsLong(x)
    <3>1. CASE x = r /\ ~ IsLong(r)
      BY <1>2, <3>1
    <3>2. CASE x # r \/ IsLong(r)
      <4>1. rep[x].tag = Stall
        BY <2>2, <3>2
      <4>2. PICK q \in Procs : Scans(q) /\ job[q].rep = x /\ ~ IsLong(x)
        BY <4>1 DEF LockInv, StallOK
      <4>. QED
        BY <1>3, <1>4, <4>2
    <3>. QED
      BY <3>1, <3>2
  <2>3. \A q \in Procs : Scans(q)' => job'[q].rep \in DOMAIN rep
    BY <1>2, <1>3, <1>7
  <2>. QED
    BY <1>1, <1>6, <2>1, <2>2, <2>3 DEF StallOK
<1>17. BackThere'
  BY <1>1, <1>5, <1>14 DEF LockInv, BackThere
<1>18. \A x : Gray(x) \in work' => Gray(x) \in work
  OBVIOUS
<1>. QED
  BY <1>8, <1>9, <1>10, <1>11, <1>12, <1>13, <1>15, <1>16, <1>17, <1>18, StepLock

LEMMA ScanObjectLock ==
  ASSUME LockInv, NEW p \in Procs, NEW w \in work, ScanObject(p, w)
  PROVE  LockInv'
<1>. PICK r, o, n : r = GrayReplica(w.obj) /\ o = rep[r].src /\ n = Len(rep[r].fields)
  OBVIOUS
<1>. PICK g : g = GrayPrimary(w.obj)
  OBVIOUS
<1>1. /\ w.kind = "gray" /\ ~ IsLong(r) /\ pc[p] = "mutator" /\ pc'[p] = "field"
      /\ Moves(p) /\ UNCHANGED <<white, log, steps>> /\ work' = work \ {w}
      /\ job'[p] = Scan(g, r, 1, n)
      /\ TagSet(r, IF Sync(r) THEN Stall ELSE rep[r].tag)
  BY ScanObjectIs
<1>2. /\ r \in DOMAIN rep /\ Unscanned(r) /\ rep[r].fields \in Seq(AllWords)
      /\ mode # "copy" /\ rep[r].fields # <<>> => g = o
      /\ Gray(r) \in work => w = Gray(r)
      /\ Gray(o) \in work => w = Gray(o)
  BY <1>1, GrayIs
<1>3. n \in Nat /\ (1 <= n => rep[r].fields # <<>>) /\ (1 <= n \/ 1 = n + 1)
  BY <1>2
<1>4. /\ rep' \in [DOMAIN rep -> Replica]
      /\ \A x \in DOMAIN rep :
           /\ rep'[x].fields = rep[x].fields
           /\ Len(rep'[x].seg) = Len(rep[x].seg)
           /\ x # r => rep'[x].tag = rep[x].tag /\ rep'[x].seg = rep[x].seg
      /\ Sync(r) => rep'[r].tag = Stall
  BY <1>1, <1>2 DEF TagSet
<1>5. \A x : Unscanned(x)' => x # r
  BY <1>1, <1>2 DEF Unscanned, Moves
<1>6. /\ \A q \in Procs : Scans(q) => job[q].rep # r
      /\ Segment(o, n) \notin work'
  BY <1>1, <1>2, <1>3 DEF LockInv, ScanOnce
<1>. QED
  BY <1>1, <1>2, <1>3, <1>4, <1>5, <1>6, StartLock, SMTT(30)

(* A segment is scanned.                                                   *)
LEMMA ScanSegmentIs ==
  ASSUME LockInv, NEW p \in Procs, NEW w \in work, ScanSegment(p, w)
  PROVE  LET o == w.obj
             i == w.index
             r == tag[o] IN
         /\ w = Segment(o, i) /\ mode # "copy" /\ r \in DOMAIN rep /\ rep[r].src = o
         /\ IsLong(r) /\ i \in DOMAIN field[o] /\ i \in Nat \ {0}
         /\ i <= Len(rep[r].fields) /\ i \in DOMAIN rep[r].seg
         /\ pc[p] = "mutator" /\ pc'[p] = "field"
         /\ Moves(p) /\ UNCHANGED <<white, log, steps>> /\ work' = work \ {w}
         /\ job'[p] = Scan(o, r, i, i) /\ SegSet(r, i, Stall)
<1>. PICK o, i, r : o = w.obj /\ i = w.index /\ r = tag[o]
  OBVIOUS
<1>. PICK j : j = Scan(o, r, i, i)
  OBVIOUS
<1>1. /\ pc[p] = "mutator" /\ w.kind = "segment" /\ work' = work \ {w}
      /\ pc' = [pc EXCEPT ![p] = "field"] /\ job' = [job EXCEPT ![p] = j]
      /\ rep' = [rep EXCEPT ![r].seg[i] = Stall]
      /\ UNCHANGED <<mode, tag, field, data, steps, log, white>>
  BY DEF ScanSegment, Idle, At, To
<1>2. HeapTypes /\ rep \in [DOMAIN rep -> Replica]
  BY DEF LockInv, RepTypes
<1>3. /\ w = Segment(o, i) /\ mode # "copy" /\ o \in Segmented /\ r \in DOMAIN rep
      /\ i \in DOMAIN field[o]
  BY <1>1 DEF LockInv, WorkOK, Root, Gray, Segment
<1>4. o \in Prims /\ rep[r].src = o
  BY <1>3, Constants DEF LockInv, NamesOK
<1>5. IsLong(r)
  BY <1>3, <1>4 DEF IsLong
<1>6. /\ field[o] \in Seq(Prims \cup {Nil}) /\ Len(rep[r].fields) = Len(field[o])
      /\ Len(rep[r].seg) = Len(field[o]) /\ rep[r].seg \in Seq({Proceed, Stall})
      /\ rep[r].fields \in Seq(AllWords)
  BY <1>2, <1>3, <1>4 DEF HeapTypes, LockInv, RepTypes, Replica, AllWords
<1>7. i \in Nat \ {0} /\ i <= Len(rep[r].fields) /\ i \in DOMAIN rep[r].seg
  BY <1>3, <1>6
<1>8. SegSet(r, i, Stall)
  BY <1>1, <1>2, <1>3, SetSeg
<1>9. DOMAIN rep' = DOMAIN rep /\ \A x \in DOMAIN rep : rep'[x].src = rep[x].src
  BY <1>8 DEF SegSet
<1>10. Moves(p) /\ pc'[p] = "field" /\ job'[p] = j
  BY <1>1, <1>2, <1>9, Unmoved, KnownIs DEF Moves, HeapTypes, Labels, Safe
<1>. QED
  BY <1>1, <1>3, <1>4, <1>5, <1>7, <1>8, <1>10

LEMMA ScanSegmentLock ==
  ASSUME LockInv, NEW p \in Procs, NEW w \in work, ScanSegment(p, w)
  PROVE  LockInv'
<1>. PICK o, i, r : o = w.obj /\ i = w.index /\ r = tag[o]
  OBVIOUS
<1>1. /\ w = Segment(o, i) /\ r \in DOMAIN rep /\ rep[r].src = o
      /\ IsLong(r) /\ i \in Nat \ {0}
      /\ i <= Len(rep[r].fields) /\ i \in DOMAIN rep[r].seg
      /\ pc[p] = "mutator" /\ pc'[p] = "field"
      /\ Moves(p) /\ UNCHANGED <<white, log, steps>> /\ work' = work \ {w}
      /\ job'[p] = Scan(o, r, i, i) /\ SegSet(r, i, Stall)
  BY ScanSegmentIs
<1>2. /\ rep' \in [DOMAIN rep -> Replica]
      /\ \A x \in DOMAIN rep :
           /\ rep'[x].fields = rep[x].fields
           /\ Len(rep'[x].seg) = Len(rep[x].seg)
           /\ x # r => rep'[x].tag = rep[x].tag /\ rep'[x].seg = rep[x].seg
      /\ rep'[r].tag = rep[r].tag /\ rep'[r].seg[i] = Stall
      /\ \A k \in DOMAIN rep[r].seg : k # i => rep'[r].seg[k] = rep[r].seg[k]
  BY <1>1 DEF SegSet
<1>3. ~ Unscanned(r)
  BY <1>1 DEF LockInv, ScanOnce
<1>4. \A x : Unscanned(x)' => x # r
  BY <1>1, <1>3 DEF Unscanned, Moves
<1>5. \A q \in Procs : Scans(q) => job[q].rep # r \/ job[q].last # i
  BY <1>1 DEF LockInv, ScanOnce
<1>6. /\ Segment(o, i) \notin work' /\ w.kind # "root" /\ i > 0 /\ i >= i /\ i <= i
      /\ i \in Nat
  BY <1>1 DEF Segment
<1>7. /\ i <= i => mode = "copy" \/ o = rep[r].src
      /\ IF IsLong(r) THEN i > 0 /\ i >= i ELSE i = Len(rep[r].fields)
      /\ IF IsLong(r) THEN /\ rep'[r].tag = rep[r].tag /\ rep'[r].seg[i] = Stall
                           /\ \A k \in DOMAIN rep[r].seg :
                                k # i => rep'[r].seg[k] = rep[r].seg[k]
                      ELSE Sync(r) => rep'[r].tag = Stall
      /\ ~ IsLong(r) => \A q \in Procs : Scans(q) => job[q].rep # r
      /\ Segment(rep[r].src, i) \notin work'
      /\ i <= i \/ i = i + 1
  BY <1>1, <1>2, <1>6
<1>. QED
  BY ONLY LockInv, p \in Procs, w \in work, <1>1, <1>2, <1>4, <1>5, <1>6, <1>7, StartLock

(* A scan ends.                                                            *)
LEMMA ScanEndsIs ==
  ASSUME LockInv, NEW p \in Procs, ScanEnds(p)
  PROVE  LET r == job[p].rep
             n == job[p].last IN
         /\ Scans(p) /\ pc[p] = "field" /\ job[p].index > n
         /\ Moves(p) /\ UNCHANGED <<work, log, steps>>
         /\ pc'[p] \in {"mutator", "release"} /\ job'[p] = Root(Nil) /\ white'[p] = Nil
         /\ r \in DOMAIN rep
         /\ IF IsLong(r) THEN SegSet(r, n, Proceed) ELSE TagSet(r, Orig)
<1>. PICK r, n : r = job[p].rep /\ n = job[p].last
  OBVIOUS
<1>1. /\ pc[p] = "field" /\ job[p].index > n /\ Finish(p)
      /\ rep' = IF IsLong(r) THEN [rep EXCEPT ![r].seg[n] = Proceed]
                             ELSE [rep EXCEPT ![r].tag = Orig]
      /\ UNCHANGED <<mode, tag, field, work, data, steps, log>>
  BY DEF ScanEnds, At
<1>2. Scans(p) /\ HeapTypes /\ rep \in [DOMAIN rep -> Replica]
  BY <1>1 DEF LockInv, JobOK, RepTypes
<1>3. r \in DOMAIN rep
  BY <1>2, ScanIs
<1>4. IF IsLong(r) THEN SegSet(r, n, Proceed) ELSE TagSet(r, Orig)
  <2>1. CASE IsLong(r)
    BY <1>1, <1>2, <1>3, <2>1, SetSeg
  <2>2. CASE ~ IsLong(r)
    BY <1>1, <1>2, <1>3, <2>2, SetTag
  <2>. QED
    BY <2>1, <2>2
<1>5. DOMAIN rep' = DOMAIN rep /\ \A x \in DOMAIN rep : rep'[x].src = rep[x].src
  BY <1>4 DEF SegSet, TagSet
<1>6. /\ Moves(p) /\ pc'[p] \in {"mutator", "release"} /\ job'[p] = Root(Nil)
      /\ white'[p] = Nil
  BY <1>1, <1>2, <1>5, FinishIs
<1>. QED
  BY <1>1, <1>2, <1>3, <1>4, <1>6

LEMMA ScanEndsLock ==
  ASSUME LockInv, NEW p \in Procs, ScanEnds(p)
  PROVE  LockInv'
<1>. PICK r, n : r = job[p].rep /\ n = job[p].last
  OBVIOUS
<1>1. /\ Scans(p) /\ pc[p] = "field"
      /\ Moves(p) /\ UNCHANGED <<work, log, steps>>
      /\ pc'[p] \in {"mutator", "release"} /\ job'[p] = Root(Nil)
      /\ r \in DOMAIN rep
      /\ IF IsLong(r) THEN SegSet(r, n, Proceed) ELSE TagSet(r, Orig)
  BY ScanEndsIs
<1>2. /\ JobOK(p)' /\ ScanOK(p)' /\ WriteOK(p)' /\ ~ Scans(p)'
      /\ pc'[p] # "copier" /\ pc'[p] # "store"
  BY <1>1, DoneOK
<1>3. mode' = mode /\ tag' = tag /\ field' = field /\ DOMAIN rep' = DOMAIN rep
  BY <1>1 DEF Moves
<1>4. /\ rep' \in [DOMAIN rep -> Replica]
      /\ \A x \in DOMAIN rep :
           /\ rep'[x].src = rep[x].src /\ rep'[x].fields = rep[x].fields
           /\ Len(rep'[x].seg) = Len(rep[x].seg)
           /\ x # r => rep'[x].tag = rep[x].tag /\ rep'[x].seg = rep[x].seg
      /\ IF IsLong(r)
           THEN /\ rep'[r].tag = rep[r].tag
                /\ \A k \in DOMAIN rep[r].seg : k # n => rep'[r].seg[k] = rep[r].seg[k]
           ELSE rep'[r].tag = Orig /\ rep'[r].seg = rep[r].seg
  BY <1>1 DEF SegSet, TagSet
<1>5. RepTypes'
  BY <1>1, <1>4, RepKeeps DEF LockInv
<1>6. \A x \in work' : WorkOK(x)'
  BY <1>1, WorkKeeps
<1>7. LogOK' /\ Stopped'
  BY <1>1, <1>3, LogKeeps DEF LockInv
<1>8. BaseOK'
  BY <1>1, BaseKeeps DEF Forwarding
<1>9. \A q \in Procs : /\ Scans(q)' <=> Scans(q) /\ q # p
                       /\ q # p => job'[q] = job[q]
  BY <1>1, <1>2, Others DEF LockInv, Scans
<1>10. \A x \in DOMAIN rep : Unscanned(x)' <=> Unscanned(x)
  BY <1>1, <1>4 DEF Unscanned
<1>11. \A q \in Procs : Scans(q) => job[q].rep \in DOMAIN rep
  BY DEF LockInv, ScanOK
<1>12. ScanOnce'
  <2>1. \A x \in DOMAIN rep' : Unscanned(x)' =>
          /\ \A q \in Procs : Scans(q)' => job'[q].rep # x
          /\ \A k \in Nat : Segment(rep'[x].src, k) \notin work'
    BY <1>1, <1>3, <1>4, <1>9, <1>10 DEF LockInv, ScanOnce
  <2>2. \A q, u \in Procs :
          Scans(q)' /\ Scans(u)' /\ job'[q].rep = job'[u].rep /\ job'[q].last = job'[u].last
            => q = u
    BY <1>9 DEF LockInv, ScanOnce
  <2>3. \A q \in Procs : Scans(q)' =>
          Segment(rep'[job'[q].rep].src, job'[q].last) \notin work'
    BY <1>1, <1>4, <1>9, <1>11 DEF LockInv, ScanOnce
  <2>. QED
    BY <2>1, <2>2, <2>3 DEF ScanOnce
<1>13. StallOK'
  <2>1. \A x \in DOMAIN rep : (IsLong(x)' <=> IsLong(x)) /\ (Sync(x)' <=> Sync(x))
    BY <1>1, SameLong
  <2>2. ASSUME NEW q \in Procs, Scans(q)'
        PROVE  IF IsLong(job'[q].rep) THEN rep'[job'[q].rep].seg[job'[q].last] = Stall
                                      ELSE Sync(job'[q].rep) => rep'[job'[q].rep].tag = Stall
    <3>. PICK x, k : x = job[q].rep /\ k = job[q].last
      OBVIOUS
    <3>1. /\ Scans(q) /\ q # p /\ job'[q] = job[q] /\ x \in DOMAIN rep
          /\ IF IsLong(x) THEN rep[x].seg[k] = Stall ELSE Sync(x) => rep[x].tag = Stall
      BY <1>9, <1>11, <2>2 DEF LockInv, StallOK
    <3>2. x # r \/ k # n
      BY <1>1, <3>1 DEF LockInv, ScanOnce
    <3>3. CASE x # r
      BY <1>4, <3>1, <3>3
    <3>4. CASE x = r
      <4>1. ScanOK(q) /\ ScanOK(p)
        BY DEF LockInv
      <4>2. IsLong(r)
        BY <1>1, <3>1, <3>2, <3>4, <4>1 DEF ScanOK
      <4>3. k \in DOMAIN rep[r].seg
        <5>1. k > 0 /\ k \in 0 .. Len(rep[r].fields)
          BY <3>1, <3>4, <4>1, <4>2 DEF ScanOK
        <5>2. Len(rep[r].fields) = Len(rep[r].seg) /\ rep[r] \in Replica
          BY <1>1 DEF LockInv, RepTypes
        <5>3. rep[r].seg \in Seq({Proceed, Stall})
          BY <5>2 DEF Replica
        <5>. QED
          BY <5>1, <5>2, <5>3
      <4>. QED
        BY <1>4, <3>1, <3>2, <3>4, <4>2, <4>3
    <3>. QED
      BY <3>3, <3>4
  <2>3. ASSUME NEW x \in DOMAIN rep, rep'[x].tag = Stall
        PROVE  \E q \in Procs : Scans(q)' /\ job'[q].rep = x /\ ~ IsLong(x)
    <3>1. rep[x].tag = Stall /\ (x # r \/ IsLong(r))
      BY <1>4, <2>3, Constants
    <3>2. PICK q \in Procs : Scans(q) /\ job[q].rep = x /\ ~ IsLong(x)
      BY <3>1 DEF LockInv, StallOK
    <3>3. q # p
      BY <3>1, <3>2
    <3>. QED
      BY <1>9, <3>2, <3>3
  <2>. QED
    BY <1>3, <1>9, <1>11, <2>1, <2>2, <2>3 DEF StallOK
<1>14. BackThere'
  BY <1>3, <1>4, <1>10 DEF LockInv, BackThere
<1>15. pc[p] # "copier" /\ \A x : Gray(x) \in work' => Gray(x) \in work
  BY <1>1
<1>. QED
  BY <1>1, <1>2, <1>5, <1>6, <1>7, <1>8, <1>12, <1>13, <1>14, <1>15, StepLock

----------------------------------------------------------------------------
(* The swap of STALL_TAG for the tag that was read.                        *)
LEMMA OwnLock ==
  ASSUME LockInv, NEW p \in Procs, Own(p)
  PROVE  LockInv'
<1>. PICK o : o = white[p]
  OBVIOUS
<1>1. /\ pc[p] = "own" /\ UNCHANGED <<mode, field, rep, work, data, steps, log, job, white>>
  BY DEF Own, At
<1>2. HeapTypes /\ JobOK(p) /\ pc \in [Procs -> Labels] /\ DOMAIN tag = Prims
  BY DEF LockInv, HeapTypes
<1>3. o \in Known /\ o \in Prims
  BY <1>1, <1>2, Constants DEF JobOK, Forwarding, Known
<1>4. CASE tag[o] # Orig
  <2>1. pc' = [pc EXCEPT ![p] = "alloc"]
    BY <1>4 DEF Own, To
  <2>2. tag' = tag
    <3>1. tag' = [tag EXCEPT ![o] = tag[o]]
      BY <1>4 DEF Own
    <3>. QED
      BY <1>2, <1>3, <3>1 DEF HeapTypes
  <2>. QED
    BY <1>1, <1>2, <2>1, <2>2, HoldLock
<1>5. CASE tag[o] = Orig
  <2>1. /\ pc' = [pc EXCEPT ![p] = "copier"] /\ tag' = [tag EXCEPT ![o] = Stall]
    BY <1>5 DEF Own, To
  <2>2. /\ pc'[p] = "copier" /\ \A q \in Procs : q # p => pc'[q] = pc[q]
        /\ tag'[o] = Stall /\ \A x \in Prims : x # o => tag'[x] = tag[x]
        /\ pc' \in [Procs -> Labels] /\ tag' \in [Prims -> {Orig, Stall} \cup DOMAIN rep]
    BY <1>2, <1>3, <2>1 DEF HeapTypes, Labels
  <2>3. Orig \notin DOMAIN rep /\ Stall \notin DOMAIN rep /\ Orig # Stall
    BY Constants DEF LockInv, NamesOK
  <2>4. \A x \in Prims : tag[x] \in DOMAIN rep <=> tag'[x] \in DOMAIN rep
    BY <1>5, <2>2, <2>3
  <2>5. \A x \in Prims : tag[x] \in DOMAIN rep => tag'[x] = tag[x]
    BY <1>5, <2>2, <2>3
  <2>6. Known' = Known /\ \A x : Safe(x)' <=> Safe(x)
    BY <1>1, KnownIs
  <2>7. HeapTypes' /\ RepTypes'
    BY <1>1, <2>2, <2>6 DEF LockInv, HeapTypes, RepTypes
  <2>8. Known \subseteq Prims /\ Segmented \subseteq Prims /\ Base \in [Procs -> Prims]
    BY Constants DEF Known
  <2>9. NamesOK' /\ OneReplica'
    <3>1. \A r \in DOMAIN rep : rep[r].src \in Prims /\ tag[rep[r].src] = r
      BY <2>8 DEF LockInv, RepTypes, OneReplica
    <3>. QED
      BY <1>1, <2>4, <2>5, <3>1 DEF LockInv, NamesOK, OneReplica, Copies
  <2>10. \A w \in work' : WorkOK(w)'
    BY <1>1, <2>4, <2>6, <2>8 DEF LockInv, WorkOK
  <2>11. LogOK' /\ Stopped'
    BY <1>1, LogKeeps DEF LockInv
  <2>12. \A r \in DOMAIN rep : (IsLong(r)' <=> IsLong(r)) /\ (Sync(r)' <=> Sync(r))
    BY <1>1 DEF IsLong, Sync
  <2>13. \A q \in Procs : (Scans(q)' <=> Scans(q)) /\ (Writes(q)' <=> Writes(q))
    BY <1>1 DEF Scans, Writes
  <2>14. \A r : Unscanned(r)' <=> Unscanned(r)
    BY <1>1 DEF Unscanned
  <2>15. ASSUME NEW q \in Procs
         PROVE  JobOK(q)' /\ ScanOK(q)' /\ WriteOK(q)'
    <3>1. JobOK(q) /\ ScanOK(q) /\ WriteOK(q)
      BY DEF LockInv
    <3>2. JobOK(q)'
      <4>1. \A x : IsWrite(q, x)' <=> IsWrite(q, x)
        BY <2>6 DEF IsWrite
      <4>. QED
        BY <1>1, <1>3, <2>2, <2>6, <2>13, <3>1, <4>1 DEF JobOK, Forwarding
    <3>3. ScanOK(q)'
      <4>1. Scans(q) => job[q].rep \in DOMAIN rep
        BY <3>1 DEF ScanOK
      <4>2. Scans(q) => (IsLong(job[q].rep)' <=> IsLong(job[q].rep))
        BY <1>1, <4>1 DEF IsLong
      <4>3. IF q = p THEN pc[q] = "own" /\ pc'[q] = "copier" ELSE pc'[q] = pc[q]
        BY <1>1, <2>2
      <4>. QED
        BY <1>1, <2>6, <2>13, <3>1, <4>2, <4>3 DEF ScanOK, Forwarding
    <3>4. WriteOK(q)'
      <4>1. Writes(q) => job[q].obj \in Prims
        BY WriteIs
      <4>2. IF q = p THEN pc[q] = "own" /\ pc'[q] = "copier" ELSE pc'[q] = pc[q]
        BY <1>1, <2>2
      <4>. QED
        BY <1>1, <2>4, <2>5, <2>13, <2>14, <3>1, <4>1, <4>2 DEF WriteOK, Forwarding
    <3>. QED
      BY <3>2, <3>3, <3>4
  <2>16. CopierOK'
    <3>1. \A q \in Procs : q # p /\ pc[q] = "copier" => white[q] # o
      BY <1>5, <2>3 DEF LockInv, CopierOK
    <3>2. \A q \in Procs : pc[q] = "copier" => white[q] \in Prims
      BY <2>8 DEF LockInv, JobOK, Forwarding
    <3>3. \A x \in Prims : tag'[x] = Stall => \E q \in Procs : pc'[q] = "copier" /\ white[q] = x
      <4>. TAKE x \in Prims
      <4>. HAVE tag'[x] = Stall
      <4>1. CASE x = o
        BY <2>2, <4>1
      <4>2. CASE x # o
        <5>1. PICK q \in Procs : pc[q] = "copier" /\ white[q] = x
          BY <2>2, <4>2 DEF LockInv, CopierOK
        <5>. QED
          BY <1>1, <2>2, <5>1
      <4>. QED
        BY <4>1, <4>2
    <3>. QED
      BY <1>1, <2>2, <3>1, <3>2, <3>3 DEF LockInv, CopierOK
  <2>17. BaseOK'
    BY <1>1, <2>2, <2>4, <2>8 DEF LockInv, BaseOK, Forwarding
  <2>18. ScanOnce' /\ BackThere'
    BY <1>1, <2>13, <2>14 DEF LockInv, ScanOnce, BackThere
  <2>19. StallOK'
    BY <1>1, <2>12, <2>13 DEF LockInv, StallOK, ScanOK
  <2>20. StoreOK'
    BY <1>1, <2>2, <2>4 DEF LockInv, StoreOK
  <2>. QED
    BY <2>7, <2>9, <2>10, <2>11, <2>15, <2>16, <2>17, <2>18, <2>19, <2>20 DEF LockInv
<1>. QED
  BY <1>4, <1>5

(* The copier fills a replica, publishes it, and grays the object.         *)
LEMMA CopyIs ==
  ASSUME LockInv, NEW p \in Procs, Copy(p)
  PROVE  LET o == white[p]
             r == <<p, Cardinality(Copies(p)) + 1>> IN
         /\ pc[p] = "copier" /\ o \in Known /\ o \in Prims /\ tag[o] = Stall
         /\ r \notin DOMAIN rep /\ r \in Replicas /\ NamesOK'
         /\ DOMAIN rep' = DOMAIN rep \cup {r} /\ rep' \in [DOMAIN rep' -> Replica]
         /\ \A x \in DOMAIN rep : rep'[x] = rep[x] /\ rep[x].src # o
         /\ rep'[r].src = o /\ rep'[r].tag = Orig /\ rep'[r].fields = NewFields(o)
         /\ Len(rep'[r].seg) = Len(field[o]) /\ Len(rep'[r].fields) = Len(field[o])
         /\ rep'[r].fields \in Seq(AllWords)
         /\ \A i \in DOMAIN rep'[r].fields : Safe(rep'[r].fields[i])
         /\ mode # "copy" /\ rep'[r].fields # <<>> => rep'[r].fields[1] = o
         /\ tag' = [tag EXCEPT ![o] = r] /\ tag' \in [Prims -> {Orig, Stall} \cup DOMAIN rep']
         /\ tag'[o] = r /\ \A x \in Prims : x # o => tag'[x] = tag[x]
         /\ work' = work \cup {Gray(IF mode = "primarySet" THEN o ELSE r)}
         /\ UNCHANGED <<mode, field, data, steps, log>>
         /\ IF Scans(p) \/ Writes(p)
              THEN /\ pc' = [pc EXCEPT ![p] = "store"] /\ UNCHANGED <<job, white>>
              ELSE Finish(p)
<1>. PICK o, c : o = white[p] /\ c = Cardinality(Copies(p)) + 1
  OBVIOUS
<1>. PICK r : r = <<p, c>>
  OBVIOUS
<1>. PICK s, f : s = [i \in DOMAIN field[o] |-> Proceed] /\ f = NewFields(o)
  OBVIOUS
<1>. PICK new : new = [src |-> o, tag |-> Orig, seg |-> s, fields |-> f]
  OBVIOUS
<1>1. /\ pc[p] = "copier"
      /\ rep' = [x \in DOMAIN rep \cup {r} |-> IF x = r THEN new ELSE rep[x]]
      /\ tag' = [tag EXCEPT ![o] = r]
      /\ work' = work \cup {Gray(IF mode = "primarySet" THEN o ELSE r)}
      /\ UNCHANGED <<mode, field, data, steps, log>> /\ Forwarded(p)
  BY DEF Copy, At, Copies
<1>2. HeapTypes /\ JobOK(p) /\ NamesOK /\ rep \in [DOMAIN rep -> Replica]
  BY DEF LockInv, RepTypes
<1>3. o \in Known /\ o \in Prims /\ tag[o] = Stall
  BY <1>1, <1>2, Constants DEF JobOK, Forwarding, Known, LockInv, CopierOK
<1>. PICK D : D = DOMAIN rep \cup {r}
  OBVIOUS
<1>4. /\ r \in Replicas /\ r \notin DOMAIN rep /\ IsFiniteSet(D) /\ D \subseteq Replicas
      /\ \A x \in D : x[2] <= Cardinality({y \in D : y[1] = x[1]})
  BY <1>2, NewName, SMTT(30)
<1>5. field[o] \in Seq(Prims \cup {Nil}) /\ \A i \in DOMAIN field[o] : Safe(field[o][i])
  BY <1>2, <1>3 DEF HeapTypes
<1>6. /\ s \in Seq({Proceed, Stall}) /\ Len(s) = Len(field[o])
  BY <1>5
<1>7. /\ f \in Seq(AllWords) /\ Len(f) = Len(field[o]) /\ \A i \in DOMAIN f : Safe(f[i])
      /\ mode # "copy" /\ f # <<>> => f[1] = o
  <2>1. CASE mode = "copy"
    <3>1. f = field[o]
      BY <2>1 DEF NewFields
    <3>. QED
      BY <1>5, <2>1, <3>1 DEF AllWords
  <2>2. CASE mode # "copy"
    <3>1. f = [i \in DOMAIN field[o] |-> IF i = 1 THEN o ELSE Cleared]
      BY <2>2 DEF NewFields
    <3>2. o \in AllWords /\ Cleared \in AllWords /\ Safe(o) /\ Safe(Cleared)
      BY <1>3, Constants DEF AllWords, Safe
    <3>3. f \in Seq(AllWords) /\ Len(f) = Len(field[o])
      <4>. PICK m : m = Len(field[o])
        OBVIOUS
      <4>1. m \in Nat /\ DOMAIN field[o] = 1 .. m
        BY <1>5
      <4>2. f \in [1 .. m -> AllWords] /\ DOMAIN f = 1 .. m
        BY <3>1, <3>2, <4>1
      <4>3. f \in Seq(AllWords)
        BY ONLY <4>1, <4>2, SeqDef
      <4>. QED
        BY <4>1, <4>2, <4>3
    <3>4. \A i \in DOMAIN f : Safe(f[i])
      BY <3>1, <3>2
    <3>5. f # <<>> => f[1] = o
      BY <1>5, <3>1, <3>3
    <3>. QED
      BY <3>3, <3>4, <3>5
  <2>. QED
    BY <2>1, <2>2
<1>8. new \in Replica
  BY <1>3, <1>6, <1>7 DEF Replica, AllWords
<1>9. /\ DOMAIN rep' = D /\ rep'[r] = new /\ \A x \in DOMAIN rep : rep'[x] = rep[x]
      /\ rep' \in [D -> Replica]
  BY <1>1, <1>2, <1>4, <1>8
<1>10. \A x \in DOMAIN rep : rep[x].src # o
  <2>1. Stall \notin DOMAIN rep
    BY <1>2, Constants DEF NamesOK
  <2>. QED
    BY <1>3, <2>1 DEF LockInv, OneReplica
<1>11. /\ tag' \in [Prims -> {Orig, Stall} \cup D]
       /\ tag'[o] = r /\ \A x \in Prims : x # o => tag'[x] = tag[x]
  BY <1>1, <1>2, <1>3 DEF HeapTypes
<1>12. NamesOK'
  <2>1. \A x \in Prims : tag'[x] \in D => rep'[tag'[x]].src = x
    <3>. TAKE x \in Prims
    <3>. HAVE tag'[x] \in D
    <3>1. CASE x = o
      BY <1>9, <1>11, <3>1
    <3>2. CASE x # o
      <4>1. tag[x] \in {Orig, Stall} \cup DOMAIN rep /\ tag'[x] = tag[x] /\ tag[x] # r
        <5>1. r \notin {Orig, Stall}
          BY <1>4, Constants
        <5>2. tag[x] \in {Orig, Stall} \cup DOMAIN rep
          BY <1>2 DEF HeapTypes
        <5>3. tag'[x] = tag[x]
          BY <1>11, <3>2
        <5>. QED
          BY ONLY <1>4, <5>1, <5>2, <5>3
      <4>. QED
        BY <1>2, <1>9, <4>1 DEF NamesOK
    <3>. QED
      BY <3>1, <3>2
  <2>. QED
    BY <1>4, <1>9, <2>1 DEF NamesOK, Copies
<1>13. IF Scans(p) \/ Writes(p)
         THEN /\ pc' = [pc EXCEPT ![p] = "store"] /\ UNCHANGED <<job, white>>
         ELSE Finish(p)
  BY <1>1 DEF Forwarded, Scans, Writes, To
<1>. QED
  BY <1>1, <1>3, <1>4, <1>6, <1>7, <1>9, <1>10, <1>11, <1>12, <1>13

LEMMA CopyLock ==
  ASSUME LockInv, NEW p \in Procs, Copy(p)
  PROVE  LockInv'
<1>. PICK o, r : o = white[p] /\ r = <<p, Cardinality(Copies(p)) + 1>>
  OBVIOUS
<1>1. /\ pc[p] = "copier" /\ o \in Known /\ o \in Prims /\ tag[o] = Stall
      /\ r \notin DOMAIN rep /\ r \in Replicas /\ NamesOK'
      /\ DOMAIN rep' = DOMAIN rep \cup {r} /\ rep' \in [DOMAIN rep' -> Replica]
      /\ \A x \in DOMAIN rep : rep'[x] = rep[x] /\ rep[x].src # o
      /\ rep'[r].src = o /\ rep'[r].tag = Orig
      /\ Len(rep'[r].seg) = Len(field[o]) /\ Len(rep'[r].fields) = Len(field[o])
      /\ \A i \in DOMAIN rep'[r].fields : Safe(rep'[r].fields[i])
      /\ mode # "copy" /\ rep'[r].fields # <<>> => rep'[r].fields[1] = o
      /\ tag' \in [Prims -> {Orig, Stall} \cup DOMAIN rep']
      /\ tag'[o] = r /\ \A x \in Prims : x # o => tag'[x] = tag[x]
      /\ work' = work \cup {Gray(IF mode = "primarySet" THEN o ELSE r)}
      /\ UNCHANGED <<mode, field, data, steps, log>>
      /\ IF Scans(p) \/ Writes(p)
           THEN /\ pc' = [pc EXCEPT ![p] = "store"] /\ UNCHANGED <<job, white>>
           ELSE Finish(p)
  BY CopyIs, Zenon
<1>2. /\ HeapTypes /\ JobOK(p) /\ WriteOK(p)
      /\ pc \in [Procs -> Labels] /\ white \in [Procs -> AllWords]
      /\ DOMAIN job = Procs /\ job = [q \in Procs |-> job[q]]
      /\ \A q \in Procs : Safe(white[q])
  BY DEF LockInv, HeapTypes
<1>3. Known' = Known /\ \A x : Safe(x)' <=> Safe(x)
  BY <1>1, KnownIs
<1>4. /\ pc' \in [Procs -> Labels] /\ white' \in [Procs -> AllWords]
      /\ DOMAIN job' = Procs /\ job' = [q \in Procs |-> job'[q]]
      /\ \A q \in Procs : q # p => pc'[q] = pc[q] /\ job'[q] = job[q] /\ white'[q] = white[q]
      /\ IF Scans(p) \/ Writes(p)
           THEN pc'[p] = "store" /\ job'[p] = job[p] /\ white'[p] = o
           ELSE pc'[p] \in {"mutator", "release"} /\ job'[p] = Root(Nil) /\ white'[p] = Nil
  <2>1. CASE Scans(p) \/ Writes(p)
    BY <1>1, <1>2, <2>1 DEF Labels
  <2>2. CASE ~ (Scans(p) \/ Writes(p))
    <3>1. Nil \in AllWords
      BY DEF AllWords
    <3>. PICK c \in {"mutator", "release"} : pc' = [pc EXCEPT ![p] = c]
      BY <1>1, <2>2 DEF Finish, To
    <3>2. job' = [job EXCEPT ![p] = Root(Nil)] /\ white' = [white EXCEPT ![p] = Nil]
      BY <1>1, <2>2 DEF Finish
    <3>. QED
      BY <1>2, <2>2, <3>1, <3>2 DEF Labels
  <2>. QED
    BY <2>1, <2>2
<1>5. \A q \in Procs : Safe(white'[q])
  <2>. TAKE q \in Procs
  <2>1. Nil \notin Prims
    BY Constants
  <2>. QED
    BY <1>1, <1>2, <1>4, <2>1 DEF Safe
<1>6. HeapTypes'
  BY <1>1, <1>2, <1>3, <1>4, <1>5 DEF HeapTypes
<1>7. /\ Stall \notin DOMAIN rep /\ r \notin Prims /\ \A x \in DOMAIN rep : x \notin Prims
      /\ Known \subseteq Prims /\ Base \in [Procs -> Prims] /\ Segmented \subseteq Prims
      /\ Orig # Stall
  BY <1>1, Constants DEF LockInv, NamesOK, Known
<1>8. \A x \in Prims : tag[x] \in DOMAIN rep => tag'[x] = tag[x] /\ tag'[x] \in DOMAIN rep'
  BY <1>1, <1>7
<1>9. \A x \in DOMAIN rep : x \in DOMAIN rep' /\ (IsLong(x)' <=> IsLong(x))
                                              /\ (Sync(x)' <=> Sync(x))
  BY <1>1 DEF IsLong, Sync
<1>10. \A x \in DOMAIN rep : rep[x].src \in Prims /\ tag[rep[x].src] = x
  BY <1>7 DEF LockInv, RepTypes, OneReplica
<1>11. \A x \in DOMAIN rep : Unscanned(x)' <=> Unscanned(x)
  BY <1>1, <1>7, <1>10 DEF Unscanned, Gray
<1>12. RepTypes'
  BY <1>1, <1>3 DEF LockInv, RepTypes
<1>13. \A w \in work' : WorkOK(w)'
  <2>1. ASSUME NEW w \in work
        PROVE  WorkOK(w)'
    BY <1>1, <1>3, <1>7, <1>8, <1>9 DEF LockInv, WorkOK
  <2>2. mode = "primarySet" => WorkOK(Gray(o))'
    BY <1>1, <1>3 DEF WorkOK, Gray
  <2>3. mode # "primarySet" => WorkOK(Gray(r))'
    BY <1>1 DEF WorkOK, Gray
  <2>. QED
    BY <1>1, <2>1, <2>2, <2>3
<1>14. Stopped' /\ LogOK'
  BY <1>1, LogKeeps DEF LockInv
<1>15. \A q \in Procs : Scans(q)' => /\ Scans(q) /\ job'[q] = job[q]
                                     /\ job[q].rep \in DOMAIN rep
  <2>1. \A q \in Procs : Scans(q) => job[q].rep \in DOMAIN rep
    BY DEF LockInv, ScanOK
  <2>. QED
    BY <1>4, <2>1 DEF Scans, Root
<1>16. ASSUME NEW q \in Procs
       PROVE  JobOK(q)' /\ ScanOK(q)' /\ WriteOK(q)'
  <2>1. JobOK(q) /\ ScanOK(q) /\ WriteOK(q)
    BY DEF LockInv
  <2>2. CASE q = p /\ ~ (Scans(p) \/ Writes(p))
    BY <1>4, <2>2, DoneOK
  <2>3. CASE q # p \/ Scans(p) \/ Writes(p)
    <3>1. /\ job'[q] = job[q] /\ white'[q] = white[q] /\ q # p => pc'[q] = pc[q]
          /\ q = p => /\ pc[q] = "copier" /\ pc'[q] = "store" /\ (Scans(q) \/ Writes(q))
                      /\ white'[q] \in Known
      BY <1>1, <1>4, <2>3
    <3>2. (Scans(q)' <=> Scans(q)) /\ (Writes(q)' <=> Writes(q))
      BY <1>4, <2>3 DEF Scans, Writes
    <3>3. \A x : IsWrite(q, x)' <=> IsWrite(q, x)
      BY <1>3 DEF IsWrite
    <3>4. JobOK(q)'
      <4>1. CASE q = p
        BY <1>1, <1>3, <1>4, <2>1, <2>3, <3>2, <3>3, <4>1 DEF JobOK, Forwarding
      <4>2. CASE q # p
        BY <1>1, <1>3, <1>4, <2>1, <3>2, <3>3, <4>2 DEF JobOK, Forwarding
      <4>. QED
        BY <4>1, <4>2
    <3>5. ScanOK(q)'
      <4>. SUFFICES ASSUME Scans(q)' PROVE ScanOK(q)'
        BY DEF ScanOK
      <4>. PICK x : x = job[q].rep
        OBVIOUS
      <4>1. Scans(q) /\ job'[q] = job[q] /\ x \in DOMAIN rep
        BY <1>15
      <4>2. x \in DOMAIN rep' /\ rep'[x] = rep[x] /\ (IsLong(x)' <=> IsLong(x))
        BY <1>1, <1>9, <4>1
      <4>3. IF q = p THEN pc[q] = "copier" /\ pc'[q] = "store" /\ white'[q] \in Known
                     ELSE pc'[q] = pc[q] /\ white'[q] = white[q]
        BY <1>1, <1>4, <2>3
      <4>. QED
        BY <1>1, <1>3, <2>1, <4>1, <4>2, <4>3 DEF ScanOK, Forwarding
    <3>6. WriteOK(q)'
      <4>. SUFFICES ASSUME Writes(q) PROVE WriteOK(q)'
        BY <3>2 DEF WriteOK
      <4>. PICK x, t : x = job[q].obj /\ t = tag[x]
        OBVIOUS
      <4>1. x \in Prims /\ job'[q] = job[q]
        BY <1>4, <2>3, WriteIs
      <4>2. t \in DOMAIN rep => /\ tag'[x] = t /\ t \in DOMAIN rep'
                                /\ Unscanned(t)' <=> Unscanned(t)
        BY <1>8, <1>11, <4>1
      <4>3. IF q = p THEN pc[q] = "copier" /\ pc'[q] = "store" /\ white'[q] = white[q]
                     ELSE pc'[q] = pc[q] /\ white'[q] = white[q]
        BY <1>1, <1>4, <2>3
      <4>. QED
        BY <1>1, <2>1, <4>1, <4>2, <4>3 DEF WriteOK, Forwarding
    <3>. QED
      BY <3>4, <3>5, <3>6
  <2>. QED
    BY <2>2, <2>3
<1>17. OneReplica'
  BY <1>1, <1>10 DEF OneReplica
<1>18. CopierOK'
  <2>1. \A q \in Procs : pc'[q] = "copier" =>
          q # p /\ pc[q] = "copier" /\ white'[q] = white[q] /\ white[q] # o /\ white[q] \in Prims
    <3>1. \A q \in Procs : pc[q] = "copier" => white[q] \in Prims
      BY <1>7 DEF LockInv, JobOK, Forwarding
    <3>. QED
      BY <1>1, <1>4, <3>1 DEF LockInv, CopierOK
  <2>2. \A x \in Prims : tag'[x] = Stall => \E q \in Procs : pc'[q] = "copier" /\ white'[q] = x
    <3>. TAKE x \in Prims
    <3>. HAVE tag'[x] = Stall
    <3>1. x # o
      BY <1>1, Constants
    <3>2. PICK q \in Procs : pc[q] = "copier" /\ white[q] = x
      BY <1>1, <3>1 DEF LockInv, CopierOK
    <3>. QED
      BY <1>4, <3>1, <3>2
  <2>. QED
    BY <1>1, <2>1, <2>2 DEF LockInv, CopierOK
<1>19. BaseOK'
  <2>. SUFFICES ASSUME NEW q \in Procs
                PROVE  \/ tag'[Base[q]] \in DOMAIN rep' \/ Root(Base[q]) \in work'
                       \/ \E u \in Procs : pc'[u] \in Forwarding /\ white'[u] = Base[q]
    BY DEF BaseOK
  <2>1. CASE tag[Base[q]] \in DOMAIN rep \/ Root(Base[q]) \in work
    BY <1>1, <1>7, <1>8, <2>1
  <2>2. ASSUME NEW u \in Procs, pc[u] \in Forwarding, white[u] = Base[q]
        PROVE  \/ tag'[Base[q]] \in DOMAIN rep'
               \/ \E v \in Procs : pc'[v] \in Forwarding /\ white'[v] = Base[q]
    <3>1. CASE u = p
      BY <1>1, <2>2, <3>1
    <3>2. CASE u # p
      BY <1>4, <2>2, <3>2
    <3>. QED
      BY <3>1, <3>2
  <2>. QED
    BY <2>1, <2>2 DEF LockInv, BaseOK
<1>20. \A i : Segment(o, i) \notin work
  BY <1>1, <1>7 DEF LockInv, WorkOK, Root, Gray, Segment
<1>21. \A x, i : Segment(x, i) \in work' => Segment(x, i) \in work
  BY <1>1 DEF Gray, Segment
<1>22. ScanOnce'
  <2>1. \A x \in DOMAIN rep' : Unscanned(x)' =>
          /\ \A q \in Procs : Scans(q)' => job'[q].rep # x
          /\ \A k \in Nat : Segment(rep'[x].src, k) \notin work'
    <3>. TAKE x \in DOMAIN rep'
    <3>. HAVE Unscanned(x)'
    <3>1. CASE x = r
      BY <1>1, <1>15, <1>20, <1>21, <3>1
    <3>2. CASE x \in DOMAIN rep
      BY <1>1, <1>11, <1>15, <1>21, <3>2 DEF LockInv, ScanOnce
    <3>. QED
      BY <1>1, <3>1, <3>2
  <2>2. \A q, u \in Procs :
          Scans(q)' /\ Scans(u)' /\ job'[q].rep = job'[u].rep /\ job'[q].last = job'[u].last
            => q = u
    BY <1>15 DEF LockInv, ScanOnce
  <2>3. \A q \in Procs : Scans(q)' =>
          Segment(rep'[job'[q].rep].src, job'[q].last) \notin work'
    <3>. TAKE q \in Procs
    <3>. HAVE Scans(q)'
    <3>. PICK x, k : x = job[q].rep /\ k = job[q].last
      OBVIOUS
    <3>1. Scans(q) /\ job'[q] = job[q] /\ x \in DOMAIN rep /\ rep'[x] = rep[x]
      BY <1>1, <1>15
    <3>2. Segment(rep[x].src, k) \notin work
      BY <3>1 DEF LockInv, ScanOnce
    <3>. QED
      BY <1>21, <3>1, <3>2
  <2>. QED
    BY <2>1, <2>2, <2>3 DEF ScanOnce
<1>23. StallOK'
  <2>1. ASSUME NEW q \in Procs, Scans(q)'
        PROVE  (IF IsLong(job[q].rep) THEN rep[job[q].rep].seg[job[q].last] = Stall
                                      ELSE Sync(job[q].rep) => rep[job[q].rep].tag = Stall)'
    <3>. PICK x, k : x = job[q].rep /\ k = job[q].last
      OBVIOUS
    <3>1. /\ Scans(q) /\ job'[q] = job[q] /\ x \in DOMAIN rep /\ rep'[x] = rep[x]
          /\ (IsLong(x)' <=> IsLong(x)) /\ (Sync(x)' <=> Sync(x))
      BY <1>1, <1>9, <1>15, <2>1
    <3>2. IF IsLong(x) THEN rep[x].seg[k] = Stall ELSE Sync(x) => rep[x].tag = Stall
      BY <3>1 DEF LockInv, StallOK
    <3>. QED
      BY <3>1, <3>2 DEF IsLong, Sync
  <2>2. ASSUME NEW x \in DOMAIN rep', rep'[x].tag = Stall
        PROVE  \E q \in Procs : Scans(q)' /\ job'[q].rep = x /\ ~ IsLong(x)'
    <3>1. x \in DOMAIN rep /\ rep[x].tag = Stall
      BY <1>1, <1>7, <2>2
    <3>2. PICK q \in Procs : Scans(q) /\ job[q].rep = x /\ ~ IsLong(x)
      BY <3>1 DEF LockInv, StallOK
    <3>3. job'[q] = job[q]
      BY <1>4, <3>2
    <3>. QED
      BY <1>9, <3>1, <3>2, <3>3 DEF Scans
  <2>. QED
    BY <2>1, <2>2 DEF StallOK
<1>24. BackThere'
  BY <1>1, <1>11 DEF LockInv, BackThere
<1>25. StoreOK'
  <2>. SUFFICES ASSUME NEW q \in Procs, pc'[q] = "store", white'[q] \in Prims
                PROVE  tag'[white'[q]] \in DOMAIN rep'
    BY DEF StoreOK
  <2>1. CASE q = p
    BY <1>1, <1>4, <2>1
  <2>2. CASE q # p
    BY <1>4, <1>8, <2>2 DEF LockInv, StoreOK
  <2>. QED
    BY <2>1, <2>2
<1>. QED
  BY <1>1, <1>6, <1>12, <1>13, <1>14, <1>16, <1>17, <1>18, <1>19, <1>22, <1>23, <1>24, <1>25
  DEF LockInv

----------------------------------------------------------------------------
(* A step of a mutator changes no replica and nothing a collector holds.   *)
LEMMA MutateKeeps ==
  ASSUME LockInv, NEW p \in Procs, MutatorStep(p), HeapTypes', LogOK',
         \A x \in Known : /\ x \in Known' /\ Len(field'[x]) = Len(field[x])
                          /\ DOMAIN field'[x] = DOMAIN field[x],
         \A q \in Procs : Writes(q) /\ pc[q] \in {"store"} \cup Forwarding =>
           field'[job[q].obj][job[q].index] = field[job[q].obj][job[q].index]
  PROVE  LockInv'
<1>1. mode # "copy" /\ UNCHANGED <<mode, tag, rep, work, pc, job, white>>
  BY DEF MutatorStep, LockInv, Stopped
<1>2. \A x : Safe(x) => Safe(x)'
  BY DEF Safe
<1>3. RepTypes'
  BY <1>1, <1>2 DEF LockInv, RepTypes
<1>4. NamesOK' /\ Stopped'
  BY <1>1 DEF LockInv, NamesOK, Stopped, Copies
<1>5. \A w \in work' : WorkOK(w)'
  <2>1. Segmented \subseteq Known
    BY Constants DEF Known
  <2>. QED
    BY <1>1, <2>1 DEF LockInv, WorkOK
<1>6. \A q \in Procs : (Scans(q)' <=> Scans(q)) /\ (Writes(q)' <=> Writes(q))
  BY <1>1 DEF Scans, Writes
<1>7. \A r : (IsLong(r)' <=> IsLong(r)) /\ (Sync(r)' <=> Sync(r))
                                         /\ (Unscanned(r)' <=> Unscanned(r))
  BY <1>1 DEF IsLong, Sync, Unscanned
<1>8. ASSUME NEW q \in Procs
      PROVE  JobOK(q)' /\ ScanOK(q)' /\ WriteOK(q)'
  <2>1. JobOK(q) /\ ScanOK(q) /\ WriteOK(q)
    BY DEF LockInv
  <2>2. IsWrite(q, job[q]) => IsWrite(q, job[q])'
    BY <1>1, <1>2 DEF IsWrite
  <2>3. JobOK(q)'
    BY <1>1, <1>6, <2>1, <2>2 DEF JobOK
  <2>4. ScanOK(q)'
    BY <1>1, <1>6, <1>7, <2>1 DEF ScanOK
  <2>5. WriteOK(q)'
    BY <1>1, <1>6, <1>7, <2>1 DEF WriteOK
  <2>. QED
    BY <2>3, <2>4, <2>5
<1>9. OneReplica' /\ CopierOK' /\ BaseOK' /\ BackThere' /\ StoreOK'
  BY <1>1, <1>7 DEF LockInv, OneReplica, CopierOK, BaseOK, BackThere, StoreOK
<1>10. ScanOnce'
  BY <1>1, <1>6, <1>7 DEF LockInv, ScanOnce
<1>11. StallOK'
  BY <1>1, <1>6, <1>7 DEF LockInv, StallOK
<1>. QED
  BY <1>3, <1>4, <1>5, <1>8, <1>9, <1>10, <1>11 DEF LockInv

(* The step is counted.                                                    *)
LEMMA Counted ==
  ASSUME HeapTypes, NEW p \in Procs, MutatorStep(p)
  PROVE  /\ steps' \in [Procs -> Int] /\ pc[p] = "mutator"
         /\ UNCHANGED <<mode, tag, rep, work, pc, job, white>>
BY DEF HeapTypes, MutatorStep, At

LEMMA LoadLock ==
  ASSUME LockInv, NEW p \in Procs, NEW i \in DOMAIN Graph[Base[p]], Load(p, i)
  PROVE  LockInv'
<1>. PICK v, b : b = Base[p] /\ v = field[b][i]
  OBVIOUS
<1>1. HeapTypes /\ b \in Objs /\ b \in Prims
  BY Constants DEF LockInv
<1>2. /\ MutatorStep(p) /\ data' = [data EXCEPT ![p] = v] /\ UNCHANGED <<field, log>>
  BY DEF Load
<1>3. field[b] \in Seq(Prims \cup {Nil}) /\ i \in DOMAIN field[b]
  BY <1>1, ArrayFields
<1>4. v \in Prims \cup {Nil} /\ Safe(v)
  BY <1>1, <1>3 DEF HeapTypes
<1>5. Known' = Known /\ \A x : Safe(x)' <=> Safe(x)
  BY <1>2, KnownIs
<1>6. /\ steps' \in [Procs -> Int] /\ UNCHANGED <<mode, tag, rep, work, pc, job, white>>
  BY <1>1, <1>2, Counted
<1>7. HeapTypes'
  <2>1. data' \in [Procs -> Prims \cup {Nil}] /\ \A q \in Procs : Safe(data'[q])
    BY <1>1, <1>2, <1>4 DEF HeapTypes
  <2>. QED
    BY <1>1, <1>2, <1>5, <1>6, <2>1 DEF HeapTypes
<1>8. LogOK'
  BY <1>2, <1>5 DEF LockInv, LogOK, IsWrite
<1>. QED
  BY <1>2, <1>5, <1>7, <1>8, MutateKeeps

(* A write to field i of the array in the registers.                       *)
LEMMA StoreIs ==
  ASSUME LockInv, NEW p \in Procs, NEW i \in MayWrite[p], NEW v \in {data[p], Nil},
         Store(p, i, v)
  PROVE  LET b == Base[p] IN
         /\ MutatorStep(p) /\ b \in Arrays /\ b \in Objs /\ b \in Prims
         /\ i \in DOMAIN field[b] /\ i \in Nat
         /\ v \in Prims \cup {Nil} /\ Safe(v)
         /\ field[b][i] \in Prims \cup {Nil} /\ Safe(field[b][i])
         /\ \A x \in Prims : x # b => field'[x] = field[x]
         /\ field' \in [Prims -> Seq(Prims \cup {Nil})]
         /\ Len(field'[b]) = Len(field[b]) /\ DOMAIN field'[b] = DOMAIN field[b]
         /\ field'[b][i] = v
         /\ \A k \in DOMAIN field[b] : k # i => field'[b][k] = field[b][k]
         /\ log' = [log EXCEPT ![p] = Append(log[p], Write(b, i, field[b][i]))]
         /\ UNCHANGED data
<1>. PICK b, s, t : b = Base[p] /\ s = field[b] /\ t = [field[b] EXCEPT ![i] = v]
  OBVIOUS
<1>1. HeapTypes /\ b \in Arrays /\ b \in Objs /\ b \in Prims /\ i \in DOMAIN Graph[b]
  BY Constants DEF LockInv
<1>2. s \in Seq(Prims \cup {Nil}) /\ i \in DOMAIN s /\ Safe(s[i])
  <2>1. s \in Seq(Prims \cup {Nil}) /\ i \in DOMAIN s
    BY <1>1, ArrayFields
  <2>. QED
    BY <1>1, <2>1 DEF HeapTypes
<1>3. v \in Prims \cup {Nil} /\ Safe(v)
  BY <1>1, Constants DEF HeapTypes, Safe
<1>4. t = [s EXCEPT ![i] = v]
  OBVIOUS
<1>5. /\ t \in Seq(Prims \cup {Nil}) /\ Len(t) = Len(s) /\ DOMAIN t = DOMAIN s
      /\ t[i] = v /\ \A k \in DOMAIN s : k # i => t[k] = s[k]
  BY <1>2, <1>3, <1>4, ExceptSeq
<1>6. /\ MutatorStep(p) /\ field' = [field EXCEPT ![b] = t] /\ UNCHANGED data
      /\ log' = [log EXCEPT ![p] = Append(log[p], Write(b, i, field[b][i]))]
  BY DEF Store
<1>7. /\ field' \in [Prims -> Seq(Prims \cup {Nil})] /\ field'[b] = t
      /\ \A x \in Prims : x # b => field'[x] = field[x]
  BY <1>1, <1>5, <1>6 DEF HeapTypes
<1>. QED
  BY <1>1, <1>2, <1>3, <1>5, <1>6, <1>7

LEMMA StoreLock ==
  ASSUME LockInv, NEW p \in Procs, NEW i \in MayWrite[p], NEW v \in {data[p], Nil},
         Store(p, i, v)
  PROVE  LockInv'
<1>. PICK b, e : b = Base[p] /\ e = Write(b, i, field[b][i])
  OBVIOUS
<1>1. /\ MutatorStep(p) /\ b \in Arrays /\ b \in Objs /\ b \in Prims
      /\ i \in DOMAIN field[b] /\ i \in Nat /\ v \in Prims \cup {Nil} /\ Safe(v)
      /\ field[b][i] \in Prims \cup {Nil} /\ Safe(field[b][i])
      /\ \A x \in Prims : x # b => field'[x] = field[x]
      /\ field' \in [Prims -> Seq(Prims \cup {Nil})]
      /\ Len(field'[b]) = Len(field[b]) /\ DOMAIN field'[b] = DOMAIN field[b]
      /\ field'[b][i] = v
      /\ \A k \in DOMAIN field[b] : k # i => field'[b][k] = field[b][k]
      /\ log' = [log EXCEPT ![p] = Append(log[p], e)]
      /\ UNCHANGED data
  BY StoreIs
<1>2. HeapTypes /\ LogOK
  BY DEF LockInv
<1>3. Known' = Known
  <2>1. \A o \in News : o \in Prims /\ o # b
    BY <1>1, Constants
  <2>. QED
    BY <1>1, <2>1 DEF Known
<1>4. \A x : Safe(x)' <=> Safe(x)
  BY <1>3 DEF Safe
<1>5. /\ steps' \in [Procs -> Int] /\ pc[p] = "mutator"
      /\ UNCHANGED <<mode, tag, rep, work, pc, job, white>>
  BY <1>1, <1>2, Counted
<1>6. HeapTypes'
  <2>1. \A o \in Objs : Len(field'[o]) = Len(Graph[o])
    BY <1>1, <1>2, Constants DEF HeapTypes
  <2>2. \A o \in Prims : \A k \in DOMAIN field'[o] : Safe(field'[o][k])
    <3>. TAKE o \in Prims
    <3>1. CASE o = b
      BY <1>1, <1>2, <3>1 DEF HeapTypes
    <3>2. CASE o # b
      BY <1>1, <1>2, <3>2 DEF HeapTypes
    <3>. QED
      BY <3>1, <3>2
  <2>. QED
    BY <1>1, <1>2, <1>4, <1>5, <2>1, <2>2 DEF HeapTypes
<1>7. LogOK'
  <2>1. e \in Entries /\ IsWrite(p, e) /\ e.kind = "write"
    BY <1>1 DEF Entries, Write, IsWrite
  <2>2. log[p] \in Seq(Entries) /\ DOMAIN log = Procs
    BY <1>2 DEF LogOK
  <2>3. /\ log'[p] = Append(log[p], e) /\ log'[p] \in Seq(Entries)
        /\ \A k \in DOMAIN log'[p] :
             (k \in DOMAIN log[p] /\ log'[p][k] = log[p][k]) \/ log'[p][k] = e
    BY <1>1, <2>1, <2>2
  <2>4. log' \in [Procs -> Seq(Entries)] /\ \A q \in Procs : q # p => log'[q] = log[q]
    BY <1>1, <1>2, <2>3 DEF LogOK
  <2>5. \A q \in Procs : \A k \in DOMAIN log'[q] :
          IF log'[q][k].kind = "new" THEN log'[q][k].obj \in Known ELSE IsWrite(q, log'[q][k])
    <3>. TAKE q \in Procs
    <3>1. CASE q = p
      BY <1>2, <2>1, <2>3, <3>1 DEF LogOK
    <3>2. CASE q # p
      BY <1>2, <2>4, <3>2 DEF LogOK
    <3>. QED
      BY <3>1, <3>2
  <2>. QED
    BY <1>3, <1>4, <2>4, <2>5 DEF LogOK, IsWrite
<1>8. \A x \in Known : /\ x \in Known' /\ Len(field'[x]) = Len(field[x])
                       /\ DOMAIN field'[x] = DOMAIN field[x]
  <2>1. Known \subseteq Prims
    BY Constants DEF Known
  <2>. QED
    BY <1>1, <1>3, <2>1
<1>9. ASSUME NEW q \in Procs, Writes(q), pc[q] \in {"store"} \cup Forwarding
      PROVE  field'[job[q].obj][job[q].index] = field[job[q].obj][job[q].index]
  <2>1. q # p
    BY <1>5, <1>9 DEF Forwarding
  <2>2. /\ job[q].obj = Base[q] /\ Base[q] \in Prims /\ job[q].index \in MayWrite[q]
        /\ job[q].index \in DOMAIN field[Base[q]]
    BY <1>9, WriteIs
  <2>3. Base[q] = b => job[q].index # i
    BY <2>1, <2>2, Constants
  <2>. QED
    BY <1>1, <2>2, <2>3
<1>. QED
  BY <1>1, <1>6, <1>7, <1>8, <1>9, MutateKeeps

(* A new record.                                                           *)
LEMMA AllocateIs ==
  ASSUME LockInv, NEW p \in Procs, NEW o \in News, Allocate(p, o)
  PROVE  /\ MutatorStep(p) /\ o \in Prims /\ o \notin Known /\ o \notin Objs
         /\ Known' = Known \cup {o}
         /\ field'[o] = <<data[p]>> /\ \A x \in Prims : x # o => field'[x] = field[x]
         /\ field' \in [Prims -> Seq(Prims \cup {Nil})]
         /\ data' = [data EXCEPT ![p] = o]
         /\ log' = [log EXCEPT ![p] = <<New(o)>> \o log[p]]
<1>1. HeapTypes /\ o \in Prims /\ o \notin Objs
  BY Constants DEF LockInv
<1>2. /\ MutatorStep(p) /\ field[o] = <<>> /\ field' = [field EXCEPT ![o] = <<data[p]>>]
      /\ data' = [data EXCEPT ![p] = o]
      /\ log' = [log EXCEPT ![p] = <<New(o)>> \o log[p]]
  BY DEF Allocate
<1>3. <<data[p]>> \in Seq(Prims \cup {Nil}) /\ <<data[p]>> # <<>>
  BY <1>1 DEF HeapTypes
<1>4. /\ field'[o] = <<data[p]>> /\ \A x \in Prims : x # o => field'[x] = field[x]
      /\ field' \in [Prims -> Seq(Prims \cup {Nil})]
  BY <1>1, <1>2, <1>3 DEF HeapTypes
<1>5. o \notin Known /\ Known' = Known \cup {o}
  BY <1>1, <1>2, <1>3, <1>4, Constants DEF Known
<1>. QED
  BY <1>1, <1>2, <1>4, <1>5

LEMMA AllocateLock ==
  ASSUME LockInv, NEW p \in Procs, NEW o \in News, Allocate(p, o)
  PROVE  LockInv'
<1>. PICK d, e : d = data[p] /\ e = New(o)
  OBVIOUS
<1>1. /\ MutatorStep(p) /\ o \in Prims /\ o \notin Known /\ o \notin Objs
      /\ Known' = Known \cup {o}
      /\ field'[o] = <<d>> /\ \A x \in Prims : x # o => field'[x] = field[x]
      /\ field' \in [Prims -> Seq(Prims \cup {Nil})]
      /\ data' = [data EXCEPT ![p] = o]
      /\ log' = [log EXCEPT ![p] = <<e>> \o log[p]]
  BY AllocateIs
<1>2. HeapTypes /\ LogOK /\ Safe(d)
  BY DEF LockInv, HeapTypes
<1>3. \A x : Safe(x) => Safe(x)'
  BY <1>1 DEF Safe
<1>4. /\ steps' \in [Procs -> Int] /\ pc[p] = "mutator"
      /\ UNCHANGED <<mode, tag, rep, work, pc, job, white>>
  BY <1>1, <1>2, Counted
<1>5. HeapTypes'
  <2>1. \A x \in Objs : Len(field'[x]) = Len(Graph[x])
    BY <1>1, <1>2, Constants DEF HeapTypes
  <2>2. \A x \in Prims : \A k \in DOMAIN field'[x] :
                            field'[x][k] \in Prims => field'[x][k] \in Known'
    <3>. TAKE x \in Prims
    <3>1. CASE x = o
      <4>1. \A k \in DOMAIN <<d>> : <<d>>[k] = d
        OBVIOUS
      <4>. QED
        BY <1>1, <1>2, <1>3, <3>1, <4>1 DEF Safe
    <3>2. CASE x # o
      BY <1>1, <1>2, <1>3, <3>2 DEF HeapTypes, Safe
    <3>. QED
      BY <3>1, <3>2
  <2>3. data' \in [Procs -> Prims \cup {Nil}] /\ \A q \in Procs : Safe(data[q])'
    BY <1>1, <1>2, <1>3 DEF HeapTypes, Safe
  <2>4. \A q \in Procs : Safe(white[q])'
    BY <1>2, <1>3, <1>4 DEF HeapTypes, Safe
  <2>. QED
    BY <1>1, <1>2, <1>4, <2>1, <2>2, <2>3, <2>4 DEF HeapTypes, Safe
<1>6. LogOK'
  <2>1. e \in Entries /\ e.kind = "new" /\ e.obj = o
    BY <1>1 DEF Entries, New
  <2>2. log[p] \in Seq(Entries) /\ DOMAIN log = Procs
    BY <1>2 DEF LogOK
  <2>3. <<e>> \in Seq(Entries)
    BY <2>1
  <2>4. /\ log'[p] = <<e>> \o log[p] /\ log'[p] \in Seq(Entries)
        /\ \A k \in DOMAIN log'[p] :
             (k - 1 \in DOMAIN log[p] /\ log'[p][k] = log[p][k - 1]) \/ log'[p][k] = e
    BY <1>1, <2>1, <2>2, <2>3
  <2>5. log' \in [Procs -> Seq(Entries)] /\ \A q \in Procs : q # p => log'[q] = log[q]
    BY <1>1, <1>2, <2>4 DEF LogOK
  <2>6. \A q \in Procs : \A k \in DOMAIN log'[q] :
          IF log'[q][k].kind = "new" THEN log'[q][k].obj \in Known'
                                     ELSE IsWrite(q, log'[q][k])
    <3>. TAKE q \in Procs
    <3>1. CASE q = p
      BY <1>1, <1>2, <2>1, <2>4, <3>1 DEF LogOK
    <3>2. CASE q # p
      BY <1>1, <1>2, <2>5, <3>2 DEF LogOK
    <3>. QED
      BY <3>1, <3>2
  <2>. QED
    BY <1>3, <2>5, <2>6 DEF LogOK, IsWrite
<1>7. \A x \in Known : /\ x \in Known' /\ Len(field'[x]) = Len(field[x])
                       /\ DOMAIN field'[x] = DOMAIN field[x]
  <2>1. Known \subseteq Prims
    BY Constants DEF Known
  <2>. QED
    BY <1>1, <2>1
<1>8. ASSUME NEW q \in Procs, Writes(q), pc[q] \in {"store"} \cup Forwarding
      PROVE  field'[job[q].obj][job[q].index] = field[job[q].obj][job[q].index]
  <2>1. job[q].obj \in Objs /\ job[q].obj \in Prims
    BY <1>8, WriteIs
  <2>. QED
    BY <1>1, <2>1
<1>. QED
  BY <1>1, <1>5, <1>6, <1>7, <1>8, MutateKeeps

----------------------------------------------------------------------------
LEMMA LockStutter ==
  ASSUME LockInv, UNCHANGED vars
  PROVE  LockInv'
<1>1. UNCHANGED <<mode, tag, field, rep, work, data, steps, log, pc, job, white>>
  BY DEF vars, heapVars
<1>2. \A x : (Safe(x)' <=> Safe(x)) /\ (WorkOK(x)' <=> WorkOK(x))
             /\ (Unscanned(x)' <=> Unscanned(x)) /\ (IsLong(x)' <=> IsLong(x))
             /\ (Sync(x)' <=> Sync(x))
  BY <1>1 DEF Safe, Known, WorkOK, Unscanned, IsLong, Sync
<1>3. \A p : (Scans(p)' <=> Scans(p)) /\ (Writes(p)' <=> Writes(p))
             /\ \A e : IsWrite(p, e)' <=> IsWrite(p, e)
  BY <1>1, <1>2 DEF Scans, Writes, IsWrite
<1>4. HeapTypes' /\ RepTypes' /\ NamesOK' /\ (\A w \in work' : WorkOK(w)') /\ Stopped' /\ LogOK'
  <2>1. HeapTypes' /\ RepTypes'
    BY <1>1, <1>2 DEF LockInv, HeapTypes, RepTypes, Known
  <2>2. NamesOK' /\ Stopped'
    BY <1>1 DEF LockInv, NamesOK, Stopped, Copies
  <2>3. \A w \in work' : WorkOK(w)'
    BY <1>1, <1>2 DEF LockInv
  <2>4. LogOK'
    BY <1>1, <1>2, <1>3 DEF LockInv, LogOK, Known
  <2>. QED
    BY <2>1, <2>2, <2>3, <2>4
<1>5. \A p \in Procs : JobOK(p)' /\ ScanOK(p)' /\ WriteOK(p)'
  <2>. TAKE p \in Procs
  <2>1. JobOK(p) /\ ScanOK(p) /\ WriteOK(p)
    BY DEF LockInv
  <2>2. JobOK(p)'
    BY <1>1, <1>2, <1>3, <2>1 DEF JobOK, Known
  <2>3. ScanOK(p)' /\ WriteOK(p)'
    BY <1>1, <1>2, <1>3, <2>1 DEF ScanOK, WriteOK, Known
  <2>. QED
    BY <2>2, <2>3
<1>6. OneReplica' /\ CopierOK' /\ BaseOK' /\ ScanOnce' /\ StallOK' /\ BackThere' /\ StoreOK'
  BY <1>1, <1>2, <1>3
  DEF LockInv, OneReplica, CopierOK, BaseOK, ScanOnce, StallOK, BackThere, StoreOK
<1>. QED
  BY <1>4, <1>5, <1>6 DEF LockInv

LEMMA LockStep ==
  ASSUME LockInv, Next
  PROVE  LockInv'
<1>. PICK p \in Procs : Mutate(p) \/ Collect(p)
  BY DEF Next
<1>1. CASE Mutate(p)
  BY <1>1, LoadLock, StoreLock, AllocateLock DEF Mutate
<1>2. CASE Release(p)
  BY <1>2, TakeEntryLock, WriteTagLock, ReplicaTagLock, BackPointerLock, ReadFieldLock
  DEF Release
<1>3. CASE Forward(p)
  BY <1>3, ReadTagLock, OwnLock, CopyLock, StoreReplicaLock DEF Forward
<1>4. CASE Work(p)
  BY <1>4, UpdateRootLock, BreakUpLock, ScanObjectLock, ScanSegmentLock, TransferFieldLock,
     ForwardFieldLock, ScanEndsLock DEF Work
<1>. QED
  BY <1>1, <1>2, <1>3, <1>4 DEF Collect

(* The locks of the collector work: one copier per primary, one scan per   *)
(* replica or segment, and STALL_TAG stands exactly while a scan goes on.  *)
THEOREM LockHolds == Spec => []LockInv
<1>1. Init => LockInv
  BY CopyInitInv DEF CopyInv
<1>2. LockInv /\ [Next]_vars => LockInv'
  BY LockStep, LockStutter
<1>. QED
  BY <1>1, <1>2, PTL DEF Spec

(* No primary ever gets two replicas (acquireOwnership, forward.c), in     *)
(* whatever order its racers read the tag, swap and publish.               *)
THEOREM OneReplicaHolds == Spec => []OneReplica
<1>1. LockInv => OneReplica
  BY DEF LockInv
<1>. QED
  BY <1>1, LockHolds, PTL

----------------------------------------------------------------------------
(* Two scans are never at the same field of a replica.                     *)
LEMMA OneScan ==
  ASSUME LockInv, NEW p \in Procs, NEW q \in Procs, Scans(p), Scans(q),
         job[p].rep = job[q].rep,
         \/ ~ IsLong(job[p].rep)
         \/ /\ job[p].index = job[q].index
            /\ job[p].index <= job[p].last /\ job[q].index <= job[q].last
  PROVE  p = q
<1>. PICK j, k : j = job[p] /\ k = job[q]
  OBVIOUS
<1>1. ScanOK(p) /\ ScanOK(q)
  BY DEF LockInv
<1>2. /\ j.index \in Nat /\ j.last \in Nat /\ k.index \in Nat /\ k.last \in Nat
  BY ScanIs
<1>3. j.last = k.last
  <2>1. CASE ~ IsLong(j.rep)
    BY <1>1, <2>1 DEF ScanOK
  <2>2. CASE IsLong(j.rep)
    <3>1. j.index >= j.last /\ k.index >= k.last
      BY <1>1, <2>2 DEF ScanOK
    <3>. QED
      BY <1>2, <2>2, <3>1
  <2>. QED
    BY <2>1, <2>2
<1>. QED
  BY <1>3 DEF LockInv, ScanOnce

(* A primary has one replica.                                              *)
LEMMA OneSrc ==
  ASSUME LockInv
  PROVE  /\ \A x, y \in DOMAIN rep : rep[x].src = rep[y].src => x = y
         /\ \A x \in DOMAIN rep : tag[rep[x].src] = x /\ rep[x].src \in Prims
                                                      /\ rep[x].src \in Known
BY Constants DEF LockInv, OneReplica, RepTypes, Known

(* What is early is still to be written.                                   *)
LEMMA EarlyWrites ==
  ASSUME NEW q, NEW o, NEW i, Early(q, o, i)
  PROVE  Writing(q, o, i)
BY DEF Early, Writing

(* What does not depend on p.                                              *)
LEMMA OthersWrite ==
  ASSUME HeapTypes, NEW p \in Procs, Moves(p), NEW q \in Procs, q # p, log'[q] = log[q]
  PROVE  /\ \A o, i : (Early(q, o, i)' <=> Early(q, o, i))
                      /\ (Writing(q, o, i)' <=> Writing(q, o, i))
         /\ Scans(q)' <=> Scans(q)
         /\ Carries(q)' <=> Carries(q)
         /\ \A r, i : Scanning(q, r, i)' <=> Scanning(q, r, i)
         /\ pc'[q] = pc[q] /\ job'[q] = job[q] /\ white'[q] = white[q]
<1>1. pc'[q] = pc[q] /\ job'[q] = job[q] /\ white'[q] = white[q]
  BY Others
<1>. QED
  BY <1>1 DEF Early, Writing, InLog, Writes, Scans, Scanning, Carries

(* The images do not change with a step that changes no primary.           *)
LEMMA CurrentKeeps ==
  ASSUME NEW p, Moves(p), NEW r \in DOMAIN rep, NEW i, rep'[r].fields[i] = rep[r].fields[i]
  PROVE  Current(r, i)' <=> Current(r, i)
BY DEF Current, Image, Moves

(* A step of p that changes no replica.                                    *)
LEMMA LocalImage ==
  ASSUME CopyInv, NEW p \in Procs, Moves(p), rep' = rep,
         \A x : Gray(x) \in work' <=> Gray(x) \in work,
         \A x, i : Segment(x, i) \in work' <=> Segment(x, i) \in work,
         \A q \in Procs : q # p => log'[q] = log[q],
         pc[p] # "field", FreshOK(p)',
         Scans(p)' <=> Scans(p), Scans(p) => job'[p] = job[p],
         \A r \in DOMAIN rep : \A o, i : o = rep[r].src /\ Writing(p, o, i) =>
           \/ Writing(p, o, i)' \/ Unscanned(r)
           \/ i \notin DOMAIN field[o] \/ \E q \in Procs : Scanning(q, r, i),
         \A q \in Procs : \A o, i :
           q # p /\ Carries(q) /\ o = rep[job[q].rep].src /\ i = job[q].index /\ Early(p, o, i)
             => Early(p, o, i)'
  PROVE  ImageInv'
<1>1. LockInv /\ ImageInv /\ HeapTypes
  BY DEF CopyInv, LockInv
<1>2. mode' = mode /\ tag' = tag /\ field' = field
  BY DEF Moves
<1>3. \A q \in Procs : q # p =>
        /\ \A o, i : (Early(q, o, i)' <=> Early(q, o, i))
                     /\ (Writing(q, o, i)' <=> Writing(q, o, i))
        /\ Scans(q)' <=> Scans(q)
        /\ Carries(q)' <=> Carries(q)
        /\ \A r, i : Scanning(q, r, i)' <=> Scanning(q, r, i)
        /\ pc'[q] = pc[q] /\ job'[q] = job[q] /\ white'[q] = white[q]
  BY <1>1, OthersWrite
<1>4. \A q \in Procs : \A r, i : Scanning(q, r, i)' <=> Scanning(q, r, i)
  <2>1. \A r, i : Scanning(p, r, i)' <=> Scanning(p, r, i)
    BY DEF Scanning
  <2>. QED
    BY <1>3, <2>1
<1>5. \A r \in DOMAIN rep : (Unscanned(r)' <=> Unscanned(r)) /\ (IsLong(r)' <=> IsLong(r))
                            /\ \A i : Current(r, i)' <=> Current(r, i)
  <2>1. \A r \in DOMAIN rep : Unscanned(r)' <=> Unscanned(r)
    BY DEF Unscanned
  <2>. QED
    BY <2>1, SameLong, CurrentKeeps
<1>6. BackOK'
  BY <1>1, <1>2, <1>3, <1>5 DEF ImageInv, BackOK
<1>7. CopiedOK'
  BY <1>1, <1>2, <1>5 DEF ImageInv, CopiedOK
<1>8. FieldsOK'
  <2>. SUFFICES ASSUME NEW r \in DOMAIN rep, NEW i \in DOMAIN field[rep[r].src]
                PROVE  FieldOK(r, i)'
    BY <1>2 DEF FieldsOK
  <2>. PICK o : o = rep[r].src
    OBVIOUS
  <2>1. FieldOK(r, i)
    BY <1>1 DEF ImageInv, FieldsOK
  <2>2. CASE Current(r, i) \/ Unscanned(r) \/ Segment(o, i) \in work
    BY <1>5, <2>2 DEF FieldOK
  <2>3. CASE \E q \in Procs : Scanning(q, r, i)
    BY <1>4, <2>3 DEF FieldOK
  <2>4. CASE \E q \in Procs : Writing(q, o, i)
    <3>1. PICK q \in Procs : Writing(q, o, i)
      BY <2>4
    <3>2. \/ Writing(q, o, i)' \/ Unscanned(r)
          \/ \E u \in Procs : Scanning(u, r, i)
      BY <1>3, <3>1
    <3>3. Writing(q, o, i)' => Writing(q, rep[r].src, i)'
      BY DEF Writing, InLog
    <3>. QED
      BY <1>4, <1>5, <3>2, <3>3 DEF FieldOK
  <2>. QED
    BY <2>1, <2>2, <2>3, <2>4 DEF FieldOK
<1>9. ASSUME NEW q \in Procs
      PROVE  FreshOK(q)'
  <2>1. CASE q = p
    BY <2>1
  <2>2. CASE q # p
    <3>. PICK r, i, o : r = job[q].rep /\ i = job[q].index /\ o = rep[r].src
      OBVIOUS
    <3>1. FreshOK(q)
      BY <1>1 DEF ImageInv
    <3>2. Carries(q) /\ Delayed(o, i) => Delayed(o, i)'
      <4>. HAVE Carries(q) /\ Delayed(o, i)
      <4>1. PICK u \in Procs : Early(u, o, i)
        BY DEF Delayed
      <4>2. Early(u, o, i)'
        BY <1>3, <2>2, <4>1
      <4>. QED
        BY <4>2 DEF Delayed
    <3>3. Scans(q) => r \in DOMAIN rep
      BY <1>1, ScanIs
    <3>4. /\ job'[q] = job[q] /\ pc'[q] = pc[q] /\ white'[q] = white[q]
          /\ Scans(q)' <=> Scans(q)
      BY <1>3, <2>2
    <3>5. /\ Scans(q)' /\ pc'[q] = "forward" =>
               rep'[r].fields[i] = field'[o][i] \/ Current(r, i)' \/ Delayed(o, i)'
          /\ Scans(q)' /\ pc'[q] \in {"store"} \cup Forwarding =>
               white'[q] = field'[o][i] \/ Delayed(o, i)'
      BY <1>2, <1>5, <3>1, <3>2, <3>3, <3>4 DEF FreshOK, Carries
    <3>. QED
      BY <3>4, <3>5, SMTT(30) DEF FreshOK, Delayed, Early, InLog, Writes, Current
  <2>. QED
    BY <2>1, <2>2
<1>. QED
  BY <1>6, <1>7, <1>8, <1>9 DEF ImageInv

(* A step of a release, or the start of one.                               *)
LEMMA ReleaseImage ==
  ASSUME CopyInv, NEW p \in Procs, Moves(p), rep' = rep, work' = work,
         \A q \in Procs : q # p => log'[q] = log[q],
         pc[p] # "field", ~ Scans(p), ~ Scans(p)',
         \A r \in DOMAIN rep : \A o, i : o = rep[r].src /\ Writing(p, o, i) =>
           \/ Writing(p, o, i)' \/ Unscanned(r)
           \/ i \notin DOMAIN field[o] \/ \E q \in Procs : Scanning(q, r, i),
         \A q \in Procs : \A o, i :
           q # p /\ Carries(q) /\ o = rep[job[q].rep].src /\ i = job[q].index /\ Early(p, o, i)
             => Early(p, o, i)'
  PROVE  ImageInv'
<1>1. FreshOK(p)'
  BY DEF FreshOK
<1>. QED
  BY <1>1, LocalImage

LEMMA TakeEntryImage ==
  ASSUME CopyInv, NEW p \in Procs, TakeEntry(p)
  PROVE  ImageInv'
<1>. PICK e, s : e = Head(log[p]) /\ s = log[p]
  OBVIOUS
<1>1. LockInv /\ s \in Seq(Entries) /\ DOMAIN log = Procs
  BY DEF CopyInv, LockInv, LogOK
<1>2. /\ Moves(p) /\ rep' = rep /\ work' = work
      /\ pc[p] \in {"mutator", "release"} /\ s # <<>>
      /\ log' = [log EXCEPT ![p] = Tail(s)] /\ job'[p] = e /\ e \in Entries
      /\ IF e.kind = "new" THEN TRUE ELSE pc'[p] = "writeTag" /\ IsWrite(p, e)
  BY <1>1, TakeEntryIs
<1>3. log'[p] = Tail(s) /\ \A q \in Procs : q # p => log'[q] = log[q]
  BY <1>1, <1>2
<1>4. job[p] = Root(Nil)
  BY <1>1, <1>2 DEF LockInv, JobOK
<1>5. ~ Scans(p) /\ ~ Scans(p)' /\ ~ Writes(p)
  BY <1>2, <1>4 DEF Scans, Writes, Root, Entries
<1>6. ASSUME NEW o, NEW i, InLog(p, o, i)
      PROVE  Early(p, o, i)'
  <2>1. PICK k \in DOMAIN s : s[k].kind = "write" /\ s[k].obj = o /\ s[k].index = i
    BY <1>6 DEF InLog
  <2>2. CASE k = 1
    <3>1. e = s[1]
      BY <1>1, <1>2
    <3>2. Writes(p)' /\ job'[p].obj = o /\ job'[p].index = i /\ pc'[p] = "writeTag"
      BY <1>2, <2>1, <2>2, <3>1 DEF Writes
    <3>. QED
      BY <3>2 DEF Early
  <2>3. CASE k # 1
    <3>1. k - 1 \in DOMAIN Tail(s) /\ Tail(s)[k - 1] = s[k]
      BY <1>1, <1>2, <2>3
    <3>2. InLog(p, o, i)'
      BY <1>3, <2>1, <3>1 DEF InLog
    <3>. QED
      BY <3>2 DEF Early
  <2>. QED
    BY <2>2, <2>3
<1>7. \A o, i : Writing(p, o, i) => InLog(p, o, i)
  BY <1>5 DEF Writing
<1>8. \A o, i : Early(p, o, i) => InLog(p, o, i)
  BY <1>5 DEF Early
<1>9. \A o, i : Early(p, o, i)' => Writing(p, o, i)'
  BY DEF Early, Writing
<1>10. pc[p] # "field"
  BY <1>2
<1>. QED
  BY <1>2, <1>3, <1>5, <1>6, <1>7, <1>8, <1>9, <1>10, ReleaseImage

(* p goes on with its write.                                               *)
LEMMA GoesOnImage ==
  ASSUME CopyInv, NEW p \in Procs, Moves(p), rep' = rep, work' = work, log' = log,
         Writes(p), job'[p] = job[p],
         \A q \in Procs : \A o, i :
           /\ q # p /\ Carries(q) /\ o = rep[job[q].rep].src /\ i = job[q].index
           /\ job[p].obj = o /\ job[p].index = i
           /\ \/ pc[p] \in {"writeTag", "replicaTag", "noArray", "die"}
              \/ pc[p] \in {"array", "sync"} /\ o \in Segmented
           => \/ pc'[p] \in {"writeTag", "replicaTag", "noArray", "die"}
              \/ pc'[p] \in {"array", "sync"} /\ o \in Segmented
  PROVE  ImageInv'
<1>1. LockInv
  BY DEF CopyInv
<1>2. ~ Scans(p) /\ ~ Scans(p)' /\ Writes(p)' /\ pc[p] # "field"
  BY <1>1 DEF Scans, Writes, LockInv, JobOK
<1>3. \A o, i : (InLog(p, o, i)' <=> InLog(p, o, i)) /\ (Writing(p, o, i)' <=> Writing(p, o, i))
  BY <1>2 DEF InLog, Writing
<1>4. \A q \in Procs : \A o, i :
        q # p /\ Carries(q) /\ o = rep[job[q].rep].src /\ i = job[q].index /\ Early(p, o, i)
          => Early(p, o, i)'
  BY <1>2, <1>3 DEF Early
<1>. QED
  BY <1>2, <1>3, <1>4, ReleaseImage

(* p has done with its write, or gives it up.                              *)
LEMMA GivesUpImage ==
  ASSUME CopyInv, NEW p \in Procs, Moves(p), rep' = rep, work' = work, log' = log,
         Writes(p), ~ Scans(p)',
         \A r \in DOMAIN rep : rep[r].src = job[p].obj =>
           Unscanned(r) \/ \E q \in Procs : Scans(q) /\ job[q].rep = r /\ job[q].index = 1
                                           /\ pc[q] = "field" /\ ~ IsLong(r)
  PROVE  ImageInv'
<1>1. LockInv
  BY DEF CopyInv
<1>2. ~ Scans(p) /\ pc[p] # "field"
  BY <1>1 DEF Scans, Writes, LockInv, JobOK
<1>3. \A o, i : InLog(p, o, i)' <=> InLog(p, o, i)
  BY DEF InLog
<1>4. ASSUME NEW r \in DOMAIN rep, NEW o, NEW i, o = rep[r].src, Writing(p, o, i)
      PROVE  \/ Writing(p, o, i)' \/ Unscanned(r)
             \/ i \notin DOMAIN field[o] \/ \E q \in Procs : Scanning(q, r, i)
  <2>1. CASE InLog(p, o, i)
    BY <1>3, <2>1 DEF Writing
  <2>2. CASE ~ InLog(p, o, i) /\ i \in DOMAIN field[o] /\ ~ Unscanned(r)
    <3>1. PICK q \in Procs : Scans(q) /\ job[q].rep = r /\ job[q].index = 1 /\ ~ IsLong(r)
      BY <1>4, <2>2 DEF Writing
    <3>2. job[q].last = Len(rep[r].fields)
      BY <1>1, <3>1 DEF LockInv, ScanOK
    <3>3. field[o] \in Seq(Prims \cup {Nil}) /\ Len(field[o]) = Len(rep[r].fields)
      BY <1>1, <1>4, <3>1, ScanIs
    <3>4. Scanning(q, r, i)
      BY <2>2, <3>1, <3>2, <3>3 DEF Scanning
    <3>. QED
      BY <3>4
  <2>. QED
    BY <2>1, <2>2
<1>5. ASSUME NEW q \in Procs, NEW o, NEW i, q # p, Carries(q), o = rep[job[q].rep].src,
             i = job[q].index, Early(p, o, i)
      PROVE  Early(p, o, i)'
  <2>1. CASE InLog(p, o, i)
    BY <1>3, <2>1 DEF Early
  <2>2. CASE ~ InLog(p, o, i)
    <3>. PICK r : r = job[q].rep
      OBVIOUS
    <3>1. job[p].obj = o
      BY <1>5, <2>2 DEF Early
    <3>2. Scans(q) /\ r \in DOMAIN rep /\ ~ Unscanned(r) /\ pc[q] # "field"
      BY <1>1, <1>5, ScanIs DEF Carries, Forwarding
    <3>3. PICK u \in Procs : Scans(u) /\ job[u].rep = r /\ pc[u] = "field" /\ ~ IsLong(r)
      BY <1>5, <3>1, <3>2
    <3>4. u = q
      BY <1>1, <3>2, <3>3, OneScan
    <3>. QED
      BY <3>2, <3>3, <3>4
  <2>. QED
    BY <2>1, <2>2
<1>. QED
  BY <1>2, <1>4, <1>5, ReleaseImage

LEMMA WriteTagImage ==
  ASSUME CopyInv, NEW p \in Procs, WriteTag(p)
  PROVE  ImageInv'
<1>. PICK o, old, j : o = job[p].obj /\ old = job[p].old /\ j = New(old)
  OBVIOUS
<1>1. LockInv /\ HeapTypes
  BY DEF CopyInv, LockInv
<1>2. pc[p] = "writeTag" /\ UNCHANGED <<mode, tag, field, rep, work, data, steps, log>>
  BY Zenon DEF WriteTag, At, heapVars
<1>3. Writes(p)
  BY <1>1, <1>2 DEF LockInv, JobOK
<1>4. old \in Prims \cup {Nil} /\ Safe(old)
  BY <1>1, <1>3, WriteIs
<1>5. CASE tag[o] # Orig
  <2>1. pc' = [pc EXCEPT ![p] = "replicaTag"] /\ job' = job /\ white' = white
    BY <1>2, <1>5 DEF WriteTag, To
  <2>2. Moves(p) /\ pc'[p] = "replicaTag" /\ job'[p] = job[p]
    BY <1>1, <1>2, <2>1, Unmoved, KnownIs DEF Moves, HeapTypes, Labels
  <2>. QED
    BY <1>2, <1>3, <2>2, GoesOnImage
<1>6. CASE tag[o] = Orig
  <2>1. Moves(p) /\ ~ Scans(p)'
    <3>1. CASE old = Nil
      <4>1. Finish(p)
        BY <1>2, <1>6, <3>1 DEF WriteTag
      <4>2. Moves(p) /\ job'[p] = Root(Nil)
        BY <1>1, <1>2, <4>1, FinishIs
      <4>. QED
        BY <4>2 DEF Scans, Root
    <3>2. CASE old # Nil
      <4>1. /\ pc' = [pc EXCEPT ![p] = "alloc"] /\ job' = [job EXCEPT ![p] = j]
            /\ white' = [white EXCEPT ![p] = old]
        BY <1>4, <1>6, <3>2, Zenon DEF WriteTag, Give, To
      <4>2. Moves(p) /\ job'[p] = j
        BY <1>1, <1>2, <1>4, <4>1, KnownIs DEF Moves, HeapTypes, Labels, AllWords
      <4>. QED
        BY <4>2 DEF Scans, New
    <3>. QED
      BY <3>1, <3>2
  <2>2. \A r \in DOMAIN rep : rep[r].src # o
    BY <1>1, <1>6, Constants DEF LockInv, OneReplica, NamesOK
  <2>. QED
    BY <1>2, <1>3, <2>1, <2>2, GivesUpImage
<1>. QED
  BY <1>5, <1>6

(* A release that may have to wait for a scan sees its STALL_TAG.          *)
LEMMA ReplicaTagImage ==
  ASSUME CopyInv, NEW p \in Procs, ReplicaTag(p)
  PROVE  ImageInv'
<1>. PICK o, c : /\ o = job[p].obj
                 /\ c = IF rep[tag[job[p].obj]].tag = Stall THEN "noArray" ELSE "array"
  OBVIOUS
<1>1. LockInv /\ HeapTypes
  BY DEF CopyInv, LockInv
<1>2. /\ pc[p] = "replicaTag" /\ pc' = [pc EXCEPT ![p] = c] /\ job' = job /\ white' = white
      /\ UNCHANGED <<mode, tag, field, rep, work, data, steps, log>>
  BY DEF ReplicaTag, At, To, heapVars
<1>3. Writes(p)
  BY <1>1, <1>2 DEF LockInv, JobOK
<1>4. o \in Arrays /\ mode # "copy"
  BY <1>1, <1>3, WriteIs
<1>5. Moves(p) /\ pc'[p] = c /\ job'[p] = job[p]
  BY <1>1, <1>2, Unmoved, KnownIs DEF Moves, HeapTypes, Labels
<1>6. ASSUME NEW q \in Procs, Carries(q), o = rep[job[q].rep].src, o \notin Segmented
      PROVE  c = "noArray"
  <2>. PICK r : r = job[q].rep
    OBVIOUS
  <2>1. Scans(q) /\ r \in DOMAIN rep
    BY <1>1, <1>6, ScanIs DEF Carries
  <2>2. tag[o] = r /\ ~ IsLong(r) /\ Sync(r)
    BY <1>1, <1>4, <1>6, <2>1 DEF LockInv, OneReplica, IsLong, Sync
  <2>3. rep[r].tag = Stall
    BY <1>1, <2>1, <2>2 DEF LockInv, StallOK
  <2>. QED
    BY <2>2, <2>3
<1>7. ASSUME NEW q \in Procs, NEW x, Carries(q), x = rep[job[q].rep].src, job[p].obj = x
      PROVE  c = "noArray" \/ (c = "array" /\ x \in Segmented)
  BY <1>6, <1>7
<1>. QED
  BY <1>2, <1>3, <1>5, <1>7, GoesOnImage

(* A release that leaves the write to the scan: nothing has been scanned.  *)
LEMMA BackPointerImage ==
  ASSUME CopyInv, NEW p \in Procs, BackPointer(p)
  PROVE  ImageInv'
<1>. PICK o, r : o = job[p].obj /\ r = tag[o]
  OBVIOUS
<1>1. LockInv /\ HeapTypes /\ BackOK
  BY DEF CopyInv, LockInv, ImageInv
<1>2. /\ pc[p] \in {"array", "noArray"}
      /\ UNCHANGED <<mode, tag, field, rep, work, data, steps, log>>
  BY DEF BackPointer, At, heapVars
<1>3. Writes(p) /\ WriteOK(p)
  BY <1>1, <1>2 DEF LockInv, JobOK
<1>4. /\ o \in Arrays /\ mode # "copy" /\ job[p].index \in DOMAIN field[o] /\ o \in Prims
      /\ tag[o] \in DOMAIN rep => rep[tag[o]].src = o
  BY <1>1, <1>3, WriteIs
<1>5. r \in DOMAIN rep /\ rep[r].src = o
  BY <1>2, <1>3, <1>4 DEF WriteOK
<1>6. CASE rep[r].fields[1] = o
  <2>1. Finish(p)
    BY <1>2, <1>6 DEF BackPointer
  <2>2. Moves(p) /\ job'[p] = Root(Nil)
    BY <1>1, <1>2, <2>1, FinishIs
  <2>3. ~ Scans(p)'
    BY <2>2 DEF Scans, Root
  <2>4. rep[r].fields # <<>>
    <3>1. /\ field[o] \in Seq(Prims \cup {Nil}) /\ Len(rep[r].fields) = Len(field[o])
          /\ rep[r] \in Replica
      BY <1>1, <1>4, <1>5 DEF HeapTypes, LockInv, RepTypes
    <3>2. rep[r].fields \in Seq(AllWords)
      BY <3>1 DEF Replica, AllWords
    <3>. QED
      BY <1>4, <3>1, <3>2
  <2>5. \/ Unscanned(r)
        \/ \E q \in Procs : /\ Scans(q) /\ job[q].rep = r /\ job[q].index = 1
                            /\ pc[q] = "field" /\ ~ IsLong(r)
    BY <1>1, <1>4, <1>5, <1>6, <2>4 DEF BackOK
  <2>6. \A x \in DOMAIN rep : rep[x].src = o => x = r
    BY <1>1, <1>5, OneSrc
  <2>. QED
    BY <1>2, <1>3, <2>2, <2>3, <2>5, <2>6, GivesUpImage
<1>7. CASE rep[r].fields[1] # o
  <2>. PICK c : c = IF pc[p] = "noArray" THEN "die" ELSE "sync"
    OBVIOUS
  <2>1. pc' = [pc EXCEPT ![p] = c] /\ job' = job /\ white' = white
    BY <1>2, <1>7 DEF BackPointer, To
  <2>2. Moves(p) /\ pc'[p] = c /\ job'[p] = job[p]
    BY <1>1, <1>2, <2>1, Unmoved, KnownIs DEF Moves, HeapTypes, Labels
  <2>. QED
    BY <1>2, <1>3, <2>2, GoesOnImage
<1>. QED
  BY <1>6, <1>7

(* A release that has read the field comes after a scan of its segment.    *)
LEMMA ReadFieldImage ==
  ASSUME CopyInv, NEW p \in Procs, ReadField(p)
  PROVE  ImageInv'
<1>. PICK o, i, v, c : /\ o = job[p].obj /\ i = job[p].index /\ v = field[o][i]
                       /\ c = IF v \in Prims THEN "alloc" ELSE "store"
  OBVIOUS
<1>1. LockInv /\ HeapTypes
  BY DEF CopyInv, LockInv
<1>2. /\ pc[p] = "sync" /\ pc' = [pc EXCEPT ![p] = c] /\ white' = [white EXCEPT ![p] = v]
      /\ o \in Segmented => rep[tag[o]].seg[i] # Stall
      /\ UNCHANGED <<mode, tag, field, rep, work, data, steps, log, job>>
  BY DEF ReadField, At, Give, To, heapVars
<1>3. Writes(p)
  BY <1>1, <1>2 DEF LockInv, JobOK
<1>4. v \in Prims \cup {Nil} /\ Safe(v) /\ mode # "copy"
  BY <1>1, <1>3, WriteIs
<1>5. Moves(p) /\ job'[p] = job[p]
  <2>1. job' = [job EXCEPT ![p] = job[p]] /\ v \in AllWords /\ c \in Labels
    BY <1>1, <1>2, <1>4, Unmoved DEF AllWords, Labels
  <2>. QED
    BY <1>1, <1>2, <1>4, <2>1, KnownIs DEF Moves, HeapTypes
<1>6. ASSUME NEW q \in Procs, Carries(q), o = rep[job[q].rep].src, i = job[q].index
      PROVE  o \notin Segmented
  <2>. SUFFICES ASSUME o \in Segmented PROVE FALSE
    OBVIOUS
  <2>. PICK r : r = job[q].rep
    OBVIOUS
  <2>1. /\ Scans(q) /\ r \in DOMAIN rep /\ pc[q] # "field" /\ ScanOK(q)
        /\ job[q].index \in Nat /\ job[q].last \in Nat
    BY <1>1, <1>6, ScanIs DEF Carries, Forwarding, LockInv
  <2>2. tag[o] = r /\ IsLong(r)
    BY <1>1, <1>4, <1>6, <2>1 DEF LockInv, OneReplica, IsLong
  <2>3. i = job[q].last
    BY <1>6, <2>1, <2>2 DEF ScanOK
  <2>4. rep[r].seg[i] = Stall
    BY <1>1, <2>1, <2>2, <2>3 DEF LockInv, StallOK
  <2>. QED
    BY <1>2, <2>2, <2>4
<1>. QED
  BY <1>2, <1>3, <1>5, <1>6, GoesOnImage

(* Forwarding: p goes on with the pointer in its hands.                    *)
LEMMA HoldImage ==
  ASSUME CopyInv, NEW p \in Procs, pc[p] \in {"alloc", "own"},
         pc' = [pc EXCEPT ![p] = pc'[p]], job' = job, white' = white,
         UNCHANGED <<mode, tag, field, data, steps, rep, log, work>>,
         pc'[p] \in {"alloc", "own", "store"}
  PROVE  ImageInv'
<1>1. LockInv /\ HeapTypes /\ FreshOK(p)
  BY DEF CopyInv, LockInv, ImageInv
<1>2. Moves(p)
  BY <1>1, Unmoved, KnownIs DEF Moves, HeapTypes, Labels
<1>3. /\ \A o, i : (Early(p, o, i)' <=> Early(p, o, i))
                   /\ (Writing(p, o, i)' <=> Writing(p, o, i))
      /\ Scans(p)' <=> Scans(p)
  BY DEF Early, Writing, InLog, Writes, Scans
<1>4. FreshOK(p)'
  <2>1. \A q \in Procs : q # p => \A o, i : Early(q, o, i)' <=> Early(q, o, i)
    BY <1>1, <1>2, OthersWrite
  <2>2. \A o, i : Delayed(o, i)' <=> Delayed(o, i)
    BY <1>3, <2>1 DEF Delayed
  <2>3. pc[p] \in {"store"} \cup Forwarding /\ pc'[p] # "forward"
    BY DEF Forwarding
  <2>. QED
    BY <1>1, <1>3, <2>2, <2>3 DEF FreshOK
<1>. QED
  BY <1>2, <1>3, <1>4, LocalImage

(* p has the replica it wanted, or finds somebody else has made it.        *)
LEMMA FinishImage ==
  ASSUME CopyInv, NEW p \in Procs, Finish(p), ~ Scans(p), ~ Writes(p), pc[p] # "field",
         UNCHANGED <<mode, tag, field, data, steps, rep, log, work>>
  PROVE  ImageInv'
<1>1. LockInv /\ HeapTypes
  BY DEF CopyInv, LockInv
<1>2. Moves(p) /\ job'[p] = Root(Nil)
  BY <1>1, FinishIs
<1>3. ~ Scans(p)'
  BY <1>2 DEF Scans, Root
<1>4. \A o, i : InLog(p, o, i)' <=> InLog(p, o, i)
  BY DEF InLog
<1>5. \A o, i : /\ Writing(p, o, i) => Writing(p, o, i)'
                /\ Early(p, o, i) => Early(p, o, i)'
  BY <1>4 DEF Writing, Early
<1>. QED
  BY <1>2, <1>3, <1>5, ReleaseImage

LEMMA ReadTagImage ==
  ASSUME CopyInv, NEW p \in Procs, ReadTag(p)
  PROVE  ImageInv'
<1>. PICK t : t = tag[white[p]]
  OBVIOUS
<1>1. /\ pc[p] = "alloc" /\ UNCHANGED <<mode, tag, field, data, steps, rep, log, work>>
  BY DEF ReadTag, At, heapVars
<1>2. pc \in [Procs -> Labels]
  BY DEF CopyInv, LockInv, HeapTypes
<1>3. CASE t = Orig
  <2>1. pc' = [pc EXCEPT ![p] = "own"] /\ job' = job /\ white' = white
    BY <1>3 DEF ReadTag, To
  <2>. QED
    BY <1>1, <1>2, <2>1, HoldImage
<1>4. CASE t # Orig
  <2>1. Forwarded(p)
    BY <1>4 DEF ReadTag
  <2>2. CASE Scans(p) \/ Writes(p)
    <3>1. pc' = [pc EXCEPT ![p] = "store"] /\ job' = job /\ white' = white
      BY <2>1, <2>2 DEF Forwarded, To, Scans, Writes
    <3>. QED
      BY <1>1, <1>2, <3>1, HoldImage
  <2>3. CASE ~ Scans(p) /\ ~ Writes(p)
    <3>1. Finish(p)
      BY <2>1, <2>3 DEF Forwarded, Scans, Writes
    <3>. QED
      BY <1>1, <2>3, <3>1, FinishImage
  <2>. QED
    BY <2>2, <2>3
<1>. QED
  BY <1>3, <1>4

LEMMA UpdateRootImage ==
  ASSUME CopyInv, NEW p \in Procs, NEW w \in work, UpdateRoot(p, w)
  PROVE  ImageInv'
<1>. PICK o : o = w.obj
  OBVIOUS
<1>1. /\ pc[p] = "mutator" /\ w.kind = "root" /\ work' = work \ {w}
      /\ job' = [job EXCEPT ![p] = w] /\ UNCHANGED <<mode, tag, field, rep, data, steps, log>>
  BY Zenon DEF UpdateRoot, Idle, At, heapVars
<1>2. LockInv /\ HeapTypes /\ JobOK(p)
  BY DEF CopyInv, LockInv
<1>3. w = Root(o) /\ o \in Objs /\ o \in Prims /\ o \in Known
  BY <1>1, <1>2, Constants DEF LockInv, WorkOK, Root, Gray, Segment, Known
<1>4. pc' = [pc EXCEPT ![p] = "alloc"] /\ white' = [white EXCEPT ![p] = o]
  BY <1>3 DEF UpdateRoot, Give, To
<1>5. Moves(p) /\ job'[p] = w
  BY <1>1, <1>2, <1>3, <1>4, KnownIs DEF Moves, HeapTypes, Labels, AllWords, Safe
<1>6. ~ Scans(p) /\ ~ Scans(p)' /\ ~ Writes(p)
  BY <1>1, <1>2, <1>5 DEF Scans, Writes, JobOK, Root
<1>7. \A o1, i : InLog(p, o1, i)' <=> InLog(p, o1, i)
  BY <1>1 DEF InLog
<1>8. \A o1, i : /\ Writing(p, o1, i) => Writing(p, o1, i)'
                 /\ Early(p, o1, i) => Early(p, o1, i)'
  BY <1>6, <1>7 DEF Writing, Early
<1>9. /\ \A x : Gray(x) \in work' <=> Gray(x) \in work
      /\ \A x, i : Segment(x, i) \in work' <=> Segment(x, i) \in work
  BY <1>1 DEF Gray, Segment
<1>10. FreshOK(p)'
  BY <1>6 DEF FreshOK
<1>. QED
  BY <1>1, <1>5, <1>6, <1>8, <1>9, <1>10, LocalImage

(* A step of p that stores field i of r at most, and changes no log.       *)
LEMMA StepImage ==
  ASSUME CopyInv, NEW p \in Procs, Moves(p), log' = log, NEW r, NEW i,
         \A o, k : Early(p, o, k) => Early(p, o, k)',
         \A x \in DOMAIN rep : \A k \in DOMAIN field[rep[x].src] :
           /\ x # r \/ k # i => rep'[x].fields[k] = rep[x].fields[k]
           /\ x # r \/ k # i =>
                \/ FieldOK(x, k)'
                \/ ~ (\/ Unscanned(x) \/ Segment(rep[x].src, k) \in work
                      \/ Scanning(p, x, k) \/ Writing(p, rep[x].src, k))
           /\ x = r /\ k = i =>
                /\ FieldOK(x, k)'
                /\ mode = "copy" =>
                     rep'[x].fields[k] = field[rep[x].src][k] \/ Current(x, k)',
         \A q \in Procs : q # p /\ Scans(q) /\ pc[q] = "forward" /\ job[q].rep = r
                                /\ job[q].index = i => Current(r, i)',
         BackOK', FreshOK(p)'
  PROVE  ImageInv'
<1>1. LockInv /\ ImageInv /\ HeapTypes
  BY DEF CopyInv, LockInv
<1>2. /\ mode' = mode /\ tag' = tag /\ field' = field /\ DOMAIN rep' = DOMAIN rep
      /\ \A x \in DOMAIN rep : rep'[x].src = rep[x].src
  BY DEF Moves
<1>3. \A q \in Procs : q # p =>
        /\ \A o, k : (Early(q, o, k)' <=> Early(q, o, k))
                     /\ (Writing(q, o, k)' <=> Writing(q, o, k))
        /\ Scans(q)' <=> Scans(q)
        /\ \A x, k : Scanning(q, x, k)' <=> Scanning(q, x, k)
        /\ pc'[q] = pc[q] /\ job'[q] = job[q] /\ white'[q] = white[q]
  BY <1>1, OthersWrite
<1>4. ASSUME NEW x \in DOMAIN rep, NEW k \in DOMAIN field[rep[x].src], x # r \/ k # i
      PROVE  Current(x, k)' <=> Current(x, k)
  BY <1>4, CurrentKeeps
<1>5. CopiedOK'
  <2>. SUFFICES ASSUME mode = "copy", NEW x \in DOMAIN rep, NEW k \in DOMAIN field[rep[x].src]
                PROVE  rep'[x].fields[k] = field[rep[x].src][k] \/ Current(x, k)'
    BY <1>2 DEF CopiedOK
  <2>1. CASE x = r /\ k = i
    BY <2>1
  <2>2. CASE x # r \/ k # i
    BY <1>1, <1>4, <2>2 DEF ImageInv, CopiedOK
  <2>. QED
    BY <2>1, <2>2
<1>6. FieldsOK'
  <2>. SUFFICES ASSUME NEW x \in DOMAIN rep, NEW k \in DOMAIN field[rep[x].src]
                PROVE  FieldOK(x, k)'
    BY <1>2 DEF FieldsOK
  <2>. PICK o : o = rep[x].src
    OBVIOUS
  <2>1. FieldOK(x, k)
    BY <1>1 DEF ImageInv, FieldsOK
  <2>2. CASE x = r /\ k = i
    BY <2>2
  <2>3. CASE x # r \/ k # i
    <3>1. CASE Current(x, k)
      BY <1>4, <2>3, <3>1 DEF FieldOK
    <3>2. CASE Unscanned(x) \/ Segment(o, k) \in work
      BY <2>3, <3>2
    <3>3. CASE \E q \in Procs : Scanning(q, x, k)
      <4>1. PICK q \in Procs : Scanning(q, x, k)
        BY <3>3
      <4>2. CASE q = p
        BY <2>3, <4>1, <4>2
      <4>3. CASE q # p
        <5>1. Scanning(q, x, k)'
          BY <1>3, <4>1, <4>3
        <5>. QED
          BY <5>1 DEF FieldOK
      <4>. QED
        BY <4>2, <4>3
    <3>4. CASE \E q \in Procs : Writing(q, o, k)
      <4>1. PICK q \in Procs : Writing(q, o, k)
        BY <3>4
      <4>2. CASE q = p
        BY <2>3, <4>1, <4>2
      <4>3. CASE q # p
        <5>1. Writing(q, o, k)' /\ rep'[x].src = o
          BY <1>2, <1>3, <4>1, <4>3
        <5>2. Writing(q, rep[x].src, k)'
          BY <5>1 DEF Writing, InLog
        <5>. QED
          BY <5>2 DEF FieldOK
      <4>. QED
        BY <4>2, <4>3
    <3>. QED
      BY <2>1, <3>1, <3>2, <3>3, <3>4 DEF FieldOK
  <2>. QED
    BY <2>2, <2>3
<1>7. \A o, k : Delayed(o, k) => Delayed(o, k)'
  BY <1>3 DEF Delayed
<1>8. ASSUME NEW q \in Procs
      PROVE  FreshOK(q)'
  <2>1. CASE q = p
    BY <2>1
  <2>2. CASE q # p
    <3>. PICK x, k, o : x = job[q].rep /\ k = job[q].index /\ o = rep[x].src
      OBVIOUS
    <3>1. FreshOK(q)
      BY <1>1 DEF ImageInv
    <3>2. Scans(q) => x \in DOMAIN rep
      BY <1>1, ScanIs
    <3>3. /\ job'[q] = job[q] /\ pc'[q] = pc[q] /\ white'[q] = white[q]
          /\ Scans(q)' <=> Scans(q)
      BY <1>3, <2>2
    <3>4. Scans(q) /\ pc[q] = "forward" => k \in DOMAIN field[o]
      <4>. HAVE Scans(q) /\ pc[q] = "forward"
      <4>1. job[q].index <= job[q].last
        BY <1>1 DEF LockInv, ScanOK
      <4>. QED
        BY <1>1, <4>1, ScanIs
    <3>5. Scans(q) /\ pc[q] = "forward" =>
            rep'[x].fields[k] = field'[o][k] \/ Current(x, k)' \/ Delayed(o, k)'
      <4>. HAVE Scans(q) /\ pc[q] = "forward"
      <4>1. CASE x = r /\ k = i
        BY <2>2, <4>1
      <4>2. CASE x # r \/ k # i
        <5>1. rep[x].fields[k] = field[o][k] \/ Current(x, k) \/ Delayed(o, k)
          BY <3>1 DEF FreshOK
        <5>. QED
          BY <1>2, <1>4, <1>7, <3>2, <3>4, <4>2, <5>1
      <4>. QED
        BY <4>1, <4>2
    <3>6. Scans(q) /\ pc[q] \in {"store"} \cup Forwarding =>
            white'[q] = field'[o][k] \/ Delayed(o, k)'
      BY <1>2, <1>7, <3>1, <3>3 DEF FreshOK
    <3>. QED
      BY <1>2, <3>2, <3>3, <3>5, <3>6, SMTT(30) DEF FreshOK, Delayed, Early, InLog, Writes, Current
  <2>. QED
    BY <2>1, <2>2
<1>. QED
  BY <1>5, <1>6, <1>8 DEF ImageInv

LEMMA RepFields ==
  ASSUME LockInv, NEW r \in DOMAIN rep
  PROVE  /\ DOMAIN rep[r].fields = DOMAIN field[rep[r].src] /\ rep[r].src \in Prims
         /\ rep[r].fields \in Seq(AllWords) /\ field[rep[r].src] \in Seq(Prims \cup {Nil})
         /\ Len(rep[r].fields) = Len(field[rep[r].src]) /\ Len(rep[r].fields) \in Nat
<1>1. rep[r] \in Replica /\ Len(rep[r].fields) = Len(field[rep[r].src]) /\ rep[r].src \in Prims
  BY OneSrc DEF LockInv, RepTypes
<1>2. rep[r].fields \in Seq(AllWords) /\ field[rep[r].src] \in Seq(Prims \cup {Nil})
  BY <1>1 DEF LockInv, HeapTypes, Replica, AllWords
<1>. QED
  BY <1>1, <1>2

(* A scan or a release stores field i of r.                                *)
LEMMA StoreImage ==
  ASSUME CopyInv, NEW p \in Procs, Moves(p), work' = work, log' = log,
         NEW r \in DOMAIN rep, ~ Unscanned(r), NEW i, NEW v, FieldSet(r, i, v),
         pc[p] \in {"field", "forward", "store"},
         Scans(p) => job[p].rep = r /\ job[p].index = i /\ i <= job[p].last,
         Scans(p) \/ Current(r, i)',
         \A k \in DOMAIN field[rep[r].src] :
           k # i /\ Scanning(p, r, k) => Scanning(p, r, k)',
         \A o, k : Writing(p, o, k) => Writing(p, o, k)' \/ (o = rep[r].src /\ k = i),
         i \in DOMAIN field[rep[r].src] => FieldOK(r, i)',
         mode = "copy" => rep'[r].fields[i] = field[rep[r].src][i] \/ Current(r, i)',
         i = 1 /\ mode # "copy" /\ rep[r].src \in Arrays => v # rep[r].src,
         FreshOK(p)'
  PROVE  ImageInv'
<1>1. LockInv /\ HeapTypes /\ ImageInv
  BY DEF CopyInv, LockInv
<1>2. /\ mode' = mode /\ DOMAIN rep' = DOMAIN rep
      /\ \A x \in DOMAIN rep : rep'[x].src = rep[x].src
  BY DEF Moves
<1>3. \A x \in DOMAIN rep : DOMAIN rep[x].fields = DOMAIN field[rep[x].src]
  BY <1>1, RepFields
<1>4. /\ \A x \in DOMAIN rep : x # r => rep'[x] = rep[x]
      /\ \A k \in DOMAIN rep[r].fields : k # i => rep'[r].fields[k] = rep[r].fields[k]
      /\ DOMAIN rep'[r].fields = DOMAIN rep[r].fields
      /\ i \in DOMAIN rep[r].fields => rep'[r].fields[i] = v
      /\ Len(rep'[r].fields) = Len(rep[r].fields) /\ rep' \in [DOMAIN rep -> Replica]
  BY DEF FieldSet
<1>5. \A o, k : Early(p, o, k) => Early(p, o, k)'
  BY DEF Early, InLog
<1>6. ASSUME NEW x \in DOMAIN rep, NEW k \in DOMAIN field[rep[x].src], x # r \/ k # i
      PROVE  /\ rep'[x].fields[k] = rep[x].fields[k]
             /\ (Unscanned(x) \/ Segment(rep[x].src, k) \in work \/ Scanning(p, x, k)
                              \/ Writing(p, rep[x].src, k)) => FieldOK(x, k)'
  <2>. PICK o : o = rep[x].src
    OBVIOUS
  <2>1. rep'[x].fields[k] = rep[x].fields[k]
    BY <1>3, <1>4, <1>6
  <2>2. ASSUME Unscanned(x) \/ Segment(o, k) \in work
        PROVE  FieldOK(x, k)'
    <3>1. Unscanned(x)' \/ Segment(rep[x].src, k)' \in work'
      BY <1>2, <2>2 DEF Unscanned, Segment
    <3>. QED
      BY <3>1 DEF FieldOK
  <2>3. ASSUME Scanning(p, x, k)
        PROVE  FieldOK(x, k)'
    <3>1. Scanning(p, x, k)'
      BY <1>6, <2>3 DEF Scanning
    <3>. QED
      BY <3>1 DEF FieldOK
  <2>4. ASSUME Writing(p, o, k)
        PROVE  FieldOK(x, k)'
    <3>1. o = rep[r].src => x = r
      BY <1>1, OneSrc
    <3>2. Writing(p, o, k)' /\ rep'[x].src = o
      BY <1>2, <1>6, <2>4, <3>1
    <3>3. Writing(p, rep[x].src, k)'
      BY <3>2 DEF Writing, InLog
    <3>. QED
      BY <3>3 DEF FieldOK
  <2>. QED
    BY <2>1, <2>2, <2>3, <2>4
<1>7. ASSUME NEW q \in Procs, q # p, Scans(q), pc[q] = "forward", job[q].rep = r,
             job[q].index = i
      PROVE  Current(r, i)'
  <2>1. job[q].index <= job[q].last
    BY <1>1, <1>7 DEF LockInv, ScanOK
  <2>2. ~ Scans(p)
    BY <1>1, <1>7, <2>1, OneScan
  <2>. QED
    BY <2>2
<1>8. BackOK'
  <2>. SUFFICES ASSUME NEW x \in DOMAIN rep, rep[x].src \in Arrays, mode # "copy",
                       rep'[x].fields # <<>>, rep'[x].fields[1] = rep[x].src
                PROVE  \/ Unscanned(x)'
                       \/ \E q \in Procs : /\ Scans(q)' /\ job'[q].rep = x /\ job'[q].index = 1
                                           /\ pc'[q] = "field" /\ ~ IsLong(x)'
    BY <1>2 DEF BackOK
  <2>1. rep[x].fields # <<>> /\ rep[x].fields[1] = rep[x].src
    <3>1. CASE x # r
      BY <1>4, <3>1
    <3>2. CASE x = r
      <4>1. rep[r].fields \in Seq(AllWords) /\ rep'[r].fields \in Seq(AllWords)
        BY <1>1, <1>4, RepFields DEF Replica, AllWords
      <4>2. rep[r].fields # <<>> /\ 1 \in DOMAIN rep[r].fields
        BY <1>4, <3>2, <4>1
      <4>3. i # 1
        BY <1>4, <3>2, <4>2
      <4>. QED
        BY <1>4, <3>2, <4>2, <4>3
    <3>. QED
      BY <3>1, <3>2
  <2>2. Unscanned(x) => Unscanned(x)'
    BY <1>2 DEF Unscanned
  <2>3. ASSUME NEW q \in Procs, Scans(q), job[q].rep = x, job[q].index = 1, pc[q] = "field",
               ~ IsLong(x)
        PROVE  /\ Scans(q)' /\ job'[q].rep = x /\ job'[q].index = 1
               /\ pc'[q] = "field" /\ ~ IsLong(x)'
    <3>1. q # p
      <4>. SUFFICES ASSUME q = p PROVE FALSE
        OBVIOUS
      <4>1. x = r /\ i = 1
        BY <2>3
      <4>2. 1 \in DOMAIN rep[r].fields
        <5>1. rep[r].fields \in Seq(AllWords)
          BY <1>1, RepFields
        <5>. QED
          BY <2>1, <4>1, <5>1
      <4>. QED
        BY <1>4, <4>1, <4>2
    <3>2. Scans(q)' /\ job'[q] = job[q] /\ pc'[q] = pc[q]
      BY <1>1, <2>3, <3>1, OthersWrite
    <3>3. ~ IsLong(x)'
      BY <2>3, SameLong
    <3>. QED
      BY <2>3, <3>2, <3>3
  <2>4. \/ Unscanned(x)
        \/ \E q \in Procs : /\ Scans(q) /\ job[q].rep = x /\ job[q].index = 1
                            /\ pc[q] = "field" /\ ~ IsLong(x)
    BY <1>1, <2>1 DEF ImageInv, BackOK
  <2>. QED
    BY <2>2, <2>3, <2>4
<1>9. \A x \in DOMAIN rep : \A k \in DOMAIN field[rep[x].src] :
         /\ x # r \/ k # i => rep'[x].fields[k] = rep[x].fields[k]
         /\ x # r \/ k # i =>
              \/ FieldOK(x, k)'
              \/ ~ (\/ Unscanned(x) \/ Segment(rep[x].src, k) \in work
                    \/ Scanning(p, x, k) \/ Writing(p, rep[x].src, k))
         /\ x = r /\ k = i =>
              /\ FieldOK(x, k)'
              /\ mode = "copy" =>
                   rep'[x].fields[k] = field[rep[x].src][k] \/ Current(x, k)'
  <2>. TAKE x \in DOMAIN rep
  <2>. TAKE k \in DOMAIN field[rep[x].src]
  <2>1. CASE x # r \/ k # i
    BY <1>6, <2>1
  <2>2. CASE x = r /\ k = i
    BY <2>2
  <2>. QED
    BY <2>1, <2>2
<1>10. \A q \in Procs : q # p /\ Scans(q) /\ pc[q] = "forward" /\ job[q].rep = r
                                /\ job[q].index = i => Current(r, i)'
  BY <1>7
<1>. QED
  BY ONLY CopyInv, p \in Procs, Moves(p), log' = log, FreshOK(p)',
          <1>5, <1>8, <1>9, <1>10, StepImage

(* A step of p that stores no field, and changes no log.                   *)
LEMMA KeepsImage ==
  ASSUME CopyInv, NEW p \in Procs, Moves(p), log' = log, ~ Writes(p), Writes(p)' <=> Writes(p),
         \A x \in DOMAIN rep : rep'[x].fields = rep[x].fields,
         \A x \in DOMAIN rep : \A k \in DOMAIN field[rep[x].src] :
           Unscanned(x) \/ Segment(rep[x].src, k) \in work \/ Scanning(p, x, k)
             => Unscanned(x)' \/ Segment(rep[x].src, k) \in work' \/ Scanning(p, x, k)',
         BackOK', FreshOK(p)'
  PROVE  ImageInv'
<1>1. Nil \notin DOMAIN rep /\ LockInv
  BY Constants DEF CopyInv, LockInv, NamesOK
<1>2. \A o, k : /\ Early(p, o, k) => Early(p, o, k)'
                /\ Writing(p, o, k) => Writing(p, o, k)'
  BY DEF Early, Writing, InLog
<1>3. ASSUME NEW x \in DOMAIN rep, NEW k \in DOMAIN field[rep[x].src],
             \/ Unscanned(x) \/ Segment(rep[x].src, k) \in work
             \/ Scanning(p, x, k) \/ Writing(p, rep[x].src, k)
      PROVE  FieldOK(x, k)'
  <2>. PICK o : o = rep[x].src
    OBVIOUS
  <2>1. rep'[x].src = o
    BY DEF Moves
  <2>2. CASE Writing(p, o, k)
    <3>1. Writing(p, o, k)' /\ rep'[x].src = o
      BY <1>2, <2>1, <2>2
    <3>2. Writing(p, rep[x].src, k)'
      BY <3>1 DEF Writing, InLog
    <3>. QED
      BY <3>2 DEF FieldOK
  <2>3. CASE ~ Writing(p, o, k)
    <3>1. Unscanned(x)' \/ Segment(rep[x].src, k)' \in work' \/ Scanning(p, x, k)'
      BY <1>3, <2>1, <2>3 DEF Segment
    <3>. QED
      BY <3>1 DEF FieldOK
  <2>. QED
    BY <2>2, <2>3
<1>4. ASSUME NEW x \in DOMAIN rep, NEW k \in DOMAIN field[rep[x].src]
      PROVE  /\ rep'[x].fields[k] = rep[x].fields[k] /\ x # Nil
             /\ \/ FieldOK(x, k)'
                \/ ~ (\/ Unscanned(x) \/ Segment(rep[x].src, k) \in work
                      \/ Scanning(p, x, k) \/ Writing(p, rep[x].src, k))
  BY <1>1, <1>3
<1>5. \A q \in Procs : Scans(q) => job[q].rep # Nil
  BY <1>1, ScanIs
<1>. QED
  BY ONLY CopyInv, p \in Procs, Moves(p), log' = log, BackOK', FreshOK(p)',
          <1>2, <1>4, <1>5, StepImage

(* What the scan copies is not the array itself.                           *)
LEMMA TransferFieldImage ==
  ASSUME CopyInv, NoSelf, NEW p \in Procs, TransferField(p)
  PROVE  ImageInv'
<1>. PICK j, o, r, i, v : /\ j = job[p] /\ r = j.rep /\ i = j.index /\ o = rep[r].src
                          /\ v = field[o][i]
  OBVIOUS
<1>1. LockInv /\ ImageInv
  BY DEF CopyInv
<1>2. /\ Scans(p) /\ i <= j.last /\ pc[p] = "field"
      /\ Moves(p) /\ pc'[p] = "forward" /\ job' = job /\ UNCHANGED <<work, log>>
      /\ mode = "copy" => rep' = rep
      /\ mode # "copy" => FieldSet(r, i, v)
  BY <1>1, TransferFieldIs
<1>3. /\ r \in DOMAIN rep /\ ~ Unscanned(r) /\ ~ Writes(p)
      /\ i \in DOMAIN rep[r].fields /\ i \in DOMAIN field[o] /\ i \in Nat
  BY <1>2, <1>1, ScanIs
<1>4. /\ \A x, k : Scanning(p, x, k)' <=> Scanning(p, x, k)
      /\ Writes(p)' <=> Writes(p)
      /\ \A a, k : Writing(p, a, k) => Writing(p, a, k)'
      /\ Scanning(p, r, i)' /\ job'[p] = j
  BY <1>2, <1>3 DEF Scanning, Scans, Writes, Writing, InLog
<1>5. field' = field /\ mode' = mode /\ rep'[r].src = o
  BY <1>2, <1>3 DEF Moves
<1>6. FieldOK(r, i)'
  BY <1>4 DEF FieldOK
<1>7. CASE mode = "copy"
  <2>1. rep[r].fields[i] = v \/ Current(r, i)
    BY <1>1, <1>3, <1>7 DEF ImageInv, CopiedOK
  <2>2. Current(r, i) => Current(r, i)'
    BY <1>2, <1>3, <1>7, CurrentKeeps
  <2>3. rep'[r].fields[i] = field'[o][i] \/ Current(r, i)'
    BY <1>2, <1>5, <1>7, <2>1, <2>2
  <2>4. FreshOK(p)'
    BY <1>2, <1>4, <1>5, <2>3 DEF FreshOK, Current, Forwarding
  <2>5. BackOK'
    BY <1>5, <1>7 DEF BackOK
  <2>6. \A x \in DOMAIN rep : Unscanned(x) => Unscanned(x)'
    BY <1>2, <1>7 DEF Unscanned
  <2>. QED
    BY <1>2, <1>3, <1>4, <1>7, <2>4, <2>5, <2>6, KeepsImage
<1>8. CASE mode # "copy"
  <2>1. rep'[r].fields[i] = v
    BY <1>2, <1>3, <1>8 DEF FieldSet
  <2>2. FreshOK(p)'
    BY <1>2, <1>4, <1>5, <2>1 DEF FreshOK, Forwarding
  <2>3. i = 1 /\ o \in Arrays => v # o
    BY <1>3 DEF NoSelf
  <2>. QED
    BY <1>2, <1>3, <1>4, <1>6, <1>8, <2>2, <2>3, StoreImage
<1>. QED
  BY <1>7, <1>8

(* A step of p that handles no log leaves the writes to come.              *)
LEMMA DelayedKeeps ==
  ASSUME HeapTypes, NEW p \in Procs, Moves(p), log' = log,
         pc[p] \in {"field", "forward", "store"}
  PROVE  \A o, i : Delayed(o, i) => Delayed(o, i)' /\ \E q \in Procs : Writing(q, o, i)'
<1>. TAKE o, i
<1>. HAVE Delayed(o, i)
<1>1. PICK q \in Procs : Early(q, o, i)
  BY DEF Delayed
<1>2. Early(q, o, i)'
  <2>1. CASE q = p
    BY <1>1, <2>1 DEF Early, InLog
  <2>2. CASE q # p
    BY <1>1, <2>2, OthersWrite
  <2>. QED
    BY <2>1, <2>2
<1>3. Writing(q, o, i)'
  BY <1>2 DEF Early, Writing
<1>. QED
  BY <1>2, <1>3 DEF Delayed

(* The field that p has stored.                                            *)
LEMMA StoredOK ==
  ASSUME NEW p, Moves(p), NEW r \in DOMAIN rep, NEW i, NEW o, o = rep[r].src,
         Current(r, i)' \/ \E q \in Procs : Writing(q, o, i)'
  PROVE  FieldOK(r, i)'
<1>1. rep'[r].src = o
  BY DEF Moves
<1>2. CASE Current(r, i)'
  BY <1>2 DEF FieldOK
<1>3. CASE \E q \in Procs : Writing(q, o, i)'
  <2>1. PICK q \in Procs : Writing(q, o, i)'
    BY <1>3
  <2>2. Writing(q, rep[r].src, i)'
    BY <1>1, <2>1 DEF Writing, InLog
  <2>. QED
    BY <2>2 DEF FieldOK
<1>. QED
  BY <1>2, <1>3

LEMMA ForwardFieldImage ==
  ASSUME CopyInv, NEW p \in Procs, ForwardField(p)
  PROVE  ImageInv'
<1>. PICK j, o, r, i, old : /\ j = job[p] /\ r = j.rep /\ i = j.index /\ o = rep[r].src
                            /\ old = rep[r].fields[i]
  OBVIOUS
<1>. PICK self \in BOOLEAN : self <=> Sync(r) /\ field[o][i] = o
  OBVIOUS
<1>. PICK v : v = IF self THEN r ELSE old
  OBVIOUS
<1>1. LockInv /\ ImageInv /\ HeapTypes /\ FreshOK(p)
  BY DEF CopyInv, LockInv, ImageInv
<1>2. /\ Scans(p) /\ i <= j.last /\ pc[p] = "forward" /\ Moves(p)
      /\ UNCHANGED <<work, log>> /\ FieldSet(r, i, v)
      /\ IF ~ self /\ old \in Prims
           THEN pc'[p] = "alloc" /\ job'[p] = j /\ white'[p] = old
           ELSE pc'[p] = "field" /\ job'[p] = [j EXCEPT !.index = @ + 1]
  BY <1>1, ForwardFieldIs, Zenon
<1>3. /\ r \in DOMAIN rep /\ ~ Unscanned(r) /\ ~ Writes(p) /\ o \in Prims
      /\ i \in DOMAIN rep[r].fields /\ i \in DOMAIN field[o] /\ i \in Nat /\ j.last \in Nat
      /\ j = Scan(j.obj, j.rep, j.index, j.last)
  BY <1>1, <1>2, ScanIs
<1>4. /\ field' = field /\ mode' = mode /\ tag' = tag /\ rep'[r].src = o
      /\ DOMAIN rep' = DOMAIN rep
  BY <1>2, <1>3 DEF Moves
<1>5. rep'[r].fields[i] = v
  BY <1>2, <1>3 DEF FieldSet
<1>6. \A a, k : Delayed(a, k) => Delayed(a, k)' /\ \E q \in Procs : Writing(q, a, k)'
  BY <1>1, <1>2, DelayedKeeps
<1>7. v = old /\ Current(r, i) => Current(r, i)'
  BY <1>2, <1>3, <1>5, CurrentKeeps
<1>8. tag[o] = r /\ r \notin Prims
  BY <1>1, <1>3, Constants DEF LockInv, OneReplica, NamesOK
<1>9. old = field[o][i] \/ Current(r, i) \/ Delayed(o, i)
  BY <1>1, <1>2 DEF FreshOK
<1>10. mode = "copy" => rep'[r].fields[i] = field[o][i] \/ Current(r, i)'
  <2>. HAVE mode = "copy"
  <2>1. v = old
    BY DEF Sync
  <2>2. old = field[o][i] \/ Current(r, i)
    BY <1>1, <1>3 DEF ImageInv, CopiedOK
  <2>. QED
    BY <1>5, <1>7, <2>1, <2>2
<1>11. i = 1 /\ mode # "copy" /\ o \in Arrays => v # o
  <2>. SUFFICES ASSUME i = 1, mode # "copy", o \in Arrays, v = o PROVE FALSE
    OBVIOUS
  <2>1. ~ self /\ old = o
    BY <1>3, <1>8
  <2>2. rep[r].fields # <<>>
    BY <1>3
  <2>3. PICK q \in Procs : Scans(q) /\ job[q].rep = r /\ pc[q] = "field" /\ ~ IsLong(r)
    BY <1>1, <1>3, <2>1, <2>2 DEF ImageInv, BackOK
  <2>4. q = p
    BY <1>1, <1>2, <2>3, OneScan
  <2>. QED
    BY <1>2, <2>3, <2>4
<1>12. CASE ~ self /\ old \in Prims
  <2>1. pc'[p] = "alloc" /\ job'[p] = j /\ white'[p] = old /\ v = old
    BY <1>2, <1>12
  <2>2. \A x, k : Scanning(p, x, k)' <=> Scanning(p, x, k)
    BY <2>1 DEF Scanning, Scans
  <2>3. \A a, k : Writing(p, a, k) => Writing(p, a, k)'
    BY <1>2, <2>1 DEF Writing, Writes, InLog
  <2>4. FieldOK(r, i)'
    <3>1. Scanning(p, r, i)
      BY <1>2, <1>3 DEF Scanning
    <3>. QED
      BY <2>2, <3>1 DEF FieldOK
  <2>5. old = field[o][i] \/ Delayed(o, i)
    <3>1. CASE Current(r, i)
      <4>1. old = Image(field[o][i])
        BY <3>1 DEF Current
      <4>2. field[o][i] \notin Prims
        BY <1>1, <1>12, <3>1, <4>1, Constants DEF Current, LockInv, NamesOK
      <4>. QED
        BY <1>12, <4>1, <4>2 DEF Image
    <3>. QED
      BY <1>9, <3>1
  <2>6. FreshOK(p)'
    <3>1. old = field'[o][i] \/ Delayed(o, i)'
      BY <1>4, <1>6, <2>5
    <3>. QED
      BY <1>4, <2>1, <3>1 DEF FreshOK, Delayed, Early, InLog, Writes
  <2>. QED
    BY <1>1, <1>2, <1>3, <1>10, <1>11, <2>2, <2>3, <2>4, <2>6, StoreImage
<1>13. CASE self \/ old \notin Prims
  <2>1. pc'[p] = "field" /\ job'[p] = [j EXCEPT !.index = @ + 1]
    BY <1>2, <1>13
  <2>2. job'[p].kind = j.kind /\ job'[p].rep = r /\ job'[p].last = j.last /\ job'[p].index = i + 1
    BY <1>3, <2>1 DEF Scan
  <2>3. ASSUME NEW k \in DOMAIN field[o], k # i, Scanning(p, r, k)
        PROVE  Scanning(p, r, k)'
    <3>1. k \in Nat
      BY <1>1, <1>3 DEF HeapTypes
    <3>. QED
      BY <1>3, <2>2, <2>3, <3>1 DEF Scanning, Scans
  <2>4. \A a, k : Writing(p, a, k) => Writing(p, a, k)'
    BY <1>2, <1>3 DEF Writing, InLog
  <2>5. Current(r, i)' \/ \E q \in Procs : Writing(q, o, i)'
    <3>1. CASE self
      BY <1>3, <1>4, <1>5, <1>8, <3>1 DEF Current, Image
    <3>2. CASE ~ self /\ old = field[o][i]
      BY <1>4, <1>5, <1>13, <3>2 DEF Current, Image
    <3>3. CASE ~ self /\ Current(r, i)
      BY <1>7, <3>3
    <3>4. CASE Delayed(o, i)
      BY <1>6, <3>4
    <3>. QED
      BY <1>9, <3>1, <3>2, <3>3, <3>4
  <2>6. FieldOK(r, i)'
    BY <1>2, <1>3, <2>5, StoredOK
  <2>7. FreshOK(p)'
    BY <2>1 DEF FreshOK, Forwarding
  <2>. QED
    BY <1>1, <1>2, <1>3, <1>10, <1>11, <2>3, <2>4, <2>6, <2>7, StoreImage, SMTT(30)
<1>. QED
  BY <1>12, <1>13

LEMMA StoreReplicaImage ==
  ASSUME CopyInv, NEW p \in Procs, StoreReplica(p)
  PROVE  ImageInv'
<1>. PICK j, r, i, o, v : /\ j = job[p] /\ i = j.index /\ v = Image(white[p])
                          /\ r = IF Scans(p) THEN j.rep ELSE tag[j.obj]
                          /\ o = rep[r].src
  OBVIOUS
<1>1. LockInv /\ ImageInv /\ HeapTypes /\ FreshOK(p) /\ WriteOK(p) /\ StoreOK
  BY DEF CopyInv, LockInv, ImageInv
<1>2. /\ (Scans(p) /\ i <= j.last) \/ Writes(p)
      /\ pc[p] = "store" /\ Moves(p) /\ UNCHANGED <<work, log>>
      /\ r \in DOMAIN rep /\ ~ Unscanned(r) /\ FieldSet(r, i, v)
      /\ IF Scans(p)
           THEN pc'[p] = "field" /\ job'[p] = [j EXCEPT !.index = @ + 1]
           ELSE pc'[p] \in {"mutator", "release"} /\ job'[p] = Root(Nil)
  BY <1>1, StoreReplicaIs, Zenon
<1>3. /\ field' = field /\ mode' = mode /\ tag' = tag /\ rep'[r].src = o
      /\ DOMAIN rep' = DOMAIN rep
  BY <1>2 DEF Moves
<1>4. /\ DOMAIN rep[r].fields = DOMAIN field[o]
      /\ \A k \in DOMAIN field[o] : k \in Nat
      /\ i \in DOMAIN field[o] => rep'[r].fields[i] = v
  <2>1. DOMAIN rep[r].fields = DOMAIN field[o] /\ rep[r].fields \in Seq(AllWords)
    BY <1>1, <1>2, RepFields
  <2>2. \A k \in DOMAIN rep[r].fields : k \in Nat
    BY <2>1
  <2>3. i \in DOMAIN rep[r].fields => rep'[r].fields[i] = v
    BY <1>2 DEF FieldSet
  <2>. QED
    BY <2>1, <2>2, <2>3
<1>5. \A a, k : Delayed(a, k) => Delayed(a, k)' /\ \E q \in Procs : Writing(q, a, k)'
  BY <1>1, <1>2, DelayedKeeps
<1>6. white[p] \in Prims => v = tag[white[p]] /\ v \in DOMAIN rep
  BY <1>1, <1>2 DEF StoreOK, Image
<1>7. v \notin Prims
  BY <1>1, <1>6, Constants DEF Image, LockInv, NamesOK
<1>8. i = 1 /\ mode # "copy" /\ o \in Arrays => v # o
  BY <1>7, Constants
<1>9. i \in DOMAIN field[o] /\ white[p] = field[o][i] => Current(r, i)'
  BY <1>3, <1>4, <1>6 DEF Current, Image
<1>10. FreshOK(p)'
  BY <1>2 DEF FreshOK, Forwarding
<1>11. CASE Scans(p)
  <2>1. /\ ~ Writes(p) /\ i <= j.last /\ r = j.rep
        /\ i \in DOMAIN field[o] /\ i \in Nat /\ j.last \in Nat
        /\ j = Scan(j.obj, j.rep, j.index, j.last)
    BY <1>1, <1>2, <1>11, ScanIs
  <2>2. job'[p] = [j EXCEPT !.index = @ + 1]
    BY <1>2, <1>11
  <2>3. job'[p].kind = j.kind /\ job'[p].rep = r /\ job'[p].last = j.last /\ job'[p].index = i + 1
    BY <2>1, <2>2 DEF Scan
  <2>4. \A k \in DOMAIN field[o] : k # i /\ Scanning(p, r, k) => Scanning(p, r, k)'
    BY <1>4, <2>1, <2>3 DEF Scanning, Scans
  <2>5. \A a, k : Writing(p, a, k) => Writing(p, a, k)'
    BY <1>2, <2>1 DEF Writing, InLog
  <2>6. white[p] = field[o][i] \/ Delayed(o, i)
    BY <1>1, <1>2, <1>11, <2>1 DEF FreshOK
  <2>7. FieldOK(r, i)'
    <3>1. Current(r, i)' \/ \E q \in Procs : Writing(q, o, i)'
      BY <1>5, <1>9, <2>1, <2>6
    <3>. QED
      BY <1>2, <3>1, StoredOK
  <2>8. mode = "copy" => Current(r, i)'
    <3>. HAVE mode = "copy"
    <3>1. ~ Delayed(o, i)
      <4>1. \A q \in Procs : log[q] = <<>> /\ ~ Writes(q)
        BY <1>1 DEF LockInv, Stopped, JobOK
      <4>. QED
        BY <4>1 DEF Delayed, Early, InLog
    <3>. QED
      BY <1>9, <2>1, <2>6, <3>1
  <2>. QED
    BY <1>2, <1>8, <1>10, <1>11, <2>1, <2>4, <2>5, <2>7, <2>8, StoreImage
<1>12. CASE ~ Scans(p)
  <2>1. Writes(p) /\ r = tag[j.obj]
    BY <1>2, <1>12
  <2>2. j.obj = o /\ i \in DOMAIN field[o] /\ mode # "copy"
    BY <1>1, <1>2, <2>1, WriteIs
  <2>3. white[p] = field[o][i]
    BY <1>1, <1>2, <2>1, <2>2 DEF WriteOK
  <2>4. Current(r, i)'
    BY <1>9, <2>2, <2>3
  <2>5. FieldOK(r, i)'
    BY <2>4 DEF FieldOK
  <2>6. \A a, k : Writing(p, a, k) => Writing(p, a, k)' \/ (a = o /\ k = i)
    BY <1>2, <2>2 DEF Writing, InLog
  <2>7. \A k : ~ Scanning(p, r, k)
    BY <1>12 DEF Scanning
  <2>. QED
    BY <1>2, <1>8, <1>10, <1>12, <2>2, <2>4, <2>5, <2>6, <2>7, StoreImage
<1>. QED
  BY <1>11, <1>12

(* The scan of a long array is left to the scans of its segments.          *)
LEMMA BreakUpImage ==
  ASSUME CopyInv, NEW p \in Procs, NEW w \in work, BreakUp(p, w)
  PROVE  ImageInv'
<1>. PICK r, o : r = GrayReplica(w.obj) /\ o = rep[r].src
  OBVIOUS
<1>1. LockInv /\ ImageInv /\ HeapTypes
  BY DEF CopyInv, LockInv, ImageInv
<1>2. /\ w.kind = "gray" /\ mode # "copy" /\ pc[p] = "mutator" /\ UNCHANGED <<pc, job, log>>
      /\ Moves(p) /\ FieldSet(r, 1, Cleared)
      /\ work' = (work \ {w}) \cup {Segment(o, i) : i \in DOMAIN rep[r].fields}
      /\ DOMAIN rep[r].fields = DOMAIN field[o] /\ 1 \in DOMAIN rep[r].fields
  BY <1>1, BreakUpIs
<1>3. r \in DOMAIN rep /\ Unscanned(r) /\ w \in {Gray(r), Gray(o)} /\ o \in Prims
  BY <1>1, <1>2, GrayIs
<1>4. /\ mode' = mode /\ DOMAIN rep' = DOMAIN rep
      /\ \A x \in DOMAIN rep : rep'[x].src = rep[x].src
  BY <1>2 DEF Moves
<1>5. \A x \in DOMAIN rep : DOMAIN rep[x].fields = DOMAIN field[rep[x].src]
  BY <1>1, RepFields
<1>6. /\ \A x \in DOMAIN rep : x # r => rep'[x] = rep[x]
      /\ \A k \in DOMAIN rep[r].fields : k # 1 => rep'[r].fields[k] = rep[r].fields[k]
      /\ rep'[r].fields[1] = Cleared
  BY <1>2 DEF FieldSet
<1>7. ~ Scans(p) /\ ~ Writes(p)
  <2>1. job[p] = Root(Nil)
    BY <1>1, <1>2 DEF LockInv, JobOK
  <2>. QED
    BY <2>1 DEF Scans, Writes, Root
<1>8. \A q \in Procs : (Scans(q)' <=> Scans(q)) /\ \A a, k : Writing(q, a, k)' <=> Writing(q, a, k)
  BY <1>2 DEF Scans, Writing, InLog, Writes
<1>9. \A a, k : Early(p, a, k) => Early(p, a, k)'
  BY <1>2 DEF Early, InLog, Writes
<1>10. ASSUME NEW x \in DOMAIN rep, x # r, Unscanned(x)
       PROVE  Unscanned(x)'
  <2>1. rep[x].src # o /\ rep[x].src \in Prims /\ x \notin Prims /\ r \notin Prims
    BY <1>1, <1>3, <1>10, OneSrc, Constants DEF LockInv, NamesOK
  <2>2. Gray(x) # w /\ Gray(rep[x].src) # w
    BY <1>3, <1>10, <2>1 DEF Gray
  <2>. QED
    BY <1>2, <1>4, <1>10, <2>2 DEF Unscanned
<1>11. \A a, k : Segment(a, k) \in work => Segment(a, k) \in work'
  BY <1>2, <1>3 DEF Segment, Gray
<1>12. ASSUME NEW x \in DOMAIN rep, NEW k \in DOMAIN field[rep[x].src],
              Unscanned(x) \/ Segment(rep[x].src, k) \in work \/ Writing(p, rep[x].src, k)
       PROVE  FieldOK(x, k)'
  <2>. PICK a : a = rep[x].src
    OBVIOUS
  <2>1. CASE Writing(p, a, k)
    <3>1. Writing(p, a, k)'
      BY <1>8, <2>1
    <3>. QED
      BY <1>2, <3>1, StoredOK
  <2>2. CASE Unscanned(x) /\ x # r
    BY <1>10, <2>2 DEF FieldOK
  <2>3. CASE Segment(a, k) \in work \/ x = r
    <3>1. Segment(rep'[x].src, k) \in work'
      BY <1>2, <1>4, <1>11, <1>12, <2>3
    <3>. QED
      BY <3>1 DEF FieldOK, Segment
  <2>. QED
    BY <1>12, <2>1, <2>2, <2>3
<1>13. \A x \in DOMAIN rep : \A k \in DOMAIN field[rep[x].src] :
         /\ x # r \/ k # 1 => rep'[x].fields[k] = rep[x].fields[k]
         /\ x # r \/ k # 1 =>
              \/ FieldOK(x, k)'
              \/ ~ (\/ Unscanned(x) \/ Segment(rep[x].src, k) \in work
                    \/ Scanning(p, x, k) \/ Writing(p, rep[x].src, k))
         /\ x = r /\ k = 1 =>
              /\ FieldOK(x, k)'
              /\ mode = "copy" =>
                   rep'[x].fields[k] = field[rep[x].src][k] \/ Current(x, k)'
  <2>. TAKE x \in DOMAIN rep
  <2>. TAKE k \in DOMAIN field[rep[x].src]
  <2>1. x # r \/ k # 1 => rep'[x].fields[k] = rep[x].fields[k]
    BY <1>5, <1>6
  <2>2. ~ Scanning(p, x, k)
    BY <1>7 DEF Scanning
  <2>3. x = r => FieldOK(x, k)'
    BY <1>3, <1>12
  <2>. QED
    BY <1>2, <1>12, <2>1, <2>2, <2>3
<1>14. \A q \in Procs : q # p /\ Scans(q) /\ pc[q] = "forward" /\ job[q].rep = r
                                 /\ job[q].index = 1 => Current(r, 1)'
  BY <1>1, <1>3, ScanIs
<1>15. BackOK'
  <2>. SUFFICES ASSUME NEW x \in DOMAIN rep, rep[x].src \in Arrays, mode # "copy",
                       rep'[x].fields # <<>>, rep'[x].fields[1] = rep[x].src
                PROVE  \/ Unscanned(x)'
                       \/ \E q \in Procs : /\ Scans(q)' /\ job'[q].rep = x /\ job'[q].index = 1
                                           /\ pc'[q] = "field" /\ ~ IsLong(x)'
    BY <1>4 DEF BackOK
  <2>1. x # r
    BY <1>3, <1>6, Constants
  <2>2. \/ Unscanned(x)
        \/ \E q \in Procs : /\ Scans(q) /\ job[q].rep = x /\ job[q].index = 1
                            /\ pc[q] = "field" /\ ~ IsLong(x)
    BY <1>1, <1>6, <2>1 DEF ImageInv, BackOK
  <2>3. IsLong(x)' <=> IsLong(x)
    BY <1>2, SameLong
  <2>. QED
    BY <1>2, <1>8, <1>10, <2>1, <2>2, <2>3
<1>16. FreshOK(p)'
  BY <1>7, <1>8 DEF FreshOK
<1>. QED
  BY ONLY CopyInv, p \in Procs, <1>2, <1>9, <1>13, <1>14, <1>15, <1>16, StepImage

LEMMA BackKeeps ==
  ASSUME CopyInv, NEW p \in Procs, Moves(p),
         \A x \in DOMAIN rep : rep'[x].fields = rep[x].fields,
         \A x \in DOMAIN rep : Unscanned(x) =>
           \/ Unscanned(x)'
           \/ Scans(p)' /\ job'[p].rep = x /\ job'[p].index = 1 /\ pc'[p] = "field" /\ ~ IsLong(x),
         \A x \in DOMAIN rep : rep[x].fields # <<>> /\ Scans(p) /\ job[p].rep = x =>
           job[p].index # 1 \/ pc[p] # "field" \/ IsLong(x)
  PROVE  BackOK'
<1>1. LockInv /\ HeapTypes /\ BackOK
  BY DEF CopyInv, LockInv, ImageInv
<1>2. /\ mode' = mode /\ DOMAIN rep' = DOMAIN rep
      /\ \A x \in DOMAIN rep : rep'[x].src = rep[x].src
  BY DEF Moves
<1>3. \A x \in DOMAIN rep : IsLong(x)' <=> IsLong(x)
  BY SameLong
<1>. SUFFICES ASSUME NEW x \in DOMAIN rep, rep[x].src \in Arrays, mode # "copy",
                     rep[x].fields # <<>>, rep[x].fields[1] = rep[x].src
              PROVE  \/ Unscanned(x)'
                     \/ \E q \in Procs : /\ Scans(q)' /\ job'[q].rep = x /\ job'[q].index = 1
                                         /\ pc'[q] = "field" /\ ~ IsLong(x)
  BY <1>2, <1>3 DEF BackOK
<1>4. \/ Unscanned(x)
      \/ \E q \in Procs : /\ Scans(q) /\ job[q].rep = x /\ job[q].index = 1
                          /\ pc[q] = "field" /\ ~ IsLong(x)
  BY <1>1 DEF BackOK
<1>5. ASSUME NEW q \in Procs, Scans(q), job[q].rep = x, job[q].index = 1,
             pc[q] = "field", ~ IsLong(x)
      PROVE  Scans(q)' /\ job'[q] = job[q] /\ pc'[q] = pc[q]
  <2>1. q # p
    BY <1>5
  <2>. QED
    BY <1>1, <1>5, <2>1, Others DEF Scans
<1>. QED
  BY <1>4, <1>5

LEMMA ScanObjectImage ==
  ASSUME CopyInv, NEW p \in Procs, NEW w \in work, ScanObject(p, w)
  PROVE  ImageInv'
<1>. PICK r, o, n, g : /\ r = GrayReplica(w.obj) /\ o = rep[r].src /\ n = Len(rep[r].fields)
                       /\ g = GrayPrimary(w.obj)
  OBVIOUS
<1>1. LockInv /\ HeapTypes
  BY DEF CopyInv, LockInv
<1>2. /\ w.kind = "gray" /\ ~ IsLong(r) /\ pc[p] = "mutator" /\ pc'[p] = "field"
      /\ Moves(p) /\ log' = log /\ work' = work \ {w}
      /\ job'[p] = Scan(g, r, 1, n)
      /\ TagSet(r, IF Sync(r) THEN Stall ELSE rep[r].tag)
  BY <1>1, ScanObjectIs
<1>3. /\ r \in DOMAIN rep /\ o \in Prims /\ w \in {Gray(r), Gray(o)}
      /\ field[o] \in Seq(Prims \cup {Nil}) /\ Len(field[o]) = n
  BY <1>1, <1>2, GrayIs
<1>4. \A x \in DOMAIN rep : rep'[x].fields = rep[x].fields
  BY <1>2 DEF TagSet
<1>5. \A x \in DOMAIN rep : rep'[x].src = rep[x].src
  BY <1>2 DEF Moves
<1>6. job[p] = Root(Nil)
  BY <1>1, <1>2 DEF LockInv, JobOK
<1>7. ~ Scans(p) /\ ~ Writes(p) /\ Scans(p)' /\ ~ Writes(p)'
  BY <1>2, <1>6 DEF Scans, Writes, Scan, Root
<1>8. job'[p].rep = r /\ job'[p].index = 1 /\ job'[p].last = n
  BY <1>2 DEF Scan
<1>9. ASSUME NEW x \in DOMAIN rep, x # r, Unscanned(x)
      PROVE  Unscanned(x)'
  <2>1. rep[x].src # o /\ rep[x].src \in Prims /\ x \notin Prims /\ r \notin Prims
    BY <1>1, <1>3, <1>9, OneSrc, Constants DEF LockInv, NamesOK
  <2>2. Gray(x) # w /\ Gray(rep[x].src) # w
    BY <1>3, <1>9, <2>1 DEF Gray
  <2>. QED
    BY <1>2, <1>5, <1>9, <2>2 DEF Unscanned
<1>10. \A k \in DOMAIN field[o] : Scanning(p, r, k)'
  BY <1>3, <1>7, <1>8 DEF Scanning
<1>11. \A a, k : Segment(a, k) \in work => Segment(a, k) \in work'
  BY <1>2, <1>3 DEF Segment, Gray
<1>12. \A x \in DOMAIN rep : \A k \in DOMAIN field[rep[x].src] :
         Unscanned(x) \/ Segment(rep[x].src, k) \in work \/ Scanning(p, x, k)
           => Unscanned(x)' \/ Segment(rep[x].src, k) \in work' \/ Scanning(p, x, k)'
  BY <1>7, <1>9, <1>10, <1>11 DEF Scanning
<1>13. BackOK'
  BY <1>2, <1>4, <1>7, <1>8, <1>9, BackKeeps
<1>14. FreshOK(p)'
  BY <1>2 DEF FreshOK, Forwarding
<1>. QED
  BY <1>2, <1>4, <1>7, <1>12, <1>13, <1>14, KeepsImage

LEMMA ScanSegmentImage ==
  ASSUME CopyInv, NEW p \in Procs, NEW w \in work, ScanSegment(p, w)
  PROVE  ImageInv'
<1>. PICK o, i, r : o = w.obj /\ i = w.index /\ r = tag[o]
  OBVIOUS
<1>1. LockInv /\ HeapTypes
  BY DEF CopyInv, LockInv
<1>2. /\ w = Segment(o, i) /\ r \in DOMAIN rep /\ rep[r].src = o /\ i \in Nat
      /\ pc[p] = "mutator" /\ pc'[p] = "field"
      /\ Moves(p) /\ log' = log /\ work' = work \ {w}
      /\ job'[p] = Scan(o, r, i, i) /\ SegSet(r, i, Stall)
  BY <1>1, ScanSegmentIs
<1>3. \A x \in DOMAIN rep : rep'[x].fields = rep[x].fields /\ rep'[x].src = rep[x].src
  BY <1>2 DEF SegSet
<1>4. job[p] = Root(Nil)
  BY <1>1, <1>2 DEF LockInv, JobOK
<1>5. ~ Scans(p) /\ ~ Writes(p) /\ Scans(p)' /\ ~ Writes(p)'
  BY <1>2, <1>4 DEF Scans, Writes, Scan, Root
<1>6. job'[p].rep = r /\ job'[p].index = i /\ job'[p].last = i
  <2>1. job'[p] = Scan(o, r, i, i)
    BY <1>2
  <2>. QED
    BY ONLY <2>1 DEF Scan
<1>7. \A x \in DOMAIN rep : Unscanned(x) => Unscanned(x)'
  BY <1>2, <1>3 DEF Unscanned, Segment, Gray
<1>8. Scanning(p, r, i)'
  <2>1. i <= i
    BY <1>2
  <2>. QED
    BY <1>5, <1>6, <2>1 DEF Scanning
<1>9. ASSUME NEW x \in DOMAIN rep, NEW k, Segment(rep[x].src, k) \in work
      PROVE  Segment(rep[x].src, k) \in work' \/ Scanning(p, x, k)'
  <2>1. CASE Segment(rep[x].src, k) = w
    <3>1. rep[x].src = o /\ k = i
      BY <1>2, <2>1 DEF Segment
    <3>2. x = r
      BY <1>1, <1>2, <3>1, OneSrc
    <3>. QED
      BY <1>8, <3>1, <3>2
  <2>2. CASE Segment(rep[x].src, k) # w
    BY <1>2, <1>9, <2>2
  <2>. QED
    BY <2>1, <2>2
<1>10. \A x \in DOMAIN rep : \A k \in DOMAIN field[rep[x].src] :
         Unscanned(x) \/ Segment(rep[x].src, k) \in work \/ Scanning(p, x, k)
           => Unscanned(x)' \/ Segment(rep[x].src, k) \in work' \/ Scanning(p, x, k)'
  BY <1>5, <1>7, <1>9 DEF Scanning
<1>11. BackOK'
  BY <1>2, <1>3, <1>5, <1>7, BackKeeps
<1>12. FreshOK(p)'
  BY <1>2 DEF FreshOK, Forwarding
<1>. QED
  BY <1>2, <1>3, <1>5, <1>10, <1>11, <1>12, KeepsImage

(* All fields of the scan are behind it.                                   *)
LEMMA ScanEndsImage ==
  ASSUME CopyInv, NEW p \in Procs, ScanEnds(p)
  PROVE  ImageInv'
<1>. PICK r, n, i : r = job[p].rep /\ n = job[p].last /\ i = job[p].index
  OBVIOUS
<1>1. LockInv /\ HeapTypes
  BY DEF CopyInv, LockInv
<1>2. /\ Scans(p) /\ pc[p] = "field" /\ i > n
      /\ Moves(p) /\ UNCHANGED <<work, log>>
      /\ pc'[p] \in {"mutator", "release"} /\ job'[p] = Root(Nil)
      /\ r \in DOMAIN rep
      /\ IF IsLong(r) THEN SegSet(r, n, Proceed) ELSE TagSet(r, Orig)
  BY <1>1, ScanEndsIs
<1>3. /\ ~ Writes(p) /\ i \in Nat /\ n \in Nat /\ rep[r].fields \in Seq(AllWords)
      /\ ScanOK(p)
  BY <1>1, <1>2, ScanIs DEF LockInv
<1>4. \A x \in DOMAIN rep : rep'[x].fields = rep[x].fields /\ rep'[x].src = rep[x].src
  BY <1>2 DEF SegSet, TagSet
<1>5. ~ Scans(p)' /\ ~ Writes(p)'
  BY <1>2 DEF Scans, Writes, Root
<1>6. \A x \in DOMAIN rep : Unscanned(x) => Unscanned(x)'
  BY <1>2, <1>4 DEF Unscanned
<1>7. ASSUME NEW x \in DOMAIN rep, NEW k \in DOMAIN field[rep[x].src]
      PROVE  ~ Scanning(p, x, k)
  <2>1. k \in Nat
    BY <1>1, RepFields
  <2>. QED
    BY <1>2, <1>3, <2>1 DEF Scanning
<1>8. \A x \in DOMAIN rep : \A k \in DOMAIN field[rep[x].src] :
        Unscanned(x) \/ Segment(rep[x].src, k) \in work \/ Scanning(p, x, k)
          => Unscanned(x)' \/ Segment(rep[x].src, k) \in work' \/ Scanning(p, x, k)'
  BY <1>2, <1>6, <1>7
<1>9. rep[r].fields # <<>> => i # 1 \/ IsLong(r)
  BY <1>2, <1>3 DEF ScanOK
<1>10. BackOK'
  BY <1>2, <1>4, <1>6, <1>9, BackKeeps
<1>11. FreshOK(p)'
  BY <1>5 DEF FreshOK
<1>. QED
  BY <1>2, <1>3, <1>4, <1>5, <1>8, <1>10, <1>11, KeepsImage

----------------------------------------------------------------------------
(* A step that leaves the replicas alone, and logs what it writes.         *)
LEMMA LoggedImage ==
  ASSUME CopyInv, UNCHANGED <<mode, rep, work, job, white>>,
         \A q \in Procs : pc'[q] = pc[q] \/ (pc[q] \in Forwarding /\ pc'[q] \in Forwarding),
         \A q \in Procs : \A a, k : InLog(q, a, k) => InLog(q, a, k)',
         \A x \in DOMAIN rep :
           /\ DOMAIN field'[rep[x].src] = DOMAIN field[rep[x].src]
           /\ \A k \in DOMAIN field[rep[x].src] :
                \/ /\ field'[rep[x].src][k] = field[rep[x].src][k]
                   /\ Current(x, k) => Current(x, k)'
                \/ mode # "copy" /\ \E q \in Procs : InLog(q, rep[x].src, k)'
  PROVE  ImageInv'
<1>1. LockInv /\ ImageInv
  BY DEF CopyInv
<1>2. \A q \in Procs : Scans(q)' <=> Scans(q)
  BY DEF Scans
<1>3. \A x : (Unscanned(x)' <=> Unscanned(x)) /\ (IsLong(x)' <=> IsLong(x))
  BY DEF Unscanned, IsLong
<1>4. \A q \in Procs : \A x, k : Scanning(q, x, k)' <=> Scanning(q, x, k)
  BY <1>2 DEF Scanning
<1>5. \A q \in Procs : \A a, k : Writing(q, a, k) => Writing(q, a, k)'
  BY DEF Writing, Writes
<1>6. \A q \in Procs : \A a, k : Early(q, a, k) => Early(q, a, k)'
  BY DEF Early, Writes, Forwarding
<1>7. \A a, k : Delayed(a, k) => Delayed(a, k)'
  BY <1>6 DEF Delayed
<1>8. BackOK'
  BY <1>1, <1>2, <1>3 DEF ImageInv, BackOK, Forwarding
<1>9. CopiedOK'
  <2>. SUFFICES ASSUME mode = "copy", NEW x \in DOMAIN rep, NEW k \in DOMAIN field'[rep[x].src]
                PROVE  rep[x].fields[k] = field'[rep[x].src][k] \/ Current(x, k)'
    BY DEF CopiedOK
  <2>. QED
    BY <1>1 DEF ImageInv, CopiedOK
<1>10. FieldsOK'
  <2>. SUFFICES ASSUME NEW x \in DOMAIN rep, NEW k \in DOMAIN field[rep[x].src]
                PROVE  FieldOK(x, k)'
    BY DEF FieldsOK
  <2>. PICK o : o = rep[x].src
    OBVIOUS
  <2>1. FieldOK(x, k)
    BY <1>1 DEF ImageInv, FieldsOK
  <2>2. (\E q \in Procs : Writing(q, o, k)') => FieldOK(x, k)'
    <3>. SUFFICES ASSUME NEW q \in Procs, Writing(q, o, k)' PROVE FieldOK(x, k)'
      OBVIOUS
    <3>1. Writing(q, rep[x].src, k)'
      BY DEF Writing, InLog
    <3>. QED
      BY <3>1 DEF FieldOK
  <2>3. CASE Current(x, k) /\ Current(x, k)'
    BY <2>3 DEF FieldOK
  <2>4. CASE Current(x, k) /\ ~ Current(x, k)'
    <3>1. PICK q \in Procs : InLog(q, rep[x].src, k)'
      BY <2>4
    <3>2. Writing(q, o, k)'
      BY <3>1 DEF Writing, InLog
    <3>. QED
      BY <2>2, <3>2
  <2>5. CASE Unscanned(x) \/ Segment(o, k) \in work
    BY <1>3, <2>5 DEF FieldOK, Segment
  <2>6. CASE \E q \in Procs : Scanning(q, x, k)
    BY <1>4, <2>6 DEF FieldOK
  <2>7. CASE \E q \in Procs : Writing(q, o, k)
    BY <1>5, <2>2, <2>7
  <2>. QED
    BY <2>1, <2>3, <2>4, <2>5, <2>6, <2>7 DEF FieldOK
<1>11. ASSUME NEW q \in Procs
       PROVE  FreshOK(q)'
  <2>. PICK x, k, o : x = job[q].rep /\ k = job[q].index /\ o = rep[x].src
    OBVIOUS
  <2>1. FreshOK(q)
    BY <1>1 DEF ImageInv
  <2>2. SUFFICES ASSUME Scans(q), pc[q] \in {"forward", "store"} \cup Forwarding
                 PROVE  /\ pc[q] = "forward" =>
                             rep[x].fields[k] = field'[o][k] \/ Current(x, k)' \/ Delayed(o, k)'
                        /\ pc[q] \in {"store"} \cup Forwarding =>
                             white[q] = field'[o][k] \/ Delayed(o, k)'
    <3>1. /\ pc'[q] \in {"store"} \cup Forwarding => pc[q] \in {"store"} \cup Forwarding
          /\ pc'[q] = "forward" => pc[q] = "forward"
      BY DEF Forwarding
    <3>2. /\ Scans(q) /\ pc'[q] = "forward" =>
               rep'[x].fields[k] = field'[o][k] \/ Current(x, k)' \/ Delayed(o, k)'
          /\ Scans(q) /\ pc'[q] \in {"store"} \cup Forwarding =>
               white'[q] = field'[o][k] \/ Delayed(o, k)'
      BY <3>1
    <3>. QED
      BY <1>2, <3>2, SMTT(30) DEF FreshOK, Current, Delayed, Early, InLog, Writes
  <2>3. x \in DOMAIN rep /\ k \in DOMAIN field[o]
    <3>1. job[q].index <= job[q].last
      BY <1>1, <2>2 DEF LockInv, ScanOK, Forwarding
    <3>. QED
      BY <1>1, <2>2, <3>1, ScanIs
  <2>4. ASSUME NEW u \in Procs, InLog(u, rep[x].src, k)'
        PROVE  Delayed(o, k)'
    <3>1. InLog(u, o, k)'
      BY <2>4 DEF InLog
    <3>. QED
      BY <3>1 DEF Delayed, Early
  <2>5. CASE field'[o][k] = field[o][k] /\ (Current(x, k) => Current(x, k)')
    BY <1>7, <2>1, <2>2, <2>5 DEF FreshOK
  <2>6. CASE Delayed(o, k)'
    BY <2>6
  <2>. QED
    BY <2>3, <2>4, <2>5, <2>6
<1>. QED
  BY <1>8, <1>9, <1>10, <1>11 DEF ImageInv

(* Nothing points to the replica of a primary that is not copied yet.      *)
LEMMA OwnImage ==
  ASSUME CopyInv, NEW p \in Procs, Own(p)
  PROVE  ImageInv'
<1>. PICK o : o = white[p]
  OBVIOUS
<1>1. LockInv /\ HeapTypes /\ JobOK(p)
  BY DEF CopyInv, LockInv
<1>2. /\ pc[p] = "own" /\ UNCHANGED <<mode, field, rep, work, data, steps, log, job, white>>
  BY DEF Own, At
<1>3. o \in Prims
  BY <1>1, <1>2, Constants DEF JobOK, Forwarding, Known
<1>4. CASE tag[o] # Orig
  <2>1. pc' = [pc EXCEPT ![p] = "alloc"]
    BY <1>4 DEF Own, To
  <2>2. tag' = tag
    <3>1. tag' = [tag EXCEPT ![o] = tag[o]]
      BY <1>4 DEF Own
    <3>. QED
      BY <1>1, <1>3, <3>1 DEF HeapTypes
  <2>3. pc'[p] = "alloc"
    BY <1>1, <2>1 DEF HeapTypes
  <2>. QED
    BY <1>2, <2>1, <2>2, <2>3, HoldImage
<1>5. CASE tag[o] = Orig
  <2>1. /\ pc' = [pc EXCEPT ![p] = "copier"] /\ tag' = [tag EXCEPT ![o] = Stall]
    BY <1>5 DEF Own, To
  <2>2. \A x \in Prims : x # o => tag'[x] = tag[x]
    BY <1>1, <2>1 DEF HeapTypes
  <2>3. \A q \in Procs : pc'[q] = pc[q] \/ (pc[q] \in Forwarding /\ pc'[q] \in Forwarding)
    BY <1>1, <1>2, <2>1 DEF HeapTypes, Forwarding
  <2>4. tag[o] \notin DOMAIN rep
    BY <1>1, <1>5, Constants DEF LockInv, NamesOK
  <2>5. \A x \in DOMAIN rep : \A k : Current(x, k) => Current(x, k)'
    BY <1>2, <2>2, <2>4 DEF Current, Image
  <2>6. \A q, a, k : InLog(q, a, k)' <=> InLog(q, a, k)
    BY <1>2 DEF InLog
  <2>. QED
    BY <1>2, <2>3, <2>5, <2>6, LoggedImage
<1>. QED
  BY <1>4, <1>5

LEMMA LoadImage ==
  ASSUME CopyInv, NEW p \in Procs, NEW i \in DOMAIN Graph[Base[p]], Load(p, i)
  PROVE  ImageInv'
<1>1. UNCHANGED <<mode, tag, field, rep, work, pc, job, white, log>>
  BY DEF Load, MutatorStep
<1>2. \A x, k : Current(x, k)' <=> Current(x, k)
  BY <1>1 DEF Current, Image
<1>3. \A q, a, k : InLog(q, a, k)' <=> InLog(q, a, k)
  BY <1>1 DEF InLog
<1>. QED
  BY <1>1, <1>2, <1>3, LoggedImage

LEMMA ImageStutter ==
  ASSUME CopyInv, UNCHANGED vars
  PROVE  ImageInv'
<1>1. UNCHANGED <<mode, tag, field, rep, work, pc, job, white, log>>
  BY DEF vars, heapVars
<1>2. \A x, k : Current(x, k)' <=> Current(x, k)
  BY <1>1 DEF Current, Image
<1>3. \A q, a, k : InLog(q, a, k)' <=> InLog(q, a, k)
  BY <1>1 DEF InLog
<1>. QED
  BY <1>1, <1>2, <1>3, LoggedImage

(* A mutator runs with the concurrent collectors only.                     *)
LEMMA MutatorIs ==
  ASSUME LockInv, NEW p \in Procs, MutatorStep(p)
  PROVE  mode # "copy" /\ UNCHANGED <<mode, tag, rep, work, pc, job, white>>
BY DEF LockInv, Stopped, MutatorStep

LEMMA StoreMutImage ==
  ASSUME CopyInv, NEW p \in Procs, NEW i \in MayWrite[p], NEW v \in {data[p], Nil},
         Store(p, i, v)
  PROVE  ImageInv'
<1>. PICK b, s, e : b = Base[p] /\ s = log[p] /\ e = Write(b, i, field[b][i])
  OBVIOUS
<1>1. LockInv /\ LogOK
  BY DEF CopyInv, LockInv
<1>2. /\ MutatorStep(p) /\ i \in DOMAIN field[b] /\ b \in Prims
      /\ field[b][i] \in Prims \cup {Nil} /\ b \in Arrays /\ i \in Nat
      /\ \A x \in Prims : x # b => field'[x] = field[x]
      /\ DOMAIN field'[b] = DOMAIN field[b]
      /\ \A k \in DOMAIN field[b] : k # i => field'[b][k] = field[b][k]
      /\ log' = [log EXCEPT ![p] = Append(s, e)]
  BY <1>1, StoreIs
<1>3. mode # "copy" /\ UNCHANGED <<mode, tag, rep, work, pc, job, white>>
  BY <1>1, <1>2, MutatorIs
<1>4. s \in Seq(Entries) /\ log'[p] = Append(s, e) /\ \A q \in Procs : q # p => log'[q] = log[q]
  BY <1>1, <1>2 DEF LogOK
<1>5. e \in Entries /\ e.kind = "write" /\ e.obj = b /\ e.index = i
  BY <1>2 DEF Write, Entries
<1>6. /\ Len(s) + 1 \in DOMAIN log'[p] /\ log'[p][Len(s) + 1] = e
      /\ \A k \in DOMAIN s : k \in DOMAIN log'[p] /\ log'[p][k] = s[k]
  BY <1>4, <1>5
<1>7. InLog(p, b, i)'
  BY <1>5, <1>6 DEF InLog
<1>8. ASSUME NEW q \in Procs, NEW a, NEW k, InLog(q, a, k)
      PROVE  InLog(q, a, k)'
  BY <1>4, <1>6, <1>8 DEF InLog
<1>9. ASSUME NEW x \in DOMAIN rep
      PROVE  /\ DOMAIN field'[rep[x].src] = DOMAIN field[rep[x].src]
             /\ \A k \in DOMAIN field[rep[x].src] :
                  \/ /\ field'[rep[x].src][k] = field[rep[x].src][k]
                     /\ Current(x, k) => Current(x, k)'
                  \/ mode # "copy" /\ \E q \in Procs : InLog(q, rep[x].src, k)'
  <2>. PICK o : o = rep[x].src
    OBVIOUS
  <2>1. o \in Prims
    BY <1>1, OneSrc
  <2>2. DOMAIN field'[o] = DOMAIN field[o]
    BY <1>2, <2>1
  <2>3. ASSUME NEW k \in DOMAIN field[o], o # b \/ k # i
        PROVE  field'[o][k] = field[o][k] /\ (Current(x, k) => Current(x, k)')
    <3>1. field'[o][k] = field[o][k]
      BY <1>2, <2>1, <2>3
    <3>. QED
      BY <1>3, <3>1 DEF Current, Image
  <2>4. o = b => InLog(p, rep[x].src, i)'
    <3>. HAVE o = b
    <3>1. rep'[x].src = b
      BY <1>3
    <3>. QED
      BY <1>7, <3>1 DEF InLog
  <2>. QED
    BY <1>3, <2>2, <2>3, <2>4
<1>10. \A q \in Procs : \A a, k : InLog(q, a, k) => InLog(q, a, k)'
  BY <1>8
<1>. QED
  BY <1>3, <1>9, <1>10, LoggedImage

(* A new record has no replica yet.                                        *)
LEMMA AllocateImage ==
  ASSUME CopyInv, NEW p \in Procs, NEW o \in News, Allocate(p, o)
  PROVE  ImageInv'
<1>. PICK s, e : s = log[p] /\ e = New(o)
  OBVIOUS
<1>1. LockInv /\ LogOK
  BY DEF CopyInv, LockInv
<1>2. /\ MutatorStep(p) /\ o \in Prims /\ o \notin Known
      /\ \A x \in Prims : x # o => field'[x] = field[x]
      /\ log' = [log EXCEPT ![p] = <<e>> \o s]
  BY <1>1, AllocateIs
<1>3. mode # "copy" /\ UNCHANGED <<mode, tag, rep, work, pc, job, white>>
  BY <1>1, <1>2, MutatorIs
<1>4. s \in Seq(Entries) /\ log'[p] = <<e>> \o s /\ \A q \in Procs : q # p => log'[q] = log[q]
  BY <1>1, <1>2 DEF LogOK
<1>5. e \in Entries
  BY <1>2 DEF New, Entries
<1>6. \A k \in DOMAIN s : k + 1 \in DOMAIN log'[p] /\ log'[p][k + 1] = s[k]
  BY <1>4, <1>5
<1>7. ASSUME NEW q \in Procs, NEW a, NEW k, InLog(q, a, k)
      PROVE  InLog(q, a, k)'
  <2>1. CASE q = p
    <3>1. PICK m \in DOMAIN s : s[m].kind = "write" /\ s[m].obj = a /\ s[m].index = k
      BY <1>7, <2>1 DEF InLog
    <3>. QED
      BY <1>6, <2>1, <3>1 DEF InLog
  <2>2. CASE q # p
    BY <1>4, <1>7, <2>2 DEF InLog
  <2>. QED
    BY <2>1, <2>2
<1>8. \A x \in DOMAIN rep : field'[rep[x].src] = field[rep[x].src]
  BY <1>1, <1>2, OneSrc
<1>9. \A x \in DOMAIN rep : \A k : Current(x, k) => Current(x, k)'
  BY <1>3, <1>8 DEF Current, Image
<1>10. \A q \in Procs : \A a, k : InLog(q, a, k) => InLog(q, a, k)'
  BY <1>7
<1>. QED
  BY <1>3, <1>8, <1>9, <1>10, LoggedImage

(* A new replica is gray, and nothing pointed to it.                       *)
LEMMA CopyImage ==
  ASSUME CopyInv, NEW p \in Procs, Copy(p)
  PROVE  ImageInv'
<1>. PICK o, r : o = white[p] /\ r = <<p, Cardinality(Copies(p)) + 1>>
  OBVIOUS
<1>1. LockInv /\ ImageInv /\ HeapTypes
  BY DEF CopyInv, LockInv
<1>2. /\ pc[p] = "copier" /\ o \in Prims /\ tag[o] = Stall /\ r \notin DOMAIN rep
      /\ DOMAIN rep' = DOMAIN rep \cup {r}
      /\ \A x \in DOMAIN rep : rep'[x] = rep[x] /\ rep[x].src # o
      /\ rep'[r].src = o /\ rep'[r].fields = NewFields(o)
      /\ tag'[o] = r /\ \A x \in Prims : x # o => tag'[x] = tag[x]
      /\ work' = work \cup {Gray(IF mode = "primarySet" THEN o ELSE r)}
      /\ UNCHANGED <<mode, field, log>>
      /\ IF Scans(p) \/ Writes(p)
           THEN /\ pc' = [pc EXCEPT ![p] = "store"] /\ UNCHANGED <<job, white>>
           ELSE Finish(p)
  BY <1>1, CopyIs, Zenon
<1>3. /\ \A q \in Procs : q # p => pc'[q] = pc[q] /\ job'[q] = job[q] /\ white'[q] = white[q]
      /\ IF Scans(p) \/ Writes(p)
           THEN pc'[p] = "store" /\ job'[p] = job[p] /\ white'[p] = white[p]
           ELSE job'[p] = Root(Nil)
  <2>1. DOMAIN job = Procs /\ pc \in [Procs -> Labels] /\ white \in [Procs -> AllWords]
    BY <1>1 DEF HeapTypes
  <2>. QED
    BY <1>2, <2>1 DEF Finish, To
<1>4. \A q \in Procs : /\ Scans(q)' <=> Scans(q)
                       /\ Writes(q)' <=> Writes(q)
                       /\ Scans(q) \/ Writes(q) => job'[q] = job[q] /\ white'[q] = white[q]
  BY <1>3 DEF Scans, Writes, Root
<1>5. \A q \in Procs : \A x, k : Scanning(q, x, k) => Scanning(q, x, k)'
  BY <1>4 DEF Scanning
<1>6. \A q, a, k : InLog(q, a, k)' <=> InLog(q, a, k)
  BY <1>2 DEF InLog
<1>7. \A q \in Procs : \A a, k : Writing(q, a, k) => Writing(q, a, k)'
  BY <1>4, <1>6 DEF Writing
<1>8. \A a, k : Delayed(a, k) => Delayed(a, k)'
  <2>1. \A q \in Procs : \A a, k : Early(q, a, k) => Early(q, a, k)'
    BY <1>2, <1>3, <1>4, <1>6 DEF Early
  <2>. QED
    BY <2>1 DEF Delayed
<1>9. ASSUME NEW x \in DOMAIN rep, NEW k, Current(x, k)
      PROVE  Current(x, k)'
  <2>. PICK f : f = field[rep[x].src][k]
    OBVIOUS
  <2>1. rep[x].fields[k] = Image(f) /\ (f \in Prims => Image(f) \in DOMAIN rep)
    BY <1>9 DEF Current
  <2>2. f # o
    BY <1>1, <1>2, <2>1, Constants DEF Image, LockInv, NamesOK
  <2>3. f \in Prims => tag'[f] = tag[f]
    BY <1>2, <2>2
  <2>4. field'[rep'[x].src][k] = f /\ rep'[x].fields[k] = rep[x].fields[k]
    BY <1>2
  <2>. QED
    BY <1>2, <2>1, <2>3, <2>4 DEF Current, Image
<1>10. Unscanned(r)' /\ \A x \in DOMAIN rep : Unscanned(x) => Unscanned(x)'
  BY <1>2 DEF Unscanned
<1>11. BackOK'
  <2>. SUFFICES ASSUME NEW x \in DOMAIN rep, rep[x].src \in Arrays, mode # "copy",
                       rep[x].fields # <<>>, rep[x].fields[1] = rep[x].src
                PROVE  \/ Unscanned(x)'
                       \/ \E q \in Procs : /\ Scans(q)' /\ job'[q].rep = x /\ job'[q].index = 1
                                           /\ pc'[q] = "field" /\ ~ IsLong(x)'
    BY <1>2, <1>10 DEF BackOK
  <2>1. \/ Unscanned(x)
        \/ \E q \in Procs : /\ Scans(q) /\ job[q].rep = x /\ job[q].index = 1
                            /\ pc[q] = "field" /\ ~ IsLong(x)
    BY <1>1 DEF ImageInv, BackOK
  <2>2. IsLong(x)' <=> IsLong(x)
    BY <1>2 DEF IsLong
  <2>. QED
    BY <1>2, <1>3, <1>4, <1>10, <2>1, <2>2
<1>12. CopiedOK'
  <2>. SUFFICES ASSUME mode = "copy", NEW x \in DOMAIN rep', NEW k \in DOMAIN field[rep'[x].src]
                PROVE  rep'[x].fields[k] = field[rep'[x].src][k] \/ Current(x, k)'
    BY <1>2 DEF CopiedOK
  <2>1. CASE x = r
    BY <1>2, <2>1 DEF NewFields
  <2>2. CASE x \in DOMAIN rep
    BY <1>1, <1>2, <1>9, <2>2 DEF ImageInv, CopiedOK
  <2>. QED
    BY <1>2, <2>1, <2>2
<1>13. FieldsOK'
  <2>. SUFFICES ASSUME NEW x \in DOMAIN rep', NEW k \in DOMAIN field[rep'[x].src]
                PROVE  FieldOK(x, k)'
    BY <1>2 DEF FieldsOK
  <2>1. CASE Unscanned(x)'
    BY <2>1 DEF FieldOK
  <2>2. CASE x \in DOMAIN rep /\ ~ Unscanned(x)'
    <3>. PICK a : a = rep[x].src
      OBVIOUS
    <3>1. rep'[x].src = a /\ ~ Unscanned(x)
      BY <1>2, <1>10, <2>2
    <3>2. FieldOK(x, k)
      BY <1>1, <2>2, <3>1 DEF ImageInv, FieldsOK
    <3>3. CASE Current(x, k)
      BY <1>9, <2>2, <3>3 DEF FieldOK
    <3>4. CASE Segment(a, k) \in work
      <4>1. Segment(rep'[x].src, k) \in work'
        BY <1>2, <3>1, <3>4
      <4>. QED
        BY <4>1 DEF FieldOK, Segment
    <3>5. CASE \E q \in Procs : Scanning(q, x, k)
      BY <1>5, <3>5 DEF FieldOK
    <3>6. CASE \E q \in Procs : Writing(q, a, k)
      <4>1. PICK q \in Procs : Writing(q, a, k)
        BY <3>6
      <4>2. Writing(q, a, k)'
        BY <1>7, <4>1
      <4>3. Writing(q, rep[x].src, k)'
        BY <3>1, <4>2 DEF Writing, InLog
      <4>. QED
        BY <4>3 DEF FieldOK
    <3>. QED
      BY <3>1, <3>2, <3>3, <3>4, <3>5, <3>6 DEF FieldOK
  <2>. QED
    BY <1>2, <1>10, <2>1, <2>2
<1>14. ASSUME NEW q \in Procs
       PROVE  FreshOK(q)'
  <2>. PICK x, k, a : x = job[q].rep /\ k = job[q].index /\ a = rep[x].src
    OBVIOUS
  <2>1. FreshOK(q)
    BY <1>1 DEF ImageInv
  <2>2. Scans(q) => /\ x \in DOMAIN rep /\ rep'[x] = rep[x]
                    /\ job'[q] = job[q] /\ white'[q] = white[q]
    BY <1>1, <1>2, <1>4, ScanIs
  <2>3. /\ Scans(q) /\ pc'[q] \in {"store"} \cup Forwarding => pc[q] \in {"store"} \cup Forwarding
        /\ Scans(q) /\ pc'[q] = "forward" => pc[q] = "forward"
    BY <1>2, <1>3 DEF Forwarding
  <2>4. /\ Scans(q) /\ pc'[q] = "forward" =>
             rep'[x].fields[k] = field'[a][k] \/ Current(x, k)' \/ Delayed(a, k)'
        /\ Scans(q) /\ pc'[q] \in {"store"} \cup Forwarding =>
             white'[q] = field'[a][k] \/ Delayed(a, k)'
    BY <1>2, <1>8, <1>9, <2>1, <2>2, <2>3 DEF FreshOK
  <2>. QED
    BY <1>4, <2>2, <2>4, SMTT(30) DEF FreshOK, Current, Delayed, Early, InLog, Writes
<1>. QED
  BY <1>11, <1>12, <1>13, <1>14 DEF ImageInv

LEMMA ImageStep ==
  ASSUME CopyInv, NoSelf, Next
  PROVE  ImageInv'
<1>. PICK p \in Procs : Mutate(p) \/ Collect(p)
  BY DEF Next
<1>1. CASE Mutate(p)
  BY <1>1, LoadImage, StoreMutImage, AllocateImage DEF Mutate
<1>2. CASE Release(p)
  BY <1>2, TakeEntryImage, WriteTagImage, ReplicaTagImage, BackPointerImage, ReadFieldImage
  DEF Release
<1>3. CASE Forward(p)
  BY <1>3, ReadTagImage, OwnImage, CopyImage, StoreReplicaImage DEF Forward
<1>4. CASE Work(p)
  BY <1>4, UpdateRootImage, BreakUpImage, ScanObjectImage, ScanSegmentImage,
     TransferFieldImage, ForwardFieldImage, ScanEndsImage DEF Work
<1>. QED
  BY <1>1, <1>2, <1>3, <1>4 DEF Collect

(* With nothing gray, released or in hand, every field is up to date.      *)
LEMMA QuietIsUpToDate ==
  ASSUME CopyInv
  PROVE  ReplicasUpToDate
<1>. SUFFICES ASSUME Quiet PROVE ReplicasUpToDate
  BY DEF ReplicasUpToDate
<1>1. LockInv /\ ImageInv
  BY DEF CopyInv
<1>2. work = {} /\ \A p \in Procs : log[p] = <<>> /\ pc[p] = "mutator"
  BY DEF Quiet
<1>3. \A p \in Procs : ~ Scans(p) /\ ~ Writes(p)
  <2>1. \A p \in Procs : job[p] = Root(Nil)
    BY <1>1, <1>2 DEF LockInv, JobOK
  <2>. QED
    BY <2>1 DEF Scans, Writes, Root
<1>4. \A p \in Procs : tag[Base[p]] \in DOMAIN rep
  BY <1>1, <1>2 DEF LockInv, BaseOK, Forwarding
<1>5. ASSUME NEW r \in DOMAIN rep
      PROVE  LET o == rep[r].src IN
             /\ rep[r].tag = Orig
             /\ rep[r].fields = [i \in DOMAIN field[o] |-> Image(field[o][i])]
             /\ \A i \in DOMAIN field[o] :
                  field[o][i] \in Prims => rep[r].fields[i] \in DOMAIN rep
  <2>. PICK o, s : o = rep[r].src /\ s = rep[r].fields
    OBVIOUS
  <2>1. rep[r].tag = Orig
    <3>1. rep[r] \in Replica /\ rep[r].tag # Stall
      BY <1>1, <1>3 DEF LockInv, RepTypes, StallOK
    <3>. QED
      BY <3>1 DEF Replica
  <2>2. ASSUME NEW i \in DOMAIN field[o]
        PROVE  Current(r, i)
    <3>1. FieldOK(r, i)
      BY <1>1 DEF ImageInv, FieldsOK
    <3>2. ~ Unscanned(r) /\ \A p \in Procs : ~ Scanning(p, r, i) /\ ~ Writing(p, o, i)
      BY <1>2, <1>3 DEF Unscanned, Scanning, Writing, InLog
    <3>. QED
      BY <1>2, <3>1, <3>2 DEF FieldOK
  <2>3. s \in Seq(AllWords) /\ DOMAIN s = DOMAIN field[o]
    BY <1>1, RepFields
  <2>4. \A i \in DOMAIN field[o] : s[i] = Image(field[o][i])
    BY <2>2 DEF Current
  <2>5. s = [i \in DOMAIN field[o] |-> Image(field[o][i])]
    BY <2>3, <2>4
  <2>. QED
    BY <2>1, <2>2, <2>5 DEF Current
<1>. QED
  BY <1>4, <1>5 DEF ReplicasUpToDate

(* Whenever the collector may flip, every replica is up to date: whatever  *)
(* order scans, releases and writes of mutators come in (genericScan in    *)
(* gcinline.h, GCRelease_SemiConc in gc_semi_conc.c), no write is lost and *)
(* no pointer to fromSpace is left, as long as no array holds itself in    *)
(* its first field.                                                        *)
THEOREM UpToDateHolds == Spec /\ []NoSelf => []ReplicasUpToDate
<1>1. Init => CopyInv
  BY CopyInitInv
<1>2. CopyInv /\ NoSelf /\ [Next]_vars => CopyInv'
  BY LockStep, LockStutter, ImageStep, ImageStutter DEF CopyInv
<1>3. CopyInv => ReplicasUpToDate
  BY QuietIsUpToDate
<1>. QED
  BY <1>1, <1>2, <1>3, PTL DEF Spec
=============================================================================
