--------------------------- MODULE Storage_proofs ---------------------------
(***************************************************************************)
(* Safety of the data structures under the collectors.  Stacklets, the     *)
(* areas and ranges of the heap, the space of large arrays and the sets of *)
(* pointers each have an inductive invariant of their own, which holds in  *)
(* every state of Storage because the steps of the others leave their      *)
(* variables alone.                                                        *)
(***************************************************************************)
EXTENDS Storage, NatLemmas, SequenceTheorems, FiniteSetTheorems, TLAPS

----------------------------------------------------------------------------
(***************************************************************************)
(* Safety of the snapshots of stacks, for any number of processors,        *)
(* threads, stacklets and collections, while no exception passes over      *)
(* more than the stacklet it is raised in (~ Raises).  With Raises the     *)
(* invariant is broken: an exception frees a stacklet that is being        *)
(* copied, and the next thread to be given it writes to it.                *)
(*                                                                         *)
(* KInv says who may do what to a stacklet.  One that waits to be copied,  *)
(* or is being copied, is in a chain; only one processor copies it, and no *)
(* thread runs on it.  So a thread never changes, and nobody reuses, what  *)
(* is being copied, and what has been copied and not run on since is up to *)
(* date.                                                                   *)
(***************************************************************************)

States == {"Inconsistent", "Pending", "Copying", "InactiveCopied", "ActiveCopied"}
OnStack == {"kill", "killCopy", "run"}
InCopy == {"killCopy", "scanCopy"}
Steps == {"idle", "kill", "killCopy", "run", "scan", "scanCopy", "die"}

StackTypes ==
  /\ chain \in [StackThreads -> Seq(Ids)] /\ count \in [Ids -> {0, 1}]
  /\ state \in [Ids -> States] /\ primary \in [Ids -> {0, 1}]
  /\ replica \in [Ids -> {<<0, 0>>, <<1, 1>>}]
  /\ stackWork \in SUBSET Ids /\ toScan \in SUBSET StackThreads
  /\ gc \in {"Off", "Pending", "Scanning", "On", "Completing"}
  /\ on \in [StackProcs -> StackThreads \cup {None}]
  /\ step \in [StackProcs -> Steps] /\ at \in [StackProcs -> Ids \cup {None}]
  /\ half \in [StackProcs -> {0, 1}]

(* A stacklet is in one place of one chain, or free.                       *)
Chains ==
  /\ \A t \in StackThreads : Len(chain[t]) >= 1
  /\ \A t, u \in StackThreads : \A i \in 1 .. Len(chain[t]), j \in 1 .. Len(chain[u]) :
       chain[t][i] = chain[u][j] => t = u /\ i = j
  /\ \A s \in Ids : count[s] = 1 <=> \E t \in StackThreads : s \in Elements(chain[t])

(* What a processor is doing, and to which stacklet.                       *)
Doing(p) ==
  /\ step[p] \in OnStack => on[p] \in StackThreads
  /\ step[p] \notin OnStack => on[p] = None
  /\ \A t \in StackThreads : on[p] = t => at[p] = Top(t)
  /\ step[p] \in {"scan", "scanCopy"} => at[p] \in Ids
  /\ step[p] = "run" => state[at[p]] \in {"Inconsistent", "ActiveCopied"}
  /\ step[p] \in InCopy => state[at[p]] = "Copying" /\ half[p] = primary[at[p]]

(* No two processors run one thread or copy one stacklet.                  *)
NoTwo ==
  \A p, q \in StackProcs : p # q =>
    /\ on[p] = on[q] => on[p] = None
    /\ step[p] \in InCopy /\ step[q] \in InCopy => at[p] # at[q]

(* What the state of a stacklet promises.                                  *)
Promise(s) ==
  /\ state[s] \in {"Pending", "Copying"} => count[s] = 1
  /\ state[s] = "InactiveCopied" => replica[s] = <<primary[s], primary[s]>>

(* While the stacks are scanned no processor does anything else.           *)
Phases ==
  /\ gc \in {"Scanning", "Completing"} => AllIdle
  /\ gc = "Completing" =>
       \A t \in StackThreads \ toScan : \A s \in Elements(chain[t]) :
         state[s] = "InactiveCopied"

KInv == /\ StackTypes /\ Chains /\ NoTwo /\ Phases
        /\ \A p \in StackProcs : Doing(p)
        /\ \A s \in Ids : Promise(s)

----------------------------------------------------------------------------
(* The top of a stack is in its chain, and nowhere else.                   *)
LEMMA TopIn ==
  ASSUME KInv, NEW t \in StackThreads
  PROVE  /\ Len(chain[t]) \in 1 .. Len(chain[t]) /\ Len(chain[t]) \in Nat
         /\ Top(t) \in Ids /\ Top(t) \in Elements(chain[t]) /\ count[Top(t)] = 1
         /\ DOMAIN chain[t] = 1 .. Len(chain[t]) /\ chain[t] \in Seq(Ids)
         /\ \A i \in 1 .. Len(chain[t]) : chain[t][i] \in Ids
         /\ \A u \in StackThreads : u # t => Top(u) # Top(t)
<1>1. chain[t] \in Seq(Ids) /\ Len(chain[t]) >= 1
  BY DEF KInv, StackTypes, Chains
<1>2. /\ Len(chain[t]) \in Nat /\ DOMAIN chain[t] = 1 .. Len(chain[t])
      /\ Len(chain[t]) \in 1 .. Len(chain[t])
      /\ \A i \in 1 .. Len(chain[t]) : chain[t][i] \in Ids
  BY <1>1, LenProperties, ElementOfSeq
<1>3. Top(t) \in Ids /\ Top(t) \in Elements(chain[t])
  BY <1>2 DEF Top, Elements
<1>4. count[Top(t)] = 1
  BY <1>3 DEF KInv, Chains
<1>5. \A u \in StackThreads : u # t => Top(u) # Top(t)
  <2>. SUFFICES ASSUME NEW u \in StackThreads, Top(u) = Top(t) PROVE u = t
    OBVIOUS
  <2>1. chain[u] \in Seq(Ids) /\ Len(chain[u]) >= 1
    BY DEF KInv, StackTypes, Chains
  <2>2. Len(chain[u]) \in 1 .. Len(chain[u])
    BY <2>1, LenProperties
  <2>. QED
    BY <1>2, <2>2 DEF Top, KInv, Chains
<1>. QED
  BY <1>1, <1>2, <1>3, <1>4, <1>5

(* A processor works on a stacklet.                                        *)
LEMMA AtIn ==
  ASSUME KInv, NEW p \in StackProcs, step[p] \in OnStack \cup {"scan", "scanCopy"}
  PROVE  at[p] \in Ids
<1>1. Doing(p)
  BY DEF KInv
<1>2. CASE step[p] \in OnStack
  BY <1>1, <1>2, TopIn DEF Doing
<1>3. CASE step[p] \in {"scan", "scanCopy"}
  BY <1>1, <1>3 DEF Doing
<1>. QED
  BY <1>2, <1>3

(* A step of one processor that leaves the chains and the primaries alone, *)
(* and changes the state and the replica of at most one stacklet, which    *)
(* nobody else runs on or copies.                                          *)
LEMMA LocalStep ==
  ASSUME KInv, StackTypes', NEW p \in StackProcs, NEW a,
         UNCHANGED <<chainVars, primary, gc, toScan>>,
         gc \notin {"Scanning", "Completing"},
         \A q \in StackProcs : q # p => /\ on'[q] = on[q] /\ step'[q] = step[q]
                                        /\ at'[q] = at[q] /\ half'[q] = half[q],
         \A s \in Ids : s # a => state'[s] = state[s] /\ replica'[s] = replica[s],
         Doing(p)',
         \A q \in StackProcs : q # p =>
           /\ on'[p] = on[q] => on'[p] = None
           /\ step'[p] \in InCopy /\ step[q] \in InCopy => at'[p] # at[q]
           /\ step[q] \in InCopy \cup {"run"} /\ at[q] = a => state'[a] = state[a],
         a \in Ids => Promise(a)'
  PROVE  KInv'
<1>1. Chains'
  BY DEF KInv, Chains, chainVars
<1>2. NoTwo'
  BY DEF KInv, NoTwo
<1>3. Phases'
  BY DEF Phases
<1>4. \A s \in Ids : Promise(s)'
  BY DEF KInv, Promise, chainVars
<1>5. \A q \in StackProcs : Doing(q)'
  <2>. SUFFICES ASSUME NEW q \in StackProcs, q # p PROVE Doing(q)'
    OBVIOUS
  <2>1. Doing(q) /\ (step[q] \in InCopy \cup {"run"} => at[q] \in Ids)
    BY AtIn DEF KInv, InCopy, OnStack
  <2>2. step[q] \in InCopy \cup {"run"} => state'[at[q]] = state[at[q]]
    BY <2>1
  <2>3. on'[q] = on[q] /\ step'[q] = step[q] /\ at'[q] = at[q] /\ half'[q] = half[q]
        /\ chain' = chain /\ primary' = primary
    BY DEF chainVars
  <2>. QED
    BY <2>1, <2>2, <2>3 DEF Doing, Top, InCopy
<1>. QED
  BY <1>1, <1>2, <1>3, <1>4, <1>5 DEF KInv

----------------------------------------------------------------------------
(* Stacklet_Copy and Stacklet_KillReplica.                                 *)

(* The CompareAndSwap lets one processor begin a copy, of a stacklet that  *)
(* no thread runs on.                                                      *)
LEMMA CopyStartStep ==
  ASSUME KInv, NEW p \in StackProcs, CopyStart(p)
  PROVE  KInv'
<1>. PICK a : a = at[p]
  OBVIOUS
<1>1. a \in Ids /\ Doing(p) /\ Promise(a)
  BY AtIn DEF CopyStart, KInv, OnStack
<1>2. /\ step[p] \in {"kill", "scan"} /\ state[a] = "Pending"
      /\ state' = [state EXCEPT ![a] = "Copying"]
      /\ half' = [half EXCEPT ![p] = primary[a]]
      /\ step' = [step EXCEPT ![p] = Copier(p)]
      /\ UNCHANGED <<chain, count, primary, replica, stackWork, gc, snapshots, toScan, on, at>>
      /\ Copier(p) = IF step[p] = "kill" THEN "killCopy" ELSE "scanCopy"
  BY DEF CopyStart, Do, chainVars, gcVars, Copier
<1>3. primary[a] \in {0, 1} /\ Copier(p) \in {"killCopy", "scanCopy"}
  BY <1>1, <1>2 DEF KInv, StackTypes
<1>4. StackTypes'
  BY <1>1, <1>2, <1>3 DEF KInv, StackTypes, States, Steps
<1>5. /\ step'[p] = Copier(p) /\ half'[p] = primary[a] /\ state'[a] = "Copying"
      /\ \A q \in StackProcs : q # p => step'[q] = step[q] /\ half'[q] = half[q]
      /\ \A s \in Ids : s # a => state'[s] = state[s]
  BY <1>1, <1>2 DEF KInv, StackTypes
<1>6. gc \notin {"Scanning", "Completing"}
  BY <1>2 DEF KInv, Phases, AllIdle
<1>7. Doing(p)'
  BY <1>1, <1>2, <1>3, <1>5 DEF Doing, OnStack, InCopy, Top
<1>8. ASSUME NEW q \in StackProcs, q # p
      PROVE  /\ on'[p] = on[q] => on'[p] = None
             /\ step'[p] \in InCopy /\ step[q] \in InCopy => at'[p] # at[q]
             /\ ~ (step[q] \in InCopy \cup {"run"} /\ at[q] = a)
  <2>1. Doing(q)
    BY DEF KInv
  <2>2. ~ (step[q] \in InCopy \cup {"run"} /\ at[q] = a)
    BY <1>2, <2>1 DEF Doing
  <2>. QED
    BY <1>2, <1>8, <2>2 DEF KInv, NoTwo
<1>9. Promise(a)'
  BY <1>1, <1>2, <1>5 DEF Promise
<1>. QED
  BY <1>2, <1>4, <1>5, <1>6, <1>7, <1>8, <1>9, LocalStep DEF chainVars

(* At its end the copy is what it was at the start, and what is there now. *)
LEMMA CopyEndStep ==
  ASSUME KInv, NEW p \in StackProcs, CopyEnd(p)
  PROVE  KInv'
<1>. PICK a : a = at[p]
  OBVIOUS
<1>1. a \in Ids /\ Doing(p) /\ Promise(a)
  BY AtIn DEF CopyEnd, KInv, OnStack
<1>2. /\ step[p] \in {"killCopy", "scanCopy"}
      /\ state' = [state EXCEPT ![a] = "InactiveCopied"]
      /\ replica' = [replica EXCEPT ![a] = <<half[p], primary[a]>>]
      /\ half' = [half EXCEPT ![p] = 0]
      /\ step[p] = "killCopy" => step' = [step EXCEPT ![p] = "kill"] /\ at' = at
      /\ step[p] # "killCopy" => /\ step' = [step EXCEPT ![p] = "idle"]
                                 /\ at' = [at EXCEPT ![p] = None]
      /\ UNCHANGED <<chain, count, primary, stackWork, gc, snapshots, toScan, on>>
  BY DEF CopyEnd, Do, Go, chainVars, gcVars
<1>3. half[p] = primary[a] /\ primary[a] \in {0, 1} /\ state[a] = "Copying"
  BY <1>1, <1>2 DEF KInv, StackTypes, Doing, InCopy
<1>4. /\ half'[p] = 0 /\ state'[a] = "InactiveCopied"
      /\ replica'[a] = <<primary[a], primary[a]>>
      /\ step[p] = "killCopy" => step'[p] = "kill" /\ at'[p] = a
      /\ step[p] # "killCopy" => step'[p] = "idle" /\ at'[p] = None
      /\ \A q \in StackProcs : q # p => step'[q] = step[q] /\ half'[q] = half[q]
                                        /\ at'[q] = at[q]
      /\ \A s \in Ids : s # a => state'[s] = state[s] /\ replica'[s] = replica[s]
  BY <1>1, <1>2, <1>3 DEF KInv, StackTypes
<1>5. StackTypes'
  <2>1. replica' \in [Ids -> {<<0, 0>>, <<1, 1>>}]
    BY <1>1, <1>2, <1>3 DEF KInv, StackTypes
  <2>2. step' \in [StackProcs -> Steps] /\ at' \in [StackProcs -> Ids \cup {None}]
    BY <1>2 DEF KInv, StackTypes, Steps
  <2>3. state' \in [Ids -> States] /\ half' \in [StackProcs -> {0, 1}]
    BY <1>2 DEF KInv, StackTypes, States
  <2>. QED
    BY <1>2, <2>1, <2>2, <2>3 DEF KInv, StackTypes
<1>6. gc \notin {"Scanning", "Completing"}
  BY <1>2 DEF KInv, Phases, AllIdle
<1>7. Doing(p)'
  BY <1>1, <1>2, <1>4, StackletsAssumption DEF Doing, OnStack, InCopy, Top
<1>8. ASSUME NEW q \in StackProcs, q # p
      PROVE  /\ on'[p] = on[q] => on'[p] = None
             /\ step'[p] \notin InCopy
             /\ ~ (step[q] \in InCopy \cup {"run"} /\ at[q] = a)
  <2>1. Doing(q)
    BY DEF KInv
  <2>2. ~ (step[q] \in InCopy \cup {"run"} /\ at[q] = a)
    BY <1>2, <1>3, <1>8, <2>1 DEF Doing, KInv, NoTwo, InCopy
  <2>3. step'[p] \notin InCopy
    BY <1>2, <1>4 DEF InCopy
  <2>. QED
    BY <1>2, <1>8, <2>2, <2>3 DEF KInv, NoTwo
<1>9. Promise(a)'
  BY <1>2, <1>4 DEF Promise
<1>. QED
  BY <1>2, <1>4, <1>5, <1>6, <1>7, <1>8, <1>9, LocalStep DEF chainVars

(* A thread goes on in a stacklet that nobody copies.                      *)
LEMMA KillStep ==
  ASSUME KInv, NEW p \in StackProcs, KillReplica(p)
  PROVE  KInv'
<1>. PICK a : a = at[p]
  OBVIOUS
<1>. DEFINE new == IF state[a] = "InactiveCopied" THEN "ActiveCopied" ELSE state[a]
<1>1. a \in Ids /\ Doing(p) /\ Promise(a)
  BY AtIn DEF KillReplica, KInv, OnStack
<1>2. /\ step[p] = "kill" /\ state[a] \notin {"Pending", "Copying"}
      /\ step' = [step EXCEPT ![p] = "run"]
      /\ UNCHANGED <<chain, count, primary, replica, stackWork, gc, snapshots, toScan,
                     on, at, half>>
  BY DEF KillReplica, Do, chainVars, gcVars
<1>3. state' = [state EXCEPT ![a] = new] /\ new \in {"Inconsistent", "ActiveCopied"}
  BY <1>1, <1>2 DEF KillReplica, KInv, StackTypes, States
<1>. HIDE DEF new
<1>4. /\ step'[p] = "run" /\ state'[a] = new
      /\ \A q \in StackProcs : q # p => step'[q] = step[q]
      /\ \A s \in Ids : s # a => state'[s] = state[s]
  BY <1>1, <1>2, <1>3 DEF KInv, StackTypes
<1>5. StackTypes'
  BY <1>2, <1>3 DEF KInv, StackTypes, States, Steps
<1>6. gc \notin {"Scanning", "Completing"}
  BY <1>2 DEF KInv, Phases, AllIdle
<1>7. Doing(p)'
  BY <1>1, <1>2, <1>3, <1>4 DEF Doing, OnStack, InCopy, Top
<1>8. ASSUME NEW q \in StackProcs, q # p
      PROVE  /\ on'[p] = on[q] => on'[p] = None
             /\ step'[p] \notin InCopy
             /\ ~ (step[q] \in InCopy \cup {"run"} /\ at[q] = a)
  <2>1. Doing(q) /\ on[p] \in StackThreads /\ at[p] = Top(on[p])
    BY <1>1, <1>2 DEF KInv, Doing, OnStack
  <2>2. ~ (step[q] \in InCopy /\ at[q] = a)
    BY <1>2, <2>1 DEF Doing
  <2>3. ~ (step[q] = "run" /\ at[q] = a)
    <3>1. step[q] = "run" => on[q] \in StackThreads /\ on[q] # on[p]
      BY <1>8, <2>1, StackletsAssumption DEF KInv, NoTwo, Doing, OnStack
    <3>2. step[q] = "run" => at[q] = Top(on[q])
      BY <2>1, <3>1 DEF Doing
    <3>. QED
      BY <2>1, <3>1, <3>2, TopIn
  <2>4. step'[p] \notin InCopy
    BY <1>4 DEF InCopy
  <2>. QED
    BY <1>2, <1>8, <2>2, <2>3, <2>4 DEF KInv, NoTwo
<1>9. Promise(a)'
  BY <1>2, <1>3, <1>4 DEF Promise
<1>. QED
  BY <1>2, <1>4, <1>5, <1>6, <1>7, <1>8, <1>9, LocalStep DEF chainVars

----------------------------------------------------------------------------
(* Steps that change no stacklet.                                          *)

(* mapThread takes a thread that nobody runs; ReleaseJob leaves it;        *)
(* work_root_scan takes a stacklet, and finds it copied.                   *)
LEMMA MoveStep ==
  ASSUME KInv, NEW p \in StackProcs,
         \/ \E t \in StackThreads : MapThread(p, t) \/ ReleaseThread(p, t)
         \/ TakeStacklet(p) \/ ScanReplica(p)
  PROVE  KInv'
<1>1. \E w \in StackThreads \cup {None}, d \in {"idle", "kill", "scan", "die"},
         b \in Ids \cup {None} :
        /\ on' = [on EXCEPT ![p] = w] /\ step' = [step EXCEPT ![p] = d]
        /\ at' = [at EXCEPT ![p] = b]
        /\ d = "kill" => /\ w \in StackThreads /\ b = Top(w)
                         /\ \A q \in StackProcs : on[q] # w
        /\ d # "kill" => w = None
        /\ d = "scan" => b \in Ids
  <2>1. ASSUME NEW t \in StackThreads, MapThread(p, t)
        PROVE  /\ on' = [on EXCEPT ![p] = t] /\ step' = [step EXCEPT ![p] = "kill"]
               /\ at' = [at EXCEPT ![p] = Top(t)]
               /\ Top(t) \in Ids /\ \A q \in StackProcs : on[q] # t
    BY <2>1, TopIn DEF MapThread, Go, Do
  <2>2. ASSUME NEW t \in StackThreads, ReleaseThread(p, t)
        PROVE  /\ on' = [on EXCEPT ![p] = None] /\ step' = [step EXCEPT ![p] = "idle"]
               /\ at' = [at EXCEPT ![p] = None]
    BY <2>2 DEF ReleaseThread, Go, Do
  <2>3. ASSUME TakeStacklet(p)
        PROVE  \E s \in Ids : /\ on' = [on EXCEPT ![p] = None]
                              /\ step' = [step EXCEPT ![p] = "scan"]
                              /\ at' = [at EXCEPT ![p] = s]
    <3>1. PICK s \in stackWork : step' = [step EXCEPT ![p] = "scan"]
                                 /\ at' = [at EXCEPT ![p] = s]
      BY <2>3 DEF TakeStacklet, Go, Do
    <3>2. s \in Ids
      BY DEF KInv, StackTypes
    <3>3. on' = on /\ on[p] = None
      BY <2>3 DEF TakeStacklet, KInv, Doing, OnStack
    <3>4. on' = [on EXCEPT ![p] = None]
      BY <3>3 DEF KInv, StackTypes
    <3>. QED
      BY <3>1, <3>2, <3>4
  <2>4. ASSUME ScanReplica(p)
        PROVE  \E d \in {"idle", "die"}, b \in Ids \cup {None} :
                 /\ on' = [on EXCEPT ![p] = None]
                 /\ step' = [step EXCEPT ![p] = d]
                 /\ at' = [at EXCEPT ![p] = b]
    <3>1. on' = on /\ on[p] = None
      BY <2>4 DEF ScanReplica, KInv, Doing, OnStack
    <3>2. on' = [on EXCEPT ![p] = None] /\ at = [at EXCEPT ![p] = at[p]]
          /\ at[p] \in Ids \cup {None}
      BY <3>1 DEF KInv, StackTypes
    <3>. QED
      BY <2>4, <3>2 DEF ScanReplica, Go, Do
  <2>. QED
    BY <2>1, <2>2, <2>3, <2>4
<1>2. PICK w \in StackThreads \cup {None}, d \in {"idle", "kill", "scan", "die"},
           b \in Ids \cup {None} :
        /\ on' = [on EXCEPT ![p] = w] /\ step' = [step EXCEPT ![p] = d]
        /\ at' = [at EXCEPT ![p] = b]
        /\ d = "kill" => /\ w \in StackThreads /\ b = Top(w)
                         /\ \A q \in StackProcs : on[q] # w
        /\ d # "kill" => w = None
        /\ d = "scan" => b \in Ids
  BY <1>1
<1>3. /\ UNCHANGED <<chain, count, state, primary, replica, gc, snapshots, toScan, half>>
      /\ stackWork' \subseteq stackWork
      /\ gc \notin {"Scanning", "Completing"}
  BY DEF MapThread, ReleaseThread, Running, TakeStacklet, ScanReplica, chainVars, gcVars,
         KInv, Phases, AllIdle
<1>4. /\ on'[p] = w /\ step'[p] = d /\ at'[p] = b
      /\ \A q \in StackProcs : q # p => on'[q] = on[q] /\ step'[q] = step[q]
                                        /\ at'[q] = at[q]
  BY <1>2 DEF KInv, StackTypes
<1>5. StackTypes'
  BY <1>2, <1>3 DEF KInv, StackTypes, Steps
<1>6. Doing(p)'
  BY <1>2, <1>3, <1>4, StackletsAssumption DEF Doing, OnStack, InCopy, Top
<1>7. \A q \in StackProcs : q # p => /\ on'[p] = on[q] => on'[p] = None
                                     /\ step'[p] \notin InCopy
  BY <1>2, <1>4 DEF InCopy
<1>8. b \in Ids => Promise(b)'
  BY <1>3 DEF KInv, Promise
<1>. QED
  BY <1>3, <1>4, <1>5, <1>6, <1>7, <1>8, LocalStep DEF chainVars

----------------------------------------------------------------------------
(* A thread changes what is in its top stacklet, which nobody copies and   *)
(* no replica is promised to be up to date with.                           *)
LEMMA RunStep ==
  ASSUME KInv, NEW p \in StackProcs, NEW t \in StackThreads, RunThread(p, t)
  PROVE  KInv'
<1>. PICK a : a = Top(t)
  OBVIOUS
<1>1. Doing(p) /\ on[p] = t /\ step[p] = "run" /\ at[p] = a /\ a \in Ids
      /\ state[a] \in {"Inconsistent", "ActiveCopied"}
  BY TopIn DEF RunThread, Running, KInv, Doing
<1>2. /\ primary' = [primary EXCEPT ![a] = 1 - primary[a]]
      /\ UNCHANGED <<chain, count, state, replica, stackWork, gc, snapshots, toScan,
                     on, step, at, half>>
  BY DEF RunThread, chainVars, gcVars, procVars
<1>3. \A s \in Ids : s # a => primary'[s] = primary[s]
  BY <1>2 DEF KInv, StackTypes
<1>4. primary' \in [Ids -> {0, 1}]
  <2>1. primary[a] \in {0, 1}
    BY <1>1 DEF KInv, StackTypes
  <2>2. 1 - primary[a] \in {0, 1}
    BY <2>1
  <2>. QED
    BY <1>2, <2>2 DEF KInv, StackTypes
<1>5. StackTypes' /\ Chains' /\ NoTwo' /\ Phases'
  BY <1>2, <1>4 DEF KInv, StackTypes, Chains, NoTwo, Phases, AllIdle
<1>6. ASSUME NEW q \in StackProcs PROVE Doing(q)'
  <2>1. Doing(q) /\ (step[q] \in InCopy => at[q] \in Ids /\ at[q] # a)
    BY <1>1, AtIn DEF KInv, Doing, InCopy, OnStack
  <2>. QED
    BY <1>2, <1>3, <2>1 DEF Doing, Top
<1>7. ASSUME NEW s \in Ids PROVE Promise(s)'
  BY <1>1, <1>2, <1>3 DEF KInv, Promise
<1>. QED
  BY <1>5, <1>6, <1>7 DEF KInv

(* NewStackletFromMutator: the new stacklet is one that nobody copies,     *)
(* since what is being copied is in a chain.                               *)
LEMMA NewStep ==
  ASSUME KInv, NEW p \in StackProcs, NEW t \in StackThreads, NewStacklet(p, t)
  PROVE  KInv'
<1>. PICK new, top, c, len : /\ new = FirstFree /\ top = Top(t) /\ c = chain[t]
                             /\ len = Len(chain[t])
  OBVIOUS
<1>. DEFINE hand == gc # "Off" /\ state[top] = "Inconsistent"
<1>1. /\ Doing(p) /\ on[p] = t /\ step[p] = "run" /\ at[p] = top
      /\ top \in Ids /\ count[top] = 1 /\ c \in Seq(Ids) /\ len \in Nat /\ len >= 1
      /\ len = Len(c)
  BY TopIn DEF NewStacklet, Running, KInv, Doing
<1>2. new \in Ids /\ count[new] = 0
  <2>1. \E s \in Free : \A r \in Free : s <= r
    <3>1. PICK n \in Free : TRUE
      BY DEF NewStacklet
    <3>2. n \in Nat /\ n \in Free
      BY <3>1, StackletsAssumption DEF Free, Ids
    <3>3. PICK m \in Nat : m \in Free /\ \A r \in Nat : r \in Free => m <= r
      <4>. DEFINE R == Free \cap Nat
      <4>1. R \subseteq Nat /\ R # {}
        BY <3>2
      <4>2. PICK m \in R : \A r \in R : m <= r
        BY <4>1, NatMin
      <4>. QED
        BY <4>2
    <3>. QED
      BY <3>3, StackletsAssumption DEF Free, Ids
  <2>2. new \in Free
    BY <2>1 DEF FirstFree
  <2>. QED
    BY <2>2 DEF Free
<1>3. /\ count' = [count EXCEPT ![new] = 1]
      /\ chain' = [chain EXCEPT ![t] = Append(c, new)]
      /\ state' = [s \in Ids |-> IF s = new THEN "Inconsistent"
                                 ELSE IF s = top /\ hand THEN "Pending"
                                 ELSE state[s]]
      /\ stackWork' = IF hand THEN stackWork \cup {top} ELSE stackWork
      /\ at' = [at EXCEPT ![p] = new] /\ primary' = [primary EXCEPT ![new] = 0]
      /\ UNCHANGED <<replica, gc, snapshots, toScan, on, step, half>>
  BY DEF NewStacklet
<1>4. /\ Append(c, new) \in Seq(Ids) /\ Len(Append(c, new)) = len + 1
      /\ \A i \in 1 .. len : Append(c, new)[i] = c[i]
      /\ Append(c, new)[len + 1] = new
  BY <1>1, <1>2, AppendProperties
<1>5. /\ \A s \in Ids : s # new => count'[s] = count[s] /\ primary'[s] = primary[s]
      /\ count'[new] = 1
      /\ chain'[t] = Append(c, new)
      /\ \A u \in StackThreads : u # t => chain'[u] = chain[u]
      /\ at'[p] = new /\ \A q \in StackProcs : q # p => at'[q] = at[q]
  BY <1>2, <1>3 DEF KInv, StackTypes
<1>6. StackTypes'
  <2>1. chain' \in [StackThreads -> Seq(Ids)]
    BY <1>3, <1>4 DEF KInv, StackTypes
  <2>2. state' \in [Ids -> States] /\ stackWork' \in SUBSET Ids
    BY <1>1, <1>3 DEF KInv, StackTypes, States
  <2>3. count' \in [Ids -> {0, 1}] /\ at' \in [StackProcs -> Ids \cup {None}]
        /\ primary' \in [Ids -> {0, 1}]
    BY <1>2, <1>3 DEF KInv, StackTypes
  <2>. QED
    BY <1>3, <2>1, <2>2, <2>3 DEF KInv, StackTypes
<1>7. \A u \in StackThreads : \A i \in 1 .. Len(chain[u]) : chain[u][i] # new
  <2>. SUFFICES ASSUME NEW u \in StackThreads, NEW i \in 1 .. Len(chain[u]), chain[u][i] = new
                PROVE  FALSE
    OBVIOUS
  <2>1. new \in Elements(chain[u])
    BY TopIn DEF Elements
  <2>. QED
    BY <1>2, <2>1 DEF KInv, Chains
<1>8. Chains'
  <2>1. \A u \in StackThreads : Len(chain'[u]) >= 1
    BY <1>1, <1>4, <1>5 DEF KInv, Chains
  <2>2. ASSUME NEW u \in StackThreads, NEW i \in 1 .. Len(chain'[u])
        PROVE  \/ i \in 1 .. Len(chain[u]) /\ chain'[u][i] = chain[u][i]
               \/ u = t /\ i = len + 1 /\ chain'[u][i] = new
    <3>1. CASE u # t
      BY <1>5, <3>1
    <3>2. CASE u = t
      <4>1. i \in 1 .. (len + 1)
        BY <1>4, <1>5, <3>2
      <4>2. i \in 1 .. len \/ i = len + 1
        BY <1>1, <4>1
      <4>. QED
        BY <1>4, <1>5, <3>2, <4>2
    <3>. QED
      BY <3>1, <3>2
  <2>3. ASSUME NEW u \in StackThreads, NEW v \in StackThreads,
               NEW i \in 1 .. Len(chain'[u]), NEW j \in 1 .. Len(chain'[v]),
               chain'[u][i] = chain'[v][j]
        PROVE  u = v /\ i = j
    <3>1. /\ \/ i \in 1 .. Len(chain[u]) /\ chain'[u][i] = chain[u][i]
             \/ u = t /\ i = len + 1 /\ chain'[u][i] = new
          /\ \/ j \in 1 .. Len(chain[v]) /\ chain'[v][j] = chain[v][j]
             \/ v = t /\ j = len + 1 /\ chain'[v][j] = new
      BY <2>2
    <3>2. CASE i \in 1 .. Len(chain[u]) /\ chain'[u][i] = chain[u][i]
      <4>1. chain'[v][j] # new
        BY <1>7, <2>3, <3>2
      <4>2. j \in 1 .. Len(chain[v]) /\ chain[u][i] = chain[v][j]
        BY <2>3, <3>1, <3>2, <4>1
      <4>. QED
        BY <3>2, <4>2 DEF KInv, Chains
    <3>3. CASE u = t /\ i = len + 1 /\ chain'[u][i] = new
      BY <1>7, <2>3, <3>1, <3>3
    <3>. QED
      BY <3>1, <3>2, <3>3
  <2>4. ASSUME NEW s \in Ids
        PROVE  (\E u \in StackThreads : s \in Elements(chain'[u]))
                 <=> (s = new \/ \E u \in StackThreads : s \in Elements(chain[u]))
    <3>1. \A u \in StackThreads : u # t => Elements(chain'[u]) = Elements(chain[u])
      BY <1>5
    <3>2. Elements(chain'[t]) = Elements(chain[t]) \cup {new}
      <4>1. Elements(chain'[t]) = {Append(c, new)[i] : i \in 1 .. (len + 1)}
        BY <1>4, <1>5, LenProperties DEF Elements
      <4>2. 1 .. (len + 1) = 1 .. len \cup {len + 1}
        BY <1>1
      <4>3. Elements(chain[t]) = {c[i] : i \in 1 .. len}
        BY TopIn DEF Elements
      <4>. QED
        BY <1>4, <4>1, <4>2, <4>3
    <3>. QED
      BY <3>1, <3>2
  <2>5. ASSUME NEW s \in Ids
        PROVE  count'[s] = 1 <=> \E u \in StackThreads : s \in Elements(chain'[u])
    BY <1>5, <2>4 DEF KInv, Chains
  <2>. QED
    BY <2>1, <2>3, <2>5 DEF Chains
<1>9. NoTwo' /\ Phases'
  <2>1. step[p] \notin InCopy /\ gc \notin {"Scanning", "Completing"}
    BY <1>1 DEF InCopy, KInv, Phases, AllIdle
  <2>2. NoTwo'
    BY <1>3, <1>5, <2>1 DEF KInv, NoTwo
  <2>. QED
    BY <1>3, <2>1, <2>2 DEF Phases
<1>10. ASSUME NEW q \in StackProcs PROVE Doing(q)'
  <2>1. CASE q = p
    <3>1. /\ on'[q] = t /\ step'[q] = "run" /\ at'[q] = new /\ chain'[t][Len(chain'[t])] = new
          /\ state'[new] = "Inconsistent"
      BY <1>1, <1>2, <1>3, <1>4, <1>5, <2>1
    <3>. QED
      BY <3>1 DEF Doing, Top, OnStack, InCopy
  <2>2. CASE q # p
    <3>1. Doing(q) /\ on[q] # t
      BY <1>1, <2>2, StackletsAssumption DEF KInv, NoTwo
    <3>2. /\ on'[q] = on[q] /\ step'[q] = step[q] /\ at'[q] = at[q] /\ half'[q] = half[q]
      BY <1>3, <1>5, <2>2
    <3>3. \A u \in StackThreads : on[q] = u => chain'[u] = chain[u]
      BY <1>5, <3>1
    <3>4. step[q] = "run" => /\ at[q] \in Ids /\ at[q] # new /\ at[q] # top
      <4>1. ASSUME step[q] = "run" PROVE on[q] \in StackThreads /\ at[q] = Top(on[q])
        BY <3>1, <4>1 DEF Doing, OnStack
      <4>. QED
        BY <1>2, <3>1, <4>1, TopIn
    <3>5. step[q] \in InCopy => /\ at[q] \in Ids /\ at[q] # new
                                /\ ~ (at[q] = top /\ hand)
      <4>1. ASSUME step[q] \in InCopy
            PROVE  at[q] \in Ids /\ state[at[q]] = "Copying" /\ count[at[q]] = 1
        BY <3>1, <4>1, AtIn DEF KInv, Doing, Promise, InCopy, OnStack
      <4>. QED
        BY <1>2, <4>1
    <3>6. step[q] \in InCopy \cup {"run"} =>
            state'[at[q]] = state[at[q]] /\ primary'[at[q]] = primary[at[q]]
      BY <1>3, <1>5, <3>4, <3>5
    <3>. QED
      BY <3>1, <3>2, <3>3, <3>6 DEF Doing, Top, InCopy
  <2>. QED
    BY <2>1, <2>2
<1>11. ASSUME NEW s \in Ids PROVE Promise(s)'
  <2>1. CASE s = new
    BY <1>3, <2>1 DEF Promise
  <2>2. CASE s # new /\ s = top /\ hand
    BY <1>1, <1>3, <1>5, <2>2 DEF Promise
  <2>3. CASE s # new /\ ~ (s = top /\ hand)
    BY <1>3, <1>5, <2>3 DEF Promise, KInv
  <2>. QED
    BY <2>1, <2>2, <2>3
<1>. QED
  BY <1>6, <1>8, <1>9, <1>10, <1>11 DEF KInv

(* A stack loses its top stacklet, on which its thread was running: nobody *)
(* copies it, or is going to before it is used again.                      *)
LEMMA LeaveStep ==
  ASSUME KInv, NEW p \in StackProcs, NEW t \in StackThreads, Len(chain[t]) > 1,
         Leave(p, t, Len(chain[t]) - 1)
  PROVE  KInv'
<1>. PICK top, c, n : top = Top(t) /\ c = chain[t] /\ n = Len(chain[t]) - 1
  OBVIOUS
<1>1. /\ Doing(p) /\ on[p] = t /\ step[p] = "run" /\ at[p] = top
      /\ top \in Ids /\ c \in Seq(Ids) /\ n \in Nat /\ n >= 1
      /\ Len(c) = n + 1 /\ DOMAIN c = 1 .. (n + 1) /\ top = c[n + 1]
      /\ \A i \in 1 .. (n + 1) : c[i] \in Ids
      /\ state[top] \in {"Inconsistent", "ActiveCopied"}
  <2>1. /\ Doing(p) /\ on[p] = t /\ step[p] = "run"
    BY DEF Leave, Running, KInv
  <2>2. /\ top \in Ids /\ c \in Seq(Ids) /\ Len(c) \in Nat /\ n = Len(c) - 1 /\ Len(c) > 1
        /\ DOMAIN c = 1 .. Len(c) /\ top = c[Len(c)]
        /\ \A i \in 1 .. Len(c) : c[i] \in Ids
    BY TopIn DEF Top
  <2>3. n \in Nat /\ n >= 1 /\ Len(c) = n + 1
    BY <2>2
  <2>4. at[p] = top
    BY <2>1 DEF Doing
  <2>. QED
    BY <2>1, <2>2, <2>3, <2>4 DEF Doing
<1>. DEFINE dropped == {chain[t][i] : i \in (n + 1) .. Len(chain[t])}
<1>2. dropped = {top}
  <2>1. (n + 1) .. Len(chain[t]) = {n + 1}
    BY <1>1
  <2>. QED
    BY <1>1, <2>1
<1>3. /\ chain' = [chain EXCEPT ![t] = SubSeq(c, 1, n)]
      /\ count' = [s \in Ids |-> IF s = top THEN count[s] - 1 ELSE count[s]]
      /\ step' = [step EXCEPT ![p] = "kill"] /\ at' = [at EXCEPT ![p] = c[n]]
      /\ UNCHANGED <<state, primary, replica, stackWork, gc, snapshots, toScan, on, half>>
  BY <1>2 DEF Leave, Unwind, Go, Do, gcVars
<1>4. count[top] = 1
  BY TopIn
<1>5. /\ SubSeq(c, 1, n) \in Seq(Ids) /\ Len(SubSeq(c, 1, n)) = n
      /\ \A i \in 1 .. n : SubSeq(c, 1, n)[i] = c[i]
  <2>1. 1 \in 1 .. Len(c) + 1 /\ n \in 0 .. Len(c)
    BY <1>1
  <2>2. \A i \in 1 .. n : i \in 1 .. n - 1 + 1 /\ 1 + i - 1 = i
    BY <1>1
  <2>3. /\ SubSeq(c, 1, n) \in Seq(Ids)
        /\ Len(SubSeq(c, 1, n)) = n
    BY <1>1, <2>1, SubSeqProperties
  <2>4. \A i \in 1 .. n : SubSeq(c, 1, n)[i] = c[i]
    BY <1>1, <2>1, <2>2, SubSeqProperties
  <2>. QED
    BY <2>3, <2>4
<1>6. /\ \A s \in Ids : s # top => count'[s] = count[s]
      /\ count'[top] = 0
      /\ chain'[t] = SubSeq(c, 1, n)
      /\ \A u \in StackThreads : u # t => chain'[u] = chain[u]
      /\ at'[p] = c[n] /\ step'[p] = "kill"
      /\ \A q \in StackProcs : q # p => at'[q] = at[q] /\ step'[q] = step[q]
  BY <1>1, <1>3, <1>4 DEF KInv, StackTypes
<1>7. StackTypes'
  <2>1. chain' \in [StackThreads -> Seq(Ids)]
    BY <1>3, <1>5 DEF KInv, StackTypes
  <2>2. count' \in [Ids -> {0, 1}]
    BY <1>3, <1>4 DEF KInv, StackTypes
  <2>3. c[n] \in Ids
    BY <1>1
  <2>4. step' \in [StackProcs -> Steps] /\ at' \in [StackProcs -> Ids \cup {None}]
    BY <1>3, <2>3 DEF KInv, StackTypes, Steps
  <2>. QED
    BY <1>3, <2>1, <2>2, <2>4 DEF KInv, StackTypes
<1>8. Chains'
  <2>1. \A u \in StackThreads : Len(chain'[u]) >= 1
    BY <1>1, <1>5, <1>6 DEF KInv, Chains
  <2>2. ASSUME NEW u \in StackThreads, NEW i \in 1 .. Len(chain'[u])
        PROVE  i \in 1 .. Len(chain[u]) /\ chain'[u][i] = chain[u][i]
    <3>1. CASE u = t
      <4>1. i \in 1 .. n /\ i \in 1 .. (n + 1) /\ Len(chain[u]) = n + 1
        BY <1>1, <1>5, <1>6, <3>1
      <4>2. chain'[u][i] = c[i]
        BY <1>5, <1>6, <3>1, <4>1
      <4>. QED
        BY <3>1, <4>1, <4>2
    <3>2. CASE u # t
      BY <1>6, <3>2
    <3>. QED
      BY <3>1, <3>2
  <2>3. ASSUME NEW u \in StackThreads, NEW v \in StackThreads,
               NEW i \in 1 .. Len(chain'[u]), NEW j \in 1 .. Len(chain'[v]),
               chain'[u][i] = chain'[v][j]
        PROVE  u = v /\ i = j
    BY <2>2, <2>3 DEF KInv, Chains
  <2>4. ASSUME NEW s \in Ids
        PROVE  (\E u \in StackThreads : s \in Elements(chain'[u]))
                 <=> (s # top /\ \E u \in StackThreads : s \in Elements(chain[u]))
    <3>1. \A u \in StackThreads : u # t => /\ Elements(chain'[u]) = Elements(chain[u])
                                           /\ top \notin Elements(chain[u])
      <4>. SUFFICES ASSUME NEW u \in StackThreads, u # t, top \in Elements(chain[u])
                    PROVE  FALSE
        BY <1>6
      <4>1. PICK i \in 1 .. Len(chain[u]) : chain[u][i] = top
        BY TopIn DEF Elements
      <4>2. n + 1 \in 1 .. Len(chain[t]) /\ chain[t][n + 1] = top
        BY <1>1
      <4>. QED
        BY <4>1, <4>2 DEF KInv, Chains
    <3>2. Elements(chain'[t]) = {c[i] : i \in 1 .. n}
      <4>. PICK d : d = SubSeq(c, 1, n)
        OBVIOUS
      <4>1. DOMAIN d = 1 .. n
        BY <1>5, LenProperties
      <4>2. chain'[t] = d /\ \A i \in 1 .. n : d[i] = c[i]
        BY <1>5, <1>6
      <4>3. Elements(d) = {c[i] : i \in 1 .. n}
        BY <4>1, <4>2 DEF Elements
      <4>. QED
        BY <4>2, <4>3
    <3>3. Elements(chain[t]) = {c[i] : i \in 1 .. (n + 1)}
      BY <1>1 DEF Elements
    <3>4. \A i \in 1 .. n : c[i] # top
      <4>. SUFFICES ASSUME NEW i \in 1 .. n, c[i] = top PROVE FALSE
        OBVIOUS
      <4>1. n + 1 \in 1 .. Len(chain[t]) /\ i \in 1 .. Len(chain[t])
            /\ chain[t][n + 1] = chain[t][i] /\ i # n + 1
        BY <1>1
      <4>. QED
        BY <4>1 DEF KInv, Chains
    <3>5. 1 .. (n + 1) = 1 .. n \cup {n + 1}
      BY <1>1
    <3>6. Elements(chain'[t]) = Elements(chain[t]) \ {top}
      BY <1>1, <3>2, <3>3, <3>4, <3>5
    <3>. QED
      BY <3>1, <3>6
  <2>5. ASSUME NEW s \in Ids
        PROVE  count'[s] = 1 <=> \E u \in StackThreads : s \in Elements(chain'[u])
    BY <1>6, <2>4 DEF KInv, Chains
  <2>. QED
    BY <2>1, <2>3, <2>5 DEF Chains
<1>9. NoTwo' /\ Phases'
  <2>1. "kill" \notin InCopy /\ gc \notin {"Scanning", "Completing"}
    BY <1>1 DEF InCopy, KInv, Phases, AllIdle
  <2>2. NoTwo'
    BY <1>3, <1>6, <2>1 DEF KInv, NoTwo
  <2>. QED
    BY <1>3, <2>1, <2>2 DEF Phases
<1>10. ASSUME NEW q \in StackProcs PROVE Doing(q)'
  <2>1. CASE q = p
    <3>1. /\ on'[q] = t /\ step'[q] = "kill" /\ at'[q] = c[n]
          /\ chain'[t][Len(chain'[t])] = c[n]
      BY <1>1, <1>3, <1>5, <1>6, <2>1
    <3>. QED
      BY <3>1 DEF Doing, Top, OnStack, InCopy
  <2>2. CASE q # p
    <3>1. Doing(q) /\ on[q] # t
      BY <1>1, <2>2, StackletsAssumption DEF KInv, NoTwo
    <3>2. /\ on'[q] = on[q] /\ step'[q] = step[q] /\ at'[q] = at[q] /\ half'[q] = half[q]
          /\ state' = state /\ primary' = primary
      BY <1>3, <1>6, <2>2
    <3>3. \A u \in StackThreads : on[q] = u => chain'[u] = chain[u]
      BY <1>6, <3>1
    <3>. QED
      BY <3>1, <3>2, <3>3 DEF Doing, Top
  <2>. QED
    BY <2>1, <2>2
<1>11. ASSUME NEW s \in Ids PROVE Promise(s)'
  BY <1>1, <1>3, <1>6 DEF Promise, KInv
<1>. QED
  BY <1>7, <1>8, <1>9, <1>10, <1>11 DEF KInv

----------------------------------------------------------------------------
(* The phases of a collection.                                             *)

(* A processor that is idle does nothing to a stacklet.                    *)
LEMMA IdleDoes ==
  ASSUME KInv, AllIdle, UNCHANGED <<chain, procVars>>
  PROVE  NoTwo' /\ AllIdle' /\ \A p \in StackProcs : Doing(p)'
<1>1. NoTwo' /\ AllIdle'
  BY DEF KInv, NoTwo, AllIdle, procVars
<1>2. ASSUME NEW p \in StackProcs PROVE Doing(p)'
  <2>1. Doing(p) /\ step[p] = "idle"
    BY DEF KInv, AllIdle
  <2>2. on[p] = None /\ on'[p] = None /\ step'[p] = "idle"
    BY <2>1 DEF Doing, OnStack, procVars
  <2>. QED
    BY <2>2, StackletsAssumption DEF Doing, OnStack, InCopy
<1>. QED
  BY <1>1, <1>2

(* A collection begins, and all processors stop for a scan of the stacks.  *)
LEMMA SignalStep ==
  ASSUME KInv, SignalOn \/ StopForScan
  PROVE  KInv'
<1>1. CASE SignalOn
  <2>1. /\ UNCHANGED <<chain, count, state, primary, replica, stackWork, toScan,
                       on, step, at, half>>
        /\ gc' = "Pending"
    BY <1>1 DEF SignalOn, chainVars, procVars
  <2>2. StackTypes' /\ Chains' /\ NoTwo' /\ Phases'
    BY <2>1 DEF KInv, StackTypes, Chains, NoTwo, Phases
  <2>3. \A p \in StackProcs : Doing(p)'
    BY <2>1 DEF KInv, Doing, Top
  <2>4. \A s \in Ids : Promise(s)'
    BY <2>1 DEF KInv, Promise
  <2>. QED
    BY <2>2, <2>3, <2>4 DEF KInv
<1>2. CASE StopForScan
  <2>1. /\ UNCHANGED <<chain, count, state, primary, replica, stackWork, procVars>>
        /\ gc' \in {"Scanning", "Completing"} /\ toScan' = StackThreads /\ AllIdle
    BY <1>2 DEF StopForScan, chainVars
  <2>2. NoTwo' /\ AllIdle' /\ \A p \in StackProcs : Doing(p)'
    BY <2>1, IdleDoes
  <2>3. StackTypes' /\ Chains' /\ Phases'
    BY <2>1, <2>2 DEF KInv, StackTypes, Chains, Phases, procVars
  <2>4. \A s \in Ids : Promise(s)'
    BY <2>1 DEF KInv, Promise
  <2>. QED
    BY <2>2, <2>3, <2>4 DEF KInv
<1>. QED
  BY <1>1, <1>2

(* The elements of a chain are stacklets in use.                           *)
LEMMA ElementsIn ==
  ASSUME KInv, NEW t \in StackThreads
  PROVE  Elements(chain[t]) \subseteq Ids /\ \A s \in Elements(chain[t]) : count[s] = 1
<1>1. Elements(chain[t]) \subseteq Ids
  BY TopIn DEF Elements
<1>2. \A s \in Elements(chain[t]) : count[s] = 1
  BY <1>1 DEF KInv, Chains
<1>. QED
  BY <1>1, <1>2

(* initial_root_scan makes the stacklets of a stack wait for their copy.   *)
LEMMA InitialStep ==
  ASSUME KInv, NEW t \in StackThreads, InitialRootScan(t)
  PROVE  KInv'
<1>. PICK E : E = Elements(chain[t])
  OBVIOUS
<1>1. E \subseteq Ids /\ \A s \in E : count[s] = 1
  BY ElementsIn
<1>2. /\ UNCHANGED <<chain, count, primary, replica, procVars>>
      /\ gc' \in {"Scanning", "On"} /\ AllIdle /\ toScan' \subseteq toScan
      /\ state' = [s \in Ids |-> IF s \in E THEN "Pending" ELSE state[s]]
      /\ stackWork' = stackWork \cup E
  BY DEF InitialRootScan, chainVars, KInv, Phases
<1>3. NoTwo' /\ AllIdle' /\ \A p \in StackProcs : Doing(p)'
  BY <1>2, IdleDoes
<1>4. state' \in [Ids -> States] /\ stackWork' \in SUBSET Ids
  BY <1>1, <1>2 DEF KInv, StackTypes, States
<1>5. StackTypes' /\ Chains' /\ Phases'
  BY <1>2, <1>3, <1>4 DEF KInv, StackTypes, Chains, Phases, procVars
<1>6. ASSUME NEW s \in Ids PROVE Promise(s)'
  BY <1>1, <1>2 DEF KInv, Promise
<1>. QED
  BY <1>3, <1>5, <1>6 DEF KInv

(* complete_root_scan leaves every stacklet of a stack copied, and those   *)
(* of the stacks before it.                                                *)
LEMMA CompleteStep ==
  ASSUME KInv, NEW t \in StackThreads, CompleteRootScan(t)
  PROVE  KInv'
<1>. PICK again : again = {s \in Elements(chain[t]) : state[s] # "InactiveCopied"}
  OBVIOUS
<1>1. Elements(chain[t]) \subseteq Ids
  BY ElementsIn
<1>2. /\ UNCHANGED <<chain, count, primary, stackWork, gc, procVars>>
      /\ gc = "Completing" /\ AllIdle /\ toScan' = toScan \ {t}
      /\ state' = [s \in Ids |-> IF s \in again THEN "InactiveCopied" ELSE state[s]]
      /\ replica' = [s \in Ids |-> IF s \in again THEN <<primary[s], primary[s]>>
                                   ELSE replica[s]]
  BY DEF CompleteRootScan, chainVars, KInv, Phases
<1>3. NoTwo' /\ AllIdle' /\ \A p \in StackProcs : Doing(p)'
  BY <1>2, IdleDoes
<1>4. state' \in [Ids -> States] /\ replica' \in [Ids -> {<<0, 0>>, <<1, 1>>}]
  BY <1>2 DEF KInv, StackTypes, States
<1>5. StackTypes' /\ Chains'
  BY <1>2, <1>4 DEF KInv, StackTypes, Chains, procVars
<1>6. ASSUME NEW u \in StackThreads \ toScan', NEW s \in Elements(chain[u])
      PROVE  state'[s] = "InactiveCopied"
  <2>1. s \in Ids
    BY ElementsIn
  <2>2. CASE u = t
    BY <1>2, <2>1, <2>2
  <2>3. CASE u # t
    <3>1. state[s] = "InactiveCopied"
      BY <1>2, <2>3 DEF KInv, Phases
    <3>. QED
      BY <1>2, <2>1, <3>1
  <2>. QED
    BY <2>2, <2>3
<1>7. Phases'
  BY <1>2, <1>3, <1>6 DEF Phases
<1>8. ASSUME NEW s \in Ids PROVE Promise(s)'
  <2>1. CASE s \in again
    <3>1. state'[s] = "InactiveCopied" /\ replica'[s] = <<primary[s], primary[s]>>
      BY <1>2, <2>1
    <3>. QED
      BY <1>2, <3>1 DEF Promise
  <2>2. CASE s \notin again
    BY <1>2, <2>2 DEF KInv, Promise
  <2>. QED
    BY <2>1, <2>2
<1>. QED
  BY <1>3, <1>5, <1>7, <1>8 DEF KInv

(* The exchange of primary and replica changes nothing in a stacklet that  *)
(* is copied.                                                              *)
LEMMA FlipStep ==
  ASSUME KInv, FlipStacklets
  PROVE  KInv'
<1>1. /\ UNCHANGED <<chain, count, state, stackWork, toScan, procVars>>
      /\ gc' = "Off" /\ AllIdle
      /\ primary' = [s \in Ids |-> replica[s][1]]
      /\ replica' = [s \in Ids |-> <<primary[s], primary[s]>>]
  BY DEF FlipStacklets, chainVars, KInv, Phases
<1>2. NoTwo' /\ AllIdle' /\ \A p \in StackProcs : Doing(p)'
  BY <1>1, IdleDoes
<1>3. primary' \in [Ids -> {0, 1}] /\ replica' \in [Ids -> {<<0, 0>>, <<1, 1>>}]
  BY <1>1 DEF KInv, StackTypes
<1>4. StackTypes' /\ Chains' /\ Phases'
  BY <1>1, <1>2, <1>3 DEF KInv, StackTypes, Chains, Phases, procVars
<1>5. ASSUME NEW s \in Ids PROVE Promise(s)'
  <2>1. ASSUME state[s] = "InactiveCopied"
        PROVE  primary'[s] = primary[s] /\ replica'[s] = <<primary[s], primary[s]>>
    BY <1>1, <2>1 DEF KInv, Promise
  <2>2. ASSUME state'[s] = "InactiveCopied"
        PROVE  replica'[s] = <<primary'[s], primary'[s]>>
    BY <1>1, <2>1, <2>2
  <2>. QED
    BY <1>1, <2>2 DEF KInv, Promise
<1>. QED
  BY <1>2, <1>4, <1>5 DEF KInv

----------------------------------------------------------------------------
(* At the start each thread has one stacklet of its own.                   *)
LEMMA StackInitInv == StackInit => KInv
<1>. SUFFICES ASSUME StackInit PROVE KInv
  OBVIOUS
<1>1. PICK ids \in [StackThreads -> Ids] :
        /\ \A t, u \in StackThreads : t # u => ids[t] # ids[u]
        /\ chain = [t \in StackThreads |-> <<ids[t]>>]
        /\ count = [s \in Ids |-> IF \E t \in StackThreads : ids[t] = s THEN 1 ELSE 0]
  BY DEF StackInit
<1>2. /\ \A t \in StackThreads : /\ chain[t] = <<ids[t]>> /\ ids[t] \in Ids
                                 /\ Len(chain[t]) = 1 /\ chain[t][1] = ids[t]
                                 /\ Elements(chain[t]) = {ids[t]}
                                 /\ chain[t] \in Seq(Ids)
  BY <1>1 DEF Elements
<1>3. /\ state = [s \in Ids |-> "Inconsistent"]
      /\ primary = [s \in Ids |-> 0] /\ replica = [s \in Ids |-> <<0, 0>>]
      /\ half = [p \in StackProcs |-> 0] /\ stackWork = {} /\ gc = "Off" /\ toScan = {}
      /\ on = [p \in StackProcs |-> None] /\ step = [p \in StackProcs |-> "idle"]
      /\ at = [p \in StackProcs |-> None]
  BY DEF StackInit
<1>4. StackTypes
  <2>1. chain \in [StackThreads -> Seq(Ids)] /\ count \in [Ids -> {0, 1}]
    BY <1>1, <1>2
  <2>. QED
    BY <1>3, <2>1 DEF StackTypes, States, Steps
<1>5. Chains
  <2>1. ASSUME NEW t \in StackThreads, NEW i \in 1 .. Len(chain[t])
        PROVE  i = 1 /\ chain[t][i] = ids[t]
    <3>1. Len(chain[t]) = 1
      BY <1>2
    <3>2. i \in 1 .. 1
      BY <3>1
    <3>. QED
      BY <1>2, <3>2
  <2>2. ASSUME NEW s \in Ids
        PROVE  count[s] = 1 <=> \E t \in StackThreads : s \in Elements(chain[t])
    <3>1. count[s] = IF \E t \in StackThreads : ids[t] = s THEN 1 ELSE 0
      BY <1>1
    <3>2. \A t \in StackThreads : s \in Elements(chain[t]) <=> ids[t] = s
      BY <1>2
    <3>. QED
      BY <3>1, <3>2
  <2>. QED
    BY <1>1, <1>2, <2>1, <2>2 DEF Chains
<1>6. NoTwo /\ Phases
  BY <1>3 DEF NoTwo, Phases, InCopy
<1>7. \A p \in StackProcs : Doing(p)
  BY <1>3, StackletsAssumption DEF Doing, OnStack, InCopy
<1>8. \A s \in Ids : Promise(s)
  BY <1>3 DEF Promise
<1>. QED
  BY <1>4, <1>5, <1>6, <1>7, <1>8 DEF KInv

(* Every step keeps the invariant, while no exception passes over more     *)
(* than the stacklet it is raised in.                                      *)
LEMMA StackNextInv ==
  ASSUME ~ Raises, KInv, [StackNext]_stackletVars
  PROVE  KInv'
<1>1. CASE StackNext
  <2>1. ASSUME NEW p \in StackProcs, CopyStart(p) \/ CopyEnd(p) \/ KillReplica(p)
        PROVE  KInv'
    BY <2>1, CopyStartStep, CopyEndStep, KillStep
  <2>2. ASSUME NEW p \in StackProcs,
               \/ TakeStacklet(p) \/ ScanReplica(p)
               \/ \E t \in StackThreads : MapThread(p, t) \/ ReleaseThread(p, t)
        PROVE  KInv'
    BY <2>2, MoveStep
  <2>3. ASSUME NEW p \in StackProcs, NEW t \in StackThreads,
               RunThread(p, t) \/ NewStacklet(p, t)
        PROVE  KInv'
    BY <2>3, RunStep, NewStep
  <2>4. ASSUME NEW p \in StackProcs, NEW t \in StackThreads,
               PopStacklet(p, t) \/ RestoreStack(p, t)
        PROVE  KInv'
    <3>1. CASE PopStacklet(p, t)
      BY <3>1, LeaveStep DEF PopStacklet
    <3>2. CASE RestoreStack(p, t)
      <4>1. PICK n \in 1 .. (Len(chain[t]) - 1) :
              n = Len(chain[t]) - 1 /\ Leave(p, t, n)
        BY <3>2 DEF RestoreStack
      <4>2. Len(chain[t]) > 1
        BY <4>1, TopIn
      <4>. QED
        BY <4>1, <4>2, LeaveStep
    <3>. QED
      BY <2>4, <3>1, <3>2
  <2>5. ASSUME SignalOn \/ StopForScan \/ FlipStacklets PROVE KInv'
    BY <2>5, SignalStep, FlipStep
  <2>6. ASSUME NEW t \in StackThreads, InitialRootScan(t) \/ CompleteRootScan(t)
        PROVE  KInv'
    BY <2>6, InitialStep, CompleteStep
  <2>. QED
    BY <1>1, <2>1, <2>2, <2>3, <2>4, <2>5, <2>6 DEF StackNext
<1>2. CASE UNCHANGED stackletVars
  <2>1. UNCHANGED <<chain, count, state, primary, replica, stackWork, gc, toScan,
                    on, step, at, half>>
    BY <1>2 DEF stackletVars, chainVars, gcVars, procVars
  <2>2. StackTypes' /\ Chains' /\ NoTwo' /\ Phases'
    BY <2>1 DEF KInv, StackTypes, Chains, NoTwo, Phases, AllIdle
  <2>3. \A p \in StackProcs : Doing(p)'
    BY <2>1 DEF KInv, Doing, Top
  <2>4. \A s \in Ids : Promise(s)'
    BY <2>1 DEF KInv, Promise
  <2>. QED
    BY <2>2, <2>3, <2>4 DEF KInv
<1>. QED
  BY <1>1, <1>2

(* What the invariant is for.                                              *)
LEMMA StackInvImplies == KInv => ReplicaWhole /\ ReplicaAtFlip
<1>. SUFFICES ASSUME KInv PROVE ReplicaWhole /\ ReplicaAtFlip
  OBVIOUS
<1>1. ReplicaWhole
  BY DEF KInv, StackTypes, ReplicaWhole
<1>2. ASSUME gc = "Completing", toScan = {}, NEW t \in StackThreads,
             NEW s \in Elements(chain[t])
      PROVE  replica[s] = <<primary[s], primary[s]>>
  <2>1. s \in Ids /\ state[s] = "InactiveCopied"
    BY <1>2, ElementsIn DEF KInv, Phases
  <2>. QED
    BY <2>1 DEF KInv, Promise
<1>. QED
  BY <1>1, <1>2 DEF ReplicaAtFlip

----------------------------------------------------------------------------
(***************************************************************************)
(* Where things are in the heap: the areas of mutators (HeapAreas), the    *)
(* copy ranges of collectors (CopyRanges) and the space of large arrays    *)
(* (LargeObjects), for any number of processors and heaps of any size.     *)
(* Each part has an inductive invariant, the steps that keep it, and what  *)
(* it is for.                                                              *)
(***************************************************************************)

(* Allocation areas.                                                       *)

(* An area with room in it is in fromSpace, whatever its processor does.   *)
AInv ==
  /\ cursor \in Int /\ fromSpace \in {0, 1}
  /\ area \in [AreaProcs -> [space : {0, 1}, low : Int, high : Int]]
  /\ request \in [AreaProcs -> Nat] /\ round \in [AreaProcs -> Int]
  /\ \A p \in AreaProcs : Left(p) > 0 => area[p].space = fromSpace

(* Rounding up gives a number.                                             *)
LEMMA RoundUpInt ==
  ASSUME NEW n \in Nat, NEW k \in Nat \ {0}
  PROVE  RoundUp(n, k) \in Int
<1>1. (n + k - 1) \div k \in Int
  OBVIOUS
<1>. QED
  BY <1>1 DEF RoundUp

(* A processor that loses its area, or gets one in fromSpace, or allocates *)
(* in the one it has, keeps the invariant.                                 *)
LEMMA AreaKept ==
  ASSUME AInv, cursor' \in Int, fromSpace' = fromSpace, NEW p \in AreaProcs, NEW a,
         a \in [space : {0, 1}, low : Int, high : Int],
         a.high - a.low > 0 => a.space = fromSpace,
         area' = [area EXCEPT ![p] = a],
         request' \in [AreaProcs -> Nat], round' \in [AreaProcs -> Int]
  PROVE  AInv'
<1>1. area' \in [AreaProcs -> [space : {0, 1}, low : Int, high : Int]]
  BY DEF AInv
<1>2. area'[p] = a /\ \A q \in AreaProcs : q # p => area'[q] = area[q]
  BY DEF AInv
<1>3. \A q \in AreaProcs : Left(q)' > 0 => area'[q].space = fromSpace
  BY <1>2 DEF AInv, Left
<1>. QED
  BY <1>1, <1>3 DEF AInv

(* Every step keeps the invariant.                                         *)
LEMMA AreaStepInv ==
  ASSUME AInv, HeapAreasNext
  PROVE  AInv'
<1>1. /\ HeapSize \in Nat /\ Page \in Nat \ {0} /\ MaxOffRequest \in Nat \ {0}
      /\ Requests \subseteq Nat \ {0} /\ Survivors \subseteq 0 .. HeapSize
  BY HeapAreasAssumption
<1>2. NoArea \in [space : {0, 1}, low : Int, high : Int] /\ ~ (NoArea.high - NoArea.low > 0)
  BY DEF NoArea
<1>3. \A p \in AreaProcs :
        /\ RoundUp(request[p], Page) \in Int /\ RoundUp(request[p], MaxOffRequest) \in Int
        /\ Left(p) \in Int /\ round[p] \in Int /\ request[p] \in Nat
  BY <1>1, RoundUpInt DEF AInv, Left
<1>4. \A n \in Requests : n \in Nat /\ PagesFor(n) \in Int
  BY <1>1, RoundUpInt DEF PagesFor
<1>5. ASSUME NEW p \in AreaProcs, NEW n \in Requests, Allocate(p, n) PROVE AInv'
  <2>1. PICK a : a = [area[p] EXCEPT !.low = @ + n]
    OBVIOUS
  <2>2. area[p] \in [space : {0, 1}, low : Int, high : Int] /\ n \in Nat
    BY <1>4 DEF AInv
  <2>3. a.low = area[p].low + n /\ a.high = area[p].high /\ a.space = area[p].space
        /\ a \in [space : {0, 1}, low : Int, high : Int]
    BY <2>1, <2>2
  <2>4. a.high - a.low > 0 => Left(p) > 0
    BY <2>2, <2>3 DEF Left
  <2>5. area' = [area EXCEPT ![p] = a]
    BY <1>5, <2>1 DEF Allocate, AInv
  <2>6. /\ cursor' \in Int /\ fromSpace' = fromSpace
        /\ request' \in [AreaProcs -> Nat] /\ round' \in [AreaProcs -> Int]
    BY <1>5 DEF Allocate, AInv
  <2>7. a.high - a.low > 0 => a.space = fromSpace
    BY <2>3, <2>4 DEF AInv
  <2>. QED
    BY <2>3, <2>5, <2>6, <2>7, AreaKept
<1>6. ASSUME NEW p \in AreaProcs, NEW n \in Requests, Request(p, n) PROVE AInv'
  BY <1>4, <1>6 DEF Request, AInv, Left
<1>7. ASSUME NEW p \in AreaProcs, NEW n \in Requests, AllocFromHeap(p, n) PROVE AInv'
  <2>1. request' \in [AreaProcs -> Nat] /\ round' \in [AreaProcs -> Int] /\ cursor' \in Int
    BY <1>4, <1>7 DEF AllocFromHeap, AInv
  <2>. QED
    BY <1>7, <2>1 DEF AllocFromHeap, AInv, Left
<1>8. ASSUME NEW p \in AreaProcs, EnterGC(p) PROVE AInv'
  <2>1. round' \in [AreaProcs -> Int]
    BY <1>3, <1>8 DEF EnterGC, AInv
  <2>. QED
    BY <1>8, <2>1 DEF EnterGC, AInv, Left
<1>9. ASSUME NEW p \in AreaProcs, GetArea(p) PROVE AInv'
  <2>1. PICK k : k = round[p]
    OBVIOUS
  <2>2. k \in Int /\ cursor' = cursor + k /\ fromSpace' = fromSpace /\ request' = request
        /\ \/ round' = [round EXCEPT ![p] = k] /\ area' = [area EXCEPT ![p] = NoArea]
           \/ /\ round' = [round EXCEPT ![p] = 0]
              /\ area' = [area EXCEPT ![p] = [space |-> fromSpace, low |-> cursor,
                                              high |-> cursor + k]]
    BY <1>3, <1>9, <2>1 DEF GetArea, Take
  <2>3. round' \in [AreaProcs -> Int] /\ cursor' \in Int /\ request' \in [AreaProcs -> Nat]
    BY <2>2 DEF AInv
  <2>4. PICK a : a = [space |-> fromSpace, low |-> cursor, high |-> cursor + k]
    OBVIOUS
  <2>5. a \in [space : {0, 1}, low : Int, high : Int] /\ a.space = fromSpace
    BY <2>2, <2>4 DEF AInv
  <2>. QED
    BY <1>2, <2>2, <2>3, <2>4, <2>5, AreaKept
<1>10. ASSUME NEW p \in AreaProcs, GiveBack(p) PROVE AInv'
  BY <1>3, <1>10 DEF GiveBack, AInv, Left
<1>11. ASSUME NEW p \in AreaProcs, CheckArea(p) PROVE AInv'
  <2>1. round' \in [AreaProcs -> Int]
    BY <1>3, <1>11 DEF CheckArea, AInv
  <2>. QED
    BY <1>11, <2>1 DEF CheckArea, AInv, Left
<1>12. ASSUME NEW p \in AreaProcs, ReturnFromGC(p) PROVE AInv'
  BY <1>12 DEF ReturnFromGC, AInv, Left
<1>13. ASSUME NEW p \in AreaProcs, Poll(p) PROVE AInv'
  BY <1>13 DEF Poll, AInv, Left
<1>14. ASSUME StopCopy PROVE AInv'
  <2>1. cursor' \in Int
    BY <1>1, <1>14 DEF StopCopy
  <2>2. \A p \in AreaProcs : area'[p] = NoArea
    BY <1>14 DEF StopCopy
  <2>3. area' \in [AreaProcs -> [space : {0, 1}, low : Int, high : Int]]
    BY <1>2, <1>14 DEF StopCopy
  <2>4. fromSpace' \in {0, 1}
    BY <1>14 DEF StopCopy, AInv
  <2>. QED
    BY <1>2, <1>14, <2>1, <2>2, <2>3, <2>4 DEF StopCopy, AInv, Left
<1>. QED
  BY <1>5, <1>6, <1>7, <1>8, <1>9, <1>10, <1>11, <1>12, <1>13, <1>14 DEF HeapAreasNext

(* The invariant at the start, in every step, and what follows from it.    *)
LEMMA AreasInv ==
  /\ HeapAreasInit => AInv
  /\ AInv /\ [HeapAreasNext]_areaVars => AInv'
  /\ AInv => AreaInFromSpace
<1>1. HeapAreasInit => AInv
  BY DEF HeapAreasInit, AInv, NoArea, Left
<1>2. ASSUME AInv, UNCHANGED areaVars PROVE AInv'
  BY <1>2 DEF AInv, areaVars, Left
<1>3. AInv => AreaInFromSpace
  BY DEF AInv, AreaInFromSpace
<1>. QED
  BY <1>1, <1>2, <1>3, AreaStepInv

----------------------------------------------------------------------------
(* Copy ranges.                                                            *)

(* A place in the heap, and what the invariant says of one whose cursor is *)
(* h, whose ranges are rg, blocks bl, gray regions gr and scanned objects  *)
(* sc, when the processors en have ended: the operations are several steps *)
(* between such heaps.                                                     *)
EndOf(b) == b.at + b.length
Holding(b, w) == b.at <= w /\ w < EndOf(b)
InRoom(r, w) == r.cursor <= w /\ w < r.stop
InSlice(r, w) == r.start <= w /\ w < r.cursor
InGray(g, w) == g[1] <= w /\ w < g[2]

(* There is room in every page in use.                                     *)
Sound(h, r) ==
  r = NoRange \/ /\ 0 <= r.start /\ r.start <= r.cursor
                 /\ r.cursor < r.stop /\ r.stop <= h

HeapTypes(h, rg, bl, gr) ==
  /\ h \in Nat
  /\ rg \in [CopyProcs -> [start : Int, cursor : Int, stop : Int]]
  /\ \A p \in CopyProcs : Sound(h, rg[p])
  /\ bl \subseteq [at : Nat, length : Nat \ {0}, object : BOOLEAN]
  /\ \A b \in bl : EndOf(b) <= h
  /\ gr \subseteq Nat \X Nat /\ \A g \in gr : g[1] < g[2] /\ g[2] <= h

(* Blocks, the pages from where they are not gray yet, and gray regions do *)
(* not overlap.                                                            *)
Apart(rg, bl, gr) ==
  /\ \A b, c \in bl : b = c \/ EndOf(b) <= c.at \/ EndOf(c) <= b.at
  /\ \A p, q \in CopyProcs : p = q \/ rg[p].stop <= rg[q].start \/ rg[q].stop <= rg[p].start
  /\ \A g, k \in gr : g = k \/ g[2] <= k[1] \/ k[2] <= g[1]
  /\ \A g \in gr, p \in CopyProcs : g[2] <= rg[p].start \/ rg[p].stop <= g[1]

(* The room of a page is free, or is one pad that an earlier minor         *)
(* collection left there.                                                  *)
RoomFree(rg, bl) ==
  \A p \in CopyProcs, b \in bl :
    \/ EndOf(b) <= rg[p].cursor \/ rg[p].stop <= b.at
    \/ ~ b.object /\ b.at = rg[p].cursor /\ EndOf(b) = rg[p].stop

(* What is in no block is in a page that a processor still fills.          *)
Covered(h, rg, bl, en) ==
  \A w \in 0 .. h - 1 : \/ \E b \in bl : Holding(b, w)
                        \/ \E p \in CopyProcs \ en : InRoom(rg[p], w)

(* A block is in a slice to be scanned as a whole or not at all.           *)
WholeIn(b, from, to) == EndOf(b) <= from \/ to <= b.at \/ (from <= b.at /\ EndOf(b) <= to)
Whole(rg, bl, gr) ==
  \A b \in bl : /\ \A g \in gr : WholeIn(b, g[1], g[2])
                /\ \A p \in CopyProcs : WholeIn(b, rg[p].start, rg[p].cursor)

(* What is not scanned is in a slice to be scanned.                        *)
Waits(rg, gr, w) ==
  (\E g \in gr : InGray(g, w)) \/ \E p \in CopyProcs : InSlice(rg[p], w)
ScannedOrWaits(rg, bl, gr, sc) ==
  /\ \A b \in bl : b.object => (b.at \in sc <=> ~ Waits(rg, gr, b.at))
  /\ \A w \in sc : \E b \in bl : b.object /\ b.at = w

GoodHeap(h, rg, bl, gr, sc, en) ==
  /\ HeapTypes(h, rg, bl, gr) /\ Apart(rg, bl, gr) /\ RoomFree(rg, bl)
  /\ Covered(h, rg, bl, en) /\ Whole(rg, bl, gr) /\ ScannedOrWaits(rg, bl, gr, sc)

CInv ==
  /\ GoodHeap(heapCursor, range, blocks, gray, scanned, ended)
  /\ ended \subseteq CopyProcs
  /\ ended # {} => gray = {} /\ \A p \in CopyProcs : range[p].start = range[p].cursor

(* AddGrayCopyRange, and the first thing AllocFromCopyRangeSlow does: the  *)
(* slice of a range becomes a gray region.                                 *)
LEMMA Shade ==
  ASSUME NEW h, NEW rg, NEW bl, NEW gr, NEW sc, NEW en,
         GoodHeap(h, rg, bl, gr, sc, en), NEW p \in CopyProcs
  PROVE  GoodHeap(h, [rg EXCEPT ![p].start = rg[p].cursor], bl,
                  gr \cup GraySlice(rg[p]), sc, en)
<1>. PICK rg2, gr2, r : /\ rg2 = [rg EXCEPT ![p].start = rg[p].cursor]
                        /\ gr2 = gr \cup GraySlice(rg[p]) /\ r = rg[p]
  OBVIOUS
<1>1. /\ h \in Nat
      /\ rg \in [CopyProcs -> [start : Int, cursor : Int, stop : Int]]
      /\ r \in [start : Int, cursor : Int, stop : Int]
      /\ Sound(h, r) /\ r.start <= r.cursor
  BY DEF GoodHeap, HeapTypes, Sound, NoRange
<1>2. /\ rg2 \in [CopyProcs -> [start : Int, cursor : Int, stop : Int]]
      /\ rg2[p].start = r.cursor /\ rg2[p].cursor = r.cursor /\ rg2[p].stop = r.stop
      /\ \A q \in CopyProcs : /\ q # p => rg2[q] = rg[q]
                              /\ rg2[q].cursor = rg[q].cursor /\ rg2[q].stop = rg[q].stop
                              /\ rg[q].start <= rg2[q].start
                              /\ rg2[q].start <= rg2[q].cursor
  <2>1. rg2 = [rg EXCEPT ![p] = [r EXCEPT !.start = r.cursor]]
    BY <1>1
  <2>2. PICK r2 : r2 = [r EXCEPT !.start = r.cursor]
    OBVIOUS
  <2>3. /\ r2 \in [start : Int, cursor : Int, stop : Int]
        /\ r2.start = r.cursor /\ r2.cursor = r.cursor /\ r2.stop = r.stop
    BY <1>1, <2>2
  <2>4. rg2 = [rg EXCEPT ![p] = r2]
    BY <2>1, <2>2
  <2>5. \A q \in CopyProcs : rg[q] \in [start : Int, cursor : Int, stop : Int]
                             /\ rg[q].start <= rg[q].cursor
    BY <1>1 DEF GoodHeap, HeapTypes, Sound, NoRange
  <2>. QED
    BY <1>1, <2>3, <2>4, <2>5
<1>3. ASSUME NEW g \in gr2
      PROVE  \/ g \in gr
             \/ /\ g \in Nat \X Nat /\ g[1] = r.start /\ g[2] = r.cursor
                /\ r.start < r.cursor /\ r.cursor <= r.stop /\ r.stop <= h
  BY <1>1 DEF GraySlice, Sound, NoRange
<1>4. HeapTypes(h, rg2, bl, gr2)
  <2>1. ASSUME NEW q \in CopyProcs PROVE Sound(h, rg2[q])
    <3>1. CASE q = p
      <4>1. CASE r = NoRange
        <5>1. rg2[p] = r
          BY <1>1, <1>2, <4>1 DEF NoRange
        <5>. QED
          BY <1>1, <3>1, <5>1
      <4>2. CASE r # NoRange
        BY <1>1, <1>2, <3>1, <4>2 DEF Sound
      <4>. QED
        BY <4>1, <4>2
    <3>2. CASE q # p
      BY <1>2, <3>2 DEF GoodHeap, HeapTypes
    <3>. QED
      BY <3>1, <3>2
  <2>2. gr2 \subseteq Nat \X Nat /\ \A g \in gr2 : g[1] < g[2] /\ g[2] <= h
    BY <1>1, <1>3 DEF GoodHeap, HeapTypes
  <2>. QED
    BY <1>1, <1>2, <2>1, <2>2 DEF GoodHeap, HeapTypes
<1>5. Apart(rg2, bl, gr2)
  <2>1. \A b, c \in bl : b = c \/ EndOf(b) <= c.at \/ EndOf(c) <= b.at
    BY DEF GoodHeap, Apart
  <2>2. \A q, s \in CopyProcs : q = s \/ rg2[q].stop <= rg2[s].start
                                      \/ rg2[s].stop <= rg2[q].start
    BY <1>1, <1>2 DEF GoodHeap, Apart
  <2>3. ASSUME NEW g \in gr2, NEW k \in gr2 PROVE g = k \/ g[2] <= k[1] \/ k[2] <= g[1]
    BY <1>1, <1>3 DEF GoodHeap, Apart, HeapTypes
  <2>4. ASSUME NEW g \in gr2, NEW q \in CopyProcs
        PROVE  g[2] <= rg2[q].start \/ rg2[q].stop <= g[1]
    <3>1. g[1] \in Int /\ g[2] \in Int
      BY <1>4 DEF HeapTypes
    <3>2. CASE g \in gr
      <4>1. g[2] <= rg[q].start \/ rg[q].stop <= g[1]
        BY <3>2 DEF GoodHeap, Apart
      <4>. QED
        BY <1>1, <1>2, <3>1, <4>1
    <3>3. CASE g \notin gr
      <4>1. q = p \/ r.stop <= rg[q].start \/ rg[q].stop <= r.start
        BY DEF GoodHeap, Apart
      <4>. QED
        BY <1>1, <1>2, <1>3, <3>1, <3>3, <4>1
    <3>. QED
      BY <3>2, <3>3
  <2>. QED
    BY <2>1, <2>2, <2>3, <2>4 DEF Apart
<1>6. RoomFree(rg2, bl) /\ Covered(h, rg2, bl, en)
  BY <1>2 DEF GoodHeap, RoomFree, Covered, InRoom
<1>7. Whole(rg2, bl, gr2)
  <2>1. ASSUME NEW b \in bl, NEW g \in gr2 PROVE WholeIn(b, g[1], g[2])
    BY <1>3 DEF GoodHeap, Whole
  <2>2. ASSUME NEW b \in bl, NEW q \in CopyProcs
        PROVE  WholeIn(b, rg2[q].start, rg2[q].cursor)
    <3>1. CASE q = p
      <4>1. WholeIn(b, r.start, r.cursor) /\ b.at \in Nat /\ EndOf(b) \in Nat
        BY DEF GoodHeap, Whole, HeapTypes, EndOf
      <4>. QED
        BY <1>1, <1>2, <3>1, <4>1 DEF WholeIn
    <3>2. CASE q # p
      BY <1>2, <3>2 DEF GoodHeap, Whole
    <3>. QED
      BY <3>1, <3>2
  <2>. QED
    BY <2>1, <2>2 DEF Whole
<1>8. ScannedOrWaits(rg2, bl, gr2, sc)
  <2>1. ASSUME NEW w \in Nat PROVE Waits(rg2, gr2, w) <=> Waits(rg, gr, w)
    <3>1. \A q \in CopyProcs : InSlice(rg2[q], w) <=> q # p /\ InSlice(rg[q], w)
      BY <1>1, <1>2 DEF InSlice
    <3>2. (\E g \in gr2 : InGray(g, w)) <=> (\E g \in gr : InGray(g, w)) \/ InSlice(r, w)
      <4>1. GraySlice(r) = IF r.start < r.cursor THEN {<<r.start, r.cursor>>} ELSE {}
        BY DEF GraySlice
      <4>2. InSlice(r, w) => r.start < r.cursor
        BY <1>1 DEF InSlice
      <4>3. InGray(<<r.start, r.cursor>>, w) <=> InSlice(r, w)
        BY DEF InGray, InSlice
      <4>. QED
        BY <4>1, <4>2, <4>3
    <3>. QED
      BY <3>1, <3>2 DEF Waits
  <2>2. \A b \in bl : b.at \in Nat
    BY DEF GoodHeap, HeapTypes
  <2>. QED
    BY <2>1, <2>2 DEF GoodHeap, ScannedOrWaits
<1>. QED
  BY <1>4, <1>5, <1>6, <1>7, <1>8 DEF GoodHeap

(* What a pad is.                                                          *)
LEMMA PadIs ==
  ASSUME NEW from \in Int, NEW to \in Int, NEW b
  PROVE  b \in Pad(from, to) <=>
           from < to /\ b = [at |-> from, length |-> to - from, object |-> FALSE]
BY DEF Pad

(* What writing over the pad at the cursor of a page takes from the heap:  *)
(* a pad that fills the room of the page, or nothing.                      *)
LEMMA OverIs ==
  ASSUME NEW h, NEW rg, NEW bl, NEW gr, NEW sc, NEW en,
         GoodHeap(h, rg, bl, gr, sc, en), NEW p \in CopyProcs
  PROVE  /\ Over(bl, rg[p].cursor) \subseteq bl
         /\ \A b \in Over(bl, rg[p].cursor) : EndOf(b) <= rg[p].cursor \/ rg[p].stop <= b.at
         /\ \A b \in bl : b.object => b \in Over(bl, rg[p].cursor)
         /\ \A b \in bl \ Over(bl, rg[p].cursor) : b.at = rg[p].cursor /\ EndOf(b) = rg[p].stop
<1>. PICK r, bs : r = rg[p] /\ bs = Over(bl, rg[p].cursor)
  OBVIOUS
<1>1. /\ r \in [start : Int, cursor : Int, stop : Int] /\ Sound(h, r)
  BY DEF GoodHeap, HeapTypes
<1>2. bs = {b \in bl : b.object \/ b.at # r.cursor}
  BY DEF Over
<1>3. \A b \in bl : \/ EndOf(b) <= r.cursor \/ r.stop <= b.at
                    \/ ~ b.object /\ b.at = r.cursor /\ EndOf(b) = r.stop
  BY DEF GoodHeap, RoomFree
<1>4. ASSUME NEW b \in bl \ bs PROVE b.at = r.cursor /\ EndOf(b) = r.stop
  <2>1. b.at = r.cursor /\ b.at \in Nat /\ b.length \in Nat \ {0}
    BY <1>2 DEF GoodHeap, HeapTypes
  <2>2. ~ (EndOf(b) <= r.cursor)
    BY <1>1, <2>1 DEF EndOf
  <2>3. r # NoRange
    BY <2>1 DEF NoRange
  <2>4. ~ (r.stop <= b.at)
    BY <1>1, <2>1, <2>3 DEF Sound
  <2>. QED
    BY <1>3, <2>2, <2>4
<1>. QED
  BY <1>2, <1>3, <1>4

(* PadCopyRange: the room of a page becomes a block.                       *)
LEMMA PadRoom ==
  ASSUME NEW h, NEW rg, NEW bl, NEW gr, NEW sc, NEW en,
         GoodHeap(h, rg, bl, gr, sc, en), NEW p \in CopyProcs,
         NEW bl2, bl2 = Over(bl, rg[p].cursor) \cup Pad(rg[p].cursor, rg[p].stop)
  PROVE  /\ GoodHeap(h, rg, bl2, gr, sc, en)
         /\ \A w \in Nat : InRoom(rg[p], w) => \E b \in bl2 : Holding(b, w)
<1>. PICK r, bs : r = rg[p] /\ bs = Over(bl, rg[p].cursor)
  OBVIOUS
<1>. DEFINE pad == [at |-> r.cursor, length |-> r.stop - r.cursor, object |-> FALSE]
<1>1. /\ h \in Nat /\ r \in [start : Int, cursor : Int, stop : Int] /\ Sound(h, r)
      /\ \A q \in CopyProcs : rg[q] \in [start : Int, cursor : Int, stop : Int]
  BY DEF GoodHeap, HeapTypes
<1>2. /\ bs \subseteq bl /\ \A b \in bl : b.object => b \in bs
      /\ \A b \in bs : EndOf(b) <= r.cursor \/ r.stop <= b.at
      /\ \A b \in bl \ bs : b.at = r.cursor /\ EndOf(b) = r.stop
  BY OverIs
<1>3. CASE r = NoRange
  <2>1. Pad(r.cursor, r.stop) = {} /\ \A w \in Nat : ~ InRoom(r, w)
    BY <1>3 DEF Pad, NoRange, InRoom
  <2>2. bl \ bs = {}
    <3>1. \A b \in bl : b.at \in Nat
      BY DEF GoodHeap, HeapTypes
    <3>. QED
      BY <1>2, <1>3, <3>1 DEF NoRange
  <2>3. bl2 = bl
    BY <1>2, <2>1, <2>2
  <2>. QED
    BY <2>1, <2>3
<1>4. CASE r # NoRange
  <2>1. /\ 0 <= r.start /\ r.start <= r.cursor /\ r.cursor < r.stop /\ r.stop <= h
        /\ pad \in [at : Nat, length : Nat \ {0}, object : BOOLEAN]
        /\ EndOf(pad) = r.stop /\ pad.at = r.cursor /\ ~ pad.object
    BY <1>1, <1>4 DEF Sound, EndOf
  <2>. HIDE DEF pad
  <2>2. \A b : b \in bl2 <=> b \in bs \/ b = pad
    BY <1>1, <2>1, PadIs DEF pad
  <2>3. \A b \in bl : /\ b.at \in Nat /\ EndOf(b) \in Nat
    BY DEF GoodHeap, HeapTypes, EndOf
  <2>4. HeapTypes(h, rg, bl2, gr)
    BY <1>2, <2>1, <2>2 DEF GoodHeap, HeapTypes
  <2>5. Apart(rg, bl2, gr)
    <3>1. \A b, c \in bl2 : b = c \/ EndOf(b) <= c.at \/ EndOf(c) <= b.at
      BY <1>2, <2>1, <2>2 DEF GoodHeap, Apart
    <3>. QED
      BY <3>1 DEF GoodHeap, Apart
  <2>6. RoomFree(rg, bl2)
    <3>1. ASSUME NEW q \in CopyProcs
          PROVE  \/ EndOf(pad) <= rg[q].cursor \/ rg[q].stop <= pad.at
                 \/ ~ pad.object /\ pad.at = rg[q].cursor /\ EndOf(pad) = rg[q].stop
      <4>1. CASE q = p
        BY <2>1, <4>1
      <4>2. CASE q # p
        <5>1. r.stop <= rg[q].start \/ rg[q].stop <= r.start
          BY <4>2 DEF GoodHeap, Apart
        <5>2. rg[q].start <= rg[q].cursor
          BY DEF GoodHeap, HeapTypes, Sound, NoRange
        <5>. QED
          BY <1>1, <2>1, <5>1, <5>2
      <4>. QED
        BY <4>1, <4>2
    <3>. QED
      BY <1>2, <2>2, <3>1 DEF GoodHeap, RoomFree
  <2>7. \A w \in Nat : InRoom(r, w) => Holding(pad, w)
    BY <1>1, <2>1 DEF InRoom, Holding
  <2>8. Covered(h, rg, bl2, en)
    <3>1. ASSUME NEW b \in bl, NEW w \in Nat, Holding(b, w)
          PROVE  \E c \in bl2 : Holding(c, w)
      BY <1>2, <2>1, <2>2, <3>1 DEF Holding
    <3>2. \A w \in 0 .. h - 1 : w \in Nat
      BY <1>1
    <3>. QED
      BY <3>1, <3>2 DEF GoodHeap, Covered
  <2>9. Whole(rg, bl2, gr)
    <3>1. ASSUME NEW g \in gr PROVE WholeIn(pad, g[1], g[2])
      <4>1. g[2] <= r.start \/ r.stop <= g[1]
        BY DEF GoodHeap, Apart
      <4>2. g[1] \in Nat /\ g[2] \in Nat
        BY DEF GoodHeap, HeapTypes
      <4>. QED
        BY <1>1, <2>1, <4>1, <4>2 DEF WholeIn
    <3>2. ASSUME NEW q \in CopyProcs PROVE WholeIn(pad, rg[q].start, rg[q].cursor)
      <4>1. q = p \/ r.stop <= rg[q].start \/ rg[q].stop <= r.start
        BY DEF GoodHeap, Apart
      <4>2. rg[q].cursor <= rg[q].stop
        BY <1>1 DEF GoodHeap, HeapTypes, Sound, NoRange
      <4>. QED
        BY <1>1, <2>1, <4>1, <4>2 DEF WholeIn
    <3>. QED
      BY <1>2, <2>2, <3>1, <3>2 DEF GoodHeap, Whole
  <2>10. ScannedOrWaits(rg, bl2, gr, sc)
    BY <1>2, <2>1, <2>2 DEF GoodHeap, ScannedOrWaits
  <2>11. \A w \in Nat : InRoom(rg[p], w) => \E b \in bl2 : Holding(b, w)
    BY <2>2, <2>7
  <2>. QED
    BY <2>4, <2>5, <2>6, <2>8, <2>9, <2>10, <2>11 DEF GoodHeap
<1>. QED
  BY <1>3, <1>4

(* A page without room, all of which is scanned or gray, may be forgotten, *)
(* or its processor ends the collection.                                   *)
LEMMA Retire ==
  ASSUME NEW h, NEW rg, NEW bl, NEW gr, NEW sc, NEW en,
         GoodHeap(h, rg, bl, gr, sc, en), NEW p \in CopyProcs,
         rg[p].start = rg[p].cursor,
         \A w \in Nat : InRoom(rg[p], w) => \E b \in bl : Holding(b, w)
  PROVE  /\ GoodHeap(h, rg, bl, gr, sc, en \cup {p})
         /\ GoodHeap(h, [rg EXCEPT ![p] = NoRange], bl, gr, sc, en)
         /\ GoodHeap(h, [rg EXCEPT ![p] = NoRange], bl, gr, sc, en \cup {p})
<1>. PICK r, rg2 : r = rg[p] /\ rg2 = [rg EXCEPT ![p] = NoRange]
  OBVIOUS
<1>1. /\ h \in Nat /\ rg \in [CopyProcs -> [start : Int, cursor : Int, stop : Int]]
      /\ NoRange \in [start : Int, cursor : Int, stop : Int]
      /\ NoRange.start = -1 /\ NoRange.cursor = -1 /\ NoRange.stop = -1
      /\ \A q \in CopyProcs : rg[q].start >= -1 /\ rg[q].cursor >= -1
                              /\ rg[q].start <= rg[q].cursor
  BY DEF GoodHeap, HeapTypes, NoRange, Sound
<1>2. /\ rg2 \in [CopyProcs -> [start : Int, cursor : Int, stop : Int]]
      /\ rg2[p] = NoRange /\ \A q \in CopyProcs : q # p => rg2[q] = rg[q]
  BY <1>1
<1>3. /\ \A b \in bl : b.at \in Nat /\ EndOf(b) \in Nat
      /\ \A g \in gr : g[1] \in Nat /\ g[2] \in Nat
  BY DEF GoodHeap, HeapTypes, EndOf
<1>4. Covered(h, rg, bl, en \cup {p})
  <2>1. ASSUME NEW w \in 0 .. h - 1
        PROVE  \/ \E b \in bl : Holding(b, w)
               \/ \E q \in CopyProcs \ (en \cup {p}) : InRoom(rg[q], w)
    <3>1. w \in Nat
      BY <1>1
    <3>2. \/ \E b \in bl : Holding(b, w)
          \/ \E q \in CopyProcs \ en : InRoom(rg[q], w)
      BY DEF GoodHeap, Covered
    <3>. QED
      BY <3>1, <3>2
  <2>. QED
    BY <2>1 DEF Covered
<1>5. GoodHeap(h, rg, bl, gr, sc, en \cup {p})
  BY <1>4 DEF GoodHeap
<1>6. HeapTypes(h, rg2, bl, gr)
  BY <1>2 DEF GoodHeap, HeapTypes, Sound
<1>7. Apart(rg2, bl, gr)
  <2>1. \A q, s \in CopyProcs : q = s \/ rg2[q].stop <= rg2[s].start
                                      \/ rg2[s].stop <= rg2[q].start
    BY <1>1, <1>2 DEF GoodHeap, Apart
  <2>2. \A g \in gr, q \in CopyProcs : g[2] <= rg2[q].start \/ rg2[q].stop <= g[1]
    BY <1>1, <1>2, <1>3 DEF GoodHeap, Apart
  <2>. QED
    BY <2>1, <2>2 DEF GoodHeap, Apart
<1>8. RoomFree(rg2, bl)
  BY <1>1, <1>2, <1>3 DEF GoodHeap, RoomFree
<1>9. Covered(h, rg2, bl, en \cup {p}) /\ Covered(h, rg2, bl, en)
  BY <1>2, <1>4 DEF Covered
<1>10. Whole(rg2, bl, gr)
  <2>1. \A b \in bl, q \in CopyProcs : WholeIn(b, rg2[q].start, rg2[q].cursor)
    BY <1>1, <1>2, <1>3 DEF GoodHeap, Whole, WholeIn
  <2>. QED
    BY <2>1 DEF GoodHeap, Whole
<1>11. ScannedOrWaits(rg2, bl, gr, sc)
  <2>1. ASSUME NEW w \in Nat PROVE Waits(rg2, gr, w) <=> Waits(rg, gr, w)
    <3>1. \A q \in CopyProcs : InSlice(rg2[q], w) <=> InSlice(rg[q], w)
      BY <1>1, <1>2 DEF InSlice
    <3>. QED
      BY <3>1 DEF Waits
  <2>. QED
    BY <1>3, <2>1 DEF GoodHeap, ScannedOrWaits
<1>. QED
  BY <1>5, <1>6, <1>7, <1>8, <1>9, <1>10, <1>11 DEF GoodHeap

(* SetCopyRange: a page from the cursor of the heap on.                    *)
LEMMA TakePage ==
  ASSUME NEW h, NEW rg, NEW bl, NEW gr, NEW sc, NEW en,
         GoodHeap(h, rg, bl, gr, sc, en), NEW p \in CopyProcs, p \notin en,
         rg[p] = NoRange, NEW n \in Nat \ {0}, NEW page,
         page = [start |-> h, cursor |-> h, stop |-> h + n]
  PROVE  GoodHeap(h + n, [rg EXCEPT ![p] = page], bl, gr, sc, en)
<1>. PICK rg2, h2 : rg2 = [rg EXCEPT ![p] = page] /\ h2 = h + n
  OBVIOUS
<1>1. /\ h \in Nat /\ h2 \in Nat /\ h < h2
      /\ rg \in [CopyProcs -> [start : Int, cursor : Int, stop : Int]]
      /\ page \in [start : Int, cursor : Int, stop : Int]
      /\ page.start = h /\ page.cursor = h /\ page.stop = h2
  BY DEF GoodHeap, HeapTypes
<1>2. /\ rg2 \in [CopyProcs -> [start : Int, cursor : Int, stop : Int]]
      /\ rg2[p] = page /\ \A q \in CopyProcs : q # p => rg2[q] = rg[q]
  BY <1>1
<1>3. /\ \A b \in bl : b.at \in Nat /\ EndOf(b) \in Nat /\ EndOf(b) <= h
      /\ \A g \in gr : g[1] \in Nat /\ g[2] \in Nat /\ g[2] <= h
      /\ \A q \in CopyProcs : Sound(h, rg[q]) /\ rg[q].stop <= h
  BY DEF GoodHeap, HeapTypes, EndOf, Sound, NoRange
<1>4. HeapTypes(h2, rg2, bl, gr)
  <2>1. Sound(h2, page)
    BY <1>1 DEF Sound
  <2>2. \A q \in CopyProcs : Sound(h2, rg[q])
    BY <1>1, <1>3 DEF Sound
  <2>3. /\ \A b \in bl : EndOf(b) <= h2
        /\ \A g \in gr : g[2] <= h2
    BY <1>1, <1>3
  <2>. QED
    BY <1>1, <1>2, <2>1, <2>2, <2>3 DEF GoodHeap, HeapTypes
<1>5. Apart(rg2, bl, gr)
  <2>1. \A q, s \in CopyProcs : q = s \/ rg2[q].stop <= rg2[s].start
                                      \/ rg2[s].stop <= rg2[q].start
    BY <1>1, <1>2, <1>3 DEF GoodHeap, Apart
  <2>2. \A g \in gr, q \in CopyProcs : g[2] <= rg2[q].start \/ rg2[q].stop <= g[1]
    BY <1>1, <1>2, <1>3 DEF GoodHeap, Apart
  <2>. QED
    BY <2>1, <2>2 DEF GoodHeap, Apart
<1>6. RoomFree(rg2, bl)
  BY <1>1, <1>2, <1>3 DEF GoodHeap, RoomFree
<1>7. Covered(h2, rg2, bl, en)
  <2>1. ASSUME NEW w \in 0 .. h2 - 1
        PROVE  \/ \E b \in bl : Holding(b, w)
               \/ \E q \in CopyProcs \ en : InRoom(rg2[q], w)
    <3>1. CASE w >= h
      <4>1. InRoom(rg2[p], w)
        BY <1>1, <1>2, <3>1 DEF InRoom
      <4>. QED
        BY <4>1
    <3>2. CASE ~ (w >= h)
      <4>1. w \in 0 .. h - 1 /\ w >= 0
        BY <1>1, <3>2
      <4>2. \/ \E b \in bl : Holding(b, w)
            \/ \E q \in CopyProcs \ en : InRoom(rg[q], w)
        BY <4>1 DEF GoodHeap, Covered
      <4>3. ~ InRoom(rg[p], w)
        BY <4>1 DEF InRoom, NoRange
      <4>. QED
        BY <1>2, <4>2, <4>3
    <3>. QED
      BY <3>1, <3>2
  <2>. QED
    BY <2>1 DEF Covered
<1>8. Whole(rg2, bl, gr)
  <2>1. \A b \in bl, q \in CopyProcs : WholeIn(b, rg2[q].start, rg2[q].cursor)
    BY <1>1, <1>2, <1>3 DEF GoodHeap, Whole, WholeIn
  <2>. QED
    BY <2>1 DEF GoodHeap, Whole
<1>9. ScannedOrWaits(rg2, bl, gr, sc)
  <2>1. ASSUME NEW w \in Nat PROVE Waits(rg2, gr, w) <=> Waits(rg, gr, w)
    <3>1. \A q \in CopyProcs : InSlice(rg2[q], w) <=> InSlice(rg[q], w)
      BY <1>1, <1>2 DEF InSlice, NoRange
    <3>. QED
      BY <3>1 DEF Waits
  <2>. QED
    BY <1>3, <2>1 DEF GoodHeap, ScannedOrWaits
<1>. QED
  BY <1>4, <1>5, <1>6, <1>7, <1>8, <1>9 DEF GoodHeap

(* A copy is placed in the room of a page, with a pad before it if it is   *)
(* to be aligned.                                                          *)
LEMMA PlaceCopy ==
  ASSUME NEW h, NEW rg, NEW bl, NEW gr, NEW sc, NEW en,
         GoodHeap(h, rg, bl, gr, sc, en), NEW p \in CopyProcs, p \notin en,
         NEW place \in Nat, NEW n \in Nat \ {0}, rg[p] # NoRange,
         rg[p].cursor <= place, place + n < rg[p].stop, NEW bl2,
         bl2 = Over(bl, rg[p].cursor) \cup Pad(rg[p].cursor, place) \cup {Object(place, n)}
  PROVE  GoodHeap(h, [rg EXCEPT ![p].cursor = place + n], bl2, gr, sc, en)
<1>. PICK r, bs, rg2, new, c2 :
       /\ r = rg[p] /\ bs = Over(bl, rg[p].cursor)
       /\ rg2 = [rg EXCEPT ![p].cursor = place + n] /\ new = Object(place, n)
       /\ c2 = place + n
  OBVIOUS
<1>. DEFINE pad == [at |-> r.cursor, length |-> place - r.cursor, object |-> FALSE]
            padded == r.cursor < place
<1>1. /\ h \in Nat /\ rg \in [CopyProcs -> [start : Int, cursor : Int, stop : Int]]
      /\ r \in [start : Int, cursor : Int, stop : Int]
      /\ 0 <= r.start /\ r.start <= r.cursor /\ r.cursor <= place /\ c2 \in Nat
      /\ r.cursor < c2 /\ place < c2 /\ c2 < r.stop /\ r.stop <= h
  BY DEF GoodHeap, HeapTypes, Sound
<1>2. /\ rg2 \in [CopyProcs -> [start : Int, cursor : Int, stop : Int]]
      /\ rg2[p].start = r.start /\ rg2[p].cursor = c2 /\ rg2[p].stop = r.stop
      /\ \A q \in CopyProcs : q # p => rg2[q] = rg[q]
      /\ \A q \in CopyProcs : rg2[q].start = rg[q].start /\ rg2[q].stop = rg[q].stop
  <2>1. PICK r2 : r2 = [r EXCEPT !.cursor = c2]
    OBVIOUS
  <2>2. /\ r2 \in [start : Int, cursor : Int, stop : Int]
        /\ r2.start = r.start /\ r2.cursor = c2 /\ r2.stop = r.stop
    BY <1>1, <2>1
  <2>3. rg2 = [rg EXCEPT ![p] = r2]
    BY <1>1, <2>1
  <2>. QED
    BY <1>1, <2>2, <2>3
<1>3. /\ bs \subseteq bl /\ \A b \in bl : b.object => b \in bs
      /\ \A b \in bs : EndOf(b) <= r.cursor \/ r.stop <= b.at
      /\ \A b \in bl \ bs : b.at = r.cursor /\ EndOf(b) = r.stop
  BY OverIs
<1>4. /\ new \in [at : Nat, length : Nat \ {0}, object : BOOLEAN]
      /\ new.at = place /\ EndOf(new) = c2 /\ new.object
      /\ padded => /\ pad \in [at : Nat, length : Nat \ {0}, object : BOOLEAN]
                   /\ pad.at = r.cursor /\ EndOf(pad) = place /\ ~ pad.object
  BY <1>1 DEF Object, EndOf
<1>5. \A b : b \in bl2 <=> b \in bs \/ (padded /\ b = pad) \/ b = new
  BY <1>1, PadIs
<1>. HIDE DEF pad, padded
<1>6. /\ \A b \in bl : b.at \in Nat /\ EndOf(b) \in Nat /\ EndOf(b) <= h
      /\ \A g \in gr : g[1] \in Nat /\ g[2] \in Nat /\ g[2] <= h
      /\ \A q \in CopyProcs : /\ rg[q] \in [start : Int, cursor : Int, stop : Int]
                              /\ rg[q].start <= rg[q].cursor /\ rg[q].cursor <= rg[q].stop
  BY DEF GoodHeap, HeapTypes, EndOf, Sound, NoRange
<1>7. \A b \in bl2 : \/ b \in bs
                     \/ /\ r.cursor <= b.at /\ EndOf(b) <= c2
                        /\ b.at \in Nat /\ EndOf(b) \in Nat
  BY <1>1, <1>4, <1>5
<1>8. HeapTypes(h, rg2, bl2, gr)
  <2>1. ASSUME NEW q \in CopyProcs PROVE Sound(h, rg2[q])
    BY <1>1, <1>2 DEF GoodHeap, HeapTypes, Sound
  <2>2. bl2 \subseteq [at : Nat, length : Nat \ {0}, object : BOOLEAN]
    BY <1>3, <1>4, <1>5 DEF GoodHeap, HeapTypes
  <2>3. \A b \in bl2 : EndOf(b) <= h
    BY <1>1, <1>3, <1>6, <1>7
  <2>. QED
    BY <1>2, <2>1, <2>2, <2>3 DEF GoodHeap, HeapTypes
<1>9. Apart(rg2, bl2, gr)
  <2>1. ASSUME NEW b \in bl2, NEW c \in bl2
        PROVE  b = c \/ EndOf(b) <= c.at \/ EndOf(c) <= b.at
    <3>1. CASE b \in bs /\ c \in bs
      BY <1>3, <3>1 DEF GoodHeap, Apart
    <3>2. CASE b \in bs /\ c \notin bs
      BY <1>1, <1>3, <1>6, <1>7, <3>2
    <3>3. CASE b \notin bs /\ c \in bs
      BY <1>1, <1>3, <1>6, <1>7, <3>3
    <3>4. CASE b \notin bs /\ c \notin bs
      BY <1>1, <1>4, <1>5, <3>4
    <3>. QED
      BY <3>1, <3>2, <3>3, <3>4
  <2>. QED
    BY <1>2, <2>1 DEF GoodHeap, Apart
<1>10. RoomFree(rg2, bl2)
  <2>1. ASSUME NEW q \in CopyProcs, NEW b \in bl2
        PROVE  \/ EndOf(b) <= rg2[q].cursor \/ rg2[q].stop <= b.at
               \/ ~ b.object /\ b.at = rg2[q].cursor /\ EndOf(b) = rg2[q].stop
    <3>1. CASE b \in bs /\ q = p
      BY <1>1, <1>2, <1>3, <1>6, <3>1
    <3>2. CASE b \in bs /\ q # p
      BY <1>2, <1>3, <3>2 DEF GoodHeap, RoomFree
    <3>3. CASE b \notin bs /\ q = p
      BY <1>2, <1>7, <3>3
    <3>4. CASE b \notin bs /\ q # p
      <4>1. r.stop <= rg[q].start \/ rg[q].stop <= r.start
        BY <3>4 DEF GoodHeap, Apart
      <4>. QED
        BY <1>1, <1>2, <1>6, <1>7, <3>4, <4>1
    <3>. QED
      BY <3>1, <3>2, <3>3, <3>4
  <2>. QED
    BY <2>1 DEF RoomFree
<1>11. Covered(h, rg2, bl2, en)
  <2>1. ASSUME NEW w \in Nat, InRoom(r, w)
        PROVE  (\E b \in bl2 : Holding(b, w)) \/ InRoom(rg2[p], w)
    <3>1. CASE w < place
      <4>1. padded /\ Holding(pad, w)
        BY <1>1, <1>4, <2>1, <3>1 DEF InRoom, Holding, padded
      <4>. QED
        BY <1>5, <4>1
    <3>2. CASE place <= w /\ w < c2
      <4>1. Holding(new, w)
        BY <1>1, <1>4, <3>2 DEF Holding
      <4>. QED
        BY <1>5, <4>1
    <3>3. CASE c2 <= w
      BY <1>1, <1>2, <2>1, <3>3 DEF InRoom
    <3>. QED
      BY <1>1, <3>1, <3>2, <3>3
  <2>2. ASSUME NEW b \in bl, NEW w \in Nat, Holding(b, w)
        PROVE  b \in bl2 \/ InRoom(r, w)
    BY <1>3, <1>5, <2>2 DEF Holding, InRoom
  <2>3. ASSUME NEW w \in 0 .. h - 1
        PROVE  \/ \E b \in bl2 : Holding(b, w)
               \/ \E q \in CopyProcs \ en : InRoom(rg2[q], w)
    <3>1. w \in Nat
      BY <1>1
    <3>2. \/ \E b \in bl : Holding(b, w)
          \/ \E q \in CopyProcs \ en : InRoom(rg[q], w)
      BY DEF GoodHeap, Covered
    <3>. QED
      BY <1>2, <2>1, <2>2, <3>1, <3>2
  <2>. QED
    BY <2>3 DEF Covered
<1>12. Whole(rg2, bl2, gr)
  <2>1. ASSUME NEW b \in bl2, NEW g \in gr PROVE WholeIn(b, g[1], g[2])
    <3>1. CASE b \in bs
      BY <1>3, <3>1 DEF GoodHeap, Whole
    <3>2. CASE b \notin bs
      <4>1. g[2] <= r.start \/ r.stop <= g[1]
        BY DEF GoodHeap, Apart
      <4>. QED
        BY <1>1, <1>6, <1>7, <3>2, <4>1 DEF WholeIn
    <3>. QED
      BY <3>1, <3>2
  <2>2. ASSUME NEW b \in bl2, NEW q \in CopyProcs
        PROVE  WholeIn(b, rg2[q].start, rg2[q].cursor)
    <3>1. CASE b \in bs
      <4>1. WholeIn(b, rg[q].start, rg[q].cursor)
        BY <1>3, <3>1 DEF GoodHeap, Whole
      <4>2. CASE q = p
        <5>1. b.at \in Nat /\ EndOf(b) \in Nat /\ (EndOf(b) <= r.cursor \/ r.stop <= b.at)
          BY <1>3, <1>6, <3>1
        <5>. QED
          BY <1>1, <1>2, <4>1, <4>2, <5>1 DEF WholeIn
      <4>3. CASE q # p
        BY <1>2, <4>1, <4>3
      <4>. QED
        BY <4>2, <4>3
    <3>2. CASE b \notin bs /\ q = p
      BY <1>1, <1>2, <1>7, <3>2 DEF WholeIn
    <3>3. CASE b \notin bs /\ q # p
      <4>1. r.stop <= rg[q].start \/ rg[q].stop <= r.start
        BY <3>3 DEF GoodHeap, Apart
      <4>. QED
        BY <1>1, <1>2, <1>6, <1>7, <3>3, <4>1 DEF WholeIn
    <3>. QED
      BY <3>1, <3>2, <3>3
  <2>. QED
    BY <2>1, <2>2 DEF Whole
<1>13. ScannedOrWaits(rg2, bl2, gr, sc)
  <2>1. Waits(rg2, gr, place)
    <3>1. InSlice(rg2[p], place)
      BY <1>1, <1>2 DEF InSlice
    <3>. QED
      BY <3>1 DEF Waits
  <2>2. ASSUME NEW b \in bs, b.object PROVE Waits(rg2, gr, b.at) <=> Waits(rg, gr, b.at)
    <3>1. \A q \in CopyProcs : InSlice(rg2[q], b.at) <=> InSlice(rg[q], b.at)
      <4>1. b.at \in Nat /\ EndOf(b) \in Nat /\ b.at < EndOf(b)
            /\ (EndOf(b) <= r.cursor \/ r.stop <= b.at)
        BY <1>3, <1>6 DEF GoodHeap, HeapTypes, EndOf
      <4>2. InSlice(rg2[p], b.at) <=> InSlice(r, b.at)
        BY <1>1, <1>2, <4>1 DEF InSlice
      <4>. QED
        BY <1>2, <4>2
    <3>. QED
      BY <3>1 DEF Waits
  <2>3. place \notin sc
    <3>. SUFFICES ASSUME place \in sc PROVE FALSE
      OBVIOUS
    <3>1. PICK b \in bl : b.object /\ b.at = place
      BY DEF GoodHeap, ScannedOrWaits
    <3>2. b.at \in Nat /\ b.length \in Nat \ {0} /\ (EndOf(b) <= r.cursor \/ r.stop <= b.at)
      BY <1>3, <3>1 DEF GoodHeap, HeapTypes
    <3>. QED
      BY <1>1, <3>1, <3>2 DEF EndOf
  <2>4. \A b \in bl2 : b.object => b \in bs \/ b = new
    BY <1>4, <1>5
  <2>5. \A b \in bl2 : b.object => (b.at \in sc <=> ~ Waits(rg2, gr, b.at))
    BY ZenonT(30), <1>3, <1>4, <2>1, <2>2, <2>3, <2>4 DEF GoodHeap, ScannedOrWaits
  <2>6. \A w \in sc : \E b \in bl2 : b.object /\ b.at = w
    BY <1>3, <1>5 DEF GoodHeap, ScannedOrWaits
  <2>. QED
    BY <2>5, <2>6 DEF ScannedOrWaits
<1>. QED
  BY <1>8, <1>9, <1>10, <1>11, <1>12, <1>13 DEF GoodHeap

(* A copy of a chunk or more gets an area of its own beyond the cursor of  *)
(* the heap, which is a gray region from the start.                        *)
LEMMA PlaceLarge ==
  ASSUME NEW h, NEW rg, NEW bl, NEW gr, NEW sc, NEW en,
         GoodHeap(h, rg, bl, gr, sc, en),
         NEW place \in Nat, NEW n \in Nat \ {0}, NEW stop \in Nat,
         h <= place, place + n <= stop, NEW bl2,
         bl2 = bl \cup Pad(h, place) \cup {Object(place, n)} \cup Pad(place + n, stop)
  PROVE  GoodHeap(stop, rg, bl2, gr \cup {<<place, place + n>>}, sc, en)
<1>. PICK new, c2, gr2 : /\ new = Object(place, n) /\ c2 = place + n
                         /\ gr2 = gr \cup {<<place, place + n>>}
  OBVIOUS
<1>. DEFINE before == [at |-> h, length |-> place - h, object |-> FALSE]
            after == [at |-> c2, length |-> stop - c2, object |-> FALSE]
            isBefore == h < place
            isAfter == c2 < stop
<1>1. /\ h \in Nat /\ c2 \in Nat /\ place < c2 /\ c2 <= stop /\ h <= place /\ h < stop
  BY DEF GoodHeap, HeapTypes
<1>2. /\ \A b \in bl : b.at \in Nat /\ EndOf(b) \in Nat /\ EndOf(b) <= h /\ b.at < EndOf(b)
      /\ \A g \in gr : g \in Nat \X Nat /\ g[1] \in Nat /\ g[2] \in Nat /\ g[2] <= h
                       /\ g[1] < g[2]
      /\ \A q \in CopyProcs : /\ rg[q] \in [start : Int, cursor : Int, stop : Int]
                              /\ rg[q].start <= rg[q].cursor /\ rg[q].cursor <= rg[q].stop
                              /\ rg[q].stop <= h
  BY DEF GoodHeap, HeapTypes, EndOf, Sound, NoRange
<1>3. /\ new \in [at : Nat, length : Nat \ {0}, object : BOOLEAN]
      /\ new.at = place /\ EndOf(new) = c2 /\ new.object
      /\ isBefore => /\ before \in [at : Nat, length : Nat \ {0}, object : BOOLEAN]
                     /\ before.at = h /\ EndOf(before) = place /\ ~ before.object
      /\ isAfter => /\ after \in [at : Nat, length : Nat \ {0}, object : BOOLEAN]
                    /\ after.at = c2 /\ EndOf(after) = stop /\ ~ after.object
  BY <1>1 DEF Object, EndOf
<1>4. \A b : b \in bl2 <=> \/ b \in bl \/ b = new
                           \/ (isBefore /\ b = before) \/ (isAfter /\ b = after)
  BY <1>1, PadIs
<1>. HIDE DEF before, after, isBefore, isAfter
<1>5. \A b \in bl2 : \/ b \in bl
                     \/ /\ b = new \/ (isBefore /\ b = before) \/ (isAfter /\ b = after)
                        /\ h <= b.at /\ EndOf(b) <= stop
                        /\ b.at \in Nat /\ EndOf(b) \in Nat
  BY <1>1, <1>3, <1>4
<1>6. \A g \in gr2 : \/ g \in gr
                     \/ g \in Nat \X Nat /\ g[1] = place /\ g[2] = c2
  BY <1>1
<1>7. HeapTypes(stop, rg, bl2, gr2)
  <2>1. ASSUME NEW q \in CopyProcs PROVE Sound(stop, rg[q])
    BY <1>1, <1>2 DEF GoodHeap, HeapTypes, Sound
  <2>2. bl2 \subseteq [at : Nat, length : Nat \ {0}, object : BOOLEAN]
    BY <1>3, <1>4 DEF GoodHeap, HeapTypes
  <2>3. \A b \in bl2 : EndOf(b) <= stop
    BY <1>1, <1>2, <1>5
  <2>4. gr2 \subseteq Nat \X Nat /\ \A g \in gr2 : g[1] < g[2] /\ g[2] <= stop
    BY <1>1, <1>2, <1>6
  <2>. QED
    BY <2>1, <2>2, <2>3, <2>4 DEF GoodHeap, HeapTypes
<1>8. Apart(rg, bl2, gr2)
  <2>1. ASSUME NEW b \in bl2, NEW c \in bl2
        PROVE  b = c \/ EndOf(b) <= c.at \/ EndOf(c) <= b.at
    <3>1. CASE b \in bl /\ c \in bl
      BY <3>1 DEF GoodHeap, Apart
    <3>2. CASE (b \in bl /\ c \notin bl) \/ (b \notin bl /\ c \in bl)
      BY <1>1, <1>2, <1>5, <3>2
    <3>3. CASE b \notin bl /\ c \notin bl
      BY <1>1, <1>3, <1>5, <3>3
    <3>. QED
      BY <3>1, <3>2, <3>3
  <2>2. ASSUME NEW g \in gr2, NEW k \in gr2 PROVE g = k \/ g[2] <= k[1] \/ k[2] <= g[1]
    <3>1. CASE g \in gr /\ k \in gr
      BY <3>1 DEF GoodHeap, Apart
    <3>2. CASE g \notin gr /\ k \notin gr
      BY <3>2
    <3>3. CASE (g \in gr /\ k \notin gr) \/ (g \notin gr /\ k \in gr)
      BY <1>1, <1>2, <1>6, <3>3
    <3>. QED
      BY <3>1, <3>2, <3>3
  <2>3. \A g \in gr2, q \in CopyProcs : g[2] <= rg[q].start \/ rg[q].stop <= g[1]
    BY <1>1, <1>2, <1>6 DEF GoodHeap, Apart
  <2>. QED
    BY <2>1, <2>2, <2>3 DEF GoodHeap, Apart
<1>9. RoomFree(rg, bl2)
  BY <1>1, <1>2, <1>5 DEF GoodHeap, RoomFree
<1>10. Covered(stop, rg, bl2, en)
  <2>1. ASSUME NEW w \in 0 .. stop - 1
        PROVE  \/ \E b \in bl2 : Holding(b, w)
               \/ \E q \in CopyProcs \ en : InRoom(rg[q], w)
    <3>1. w \in Nat /\ w < stop
      BY <1>1
    <3>2. CASE w < h
      <4>1. w \in 0 .. h - 1
        BY <1>1, <3>1, <3>2
      <4>2. \/ \E b \in bl : Holding(b, w)
            \/ \E q \in CopyProcs \ en : InRoom(rg[q], w)
        BY <4>1 DEF GoodHeap, Covered
      <4>. QED
        BY <1>4, <4>2
    <3>3. CASE h <= w /\ w < place
      <4>1. isBefore /\ Holding(before, w)
        BY <1>1, <1>3, <3>1, <3>3 DEF isBefore, Holding
      <4>. QED
        BY <1>4, <4>1
    <3>4. CASE place <= w /\ w < c2
      <4>1. Holding(new, w)
        BY <1>1, <1>3, <3>1, <3>4 DEF Holding
      <4>. QED
        BY <1>4, <4>1
    <3>5. CASE c2 <= w
      <4>1. isAfter /\ Holding(after, w)
        BY <1>1, <1>3, <3>1, <3>5 DEF isAfter, Holding
      <4>. QED
        BY <1>4, <4>1
    <3>. QED
      BY <1>1, <3>1, <3>2, <3>3, <3>4, <3>5
  <2>. QED
    BY <2>1 DEF Covered
<1>11. Whole(rg, bl2, gr2)
  <2>1. ASSUME NEW b \in bl2, NEW g \in gr2 PROVE WholeIn(b, g[1], g[2])
    <3>1. CASE b \in bl /\ g \in gr
      BY <3>1 DEF GoodHeap, Whole
    <3>2. CASE b \in bl /\ g \notin gr
      BY <1>1, <1>2, <1>6, <3>2 DEF WholeIn
    <3>3. CASE b \notin bl /\ g \in gr
      BY <1>1, <1>2, <1>5, <3>3 DEF WholeIn
    <3>4. CASE b \notin bl /\ g \notin gr
      BY <1>1, <1>3, <1>5, <1>6, <3>4 DEF WholeIn
    <3>. QED
      BY <3>1, <3>2, <3>3, <3>4
  <2>2. ASSUME NEW b \in bl2, NEW q \in CopyProcs
        PROVE  WholeIn(b, rg[q].start, rg[q].cursor)
    <3>1. CASE b \in bl
      BY <3>1 DEF GoodHeap, Whole
    <3>2. CASE b \notin bl
      BY <1>1, <1>2, <1>5, <3>2 DEF WholeIn
    <3>. QED
      BY <3>1, <3>2
  <2>. QED
    BY <2>1, <2>2 DEF Whole
<1>12. ScannedOrWaits(rg, bl2, gr2, sc)
  <2>1. Waits(rg, gr2, place)
    <3>1. InGray(<<place, place + n>>, place)
      BY <1>1 DEF InGray
    <3>. QED
      BY <3>1 DEF Waits
  <2>2. ASSUME NEW b \in bl PROVE Waits(rg, gr2, b.at) <=> Waits(rg, gr, b.at)
    <3>1. ~ InGray(<<place, place + n>>, b.at)
      BY <1>1, <1>2 DEF InGray
    <3>. QED
      BY <3>1 DEF Waits
  <2>3. place \notin sc
    BY <1>1, <1>2 DEF GoodHeap, ScannedOrWaits
  <2>4. \A b \in bl2 : b.object => b \in bl \/ b = new
    BY <1>3, <1>4
  <2>5. \A b \in bl2 : b.object => (b.at \in sc <=> ~ Waits(rg, gr2, b.at))
    BY <1>3, <2>1, <2>2, <2>3, <2>4 DEF GoodHeap, ScannedOrWaits
  <2>6. \A w \in sc : \E b \in bl2 : b.object /\ b.at = w
    BY <1>4 DEF GoodHeap, ScannedOrWaits
  <2>. QED
    BY <2>5, <2>6 DEF ScannedOrWaits
<1>. QED
  BY <1>7, <1>8, <1>9, <1>10, <1>11, <1>12 DEF GoodHeap

(* scanRegion: the objects of a gray region are scanned.                   *)
LEMMA ScanGray ==
  ASSUME NEW h, NEW rg, NEW bl, NEW gr, NEW sc, NEW en,
         GoodHeap(h, rg, bl, gr, sc, en), NEW g \in gr, NEW sc2,
         sc2 = sc \cup {b.at : b \in {o \in bl : o.object /\ g[1] <= o.at /\ o.at < g[2]}}
  PROVE  GoodHeap(h, rg, bl, gr \ {g}, sc2, en)
<1>. PICK gr2 : gr2 = gr \ {g}
  OBVIOUS
<1>1. HeapTypes(h, rg, bl, gr2) /\ Apart(rg, bl, gr2) /\ Whole(rg, bl, gr2)
  BY DEF GoodHeap, HeapTypes, Apart, Whole
<1>2. \A w : w \in sc2 <=> w \in sc \/ \E b \in bl : b.object /\ b.at = w /\ InGray(g, w)
  BY DEF InGray
<1>3. ASSUME NEW w \in Nat, InGray(g, w) PROVE ~ Waits(rg, gr2, w)
  <2>1. \A k \in gr2 : ~ InGray(k, w)
    BY <1>3 DEF GoodHeap, HeapTypes, Apart, InGray
  <2>2. \A q \in CopyProcs : ~ InSlice(rg[q], w)
    <3>. SUFFICES ASSUME NEW q \in CopyProcs, InSlice(rg[q], w) PROVE FALSE
      OBVIOUS
    <3>1. g[2] <= rg[q].start \/ rg[q].stop <= g[1]
      BY DEF GoodHeap, Apart
    <3>2. /\ rg[q] \in [start : Int, cursor : Int, stop : Int]
          /\ rg[q].cursor <= rg[q].stop /\ g[1] \in Nat /\ g[2] \in Nat
      BY DEF GoodHeap, HeapTypes, Sound, NoRange
    <3>. QED
      BY <1>3, <3>1, <3>2 DEF InGray, InSlice
  <2>. QED
    BY <2>1, <2>2 DEF Waits
<1>4. ASSUME NEW w \in Nat PROVE Waits(rg, gr2, w) <=> Waits(rg, gr, w) /\ ~ InGray(g, w)
  BY <1>3 DEF Waits
<1>5. \A b \in bl : b.at \in Nat
  BY DEF GoodHeap, HeapTypes
<1>6. ASSUME NEW b \in bl, b.object PROVE b.at \in sc2 <=> ~ Waits(rg, gr2, b.at)
  <2>1. b.at \in sc <=> ~ Waits(rg, gr, b.at)
    BY <1>6 DEF GoodHeap, ScannedOrWaits
  <2>2. b.at \in sc2 <=> b.at \in sc \/ InGray(g, b.at)
    BY <1>2, <1>6
  <2>. QED
    BY <1>4, <1>5, <2>1, <2>2
<1>7. \A w \in sc2 : \E b \in bl : b.object /\ b.at = w
  BY <1>2 DEF GoodHeap, ScannedOrWaits
<1>. QED
  BY <1>1, <1>6, <1>7 DEF GoodHeap, ScannedOrWaits

(* Where a copy is aligned to.                                             *)
LEMMA AlignedIs ==
  ASSUME NEW c \in Copies, NEW from \in Int
  PROVE  /\ c.length \in Nat \ {0} /\ AlignedLength(c) \in Nat \ {0}
         /\ Aligned(from, c.align) \in Int /\ from <= Aligned(from, c.align)
         /\ Aligned(from, c.align) + c.length <= from + AlignedLength(c)
<1>1. /\ c.length \in Nat \ {0}
      /\ c.align \in {"NoWordAlign", "OddWordAlign", "EvenWordAlign"}
  BY CopyRangesAssumption
<1>2. \/ Aligned(from, c.align) = from
      \/ Aligned(from, c.align) = from + 1 /\ c.align # "NoWordAlign"
  BY <1>1 DEF Aligned
<1>. QED
  BY <1>1, <1>2 DEF AlignedLength

(* The fast path of an allocation.                                         *)
LEMMA AllocStep ==
  ASSUME CInv, NEW p \in CopyProcs, NEW c \in Copies, AllocFromCopyRange(p, c)
  PROVE  CInv'
<1>. PICK r, place, n : /\ r = range[p] /\ n = c.length
                        /\ place = Aligned(range[p].cursor, c.align)
  OBVIOUS
<1>1. /\ ended = {} /\ r.cursor + AlignedLength(c) < r.stop
      /\ range' = [range EXCEPT ![p].cursor = place + n]
      /\ blocks' = Over(blocks, r.cursor) \cup Pad(r.cursor, place) \cup {Object(place, n)}
      /\ UNCHANGED <<heapCursor, gray, scanned, ended>>
  BY DEF AllocFromCopyRange, Copying, Fits
<1>2. r \in [start : Int, cursor : Int, stop : Int] /\ Sound(heapCursor, r)
  BY DEF CInv, GoodHeap, HeapTypes
<1>3. /\ n \in Nat \ {0} /\ AlignedLength(c) \in Nat \ {0} /\ place \in Int
      /\ r.cursor <= place /\ place + n <= r.cursor + AlignedLength(c)
  BY <1>2, AlignedIs
<1>4. r # NoRange
  BY <1>1, <1>3 DEF NoRange
<1>5. place \in Nat /\ place + n < r.stop
  BY <1>1, <1>2, <1>3, <1>4 DEF Sound
<1>6. GoodHeap(heapCursor, range', blocks', gray, scanned, ended)
  BY <1>1, <1>3, <1>4, <1>5, PlaceCopy DEF CInv
<1>. QED
  BY <1>1, <1>6 DEF CInv

(* The slow path for a large object.                                       *)
LEMMA AllocLargeStep ==
  ASSUME CInv, NEW p \in CopyProcs, NEW c \in Copies, AllocLarge(p, c)
  PROVE  CInv'
<1>. PICK r, place, n, stop, h : /\ r = range[p] /\ n = c.length /\ h = heapCursor
                                 /\ place = Aligned(heapCursor, c.align)
                                 /\ stop = heapCursor + AlignedLength(c)
  OBVIOUS
<1>. PICK rg1, gr1 : /\ rg1 = [range EXCEPT ![p].start = range[p].cursor]
                     /\ gr1 = gray \cup GraySlice(range[p])
  OBVIOUS
<1>1. /\ ended = {} /\ heapCursor' = stop
      /\ range' = rg1 /\ gray' = gr1 \cup {<<place, place + n>>}
      /\ blocks' = blocks \cup Pad(h, place) \cup {Object(place, n)} \cup Pad(place + n, stop)
      /\ UNCHANGED <<scanned, ended>>
  BY DEF AllocLarge, Copying
<1>2. h \in Nat
  BY DEF CInv, GoodHeap, HeapTypes
<1>3. /\ n \in Nat \ {0} /\ place \in Nat /\ h <= place /\ place + n <= stop /\ stop \in Nat
  BY <1>2, AlignedIs
<1>4. GoodHeap(h, rg1, blocks, gr1, scanned, ended)
  BY Shade DEF CInv
<1>5. GoodHeap(stop, rg1, blocks', gr1 \cup {<<place, place + n>>}, scanned, ended)
  BY <1>1, <1>3, <1>4, PlaceLarge
<1>. QED
  BY <1>1, <1>5 DEF CInv

(* The slow path for any other.                                            *)
LEMMA NewPageStep ==
  ASSUME CInv, NEW p \in CopyProcs, NEW c \in Copies, NewPage(p, c)
  PROVE  CInv'
<1>. PICK r, place, n, h : /\ r = range[p] /\ n = c.length /\ h = heapCursor
                           /\ place = Aligned(heapCursor, c.align)
  OBVIOUS
<1>. PICK rg1, rg2, rg3, rg4, gr1, bl1, page, h2 :
       /\ rg1 = [range EXCEPT ![p].start = range[p].cursor]
       /\ gr1 = gray \cup GraySlice(range[p])
       /\ bl1 = Over(blocks, r.cursor) \cup Pad(r.cursor, r.stop)
       /\ rg2 = [rg1 EXCEPT ![p] = NoRange]
       /\ page = [start |-> h, cursor |-> h, stop |-> h + PageSize]
       /\ rg3 = [rg2 EXCEPT ![p] = page]
       /\ rg4 = [rg3 EXCEPT ![p].cursor = place + n]
       /\ h2 = h + PageSize
  OBVIOUS
<1>1. /\ ended = {} /\ AlignedLength(c) < ChunkSize /\ heapCursor' = h2
      /\ range' = [range EXCEPT ![p] = [start |-> h, cursor |-> place + n,
                                        stop |-> h + PageSize]]
      /\ gray' = gr1
      /\ blocks' = bl1 \cup Pad(h, place) \cup {Object(place, n)}
      /\ UNCHANGED <<scanned, ended>>
  BY DEF NewPage, Copying, Padded
<1>2. /\ h \in Nat /\ r \in [start : Int, cursor : Int, stop : Int]
      /\ range \in [CopyProcs -> [start : Int, cursor : Int, stop : Int]]
  BY DEF CInv, GoodHeap, HeapTypes
<1>3. /\ n \in Nat \ {0} /\ place \in Nat /\ h <= place
      /\ place + n <= h + AlignedLength(c) /\ AlignedLength(c) \in Nat \ {0}
  BY <1>2, AlignedIs
<1>4. PageSize \in Nat \ {0} /\ h2 \in Nat /\ place + n < h2
  BY <1>1, <1>2, <1>3, CopyRangesAssumption
<1>5. GoodHeap(h, rg1, blocks, gr1, scanned, ended)
  BY Shade DEF CInv
<1>6. /\ rg1[p].start = r.cursor /\ rg1[p].cursor = r.cursor /\ rg1[p].stop = r.stop
  BY <1>2
<1>7. /\ GoodHeap(h, rg1, bl1, gr1, scanned, ended)
      /\ \A w \in Nat : InRoom(rg1[p], w) => \E b \in bl1 : Holding(b, w)
  <2>1. bl1 = Over(blocks, rg1[p].cursor) \cup Pad(rg1[p].cursor, rg1[p].stop)
    BY <1>6
  <2>. QED
    BY ONLY <1>5, <2>1, p \in CopyProcs, PadRoom
<1>8. GoodHeap(h, rg2, bl1, gr1, scanned, ended)
  BY <1>6, <1>7, Retire
<1>9. rg1 \in [CopyProcs -> [start : Int, cursor : Int, stop : Int]]
      /\ rg2[p] = NoRange
  BY <1>5 DEF GoodHeap, HeapTypes
<1>10. GoodHeap(h2, rg3, bl1, gr1, scanned, ended)
  BY <1>1, <1>4, <1>8, <1>9, TakePage
<1>11. /\ rg3[p] = page /\ page.cursor = h /\ page.stop = h2 /\ page # NoRange
  <2>1. rg2 \in [CopyProcs -> [start : Int, cursor : Int, stop : Int]]
    BY <1>8 DEF GoodHeap, HeapTypes
  <2>2. page.cursor = h /\ page.stop = h2 /\ NoRange.cursor = -1
    BY DEF NoRange
  <2>. QED
    BY <1>2, <2>1, <2>2
<1>12. Over(bl1, h) = bl1
  <2>1. \A b \in bl1 : b.at # h
    BY <1>7 DEF GoodHeap, HeapTypes, EndOf
  <2>. QED
    BY <2>1 DEF Over
<1>13. GoodHeap(h2, rg4, blocks', gr1, scanned, ended)
  <2>. PICK bl2 : bl2 = blocks'
    OBVIOUS
  <2>1. bl2 = Over(bl1, rg3[p].cursor) \cup Pad(rg3[p].cursor, place)
                \cup {Object(place, n)}
    BY ZenonT(30), <1>1, <1>11, <1>12
  <2>2. rg3[p] # NoRange /\ rg3[p].cursor <= place /\ place + n < rg3[p].stop
    BY <1>3, <1>4, <1>11
  <2>3. p \notin ended
    BY <1>1
  <2>4. GoodHeap(h2, [rg3 EXCEPT ![p].cursor = place + n], bl2, gr1, scanned, ended)
    BY ONLY <1>3, <1>10, <2>1, <2>2, <2>3, p \in CopyProcs, PlaceCopy
  <2>. QED
    BY <2>4
<1>14. rg4 = range'
  <2>1. rg2 = [range EXCEPT ![p] = NoRange]
    BY <1>2
  <2>2. rg3 = [range EXCEPT ![p] = page]
    BY <1>2, <2>1
  <2>3. rg4 = [range EXCEPT ![p] = [page EXCEPT !.cursor = place + n]]
    BY <1>2, <2>2
  <2>4. [page EXCEPT !.cursor = place + n]
          = [start |-> h, cursor |-> place + n, stop |-> h + PageSize]
    OBVIOUS
  <2>. QED
    BY ONLY <1>1, <2>3, <2>4
<1>. QED
  BY <1>1, <1>13, <1>14 DEF CInv

(* The end of a processor's collection.                                    *)
LEMMA EndStep ==
  ASSUME CInv, NEW p \in CopyProcs, EndCollection(p)
  PROVE  CInv'
<1>. PICK r, en : r = range[p] /\ en = ended \cup {p}
  OBVIOUS
<1>1. /\ gray = {} /\ \A q \in CopyProcs : range[q].start = range[q].cursor
      /\ ended' = en /\ blocks' = Over(blocks, r.cursor) \cup Pad(r.cursor, r.stop)
      /\ range' = range \/ range' = [range EXCEPT ![p] = NoRange]
      /\ UNCHANGED <<heapCursor, gray, scanned>>
  BY DEF EndCollection, Padded
<1>2. /\ GoodHeap(heapCursor, range, blocks', gray, scanned, ended)
      /\ \A w \in Nat : InRoom(range[p], w) => \E b \in blocks' : Holding(b, w)
  BY <1>1, PadRoom DEF CInv
<1>3. range[p].start = range[p].cursor
  BY <1>1
<1>4. GoodHeap(heapCursor, range', blocks', gray, scanned, en)
  <2>. PICK bl1 : bl1 = blocks'
    OBVIOUS
  <2>1. /\ GoodHeap(heapCursor, range, bl1, gray, scanned, en)
        /\ GoodHeap(heapCursor, [range EXCEPT ![p] = NoRange], bl1, gray, scanned, en)
    BY <1>2, <1>3, Retire
  <2>. QED
    BY <1>1, <2>1
<1>5. \A q \in CopyProcs : range'[q].start = range'[q].cursor
  BY <1>1 DEF CInv, GoodHeap, HeapTypes, NoRange
<1>. QED
  BY <1>1, <1>4, <1>5 DEF CInv

(* An empty heap.                                                          *)
LEMMA EmptyHeap == GoodHeap(0, [p \in CopyProcs |-> NoRange], {}, {}, {}, {})
<1>. PICK rg : rg = [p \in CopyProcs |-> NoRange]
  OBVIOUS
<1>1. /\ rg \in [CopyProcs -> [start : Int, cursor : Int, stop : Int]]
      /\ \A p \in CopyProcs : /\ rg[p] = NoRange /\ rg[p].start = -1 /\ rg[p].stop = -1
  BY DEF NoRange
<1>2. HeapTypes(0, rg, {}, {})
  BY <1>1 DEF HeapTypes, Sound
<1>3. Apart(rg, {}, {}) /\ RoomFree(rg, {}) /\ Whole(rg, {}, {})
  BY <1>1 DEF Apart, RoomFree, Whole
<1>4. Covered(0, rg, {}, {}) /\ ScannedOrWaits(rg, {}, {}, {})
  BY DEF Covered, ScannedOrWaits
<1>. QED
  BY <1>2, <1>3, <1>4 DEF GoodHeap

(* The next collection goes on where this one ended, or begins with an     *)
(* empty heap.                                                             *)
LEMMA NextStep ==
  ASSUME CInv, NextCollection
  PROVE  CInv'
<1>1. ended = CopyProcs /\ ended # {} /\ gray = {} /\ gray' = gray /\ ended' = {}
  BY CopyRangesAssumption DEF NextCollection, CInv
<1>2. CASE UNCHANGED <<heapCursor, range, blocks, scanned>>
  <2>1. Covered(heapCursor, range, blocks, {})
    BY DEF CInv, GoodHeap, Covered
  <2>2. GoodHeap(heapCursor, range, blocks, gray, scanned, {})
    BY <2>1 DEF CInv, GoodHeap
  <2>. QED
    BY <1>1, <1>2, <2>2 DEF CInv
<1>3. CASE /\ heapCursor' = 0 /\ blocks' = {} /\ scanned' = {}
           /\ range' = [p \in CopyProcs |-> NoRange]
  <2>1. GoodHeap(heapCursor', range', blocks', gray', scanned', ended')
    BY <1>1, <1>3, EmptyHeap
  <2>. QED
    BY <1>1, <2>1 DEF CInv
<1>. QED
  BY <1>2, <1>3 DEF NextCollection

(* The invariant holds at the start, and every step keeps it.              *)
LEMMA CopyInitInv == CopyRangesInit => CInv
BY EmptyHeap DEF CopyRangesInit, CInv

(* Every step keeps the invariant.                                         *)
LEMMA CopyNextInv == CInv /\ [CopyRangesNext]_rangeVars => CInv'
<1>1. ASSUME CInv, NEW p \in CopyProcs, AddGray(p) PROVE CInv'
  <2>1. /\ ended = {} /\ gray' = gray \cup GraySlice(range[p])
        /\ range' = [range EXCEPT ![p].start = range[p].cursor]
        /\ UNCHANGED <<heapCursor, blocks, scanned, ended>>
    BY <1>1 DEF AddGray
  <2>2. GoodHeap(heapCursor, range', blocks, gray', scanned, ended)
    BY <1>1, <2>1, Shade DEF CInv
  <2>. QED
    BY <2>1, <2>2, <1>1 DEF CInv
<1>2. ASSUME CInv, NEW g \in gray, ScanRegion(g) PROVE CInv'
  <2>1. GoodHeap(heapCursor, range, blocks, gray', scanned', ended)
    BY <1>2, ScanGray DEF ScanRegion, CInv
  <2>. QED
    BY <1>2, <2>1 DEF ScanRegion, CInv
<1>3. ASSUME CInv, UNCHANGED rangeVars PROVE CInv'
  BY <1>3 DEF CInv, rangeVars
<1>. QED
  BY <1>1, <1>2, <1>3, AllocStep, AllocLargeStep, NewPageStep, EndStep, NextStep
  DEF CopyRangesNext

----------------------------------------------------------------------------
(* Words that blocks fill, none of which crosses an end.                   *)
LEMMA TiledIs ==
  ASSUME CInv, NEW from \in Nat, NEW to \in Nat,
         \A b \in blocks : WholeIn(b, from, to),
         \A w \in from .. to - 1 : \E b \in blocks : Holding(b, w)
  PROVE  Tiled(from, to)
<1>. DEFINE inside == {b \in blocks : from <= b.at /\ b.at < to}
<1>1. \A b \in blocks : b.at \in Nat /\ b.length \in Nat \ {0} /\ EndOf(b) \in Nat
                        /\ EndOf(b) = b.at + b.length /\ b.at < EndOf(b)
  BY DEF CInv, GoodHeap, HeapTypes, EndOf
<1>2. \A b \in blocks : \A w : w \in BlockWords(b) <=> w \in Int /\ Holding(b, w)
  BY <1>1 DEF BlockWords, Holding
<1>3. ASSUME NEW b \in inside, NEW w \in BlockWords(b) PROVE w \in from .. to - 1
  <2>1. EndOf(b) <= to
    BY <1>1 DEF WholeIn
  <2>. QED
    BY <1>1, <1>2, <1>3, <2>1 DEF Holding
<1>4. ASSUME NEW w \in from .. to - 1 PROVE \E b \in inside : w \in BlockWords(b)
  <2>1. PICK b \in blocks : Holding(b, w)
    OBVIOUS
  <2>2. b \in inside
    BY <1>1, <2>1 DEF WholeIn, Holding
  <2>. QED
    BY <1>2, <2>1, <2>2
<1>5. UNION {BlockWords(b) : b \in inside} = from .. to - 1
  BY <1>3, <1>4
<1>6. ASSUME NEW b \in inside, NEW d \in inside, b # d
      PROVE  BlockWords(b) \cap BlockWords(d) = {}
  <2>1. EndOf(b) <= d.at \/ EndOf(d) <= b.at
    BY <1>6 DEF CInv, GoodHeap, Apart
  <2>. QED
    BY <1>1, <1>2, <2>1 DEF Holding
<1>. QED
  BY <1>5, <1>6 DEF Tiled

(* What the invariant is for.                                              *)
LEMMA CopyInvImplies == CInv => HeapParsable /\ GrayConserved
<1>. SUFFICES ASSUME CInv PROVE HeapParsable /\ GrayConserved
  OBVIOUS
<1>. DEFINE slices == gray \cup UNION {GraySlice(range[p]) : p \in CopyProcs}
<1>1. /\ heapCursor \in Nat
      /\ \A b \in blocks : b.at \in Nat /\ EndOf(b) \in Nat /\ EndOf(b) <= heapCursor
                           /\ b.at < EndOf(b)
      /\ \A g \in gray : g \in Nat \X Nat /\ g[1] < g[2] /\ g[2] <= heapCursor
      /\ \A p \in CopyProcs : range[p] \in [start : Int, cursor : Int, stop : Int]
                              /\ Sound(heapCursor, range[p])
  BY DEF CInv, GoodHeap, HeapTypes, EndOf
<1>2. HeapParsable
  <2>1. ASSUME ended = CopyProcs PROVE Tiled(0, heapCursor)
    <3>1. \A b \in blocks : WholeIn(b, 0, heapCursor)
      BY <1>1 DEF WholeIn
    <3>2. \A w \in 0 .. heapCursor - 1 : \E b \in blocks : Holding(b, w)
      BY <2>1 DEF CInv, GoodHeap, Covered
    <3>. QED
      BY <1>1, <3>1, <3>2, TiledIs
  <2>. QED
    BY <2>1 DEF HeapParsable
<1>3. \A g : g \in slices <=>
        \/ g \in gray
        \/ \E p \in CopyProcs : /\ range[p].start < range[p].cursor
                                /\ g = <<range[p].start, range[p].cursor>>
  BY DEF GraySlice
<1>4. ASSUME NEW g \in slices PROVE Tiled(g[1], g[2])
  <2>1. /\ g[1] \in Nat /\ g[2] \in Nat /\ g[2] <= heapCursor
        /\ \A b \in blocks : WholeIn(b, g[1], g[2])
        /\ \A p \in CopyProcs, w \in Int : InGray(g, w) => ~ InRoom(range[p], w)
    <3>1. CASE g \in gray
      BY <1>1, <3>1 DEF CInv, GoodHeap, Whole, Apart, InGray, InRoom, Sound, NoRange
    <3>2. CASE \E p \in CopyProcs : /\ range[p].start < range[p].cursor
                                    /\ g = <<range[p].start, range[p].cursor>>
      <4>1. PICK q \in CopyProcs : /\ range[q].start < range[q].cursor
                                   /\ g = <<range[q].start, range[q].cursor>>
        BY <3>2
      <4>2. /\ g[1] = range[q].start /\ g[2] = range[q].cursor
            /\ g[1] \in Nat /\ g[2] \in Nat /\ g[2] < range[q].stop
            /\ range[q].stop <= heapCursor
        BY <1>1, <4>1 DEF Sound, NoRange
      <4>3. \A b \in blocks : WholeIn(b, g[1], g[2])
        BY <4>2 DEF CInv, GoodHeap, Whole
      <4>4. ASSUME NEW p \in CopyProcs, NEW w \in Int, InGray(g, w)
            PROVE  ~ InRoom(range[p], w)
        <5>1. CASE p = q
          BY <1>1, <4>2, <4>4, <5>1 DEF InGray, InRoom
        <5>2. CASE p # q
          <6>1. range[p].stop <= range[q].start \/ range[q].stop <= range[p].start
            BY <5>2 DEF CInv, GoodHeap, Apart
          <6>2. range[p].start <= range[p].cursor
            BY <1>1 DEF Sound, NoRange
          <6>. QED
            BY <1>1, <4>2, <4>4, <6>1, <6>2 DEF InGray, InRoom
        <5>. QED
          BY <5>1, <5>2
      <4>5. g[2] <= heapCursor
        BY <1>1, <4>2
      <4>. QED
        BY <4>2, <4>3, <4>4, <4>5
    <3>. QED
      BY <1>3, <3>1, <3>2
  <2>2. ASSUME NEW w \in g[1] .. g[2] - 1 PROVE \E b \in blocks : Holding(b, w)
    <3>1. w \in 0 .. heapCursor - 1 /\ w \in Int /\ InGray(g, w)
      BY <1>1, <2>1 DEF InGray
    <3>. QED
      BY <2>1, <3>1 DEF CInv, GoodHeap, Covered
  <2>. QED
    BY <2>1, <2>2, TiledIs
<1>5. ASSUME NEW b \in blocks, b.object
      PROVE  Cardinality({g \in slices : g[1] <= b.at /\ b.at < g[2]})
               = IF b.at \in scanned THEN 0 ELSE 1
  <2>. DEFINE G == {g \in slices : g[1] <= b.at /\ b.at < g[2]}
  <2>1. \A g : g \in G <=> g \in slices /\ InGray(g, b.at)
    BY DEF InGray
  <2>2. (\E g \in slices : InGray(g, b.at)) <=> Waits(range, gray, b.at)
    <3>1. \A p \in CopyProcs : /\ InSlice(range[p], b.at) => range[p].start < range[p].cursor
                               /\ InGray(<<range[p].start, range[p].cursor>>, b.at)
                                    <=> InSlice(range[p], b.at)
      BY <1>1 DEF InSlice, InGray
    <3>. QED
      BY <1>3, <3>1 DEF Waits
  <2>3. b.at \in scanned <=> ~ Waits(range, gray, b.at)
    BY <1>5 DEF CInv, GoodHeap, ScannedOrWaits
  <2>4. ASSUME NEW g \in G, NEW k \in G PROVE g = k
    <3>1. InGray(g, b.at) /\ InGray(k, b.at) /\ b.at \in Nat
      BY <1>1, <2>1
    <3>2. CASE g \in gray /\ k \in gray
      BY <1>1, <3>1, <3>2 DEF CInv, GoodHeap, Apart, InGray
    <3>3. ASSUME NEW p \in CopyProcs, NEW m \in gray,
                 InGray(<<range[p].start, range[p].cursor>>, b.at), InGray(m, b.at)
          PROVE  FALSE
      <4>1. m[2] <= range[p].start \/ range[p].stop <= m[1]
        BY DEF CInv, GoodHeap, Apart
      <4>2. range[p].cursor <= range[p].stop
        BY <1>1 DEF Sound, NoRange
      <4>. QED
        BY <1>1, <3>1, <3>3, <4>1, <4>2 DEF InGray
    <3>4. ASSUME NEW p \in CopyProcs, NEW q \in CopyProcs,
                 InGray(<<range[p].start, range[p].cursor>>, b.at),
                 InGray(<<range[q].start, range[q].cursor>>, b.at)
          PROVE  p = q
      <4>. SUFFICES ASSUME p # q PROVE FALSE
        OBVIOUS
      <4>1. range[p].stop <= range[q].start \/ range[q].stop <= range[p].start
        BY DEF CInv, GoodHeap, Apart
      <4>2. range[p].cursor <= range[p].stop /\ range[q].cursor <= range[q].stop
        BY <1>1 DEF Sound, NoRange
      <4>. QED
        BY <1>1, <3>1, <3>4, <4>1, <4>2 DEF InGray
    <3>. QED
      BY <1>3, <2>1, <3>1, <3>2, <3>3, <3>4
  <2>. HIDE DEF G
  <2>5. CASE b.at \in scanned
    <3>1. G = {}
      BY <2>1, <2>2, <2>3, <2>5
    <3>. QED
      BY <2>5, <3>1, FS_EmptySet DEF G
  <2>6. CASE b.at \notin scanned
    <3>1. PICK g : g \in G
      BY <2>1, <2>2, <2>3, <2>6
    <3>2. G = {g}
      BY <2>4, <3>1
    <3>. QED
      BY <2>6, <3>2, FS_Singleton DEF G
  <2>. QED
    BY <2>5, <2>6
<1>. HIDE DEF slices
<1>6. GrayConserved
  BY <1>4, <1>5 DEF GrayConserved, slices
<1>. QED
  BY <1>2, <1>6

----------------------------------------------------------------------------
(* The search for a row of free chunks.                                    *)

(* A step of the loop of AllocBitmapRange: where it looks, the bits in use *)
(* it meets there, the place after the first of them, and whether that is  *)
(* the start of the map again.                                             *)
From(n, c) == IF c + n > NumChunk THEN 0 ELSE c
Met(map, n, c) == Bits(From(n, c), n) \cap map
Past(map, n, c) == Min(Met(map, n, c)) + 1
Wrapped(x) == IF x >= NumChunk THEN x - NumChunk ELSE x

OneStep(map, n, f, d, c) ==
  IF d >= NumChunk THEN -1
  ELSE IF Met(map, n, c) = {} THEN From(n, c)
  ELSE f[d + Past(map, n, c) - From(n, c)][Wrapped(Past(map, n, c))]

IsNext(map, n, f) ==
  f = [d \in 0 .. 2 * NumChunk |-> [c \in 0 .. NumChunk |-> OneStep(map, n, f, d, c)]]

Loop(map, n) == CHOOSE f : IsNext(map, n, f)

(* AllocBitmapRange is that loop, from where the last search ended.        *)
LEMMA SearchIsLoop ==
  ASSUME NEW map, NEW start, NEW n
  PROVE  Search(map, start, n) = IF n + Cardinality(map) > NumChunk THEN -1
                                 ELSE Loop(map, n)[0][start]
BY Zenon DEF Search, Loop, IsNext, OneStep, From, Met, Past, Wrapped

(* The least of a set of numbers is in it.                                 *)
LEMMA MinIn ==
  ASSUME NEW S \in SUBSET Nat, S # {}
  PROVE  Min(S) \in S /\ \A y \in S : Min(S) <= y
<1>1. \E x \in S : \A y \in S : x <= y
  BY NatMin
<1>. QED
  BY <1>1 DEF Min

(* A step looks within the map, and goes on.                               *)
LEMMA StepInside ==
  ASSUME NEW map \in SUBSET (0 .. NumChunk - 1), NEW n \in 1 .. NumChunk,
         NEW d \in 0 .. 2 * NumChunk, NEW c \in 0 .. NumChunk
  PROVE  /\ From(n, c) \in 0 .. NumChunk - n
         /\ d < NumChunk /\ Met(map, n, c) # {} =>
              /\ Past(map, n, c) \in From(n, c) + 1 .. From(n, c) + n
              /\ Past(map, n, c) - 1 \in map /\ Past(map, n, c) <= NumChunk
              /\ d + Past(map, n, c) - From(n, c) \in d + 1 .. 2 * NumChunk
              /\ Wrapped(Past(map, n, c)) \in 0 .. NumChunk
<1>1. NumChunk \in Nat \ {0}
  BY LargeAssumption
<1>2. From(n, c) \in 0 .. NumChunk - n
  BY <1>1 DEF From
<1>3. ASSUME d < NumChunk, Met(map, n, c) # {}
      PROVE  /\ Past(map, n, c) \in From(n, c) + 1 .. From(n, c) + n
             /\ Past(map, n, c) - 1 \in map /\ Past(map, n, c) <= NumChunk
             /\ d + Past(map, n, c) - From(n, c) \in d + 1 .. 2 * NumChunk
             /\ Wrapped(Past(map, n, c)) \in 0 .. NumChunk
  <2>1. Met(map, n, c) \in SUBSET Nat
    <3>1. \A x \in 0 .. NumChunk - 1 : x \in Nat
      BY <1>1
    <3>2. Met(map, n, c) \subseteq map
      BY DEF Met
    <3>. QED
      BY <3>1, <3>2
  <2>2. PICK m : m = Min(Met(map, n, c))
    OBVIOUS
  <2>3. m \in Bits(From(n, c), n) /\ m \in map
    BY <1>3, <2>1, <2>2, MinIn DEF Met
  <2>4. m \in From(n, c) .. From(n, c) + n - 1 /\ m \in 0 .. NumChunk - 1
    BY <2>3 DEF Bits
  <2>. QED
    BY <1>1, <1>2, <1>3, <2>2, <2>3, <2>4 DEF Past, Wrapped
<1>. QED
  BY <1>2, <1>3

(* A step depends only on what follows further on.                         *)
LEMMA StepDepends ==
  ASSUME NEW map \in SUBSET (0 .. NumChunk - 1), NEW n \in 1 .. NumChunk,
         NEW d \in 0 .. 2 * NumChunk, NEW c \in 0 .. NumChunk, NEW f, NEW g,
         \A e \in d + 1 .. 2 * NumChunk, x \in 0 .. NumChunk : f[e][x] = g[e][x]
  PROVE  OneStep(map, n, f, d, c) = OneStep(map, n, g, d, c)
<1>1. CASE d < NumChunk /\ Met(map, n, c) # {}
  BY <1>1, StepInside DEF OneStep
<1>2. CASE ~ (d < NumChunk) \/ Met(map, n, c) = {}
  BY <1>2, LargeAssumption DEF OneStep
<1>. QED
  BY <1>1, <1>2

(* The loop ends: the function its steps define exists.                    *)
LEMMA LoopExists ==
  ASSUME NEW map \in SUBSET (0 .. NumChunk - 1), NEW n \in 1 .. NumChunk
  PROVE  IsNext(map, n, Loop(map, n))
<1>1. NumChunk \in Nat \ {0}
  BY LargeAssumption
<1>. DEFINE D == 0 .. 2 * NumChunk
            C == 0 .. NumChunk
            Upto(t, f) == \A d \in D, c \in C : d + t >= 2 * NumChunk =>
                            f[d][c] = OneStep(map, n, f, d, c)
            S == {t \in Nat : ~ \E f : Upto(t, f)}
<1>2. S = {}
  <2>. SUFFICES ASSUME S # {} PROVE FALSE
    OBVIOUS
  <2>1. S \in SUBSET Nat
    OBVIOUS
  <2>2. PICK t \in S : \A u \in S : t <= u
    <3>. HIDE DEF S
    <3>. QED
      BY <2>1, NatMin
  <2>3. CASE t = 0
    <3>1. PICK f : f = [d \in D |-> [c \in C |-> -1]]
      OBVIOUS
    <3>2. Upto(0, f)
      <4>. SUFFICES ASSUME NEW d \in D, NEW c \in C, d + 0 >= 2 * NumChunk
                    PROVE  f[d][c] = OneStep(map, n, f, d, c)
        OBVIOUS
      <4>1. d >= NumChunk
        BY <1>1
      <4>. QED
        BY <3>1, <4>1 DEF OneStep
    <3>3. 0 \notin S
      BY <3>2
    <3>. QED
      BY <2>3, <3>3
  <2>4. CASE t > 0
    <3>1. t - 1 \in Nat /\ ~ (t <= t - 1)
      BY <2>4
    <3>2. t - 1 \notin S
      BY <2>2, <3>1
    <3>3. PICK f : Upto(t - 1, f)
      BY <3>1, <3>2
    <3>4. PICK g : g = [d \in D |-> [c \in C |-> IF d + t = 2 * NumChunk
                                                THEN OneStep(map, n, f, d, c)
                                                ELSE f[d][c]]]
      OBVIOUS
    <3>5. Upto(t, g)
      <4>. SUFFICES ASSUME NEW d \in D, NEW c \in C, d + t >= 2 * NumChunk
                    PROVE  g[d][c] = OneStep(map, n, g, d, c)
        OBVIOUS
      <4>1. \A e \in d + 1 .. 2 * NumChunk, x \in 0 .. NumChunk : f[e][x] = g[e][x]
        <5>. TAKE e \in d + 1 .. 2 * NumChunk, x \in 0 .. NumChunk
        <5>1. e \in D /\ e + t # 2 * NumChunk
          BY <1>1
        <5>. QED
          BY <3>4, <5>1
      <4>2. OneStep(map, n, f, d, c) = OneStep(map, n, g, d, c)
        BY <4>1, StepDepends
      <4>3. CASE d + t = 2 * NumChunk
        BY <3>4, <4>2, <4>3
      <4>4. CASE d + t # 2 * NumChunk
        <5>1. d + (t - 1) >= 2 * NumChunk
          BY <1>1, <4>4
        <5>2. f[d][c] = OneStep(map, n, f, d, c)
          BY <3>3, <5>1
        <5>. QED
          BY <3>4, <4>2, <4>4, <5>2
      <4>. QED
        BY <4>3, <4>4
    <3>6. t \notin S
      BY <3>5
    <3>. QED
      BY <3>6
  <2>. QED
    BY <2>3, <2>4
<1>3. PICK f : Upto(2 * NumChunk, f)
  <2>1. 2 * NumChunk \in Nat
    BY <1>1
  <2>2. 2 * NumChunk \notin S
    BY <1>2, <2>1
  <2>. HIDE DEF Upto
  <2>. QED
    BY <2>1, <2>2
<1>4. PICK g : g = [d \in D |-> [c \in C |-> f[d][c]]]
  OBVIOUS
<1>5. \A d \in D, c \in C : f[d][c] = OneStep(map, n, g, d, c)
  <2>. TAKE d \in D, c \in C
  <2>1. f[d][c] = OneStep(map, n, f, d, c)
    BY <1>1, <1>3
  <2>2. \A e \in d + 1 .. 2 * NumChunk, x \in 0 .. NumChunk : f[e][x] = g[e][x]
    <3>. TAKE e \in d + 1 .. 2 * NumChunk, x \in 0 .. NumChunk
    <3>1. e \in D
      BY <1>1
    <3>. QED
      BY <1>4, <3>1
  <2>3. OneStep(map, n, f, d, c) = OneStep(map, n, g, d, c)
    BY <2>2, StepDepends
  <2>. QED
    BY <2>1, <2>3
<1>6. IsNext(map, n, g)
  <2>1. [d \in D |-> [c \in C |-> f[d][c]]] = [d \in D |-> [c \in C |-> OneStep(map, n, g, d, c)]]
    BY <1>5
  <2>. QED
    BY <1>4, <2>1 DEF IsNext
<1>. QED
  BY <1>6 DEF Loop

(* What the loop finds is free; if it finds nothing, there is nothing in   *)
(* the part of the map it still had to pass, which is all of it when dist  *)
(* is 0: the places from cur on, and those before cur less dist.           *)
LEMMA LoopFinds ==
  ASSUME NEW map \in SUBSET (0 .. NumChunk - 1), NEW n \in 1 .. NumChunk,
         NEW f, IsNext(map, n, f), NEW d0 \in 0 .. 2 * NumChunk,
         NEW c0 \in 0 .. NumChunk
  PROVE  \/ f[d0][c0] \in 0 .. NumChunk - n /\ Bits(f[d0][c0], n) \cap map = {}
         \/ /\ f[d0][c0] = -1
            /\ \A s \in 0 .. NumChunk - n :
                 (c0 <= s /\ s < c0 + NumChunk - d0) \/ s < c0 - d0
                   => Bits(s, n) \cap map # {}
<1>1. NumChunk \in Nat \ {0}
  BY LargeAssumption
<1>. DEFINE D == 0 .. 2 * NumChunk
            C == 0 .. NumChunk
            Ahead(d, c, s) == (c <= s /\ s < c + NumChunk - d) \/ s < c - d
            R(d, c) == \/ /\ f[d][c] \in 0 .. NumChunk - n
                          /\ Bits(f[d][c], n) \cap map = {}
                       \/ /\ f[d][c] = -1
                          /\ \A s \in 0 .. NumChunk - n :
                               Ahead(d, c, s) => Bits(s, n) \cap map # {}
            S == {t \in Nat : \E d \in D, c \in C : d + t = 2 * NumChunk /\ ~ R(d, c)}
<1>2. ASSUME NEW d \in D, NEW c \in C,
             \A e \in d + 1 .. 2 * NumChunk, x \in C : R(e, x)
      PROVE  R(d, c)
  <2>1. f[d][c] = OneStep(map, n, f, d, c)
    <3>. DEFINE row(e) == [x \in 0 .. NumChunk |-> OneStep(map, n, f, e, x)]
    <3>1. f = [e \in 0 .. 2 * NumChunk |-> row(e)]
      BY DEF IsNext
    <3>. HIDE DEF row
    <3>2. f[d] = row(d)
      BY <3>1
    <3>. QED
      BY <3>2 DEF row
  <2>. DEFINE from == From(n, c)
              met == Met(map, n, c)
              past == Past(map, n, c)
  <2>2. from \in 0 .. NumChunk - n
    BY StepInside
  <2>3. CASE d >= NumChunk
    <3>1. f[d][c] = -1
      BY <2>1, <2>3 DEF OneStep
    <3>2. \A s \in 0 .. NumChunk - n : ~ Ahead(d, c, s)
      BY <1>1, <2>3
    <3>. QED
      BY <3>1, <3>2
  <2>4. CASE ~ (d >= NumChunk) /\ met = {}
    <3>1. f[d][c] = from
      BY <2>1, <2>4 DEF OneStep
    <3>. QED
      BY <2>2, <2>4, <3>1 DEF Met
  <2>5. CASE ~ (d >= NumChunk) /\ met # {}
    <3>1. /\ past \in from + 1 .. from + n /\ past - 1 \in map /\ past <= NumChunk
          /\ d + past - from \in d + 1 .. 2 * NumChunk /\ Wrapped(past) \in C
      BY SMTT(30), <1>1, <2>5, StepInside
    <3>2. f[d][c] = f[d + past - from][Wrapped(past)]
      BY <2>1, <2>5 DEF OneStep
    <3>3. R(d + past - from, Wrapped(past))
      BY <1>2, <3>1
    <3>. HIDE DEF past, from
    <3>4. ASSUME NEW s \in 0 .. NumChunk - n, Ahead(d, c, s)
          PROVE  \/ s \in from .. past - 1
                 \/ Ahead(d + past - from, Wrapped(past), s)
      <4>1. from = IF c + n > NumChunk THEN 0 ELSE c
        BY DEF from, From
      <4>2. Wrapped(past) = IF past >= NumChunk THEN past - NumChunk ELSE past
        BY DEF Wrapped
      <4>3. CASE c + n > NumChunk
        <5>1. from = 0 /\ s < NumChunk - d
          BY <1>1, <3>4, <4>1, <4>3
        <5>. QED
          BY <1>1, <2>2, <3>1, <4>2, <5>1
      <4>4. CASE ~ (c + n > NumChunk)
        <5>1. from = c
          BY <4>1, <4>4
        <5>. QED
          BY <1>1, <2>2, <3>1, <3>4, <4>2, <5>1
      <4>. QED
        BY <4>3, <4>4
    <3>5. ASSUME NEW s \in 0 .. NumChunk - n, s \in from .. past - 1
          PROVE  Bits(s, n) \cap map # {}
      <4>1. past - 1 \in Bits(s, n)
        BY <1>1, <2>2, <3>1, <3>5 DEF Bits
      <4>. QED
        BY <3>1, <4>1
    <3>6. CASE f[d][c] = -1 /\ f[d][c] \notin 0 .. NumChunk - n
      BY <3>2, <3>3, <3>4, <3>5, <3>6
    <3>7. CASE f[d][c] \in 0 .. NumChunk - n
      <4>1. f[d][c] # -1
        BY <1>1, <3>7
      <4>. QED
        BY <3>2, <3>3, <4>1
    <3>. QED
      BY <3>2, <3>3, <3>6, <3>7
  <2>. QED
    BY <2>3, <2>4, <2>5
<1>. HIDE DEF R
<1>3. S = {}
  <2>. SUFFICES ASSUME S # {} PROVE FALSE
    OBVIOUS
  <2>1. S \in SUBSET Nat
    OBVIOUS
  <2>2. PICK t \in S : \A u \in S : t <= u
    <3>. HIDE DEF S
    <3>. QED
      BY <2>1, NatMin
  <2>3. PICK d \in D, c \in C : d + t = 2 * NumChunk /\ ~ R(d, c)
    BY <2>2
  <2>4. \A e \in d + 1 .. 2 * NumChunk, x \in C : R(e, x)
    <3>. SUFFICES ASSUME NEW e \in d + 1 .. 2 * NumChunk, NEW x \in C, ~ R(e, x)
                  PROVE  FALSE
      OBVIOUS
    <3>1. e \in D /\ 2 * NumChunk - e \in Nat /\ e + (2 * NumChunk - e) = 2 * NumChunk
          /\ ~ (t <= 2 * NumChunk - e)
      BY <1>1, <2>2, <2>3
    <3>2. 2 * NumChunk - e \in S
      BY <3>1
    <3>. QED
      BY <2>2, <3>1, <3>2
  <2>. QED
    BY <1>2, <2>3, <2>4
<1>4. R(d0, c0)
  <2>. SUFFICES ASSUME ~ R(d0, c0) PROVE FALSE
    OBVIOUS
  <2>1. 2 * NumChunk - d0 \in Nat /\ d0 + (2 * NumChunk - d0) = 2 * NumChunk
    BY <1>1
  <2>2. 2 * NumChunk - d0 \in S
    BY <2>1
  <2>. QED
    BY <1>3, <2>2
<1>. QED
  BY <1>4 DEF R

(* AllocBitmapRange returns a row of free chunks, or there is none.        *)
LEMMA SearchFinds ==
  ASSUME NEW map \in SUBSET (0 .. NumChunk - 1), NEW start \in 0 .. NumChunk,
         NEW n \in Nat \ {0}
  PROVE  \/ /\ Search(map, start, n) \in 0 .. NumChunk - n
            /\ Bits(Search(map, start, n), n) \cap map = {}
         \/ /\ Search(map, start, n) = -1
            /\ \A s \in 0 .. NumChunk - n : Bits(s, n) \cap map # {}
<1>1. NumChunk \in Nat \ {0}
  BY LargeAssumption
<1>2. /\ IsFiniteSet(map) /\ Cardinality(map) \in Nat
      /\ \A s \in 0 .. NumChunk - n :
           /\ IsFiniteSet(Bits(s, n)) /\ Cardinality(Bits(s, n)) = n
           /\ Cardinality(Bits(s, n) \cap map) = 0 => n + Cardinality(map) <= NumChunk
  <2>1. IsFiniteSet(0 .. NumChunk - 1) /\ Cardinality(0 .. NumChunk - 1) = NumChunk
    <3>1. 0 \in Int /\ NumChunk - 1 \in Int /\ ~ (0 > NumChunk - 1)
          /\ NumChunk - 1 - 0 + 1 = NumChunk
      BY <1>1
    <3>. QED
      BY <3>1, FS_Interval
  <2>2. IsFiniteSet(map) /\ Cardinality(map) \in Nat
    BY <2>1, FS_Subset, FS_CardinalityType
  <2>3. ASSUME NEW s \in 0 .. NumChunk - n
        PROVE  /\ IsFiniteSet(Bits(s, n)) /\ Cardinality(Bits(s, n)) = n
               /\ Cardinality(Bits(s, n) \cap map) = 0
                    => n + Cardinality(map) <= NumChunk
    <3>1. s \in Int /\ s + n - 1 \in Int /\ ~ (s > s + n - 1) /\ s + n - 1 - s + 1 = n
      BY <1>1
    <3>2. IsFiniteSet(Bits(s, n)) /\ Cardinality(Bits(s, n)) = n
      BY <3>1, FS_Interval DEF Bits
    <3>3. Bits(s, n) \cup map \subseteq 0 .. NumChunk - 1
      BY <1>1 DEF Bits
    <3>4. Cardinality(Bits(s, n) \cup map) <= NumChunk
      BY <2>1, <3>3, FS_Subset
    <3>5. Cardinality(Bits(s, n) \cup map)
            = Cardinality(Bits(s, n)) + Cardinality(map) - Cardinality(Bits(s, n) \cap map)
      BY <2>2, <3>2, FS_Union
    <3>. QED
      BY <1>1, <2>2, <3>2, <3>4, <3>5
  <2>. QED
    BY <2>2, <2>3
<1>3. CASE n + Cardinality(map) > NumChunk
  <2>1. Search(map, start, n) = -1
    BY <1>3, SearchIsLoop
  <2>2. \A s \in 0 .. NumChunk - n : Bits(s, n) \cap map # {}
    BY <1>1, <1>2, <1>3, FS_EmptySet
  <2>. QED
    BY <2>1, <2>2
<1>4. CASE ~ (n + Cardinality(map) > NumChunk)
  <2>1. Search(map, start, n) = Loop(map, n)[0][start]
    BY <1>4, SearchIsLoop
  <2>2. n \in 1 .. NumChunk /\ 0 \in 0 .. 2 * NumChunk
    BY <1>1, <1>2, <1>4
  <2>3. IsNext(map, n, Loop(map, n))
    BY <2>2, LoopExists
  <2>4. \/ /\ Loop(map, n)[0][start] \in 0 .. NumChunk - n
           /\ Bits(Loop(map, n)[0][start], n) \cap map = {}
        \/ /\ Loop(map, n)[0][start] = -1
           /\ \A s \in 0 .. NumChunk - n :
                (start <= s /\ s < start + NumChunk - 0) \/ s < start - 0
                  => Bits(s, n) \cap map # {}
    BY <2>2, <2>3, LoopFinds
  <2>5. \A s \in 0 .. NumChunk - n :
          (start <= s /\ s < start + NumChunk - 0) \/ s < start - 0
    BY <1>1, <2>2
  <2>. QED
    BY <2>1, <2>4, <2>5
<1>. QED
  BY <1>3, <1>4

----------------------------------------------------------------------------
(* The chunks of an array.                                                 *)

(* Division that rounds up.                                                *)
LEMMA DivideUpIs ==
  ASSUME NEW n \in Nat, NEW k \in Nat \ {0}
  PROVE  /\ DivideUp(n, k) \in Nat
         /\ n <= k * DivideUp(n, k) /\ k * DivideUp(n, k) < n + k
<1>1. n + k - 1 \in Nat
  OBVIOUS
<1>. DEFINE q == (n + k - 1) \div k
            r == (n + k - 1) % k
<1>2. q \in Nat /\ r \in 0 .. k - 1 /\ n + k - 1 = k * q + r
  BY <1>1
<1>. HIDE DEF q, r
<1>3. n <= k * q /\ k * q < n + k
  BY <1>2
<1>. QED
  BY <1>2, <1>3 DEF DivideUp, q

FirstChunk(a) == a.at \div LargeChunk
Chunks(a) == Bits(FirstChunk(a), DivideUp(a.length, LargeChunk))

(* An array that ends within as many chunks as its words would need if it  *)
(* began where its first chunk does.                                       *)
Placed(a) ==
  /\ a.at \in Nat /\ a.length \in Nat \ {0}
  /\ FirstChunk(a) \in Nat
  /\ LargeChunk * FirstChunk(a) <= a.at
  /\ a.at + a.length
       <= LargeChunk * FirstChunk(a) + LargeChunk * DivideUp(a.length, LargeChunk)
  /\ Chunks(a) \subseteq 0 .. NumChunk - 1

(* Every word of such an array is in one of its chunks.                    *)
LEMMA WordsInChunks ==
  ASSUME NEW a, Placed(a), NEW w \in Places(a)
  PROVE  w \div LargeChunk \in Chunks(a)
<1>. DEFINE k == LargeChunk
            q == w \div k
            r == w % k
            f == FirstChunk(a)
            u == DivideUp(a.length, k)
<1>1. k \in Nat \ {0} /\ w \in Nat /\ f \in Nat /\ u \in Nat
  <2>1. LargeChunk \in Nat \ {0} /\ a.length \in Nat /\ a.at \in Nat
    BY LargeAssumption DEF Placed
  <2>2. DivideUp(a.length, LargeChunk) \in Nat
    BY <2>1, DivideUpIs
  <2>3. w \in Nat
    BY <2>1 DEF Places
  <2>. QED
    BY <2>1, <2>2, <2>3 DEF Placed
<1>2. q \in Nat /\ r \in 0 .. k - 1 /\ w = k * q + r
  BY <1>1
<1>3. k * f <= w /\ w < k * f + k * u
  BY <1>1 DEF Placed, Places
<1>. HIDE DEF k, q, r, f, u
<1>4. q >= f
  <2>. SUFFICES ASSUME q + 1 <= f PROVE FALSE
    BY <1>1, <1>2
  <2>1. k * (f - (q + 1)) >= 0
    BY <1>1, <1>2
  <2>2. k * f - k * q - k >= 0
    BY <1>1, <1>2, <2>1
  <2>. QED
    BY <1>1, <1>2, <1>3, <2>2
<1>5. q < f + u
  <2>. SUFFICES ASSUME q >= f + u PROVE FALSE
    BY <1>1, <1>2
  <2>1. k * (q - f - u) >= 0
    BY <1>1, <1>2
  <2>2. k * q - k * f - k * u >= 0
    BY <1>1, <1>2, <2>1
  <2>. QED
    BY <1>1, <1>2, <1>3, <2>2
<1>6. q \in f .. f + u - 1
  BY <1>1, <1>2, <1>4, <1>5
<1>. QED
  BY <1>6 DEF Chunks, Bits, q, f, u, k

(* What gc_large_alloc places in n free chunks: the word that aligns an    *)
(* array of doubles takes no chunk of its own, as the length of such an    *)
(* array is odd and a chunk is even (gc_large.c:20, 48).                   *)
LEMMA AllocPlaced ==
  ASSUME NEW x \in Arrays, NEW chunk \in 0 .. NumChunk - ChunksOf(x)
  PROVE  LET a == [at |-> AlignEven(chunk * LargeChunk, Align(x)),
                   length |-> TagLength(x)]
         IN  Placed(a) /\ Chunks(a) \subseteq Bits(chunk, ChunksOf(x))
<1>. DEFINE k == LargeChunk
            len == TagLength(x)
            pad == IF Align(x) = "NoWordAlign" THEN 0 ELSE 1
            gap == IF Align(x) = "OddWordAlign" THEN 1 ELSE 0
            u == DivideUp(len, k)
            n == DivideUp(len + pad, k)
            a == [at |-> AlignEven(chunk * k, Align(x)), length |-> len]
<1>1. NumChunk \in Nat \ {0} /\ k \in Nat \ {0} /\ k % 2 = 0 /\ len \in Nat \ {0}
  BY LargeAssumption DEF TagLength
<1>2. pad \in {0, 1} /\ gap \in {0, 1} /\ gap <= pad
  OBVIOUS
<1>3. gap = 1 => len % 2 = 1
  <2>. SUFFICES ASSUME gap = 1 PROVE len % 2 = 1
    OBVIOUS
  <2>1. x.double /\ x.segments % 2 # 1
    BY DEF Align
  <2>2. x.segments \in Nat /\ x.data \in Nat /\ x.data % 2 = 0
    BY <2>1, LargeAssumption
  <2>3. PICK s, d : s = x.segments /\ d = x.data
    OBVIOUS
  <2>4. (1 + s + d) % 2 = 1
    BY <2>1, <2>2, <2>3
  <2>. QED
    BY <2>3, <2>4 DEF TagLength
<1>4. a.at = chunk * k + gap /\ a.length = len
  <2>1. chunk * k \in Int
    <3>1. ChunksOf(x) \in Nat
      <4>1. len + pad \in Nat
        BY <1>1, <1>2
      <4>2. DivideUp(len + pad, LargeChunk) \in Nat
        <5>. HIDE DEF len, pad
        <5>. QED
          BY <1>1, <4>1, DivideUpIs
      <4>. QED
        BY <4>2 DEF ChunksOf
    <3>. QED
      BY <1>1, <3>1
  <2>. QED
    BY <2>1 DEF AlignEven
<1>5. u \in Nat /\ n \in Nat /\ len <= k * u /\ k * u < len + k
      /\ len + pad <= k * n /\ k * n < len + pad + k
  <2>1. len + pad \in Nat
    BY <1>1, <1>2
  <2>. HIDE DEF len, pad, k
  <2>. QED
    BY <1>1, <2>1, DivideUpIs
<1>6. ChunksOf(x) = n
  BY DEF ChunksOf
<1>. HIDE DEF k, len, pad, gap, u, n, a
<1>7. len + gap <= k * u
  <2>1. CASE gap = 0
    BY <1>1, <1>5, <2>1
  <2>2. CASE gap = 1
    <3>1. PICK h \in Nat : k = 2 * h
      <4>1. k = 2 * (k \div 2) /\ k \div 2 \in Nat
        BY <1>1
      <4>. QED
        BY <4>1
    <3>2. PICK v : v = h * u
      OBVIOUS
    <3>3. v \in Int /\ k * u = 2 * v
      BY <1>5, <3>1, <3>2
    <3>. QED
      BY <1>1, <1>3, <1>5, <2>2, <3>3
  <2>. QED
    BY <1>2, <2>1, <2>2
<1>8. u <= n
  <2>. SUFFICES ASSUME n + 1 <= u PROVE FALSE
    BY <1>5
  <2>1. k * (u - (n + 1)) >= 0
    BY <1>1, <1>5
  <2>2. k * u - k * n - k >= 0
    BY <1>1, <1>5, <2>1
  <2>. QED
    BY <1>1, <1>2, <1>5, <2>2
<1>9. k >= 2
  BY <1>1
<1>10. chunk \in Nat /\ chunk + n <= NumChunk
  BY <1>1, <1>5, <1>6
<1>11. FirstChunk(a) = chunk
  <2>1. (chunk * k + gap) \div k = chunk
    <3>. DEFINE w == chunk * k + gap
                q == w \div k
                r == w % k
    <3>1. w \in Nat
      BY <1>1, <1>2, <1>10
    <3>2. q \in Int /\ r \in 0 .. k - 1 /\ w = k * q + r
      BY <1>1, <3>1
    <3>3. w = k * chunk + gap /\ gap \in 0 .. k - 1
      BY <1>1, <1>2, <1>9, <1>10
    <3>. HIDE DEF w, q, r
    <3>4. k * (q - chunk) = gap - r /\ k * (chunk - q) = r - gap
      BY <1>1, <1>10, <3>2, <3>3
    <3>5. ~ (q - chunk >= 1) /\ ~ (chunk - q >= 1)
      <4>1. q - chunk >= 1 => k * (q - chunk) >= k
        BY <1>1, <1>10, <3>2
      <4>2. chunk - q >= 1 => k * (chunk - q) >= k
        BY <1>1, <1>10, <3>2
      <4>. QED
        BY <1>1, <3>2, <3>3, <3>4, <4>1, <4>2
    <3>6. q = chunk
      BY <1>10, <3>2, <3>5
    <3>. QED
      BY <3>6 DEF q, w
  <2>. QED
    BY <1>4, <2>1 DEF FirstChunk, k
<1>12. Chunks(a) = chunk .. chunk + u - 1
  BY <1>4, <1>11 DEF Chunks, Bits, u, k
<1>13. /\ Chunks(a) \subseteq chunk .. chunk + n - 1
       /\ Chunks(a) \subseteq 0 .. NumChunk - 1
  BY <1>1, <1>5, <1>8, <1>10, <1>12
<1>14. Placed(a)
  <2>1. k * chunk = chunk * k /\ chunk * k \in Nat
    BY <1>1, <1>10
  <2>2. a.at \in Nat /\ k * chunk <= a.at /\ a.at + a.length <= k * chunk + k * u
    BY <1>1, <1>2, <1>4, <1>5, <1>7, <2>1
  <2>. QED
    BY <1>1, <1>4, <1>10, <1>11, <1>13, <2>2 DEF Placed, u, k
<1>. QED
  BY <1>6, <1>13, <1>14 DEF a, Bits, k, len

----------------------------------------------------------------------------
(* The invariant of the large space.                                       *)

(* Arrays have chunks of their own.  Those in use are in allocMap, and     *)
(* during a collection the chunks of the arrays it has reached are in      *)
(* markMap, and those of the others are not.                               *)
Own ==
  /\ \A a, b \in arrays : a # b => Chunks(a) \cap Chunks(b) = {}
  /\ ~ collecting => \A a \in arrays : Chunks(a) \subseteq allocMap
  /\ collecting => /\ unmarked \subseteq arrays
                   /\ \A a \in unmarked : Chunks(a) \cap markMap = {}
                   /\ \A a \in arrays \ unmarked : Chunks(a) \subseteq markMap

(* The maps, whether programs run during collections or not.               *)
LInv ==
  /\ allocMap \in SUBSET (0 .. NumChunk - 1) /\ markMap \in SUBSET (0 .. NumChunk - 1)
  /\ pos \in 0 .. NumChunk /\ failed \in Nat
  /\ \A a \in arrays \cup unmarked : Placed(a)
  /\ NextFitComplete
  /\ ~ MutatorsRun => Own

(* Every array is asked for with at least one chunk.                       *)
LEMMA SomeChunk ==
  ASSUME NEW x \in Arrays
  PROVE  ChunksOf(x) \in Nat \ {0}
<1>. DEFINE len == TagLength(x) + IF Align(x) = "NoWordAlign" THEN 0 ELSE 1
<1>1. LargeChunk \in Nat \ {0} /\ len \in Nat \ {0}
  BY LargeAssumption DEF TagLength
<1>. HIDE DEF len
<1>2. PICK u : u = DivideUp(len, LargeChunk)
  OBVIOUS
<1>3. u \in Nat /\ len <= LargeChunk * u
  BY <1>1, <1>2, DivideUpIs
<1>4. u # 0
  BY <1>1, <1>3
<1>. QED
  BY <1>2, <1>3, <1>4 DEF ChunksOf, len

(* The chunks of a placed array include its first.                         *)
LEMMA FirstIsChunk ==
  ASSUME NEW a, Placed(a)
  PROVE  FirstChunk(a) \in Chunks(a)
<1>1. LargeChunk \in Nat \ {0} /\ a.length \in Nat \ {0} /\ FirstChunk(a) \in Nat
  BY LargeAssumption DEF Placed
<1>2. PICK u : u = DivideUp(a.length, LargeChunk)
  OBVIOUS
<1>3. u \in Nat /\ a.length <= LargeChunk * u
  BY <1>1, <1>2, DivideUpIs
<1>4. u # 0
  BY <1>1, <1>3
<1>5. FirstChunk(a) \in FirstChunk(a) .. FirstChunk(a) + u - 1
  BY <1>1, <1>3, <1>4
<1>. QED
  BY <1>2, <1>5 DEF Chunks, Bits

(* A new array has chunks that were free.                                  *)
LEMMA AllocKeeps ==
  ASSUME LInv, NEW x \in Arrays, Alloc(x)
  PROVE  LInv'
<1>. DEFINE n == ChunksOf(x)
            chunk == Search(allocMap, pos, n)
            a == [at |-> AlignEven(chunk * LargeChunk, Align(x)), length |-> TagLength(x)]
<1>1. n \in Nat \ {0} /\ NumChunk \in Nat \ {0}
  BY SomeChunk, LargeAssumption
<1>2. \/ chunk \in 0 .. NumChunk - n /\ Bits(chunk, n) \cap allocMap = {}
      \/ chunk = -1 /\ \A s \in 0 .. NumChunk - n : Bits(s, n) \cap allocMap # {}
  BY <1>1, SearchFinds DEF LInv
<1>3. /\ collecting' = collecting /\ markMap' = markMap /\ unmarked' = unmarked
      /\ ~ MutatorsRun => ~ collecting
  BY DEF Alloc, MayRun
<1>4. CASE chunk = -1
  <2>1. failed' = n /\ allocMap' = allocMap /\ pos' = pos /\ arrays' = arrays
    BY <1>4 DEF Alloc
  <2>2. \A s \in 0 .. NumChunk - n : Bits(s, n) \cap allocMap # {}
    BY <1>1, <1>2, <1>4
  <2>3. NextFitComplete'
    BY <2>1, <2>2 DEF NextFitComplete, Bits
  <2>. HIDE DEF n
  <2>. QED
    BY <1>1, <1>3, <2>1, <2>3 DEF LInv, Own
<1>5. CASE chunk # -1
  <2>1. /\ failed' = 0 /\ pos' = chunk + n
        /\ allocMap' = allocMap \cup Bits(chunk, n)
        /\ arrays' = arrays \cup {a}
    BY <1>5 DEF Alloc
  <2>2. chunk \in 0 .. NumChunk - n /\ Bits(chunk, n) \cap allocMap = {}
    BY <1>2, <1>5
  <2>3. Placed(a) /\ Chunks(a) \subseteq Bits(chunk, n)
    <3>. HIDE DEF chunk
    <3>. QED
      BY <2>2, AllocPlaced
  <2>. HIDE DEF n, chunk, a
  <2>4. allocMap' \in SUBSET (0 .. NumChunk - 1) /\ pos' \in 0 .. NumChunk
    BY <1>1, <2>1, <2>2 DEF LInv, Bits
  <2>5. ASSUME ~ MutatorsRun PROVE Own'
    <3>1. \A b \in arrays : Chunks(b) \cap Chunks(a) = {}
      BY <1>3, <2>2, <2>3, <2>5 DEF LInv, Own
    <3>2. \A b, c \in arrays' : b # c => Chunks(b) \cap Chunks(c) = {}
      BY <2>1, <2>5, <3>1 DEF LInv, Own
    <3>3. \A b \in arrays' : Chunks(b) \subseteq allocMap'
      BY <1>3, <2>1, <2>3, <2>5 DEF LInv, Own
    <3>. QED
      BY <1>3, <2>5, <3>2, <3>3 DEF Own
  <2>6. \A b \in arrays' \cup unmarked' : Placed(b)
    BY <1>3, <2>1, <2>3 DEF LInv
  <2>7. NextFitComplete'
    BY <2>1 DEF NextFitComplete
  <2>. QED
    BY <1>3, <2>1, <2>4, <2>5, <2>6, <2>7 DEF LInv
<1>. QED
  BY <1>4, <1>5

(* The chunks of an array that is reached are marked, all of them.         *)
LEMMA AddRootKeeps ==
  ASSUME LInv, NEW a \in arrays \cup unmarked, AddRoot(a)
  PROVE  LInv'
<1>1. /\ collecting /\ unmarked' = unmarked \ {a}
      /\ UNCHANGED <<allocMap, pos, arrays, collecting, failed>>
  BY DEF AddRoot
<1>2. Placed(a)
  BY DEF LInv
<1>3. markMap' = IF FirstChunk(a) \in markMap THEN markMap ELSE markMap \cup Chunks(a)
  BY DEF AddRoot, Chunks, FirstChunk
<1>4. ASSUME ~ MutatorsRun PROVE Own'
  <2>1. /\ a \in arrays /\ unmarked \subseteq arrays
        /\ \A b \in unmarked : Chunks(b) \cap markMap = {}
        /\ \A b \in arrays \ unmarked : Chunks(b) \subseteq markMap
        /\ \A b, c \in arrays : b # c => Chunks(b) \cap Chunks(c) = {}
    BY <1>1, <1>4 DEF LInv, Own
  <2>2. CASE a \in unmarked
    <3>1. markMap' = markMap \cup Chunks(a)
      BY <1>2, <1>3, <2>1, <2>2, FirstIsChunk
    <3>2. \A b \in unmarked' : Chunks(b) \cap markMap' = {}
      BY <1>1, <2>1, <2>2, <3>1
    <3>3. \A b \in arrays' \ unmarked' : Chunks(b) \subseteq markMap'
      BY <1>1, <2>1, <3>1
    <3>. QED
      BY <1>1, <2>1, <3>2, <3>3 DEF Own
  <2>3. CASE a \notin unmarked
    <3>1. markMap' = markMap /\ unmarked' = unmarked
      BY <1>1, <1>2, <1>3, <2>1, <2>3, FirstIsChunk
    <3>. QED
      BY <1>1, <2>1, <3>1 DEF Own
  <2>. QED
    BY <2>2, <2>3
<1>5. markMap' \in SUBSET (0 .. NumChunk - 1)
  BY <1>2, <1>3 DEF LInv, Placed
<1>6. NextFitComplete'
  BY <1>1 DEF LInv, NextFitComplete
<1>. QED
  BY <1>1, <1>4, <1>5, <1>6 DEF LInv

(* The invariant at the start, in every step, and what follows from it.    *)
LEMMA LargeInitInv == LargeInit => LInv
<1>1. NumChunk \in Nat
  BY LargeAssumption
<1>. QED
  BY <1>1 DEF LargeInit, LInv, Own, NextFitComplete

(* Every step keeps the invariant.                                         *)
LEMMA LargeNextInv == LInv /\ [LargeNext]_largeVars => LInv'
<1>1. ASSUME LInv, NEW a \in arrays, Forget(a) PROVE LInv'
  BY <1>1 DEF Forget, MayRun, LInv, Own, NextFitComplete
<1>2. ASSUME LInv, StartCollect PROVE LInv'
  BY <1>2 DEF StartCollect, LInv, Own, NextFitComplete
<1>3. ASSUME LInv, EndCollect PROVE LInv'
  <2>1. NumChunk \in Nat
    BY LargeAssumption
  <2>. QED
    BY <1>3, <2>1 DEF EndCollect, LInv, Own, NextFitComplete
<1>4. ASSUME LInv, UNCHANGED largeVars PROVE LInv'
  BY <1>4 DEF LInv, Own, NextFitComplete, largeVars
<1>. QED
  BY <1>1, <1>2, <1>3, <1>4, AllocKeeps, AddRootKeeps DEF LargeNext

(* What the invariant is for.                                              *)
LEMMA LargeInvImplies == LInv => NextFitComplete /\ (~ MutatorsRun => LargeDisjoint)
<1>. SUFFICES ASSUME LInv, ~ MutatorsRun PROVE LargeDisjoint
  BY DEF LInv
<1>1. \A a \in arrays : \A w \in Places(a) : w \div LargeChunk \in Chunks(a)
  BY WordsInChunks DEF LInv
<1>2. \A a, b \in arrays : a # b => Places(a) \cap Places(b) = {}
  <2>. SUFFICES ASSUME NEW a \in arrays, NEW b \in arrays, a # b,
                       NEW w \in Places(a), w \in Places(b)
                PROVE  FALSE
    OBVIOUS
  <2>1. w \div LargeChunk \in Chunks(a) /\ w \div LargeChunk \in Chunks(b)
    BY <1>1
  <2>. QED
    BY <2>1 DEF LInv, Own
<1>3. ~ collecting =>
        \A a \in arrays : \A w \in Places(a) : w \div LargeChunk \in allocMap
  BY <1>1 DEF LInv, Own
<1>. QED
  BY <1>2, <1>3 DEF LargeDisjoint

----------------------------------------------------------------------------
(* Sets of pointers.                                                       *)

(* Words d with the items from f up to l, of which there are z, hold the   *)
(* sequence c.                                                             *)
Holds(d, f, l, z, c) ==
  /\ z \in Nat /\ z >= 16 /\ d \in [0 .. z - 1 -> Int]
  /\ f \in Nat /\ l \in Nat /\ f <= l /\ l <= z
  /\ c \in Seq(Int) /\ Len(c) = l - f
  /\ \A i \in 1 .. l - f : c[i] = d[f + i - 1]

(* Nothing is ever dequeued from a stack.                                  *)
SInv == /\ Holds(data, first, last, size, contents) /\ ~ overrun
        /\ use \in {"stack", "queue"}
        /\ use = "stack" => first = 0

(* A set after a move has room for n more items, and for three in any case.*)
LEMMA NormalizeHolds ==
  ASSUME NEW d, NEW f, NEW l, NEW z, NEW c, NEW n \in Nat, Holds(d, f, l, z, c)
  PROVE  \E g, w :
           /\ NormalizeExpand([data |-> d, first |-> f, last |-> l, size |-> z], n)
                = [data |-> g, first |-> 0, last |-> l - f, size |-> w]
           /\ Holds(g, 0, l - f, w, c)
           /\ (n = 0 => (l - f) + 3 <= w) /\ (l - f) + n <= w
<1>. DEFINE m == l - f
            e == m + n
            w == IF 4 + e >= z \/ 4 * e >= 3 * z THEN 2 * e ELSE z
            g == [i \in 0 .. w - 1 |-> IF i < m THEN d[f + i] ELSE 0]
<1>1. NormalizeExpand([data |-> d, first |-> f, last |-> l, size |-> z], n)
        = [data |-> g, first |-> 0, last |-> m, size |-> w]
  BY DEF NormalizeExpand
<1>2. /\ z \in Nat /\ z >= 16 /\ d \in [0 .. z - 1 -> Int]
      /\ f \in Nat /\ l \in Nat /\ f <= l /\ l <= z
      /\ c \in Seq(Int) /\ Len(c) = l - f
      /\ \A i \in 1 .. l - f : c[i] = d[f + i - 1]
  BY DEF Holds
<1>3. /\ m \in Nat /\ w \in Nat /\ w >= 16 /\ m + n <= w
      /\ n = 0 => m + 3 <= w
  BY <1>2
<1>. HIDE DEF w
<1>4. \A i \in 0 .. m - 1 : d[f + i] \in Int
  BY <1>2
<1>5. g \in [0 .. w - 1 -> Int]
  BY <1>3, <1>4
<1>6. \A i \in 1 .. m - 0 : c[i] = g[0 + i - 1]
  <2>. TAKE i \in 1 .. m - 0
  <2>1. 0 + i - 1 \in 0 .. w - 1 /\ 0 + i - 1 < m /\ f + (0 + i - 1) = f + i - 1
        /\ i \in 1 .. l - f
    BY <1>2, <1>3
  <2>. QED
    BY <1>2, <2>1
<1>. HIDE DEF g
<1>7. Holds(g, 0, m, w, c)
  BY <1>2, <1>3, <1>5, <1>6 DEF Holds
<1>. QED
  BY <1>1, <1>3, <1>7

(* Items written into the room there is.                                   *)
LEMMA WrittenHolds ==
  ASSUME NEW d, NEW f, NEW l, NEW z, NEW c, NEW n \in Nat, NEW k \in Int,
         Holds(d, f, l, z, c), l + n <= z
  PROVE  \E g :
           /\ Written([data |-> d, first |-> f, last |-> l, size |-> z], k, n)
                = [data |-> g, first |-> f, last |-> l + n, size |-> z]
           /\ Holds(g, f, l + n, z, c \o [i \in 1 .. n |-> k + i - 1])
           /\ l .. l + n - 1 \subseteq DOMAIN d
<1>. DEFINE s == [data |-> d, first |-> f, last |-> l, size |-> z]
            g == [i \in DOMAIN d |-> IF i \in l .. l + n - 1 THEN k + i - l ELSE d[i]]
            t == [i \in 1 .. n |-> k + i - 1]
<1>1. Written(s, k, n) = [data |-> g, first |-> f, last |-> l + n, size |-> z]
  <2>1. s.data = d /\ s.last = l
    OBVIOUS
  <2>. HIDE DEF s
  <2>2. Written(s, k, n) = [s EXCEPT !.data = g, !.last = l + n]
    BY <2>1 DEF Written
  <2>. HIDE DEF g
  <2>. QED
    BY <2>2 DEF s
<1>2. /\ z \in Nat /\ z >= 16 /\ d \in [0 .. z - 1 -> Int]
      /\ f \in Nat /\ l \in Nat /\ f <= l /\ l <= z
      /\ c \in Seq(Int) /\ Len(c) = l - f
      /\ \A i \in 1 .. l - f : c[i] = d[f + i - 1]
  BY DEF Holds
<1>3. g \in [0 .. z - 1 -> Int]
  BY <1>2
<1>4. t \in Seq(Int) /\ Len(t) = n /\ \A i \in 1 .. n : t[i] = k + i - 1
  OBVIOUS
<1>. HIDE DEF t
<1>5. /\ c \o t \in Seq(Int) /\ Len(c \o t) = (l + n) - f
      /\ \A i \in 1 .. (l + n) - f :
           (c \o t)[i] = IF i <= l - f THEN c[i] ELSE t[i - (l - f)]
  <2>1. Len(c) + Len(t) = (l + n) - f
    BY <1>2, <1>4
  <2>2. /\ c \o t \in Seq(Int) /\ Len(c \o t) = Len(c) + Len(t)
        /\ \A i \in 1 .. Len(c) + Len(t) :
             (c \o t)[i] = IF i <= Len(c) THEN c[i] ELSE t[i - Len(c)]
    <3>1. c \in Seq(Int) /\ t \in Seq(Int)
      BY <1>2, <1>4
    <3>. QED
      BY ONLY <3>1, ConcatProperties
  <2>. QED
    BY <1>2, <2>1, <2>2
<1>6. \A i \in 1 .. (l + n) - f : (c \o t)[i] = g[f + i - 1]
  <2>. TAKE i \in 1 .. (l + n) - f
  <2>1. f + i - 1 \in 0 .. z - 1
    BY <1>2
  <2>2. CASE i <= l - f
    BY <1>2, <1>5, <2>1, <2>2
  <2>3. CASE ~ (i <= l - f)
    <3>1. f + i - 1 \in l .. l + n - 1 /\ i - (l - f) \in 1 .. n
          /\ k + (i - (l - f)) - 1 = k + (f + i - 1) - l
      BY <1>2, <2>3
    <3>. QED
      BY <1>2, <1>4, <1>5, <2>1, <2>3, <3>1
  <2>. QED
    BY <2>2, <2>3
<1>. HIDE DEF g
<1>7. Holds(g, f, l + n, z, c \o t)
  <2>1. l + n \in Nat /\ f <= l + n
    BY <1>2
  <2>. QED
    BY <1>2, <1>3, <1>5, <1>6, <2>1 DEF Holds
<1>8. l .. l + n - 1 \subseteq DOMAIN d
  BY <1>2
<1>. QED
  BY <1>1, <1>7, <1>8 DEF t

(* An operation that finds room for n items leaves the set with them.      *)
LEMMA InsertKeeps ==
  ASSUME SInv, NEW d, NEW f, NEW l, NEW z, NEW n \in Nat,
         Holds(d, f, l, z, contents), l + n <= z, use = "stack" => f = 0,
         Insert([data |-> d, first |-> f, last |-> l, size |-> z], n)
  PROVE  SInv'
<1>1. Stamp \in Int
  <2>1. contents \in Seq(Int)
    BY DEF Holds
  <2>2. contents # <<>> => contents[Len(contents)] \in Int
    <3>1. contents # <<>> => Len(contents) \in Nat \ {0}
      BY <2>1, EmptySeq
    <3>. QED
      BY <2>1, <3>1, ElementOfSeq
  <2>. QED
    BY <2>2 DEF Stamp
<1>2. PICK g :
        /\ Written([data |-> d, first |-> f, last |-> l, size |-> z], Stamp, n)
             = [data |-> g, first |-> f, last |-> l + n, size |-> z]
        /\ Holds(g, f, l + n, z, contents \o [i \in 1 .. n |-> Stamp + i - 1])
        /\ l .. l + n - 1 \subseteq DOMAIN d
  BY <1>1, WrittenHolds
<1>3. /\ data' = g /\ first' = f /\ last' = l + n /\ size' = z
      /\ contents' = contents \o [i \in 1 .. n |-> Stamp + i - 1]
      /\ use' = use
  BY <1>2 DEF Insert, Becomes, Stamps
<1>4. ~ overrun'
  BY <1>2 DEF Insert, SInv
<1>. QED
  BY <1>2, <1>3, <1>4 DEF SInv

(* SetPush, SetPush2 and SetPush3.                                         *)
LEMMA PushKeeps ==
  ASSUME SInv, NEW n \in 1 .. 3, Push(n)
  PROVE  SInv'
<1>1. /\ Holds(data, first, last, size, contents)
      /\ first \in Nat /\ last \in Nat /\ first <= last /\ last <= size /\ size \in Nat
  BY DEF SInv, Holds
<1>2. CASE last + n >= size
  <2>1. PICK g, w :
          /\ NormalizeExpand(Set, 0) = [data |-> g, first |-> 0, last |-> last - first,
                                        size |-> w]
          /\ Holds(g, 0, last - first, w, contents)
          /\ (last - first) + 3 <= w
    <3>1. PICK k \in Nat : k = 0
      OBVIOUS
    <3>2. \E g, w :
            /\ NormalizeExpand([data |-> data, first |-> first, last |-> last,
                                size |-> size], k)
                 = [data |-> g, first |-> 0, last |-> last - first, size |-> w]
            /\ Holds(g, 0, last - first, w, contents)
            /\ (k = 0 => (last - first) + 3 <= w) /\ (last - first) + k <= w
      BY ONLY <1>1, <3>1, NormalizeHolds, ZenonT(60)
    <3>. QED
      BY <3>1, <3>2 DEF Set
  <2>2. (last - first) + n <= w /\ n \in Nat
    BY <1>1, <2>1 DEF Holds
  <2>3. Insert([data |-> g, first |-> 0, last |-> last - first, size |-> w], n)
    BY <1>2, <2>1 DEF Push
  <2>. QED
    BY <2>1, <2>2, <2>3, InsertKeeps
<1>3. CASE ~ (last + n >= size)
  <2>1. Insert([data |-> data, first |-> first, last |-> last, size |-> size], n)
    BY <1>3 DEF Push, Set
  <2>2. last + n <= size /\ n \in Nat
    BY <1>1, <1>3
  <2>3. use = "stack" => first = 0
    BY DEF SInv
  <2>. QED
    BY <1>1, <2>1, <2>2, <2>3, InsertKeeps
<1>. QED
  BY <1>2, <1>3

(* SetCopy judges the room from the first item, which is at 0 in a stack.  *)
LEMMA CopyKeeps ==
  ASSUME SInv, NEW n \in Nat, SetCopy(n)
  PROVE  SInv'
<1>1. /\ Holds(data, 0, last, size, contents) /\ first = 0 /\ use = "stack"
      /\ last \in Nat /\ last <= size /\ size \in Nat
  BY DEF SInv, Holds, SetCopy
<1>2. (IF first = last THEN [Set EXCEPT !.first = 0, !.last = 0] ELSE Set)
        = [data |-> data, first |-> 0, last |-> last, size |-> size]
  BY <1>1 DEF Set
<1>3. CASE last + n + 1 >= size
  <2>1. PICK g, w :
          /\ NormalizeExpand([data |-> data, first |-> 0, last |-> last, size |-> size], n)
               = [data |-> g, first |-> 0, last |-> last - 0, size |-> w]
          /\ Holds(g, 0, last - 0, w, contents)
          /\ (last - 0) + n <= w
    BY ZenonT(30), <1>1, NormalizeHolds
  <2>2. last - first + n + 1 >= size
    BY <1>1, <1>3
  <2>3. Insert([data |-> g, first |-> 0, last |-> last - 0, size |-> w], n)
    BY <1>2, <2>1, <2>2 DEF SetCopy
  <2>. QED
    BY <2>1, <2>3, InsertKeeps
<1>4. CASE ~ (last + n + 1 >= size)
  <2>1. ~ (last - first + n + 1 >= size) /\ last + n <= size /\ ~ (0 + n + 1 >= size)
    BY <1>1, <1>4
  <2>2. Insert([data |-> data, first |-> 0, last |-> last, size |-> size], n)
    BY <1>2, <2>1 DEF SetCopy
  <2>. QED
    BY <1>1, <2>1, <2>2, InsertKeeps
<1>. QED
  BY <1>3, <1>4

(* SetPop, SetPop2 and SetPop3.                                            *)
LEMMA PopKeeps ==
  ASSUME SInv, NEW n \in 1 .. 3, Pop(n)
  PROVE  SInv'
<1>1. /\ size \in Nat /\ size >= 16 /\ data \in [0 .. size - 1 -> Int]
      /\ first = 0 /\ last \in Nat /\ last <= size /\ last >= n
      /\ contents \in Seq(Int) /\ Len(contents) = last
      /\ \A i \in 1 .. last : contents[i] = data[0 + i - 1]
  BY DEF SInv, Holds, Pop
<1>2. /\ last' = last - n /\ first' = 0 /\ size' = size
      /\ data' = [i \in DOMAIN data |-> IF i < last - n THEN data[i] ELSE 0]
      /\ contents' = SubSeq(contents, 1, last - n)
      /\ use' = use /\ overrun' = overrun
  BY <1>1 DEF Pop
<1>3. data' \in [0 .. size - 1 -> Int]
  BY <1>1, <1>2
<1>4. /\ contents' \in Seq(Int) /\ Len(contents') = last - n
      /\ \A i \in 1 .. last - n : contents'[i] = contents[i]
  <2>1. \A i \in 1 .. last - n : contents[i] \in Int
    BY <1>1
  <2>2. /\ contents' \in Seq(Int)
        /\ Len(contents') = IF 1 <= last - n THEN (last - n) - 1 + 1 ELSE 0
        /\ \A i \in 1 .. (last - n) - 1 + 1 : contents'[i] = contents[1 + i - 1]
    BY <1>1, <1>2, <2>1, SubSeqProperties
  <2>. QED
    BY <1>1, <2>2
<1>5. \A i \in 1 .. last - n : contents'[i] = data'[0 + i - 1]
  <2>. TAKE i \in 1 .. last - n
  <2>1. 0 + i - 1 \in 0 .. size - 1 /\ 0 + i - 1 < last - n /\ i \in 1 .. last
    BY <1>1
  <2>. QED
    BY <1>1, <1>2, <1>4, <2>1
<1>6. Holds(data', 0, last - n, size, contents')
  BY <1>1, <1>3, <1>4, <1>5 DEF Holds
<1>. QED
  BY <1>2, <1>6 DEF SInv

(* SetDequeue.                                                             *)
LEMMA DequeueKeeps ==
  ASSUME SInv, SetDequeue
  PROVE  SInv'
<1>1. /\ size \in Nat /\ size >= 16 /\ data \in [0 .. size - 1 -> Int]
      /\ first \in Nat /\ last \in Nat /\ first < last /\ last <= size
      /\ contents \in Seq(Int) /\ Len(contents) = last - first
      /\ \A i \in 1 .. last - first : contents[i] = data[first + i - 1]
  BY DEF SInv, Holds, SetDequeue
<1>2. /\ last' = last /\ first' = first + 1 /\ size' = size
      /\ data' = [data EXCEPT ![first] = 0]
      /\ contents' = Tail(contents)
      /\ use' = use /\ overrun' = overrun /\ use = "queue"
  BY DEF SetDequeue
<1>3. data' \in [0 .. size - 1 -> Int]
  BY <1>1, <1>2
<1>4. /\ contents' \in Seq(Int) /\ Len(contents') = last - (first + 1)
      /\ \A i \in 1 .. last - (first + 1) : contents'[i] = contents[i + 1]
  <2>1. contents # <<>>
    BY <1>1, EmptySeq
  <2>. QED
    BY <1>1, <1>2, <2>1, HeadTailProperties
<1>5. \A i \in 1 .. last - (first + 1) : contents'[i] = data'[first + 1 + i - 1]
  <2>. TAKE i \in 1 .. last - (first + 1)
  <2>1. /\ first + 1 + i - 1 \in 0 .. size - 1 /\ first + 1 + i - 1 # first
        /\ first + (i + 1) - 1 = first + 1 + i - 1 /\ i + 1 \in 1 .. last - first
    BY <1>1
  <2>2. data'[first + 1 + i - 1] = data[first + 1 + i - 1]
    BY <1>1, <1>2, <2>1
  <2>. QED
    BY <1>1, <1>4, <2>1, <2>2
<1>6. Holds(data', first + 1, last, size, contents')
  BY <1>1, <1>3, <1>4, <1>5 DEF Holds
<1>. QED
  BY <1>2, <1>6 DEF SInv

(* SetReset.                                                               *)
LEMMA SetResetKeeps ==
  ASSUME SInv, SetReset
  PROVE  SInv'
<1>1. size \in Nat /\ size >= 16 /\ data \in [0 .. size - 1 -> Int]
  BY DEF SInv, Holds
<1>2. /\ last' = 0 /\ first' = 0 /\ size' = size /\ contents' = <<>>
      /\ data' = [i \in DOMAIN data |-> 0]
      /\ use' = use /\ overrun' = overrun
  BY DEF SetReset
<1>3. Holds(data', 0, 0, size, <<>>)
  BY <1>1, <1>2, EmptySeq DEF Holds
<1>. QED
  BY <1>2, <1>3 DEF SInv

(* A set is a sequence at the start, and stays one.                        *)
LEMMA SetsInitInv == SetsInit => SInv
<1>. SUFFICES ASSUME SetsInit PROVE SInv
  OBVIOUS
<1>1. InitialSize \in Nat /\ InitialSize >= 16
  BY SetsAssumption
<1>2. size = InitialSize /\ data \in [0 .. InitialSize - 1 -> Int]
  BY <1>1 DEF SetsInit, SetInit, Words
<1>. QED
  BY <1>1, <1>2, EmptySeq DEF SetsInit, SetInit, SInv, Holds

(* Every step keeps the invariant.                                         *)
LEMMA SetsNextInv == SInv /\ [SetsNext]_setVars => SInv'
<1>1. ASSUME SInv, SetsNext PROVE SInv'
  <2>1. \A n \in 0 .. InitialSize : n \in Nat
    BY SetsAssumption
  <2>. QED
    BY <1>1, <2>1, PushKeeps, PopKeeps, DequeueKeeps, CopyKeeps, SetResetKeeps DEF SetsNext
<1>2. ASSUME SInv, UNCHANGED setVars PROVE SInv'
  BY <1>2 DEF SInv, Holds, setVars
<1>. QED
  BY <1>1, <1>2

(* What the invariant is for.                                              *)
LEMMA SetsInvImplies == SInv => SetIsSequence
<1>. SUFFICES ASSUME SInv PROVE SetIsSequence
  OBVIOUS
<1>1. /\ contents \in Seq(Int) /\ Len(contents) = last - first
      /\ \A i \in 1 .. last - first : contents[i] = data[first + i - 1]
  BY DEF SInv, Holds
<1>2. contents = [i \in 1 .. Len(contents) |-> contents[i]]
  BY <1>1, LenProperties
<1>. QED
  BY <1>1, <1>2 DEF SInv, SetIsSequence

----------------------------------------------------------------------------
(* The composition.                                                        *)

(* The invariant of allocation areas holds throughout.                     *)
LEMMA AreaInvHolds ==
  Spec => []AInv
<1>1. Init => AInv
  BY AreasInv DEF Init
<1>2. ASSUME AInv, [Next]_storageVars PROVE AInv'
  <2>1. [HeapAreasNext]_areaVars
    BY <1>2 DEF Next, storageVars, StackletStep, AreaStep, RangeStep,
               LargeStep, SetStep, SequentialStep
  <2>. QED
    BY <1>2, <2>1, AreasInv
<1>. QED
  BY <1>1, <1>2, PTL DEF Spec

(* The invariant of copy ranges holds throughout.                          *)
LEMMA RangeInvHolds ==
  Spec => []CInv
<1>1. Init => CInv
  BY CopyInitInv, CopyNextInv DEF Init
<1>2. ASSUME CInv, [Next]_storageVars PROVE CInv'
  <2>1. [CopyRangesNext]_rangeVars
    BY <1>2 DEF Next, storageVars, StackletStep, AreaStep, RangeStep,
               LargeStep, SetStep, SequentialStep
  <2>. QED
    BY <1>2, <2>1, CopyInitInv, CopyNextInv
<1>. QED
  BY <1>1, <1>2, PTL DEF Spec

(* The invariant of the space of large arrays holds throughout.            *)
LEMMA LargeInvHolds ==
  Spec => []LInv
<1>1. Init => LInv
  BY LargeInitInv, LargeNextInv DEF Init
<1>2. ASSUME LInv, [Next]_storageVars PROVE LInv'
  <2>1. [LargeNext]_largeVars
    BY <1>2 DEF Next, storageVars, StackletStep, AreaStep, RangeStep,
               LargeStep, SetStep, SequentialStep
  <2>. QED
    BY <1>2, <2>1, LargeInitInv, LargeNextInv
<1>. QED
  BY <1>1, <1>2, PTL DEF Spec

(* The invariant of sets holds throughout.                                 *)
LEMMA SetInvHolds ==
  Spec => []SInv
<1>1. Init => SInv
  BY SetsInitInv, SetsNextInv DEF Init
<1>2. ASSUME SInv, [Next]_storageVars PROVE SInv'
  <2>1. [SetsNext]_setVars
    BY <1>2 DEF Next, storageVars, StackletStep, AreaStep, RangeStep,
               LargeStep, SetStep, SequentialStep
  <2>. QED
    BY <1>2, <2>1, SetsInitInv, SetsNextInv
<1>. QED
  BY <1>1, <1>2, PTL DEF Spec

(* The invariant of stacklets, while no exception passes over more than    *)
(* the stacklet it is raised in, holds throughout.                         *)
LEMMA StackInvHolds ==
  ASSUME ~ Raises
  PROVE  Spec => []KInv
<1>1. Init => KInv
  BY StackInitInv, StackNextInv DEF Init
<1>2. ASSUME KInv, [Next]_storageVars PROVE KInv'
  <2>1. [StackNext]_stackletVars
    BY <1>2 DEF Next, storageVars, StackletStep, AreaStep, RangeStep,
               LargeStep, SetStep, SequentialStep
  <2>. QED
    BY <1>2, <2>1, StackInitInv, StackNextInv
<1>. QED
  BY <1>1, <1>2, PTL DEF Spec

(* An allocation area with room in it is in fromSpace, whichever processor *)
(* flips the spaces and whichever requests run into the end of the heap    *)
(* (GetHeapArea and ResetAllocation in gc.c).                              *)
THEOREM AreasHold == Spec => []AreaInFromSpace
<1>1. AInv => AreaInFromSpace
  BY AreasInv
<1>. QED
  BY <1>1, AreaInvHolds, PTL

(* After a collection the heap can be walked from its bottom to its        *)
(* cursor, whatever copies were made, by whom and in whichever order       *)
(* (PadCopyRange, EndCopyRange).                                           *)
THEOREM HeapIsParsable == Spec => []HeapParsable
<1>1. CInv => HeapParsable
  BY CopyInvImplies
<1>. QED
  BY <1>1, RangeInvHolds, PTL

(* Every copy that is not scanned is in exactly one slice to be scanned,   *)
(* and each slice can be walked (AllocFromCopyRangeSlow, AddGrayCopyRange, *)
(* scanRegion).                                                            *)
THEOREM GrayIsConserved == Spec => []GrayConserved
<1>1. CInv => GrayConserved
  BY CopyInvImplies
<1>. QED
  BY <1>1, RangeInvHolds, PTL

(* No two large arrays share a word of their space (gc_large_alloc,        *)
(* AllocBitmapRange), if no program runs during a major collection: this   *)
(* is so of gc_gen.c and gc_gen_para.c, and not of gc_gen_conc.c.          *)
THEOREM LargeAreDisjoint ==
  ASSUME ~ MutatorsRun
  PROVE  Spec => []LargeDisjoint
<1>1. LInv => LargeDisjoint
  BY LargeInvImplies
<1>. QED
  BY <1>1, LargeInvHolds, PTL

(* The search for a row of free chunks fails only when there is none,      *)
(* wherever it begins (AllocBitmapRange).                                  *)
THEOREM NextFitIsComplete == Spec => []NextFitComplete
<1>1. LInv => NextFitComplete
  BY LargeInvImplies
<1>. QED
  BY <1>1, LargeInvHolds, PTL

(* A set holds what was put in and not taken out, in its order, whatever   *)
(* moves and extensions its array has been through (NormalizeSet,          *)
(* ExtendSet in set.c).                                                    *)
THEOREM SetsAreSequences == Spec => []SetIsSequence
<1>1. SInv => SetIsSequence
  BY SetsInvImplies
<1>. QED
  BY <1>1, SetInvHolds, PTL

(* Both halves of the copy of a stacklet are from one moment:              *)
(* Stacklet_Copy never reads it while its thread runs on it (memobj.c).    *)
THEOREM ReplicasAreWhole ==
  ASSUME ~ Raises
  PROVE  Spec => []ReplicaWhole
<1>1. KInv => ReplicaWhole
  BY StackInvImplies
<1>. QED
  BY <1>1, StackInvHolds, PTL

(* When the roles are exchanged the replica of every stacklet in use is up *)
(* to date (complete_root_scan, CollectorOff).                             *)
THEOREM ReplicasAtFlip ==
  ASSUME ~ Raises
  PROVE  Spec => []ReplicaAtFlip
<1>1. KInv => ReplicaAtFlip
  BY StackInvImplies
<1>. QED
  BY <1>1, StackInvHolds, PTL

----------------------------------------------------------------------------
(* Heap sizes.                                                             *)

LEMMA TimesMonotone ==
  ASSUME NEW a \in Int, NEW b \in Int, NEW k \in Nat, a <= b
  PROVE  a * k <= b * k
<1>. QED
  OBVIOUS

LEMMA TimesLess ==
  ASSUME NEW a \in Int, NEW b \in Int, NEW k \in Nat, a * k < b * k
  PROVE  a < b
<1>1. ASSUME b <= a PROVE FALSE
  <2>1. b * k <= a * k
    BY <1>1, TimesMonotone
  <2>. QED
    BY <2>1
<1>. QED
  BY <1>1

LEMMA QuotientIs ==
  ASSUME NEW a \in Nat, NEW k \in Nat \ {0}
  PROVE  \E q \in Nat : Quotient(a, k) = q /\ q * k <= a /\ a < (q + 1) * k
<1>1. PICK q \in Int : q = a \div k /\ k * q <= a /\ a < k * q + k
  OBVIOUS
<1>2. q >= 0
  <2>1. 0 * k < (q + 1) * k
    BY <1>1
  <2>2. 0 < q + 1
    BY <2>1, TimesLess
  <2>. QED
    BY <2>2
<1>3. q * k <= a /\ a < (q + 1) * k
  BY <1>1
<1>. QED
  BY <1>1, <1>2, <1>3 DEF Quotient

(* Rounding up, and down.                                                  *)
LEMMA UpIs ==
  ASSUME NEW n \in Nat, NEW k \in Nat \ {0}
  PROVE  \E m \in Nat : Up(n, k) = m * k /\ n <= m * k /\ m * k < n + k
<1>1. n + k - 1 \in Nat
  OBVIOUS
<1>2. PICK m \in Nat : /\ Quotient(n + k - 1, k) = m
                       /\ m * k <= n + k - 1 /\ n + k - 1 < (m + 1) * k
  BY <1>1, QuotientIs
<1>3. (m + 1) * k = m * k + k
  OBVIOUS
<1>4. PICK x \in Nat : x = m * k
  OBVIOUS
<1>5. n <= x /\ x < n + k
  BY <1>2, <1>3, <1>4
<1>. QED
  BY <1>2, <1>4, <1>5 DEF Up

LEMMA DownIs ==
  ASSUME NEW a \in Nat, NEW k \in Nat \ {0}
  PROVE  \E m \in Nat : Down(a, k) = m * k /\ m * k <= a /\ a < (m + 1) * k
BY QuotientIs DEF Down

LEMMA DownOfNegative ==
  ASSUME NEW a \in Int, a < 0, NEW k \in Nat \ {0}
  PROVE  Down(a, k) \in Int /\ Down(a, k) <= 0
<1>1. PICK b \in Nat : b = -a
  OBVIOUS
<1>2. PICK q \in Nat : b \div k = q
  <2>1. PICK q \in Nat : Quotient(b, k) = q
    BY QuotientIs
  <2>. QED
    BY <2>1 DEF Quotient
<1>3. Quotient(a, k) = -q
  BY <1>1, <1>2 DEF Quotient
<1>4. (-q) * k <= 0 * k
  <2>1. -q <= 0
    OBVIOUS
  <2>. QED
    BY <2>1, TimesMonotone
<1>. QED
  BY <1>3, <1>4 DEF Down

(* The heap is to be at least as large as what is in it.                   *)
LEMMA DesiredIsEnough ==
  ASSUME NEW live \in Nat
  PROVE  DesiredSize(live) \in Nat /\ live <= DesiredSize(live)
<1>1. /\ Kb \in Nat \ {0} /\ MinRatio \in 1 .. 99 /\ MaxRatio \in MinRatio .. 99
      /\ MinRatioSize \in Nat /\ MaxRatioSize \in Nat /\ MinRatioSize < MaxRatioSize
  BY HeapPolicyAssumption
<1>. DEFINE width == Kb * (MaxRatioSize - MinRatioSize)
            past == live - Kb * MinRatioSize
            where_ == IF past > width THEN width ELSE IF past < 0 THEN 0 ELSE past
            divisor == MinRatio * width + where_ * (MaxRatio - MinRatio)
<1>2. PICK w \in Nat \ {0} : w = width
  <2>1. PICK d \in Nat \ {0} : d = MaxRatioSize - MinRatioSize
    BY <1>1
  <2>2. Kb * d \in Nat \ {0}
    BY <1>1
  <2>. QED
    BY <2>1, <2>2
<1>3. PICK v \in 0 .. w : v = where_
  <2>1. Kb * MinRatioSize \in Int
    BY <1>1
  <2>2. PICK x \in Int : x = past
    BY <2>1
  <2>. QED
    BY <1>2, <2>2
<1>4. PICK D \in Nat \ {0} : D = divisor /\ D <= 100 * w
  <2>1. PICK lo_ \in 1 .. 99, more \in 0 .. 98 : /\ lo_ = MinRatio /\ lo_ + more <= 99
                                                 /\ more = MaxRatio - MinRatio
    BY <1>1
  <2>2. v * more <= w * more
    BY TimesMonotone
  <2>3. 1 * w <= lo_ * w
    BY TimesMonotone
  <2>4. (lo_ + more) * w <= 99 * w
    BY <2>1, TimesMonotone
  <2>5. lo_ * w + v * more <= 99 * w
    BY <2>2, <2>4
  <2>6. lo_ * w + v * more \in Nat \ {0}
    <3>1. v * more \in Nat /\ lo_ * w \in Nat
      OBVIOUS
    <3>. QED
      BY <2>3, <3>1
  <2>7. divisor = lo_ * w + v * more
    BY <1>2, <1>3, <2>1
  <2>. QED
    BY <2>5, <2>6, <2>7
<1>. HIDE DEF width, past, where_, divisor
<1>5. PICK a \in Nat : a = live * 100 * width
  BY <1>2
<1>6. PICK q \in Nat : a \div D = q /\ a < (q + 1) * D
  <2>1. PICK q \in Nat : Quotient(a, D) = q /\ a < (q + 1) * D
    BY QuotientIs
  <2>. QED
    BY <2>1 DEF Quotient
<1>7. live <= q
  <2>1. live * D <= live * (100 * w)
    BY <1>4, TimesMonotone
  <2>2. live * (100 * w) = a
    BY <1>2, <1>5
  <2>3. live * D < (q + 1) * D
    BY <1>6, <2>1, <2>2
  <2>4. live < q + 1
    BY <2>3, TimesLess
  <2>. QED
    BY <2>4
<1>8. DesiredSize(live) = Up(q, Kb)
  BY <1>4, <1>5, <1>6 DEF DesiredSize, width, past, where_, divisor
<1>9. PICK m \in Nat : Up(q, Kb) = m * Kb /\ q <= m * Kb
  BY <1>1, UpIs
<1>10. m * Kb \in Nat
  BY <1>1
<1>. QED
  BY <1>7, <1>8, <1>9, <1>10

LEMMA ReserveIs ==
  ASSUME NEW phases \in 1 .. 2
  PROVE  /\ Unreserved(phases).num \in Nat \ {0} /\ Unreserved(phases).den \in Nat \ {0}
         /\ Unreserved(phases).num <= Unreserved(phases).den
<1>1. PICK r \in Nat \ {0} : r = CollectionRate
  BY HeapPolicyAssumption
<1>2. PICK s \in Nat \ {0} : s = r * r
  OBVIOUS
<1>3. CASE phases = 1
  BY <1>1, <1>3 DEF Unreserved
<1>4. CASE phases # 1
  BY <1>1, <1>2, <1>4 DEF Unreserved
<1>. QED
  BY <1>3, <1>4

(* Pages, and how many of them are on their way to processors.             *)
LEMMA PagesAre ==
  /\ MinOnRequest \in Nat \ {0}
  /\ \E h \in Nat \ {0, 1} : InFlight = h * MinOnRequest
<1>1. PICK p \in Nat \ {0}, n \in Nat \ {0} : p = MinOnRequest /\ n = NumProcs
  BY HeapPolicyAssumption
<1>2. 2 * n \in Nat \ {0, 1} /\ 2 * n * p = (2 * n) * p
  OBVIOUS
<1>. QED
  BY <1>1, <1>2 DEF InFlight

(* Nothing is added by taking the reserve off.                             *)
LEMMA ReducedIsLess ==
  ASSUME NEW sz \in Nat, NEW phases \in 0 .. 2
  PROVE  ExpandedToReduced(sz, phases) \in Int /\ ExpandedToReduced(sz, phases) <= sz
<1>1. CASE phases = 0
  BY <1>1 DEF ExpandedToReduced
<1>2. CASE phases # 0
  <2>1. PICK num \in Nat \ {0}, den \in Nat \ {0} :
          num = Unreserved(phases).num /\ den = Unreserved(phases).den /\ num <= den
    BY <1>2, ReserveIs
  <2>2. PICK p \in Nat \ {0}, h \in Nat \ {0, 1} : p = MinOnRequest /\ InFlight = h * p
    BY PagesAre
  <2>3. PICK V \in Nat : V = Up(sz, p) /\ V < sz + p
    <3>1. PICK m \in Nat : Up(sz, p) = m * p /\ m * p < sz + p
      BY UpIs
    <3>2. m * p \in Nat
      OBVIOUS
    <3>. QED
      BY <3>1, <3>2
  <2>4. PICK a \in Nat : a = V * num
    OBVIOUS
  <2>5. PICK C \in Nat : C = Quotient(a, den) /\ C * den <= a
    BY QuotientIs
  <2>6. C <= V
    <3>1. num * V <= den * V
      BY <2>1, TimesMonotone
    <3>2. C * den < (V + 1) * den
      <4>1. (V + 1) * den = den * V + den
        OBVIOUS
      <4>2. PICK x \in Nat : x = den * V
        OBVIOUS
      <4>3. C * den <= x
        BY <2>4, <2>5, <3>1, <4>2
      <4>. QED
        BY <4>1, <4>2, <4>3
    <3>3. C < V + 1
      BY <3>2, TimesLess
    <3>. QED
      BY <3>3
  <2>7. PICK F \in Nat : F = InFlight /\ F >= p
    <3>1. 1 * p <= h * p /\ h * p \in Nat
      BY TimesMonotone
    <3>. QED
      BY <2>2, <3>1
  <2>8. PICK c \in Int : c = C - F /\ c < sz
    BY <2>3, <2>6, <2>7
  <2>9. Down(c, p) \in Int /\ Down(c, p) <= sz
    <3>1. CASE c < 0
      <4>1. Down(c, p) \in Int /\ Down(c, p) <= 0
        BY <3>1, DownOfNegative
      <4>. QED
        BY <4>1
    <3>2. CASE c >= 0
      <4>1. c \in Nat
        BY <3>2
      <4>2. PICK m \in Nat : Down(c, p) = m * p /\ m * p <= c
        BY <4>1, DownIs
      <4>3. m * p \in Nat
        OBVIOUS
      <4>. QED
        BY <2>8, <4>2, <4>3
    <3>. QED
      BY <3>1, <3>2
  <2>10. ExpandedToReduced(sz, phases) = Down(c, p)
    BY <1>2, <2>1, <2>2, <2>3, <2>4, <2>5, <2>7, <2>8 DEF ExpandedToReduced
  <2>. QED
    BY <2>9, <2>10
<1>. QED
  BY <1>1, <1>2

(* A reduced size is met again by whatever is larger than its expansion.   *)
LEMMA ExpandedIsEnough ==
  ASSUME NEW sz \in Nat, NEW phases \in 0 .. 2
  PROVE  /\ ReducedToExpanded(sz, phases) \in Nat
         /\ sz <= ReducedToExpanded(sz, phases)
         /\ \A max \in Nat : ReducedToExpanded(sz, phases) < max =>
              sz <= ExpandedToReduced(max, phases)
<1>1. CASE phases = 0
  BY <1>1 DEF ReducedToExpanded, ExpandedToReduced
<1>2. CASE phases # 0
  <2>1. PICK num \in Nat \ {0}, den \in Nat \ {0} :
          num = Unreserved(phases).num /\ den = Unreserved(phases).den /\ num <= den
    BY <1>2, ReserveIs
  <2>2. PICK p \in Nat \ {0}, h \in Nat : p = MinOnRequest /\ InFlight = h * p
    BY PagesAre
  <2>3. PICK u \in Nat : Up(sz, p) = u * p /\ sz <= u * p
    BY UpIs
  <2>4. PICK w \in Nat : w = u + h /\ Up(sz, p) + InFlight = w * p
    BY <2>2, <2>3
  <2>5. PICK W \in Nat : W = w * p
    OBVIOUS
  <2>6. PICK X \in Nat : X = Quotient(W * den, num) /\ W * den < (X + 1) * num
    <3>1. W * den \in Nat
      OBVIOUS
    <3>. QED
      BY <3>1, QuotientIs
  <2>7. PICK e \in Nat : Down(X, p) = e * p /\ X < (e + 1) * p
    BY DownIs
  <2>8. ReducedToExpanded(sz, phases) = e * p
    BY <1>2, <2>1, <2>2, <2>4, <2>5, <2>6, <2>7 DEF ReducedToExpanded
  <2>9. u <= e
    <3>1. num * W <= den * W
      BY <2>1, TimesMonotone
    <3>2. W * num < (X + 1) * num
      BY <2>6, <3>1
    <3>3. W < X + 1
      BY <3>2, TimesLess
    <3>4. w * p < (e + 1) * p
      <4>1. PICK E \in Nat : E = (e + 1) * p
        OBVIOUS
      <4>. QED
        BY <2>5, <2>7, <3>3, <4>1
    <3>5. w < e + 1
      BY <3>4, TimesLess
    <3>. QED
      BY <2>4, <3>5
  <2>10. sz <= e * p /\ e * p \in Nat
    <3>1. u * p <= e * p /\ u * p \in Nat /\ e * p \in Nat
      BY <2>9, TimesMonotone
    <3>. QED
      BY <2>3, <3>1
  <2>11. ASSUME NEW max \in Nat, e * p < max
         PROVE  sz <= ExpandedToReduced(max, phases)
    <3>1. PICK v \in Nat : Up(max, p) = v * p /\ max <= v * p
      BY UpIs
    <3>2. PICK V \in Nat : V = v * p
      OBVIOUS
    <3>3. X < V
      <4>1. e * p < v * p
        BY <2>11, <3>1
      <4>2. e < v
        BY <4>1, TimesLess
      <4>3. (e + 1) * p <= v * p
        <5>1. e + 1 <= v
          BY <4>2
        <5>. QED
          BY <5>1, TimesMonotone
      <4>. QED
        BY <2>7, <3>2, <4>3
    <3>4. PICK C \in Nat : C = Quotient(V * num, den) /\ V * num < (C + 1) * den
      <4>1. V * num \in Nat
        OBVIOUS
      <4>. QED
        BY <4>1, QuotientIs
    <3>5. W <= C
      <4>1. (X + 1) * num <= V * num
        <5>1. X + 1 <= V
          BY <3>3
        <5>. QED
          BY <5>1, TimesMonotone
      <4>2. W * den < (C + 1) * den
        <5>1. PICK x \in Nat, y \in Nat : x = (X + 1) * num /\ y = V * num
          OBVIOUS
        <5>. QED
          BY <2>6, <3>4, <4>1, <5>1
      <4>3. W < C + 1
        BY <4>2, TimesLess
      <4>. QED
        BY <4>3
    <3>6. PICK c \in Nat : c = C - InFlight /\ u * p <= c
      <4>1. PICK a \in Nat, b \in Nat : a = u * p /\ b = h * p
        OBVIOUS
      <4>2. W = a + b
        BY <2>4, <2>5, <4>1
      <4>. QED
        BY <2>2, <3>5, <4>1, <4>2
    <3>7. PICK d \in Nat : Down(c, p) = d * p /\ c < (d + 1) * p
      BY DownIs
    <3>8. u * p <= d * p
      <4>1. u * p < (d + 1) * p
        BY <3>6, <3>7
      <4>2. u < d + 1
        BY <4>1, TimesLess
      <4>3. u <= d
        BY <4>2
      <4>. QED
        BY <4>3, TimesMonotone
    <3>9. ExpandedToReduced(max, phases) = d * p
      BY <1>2, <2>1, <2>2, <3>1, <3>2, <3>4, <3>6, <3>7 DEF ExpandedToReduced
    <3>. QED
      BY <2>3, <3>8, <3>9
  <2>. QED
    BY <2>8, <2>10, <2>11
<1>. QED
  BY <1>1, <1>2

(* assert(newReducedSize >= live) of HeapAdjust (gc.c:219), for every      *)
(* policy: a heap whose size ComputeHeapSize has computed is as large as   *)
(* what is to be in it, and no larger than the largest heap, however large *)
(* the reserve and however the conversions round, unless memory is out.    *)
THEOREM HeapSizesHold == \A live \in Nat : SizeHolds(live)
<1>. SUFFICES ASSUME NEW live \in Nat, NEW phases \in 0 .. 2, NEW relaxed \in BOOLEAN,
                     ~ OutOfMemory(live, phases, relaxed)
              PROVE  ComputeHeapSize(live, phases, relaxed) \in live .. MaxHeapByte
  BY DEF SizeHolds
<1>1. PICK max \in Nat, min \in Nat : max = MaxHeapByte /\ min = MinHeapByte /\ min <= max
  BY HeapPolicyAssumption
<1>2. PICK reduced \in Nat : reduced = DesiredSize(live) /\ live <= reduced
  BY DesiredIsEnough
<1>3. PICK expanded \in Nat : /\ expanded = ReducedToExpanded(reduced, phases)
                              /\ reduced <= expanded
                              /\ \A m \in Nat : expanded < m =>
                                   reduced <= ExpandedToReduced(m, phases)
  BY ExpandedIsEnough
<1>4. CASE expanded > max
  <2>1. MaxReduced(phases, relaxed) \in Int /\ MaxReduced(phases, relaxed) <= max
    BY <1>1, ReducedIsLess DEF MaxReduced
  <2>2. live <= MaxReduced(phases, relaxed)
    BY <2>1 DEF OutOfMemory
  <2>3. ComputeHeapSize(live, phases, relaxed) = MaxReduced(phases, relaxed)
    BY <1>1, <1>2, <1>3, <1>4 DEF ComputeHeapSize
  <2>. QED
    BY <1>1, <2>1, <2>2, <2>3
<1>5. CASE expanded < min
  <2>1. MinReduced(phases, relaxed) \in Int /\ MinReduced(phases, relaxed) <= min
    BY <1>1, ReducedIsLess DEF MinReduced
  <2>2. live <= MinReduced(phases, relaxed)
    <3>1. CASE relaxed
      <4>1. MinReduced(phases, relaxed) = min
        BY <1>1, <3>1 DEF MinReduced, ExpandedToReduced
      <4>. QED
        BY <1>2, <1>3, <1>5, <4>1
    <3>2. CASE ~ relaxed
      <4>1. MinReduced(phases, relaxed) = ExpandedToReduced(min, phases)
        BY <1>1, <3>2 DEF MinReduced
      <4>2. reduced <= ExpandedToReduced(min, phases)
        BY <1>3, <1>5
      <4>. QED
        BY <1>2, <2>1, <4>1, <4>2
    <3>. QED
      BY <3>1, <3>2
  <2>3. ComputeHeapSize(live, phases, relaxed) = MinReduced(phases, relaxed)
    BY <1>1, <1>2, <1>3, <1>5 DEF ComputeHeapSize
  <2>. QED
    BY <1>1, <2>1, <2>2, <2>3
<1>6. CASE ~ (expanded > max) /\ ~ (expanded < min)
  <2>1. ComputeHeapSize(live, phases, relaxed) = reduced
    BY <1>1, <1>2, <1>3, <1>6 DEF ComputeHeapSize
  <2>. QED
    BY <1>1, <1>2, <1>3, <1>6, <2>1
<1>. QED
  BY <1>4, <1>5, <1>6
=============================================================================
