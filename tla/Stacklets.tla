------------------------------ MODULE Stacklets ------------------------------
(***************************************************************************)
(* The stacklets a thread's stack is made of, and the snapshot that the    *)
(* concurrent collectors take of them: memobj.c, the root scans of         *)
(* stack.c, and the functions by which a thread comes to another stacklet  *)
(* (mapThread in thread.c, gc.c, exn.c).                                   *)
(*                                                                         *)
(* A stacklet has a primary, on which its thread runs, and a replica; they *)
(* change roles when a collection ends.  What is in a primary is one       *)
(* bit that its thread changes as it runs.  Stacklet_Copy reads it in two  *)
(* halves, so that a copy made while a thread runs can be torn.            *)
(***************************************************************************)
EXTENDS Integers, Sequences, FiniteSets

CONSTANTS StackProcs,   \* processors
          StackThreads, \* threads; each has a chain of stacklets
          NumStacklet,  \* number of stacklets
          MaxSnapshots, \* bound: no collection starts after so many
          Raises        \* whether threads raise exceptions across stacklets

Ids == 1 .. NumStacklet
None == 0

ASSUME StackletsAssumption ==
  /\ IsFiniteSet(StackProcs) /\ IsFiniteSet(StackThreads)
  /\ None \notin StackThreads
  /\ NumStacklet \in Nat /\ NumStacklet >= Cardinality(StackThreads)
  /\ MaxSnapshots \in Nat /\ Raises \in BOOLEAN

VARIABLES
  chain,       \* chain[t]: the stacklets of t, oldest first
  count,       \* count[s]: the number of chains s is in
  state,       \* state[s]: the StackletState_t of s
  primary,     \* primary[s]: what the thread of s has in it
  replica,     \* replica[s]: the two halves of the replica
  stackWork,   \* the stacklets that wait for work_root_scan
  gc,          \* "Off", "Pending", "Scanning", "On" or "Completing"
  snapshots,   \* number of collections so far
  toScan,      \* the threads of which the stack is still to be scanned
  on,          \* on[p]: the thread p runs, or None
  step,        \* step[p]: what p is doing
  at,          \* at[p]: the stacklet of that step
  half         \* half[p]: the half that p has copied

chainVars == <<chain, count>>
gcVars == <<stackWork, gc, snapshots, toScan>>
procVars == <<on, step, at, half>>
stackletVars == <<chainVars, state, primary, replica, gcVars, procVars>>

Top(t) == chain[t][Len(chain[t])]
Running(p, t) == on[p] = t /\ step[p] = "run"
Elements(c) == {c[i] : i \in DOMAIN c}

StackInit ==
  /\ \E first \in [StackThreads -> Ids] :
       /\ \A t, u \in StackThreads : t # u => first[t] # first[u]
       /\ \A t \in StackThreads : first[t] <= Cardinality(StackThreads)
       /\ chain = [t \in StackThreads |-> <<first[t]>>]
       /\ count = [s \in Ids |-> IF \E t \in StackThreads : first[t] = s
                                   THEN 1 ELSE 0]
  /\ state = [s \in Ids |-> "Inconsistent"]
  /\ primary = [s \in Ids |-> 0] /\ replica = [s \in Ids |-> <<0, 0>>]
  /\ half = [p \in StackProcs |-> 0]
  /\ stackWork = {} /\ gc = "Off" /\ snapshots = 0 /\ toScan = {}
  /\ on = [p \in StackProcs |-> None] /\ step = [p \in StackProcs |-> "idle"]
  /\ at = [p \in StackProcs |-> None]

Do(p, what) == step' = [step EXCEPT ![p] = what]
Go(p, what, s) == Do(p, what) /\ at' = [at EXCEPT ![p] = s]

----------------------------------------------------------------------------
(* Stacklet_Copy, called while step[p] is "kill" (by KillReplica, before a *)
(* thread runs on the stacklet) or "scan" (by work_root_scan).             *)
Copier(p) == CASE step[p] = "kill" -> "killCopy" [] step[p] = "scan" -> "scanCopy"
               [] OTHER -> "none"

(* state goes from Pending to Copying by CompareAndSwap.                   *)
CopyStart(p) ==
  /\ step[p] \in {"kill", "scan"} /\ state[at[p]] = "Pending"
  /\ state' = [state EXCEPT ![at[p]] = "Copying"]
  /\ half' = [half EXCEPT ![p] = primary[at[p]]]
  /\ Do(p, Copier(p))
  /\ UNCHANGED <<chainVars, primary, replica, gcVars, on, at>>

(* The second half, state = InactiveCopied, and the return to the caller,  *)
(* who goes on to kill the replica or to scan it.                          *)
CopyEnd(p) ==
  /\ step[p] \in {"killCopy", "scanCopy"}
  /\ replica' = [replica EXCEPT ![at[p]] = <<half[p], primary[at[p]]>>]
  /\ state' = [state EXCEPT ![at[p]] = "InactiveCopied"]
  /\ IF step[p] = "killCopy" THEN Do(p, "kill") /\ UNCHANGED at
                             ELSE Go(p, "idle", None)
  /\ half' = [half EXCEPT ![p] = 0]
  /\ UNCHANGED <<chainVars, primary, gcVars, on>>

(* A KillReplica that does not wait for a copy that another has begun.     *)
KillReplica_NoWait(p) ==
  /\ step[p] = "kill" /\ state[at[p]] # "Pending"
  /\ state' = [state EXCEPT ![at[p]] = IF @ = "InactiveCopied" THEN "ActiveCopied"
                                       ELSE @]
  /\ Do(p, "run")
  /\ UNCHANGED <<chainVars, primary, replica, gcVars, on, at, half>>

(* Stacklet_KillReplica once the stacklet is neither Pending nor Copying:  *)
(* from now on the thread may change the primary.                          *)
KillReplica(p) ==
  /\ step[p] = "kill" /\ state[at[p]] \notin {"Pending", "Copying"}
  /\ state' = [state EXCEPT ![at[p]] = IF @ = "InactiveCopied" THEN "ActiveCopied"
                                       ELSE @]
  /\ Do(p, "run")
  /\ UNCHANGED <<chainVars, primary, replica, gcVars, on, at, half>>

----------------------------------------------------------------------------
(* mapThread: an idle processor takes a thread, whose top stacklet comes   *)
(* back to use.  While the stacks are scanned no thread is mapped.         *)
MapThread(p, t) ==
  /\ step[p] = "idle" /\ gc \in {"Off", "Pending", "On"}
  /\ \A q \in StackProcs : on[q] # t
  /\ on' = [on EXCEPT ![p] = t] /\ Go(p, "kill", Top(t))
  /\ UNCHANGED <<chainVars, state, primary, replica, gcVars, half>>

(* ReleaseJob: the processor leaves the thread at the top of its stack.    *)
ReleaseThread(p, t) ==
  /\ Running(p, t)
  /\ on' = [on EXCEPT ![p] = None] /\ Go(p, "idle", None)
  /\ UNCHANGED <<chainVars, state, primary, replica, gcVars, half>>

(* The thread changes what is in its top stacklet.                         *)
RunThread(p, t) ==
  /\ Running(p, t)
  /\ primary' = [primary EXCEPT ![Top(t)] = 1 - @]
  /\ UNCHANGED <<chainVars, state, replica, gcVars, procVars>>

(* Stacklet_Alloc takes the first that is free.                            *)
Free == {s \in Ids : count[s] = 0}
FirstFree == CHOOSE s \in Free : \A r \in Free : s <= r

(* NewStackletFromMutator: a stacklet the collector has not seen yet is    *)
(* handed to it, and the thread goes on in an empty one.                   *)
NewStacklet(p, t) ==
  LET new == FirstFree
      hand == gc # "Off" /\ state[Top(t)] = "Inconsistent"
  IN
  /\ Running(p, t) /\ Free # {}
  /\ count' = [count EXCEPT ![new] = 1]
  /\ chain' = [chain EXCEPT ![t] = Append(@, new)]
  /\ state' = [s \in Ids |-> IF s = new THEN "Inconsistent"
                             ELSE IF s = Top(t) /\ hand THEN "Pending"
                             ELSE state[s]]
  /\ stackWork' = IF hand THEN stackWork \cup {Top(t)} ELSE stackWork
  /\ at' = [at EXCEPT ![p] = new] /\ primary' = [primary EXCEPT ![new] = 0]
  /\ UNCHANGED <<replica, gc, snapshots, toScan, on, step, half>>

(* The chain keeps its n oldest stacklets, and the others are deallocated. *)
Unwind(t, n) ==
  LET dropped == {chain[t][i] : i \in (n + 1) .. Len(chain[t])} IN
  /\ chain' = [chain EXCEPT ![t] = SubSeq(@, 1, n)]
  /\ count' = [s \in Ids |-> IF s \in dropped THEN count[s] - 1 ELSE count[s]]

Leave(p, t, n) ==
  /\ Running(p, t)
  /\ Unwind(t, n) /\ Go(p, "kill", chain[t][n])
  /\ UNCHANGED <<state, primary, replica, gcVars, on, half>>

(* PopStackletFromMutator: the top stacklet returns.                       *)
PopStacklet(p, t) == Len(chain[t]) > 1 /\ Leave(p, t, Len(chain[t]) - 1)

(* RestoreStackFromMutator (EstablishStacklet): an exception goes to its   *)
(* handler, and may pass several stacklets.                                *)
RestoreStack(p, t) ==
  \E n \in 1 .. (Len(chain[t]) - 1) :
    (Raises \/ n = Len(chain[t]) - 1) /\ Leave(p, t, n)

----------------------------------------------------------------------------
AllIdle == \A p \in StackProcs : step[p] = "idle"

(* GCStatus leaves GCOff; threads run on until their processors stop.      *)
SignalOn ==
  /\ gc = "Off" /\ snapshots < MaxSnapshots
  /\ gc' = "Pending" /\ snapshots' = snapshots + 1
  /\ UNCHANGED <<chainVars, state, primary, replica, stackWork, toScan, procVars>>

(* The barriers of CollectorOn and CollectorOff, which all processors      *)
(* reach from GC when they run no thread.                                  *)
StopForScan ==
  /\ AllIdle /\ toScan' = StackThreads
  /\ \/ gc = "Pending" /\ gc' = "Scanning"
     \/ gc = "On" /\ stackWork = {} /\ gc' = "Completing"
  /\ UNCHANGED <<chainVars, state, primary, replica, stackWork, snapshots,
                 procVars>>

(* initial_root_scan: the stack of t is to be copied before it is resumed. *)
InitialRootScan(t) ==
  /\ gc = "Scanning" /\ t \in toScan
  /\ toScan' = toScan \ {t}
  /\ gc' = IF toScan = {t} THEN "On" ELSE gc
  /\ state' = [s \in Ids |-> IF s \in Elements(chain[t]) THEN "Pending" ELSE state[s]]
  /\ stackWork' = stackWork \cup Elements(chain[t])
  /\ UNCHANGED <<chainVars, primary, replica, snapshots, procVars>>

(* work_root_scan takes a stacklet and has it copied if it is not.         *)
TakeStacklet(p) ==
  /\ step[p] = "idle" /\ gc = "On"
  /\ \E s \in stackWork :
       /\ stackWork' = stackWork \ {s}
       /\ Go(p, "scan", s)
  /\ UNCHANGED <<chainVars, state, primary, replica, gc, snapshots, toScan, on,
                 half>>

(* A stacklet that somebody else has copied: the asserts at the end of     *)
(* Stacklet_Copy, and then the scan of the replica, which finds its roots. *)
ScanReplica(p) ==
  /\ step[p] = "scan" /\ state[at[p]] \notin {"Pending", "Copying"}
  /\ IF state[at[p]] = "Inconsistent" THEN Do(p, "die") /\ UNCHANGED at
                                      ELSE Go(p, "idle", None)
  /\ UNCHANGED <<chainVars, state, primary, replica, gcVars, on, half>>

(* A scan that trusts every replica made in this collection.               *)
CompleteRootScan_Active(t) ==
  LET again == {s \in Elements(chain[t]) :
                  state[s] \notin {"InactiveCopied", "ActiveCopied"}} IN
  /\ gc = "Completing" /\ t \in toScan
  /\ toScan' = toScan \ {t}
  /\ state' = [s \in Ids |-> IF s \in again THEN "InactiveCopied" ELSE state[s]]
  /\ replica' = [s \in Ids |-> IF s \in again THEN <<primary[s], primary[s]>>
                               ELSE replica[s]]
  /\ UNCHANGED <<chainVars, primary, stackWork, gc, snapshots, procVars>>

(* complete_root_scan: a replica is not up to date if its thread has run   *)
(* since it was made.                                                      *)
CompleteRootScan(t) ==
  LET again == {s \in Elements(chain[t]) : state[s] # "InactiveCopied"} IN
  /\ gc = "Completing" /\ t \in toScan
  /\ toScan' = toScan \ {t}
  /\ state' = [s \in Ids |-> IF s \in again THEN "InactiveCopied" ELSE state[s]]
  /\ replica' = [s \in Ids |-> IF s \in again THEN <<primary[s], primary[s]>>
                               ELSE replica[s]]
  /\ UNCHANGED <<chainVars, primary, stackWork, gc, snapshots, procVars>>

(* The end of CollectorOff exchanges primary and replica offsets.          *)
FlipStacklets ==
  /\ gc = "Completing" /\ toScan = {} /\ gc' = "Off"
  /\ primary' = [s \in Ids |-> replica[s][1]]
  /\ replica' = [s \in Ids |-> <<primary[s], primary[s]>>]
  /\ UNCHANGED <<chainVars, state, stackWork, snapshots, toScan, procVars>>

StackNext ==
  \/ \E p \in StackProcs :
       \/ CopyStart(p) \/ CopyEnd(p) \/ KillReplica(p)
       \/ TakeStacklet(p) \/ ScanReplica(p)
       \/ \E t \in StackThreads : \/ MapThread(p, t) \/ ReleaseThread(p, t)
                                  \/ RunThread(p, t) \/ NewStacklet(p, t)
                                  \/ PopStacklet(p, t) \/ RestoreStack(p, t)
  \/ SignalOn \/ StopForScan \/ FlipStacklets
  \/ \E t \in StackThreads : InitialRootScan(t) \/ CompleteRootScan(t)

----------------------------------------------------------------------------
(* Stacklet_Copy never reads a stacklet while a thread writes to it: both  *)
(* halves of a replica are from one moment, whoever made the copy.         *)
ReplicaWhole == \A s \in Ids : replica[s][1] = replica[s][2]

(* When the stacks change roles, the replica of each stacklet in use holds *)
(* what its thread left in it.                                             *)
ReplicaAtFlip ==
  gc = "Completing" /\ toScan = {} =>
    \A t \in StackThreads : \A s \in Elements(chain[t]) :
      replica[s] = <<primary[s], primary[s]>>

(* The assertion of Stacklet_Copy that a stacklet to be scanned has a      *)
(* snapshot, "stacklet->state != Inconsistent".                            *)
ScanFindsSnapshot == \A p \in StackProcs : step[p] # "die"
=============================================================================
