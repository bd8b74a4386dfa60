----------------------------- MODULE StoreCrash -----------------------------
(***************************************************************************)
(* The task table when the control plane itself dies.  Outside claimNext   *)
(* and purge, task-store.ts opens no transaction: the row and its audit    *)
(* entry are two statements, and a scan is a loop over rows.  SQLite keeps *)
(* what was executed, so a crash may leave a row without its entry and a   *)
(* scan half done.                                                         *)
(*                                                                         *)
(* lastEvent is here what the table holds, not what it should hold.        *)
(***************************************************************************)
EXTENDS TaskStore

CONSTANT MaxOutages   \* bound: outages of the control plane

ASSUME CrashAssumption == MaxOutages \in Nat

VARIABLES
  alive,   \* is the process running?
  outages  \* how many outages there were (history)

crashVars == <<storeVars, alive, outages>>

CrashTypeOK == TypeOK /\ alive \in BOOLEAN /\ outages \in 0 .. MaxOutages

CrashInit == StoreInit /\ alive = TRUE /\ outages = 0

-----------------------------------------------------------------------------
(***************************************************************************)
(* What the last call before a crash leaves behind.                        *)
(***************************************************************************)
NotLogged == UNCHANGED lastEvent

\* Fault: the method is no transaction, and the lease a statement of its own.
ClaimCutWithoutLease(w, labels, t) ==
  /\ Claimable(t, labels)
  /\ status' = [status EXCEPT ![t] = "claimed"]
  /\ workerId' = [workerId EXCEPT ![t] = w]
  /\ NotLogged
  /\ UNCHANGED <<lease, agent, identity>>

\* A transaction: nothing.
ClaimCut(w, labels, t) == Claimable(t, labels) /\ UNCHANGED storeVars

\* Fault: first all rows, then all entries.
ScanCutUnlogged(rows) == \E done \in SUBSET rows : StallLogging(done, {})

\* The rows done, and one whose entry is missing.
ScanCut(rows) ==
  \E done \in SUBSET rows :
    \/ StallLogging(done, done)
    \/ \E t \in rows \ done : StallLogging(done \union {t}, done)

Interrupted ==
  \/ \E t \in Task, c \in Channel, l \in Label, a \in Agent \union {None} :
       insertRow(t, c, l, a) /\ NotLogged
  \/ \E w \in Worker, labels \in (SUBSET Label) \ {{}}, t \in Task : ClaimCut(w, labels, t)
  \/ \E t \in Task, report \in Report : reportRow(t, report) /\ NotLogged
  \/ \E t \in Task, a \in Agent : agentRow(t, a) /\ NotLogged
  \/ \E t \in Task, action \in {"retry", "abandon"} : resolveRow(t, action) /\ NotLogged
  \/ \E w \in Worker : ScanCut(HeldBy(w))
  \/ ScanCut({ t \in Task : status[t] \in InFlight /\ Expired(t) })
  \/ \E w \in Worker, ids \in SUBSET Task : extendWaitingLeases(w, ids)
  \/ UNCHANGED storeVars

GoDown ==
  /\ alive /\ outages < MaxOutages
  /\ Interrupted
  /\ alive' = FALSE /\ outages' = outages + 1

-----------------------------------------------------------------------------
\* Fault: whatever was in flight goes back to the pool.
ComeUpRetrying ==
  LET lost == { t \in Task : status[t] \in InFlight }
      Reset(f, v) == [t \in Task |-> IF t \in lost THEN v ELSE f[t]]
  IN  /\ ~alive /\ alive' = TRUE
      /\ status' = Reset(status, "pending") /\ lastEvent' = Reset(lastEvent, "retried")
      /\ workerId' = Reset(workerId, None) /\ lease' = Reset(lease, None)
      /\ UNCHANGED <<agent, identity, outages>>

\* The tasks are taken as they stand in the file.
ComeUp == ~alive /\ alive' = TRUE /\ UNCHANGED <<storeVars, outages>>

\* Time passes for the leases, with or without a process to look at them.
CrashNext ==
  \/ alive /\ StoreNext /\ UNCHANGED <<alive, outages>>
  \/ ~alive /\ Tick /\ UNCHANGED <<alive, outages>>
  \/ GoDown
  \/ ComeUp

CrashSpec == CrashInit /\ [][CrashNext]_crashVars

\* The process is brought up again and sweeps; time passes.
FairCrashSpec ==
  /\ CrashSpec
  /\ WF_crashVars(ComeUp)
  /\ WF_crashVars(Tick /\ UNCHANGED <<alive, outages>>)
  /\ WF_crashVars(alive /\ sweepExpiredLeases /\ UNCHANGED <<alive, outages>>)

-----------------------------------------------------------------------------
(***************************************************************************)
(* Properties, besides those of TaskStore that are to survive outages:     *)
(* HeldAndLeased, ImplementsLifecycle and NeverHeldInSilence.              *)
(***************************************************************************)
Unexplained == { t \in Row : status[t] # Explains(lastEvent[t]) }

(***************************************************************************)
(* A crash costs the trail one entry at most, even in the middle of a scan *)
(* over many rows, and the next entry of that task closes the gap: there   *)
(* are never more tasks whose newest entry does not explain their status   *)
(* than there were outages.                                                *)
(***************************************************************************)
GapsAreBounded == Cardinality(Unexplained) <= outages

=============================================================================
