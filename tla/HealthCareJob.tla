---------------------------- MODULE HealthCareJob ----------------------------
(***************************************************************************)
(* The job of shared_ptr_pool/health_care_job.hpp.  Under the mutex it     *)
(* takes weak_ptrs to the unused resources.  Then, batch by batch and      *)
(* without the mutex, it locks the weak_ptrs, starts a health check of     *)
(* every resource it believes to own alone with the pool, and applies the  *)
(* results: the unhealthy ones are erased, and where resources are         *)
(* invalidated on access the healthy ones become valid again.              *)
(***************************************************************************)
EXTENDS SharedPtrPoolBase

CONSTANTS
  BatchSize,               \* batchSize
  CheckMayThrow,           \* launching a check, or its future, can throw
  TerminateOnHealthFailure \* terminateOnHealthCareJobFailure

ASSUME HealthAssumption ==
  /\ BatchSize \in Nat \ {0}
  /\ CheckMayThrow \in BOOLEAN
  /\ TerminateOnHealthFailure \in BOOLEAN

VARIABLES
  healthPc, \* where the job is
  batch,    \* batchPool: the weak_ptrs of this batch still to be locked
  checks    \* the locked items with the outcome of their check, until applied

healthVars == <<healthPc, batch, checks>>

Verdicts == {"none", "running", "healthy", "unhealthy", "error"}

HealthInit == healthPc = "idle" /\ batch = {} /\ checks = {}

-----------------------------------------------------------------------------

\* The snapshot: a weak_ptr and the validity of every unused item (an empty one
\* changes nothing).
HealthSnapshot ==
  /\ healthPc = "idle" /\ mutex = None
  /\ weak' = {pool[i] : i \in {k \in DOMAIN pool : ~isUsed(pool[k])}}
  /\ weak' # {}
  /\ healthPc' = "batch"
  /\ UNCHANGED <<poolVars, userVars, jobRefs, dirty, broken, status, batch, checks>>

\* The next batchSize items of the snapshot, or the fewer that are left.
HealthTakeBatch ==
  /\ healthPc = "batch"
  /\ \E B \in SUBSET weak :
       /\ \/ Cardinality(B) = BatchSize
          \/ B = weak /\ Cardinality(B) < BatchSize
       /\ batch' = B
  /\ healthPc' = "lock"
  /\ UNCHANGED <<baseVars, checks>>

\* Fault: the lock is expected to be the only owner.
LockedAlone(r) == Owners(r) = {}

\* weak_ptr::lock() gives a second owner: use_count() is 2.
LockSucceeds(r) == \E o \in Users \cup Jobs \cup {"pool"} : Owners(r) = {o}

\* One weak_ptr is locked, without the mutex.  If it fails, the shared_ptr it may
\* have got is dropped at once.
HealthLock(item) ==
  /\ healthPc = "lock"
  /\ item \in batch
  /\ batch' = batch \ {item}
  /\ weak' = weak \ {item}
  /\ IF LockSucceeds(item.res)
       THEN /\ jobRefs' = [jobRefs EXCEPT !["health"] = @ \cup {item.res}]
            /\ checks' = checks \cup
                 {[res |-> item.res, valid |-> item.valid, verdict |-> "none"]}
       ELSE UNCHANGED <<jobRefs, checks>>
  /\ UNCHANGED <<poolVars, userVars, dirty, broken, status, healthPc>>

\* healthCheck() is called for every locked resource.
HealthLaunch ==
  /\ healthPc = "lock" /\ batch = {}
  /\ checks' = {[c EXCEPT !.verdict = "running"] : c \in checks}
  /\ healthPc' = "check"
  /\ UNCHANGED <<baseVars, batch>>

\* A call of healthCheck() throws: the job's thread ends, and with it go its
\* futures, its locked resources and its snapshot.
HealthError ==
  /\ healthPc = "lock" /\ batch = {} /\ checks # {}
  /\ CheckMayThrow
  /\ healthPc' = "dead"
  /\ checks' = {}
  /\ jobRefs' = [jobRefs EXCEPT !["health"] = {}]
  /\ weak' = {}
  /\ status' = IF TerminateOnHealthFailure THEN "terminated" ELSE status
  /\ UNCHANGED <<poolVars, userVars, dirty, broken, batch>>

\* The asynchronous check of one resource ends.  The history: a resource nobody
\* has borrowed meanwhile is now checked.
HealthPing(c) ==
  /\ c \in checks /\ c.verdict = "running"
  /\ \E v \in Verdicts :
       /\ \/ v = IF c.res \in broken THEN "unhealthy" ELSE "healthy"
          \/ v = "error" /\ CheckMayThrow
       /\ checks' = (checks \ {c}) \cup {[c EXCEPT !.verdict = v]}
       /\ dirty' = IF v = "healthy" /\ ~\E u \in Users : Holds(u, c.res)
                     THEN dirty \ {c.res} ELSE dirty
  /\ UNCHANGED <<poolVars, userVars, jobRefs, weak, broken, status, healthPc,
                 batch>>

\* Fault: the test of the flag is inverted.
RevalidateValid(c) == Invalidate /\ c.valid

\* Fault: every healthy resource is made valid, also one that was valid when the
\* snapshot was taken.
RevalidateAll(c) == Invalidate

MustRevalidate(c) == Invalidate /\ ~c.valid

\* The resource is unhealthy: erase() locks the mutex and removes its item.
HealthErase(c) ==
  /\ c \in checks /\ c.verdict = "unhealthy"
  /\ mutex = None
  /\ EraseUnsafe(c.res)
  /\ checks' = checks \ {c}
  /\ UNCHANGED <<populationId, mutex, userVars, jobRefs, weak, dirty, broken,
                 healthPc, batch>>

\* It is healthy and was invalid: under the mutex its item becomes valid, if the
\* pool was not cleared meanwhile.
HealthRevalidate(c) ==
  /\ c \in checks /\ c.verdict = "healthy"
  /\ MustRevalidate(c)
  /\ mutex = None
  /\ pool' = [i \in DOMAIN pool |->
                IF pool[i].res = c.res THEN [pool[i] EXCEPT !.valid = TRUE]
                                       ELSE pool[i]]
  /\ checks' = checks \ {c}
  /\ UNCHANGED <<poolIndex, populationId, mutex, userVars, jobRefs, weak, dirty,
                 broken, status, healthPc, batch>>

\* It is healthy and nothing is to be done, or its check threw.
HealthLeave(c) ==
  /\ c \in checks
  /\ c.verdict = "error" \/ (c.verdict = "healthy" /\ ~MustRevalidate(c))
  /\ checks' = checks \ {c}
  /\ UNCHANGED <<baseVars, healthPc, batch>>

\* All results are applied: the batch's shared_ptrs are dropped.
HealthBatchEnd ==
  /\ healthPc = "check" /\ checks = {}
  /\ jobRefs' = [jobRefs EXCEPT !["health"] = {}]
  /\ healthPc' = IF weak = {} THEN "idle" ELSE "batch"
  /\ UNCHANGED <<poolVars, userVars, weak, dirty, broken, status, batch, checks>>

HealthNext ==
  \/ HealthSnapshot \/ HealthTakeBatch
  \/ \E item \in batch : HealthLock(item)
  \/ HealthLaunch \/ HealthError
  \/ \E c \in checks :
       HealthPing(c) \/ HealthErase(c) \/ HealthRevalidate(c) \/ HealthLeave(c)
  \/ HealthBatchEnd

HealthTypeOK ==
  /\ healthPc \in {"idle", "batch", "lock", "check", "dead"}
  /\ batch \subseteq Items
  /\ checks \subseteq [res : Resources, valid : BOOLEAN, verdict : Verdicts]
=============================================================================
