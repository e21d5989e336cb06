--------------------------- MODULE PoolLifecycle ---------------------------
(***************************************************************************)
(* The life of SharedPtrPool objects and of the threads of their jobs:     *)
(* construction, start, stop, move and destruction.                        *)
(*                                                                         *)
(* A pool consists of parts that are moved and destroyed one after the     *)
(* other: the base (base.hpp), the resource count keeper, the health care  *)
(* job and the DNS management.  A call of the user is the sequence of      *)
(* steps that it still has to make; the threads of the jobs go on between  *)
(* them.  Pools are named by their memory.                                 *)
(***************************************************************************)
EXTENDS Naturals, Sequences, FiniteSets

CONSTANTS
  Objects,  \* memory for pools
  MaxJobs,  \* bound: jobs running at a time
  MaxChosen \* bound: settings that differ from the default at a time

ASSUME LifecycleAssumption == MaxJobs \in Nat /\ MaxChosen \in Nat

Jobs == {"keeper", "health", "dns"}

\* minSpare and the sleep times; batchSize; populationId.
Settings == {"spare", "batch", "population"}

VARIABLES
  base,      \* of each object, its base part: "none", "here", or "gone" when moved
  enabled,   \* of each job of each object
  thread,    \* jobThread: "none" when it is not joinable, "running" or "ended"
  settings,  \* of each object, the settings that differ from the default
  todo,      \* the steps of the present call
  terminated,\* std::terminate was called
  wanted,    \* history: the jobs that the user has started and not stopped
  chosen,    \* history: the settings that the user has set
  arrived    \* history: the objects constructed from another one

lifeVars ==
  <<base, enabled, thread, settings, todo, terminated, wanted, chosen, arrived>>

\* A step of a call: what is done, to which object and job, and from which object.
Steps ==
  [op : {"stop", "join", "launch", "relaunch", "take"}, o : Objects, j : Jobs, from : Objects]
    \cup [op : {"move", "free"}, o : Objects, from : Objects]

LifecycleTypeOK ==
  /\ base \in [Objects -> {"none", "here", "gone"}]
  /\ enabled \in [Objects -> [Jobs -> BOOLEAN]]
  /\ thread \in [Objects -> [Jobs -> {"none", "running", "ended"}]]
  /\ settings \in [Objects -> SUBSET Settings]
  /\ terminated \in BOOLEAN
  /\ wanted \in [Objects -> SUBSET Jobs]
  /\ chosen \in [Objects -> SUBSET Settings]
  /\ arrived \subseteq Objects

LifecycleInit ==
  /\ base = [o \in Objects |-> "none"]
  /\ enabled = [o \in Objects |-> [j \in Jobs |-> FALSE]]
  /\ thread = [o \in Objects |-> [j \in Jobs |-> "none"]]
  /\ settings = [o \in Objects |-> {}]
  /\ todo = <<>>
  /\ terminated = FALSE
  /\ wanted = [o \in Objects |-> {}]
  /\ chosen = [o \in Objects |-> {}]
  /\ arrived = {}

\* isResourceCountKeeperThreadRunning() and its like: joinable, ended or not.
isThreadRunning(o, j) == thread[o][j] # "none"

Idle == todo = <<>> /\ ~terminated

-----------------------------------------------------------------------------
(* Calls, as the steps they make.                                           *)

Stop(o, j) == <<[op |-> "stop", o |-> o, j |-> j, from |-> o],
                [op |-> "join", o |-> o, j |-> j, from |-> o]>>

\* Fault: a thread that may be running is not stopped first.
StartAtOnce(o, j) == <<[op |-> "launch", o |-> o, j |-> j, from |-> o]>>

Start(o, j) == Stop(o, j) \o <<[op |-> "launch", o |-> o, j |-> j, from |-> o]>>

Take(o, from, j) == <<[op |-> "take", o |-> o, j |-> j, from |-> from]>>
Relaunch(o, j) == <<[op |-> "relaunch", o |-> o, j |-> j, from |-> o]>>

\* The move constructors of the keeper and of the health care job read `enabled',
\* stop the other's thread and start their own.
MoveJob(o, from, j) == Take(o, from, j) \o Stop(from, j) \o Relaunch(o, j)

\* That of the DNS management stops the other's thread first.
MoveDns(o, from) == Stop(from, "dns") \o Take(o, from, "dns") \o Relaunch(o, "dns")

\* Fault: the health care job is left to the other object.
MoveWithoutHealth(o, from) ==
  <<[op |-> "move", o |-> o, from |-> from]>>
    \o MoveJob(o, from, "keeper") \o MoveDns(o, from)

\* SharedPtrPool(SharedPtrPool&&): the base first, whatever the other's jobs do.
Move(o, from) ==
  <<[op |-> "move", o |-> o, from |-> from]>>
    \o MoveJob(o, from, "keeper") \o MoveJob(o, from, "health") \o MoveDns(o, from)

\* Fault: the keeper's thread is not joined.
DestroyRunning(o) ==
  Stop(o, "dns") \o Stop(o, "health") \o <<[op |-> "free", o |-> o, from |-> o]>>

\* ~SharedPtrPool(): the parts in the reverse order.
Destroy(o) ==
  Stop(o, "dns") \o Stop(o, "health") \o Stop(o, "keeper")
    \o <<[op |-> "free", o |-> o, from |-> o]>>

-----------------------------------------------------------------------------
(* The steps.                                                               *)

Now == Head(todo)
Takes(op) == todo # <<>> /\ ~terminated /\ Now.op = op /\ todo' = Tail(todo)

StepStop ==
  /\ Takes("stop")
  /\ enabled' = [enabled EXCEPT ![Now.o][Now.j] = FALSE]
  /\ UNCHANGED <<base, thread, settings, terminated, wanted, chosen, arrived>>

\* join() waits for the end of the thread, and is not called if there is none.
StepJoin ==
  /\ Takes("join")
  /\ thread[Now.o][Now.j] # "running"
  /\ thread' = [thread EXCEPT ![Now.o][Now.j] = "none"]
  /\ UNCHANGED <<base, enabled, settings, terminated, wanted, chosen, arrived>>

\* A std::thread is assigned: std::terminate if the one before is joinable.
Launch(o, j) ==
  /\ terminated' = isThreadRunning(o, j)
  /\ enabled' = [enabled EXCEPT ![o][j] = TRUE]
  /\ thread' = [thread EXCEPT ![o][j] = "running"]

StepLaunch ==
  /\ Takes("launch")
  /\ Launch(Now.o, Now.j)
  /\ UNCHANGED <<base, settings, wanted, chosen, arrived>>

\* "if (enabled) start...()" of a new object, which has no thread.
StepRelaunch ==
  /\ Takes("relaunch")
  /\ IF enabled[Now.o][Now.j] THEN Launch(Now.o, Now.j)
     ELSE UNCHANGED <<enabled, thread, terminated>>
  /\ UNCHANGED <<base, settings, wanted, chosen, arrived>>

StepTake ==
  /\ Takes("take")
  /\ enabled' = [enabled EXCEPT ![Now.o][Now.j] = enabled[Now.from][Now.j]]
  /\ UNCHANGED <<base, thread, settings, terminated, wanted, chosen, arrived>>

\* Fault: the new object starts from the defaults.
StepMoveForgets ==
  /\ Takes("move")
  /\ base' = [base EXCEPT ![Now.o] = "here", ![Now.from] = "gone"]
  /\ enabled' = [enabled EXCEPT ![Now.o] = [j \in Jobs |-> FALSE]]
  /\ settings' = [settings EXCEPT ![Now.o] = {}, ![Now.from] = {}]
  /\ wanted' = [wanted EXCEPT ![Now.o] = wanted[Now.from], ![Now.from] = {}]
  /\ chosen' = [chosen EXCEPT ![Now.o] = chosen[Now.from], ![Now.from] = {}]
  /\ arrived' = arrived \cup {Now.o}
  /\ UNCHANGED <<thread, terminated>>

\* The new object has the other's resources, and what the user did to it.  Of the
\* settings only those of the keeper and the sleep times are taken over.  (The other
\* object keeps its own, which nothing reads any more.)
StepMove ==
  /\ Takes("move")
  /\ base' = [base EXCEPT ![Now.o] = "here", ![Now.from] = "gone"]
  /\ enabled' = [enabled EXCEPT ![Now.o] = [j \in Jobs |-> FALSE]]
  /\ settings' = [settings EXCEPT ![Now.o] = settings[Now.from] \cap {"spare"},
                                   ![Now.from] = {}]
  /\ wanted' = [wanted EXCEPT ![Now.o] = wanted[Now.from], ![Now.from] = {}]
  /\ chosen' = [chosen EXCEPT ![Now.o] = chosen[Now.from], ![Now.from] = {}]
  /\ arrived' = arrived \cup {Now.o}
  /\ UNCHANGED <<thread, terminated>>

\* The base is destroyed, after the jobs' parts.
StepFree ==
  /\ Takes("free")
  /\ base' = [base EXCEPT ![Now.o] = "none"]
  /\ terminated' = \E j \in Jobs : isThreadRunning(Now.o, j)
  /\ settings' = [settings EXCEPT ![Now.o] = {}]
  /\ wanted' = [wanted EXCEPT ![Now.o] = {}]
  /\ chosen' = [chosen EXCEPT ![Now.o] = {}]
  /\ arrived' = arrived \ {Now.o}
  /\ UNCHANGED <<enabled, thread>>

CallStep ==
  StepStop \/ StepJoin \/ StepLaunch \/ StepRelaunch \/ StepTake \/ StepMove \/ StepFree

\* A job's loop, and its sleep, look at `enabled'.
JobEnds(o, j) ==
  /\ thread[o][j] = "running" /\ ~enabled[o][j] /\ ~terminated
  /\ thread' = [thread EXCEPT ![o][j] = "ended"]
  /\ UNCHANGED <<base, enabled, settings, todo, terminated, wanted, chosen, arrived>>

\* An exception ends the keeper or the health care job for good, without
\* terminateOnFailure; the DNS management catches those of its resolver.
JobFails(o, j) ==
  /\ thread[o][j] = "running" /\ j # "dns" /\ ~terminated
  /\ thread' = [thread EXCEPT ![o][j] = "ended"]
  /\ UNCHANGED <<base, enabled, settings, todo, terminated, wanted, chosen, arrived>>

-----------------------------------------------------------------------------
(* What the user does with pools of his own.                                *)

Running == {r \in Objects \X Jobs : isThreadRunning(r[1], r[2])}

Construct(o) ==
  /\ Idle /\ base[o] = "none"
  /\ base' = [base EXCEPT ![o] = "here"]
  /\ UNCHANGED <<enabled, thread, settings, todo, terminated, wanted, chosen, arrived>>

CallStart(o, j) ==
  /\ Idle /\ base[o] = "here" /\ (isThreadRunning(o, j) \/ Cardinality(Running) < MaxJobs)
  /\ todo' = Start(o, j)
  /\ wanted' = [wanted EXCEPT ![o] = @ \cup {j}]
  /\ UNCHANGED <<base, enabled, thread, settings, terminated, chosen, arrived>>

CallStop(o, j) ==
  /\ Idle /\ base[o] = "here" /\ isThreadRunning(o, j)
  /\ todo' = Stop(o, j)
  /\ wanted' = [wanted EXCEPT ![o] = @ \ {j}]
  /\ UNCHANGED <<base, enabled, thread, settings, terminated, chosen, arrived>>

\* setMinSpare(), setHealthCareJobBatchSize(), setPopulationId() and the like.
Choose(o, s) ==
  /\ Idle /\ base[o] = "here" /\ s \notin chosen[o]
  /\ Cardinality({c \in Objects \X Settings : c[2] \in chosen[c[1]]}) < MaxChosen
  /\ settings' = [settings EXCEPT ![o] = @ \cup {s}]
  /\ chosen' = [chosen EXCEPT ![o] = @ \cup {s}]
  /\ UNCHANGED <<base, enabled, thread, todo, terminated, wanted, arrived>>

CallMove(o, from) ==
  /\ Idle /\ base[o] = "none" /\ base[from] = "here"
  /\ todo' = Move(o, from)
  /\ UNCHANGED <<base, enabled, thread, settings, terminated, wanted, chosen, arrived>>

CallDestroy(o) ==
  /\ Idle /\ base[o] # "none"
  /\ todo' = Destroy(o)
  /\ UNCHANGED <<base, enabled, thread, settings, terminated, wanted, chosen, arrived>>

-----------------------------------------------------------------------------

\* No std::thread is assigned to or destroyed while it is joinable, in whatever
\* order pools are started, moved and destroyed: "otherwise ~thread/operator=
\* shall call std::terminate!" (resource_count_keeper.hpp).
NeverTerminates == ~terminated

\* The thread of a job never outlives the base whose pool and mutex it uses.
JobsHaveABase ==
  \A o \in Objects : (\E j \in Jobs : thread[o][j] = "running") => base[o] # "none"

\* When no call is on its way, the threads are those the user has asked for, on
\* the object that his pool was moved to and on no object it was moved from.  The
\* one exception is the DNS management of a pool that was moved: it is off.
JobsAsAsked ==
  Idle => \A o \in Objects, j \in Jobs :
            /\ isThreadRunning(o, j) = enabled[o][j]
            /\ isThreadRunning(o, j) => j \in wanted[o]
            /\ j \in wanted[o] => isThreadRunning(o, j) \/ (j = "dns" /\ o \in arrived)

\* A setting lasts as long as the pool, moved or not, but for the batch size and
\* the population id, which a move forgets.
SettingsSurvive ==
  \A o \in Objects :
    /\ settings[o] \subseteq chosen[o]
    /\ chosen[o] \ settings[o] \subseteq (IF o \in arrived THEN {"batch", "population"} ELSE {})

\* A call waits only for a thread that has been told to end, so it returns as soon
\* as that thread looks at its flag.
JoinsEnd ==
  todo # <<>> /\ Now.op = "join" /\ thread[Now.o][Now.j] = "running"
    => ~enabled[Now.o][Now.j]
=============================================================================
