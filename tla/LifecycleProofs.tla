--------------------------- MODULE LifecycleProofs ---------------------------
(***************************************************************************)
(* Proofs about the life of pools and of the threads of their jobs, for    *)
(* any memory, any ids and any group of slaves.                            *)
(***************************************************************************)
EXTENDS MasterSlavePools, SequenceTheorems, FiniteSetTheorems, InductionOverSets

AnyStep == Steps \cup Insertions

JobStep(op, o, j, from) == [op |-> op, o |-> o, j |-> j, from |-> from]
PoolStep(op, o, from) == [op |-> op, o |-> o, from |-> from]

Then(step, rest) == <<step>> \o rest

-----------------------------------------------------------------------------
(* Calls as steps and what follows them.                                    *)

JoinThen(o, j, rest) == Then(JobStep("join", o, j, o), rest)
StopThen(o, j, rest) == Then(JobStep("stop", o, j, o), JoinThen(o, j, rest))
RelaunchThen(o, j, rest) == Then(JobStep("relaunch", o, j, o), rest)
TakeThen(o, from, j, rest) == Then(JobStep("take", o, j, from), rest)
LaunchLast(o, j) == <<JobStep("launch", o, j, o)>>
FreeThen(o, rest) == Then(PoolStep("free", o, o), rest)
InsertThen(id, o, rest) == Then([op |-> "insert", id |-> id, o |-> o], rest)

\* What is destroyed after the part of the job j.
AfterPart(o, j, rest) ==
  CASE j = "keeper" -> FreeThen(o, rest)
    [] j = "health" -> StopThen(o, "keeper", FreeThen(o, rest))
    [] j = "dns" -> StopThen(o, "health", StopThen(o, "keeper", FreeThen(o, rest)))

DestroyThen(o, rest) == StopThen(o, "dns", AfterPart(o, "dns", rest))

\* What is moved, from the part of a job on.
MoveDnsThen(o, from, rest) ==
  StopThen(from, "dns", TakeThen(o, from, "dns", RelaunchThen(o, "dns", rest)))

MoveJobThen(o, from, j, rest) ==
  TakeThen(o, from, j, StopThen(from, j, RelaunchThen(o, j, rest)))

AfterMoved(o, from, j, rest) ==
  CASE j = "keeper" -> MoveJobThen(o, from, "health", MoveDnsThen(o, from, rest))
    [] j = "health" -> MoveDnsThen(o, from, rest)
    [] j = "dns" -> rest

MoveThen(o, from, rest) ==
  Then(PoolStep("move", o, from),
       MoveJobThen(o, from, "keeper", AfterMoved(o, from, "keeper", rest)))

\* A sequence that begins with a step.
LEMMA Begins ==
  ASSUME NEW step \in AnyStep, NEW rest \in Seq(AnyStep)
  PROVE  /\ Then(step, rest) \in Seq(AnyStep)
         /\ Then(step, rest) # <<>>
         /\ Head(Then(step, rest)) = step /\ Tail(Then(step, rest)) = rest
  BY DEF Then

LEMMA StepForms ==
  ASSUME NEW o \in Objects, NEW from \in Objects
  PROVE  /\ \A op \in {"stop", "join", "launch", "relaunch", "take"}, j \in Jobs :
              JobStep(op, o, j, from) \in AnyStep
         /\ \A op \in {"move", "free"} : PoolStep(op, o, from) \in AnyStep
         /\ \A id \in SlaveIds : [op |-> "insert", id |-> id, o |-> o] \in AnyStep
  BY DEF AnyStep, Steps, Insertions, JobStep, PoolStep

LEMMA StopIsSteps ==
  ASSUME NEW o \in Objects, NEW j \in Jobs, NEW rest \in Seq(AnyStep)
  PROVE  /\ JoinThen(o, j, rest) \in Seq(AnyStep)
         /\ StopThen(o, j, rest) \in Seq(AnyStep)
         /\ RelaunchThen(o, j, rest) \in Seq(AnyStep)
         /\ FreeThen(o, rest) \in Seq(AnyStep)
         /\ \A from \in Objects : TakeThen(o, from, j, rest) \in Seq(AnyStep)
         /\ \A id \in SlaveIds : InsertThen(id, o, rest) \in Seq(AnyStep)
  <1>1. JoinThen(o, j, rest) \in Seq(AnyStep)
    BY Begins, StepForms DEF JoinThen
  <1>2. StopThen(o, j, rest) \in Seq(AnyStep)
    BY <1>1, Begins, StepForms DEF StopThen
  <1>3. /\ RelaunchThen(o, j, rest) \in Seq(AnyStep) /\ FreeThen(o, rest) \in Seq(AnyStep)
        /\ \A from \in Objects : TakeThen(o, from, j, rest) \in Seq(AnyStep)
    BY Begins, StepForms DEF RelaunchThen, FreeThen, TakeThen
  <1>4. \A id \in SlaveIds : InsertThen(id, o, rest) \in Seq(AnyStep)
    BY Begins, StepForms DEF InsertThen
  <1> QED BY <1>1, <1>2, <1>3, <1>4

LEMMA MoveIsSteps ==
  ASSUME NEW o \in Objects, NEW from \in Objects, NEW j \in Jobs, NEW rest \in Seq(AnyStep)
  PROVE  /\ AfterPart(o, j, rest) \in Seq(AnyStep) /\ DestroyThen(o, rest) \in Seq(AnyStep)
         /\ MoveDnsThen(o, from, rest) \in Seq(AnyStep)
         /\ MoveJobThen(o, from, j, rest) \in Seq(AnyStep)
         /\ AfterMoved(o, from, j, rest) \in Seq(AnyStep)
         /\ MoveThen(o, from, rest) \in Seq(AnyStep)
  <1>0. {"keeper", "health", "dns"} = Jobs
    BY DEF Jobs
  <1>1. \A i \in Jobs : AfterPart(o, i, rest) \in Seq(AnyStep)
    BY <1>0, StopIsSteps DEF AfterPart
  <1>2. DestroyThen(o, rest) \in Seq(AnyStep)
    BY <1>0, <1>1, StopIsSteps DEF DestroyThen
  <1>3. MoveDnsThen(o, from, rest) \in Seq(AnyStep)
    BY <1>0, StopIsSteps DEF MoveDnsThen
  <1>4. \A i \in Jobs, r \in Seq(AnyStep) : MoveJobThen(o, from, i, r) \in Seq(AnyStep)
    BY StopIsSteps DEF MoveJobThen
  <1>5. \A i \in Jobs : AfterMoved(o, from, i, rest) \in Seq(AnyStep)
    BY <1>0, <1>3, <1>4 DEF AfterMoved
  <1>6. MoveThen(o, from, rest) \in Seq(AnyStep)
    BY <1>0, <1>4, <1>5, Begins, StepForms DEF MoveThen
  <1> QED BY <1>1, <1>2, <1>3, <1>4, <1>5, <1>6

\* The calls of the model, in this form.
LEMMA StopForm ==
  ASSUME NEW o \in Objects, NEW j \in Jobs, NEW rest \in Seq(AnyStep)
  PROVE  /\ Stop(o, j) \in Seq(AnyStep)
         /\ Stop(o, j) \o rest = StopThen(o, j, rest)
  <1>1. PICK stop \in AnyStep : stop = JobStep("stop", o, j, o)
    BY StepForms
  <1>2. PICK join \in AnyStep : join = JobStep("join", o, j, o)
    BY StepForms
  <1>3. Stop(o, j) = <<stop, join>>
    BY <1>1, <1>2 DEF Stop, JobStep
  <1>4. <<stop, join>> = <<stop>> \o <<join>>
    OBVIOUS
  <1>5. Stop(o, j) \o rest = <<stop>> \o (<<join>> \o rest)
    BY <1>3, <1>4, ConcatAssociative
  <1> QED BY <1>1, <1>2, <1>3, <1>5 DEF StopThen, JoinThen, Then

LEMMA StartForm ==
  ASSUME NEW o \in Objects, NEW j \in Jobs
  PROVE  Start(o, j) = StopThen(o, j, LaunchLast(o, j))
  <1>1. LaunchLast(o, j) \in Seq(AnyStep)
    BY StepForms DEF LaunchLast
  <1> QED BY <1>1, StopForm DEF Start, LaunchLast, JobStep

\* Concatenation, under a name that the provers do not look into.
Cat(s, t) == s \o t

LEMMA CatAssociative ==
  ASSUME NEW T
  PROVE  /\ \A s, t \in Seq(T) : Cat(s, t) \in Seq(T)
         /\ \A s, t, u \in Seq(T) : Cat(Cat(s, t), u) = Cat(s, Cat(t, u))
  <1>1. ASSUME NEW s \in Seq(T), NEW t \in Seq(T) PROVE Cat(s, t) \in Seq(T)
    BY ConcatProperties DEF Cat
  <1>2. ASSUME NEW s \in Seq(T), NEW t \in Seq(T), NEW u \in Seq(T)
        PROVE  Cat(Cat(s, t), u) = Cat(s, Cat(t, u))
    BY ConcatAssociative DEF Cat
  <1> QED BY <1>1, <1>2

LEMMA Regroup ==
  ASSUME NEW T, NEW a \in Seq(T), NEW b \in Seq(T), NEW c \in Seq(T), NEW d \in Seq(T),
         NEW e \in Seq(T)
  PROVE  Cat(Cat(Cat(Cat(a, b), c), d), e) = Cat(a, Cat(b, Cat(c, Cat(d, e))))
  <1>1. Cat(Cat(Cat(a, b), c), d) = Cat(Cat(a, b), Cat(c, d))
    BY CatAssociative
  <1>2. Cat(Cat(Cat(a, b), Cat(c, d)), e) = Cat(Cat(a, b), Cat(Cat(c, d), e))
    BY CatAssociative
  <1>3. Cat(Cat(a, b), Cat(Cat(c, d), e)) = Cat(a, Cat(b, Cat(c, Cat(d, e))))
    BY CatAssociative
  <1> QED BY <1>1, <1>2, <1>3

LEMMA DestroyForm ==
  ASSUME NEW o \in Objects, NEW rest \in Seq(AnyStep)
  PROVE  Destroy(o) \in Seq(AnyStep) /\ Destroy(o) \o rest = DestroyThen(o, rest)
  <1>1. \A j \in Jobs, r \in Seq(AnyStep) :
          Stop(o, j) \in Seq(AnyStep) /\ Cat(Stop(o, j), r) = StopThen(o, j, r)
    BY StopForm DEF Cat
  <1>2. PICK free \in Seq(AnyStep) : free = <<PoolStep("free", o, o)>>
    <2>1. PICK step \in AnyStep : step = PoolStep("free", o, o)
      BY StepForms
    <2>2. <<step>> \in Seq(AnyStep)
      OBVIOUS
    <2> QED BY <2>1, <2>2, Zenon
  <1>3. Destroy(o) = Cat(Cat(Cat(Stop(o, "dns"), Stop(o, "health")), Stop(o, "keeper")), free)
    BY <1>2 DEF Destroy, PoolStep, Cat
  <1>4. {"keeper", "health", "dns"} \subseteq Jobs
    BY DEF Jobs
  <1>s. /\ Stop(o, "dns") \in Seq(AnyStep) /\ Stop(o, "health") \in Seq(AnyStep)
        /\ Stop(o, "keeper") \in Seq(AnyStep)
    BY <1>1, <1>4
  <1>5. Cat(Destroy(o), rest)
          = Cat(Stop(o, "dns"), Cat(Stop(o, "health"), Cat(Stop(o, "keeper"), Cat(free, rest))))
    BY <1>3, <1>s, Regroup
  <1>6. Cat(free, rest) = FreeThen(o, rest)
    BY <1>2 DEF FreeThen, Then, Cat
  <1>7. /\ FreeThen(o, rest) \in Seq(AnyStep)
        /\ StopThen(o, "keeper", FreeThen(o, rest)) \in Seq(AnyStep)
        /\ StopThen(o, "health", StopThen(o, "keeper", FreeThen(o, rest))) \in Seq(AnyStep)
    BY <1>4, StopIsSteps
  <1>8. Cat(Destroy(o), rest) = DestroyThen(o, rest)
    BY <1>1, <1>4, <1>5, <1>6, <1>7 DEF DestroyThen, AfterPart
  <1>9. Destroy(o) \in Seq(AnyStep)
    BY <1>3, <1>s, CatAssociative
  <1> QED BY <1>8, <1>9 DEF Cat

\* A sequence of one step.
LEMMA Alone ==
  ASSUME NEW step \in AnyStep
  PROVE  /\ <<step>> \in Seq(AnyStep) /\ <<step>> = Then(step, <<>>)
         /\ \A rest \in Seq(AnyStep) : Cat(<<step>>, rest) = Then(step, rest)
  <1>1. <<step>> \in Seq(AnyStep)
    OBVIOUS
  <1>2. <<step>> \o <<>> = <<step>>
    BY <1>1, ConcatEmptySeq
  <1> QED BY <1>1, <1>2 DEF Then, Cat

LEMMA MoveJobForm ==
  ASSUME NEW o \in Objects, NEW from \in Objects, NEW j \in Jobs, NEW rest \in Seq(AnyStep)
  PROVE  /\ MoveJob(o, from, j) \in Seq(AnyStep)
         /\ Cat(MoveJob(o, from, j), rest) = MoveJobThen(o, from, j, rest)
         /\ MoveDns(o, from) \in Seq(AnyStep)
         /\ Cat(MoveDns(o, from), rest) = MoveDnsThen(o, from, rest)
  <1>1. \A i \in Jobs, r \in Seq(AnyStep) :
          Stop(from, i) \in Seq(AnyStep) /\ Cat(Stop(from, i), r) = StopThen(from, i, r)
    BY StopForm DEF Cat
  <1>2. \A i \in Jobs : /\ Take(o, from, i) = <<JobStep("take", o, i, from)>>
                        /\ Relaunch(o, i) = <<JobStep("relaunch", o, i, o)>>
    BY DEF Take, Relaunch, JobStep
  <1>3. \A i \in Jobs : /\ JobStep("take", o, i, from) \in AnyStep
                        /\ JobStep("relaunch", o, i, o) \in AnyStep
    BY StepForms
  <1>4. \A i \in Jobs, r \in Seq(AnyStep) :
          /\ Take(o, from, i) \in Seq(AnyStep)
          /\ Cat(Take(o, from, i), r) = TakeThen(o, from, i, r)
          /\ Relaunch(o, i) \in Seq(AnyStep)
          /\ Cat(Relaunch(o, i), r) = RelaunchThen(o, i, r)
    BY <1>2, <1>3, Alone DEF TakeThen, RelaunchThen
  <1>5. \A i \in Jobs, r \in Seq(AnyStep) :
          /\ RelaunchThen(o, i, r) \in Seq(AnyStep) /\ TakeThen(o, from, i, r) \in Seq(AnyStep)
          /\ StopThen(from, i, r) \in Seq(AnyStep)
    BY StopIsSteps
  <1>6. \A s, t, u, r \in Seq(AnyStep) :
          /\ Cat(Cat(s, t), u) \in Seq(AnyStep)
          /\ Cat(Cat(Cat(s, t), u), r) = Cat(s, Cat(t, Cat(u, r)))
    BY CatAssociative
  <1>7. /\ MoveJob(o, from, j) \in Seq(AnyStep)
        /\ Cat(MoveJob(o, from, j), rest) = MoveJobThen(o, from, j, rest)
    <2>1. MoveJob(o, from, j) = Cat(Cat(Take(o, from, j), Stop(from, j)), Relaunch(o, j))
      BY DEF MoveJob, Cat
    <2>2. Cat(MoveJob(o, from, j), rest)
            = Cat(Take(o, from, j), Cat(Stop(from, j), Cat(Relaunch(o, j), rest)))
      BY <1>1, <1>4, <1>6, <2>1
    <2>3. /\ RelaunchThen(o, j, rest) \in Seq(AnyStep)
          /\ StopThen(from, j, RelaunchThen(o, j, rest)) \in Seq(AnyStep)
      BY <1>5
    <2>4. Cat(MoveJob(o, from, j), rest) = MoveJobThen(o, from, j, rest)
      BY <1>1, <1>4, <2>2, <2>3 DEF MoveJobThen
    <2>5. MoveJob(o, from, j) \in Seq(AnyStep)
      BY <1>1, <1>4, <1>6, <2>1
    <2> QED BY <2>4, <2>5
  <1>8. "dns" \in Jobs
    BY DEF Jobs
  <1>9. /\ MoveDns(o, from) \in Seq(AnyStep)
        /\ Cat(MoveDns(o, from), rest) = MoveDnsThen(o, from, rest)
    <2>1. MoveDns(o, from) = Cat(Cat(Stop(from, "dns"), Take(o, from, "dns")), Relaunch(o, "dns"))
      BY DEF MoveDns, Cat
    <2>2. Cat(MoveDns(o, from), rest)
            = Cat(Stop(from, "dns"), Cat(Take(o, from, "dns"), Cat(Relaunch(o, "dns"), rest)))
      BY <1>1, <1>4, <1>6, <1>8, <2>1
    <2>3. /\ RelaunchThen(o, "dns", rest) \in Seq(AnyStep)
          /\ TakeThen(o, from, "dns", RelaunchThen(o, "dns", rest)) \in Seq(AnyStep)
      BY <1>5, <1>8
    <2>4. Cat(MoveDns(o, from), rest) = MoveDnsThen(o, from, rest)
      BY <1>1, <1>4, <1>8, <2>2, <2>3 DEF MoveDnsThen
    <2>5. MoveDns(o, from) \in Seq(AnyStep)
      BY <1>1, <1>4, <1>6, <1>8, <2>1
    <2> QED BY <2>4, <2>5
  <1> QED BY <1>7, <1>9

LEMMA MoveForm ==
  ASSUME NEW o \in Objects, NEW from \in Objects, NEW rest \in Seq(AnyStep)
  PROVE  /\ Move(o, from) \in Seq(AnyStep)
         /\ Cat(Move(o, from), rest) = MoveThen(o, from, rest)
  <1>1. PICK first \in Seq(AnyStep) :
          /\ first = <<PoolStep("move", o, from)>>
          /\ \A r \in Seq(AnyStep) : Cat(first, r) = Then(PoolStep("move", o, from), r)
    BY StepForms, Alone
  <1>2. \A i \in Jobs, r \in Seq(AnyStep) :
          /\ MoveJob(o, from, i) \in Seq(AnyStep) /\ MoveDns(o, from) \in Seq(AnyStep)
          /\ Cat(MoveJob(o, from, i), r) = MoveJobThen(o, from, i, r)
          /\ Cat(MoveDns(o, from), r) = MoveDnsThen(o, from, r)
    BY MoveJobForm
  <1>3. "keeper" \in Jobs /\ "health" \in Jobs
    BY DEF Jobs
  <1>4. Move(o, from)
          = Cat(Cat(Cat(first, MoveJob(o, from, "keeper")), MoveJob(o, from, "health")),
                MoveDns(o, from))
    BY <1>1 DEF Move, Cat, PoolStep
  <1>5. /\ MoveJob(o, from, "keeper") \in Seq(AnyStep)
        /\ MoveJob(o, from, "health") \in Seq(AnyStep)
        /\ MoveDns(o, from) \in Seq(AnyStep)
    BY <1>2, <1>3
  <1>6. Cat(Move(o, from), rest)
          = Cat(first, Cat(MoveJob(o, from, "keeper"),
                           Cat(MoveJob(o, from, "health"), Cat(MoveDns(o, from), rest))))
    BY <1>4, <1>5, Regroup
  <1>7. Move(o, from) \in Seq(AnyStep)
    BY <1>4, <1>5, CatAssociative
  <1>8. /\ MoveDnsThen(o, from, rest) \in Seq(AnyStep)
        /\ MoveJobThen(o, from, "health", MoveDnsThen(o, from, rest)) \in Seq(AnyStep)
    BY <1>3, MoveIsSteps
  <1>10. Cat(MoveJob(o, from, "health"), Cat(MoveDns(o, from), rest))
           = AfterMoved(o, from, "keeper", rest)
    BY <1>2, <1>3, <1>8 DEF AfterMoved
  <1>11. AfterMoved(o, from, "keeper", rest) \in Seq(AnyStep)
    BY <1>8 DEF AfterMoved
  <1>12. Cat(Move(o, from), rest)
           = Cat(first, MoveJobThen(o, from, "keeper", AfterMoved(o, from, "keeper", rest)))
    BY <1>2, <1>3, <1>6, <1>10, <1>11
  <1>13. MoveJobThen(o, from, "keeper", AfterMoved(o, from, "keeper", rest)) \in Seq(AnyStep)
    BY <1>3, <1>11, MoveIsSteps
  <1> QED
    BY <1>1, <1>7, <1>12, <1>13 DEF MoveThen

-----------------------------------------------------------------------------
(* What each step does, at each job of each object.                         *)

\* The steps of calls, by the first step of `todo'.
LEMMA StepOf ==
  ASSUME NEW step \in AnyStep, NEW rest \in Seq(AnyStep), todo = Then(step, rest), CallStep
  PROVE  /\ Now = step /\ ~terminated /\ todo' = rest
         /\ \/ step.op = "stop" /\ StepStop
            \/ step.op = "join" /\ StepJoin
            \/ step.op = "launch" /\ StepLaunch
            \/ step.op = "relaunch" /\ StepRelaunch
            \/ step.op = "take" /\ StepTake
            \/ step.op = "move" /\ StepMove
            \/ step.op = "free" /\ StepFree
  <1>1. Now = step /\ Tail(todo) = rest
    BY Begins DEF Now
  <1> QED
    BY <1>1 DEF CallStep, StepStop, StepJoin, StepLaunch, StepRelaunch, StepTake, StepMove,
                StepFree, Takes

unmoved == <<base, wanted, arrived, settings, chosen>>

LEMMA StopDoes ==
  ASSUME LifecycleTypeOK, NEW o \in Objects, NEW j \in Jobs, NEW rest \in Seq(AnyStep),
         todo = Then(JobStep("stop", o, j, o), rest), CallStep
  PROVE  /\ todo' = rest /\ UNCHANGED <<unmoved, thread, terminated>>
         /\ \A p \in Objects, i \in Jobs :
              enabled'[p][i] = IF p = o /\ i = j THEN FALSE ELSE enabled[p][i]
  <1>1. PICK step \in AnyStep : step = JobStep("stop", o, j, o)
    BY StepForms
  <1>2. Now = step /\ todo' = rest /\ StepStop
    BY <1>1, StepOf DEF JobStep
  <1> QED BY <1>1, <1>2 DEF StepStop, JobStep, LifecycleTypeOK, unmoved

LEMMA JoinDoes ==
  ASSUME LifecycleTypeOK, NEW o \in Objects, NEW j \in Jobs, NEW rest \in Seq(AnyStep),
         todo = Then(JobStep("join", o, j, o), rest), CallStep
  PROVE  /\ todo' = rest /\ UNCHANGED <<unmoved, enabled, terminated>>
         /\ \A p \in Objects, i \in Jobs :
              thread'[p][i] = IF p = o /\ i = j THEN "none" ELSE thread[p][i]
  <1>1. PICK step \in AnyStep : step = JobStep("join", o, j, o)
    BY StepForms
  <1>2. Now = step /\ todo' = rest /\ StepJoin
    BY <1>1, StepOf DEF JobStep
  <1> QED BY <1>1, <1>2 DEF StepJoin, JobStep, LifecycleTypeOK, unmoved

\* A thread starts.
LaunchedAt(o, j) ==
  /\ terminated' = isThreadRunning(o, j)
  /\ \A p \in Objects, i \in Jobs :
       /\ enabled'[p][i] = IF p = o /\ i = j THEN TRUE ELSE enabled[p][i]
       /\ thread'[p][i] = IF p = o /\ i = j THEN "running" ELSE thread[p][i]

LEMMA LaunchDoes ==
  ASSUME LifecycleTypeOK, NEW o \in Objects, NEW j \in Jobs, NEW rest \in Seq(AnyStep),
         todo = Then(JobStep("launch", o, j, o), rest), CallStep
  PROVE  todo' = rest /\ UNCHANGED unmoved /\ LaunchedAt(o, j)
  <1>1. PICK step \in AnyStep : step = JobStep("launch", o, j, o)
    BY StepForms
  <1>2. Now = step /\ todo' = rest /\ StepLaunch
    BY <1>1, StepOf DEF JobStep
  <1> QED BY <1>1, <1>2 DEF StepLaunch, Launch, JobStep, LifecycleTypeOK, unmoved, LaunchedAt

LEMMA RelaunchDoes ==
  ASSUME LifecycleTypeOK, NEW o \in Objects, NEW j \in Jobs, NEW rest \in Seq(AnyStep),
         todo = Then(JobStep("relaunch", o, j, o), rest), CallStep
  PROVE  /\ todo' = rest /\ UNCHANGED unmoved
         /\ \/ enabled[o][j] = TRUE /\ LaunchedAt(o, j)
            \/ enabled[o][j] = FALSE /\ UNCHANGED <<enabled, thread, terminated>>
  <1>1. PICK step \in AnyStep : step = JobStep("relaunch", o, j, o)
    BY StepForms
  <1>2. Now = step /\ todo' = rest /\ StepRelaunch
    BY <1>1, StepOf DEF JobStep
  <1>3. enabled[o][j] \in BOOLEAN /\ Now.o = o /\ Now.j = j
    BY <1>1, <1>2 DEF LifecycleTypeOK, JobStep
  <1>4. UNCHANGED unmoved
    BY <1>2 DEF StepRelaunch, unmoved
  <1>5. CASE enabled[o][j] = TRUE
    <2>1. Launch(o, j)
      BY <1>2, <1>3, <1>5 DEF StepRelaunch
    <2> QED BY <1>2, <1>4, <1>5, <2>1 DEF Launch, LifecycleTypeOK, LaunchedAt
  <1>6. CASE enabled[o][j] = FALSE
    BY <1>2, <1>3, <1>4, <1>6 DEF StepRelaunch
  <1> QED BY <1>3, <1>5, <1>6

LEMMA TakeDoes ==
  ASSUME LifecycleTypeOK, NEW o \in Objects, NEW j \in Jobs, NEW rest \in Seq(AnyStep),
         NEW from \in Objects,
         todo = Then(JobStep("take", o, j, from), rest), CallStep
  PROVE  /\ todo' = rest /\ UNCHANGED <<unmoved, thread, terminated>>
         /\ \A p \in Objects, i \in Jobs :
              enabled'[p][i] = IF p = o /\ i = j THEN enabled[from][j] ELSE enabled[p][i]
  <1>1. PICK step \in AnyStep : step = JobStep("take", o, j, from)
    BY StepForms
  <1>2. Now = step /\ todo' = rest /\ StepTake
    BY <1>1, StepOf DEF JobStep
  <1> QED BY <1>1, <1>2 DEF StepTake, JobStep, LifecycleTypeOK, unmoved

LEMMA MoveDoes ==
  ASSUME LifecycleTypeOK, NEW o \in Objects, NEW from \in Objects, o # from,
         NEW rest \in Seq(AnyStep), todo = Then(PoolStep("move", o, from), rest), CallStep
  PROVE  /\ todo' = rest /\ UNCHANGED <<thread, terminated>>
         /\ \A p \in Objects :
              base'[p] = IF p = o THEN "here" ELSE IF p = from THEN "gone" ELSE base[p]
         /\ \A p \in Objects :
              wanted'[p] = IF p = o THEN wanted[from] ELSE IF p = from THEN {} ELSE wanted[p]
         /\ \A p \in Objects, i \in Jobs :
              enabled'[p][i] = IF p = o THEN FALSE ELSE enabled[p][i]
         /\ arrived' = arrived \cup {o}
  <1>1. PICK step \in AnyStep : step = PoolStep("move", o, from)
    BY StepForms
  <1>2. Now = step /\ todo' = rest /\ StepMove
    BY <1>1, StepOf DEF PoolStep
  <1> QED BY <1>1, <1>2 DEF StepMove, PoolStep, LifecycleTypeOK

LEMMA FreeDoes ==
  ASSUME LifecycleTypeOK, NEW o \in Objects, NEW rest \in Seq(AnyStep),
         todo = Then(PoolStep("free", o, o), rest), CallStep
  PROVE  /\ todo' = rest /\ UNCHANGED <<thread, enabled>>
         /\ terminated' = \E j \in Jobs : isThreadRunning(o, j)
         /\ \A p \in Objects :
              /\ base'[p] = IF p = o THEN "none" ELSE base[p]
              /\ wanted'[p] = IF p = o THEN {} ELSE wanted[p]
         /\ arrived' = arrived \ {o}
  <1>1. PICK step \in AnyStep : step = PoolStep("free", o, o)
    BY StepForms
  <1>2. Now = step /\ todo' = rest /\ StepFree
    BY <1>1, StepOf DEF PoolStep
  <1> QED BY <1>1, <1>2 DEF StepFree, PoolStep, LifecycleTypeOK

-----------------------------------------------------------------------------
(* Where a call can be, and what is known there.                            *)

Off(o, j) == ~isThreadRunning(o, j) /\ enabled[o][j] = FALSE

\* A thread runs if and only if the user has asked for it (JobsAsAsked).
AsAsked(o, j) ==
  /\ isThreadRunning(o, j) <=> enabled[o][j] = TRUE
  /\ isThreadRunning(o, j) => j \in wanted[o]
  /\ j \in wanted[o] => isThreadRunning(o, j) \/ (j = "dns" /\ o \in arrived)

\* Memory without a pool.
Empty(o) == base[o] = "none" => wanted[o] = {} /\ \A j \in Jobs : Off(o, j)

AllAsAskedBut(apart) == \A p \in Objects \ apart, i \in Jobs : AsAsked(p, i)

Earlier(j) ==
  CASE j = "keeper" -> {} [] j = "health" -> {"keeper"} [] j = "dns" -> {"keeper", "health"}

Later(j) ==
  CASE j = "keeper" -> {"health", "dns"} [] j = "health" -> {"dns"} [] j = "dns" -> {}

Starting(o, j) ==
  /\ base[o] = "here" /\ j \in wanted[o]
  /\ AllAsAskedBut({o}) /\ \A i \in Jobs \ {j} : AsAsked(o, i)
  /\ \/ todo = StopThen(o, j, LaunchLast(o, j))
     \/ todo = JoinThen(o, j, LaunchLast(o, j)) /\ enabled[o][j] = FALSE
     \/ todo = LaunchLast(o, j) /\ Off(o, j)

Stopping(o, j) ==
  /\ j \notin wanted[o]
  /\ AllAsAskedBut({o}) /\ \A i \in Jobs \ {j} : AsAsked(o, i)
  /\ \/ todo = StopThen(o, j, <<>>)
     \/ todo = JoinThen(o, j, <<>>) /\ enabled[o][j] = FALSE

\* What may follow the destruction, the insertion and the move of a pool.
DestroyEnds == {<<>>} \cup {DestroyThen(p, <<>>) : p \in Objects}

InsertEnds ==
  {<<>>} \cup {InsertThen(id, o, rest) : id \in SlaveIds, o \in Objects, rest \in DestroyEnds}

MoveEnds(o) ==
  InsertEnds
    \cup {MoveThen(node, o, rest) : node \in {p \in Objects \ {o} : base[p] = "none"},
                                   rest \in InsertEnds}

\* The parts are destroyed from the last to the first.
Destroying(o, j, rest) ==
  /\ AllAsAskedBut({o}) /\ \A i \in Later(j) : Off(o, i)
  /\ \/ todo = StopThen(o, j, AfterPart(o, j, rest))
     \/ todo = JoinThen(o, j, AfterPart(o, j, rest)) /\ enabled[o][j] = FALSE

Freeing(o, rest) ==
  /\ AllAsAskedBut({o}) /\ \A i \in Jobs : Off(o, i)
  /\ todo = FreeThen(o, rest)

Inserting(id, o, rest) == AllAsAskedBut({}) /\ todo = InsertThen(id, o, rest)

Moves(o, from, rest) ==
  /\ base[o] = "none" /\ base[from] = "here" /\ AllAsAskedBut({})
  /\ todo = MoveThen(o, from, rest)

\* The thread of the other object is as the user asked this one.
Pending(o, from, j) ==
  /\ Off(o, j)
  /\ isThreadRunning(from, j) <=> enabled[from][j] = TRUE
  /\ enabled[from][j] = TRUE => j \in wanted[o]
  /\ j \in wanted[o] => enabled[from][j] = TRUE \/ j = "dns"

Taken(o, j) ==
  /\ ~isThreadRunning(o, j)
  /\ enabled[o][j] = TRUE => j \in wanted[o]
  /\ j \in wanted[o] => enabled[o][j] = TRUE \/ j = "dns"

MovingJob(o, from, j, next) ==
  \/ todo = MoveJobThen(o, from, j, next) /\ Pending(o, from, j)
  \/ todo = StopThen(from, j, RelaunchThen(o, j, next)) /\ Taken(o, j)
  \/ todo = JoinThen(from, j, RelaunchThen(o, j, next))
       /\ Taken(o, j) /\ enabled[from][j] = FALSE

MovingDns(o, from, rest) ==
  LET last == TakeThen(o, from, "dns", RelaunchThen(o, "dns", rest)) IN
  /\ Off(o, "dns")
  /\ \/ todo = StopThen(from, "dns", last)
     \/ todo = JoinThen(from, "dns", last) /\ enabled[from]["dns"] = FALSE
     \/ todo = last /\ Off(from, "dns")

\* The part of the job j is moved; before it others were, after it others are.
Between(o, from, j) ==
  /\ o # from /\ base[o] = "here" /\ base[from] = "gone"
  /\ o \in arrived /\ wanted[from] = {} /\ AllAsAskedBut({o, from})
  /\ \A i \in Earlier(j) : AsAsked(o, i) /\ Off(from, i)
  /\ \A i \in Later(j) : Pending(o, from, i)

Moving(o, from, j, rest) ==
  /\ Between(o, from, j)
  /\ \/ j # "dns" /\ MovingJob(o, from, j, AfterMoved(o, from, j, rest))
     \/ j = "dns" /\ MovingDns(o, from, rest)
     \/ /\ todo = RelaunchThen(o, j, AfterMoved(o, from, j, rest))
        /\ Taken(o, j) /\ Off(from, j)

Control ==
  \/ todo = <<>> /\ AllAsAskedBut({})
  \/ \E o \in Objects, j \in Jobs : Starting(o, j) \/ Stopping(o, j)
  \/ \E o \in Objects, rest \in DestroyEnds :
       \/ Freeing(o, rest) \/ \E j \in Jobs : Destroying(o, j, rest)
       \/ \E id \in SlaveIds : Inserting(id, o, rest)
  \/ \E o, from \in Objects : \E rest \in MoveEnds(o) :
       Moves(o, from, rest) \/ \E j \in Jobs : Moving(o, from, j, rest)

LEMMA EndsAreSteps ==
  /\ DestroyEnds \subseteq Seq(AnyStep) /\ InsertEnds \subseteq Seq(AnyStep)
  /\ \A o \in Objects : MoveEnds(o) \subseteq Seq(AnyStep)
  <1>0. <<>> \in Seq(AnyStep)
    OBVIOUS
  <1>1. \A p \in Objects : DestroyThen(p, <<>>) \in Seq(AnyStep)
    BY <1>0, MoveIsSteps DEF Jobs
  <1>2. DestroyEnds \subseteq Seq(AnyStep)
    BY <1>0, <1>1 DEF DestroyEnds
  <1>3. ASSUME NEW id \in SlaveIds, NEW o \in Objects, NEW rest \in DestroyEnds
        PROVE  InsertThen(id, o, rest) \in Seq(AnyStep)
    BY <1>2, StepForms, Begins DEF InsertThen
  <1>4. InsertEnds \subseteq Seq(AnyStep)
    <2>1. ASSUME NEW x \in InsertEnds, x # <<>>
          PROVE  \E id \in SlaveIds, o \in Objects, rest \in DestroyEnds :
                   x = InsertThen(id, o, rest)
      BY <2>1 DEF InsertEnds
    <2>2. ASSUME NEW x \in InsertEnds PROVE x \in Seq(AnyStep)
      <3>1. CASE x # <<>>
        <4>1. PICK id \in SlaveIds, o \in Objects, rest \in DestroyEnds :
                x = InsertThen(id, o, rest)
          BY <2>1, <3>1, Zenon
        <4> QED BY <1>3, <4>1
      <3> QED BY <1>0, <3>1
    <2> QED BY <2>2
  <1>5. ASSUME NEW o \in Objects, NEW node \in Objects, NEW rest \in InsertEnds
        PROVE  MoveThen(node, o, rest) \in Seq(AnyStep)
    BY <1>4, MoveIsSteps DEF Jobs
  <1>6. \A o \in Objects : MoveEnds(o) \subseteq Seq(AnyStep)
    BY <1>4, <1>5 DEF MoveEnds
  <1> QED BY <1>2, <1>4, <1>6

-----------------------------------------------------------------------------
(* The steps of calls.                                                      *)

EmptyAll == \A o \in Objects : Empty(o)

\* An object that has no pool stays as it is, if only others' jobs are touched.
LEMMA EmptyStays ==
  ASSUME LifecycleTypeOK, EmptyAll, NEW o \in Objects, UNCHANGED unmoved,
         base[o] # "none" \/ \A i \in Jobs : Off(o, i) => Off(o, i)',
         \A p \in Objects \ {o}, i \in Jobs :
           thread'[p][i] = thread[p][i] /\ enabled'[p][i] = enabled[p][i]
  PROVE  EmptyAll'
  BY DEF EmptyAll, Empty, Off, isThreadRunning, unmoved

LEMMA LaunchIsSteps ==
  ASSUME NEW o \in Objects, NEW j \in Jobs
  PROVE  /\ <<>> \in Seq(AnyStep) /\ JoinThen(o, j, <<>>) \in Seq(AnyStep)
         /\ LaunchLast(o, j) = Then(JobStep("launch", o, j, o), <<>>)
         /\ LaunchLast(o, j) \in Seq(AnyStep)
         /\ JoinThen(o, j, LaunchLast(o, j)) \in Seq(AnyStep)
  <1>1. <<>> \in Seq(AnyStep)
    OBVIOUS
  <1>2. /\ LaunchLast(o, j) = Then(JobStep("launch", o, j, o), <<>>)
        /\ LaunchLast(o, j) \in Seq(AnyStep)
    BY StepForms, Alone DEF LaunchLast
  <1> QED BY <1>1, <1>2, StopIsSteps

\* Any thread is stopped in two steps, at which nothing else changes.
LEMMA StopStep ==
  ASSUME LifecycleTypeOK, EmptyAll, NEW o \in Objects, NEW j \in Jobs,
         NEW rest \in Seq(AnyStep), todo = StopThen(o, j, rest), CallStep
  PROVE  /\ todo' = JoinThen(o, j, rest) /\ UNCHANGED <<unmoved, terminated>>
         /\ enabled'[o][j] = FALSE /\ EmptyAll'
         /\ \A p \in Objects, i \in Jobs : (p # o \/ i # j) /\ AsAsked(p, i) => AsAsked(p, i)'
         /\ \A p \in Objects, i \in Jobs : Off(p, i) => Off(p, i)'
  <1>1. PICK join \in Seq(AnyStep) : join = JoinThen(o, j, rest)
    BY StopIsSteps
  <1>2. todo = Then(JobStep("stop", o, j, o), join)
    BY <1>1 DEF StopThen
  <1>3. /\ todo' = join /\ UNCHANGED <<unmoved, thread, terminated>>
        /\ \A p \in Objects, i \in Jobs :
             enabled'[p][i] = IF p = o /\ i = j THEN FALSE ELSE enabled[p][i]
    BY <1>2, StopDoes
  <1>4. /\ base' = base /\ wanted' = wanted /\ arrived' = arrived /\ thread' = thread
        /\ enabled'[o][j] = FALSE
        /\ \A p \in Objects, i \in Jobs : p # o \/ i # j => enabled'[p][i] = enabled[p][i]
    BY <1>3 DEF unmoved
  <1>5. \A p \in Objects, i \in Jobs : (p # o \/ i # j) /\ AsAsked(p, i) => AsAsked(p, i)'
    BY <1>4 DEF AsAsked, isThreadRunning
  <1>6. \A p \in Objects, i \in Jobs : Off(p, i) => Off(p, i)'
    BY <1>4 DEF Off, isThreadRunning
  <1>7. EmptyAll'
    BY <1>4, <1>6 DEF EmptyAll, Empty
  <1> QED BY <1>1, <1>3, <1>4, <1>5, <1>6, <1>7

LEMMA JoinStep ==
  ASSUME LifecycleTypeOK, EmptyAll, NEW o \in Objects, NEW j \in Jobs,
         NEW rest \in Seq(AnyStep), todo = JoinThen(o, j, rest), enabled[o][j] = FALSE, CallStep
  PROVE  /\ todo' = rest /\ UNCHANGED <<unmoved, terminated>>
         /\ Off(o, j)' /\ EmptyAll'
         /\ \A p \in Objects, i \in Jobs : (p # o \/ i # j) /\ AsAsked(p, i) => AsAsked(p, i)'
         /\ \A p \in Objects, i \in Jobs : Off(p, i) => Off(p, i)'
  <1>1. todo = Then(JobStep("join", o, j, o), rest)
    BY DEF JoinThen
  <1>2. /\ todo' = rest /\ UNCHANGED <<unmoved, enabled, terminated>>
        /\ \A p \in Objects, i \in Jobs :
             thread'[p][i] = IF p = o /\ i = j THEN "none" ELSE thread[p][i]
    BY <1>1, JoinDoes
  <1>3. /\ base' = base /\ wanted' = wanted /\ arrived' = arrived /\ enabled' = enabled
        /\ thread'[o][j] = "none"
        /\ \A p \in Objects, i \in Jobs : p # o \/ i # j => thread'[p][i] = thread[p][i]
    BY <1>2 DEF unmoved
  <1>4. Off(o, j)'
    BY <1>3 DEF Off, isThreadRunning
  <1>5. \A p \in Objects, i \in Jobs : (p # o \/ i # j) /\ AsAsked(p, i) => AsAsked(p, i)'
    BY <1>3 DEF AsAsked, isThreadRunning
  <1>6. \A p \in Objects, i \in Jobs : Off(p, i) => Off(p, i)'
    BY <1>3, <1>4 DEF Off, isThreadRunning
  <1>7. EmptyAll'
    BY <1>3, <1>6 DEF EmptyAll, Empty
  <1> QED BY <1>2, <1>4, <1>5, <1>6, <1>7

LEMMA StartingStep ==
  ASSUME LifecycleTypeOK, EmptyAll, ~terminated, NEW o \in Objects, NEW j \in Jobs,
         Starting(o, j), CallStep
  PROVE  ~terminated' /\ EmptyAll' /\ Control'
  <1>1. CASE todo = StopThen(o, j, LaunchLast(o, j))
    <2>1. /\ todo' = JoinThen(o, j, LaunchLast(o, j)) /\ enabled'[o][j] = FALSE
          /\ EmptyAll' /\ UNCHANGED <<unmoved, terminated>>
          /\ \A p \in Objects, i \in Jobs : (p # o \/ i # j) /\ AsAsked(p, i) => AsAsked(p, i)'
      BY <1>1, StopStep, LaunchIsSteps
    <2>2. Starting(o, j)'
      BY <2>1 DEF Starting, AllAsAskedBut, unmoved
    <2> QED BY <2>1, <2>2 DEF Control
  <1>2. CASE todo = JoinThen(o, j, LaunchLast(o, j)) /\ enabled[o][j] = FALSE
    <2>1. /\ todo' = LaunchLast(o, j) /\ Off(o, j)'
          /\ EmptyAll' /\ UNCHANGED <<unmoved, terminated>>
          /\ \A p \in Objects, i \in Jobs : (p # o \/ i # j) /\ AsAsked(p, i) => AsAsked(p, i)'
      BY <1>2, JoinStep, LaunchIsSteps
    <2>2. Starting(o, j)'
      BY <2>1 DEF Starting, AllAsAskedBut, unmoved
    <2> QED BY <2>1, <2>2 DEF Control
  <1>3. CASE todo = LaunchLast(o, j) /\ Off(o, j)
    <2>1. todo' = <<>> /\ UNCHANGED unmoved /\ LaunchedAt(o, j)
      BY <1>3, LaunchIsSteps, LaunchDoes
    <2>a. /\ wanted' = wanted /\ arrived' = arrived /\ base[o] # "none" /\ j \in wanted[o]
          /\ thread'[o][j] = "running" /\ enabled'[o][j] = TRUE
          /\ \A p \in Objects, i \in Jobs : p # o \/ i # j =>
               thread'[p][i] = thread[p][i] /\ enabled'[p][i] = enabled[p][i]
      BY <2>1 DEF unmoved, LaunchedAt, Starting
    <2>2. AllAsAskedBut({})'
      <3>1. \A p \in Objects, i \in Jobs : p # o \/ i # j => AsAsked(p, i)
        BY DEF Starting, AllAsAskedBut
      <3>2. \A p \in Objects, i \in Jobs : p # o \/ i # j => AsAsked(p, i)'
        BY <2>a, <3>1 DEF AsAsked, isThreadRunning
      <3>3. AsAsked(o, j)'
        BY <2>a DEF AsAsked, isThreadRunning
      <3> QED BY <3>2, <3>3 DEF AllAsAskedBut
    <2>3. EmptyAll'
      BY <2>1, <2>a, EmptyStays
    <2>4. ~terminated'
      BY <1>3, <2>1 DEF LaunchedAt, Off
    <2> QED BY <2>1, <2>2, <2>3, <2>4 DEF Control
  <1> QED BY <1>1, <1>2, <1>3 DEF Starting

LEMMA StoppingStep ==
  ASSUME LifecycleTypeOK, EmptyAll, ~terminated, NEW o \in Objects, NEW j \in Jobs,
         Stopping(o, j), CallStep
  PROVE  ~terminated' /\ EmptyAll' /\ Control'
  <1>0. <<>> \in Seq(AnyStep) /\ JoinThen(o, j, <<>>) \in Seq(AnyStep)
    BY LaunchIsSteps
  <1>1. CASE todo = StopThen(o, j, <<>>)
    <2>1. /\ todo' = JoinThen(o, j, <<>>) /\ enabled'[o][j] = FALSE
          /\ EmptyAll' /\ UNCHANGED <<unmoved, terminated>>
          /\ \A p \in Objects, i \in Jobs : (p # o \/ i # j) /\ AsAsked(p, i) => AsAsked(p, i)'
      BY <1>0, <1>1, StopStep
    <2>2. Stopping(o, j)'
      BY <2>1 DEF Stopping, AllAsAskedBut, unmoved
    <2> QED BY <2>1, <2>2 DEF Control
  <1>2. CASE todo = JoinThen(o, j, <<>>) /\ enabled[o][j] = FALSE
    <2>1. /\ todo' = <<>> /\ Off(o, j)' /\ j \notin wanted'[o]
          /\ EmptyAll' /\ UNCHANGED <<unmoved, terminated>>
          /\ \A p \in Objects, i \in Jobs : (p # o \/ i # j) /\ AsAsked(p, i) => AsAsked(p, i)'
      BY <1>0, <1>2, JoinStep DEF Stopping, unmoved
    <2>2. AsAsked(o, j)'
      BY <2>1 DEF AsAsked, Off
    <2>3. AllAsAskedBut({})'
      BY <2>1, <2>2 DEF Stopping, AllAsAskedBut
    <2> QED BY <2>1, <2>3 DEF Control
  <1> QED BY <1>1, <1>2 DEF Stopping

\* What follows the destruction of a pool, and its insertion.
LEMMA ResumeDestroy ==
  ASSUME NEW rest \in DestroyEnds, todo' = rest, AllAsAskedBut({})'
  PROVE  Control'
  <1>1. CASE rest = <<>>
    BY <1>1 DEF Control
  <1>2. CASE rest # <<>>
    <2>1. PICK p \in Objects : rest = DestroyThen(p, <<>>)
      BY <1>2 DEF DestroyEnds
    <2>2. "dns" \in Jobs /\ <<>> \in DestroyEnds
      BY DEF Jobs, DestroyEnds
    <2>3. AllAsAskedBut({p})'
      BY DEF AllAsAskedBut
    <2>4. todo' = StopThen(p, "dns", AfterPart(p, "dns", <<>>))
      BY <2>1 DEF DestroyThen
    <2>5. Destroying(p, "dns", <<>>)'
      BY <2>3, <2>4 DEF Destroying, Later
    <2> QED BY <2>2, <2>5 DEF Control
  <1> QED BY <1>1, <1>2

LEMMA ResumeInsert ==
  ASSUME NEW rest \in InsertEnds, todo' = rest, AllAsAskedBut({})'
  PROVE  Control'
  <1>1. CASE rest = <<>>
    BY <1>1 DEF Control
  <1>2. CASE rest # <<>>
    <2>1. PICK id \in SlaveIds, p \in Objects, r \in DestroyEnds : rest = InsertThen(id, p, r)
      <3>1. rest \in {InsertThen(id, p, r) : id \in SlaveIds, p \in Objects, r \in DestroyEnds}
        BY <1>2 DEF InsertEnds
      <3> QED BY <3>1
    <2>2. Inserting(id, p, r)'
      BY <2>1 DEF Inserting
    <2> QED BY <2>2 DEF Control
  <1> QED BY <1>1, <1>2

LEMMA DestroyingStep ==
  ASSUME LifecycleTypeOK, EmptyAll, ~terminated, NEW o \in Objects, NEW j \in Jobs,
         NEW rest \in DestroyEnds, Destroying(o, j, rest), CallStep
  PROVE  ~terminated' /\ EmptyAll' /\ Control'
  <1>0. /\ rest \in Seq(AnyStep) /\ AfterPart(o, j, rest) \in Seq(AnyStep)
        /\ JoinThen(o, j, AfterPart(o, j, rest)) \in Seq(AnyStep)
    <2>1. rest \in Seq(AnyStep)
      BY EndsAreSteps
    <2> QED BY <2>1, MoveIsSteps, StopIsSteps
  <1>j. j \notin Later(j) /\ Later(j) \subseteq Jobs
    BY DEF Later, Jobs
  <1>1. CASE todo = StopThen(o, j, AfterPart(o, j, rest))
    <2>0. PICK next \in Seq(AnyStep) : next = AfterPart(o, j, rest)
      BY <1>0
    <2>n. todo = StopThen(o, j, next)
      BY <1>1, <2>0
    <2>1. /\ todo' = JoinThen(o, j, AfterPart(o, j, rest)) /\ enabled'[o][j] = FALSE
          /\ EmptyAll' /\ UNCHANGED <<unmoved, terminated>>
          /\ \A p \in Objects, i \in Jobs : (p # o \/ i # j) /\ AsAsked(p, i) => AsAsked(p, i)'
          /\ \A i \in Jobs : Off(o, i) => Off(o, i)'
      BY <2>0, <2>n, StopStep
    <2>2. AllAsAskedBut({o})' /\ \A i \in Later(j) : Off(o, i)'
      BY <1>j, <2>1 DEF Destroying, AllAsAskedBut
    <2>3. Destroying(o, j, rest)'
      BY <2>1, <2>2 DEF Destroying
    <2> QED BY <2>1, <2>3 DEF Control
  <1>2. CASE todo = JoinThen(o, j, AfterPart(o, j, rest)) /\ enabled[o][j] = FALSE
    <2>0. PICK next \in Seq(AnyStep) : next = AfterPart(o, j, rest)
      BY <1>0
    <2>n. todo = JoinThen(o, j, next) /\ enabled[o][j] = FALSE
      BY <1>2, <2>0
    <2>1. /\ todo' = AfterPart(o, j, rest) /\ Off(o, j)'
          /\ EmptyAll' /\ UNCHANGED <<unmoved, terminated>>
          /\ \A p \in Objects, i \in Jobs : (p # o \/ i # j) /\ AsAsked(p, i) => AsAsked(p, i)'
          /\ \A i \in Jobs : Off(o, i) => Off(o, i)'
      BY <2>0, <2>n, JoinStep
    <2>2. AllAsAskedBut({o})'
      BY <2>1 DEF Destroying, AllAsAskedBut
    <2>3. \A i \in Later(j) \cup {j} : Off(o, i)'
      BY <1>j, <2>1 DEF Destroying
    <2>4. EmptyAll'
      BY <2>1
    <2>5. CASE j = "keeper"
      <3>1. Freeing(o, rest)'
        BY <2>1, <2>2, <2>3, <2>5 DEF Freeing, AfterPart, Later, Jobs
      <3> QED BY <2>1, <2>4, <3>1 DEF Control
    <2>6. CASE j = "health"
      <3>1. todo' = StopThen(o, "keeper", AfterPart(o, "keeper", rest))
        BY <2>1, <2>6 DEF AfterPart
      <3>2. Destroying(o, "keeper", rest)' /\ "keeper" \in Jobs
        BY <2>2, <2>3, <2>6, <3>1 DEF Destroying, Later, Jobs
      <3> QED BY <2>1, <2>4, <3>2 DEF Control
    <2>7. CASE j = "dns"
      <3>1. todo' = StopThen(o, "health", AfterPart(o, "health", rest))
        BY <2>1, <2>7 DEF AfterPart
      <3>2. Destroying(o, "health", rest)' /\ "health" \in Jobs
        BY <2>2, <2>3, <2>7, <3>1 DEF Destroying, Later, Jobs
      <3> QED BY <2>1, <2>4, <3>2 DEF Control
    <2> QED BY <2>5, <2>6, <2>7 DEF Jobs
  <1> QED BY <1>1, <1>2 DEF Destroying

LEMMA FreeingStep ==
  ASSUME LifecycleTypeOK, EmptyAll, ~terminated, NEW o \in Objects,
         NEW rest \in DestroyEnds, Freeing(o, rest), CallStep
  PROVE  ~terminated' /\ EmptyAll' /\ Control'
  <1>0. rest \in Seq(AnyStep)
    BY EndsAreSteps
  <1>1. /\ todo' = rest /\ UNCHANGED <<thread, enabled>>
        /\ terminated' = \E j \in Jobs : isThreadRunning(o, j)
        /\ \A p \in Objects :
             /\ base'[p] = IF p = o THEN "none" ELSE base[p]
             /\ wanted'[p] = IF p = o THEN {} ELSE wanted[p]
        /\ arrived' = arrived \ {o}
    BY <1>0, FreeDoes DEF Freeing, FreeThen
  <1>2. ~terminated'
    BY <1>1 DEF Freeing, Off
  <1>3. EmptyAll'
    BY <1>1 DEF EmptyAll, Empty, Off, isThreadRunning, Freeing
  <1>4. AllAsAskedBut({})'
    BY <1>1 DEF Freeing, AllAsAskedBut, AsAsked, Off, isThreadRunning
  <1> QED BY <1>1, <1>2, <1>3, <1>4, ResumeDestroy

\* What follows the move of a pool.
LEMMA ResumeMove ==
  ASSUME NEW o \in Objects, NEW rest \in MoveEnds(o)', base'[o] = "here", todo' = rest,
         AllAsAskedBut({})'
  PROVE  Control'
  <1>1. CASE rest \in InsertEnds
    BY <1>1, ResumeInsert
  <1>2. CASE rest \notin InsertEnds
    <2>1. PICK node \in Objects \ {o}, r \in InsertEnds :
            base'[node] = "none" /\ rest = MoveThen(node, o, r)
      <3>1. rest \in {MoveThen(node, o, r) : node \in {p \in Objects \ {o} : base'[p] = "none"},
                                             r \in InsertEnds}
        BY <1>2 DEF MoveEnds
      <3> QED BY <3>1
    <2>2. Moves(node, o, r)'
      BY <2>1 DEF Moves
    <2>3. r \in MoveEnds(node)'
      BY <2>1 DEF MoveEnds
    <2> QED BY <2>1, <2>2, <2>3 DEF Control
  <1> QED BY <1>1, <1>2

LEMMA MovesStep ==
  ASSUME LifecycleTypeOK, EmptyAll, ~terminated, NEW o \in Objects, NEW from \in Objects,
         NEW rest \in MoveEnds(o), Moves(o, from, rest), CallStep
  PROVE  ~terminated' /\ EmptyAll' /\ Control'
  <1>0. /\ rest \in Seq(AnyStep) /\ "keeper" \in Jobs
        /\ AfterMoved(o, from, "keeper", rest) \in Seq(AnyStep)
        /\ MoveJobThen(o, from, "keeper", AfterMoved(o, from, "keeper", rest)) \in Seq(AnyStep)
    <2>1. rest \in Seq(AnyStep) /\ "keeper" \in Jobs
      BY EndsAreSteps DEF Jobs
    <2>2. AfterMoved(o, from, "keeper", rest) \in Seq(AnyStep)
      BY <2>1, MoveIsSteps
    <2> QED BY <2>1, <2>2, MoveIsSteps
  <1>1. o # from
    BY DEF Moves
  <1>2. /\ todo' = MoveJobThen(o, from, "keeper", AfterMoved(o, from, "keeper", rest))
        /\ UNCHANGED <<thread, terminated>> /\ arrived' = arrived \cup {o}
        /\ \A p \in Objects :
             base'[p] = IF p = o THEN "here" ELSE IF p = from THEN "gone" ELSE base[p]
        /\ \A p \in Objects :
             wanted'[p] = IF p = o THEN wanted[from] ELSE IF p = from THEN {} ELSE wanted[p]
        /\ \A p \in Objects, i \in Jobs :
             enabled'[p][i] = IF p = o THEN FALSE ELSE enabled[p][i]
    <2>1. PICK next \in Seq(AnyStep) :
            next = MoveJobThen(o, from, "keeper", AfterMoved(o, from, "keeper", rest))
      BY <1>0
    <2>2. todo = Then(PoolStep("move", o, from), next)
      BY <2>1 DEF Moves, MoveThen
    <2>3. /\ todo' = next
          /\ UNCHANGED <<thread, terminated>> /\ arrived' = arrived \cup {o}
          /\ \A p \in Objects :
               base'[p] = IF p = o THEN "here" ELSE IF p = from THEN "gone" ELSE base[p]
          /\ \A p \in Objects :
               wanted'[p] = IF p = o THEN wanted[from] ELSE IF p = from THEN {} ELSE wanted[p]
          /\ \A p \in Objects, i \in Jobs :
               enabled'[p][i] = IF p = o THEN FALSE ELSE enabled[p][i]
      BY <1>1, <2>2, MoveDoes
    <2> QED BY <2>1, <2>3
  <1>3. EmptyAll'
    <2>1. ASSUME NEW p \in Objects, base'[p] = "none"
          PROVE  wanted'[p] = {} /\ \A i \in Jobs : Off(p, i)'
      <3>1. p # o /\ p # from /\ base[p] = "none"
        BY <1>2, <2>1
      <3>2. wanted[p] = {} /\ \A i \in Jobs : Off(p, i)
        BY <3>1 DEF EmptyAll, Empty
      <3> QED BY <1>2, <3>1, <3>2 DEF Off, isThreadRunning
    <2> QED BY <2>1 DEF EmptyAll, Empty
  <1>4. AllAsAskedBut({o, from})'
    <2>1. ASSUME NEW p \in Objects \ {o, from}, NEW i \in Jobs PROVE AsAsked(p, i)'
      <3>1. AsAsked(p, i) /\ p # o /\ p # from
        BY DEF Moves, AllAsAskedBut
      <3>2. /\ wanted'[p] = wanted[p] /\ enabled'[p][i] = enabled[p][i] /\ thread' = thread
            /\ p \in arrived' <=> p \in arrived
        BY <1>2, <3>1
      <3> QED BY <3>1, <3>2 DEF AsAsked, isThreadRunning
    <2> QED BY <2>1 DEF AllAsAskedBut
  <1>5. \A i \in Jobs : Pending(o, from, i)'
    <2>1. \A i \in Jobs : Off(o, i) /\ AsAsked(from, i)
      BY DEF Moves, EmptyAll, Empty, AllAsAskedBut
    <2>2. \A i \in Jobs : Off(o, i)'
      BY <1>2, <2>1 DEF Off, isThreadRunning
    <2> QED BY <1>1, <1>2, <2>1, <2>2 DEF AsAsked, Pending, isThreadRunning
  <1>6. Between(o, from, "keeper")'
    BY <1>1, <1>2, <1>4, <1>5 DEF Between, Earlier, Later, Jobs
  <1>7. Moving(o, from, "keeper", rest)'
    BY <1>0, <1>2, <1>5, <1>6 DEF Moving, MovingJob
  <1>8. rest \in MoveEnds(o)'
    <2>1. ASSUME NEW node \in Objects \ {o}, base[node] = "none" PROVE base'[node] = "none"
      BY <1>2, <2>1 DEF Moves
    <2> QED BY <2>1 DEF MoveEnds
  <1> QED BY <1>0, <1>2, <1>3, <1>7, <1>8 DEF Control

\* A step that only touches one job of the two objects.
LEMMA BetweenStays ==
  ASSUME LifecycleTypeOK, EmptyAll, NEW o \in Objects, NEW from \in Objects, NEW j \in Jobs,
         Between(o, from, j), UNCHANGED unmoved,
         \A p \in Objects, i \in Jobs : (p # o /\ p # from) \/ i # j =>
           thread'[p][i] = thread[p][i] /\ enabled'[p][i] = enabled[p][i]
  PROVE  Between(o, from, j)' /\ EmptyAll' /\ MoveEnds(o)' = MoveEnds(o)
  <1>j. /\ \A i \in Earlier(j) : i \in Jobs /\ i # j
        /\ \A i \in Later(j) : i \in Jobs /\ i # j
    BY DEF Earlier, Later, Jobs
  <1>1. base' = base /\ wanted' = wanted /\ arrived' = arrived
    BY DEF unmoved
  <1>2. AllAsAskedBut({o, from})'
    BY <1>1 DEF Between, AllAsAskedBut, AsAsked, isThreadRunning
  <1>3. \A i \in Earlier(j) : AsAsked(o, i)' /\ Off(from, i)'
    BY <1>1, <1>j DEF Between, AsAsked, Off, isThreadRunning
  <1>4. \A i \in Later(j) : Pending(o, from, i)'
    BY <1>1, <1>j DEF Between, Pending, Off, isThreadRunning
  <1>5. EmptyAll'
    <2>1. \A p \in Objects : base[p] = "none" => p \notin {o, from}
      BY DEF Between
    <2> QED BY <1>1, <2>1 DEF EmptyAll, Empty, Off, isThreadRunning
  <1>6. Between(o, from, j)'
    BY <1>1, <1>2, <1>3, <1>4 DEF Between
  <1>7. MoveEnds(o)' = MoveEnds(o)
    BY <1>1 DEF MoveEnds
  <1> QED BY <1>5, <1>6, <1>7

\* The parts of the jobs that are moved by taking over `enabled' first.
LEMMA MovingJobStep ==
  ASSUME LifecycleTypeOK, EmptyAll, ~terminated, NEW o \in Objects, NEW from \in Objects,
         NEW j \in Jobs \ {"dns"}, NEW rest \in MoveEnds(o), Between(o, from, j),
         MovingJob(o, from, j, AfterMoved(o, from, j, rest)), CallStep
  PROVE  ~terminated' /\ EmptyAll' /\ Control'
  <1>0. rest \in Seq(AnyStep)
    BY EndsAreSteps
  <1>1. PICK next \in Seq(AnyStep) : next = AfterMoved(o, from, j, rest)
    BY <1>0, MoveIsSteps
  <1>2. PICK relaunch \in Seq(AnyStep) : relaunch = RelaunchThen(o, j, next)
    BY StopIsSteps
  <1>3. PICK join \in Seq(AnyStep) : join = JoinThen(from, j, relaunch)
    BY StopIsSteps
  <1>4. PICK stop \in Seq(AnyStep) : stop = StopThen(from, j, relaunch)
    BY StopIsSteps
  <1>5. o # from /\ j # "dns" /\ j \in Jobs
    BY DEF Between
  <1>b. ASSUME UNCHANGED unmoved,
               \A p \in Objects, i \in Jobs : (p # o /\ p # from) \/ i # j =>
                 thread'[p][i] = thread[p][i] /\ enabled'[p][i] = enabled[p][i]
        PROVE  Between(o, from, j)' /\ EmptyAll' /\ MoveEnds(o)' = MoveEnds(o)
    BY <1>5, <1>b, BetweenStays
  <1>6. ASSUME Moving(o, from, j, rest)', MoveEnds(o)' = MoveEnds(o)
        PROVE  Control'
    BY <1>5, <1>6 DEF Control
  <1>7. CASE todo = MoveJobThen(o, from, j, next) /\ Pending(o, from, j)
    <2>1. todo = Then(JobStep("take", o, j, from), stop)
      BY <1>2, <1>4, <1>7 DEF MoveJobThen, TakeThen
    <2>2. /\ todo' = stop /\ UNCHANGED <<unmoved, thread, terminated>>
          /\ \A p \in Objects, i \in Jobs :
               enabled'[p][i] = IF p = o /\ i = j THEN enabled[from][j] ELSE enabled[p][i]
      BY <1>5, <2>1, TakeDoes
    <2>o. /\ UNCHANGED unmoved
          /\ \A p \in Objects, i \in Jobs : (p # o /\ p # from) \/ i # j =>
               thread'[p][i] = thread[p][i] /\ enabled'[p][i] = enabled[p][i]
      BY <2>2
    <2>3. Between(o, from, j)' /\ EmptyAll' /\ MoveEnds(o)' = MoveEnds(o)
      BY <1>b, <2>o
    <2>4. Taken(o, j)'
      BY <1>5, <1>7, <2>2 DEF Taken, Pending, Off, isThreadRunning, unmoved
    <2>5. MovingJob(o, from, j, next)'
      BY <1>2, <1>4, <2>2, <2>4 DEF MovingJob
    <2>6. Moving(o, from, j, rest)'
      BY <1>1, <1>5, <2>3, <2>5 DEF Moving
    <2> QED BY <1>6, <2>2, <2>3, <2>6
  <1>8. CASE todo = stop /\ Taken(o, j)
    <2>1. todo = Then(JobStep("stop", from, j, from), join)
      BY <1>3, <1>4, <1>8 DEF StopThen
    <2>2. /\ todo' = join /\ UNCHANGED <<unmoved, thread, terminated>>
          /\ \A p \in Objects, i \in Jobs :
               enabled'[p][i] = IF p = from /\ i = j THEN FALSE ELSE enabled[p][i]
      BY <1>5, <2>1, StopDoes
    <2>a. /\ UNCHANGED unmoved
          /\ \A p \in Objects, i \in Jobs : (p # o /\ p # from) \/ i # j =>
               thread'[p][i] = thread[p][i] /\ enabled'[p][i] = enabled[p][i]
      BY <2>2
    <2>3. Between(o, from, j)' /\ EmptyAll' /\ MoveEnds(o)' = MoveEnds(o)
      BY <1>5, <2>a, BetweenStays
    <2>4. Taken(o, j)' /\ enabled'[from][j] = FALSE
      BY <1>5, <1>8, <2>2 DEF Taken, isThreadRunning, unmoved
    <2>5. MovingJob(o, from, j, next)'
      BY <1>2, <1>3, <2>2, <2>4 DEF MovingJob
    <2>6. Moving(o, from, j, rest)'
      BY <1>1, <1>5, <2>3, <2>5 DEF Moving
    <2> QED BY <1>6, <2>2, <2>3, <2>6
  <1>9. CASE todo = join /\ Taken(o, j) /\ enabled[from][j] = FALSE
    <2>1. todo = Then(JobStep("join", from, j, from), relaunch)
      BY <1>3, <1>9 DEF JoinThen
    <2>2. /\ todo' = relaunch /\ UNCHANGED <<unmoved, enabled, terminated>>
          /\ \A p \in Objects, i \in Jobs :
               thread'[p][i] = IF p = from /\ i = j THEN "none" ELSE thread[p][i]
      BY <1>5, <2>1, JoinDoes
    <2>o. /\ UNCHANGED unmoved
          /\ \A p \in Objects, i \in Jobs : (p # o /\ p # from) \/ i # j =>
               thread'[p][i] = thread[p][i] /\ enabled'[p][i] = enabled[p][i]
      BY <2>2
    <2>3. Between(o, from, j)' /\ EmptyAll' /\ MoveEnds(o)' = MoveEnds(o)
      BY <1>b, <2>o
    <2>4. Taken(o, j)' /\ Off(from, j)'
      BY <1>5, <1>9, <2>2 DEF Taken, Off, isThreadRunning, unmoved
    <2>5. Moving(o, from, j, rest)'
      BY <1>1, <1>2, <2>2, <2>3, <2>4 DEF Moving
    <2> QED BY <1>6, <2>2, <2>3, <2>5
  <1> QED BY <1>1, <1>2, <1>3, <1>4, <1>7, <1>8, <1>9 DEF MovingJob

\* The part of the DNS management, whose thread is stopped first.
LEMMA MovingDnsStep ==
  ASSUME LifecycleTypeOK, EmptyAll, ~terminated, NEW o \in Objects, NEW from \in Objects,
         NEW rest \in MoveEnds(o), Between(o, from, "dns"), MovingDns(o, from, rest), CallStep
  PROVE  ~terminated' /\ EmptyAll' /\ Control'
  <1>s. ASSUME NEW i \in Jobs, NEW r \in Seq(AnyStep), todo = Then(JobStep("stop", from, i, from), r)
        PROVE  /\ todo' = r /\ UNCHANGED <<unmoved, thread, terminated>>
               /\ \A p \in Objects, k \in Jobs :
                    enabled'[p][k] = IF p = from /\ k = i THEN FALSE ELSE enabled[p][k]
    BY <1>s, StopDoes, ZenonT(60)
  <1>0. rest \in Seq(AnyStep)
    BY EndsAreSteps
  <1>1. PICK dns \in Jobs : dns = "dns"
    BY DEF Jobs
  <1>2. PICK relaunch \in Seq(AnyStep) : relaunch = RelaunchThen(o, dns, rest)
    BY <1>0, StopIsSteps
  <1>3. PICK last \in Seq(AnyStep) : last = TakeThen(o, from, dns, relaunch)
    BY StopIsSteps
  <1>4. PICK join \in Seq(AnyStep) : join = JoinThen(from, dns, last)
    BY StopIsSteps
  <1>5. o # from /\ Between(o, from, dns)
    BY <1>1 DEF Between
  <1>b. ASSUME UNCHANGED unmoved,
               \A p \in Objects, i \in Jobs : (p # o /\ p # from) \/ i # dns =>
                 thread'[p][i] = thread[p][i] /\ enabled'[p][i] = enabled[p][i]
        PROVE  Between(o, from, dns)' /\ EmptyAll' /\ MoveEnds(o)' = MoveEnds(o)
    BY <1>5, <1>b, BetweenStays
  <1>6. ASSUME Moving(o, from, dns, rest)', MoveEnds(o)' = MoveEnds(o)
        PROVE  Control'
    BY <1>6 DEF Control
  <1>7. CASE todo = StopThen(from, dns, last) /\ Off(o, dns)
    <2>1. todo = Then(JobStep("stop", from, dns, from), join)
      BY <1>4, <1>7 DEF StopThen
    <2>2. /\ todo' = join /\ UNCHANGED <<unmoved, thread, terminated>>
          /\ \A p \in Objects, i \in Jobs :
               enabled'[p][i] = IF p = from /\ i = dns THEN FALSE ELSE enabled[p][i]
      BY <1>s, <2>1
    <2>o. /\ UNCHANGED unmoved
          /\ \A p \in Objects, i \in Jobs : (p # o /\ p # from) \/ i # dns =>
               thread'[p][i] = thread[p][i] /\ enabled'[p][i] = enabled[p][i]
      BY <2>2
    <2>3. Between(o, from, dns)' /\ EmptyAll' /\ MoveEnds(o)' = MoveEnds(o)
      BY <1>b, <2>o
    <2>4. Off(o, dns)' /\ enabled'[from][dns] = FALSE
      BY <1>5, <1>7, <2>2 DEF Off, isThreadRunning
    <2>5. MovingDns(o, from, rest)'
      BY <1>1, <1>2, <1>3, <1>4, <2>2, <2>4 DEF MovingDns
    <2>6. Moving(o, from, dns, rest)'
      BY <1>1, <2>3, <2>5 DEF Moving
    <2> QED BY <1>6, <2>2, <2>3, <2>6
  <1>8. CASE todo = join /\ Off(o, dns) /\ enabled[from][dns] = FALSE
    <2>1. todo = Then(JobStep("join", from, dns, from), last)
      BY <1>4, <1>8 DEF JoinThen
    <2>2. /\ todo' = last /\ UNCHANGED <<unmoved, enabled, terminated>>
          /\ \A p \in Objects, i \in Jobs :
               thread'[p][i] = IF p = from /\ i = dns THEN "none" ELSE thread[p][i]
      BY <1>5, <2>1, JoinDoes
    <2>o. /\ UNCHANGED unmoved
          /\ \A p \in Objects, i \in Jobs : (p # o /\ p # from) \/ i # dns =>
               thread'[p][i] = thread[p][i] /\ enabled'[p][i] = enabled[p][i]
      BY <2>2
    <2>3. Between(o, from, dns)' /\ EmptyAll' /\ MoveEnds(o)' = MoveEnds(o)
      BY <1>b, <2>o
    <2>4. Off(o, dns)' /\ Off(from, dns)'
      BY <1>5, <1>8, <2>2 DEF Off, isThreadRunning
    <2>5. MovingDns(o, from, rest)'
      BY <1>1, <1>2, <1>3, <2>2, <2>4 DEF MovingDns
    <2>6. Moving(o, from, dns, rest)'
      BY <1>1, <2>3, <2>5 DEF Moving
    <2> QED BY <1>6, <2>2, <2>3, <2>6
  <1>9. CASE todo = last /\ Off(o, dns) /\ Off(from, dns)
    <2>1. todo = Then(JobStep("take", o, dns, from), relaunch)
      BY <1>3, <1>9 DEF TakeThen
    <2>2. /\ todo' = relaunch /\ UNCHANGED <<unmoved, thread, terminated>>
          /\ \A p \in Objects, i \in Jobs :
               enabled'[p][i] = IF p = o /\ i = dns THEN enabled[from][dns] ELSE enabled[p][i]
      BY <1>5, <2>1, TakeDoes
    <2>o. /\ UNCHANGED unmoved
          /\ \A p \in Objects, i \in Jobs : (p # o /\ p # from) \/ i # dns =>
               thread'[p][i] = thread[p][i] /\ enabled'[p][i] = enabled[p][i]
      BY <2>2
    <2>3. Between(o, from, dns)' /\ EmptyAll' /\ MoveEnds(o)' = MoveEnds(o)
      BY <1>b, <2>o
    <2>4. Taken(o, dns)' /\ Off(from, dns)'
      BY <1>1, <1>5, <1>9, <2>2 DEF Taken, Off, isThreadRunning, unmoved
    <2>5. Moving(o, from, dns, rest)'
      BY <1>1, <1>2, <2>2, <2>3, <2>4 DEF Moving, AfterMoved
    <2> QED BY <1>6, <2>2, <2>3, <2>5
  <1> QED BY <1>1, <1>2, <1>3, <1>4, <1>7, <1>8, <1>9 DEF MovingDns

\* The thread of the moved job starts, and the part of the next job is moved.
LEMMA RelaunchStep ==
  ASSUME LifecycleTypeOK, EmptyAll, ~terminated, NEW o \in Objects, NEW from \in Objects,
         NEW j \in Jobs, NEW rest \in MoveEnds(o), Between(o, from, j),
         todo = RelaunchThen(o, j, AfterMoved(o, from, j, rest)), Taken(o, j), Off(from, j),
         CallStep
  PROVE  ~terminated' /\ EmptyAll' /\ Control'
  <1>0. rest \in Seq(AnyStep)
    BY EndsAreSteps
  <1>1. PICK next \in Seq(AnyStep) : next = AfterMoved(o, from, j, rest)
    BY <1>0, MoveIsSteps
  <1>2. /\ todo' = next /\ UNCHANGED unmoved
        /\ \/ enabled[o][j] = TRUE /\ LaunchedAt(o, j)
           \/ enabled[o][j] = FALSE /\ UNCHANGED <<enabled, thread, terminated>>
    BY <1>1, RelaunchDoes DEF RelaunchThen
  <1>3. o # from
    BY DEF Between
  <1>4. \A p \in Objects, i \in Jobs : p # o \/ i # j =>
          thread'[p][i] = thread[p][i] /\ enabled'[p][i] = enabled[p][i]
    BY <1>2 DEF LaunchedAt
  <1>5. Between(o, from, j)' /\ EmptyAll' /\ MoveEnds(o)' = MoveEnds(o)
    BY <1>2, <1>4, BetweenStays
  <1>6. ~terminated'
    BY <1>2 DEF LaunchedAt, Taken
  <1>7. AsAsked(o, j)'
    <2>1. wanted' = wanted /\ arrived' = arrived /\ o \in arrived
      BY <1>2 DEF unmoved, Between
    <2>2. CASE enabled[o][j] = TRUE /\ LaunchedAt(o, j)
      <3>1. thread'[o][j] = "running" /\ enabled'[o][j] = TRUE
        BY <2>2 DEF LaunchedAt
      <3> QED BY <2>1, <2>2, <3>1 DEF AsAsked, isThreadRunning, Taken
    <2>3. CASE enabled[o][j] = FALSE /\ UNCHANGED <<enabled, thread, terminated>>
      BY <2>1, <2>3 DEF AsAsked, isThreadRunning, Taken
    <2> QED BY <1>2, <2>2, <2>3
  <1>8. Off(from, j)'
    BY <1>3, <1>4 DEF Off, isThreadRunning
  <1>9. CASE j = "keeper"
    <2>1. todo' = MoveJobThen(o, from, "health", AfterMoved(o, from, "health", rest))
      BY <1>1, <1>2, <1>9 DEF AfterMoved
    <2>2. Between(o, from, "health")' /\ Pending(o, from, "health")'
      BY <1>5, <1>7, <1>8, <1>9 DEF Between, Earlier, Later
    <2>3. Moving(o, from, "health", rest)' /\ "health" \in Jobs
      BY <2>1, <2>2 DEF Moving, MovingJob, Jobs
    <2> QED BY <1>5, <1>6, <2>3 DEF Control
  <1>10. CASE j = "health"
    <2>1. todo' = MoveDnsThen(o, from, rest)
      BY <1>1, <1>2, <1>10 DEF AfterMoved
    <2>2. Between(o, from, "dns")' /\ Off(o, "dns")'
      BY <1>5, <1>7, <1>8, <1>10 DEF Between, Earlier, Later, Pending
    <2>3. MovingDns(o, from, rest)'
      BY <2>1, <2>2 DEF MovingDns, MoveDnsThen
    <2>4. Moving(o, from, "dns", rest)' /\ "dns" \in Jobs
      BY <2>2, <2>3 DEF Moving, Jobs
    <2> QED BY <1>5, <1>6, <2>4 DEF Control
  <1>11. CASE j = "dns"
    <2>1. todo' = rest
      BY <1>1, <1>2, <1>11 DEF AfterMoved
    <2>2. \A i \in Jobs : AsAsked(o, i)' /\ Off(from, i)'
      BY <1>5, <1>7, <1>8, <1>11 DEF Between, Earlier, Jobs
    <2>3. base'[o] = "here" /\ wanted'[from] = {} /\ AllAsAskedBut({o, from})'
      BY <1>5 DEF Between
    <2>4. \A i \in Jobs : AsAsked(from, i)'
      BY <2>2, <2>3 DEF AsAsked, Off
    <2>5. AllAsAskedBut({})'
      BY <2>2, <2>3, <2>4 DEF AllAsAskedBut
    <2>6. rest \in MoveEnds(o)'
      BY <1>5
    <2> QED BY <1>5, <1>6, <2>1, <2>3, <2>5, <2>6, ResumeMove
  <1> QED BY <1>9, <1>10, <1>11 DEF Jobs

\* The map takes the node, or the node is destroyed.
LEMMA InsertingStep ==
  ASSUME LifecycleTypeOK, EmptyAll, ~terminated, NEW id \in SlaveIds, NEW o \in Objects,
         NEW rest \in DestroyEnds, Inserting(id, o, rest), StepInsert
  PROVE  ~terminated' /\ EmptyAll' /\ Control'
  <1>0. rest \in Seq(AnyStep)
    BY EndsAreSteps
  <1>1. PICK step \in AnyStep : step = [op |-> "insert", id |-> id, o |-> o]
    BY StepForms
  <1>2. Now = step /\ Tail(todo) = rest
    BY <1>0, <1>1, Begins DEF Inserting, InsertThen, Now
  <1>3. UNCHANGED <<unmoved, enabled, thread, terminated>>
    BY DEF StepInsert, unmoved
  <1>4. EmptyAll' /\ AllAsAskedBut({})' /\ ~terminated'
    BY <1>3 DEF EmptyAll, Empty, Off, isThreadRunning, AllAsAskedBut, AsAsked, Inserting, unmoved
  <1>5. CASE todo' = rest
    BY <1>4, <1>5, ResumeDestroy
  <1>6. CASE todo' = Destroy(o) \o rest
    <2>1. todo' = DestroyThen(o, rest)
      BY <1>0, <1>6, DestroyForm
    <2>2. AllAsAskedBut({o})'
      BY <1>4 DEF AllAsAskedBut
    <2>3. Destroying(o, "dns", rest)' /\ "dns" \in Jobs
      BY <2>1, <2>2 DEF Destroying, DestroyThen, Later, Jobs
    <2> QED BY <1>4, <2>3 DEF Control
  <1> QED BY <1>1, <1>2, <1>5, <1>6 DEF StepInsert

\* What is known of a call depends on which threads are joinable, not on which of
\* them still run.
LEMMA SameThreads ==
  ASSUME EmptyAll, Control, ~terminated, UNCHANGED <<unmoved, enabled, todo, terminated>>,
         \A p \in Objects, i \in Jobs : isThreadRunning(p, i)' <=> isThreadRunning(p, i)
  PROVE  ~terminated' /\ EmptyAll' /\ Control'
  <1>1. /\ UNCHANGED <<unmoved, enabled, todo, terminated>> /\ ~terminated
        /\ \A p \in Objects, i \in Jobs : isThreadRunning(p, i)' <=> isThreadRunning(p, i)
    OBVIOUS
  <1>2. /\ base' = base /\ enabled' = enabled /\ todo' = todo /\ wanted' = wanted
        /\ arrived' = arrived /\ ~terminated'
    BY <1>1 DEF unmoved
  <1>3. \A p \in Objects, i \in Jobs :
          /\ AsAsked(p, i) => AsAsked(p, i)'
          /\ Off(p, i) => Off(p, i)'
          /\ Taken(p, i) => Taken(p, i)'
    BY <1>1, <1>2 DEF AsAsked, Off, Taken
  <1>4. \A p, from \in Objects, i \in Jobs : Pending(p, from, i) => Pending(p, from, i)'
    BY <1>1, <1>2, <1>3 DEF Pending
  <1>5. EmptyAll'
    BY <1>2, <1>3 DEF EmptyAll, Empty
  <1>6. \A apart : AllAsAskedBut(apart) => \A p \in Objects \ apart, i \in Jobs : AsAsked(p, i)'
    BY <1>3 DEF AllAsAskedBut
  <1>7. ASSUME todo = <<>>, AllAsAskedBut({}) PROVE Control'
    BY <1>2, <1>3, <1>7 DEF Control, AllAsAskedBut
  <1>8. ASSUME NEW p \in Objects, NEW i \in Jobs, Starting(p, i) PROVE Control'
    <2>1. Starting(p, i)'
      BY <1>2, <1>3, <1>8 DEF Starting, AllAsAskedBut
    <2> QED BY <2>1 DEF Control
  <1>9. ASSUME NEW p \in Objects, NEW i \in Jobs, Stopping(p, i) PROVE Control'
    <2>1. Stopping(p, i)'
      BY <1>2, <1>3, <1>9 DEF Stopping, AllAsAskedBut
    <2> QED BY <2>1 DEF Control
  <1>10. ASSUME NEW p \in Objects, NEW rest \in DestroyEnds, Freeing(p, rest) PROVE Control'
    <2>1. Freeing(p, rest)'
      BY <1>2, <1>3, <1>10 DEF Freeing, AllAsAskedBut
    <2> QED BY <2>1 DEF Control
  <1>11. ASSUME NEW p \in Objects, NEW i \in Jobs, NEW rest \in DestroyEnds,
                Destroying(p, i, rest)
         PROVE  Control'
    <2>0. Later(i) \subseteq Jobs
      BY DEF Later, Jobs
    <2>1. Destroying(p, i, rest)'
      BY <1>2, <1>3, <1>11, <2>0 DEF Destroying, AllAsAskedBut
    <2> QED BY <2>1 DEF Control
  <1>12. ASSUME NEW p \in Objects, NEW id \in SlaveIds, NEW rest \in DestroyEnds,
                Inserting(id, p, rest)
         PROVE  Control'
    <2>1. Inserting(id, p, rest)'
      BY <1>2, <1>3, <1>12 DEF Inserting, AllAsAskedBut
    <2> QED BY <2>1 DEF Control
  <1>13. ASSUME NEW p \in Objects, NEW from \in Objects, NEW rest \in MoveEnds(p),
                Moves(p, from, rest)
         PROVE  Control'
    <2>1. Moves(p, from, rest)' /\ rest \in MoveEnds(p)'
      BY <1>2, <1>3, <1>13 DEF Moves, AllAsAskedBut, MoveEnds
    <2> QED BY <2>1 DEF Control
  <1>14. ASSUME NEW p \in Objects, NEW from \in Objects, NEW i \in Jobs,
                NEW rest \in MoveEnds(p), Moving(p, from, i, rest)
         PROVE  Control'
    <2>0. Later(i) \subseteq Jobs /\ Earlier(i) \subseteq Jobs
      BY DEF Later, Earlier, Jobs
    <2>1. Between(p, from, i)'
      BY <1>2, <1>3, <1>4, <1>14, <2>0 DEF Moving, Between, AllAsAskedBut
    <2>2. ASSUME NEW next, MovingJob(p, from, i, next) PROVE MovingJob(p, from, i, next)'
      BY <1>2, <1>3, <1>4, <2>2 DEF MovingJob
    <2>3. i = "dns" /\ MovingDns(p, from, rest) => MovingDns(p, from, rest)'
      BY <1>2, <1>3 DEF MovingDns
    <2>4. Moving(p, from, i, rest)'
      BY <1>2, <1>3, <1>14, <2>1, <2>2, <2>3 DEF Moving
    <2>5. rest \in MoveEnds(p)'
      BY <1>2 DEF MoveEnds
    <2> QED BY <2>4, <2>5 DEF Control
  <1> QED
    BY <1>2, <1>5, <1>7, <1>8, <1>9, <1>10, <1>11, <1>12, <1>13, <1>14 DEF Control

\* A thread that ends by itself is still joinable.
LEMMA JobStops ==
  ASSUME LifecycleTypeOK, EmptyAll, Control, NEW o \in Objects, NEW j \in Jobs,
         JobEnds(o, j) \/ JobFails(o, j)
  PROVE  ~terminated' /\ EmptyAll' /\ Control'
  <1>1. /\ UNCHANGED <<unmoved, enabled, todo, terminated>> /\ ~terminated
        /\ \A p \in Objects, i \in Jobs : isThreadRunning(p, i)' <=> isThreadRunning(p, i)
    <2>1. /\ UNCHANGED <<unmoved, enabled, todo, terminated>> /\ ~terminated
          /\ thread' = [thread EXCEPT ![o][j] = "ended"] /\ thread[o][j] = "running"
      BY DEF JobEnds, JobFails, unmoved
    <2>2. \A p \in Objects, i \in Jobs :
            thread'[p][i] = IF p = o /\ i = j THEN "ended" ELSE thread[p][i]
      BY <2>1 DEF LifecycleTypeOK
    <2> QED BY <2>1, <2>2 DEF isThreadRunning
  <1> QED BY <1>1, SameThreads

\* Wherever a call is, there is a next step, it is no insertion unless it is
\* `Inserting', and if it is a join, the thread has been told to end.
LEMMA StepHeads ==
  ASSUME NEW step \in AnyStep, NEW rest \in Seq(AnyStep), todo = Then(step, rest),
         step.op # "insert"
  PROVE  ~StepInsert /\ todo # <<>>
  <1>1. Now = step /\ todo # <<>>
    BY Begins DEF Now
  <1> QED BY <1>1 DEF StepInsert

LEMMA JobStepHeads ==
  ASSUME NEW o \in Objects, NEW j \in Jobs, NEW from \in Objects, NEW rest \in Seq(AnyStep),
         \/ \E op \in {"stop", "join", "launch", "relaunch", "take"} :
              todo = Then(JobStep(op, o, j, from), rest) /\ (op = "join" => enabled[o][j] = FALSE)
         \/ \E op \in {"move", "free"} : todo = Then(PoolStep(op, o, from), rest)
  PROVE  ~StepInsert /\ todo # <<>> /\ JoinsEnd
  <1>1. CASE \E op \in {"stop", "join", "launch", "relaunch", "take"} :
               todo = Then(JobStep(op, o, j, from), rest) /\ (op = "join" => enabled[o][j] = FALSE)
    <2>1. PICK op \in {"stop", "join", "launch", "relaunch", "take"} :
            todo = Then(JobStep(op, o, j, from), rest) /\ (op = "join" => enabled[o][j] = FALSE)
      BY <1>1
    <2>2. PICK step \in AnyStep : step = JobStep(op, o, j, from)
      BY StepForms
    <2>3. Now = step
      BY <2>1, <2>2, Begins DEF Now
    <2> QED BY <2>1, <2>2, <2>3, StepHeads DEF JobStep, JoinsEnd
  <1>2. CASE \E op \in {"move", "free"} : todo = Then(PoolStep(op, o, from), rest)
    <2>1. PICK op \in {"move", "free"} : todo = Then(PoolStep(op, o, from), rest)
      BY <1>2
    <2>2. PICK step \in AnyStep : step = PoolStep(op, o, from)
      BY StepForms
    <2>3. Now = step
      BY <2>1, <2>2, Begins DEF Now
    <2> QED BY <2>1, <2>2, <2>3, StepHeads DEF PoolStep, JoinsEnd
  <1> QED BY <1>1, <1>2

LEMMA StartHeads ==
  ASSUME NEW o \in Objects, NEW j \in Jobs, Starting(o, j) \/ Stopping(o, j)
  PROVE  ~StepInsert /\ todo # <<>> /\ JoinsEnd
  <1>0. LaunchLast(o, j) \in Seq(AnyStep) /\ <<>> \in Seq(AnyStep)
    BY LaunchIsSteps
  <1>1. ASSUME NEW rest \in Seq(AnyStep),
               \/ todo = StopThen(o, j, rest)
               \/ todo = JoinThen(o, j, rest) /\ enabled[o][j] = FALSE
        PROVE  ~StepInsert /\ todo # <<>> /\ JoinsEnd
    <2>1. PICK join \in Seq(AnyStep) : join = JoinThen(o, j, rest)
      BY StopIsSteps
    <2>2. \/ todo = Then(JobStep("stop", o, j, o), join)
          \/ todo = Then(JobStep("join", o, j, o), rest) /\ enabled[o][j] = FALSE
      BY <1>1, <2>1 DEF StopThen, JoinThen
    <2> QED BY <2>2, JobStepHeads
  <1>2. CASE todo = LaunchLast(o, j)
    <2>1. todo = Then(JobStep("launch", o, j, o), <<>>)
      BY <1>2, LaunchIsSteps
    <2> QED BY <1>0, <2>1, JobStepHeads
  <1> QED BY <1>0, <1>1, <1>2 DEF Starting, Stopping

LEMMA DestroyHeads ==
  ASSUME NEW o \in Objects, NEW rest \in DestroyEnds,
         Freeing(o, rest) \/ \E j \in Jobs : Destroying(o, j, rest)
  PROVE  ~StepInsert /\ todo # <<>> /\ JoinsEnd
  <1>0. rest \in Seq(AnyStep) /\ "dns" \in Jobs
    BY EndsAreSteps DEF Jobs
  <1>1. CASE Freeing(o, rest)
    <2>1. todo = Then(PoolStep("free", o, o), rest)
      BY <1>1 DEF Freeing, FreeThen
    <2> QED BY <1>0, <2>1, JobStepHeads
  <1>2. ASSUME NEW j \in Jobs, Destroying(o, j, rest) PROVE ~StepInsert /\ todo # <<>> /\ JoinsEnd
    <2>1. PICK next \in Seq(AnyStep) : next = AfterPart(o, j, rest)
      BY <1>0, MoveIsSteps
    <2>2. PICK join \in Seq(AnyStep) : join = JoinThen(o, j, next)
      BY StopIsSteps
    <2>3. \/ todo = Then(JobStep("stop", o, j, o), join)
          \/ todo = Then(JobStep("join", o, j, o), next) /\ enabled[o][j] = FALSE
      BY <1>2, <2>1, <2>2 DEF Destroying, StopThen, JoinThen
    <2> QED BY <2>3, JobStepHeads
  <1> QED BY <1>1, <1>2

LEMMA MoveHeads ==
  ASSUME NEW o \in Objects, NEW from \in Objects, NEW rest \in MoveEnds(o),
         Moves(o, from, rest) \/ \E j \in Jobs : Moving(o, from, j, rest)
  PROVE  ~StepInsert /\ todo # <<>> /\ JoinsEnd
  <1>0. rest \in Seq(AnyStep) /\ "dns" \in Jobs /\ "keeper" \in Jobs
    BY EndsAreSteps DEF Jobs
  <1>1. CASE Moves(o, from, rest)
    <2>1. PICK next \in Seq(AnyStep) : next = AfterMoved(o, from, "keeper", rest)
      BY <1>0, MoveIsSteps
    <2>2. PICK steps \in Seq(AnyStep) : steps = MoveJobThen(o, from, "keeper", next)
      BY <1>0, MoveIsSteps
    <2>3. todo = Then(PoolStep("move", o, from), steps)
      BY <1>1, <2>1, <2>2 DEF Moves, MoveThen
    <2> QED BY <1>0, <2>3, JobStepHeads
  <1>2. ASSUME NEW j \in Jobs, Moving(o, from, j, rest) PROVE ~StepInsert /\ todo # <<>> /\ JoinsEnd
    <2>1. PICK next \in Seq(AnyStep) : next = AfterMoved(o, from, j, rest)
      BY <1>0, MoveIsSteps
    <2>2. CASE todo = RelaunchThen(o, j, next)
      <3>1. todo = Then(JobStep("relaunch", o, j, o), next)
        BY <2>2 DEF RelaunchThen
      <3> QED BY <3>1, JobStepHeads
    <2>3. CASE MovingJob(o, from, j, next)
      <3>1. PICK relaunch \in Seq(AnyStep) : relaunch = RelaunchThen(o, j, next)
        BY StopIsSteps
      <3>2. PICK join \in Seq(AnyStep) : join = JoinThen(from, j, relaunch)
        BY StopIsSteps
      <3>3. PICK stop \in Seq(AnyStep) : stop = StopThen(from, j, relaunch)
        BY StopIsSteps
      <3>4. \/ todo = Then(JobStep("take", o, j, from), stop)
            \/ todo = Then(JobStep("stop", from, j, from), join)
            \/ todo = Then(JobStep("join", from, j, from), relaunch) /\ enabled[from][j] = FALSE
        BY <2>3, <3>1, <3>2, <3>3 DEF MovingJob, MoveJobThen, TakeThen, StopThen, JoinThen
      <3> QED BY <3>4, JobStepHeads
    <2>4. CASE j = "dns" /\ MovingDns(o, from, rest)
      <3>1. PICK relaunch \in Seq(AnyStep) : relaunch = RelaunchThen(o, j, rest)
        BY <1>0, StopIsSteps
      <3>2. PICK last \in Seq(AnyStep) : last = TakeThen(o, from, j, relaunch)
        BY StopIsSteps
      <3>3. PICK join \in Seq(AnyStep) : join = JoinThen(from, j, last)
        BY StopIsSteps
      <3>4. \/ todo = Then(JobStep("take", o, j, from), relaunch)
            \/ todo = Then(JobStep("stop", from, j, from), join)
            \/ todo = Then(JobStep("join", from, j, from), last) /\ enabled[from][j] = FALSE
        BY <2>4, <3>1, <3>2, <3>3 DEF MovingDns, TakeThen, StopThen, JoinThen
      <3> QED BY <3>4, JobStepHeads
    <2> QED BY <1>2, <2>1, <2>2, <2>3, <2>4 DEF Moving
  <1> QED BY <1>1, <1>2

\* The step of an insertion is none of the steps of pools.
LEMMA InsertHeads ==
  ASSUME NEW id \in SlaveIds, NEW o \in Objects, NEW rest \in DestroyEnds,
         Inserting(id, o, rest)
  PROVE  ~CallStep /\ todo # <<>> /\ JoinsEnd
  <1>1. rest \in Seq(AnyStep)
    BY EndsAreSteps
  <1>2. PICK step \in AnyStep : step = [op |-> "insert", id |-> id, o |-> o]
    BY StepForms
  <1>3. todo = Then(step, rest)
    BY <1>2 DEF Inserting, InsertThen
  <1>4. step.op = "insert"
    BY <1>2
  <1>5. todo # <<>> /\ Now = step
    BY <1>1, <1>3, Begins DEF Now
  <1>6. JoinsEnd
    BY <1>4, <1>5 DEF JoinsEnd
  <1> QED BY <1>1, <1>3, <1>4, <1>5, <1>6, StepOf

\* A step of a call leads to where the call is next.
LEMMA CallSteps ==
  ASSUME LifecycleTypeOK, EmptyAll, ~terminated, Control, CallStep \/ StepInsert
  PROVE  ~terminated' /\ EmptyAll' /\ Control'
  <1>1. CASE todo = <<>>
    BY <1>1 DEF CallStep, StepStop, StepJoin, StepLaunch, StepRelaunch, StepTake, StepMove,
                StepFree, Takes, StepInsert
  <1>2. ASSUME NEW o \in Objects, NEW j \in Jobs, Starting(o, j) \/ Stopping(o, j)
        PROVE  ~terminated' /\ EmptyAll' /\ Control'
    BY <1>2, StartHeads, StartingStep, StoppingStep
  <1>3. ASSUME NEW o \in Objects, NEW rest \in DestroyEnds,
               Freeing(o, rest) \/ \E j \in Jobs : Destroying(o, j, rest)
        PROVE  ~terminated' /\ EmptyAll' /\ Control'
    BY <1>3, DestroyHeads, FreeingStep, DestroyingStep
  <1>4. ASSUME NEW o \in Objects, NEW rest \in DestroyEnds, NEW id \in SlaveIds,
               Inserting(id, o, rest)
        PROVE  ~terminated' /\ EmptyAll' /\ Control'
    BY <1>4, InsertHeads, InsertingStep
  <1>5. ASSUME NEW o \in Objects, NEW from \in Objects, NEW rest \in MoveEnds(o),
               Moves(o, from, rest)
        PROVE  ~terminated' /\ EmptyAll' /\ Control'
    BY <1>5, MoveHeads, MovesStep
  <1>6. ASSUME NEW o \in Objects, NEW from \in Objects, NEW rest \in MoveEnds(o),
               NEW j \in Jobs, Moving(o, from, j, rest)
        PROVE  ~terminated' /\ EmptyAll' /\ Control'
    <2>1. CallStep
      BY <1>6, MoveHeads
    <2>2. CASE j # "dns" /\ MovingJob(o, from, j, AfterMoved(o, from, j, rest))
      BY <1>6, <2>1, <2>2, MovingJobStep DEF Moving
    <2>3. CASE j = "dns" /\ MovingDns(o, from, rest)
      BY <1>6, <2>1, <2>3, MovingDnsStep DEF Moving
    <2>4. CASE /\ todo = RelaunchThen(o, j, AfterMoved(o, from, j, rest))
               /\ Taken(o, j) /\ Off(from, j)
      BY <1>6, <2>1, <2>4, RelaunchStep DEF Moving
    <2> QED BY <1>6, <2>2, <2>3, <2>4 DEF Moving
  <1> QED BY <1>1, <1>2, <1>3, <1>4, <1>5, <1>6 DEF Control

\* When no call is on its way, all is as the user has asked.
LEMMA IdleMeans ==
  ASSUME Control, todo = <<>>
  PROVE  AllAsAskedBut({})
  BY StartHeads, DestroyHeads, MoveHeads, InsertHeads DEF Control

-----------------------------------------------------------------------------
(* The calls.                                                               *)

\* start...() and stop...()
LEMMA StartCalls ==
  ASSUME LifecycleTypeOK, EmptyAll, Control, NEW o \in Objects, NEW j \in Jobs,
         CallStart(o, j) \/ CallStop(o, j)
  PROVE  ~terminated' /\ EmptyAll' /\ Control'
  <1>1. AllAsAskedBut({}) /\ ~terminated
    BY IdleMeans DEF CallStart, CallStop, Idle
  <1>2. CASE CallStart(o, j)
    <2>1. /\ UNCHANGED <<base, enabled, thread, terminated, arrived>> /\ base[o] = "here"
          /\ j \in wanted'[o] /\ wanted'[o] = wanted[o] \cup {j}
          /\ \A p \in Objects : p # o => wanted'[p] = wanted[p]
      BY <1>2 DEF CallStart, LifecycleTypeOK
    <2>2. todo' = StopThen(o, j, LaunchLast(o, j))
      BY <1>2, StartForm DEF CallStart
    <2>3. Starting(o, j)'
      BY <1>1, <2>1, <2>2 DEF Starting, AllAsAskedBut, AsAsked, isThreadRunning
    <2>4. EmptyAll'
      BY <2>1 DEF EmptyAll, Empty, Off, isThreadRunning
    <2> QED BY <1>1, <2>1, <2>3, <2>4 DEF Control
  <1>3. CASE CallStop(o, j)
    <2>1. /\ UNCHANGED <<base, enabled, thread, terminated, arrived>> /\ base[o] = "here"
          /\ j \notin wanted'[o] /\ wanted'[o] = wanted[o] \ {j}
          /\ \A p \in Objects : p # o => wanted'[p] = wanted[p]
      BY <1>3 DEF CallStop, LifecycleTypeOK
    <2>e. <<>> \in Seq(AnyStep)
      OBVIOUS
    <2>2. todo' = StopThen(o, j, <<>>)
      <3>1. Stop(o, j) \o <<>> = Stop(o, j)
        BY <2>e, StopForm, ConcatEmptySeq
      <3> QED BY <1>3, <2>e, <3>1, StopForm DEF CallStop
    <2>3. Stopping(o, j)'
      BY <1>1, <2>1, <2>2 DEF Stopping, AllAsAskedBut, AsAsked, isThreadRunning
    <2>4. EmptyAll'
      BY <2>1 DEF EmptyAll, Empty, Off, isThreadRunning
    <2> QED BY <1>1, <2>1, <2>3, <2>4 DEF Control
  <1> QED BY <1>2, <1>3

\* The calls that set `todo' and nothing else that counts.
untouched == <<base, enabled, thread, wanted, arrived, terminated>>

LEMMA NothingHappened ==
  ASSUME EmptyAll, Control, Idle, UNCHANGED untouched
  PROVE  ~terminated' /\ EmptyAll' /\ AllAsAskedBut({})'
  <1>1. AllAsAskedBut({}) /\ ~terminated
    BY IdleMeans DEF Idle
  <1> QED
    BY <1>1 DEF EmptyAll, Empty, AllAsAskedBut, AsAsked, Off, isThreadRunning, untouched

LEMMA ConstructCalls ==
  ASSUME LifecycleTypeOK, EmptyAll, Control, NEW o \in Objects,
         Construct(o) \/ \E s \in Settings : Choose(o, s)
  PROVE  ~terminated' /\ EmptyAll' /\ Control'
  <1>1. AllAsAskedBut({}) /\ Idle
    BY IdleMeans DEF Construct, Choose, Idle
  <1>2. CASE Construct(o)
    <2>1. /\ UNCHANGED <<enabled, thread, wanted, arrived, terminated, todo>>
          /\ \A p \in Objects : base'[p] = IF p = o THEN "here" ELSE base[p]
      BY <1>2 DEF Construct, LifecycleTypeOK
    <2> QED
      BY <1>1, <2>1
      DEF EmptyAll, Empty, AllAsAskedBut, AsAsked, Off, isThreadRunning, Idle, Control
  <1>3. ASSUME NEW s \in Settings, Choose(o, s) PROVE ~terminated' /\ EmptyAll' /\ Control'
    <2>1. UNCHANGED untouched /\ todo' = todo
      BY <1>3 DEF Choose, untouched
    <2> QED BY <1>1, <2>1, NothingHappened DEF Idle, Control
  <1> QED BY <1>2, <1>3

LEMMA DestroyCalls ==
  ASSUME EmptyAll, Control, Idle, NEW o \in Objects, UNCHANGED untouched,
         todo' = Destroy(o)
  PROVE  ~terminated' /\ EmptyAll' /\ Control'
  <1>0. <<>> \in Seq(AnyStep)
    OBVIOUS
  <1>1. Destroy(o) \o <<>> = Destroy(o)
    BY <1>0, DestroyForm, ConcatEmptySeq
  <1>2. todo' = DestroyThen(o, <<>>)
    BY <1>0, <1>1, DestroyForm
  <1>3. DestroyThen(o, <<>>) \in DestroyEnds
    BY DEF DestroyEnds
  <1> QED BY <1>2, <1>3, NothingHappened, ResumeDestroy

\* A call that begins with a move.
LEMMA MoveCalls ==
  ASSUME EmptyAll, Control, Idle, UNCHANGED untouched,
         NEW o \in Objects, NEW from \in Objects, base[o] = "none", base[from] = "here",
         NEW rest \in MoveEnds(o), todo' = MoveThen(o, from, rest)
  PROVE  ~terminated' /\ EmptyAll' /\ Control'
  <1>1. base' = base
    BY DEF untouched
  <1>2. rest \in MoveEnds(o)'
    BY <1>1 DEF MoveEnds
  <1>3. Moves(o, from, rest)'
    BY <1>1, NothingHappened DEF Moves
  <1> QED BY <1>2, <1>3, NothingHappened DEF Control

\* The objects of a call are different, if one has a pool and the other has not.
LEMMA MoveCalled ==
  ASSUME EmptyAll, Control, NEW o \in Objects, NEW from \in Objects, CallMove(o, from)
  PROVE  ~terminated' /\ EmptyAll' /\ Control'
  <1>0. <<>> \in Seq(AnyStep) /\ <<>> \in MoveEnds(o)
    BY DEF MoveEnds, InsertEnds
  <1>1. Move(o, from) \in Seq(AnyStep) /\ Cat(Move(o, from), <<>>) = MoveThen(o, from, <<>>)
    BY <1>0, MoveForm
  <1>2. Cat(Move(o, from), <<>>) = Move(o, from)
    BY <1>1, ConcatEmptySeq DEF Cat
  <1>3. /\ Idle /\ base[o] = "none" /\ base[from] = "here" /\ UNCHANGED untouched
        /\ todo' = MoveThen(o, from, <<>>)
    BY <1>1, <1>2 DEF CallMove, untouched
  <1> QED BY <1>0, <1>3, MoveCalls

LEMMA InsertForm ==
  ASSUME NEW id \in SlaveIds, NEW o \in Objects, NEW rest \in Seq(AnyStep)
  PROVE  /\ InsertStep(id, o) \in Seq(AnyStep)
         /\ InsertStep(id, o) = InsertThen(id, o, <<>>)
         /\ Cat(InsertStep(id, o), rest) = InsertThen(id, o, rest)
  <1>1. PICK step \in AnyStep : step = [op |-> "insert", id |-> id, o |-> o]
    BY StepForms
  <1>2. InsertStep(id, o) = <<step>>
    BY <1>1 DEF InsertStep
  <1> QED BY <1>1, <1>2, Alone DEF InsertThen

LEMMA EmplaceCalled ==
  ASSUME EmptyAll, Control, NEW id \in SlaveIds, NEW node \in Objects, NEW from \in Objects,
         CallEmplace(id, node, from)
  PROVE  ~terminated' /\ EmptyAll' /\ Control'
  <1>0. <<>> \in Seq(AnyStep) /\ <<>> \in DestroyEnds
    BY DEF DestroyEnds
  <1>1. InsertStep(id, node) \in Seq(AnyStep) /\ InsertStep(id, node) = InsertThen(id, node, <<>>)
    BY <1>0, InsertForm
  <1>2. Cat(Move(node, from), InsertStep(id, node)) = MoveThen(node, from, InsertStep(id, node))
    BY <1>1, MoveForm
  <1>3. InsertStep(id, node) \in MoveEnds(node)
    <2>1. InsertThen(id, node, <<>>) \in InsertEnds
      BY <1>0 DEF InsertEnds
    <2> QED BY <1>1, <2>1 DEF MoveEnds
  <1>4. /\ Idle /\ base[node] = "none" /\ base[from] = "here" /\ UNCHANGED untouched
        /\ todo' = MoveThen(node, from, InsertStep(id, node))
    BY <1>2 DEF CallEmplace, untouched, Cat
  <1> QED BY <1>3, <1>4, MoveCalls

\* Three that count as three are different.
LEMMA ThreeApart ==
  ASSUME NEW x, NEW y, NEW z, Cardinality({x, y, z}) = 3
  PROVE  x # y /\ x # z
  <1>1. \A u, v : Cardinality({u, v}) # 3
    <2>1. ASSUME NEW u, NEW v PROVE Cardinality({u, v}) # 3
      <3>1. PICK one : one = {u} /\ IsFiniteSet(one) /\ Cardinality(one) = 1
        BY FS_Singleton
      <3>2. Cardinality(one \cup {v}) = IF v \in one THEN Cardinality(one) ELSE Cardinality(one) + 1
        BY <3>1, FS_AddElement
      <3>3. one \cup {v} = {u, v}
        BY <3>1
      <3>4. Cardinality({u, v}) = 1 \/ Cardinality({u, v}) = 1 + 1
        BY <3>1, <3>2, <3>3, Zenon
      <3> QED BY <3>4
    <2> QED BY <2>1
  <1>2. (x = y => {x, y, z} = {x, z}) /\ (x = z => {x, y, z} = {x, y})
    OBVIOUS
  <1> QED BY <1>1, <1>2, Zenon

LEMMA AddCalled ==
  ASSUME EmptyAll, Control, NEW id \in SlaveIds, NEW node \in Objects, NEW pair \in Objects,
         NEW from \in Objects, CallAdd(id, node, pair, from)
  PROVE  ~terminated' /\ EmptyAll' /\ Control'
  <1>0. <<>> \in Seq(AnyStep) /\ DestroyThen(pair, <<>>) \in DestroyEnds
    BY DEF DestroyEnds
  <1>1. Destroy(pair) \in Seq(AnyStep) /\ Destroy(pair) = DestroyThen(pair, <<>>)
    <2>1. Destroy(pair) \in Seq(AnyStep) /\ Destroy(pair) \o <<>> = DestroyThen(pair, <<>>)
      BY <1>0, DestroyForm
    <2> QED BY <2>1, ConcatEmptySeq
  <1>2. PICK insert \in Seq(AnyStep) : /\ insert = InsertStep(id, node)
                                       /\ Cat(insert, Destroy(pair))
                                            = InsertThen(id, node, Destroy(pair))
    BY <1>1, InsertForm
  <1>3. PICK last \in Seq(AnyStep) : last = InsertThen(id, node, Destroy(pair))
    BY <1>1, StopIsSteps DEF Jobs
  <1>4. last \in InsertEnds
    BY <1>0, <1>1, <1>3 DEF InsertEnds
  <1>5. PICK second \in Seq(AnyStep) : /\ second = Move(node, pair)
                                       /\ Cat(second, last) = MoveThen(node, pair, last)
    BY <1>3, MoveForm
  <1>6. PICK more \in Seq(AnyStep) : more = MoveThen(node, pair, last)
    BY <1>3, MoveIsSteps DEF Jobs
  <1>7. PICK first \in Seq(AnyStep) : /\ first = Move(pair, from)
                                      /\ Cat(first, more) = MoveThen(pair, from, more)
    BY <1>6, MoveForm
  <1>8. Cat(Cat(Cat(first, second), insert), Destroy(pair)) = Cat(first, Cat(second, last))
    <2>1. Cat(Cat(Cat(first, second), insert), Destroy(pair))
            = Cat(Cat(first, second), Cat(insert, Destroy(pair)))
      BY <1>1, CatAssociative
    <2>2. Cat(Cat(first, second), last) = Cat(first, Cat(second, last))
      BY CatAssociative
    <2> QED BY <1>2, <1>3, <2>1, <2>2
  <1>9. node # pair
    BY ThreeApart DEF CallAdd
  <1>10. /\ Idle /\ base[pair] = "none" /\ base[node] = "none" /\ base[from] = "here"
         /\ UNCHANGED untouched
    BY DEF CallAdd, untouched
  <1>11. todo' = MoveThen(pair, from, more)
    <2>1. todo' = Cat(Cat(Cat(first, second), insert), Destroy(pair))
      BY <1>2, <1>5, <1>7 DEF CallAdd, Cat
    <2> QED BY <1>5, <1>6, <1>7, <1>8, <2>1
  <1>12. more \in MoveEnds(pair)
    BY <1>4, <1>6, <1>9, <1>10 DEF MoveEnds
  <1> QED BY <1>10, <1>11, <1>12, MoveCalls

-----------------------------------------------------------------------------
(* Types, and the settings.                                                 *)

\* The step that is made has an object, a job and another object where it needs
\* them.
LEMMA NowHasType ==
  ASSUME todo \in Seq(AnyStep), todo # <<>>
  PROVE  /\ Tail(todo) \in Seq(AnyStep)
         /\ Now.op \in {"stop", "join", "launch", "relaunch", "take"} =>
              Now.o \in Objects /\ Now.j \in Jobs /\ Now.from \in Objects
         /\ Now.op \in {"move", "free"} => Now.o \in Objects /\ Now.from \in Objects
         /\ Now.op = "insert" => Now.o \in Objects /\ Now.id \in SlaveIds
  <1>1. Now \in AnyStep /\ Tail(todo) \in Seq(AnyStep)
    BY DEF Now
  <1> QED BY <1>1 DEF AnyStep, Steps, Insertions

LEMMA CallStepTypes ==
  ASSUME LifecycleTypeOK, todo \in Seq(AnyStep), CallStep
  PROVE  LifecycleTypeOK' /\ todo' \in Seq(AnyStep)
  <1>0. todo # <<>> /\ todo' = Tail(todo)
    BY DEF CallStep, StepStop, StepJoin, StepLaunch, StepRelaunch, StepTake, StepMove,
           StepFree, Takes
  <1>1. todo' \in Seq(AnyStep)
    BY <1>0, NowHasType
  <1>2. CASE StepStop
    BY <1>0, <1>2, NowHasType DEF StepStop, Takes, LifecycleTypeOK
  <1>3. CASE StepJoin
    BY <1>0, <1>3, NowHasType DEF StepJoin, Takes, LifecycleTypeOK
  <1>4. CASE StepLaunch
    BY <1>0, <1>4, NowHasType DEF StepLaunch, Launch, Takes, LifecycleTypeOK, isThreadRunning
  <1>5. CASE StepRelaunch
    <2>1. Now.o \in Objects /\ Now.j \in Jobs
      BY <1>0, <1>5, NowHasType DEF StepRelaunch, Takes
    <2>2. UNCHANGED <<base, settings, wanted, chosen, arrived>>
      BY <1>5 DEF StepRelaunch
    <2>3. ASSUME UNCHANGED <<enabled, thread, terminated>> PROVE LifecycleTypeOK'
      BY <2>2, <2>3 DEF LifecycleTypeOK
    <2>4. ASSUME Launch(Now.o, Now.j) PROVE LifecycleTypeOK'
      BY <2>1, <2>2, <2>4 DEF Launch, LifecycleTypeOK, isThreadRunning
    <2>5. LifecycleTypeOK'
      BY <1>5, <2>3, <2>4 DEF StepRelaunch
    <2> QED BY <1>1, <2>5
  <1>6. CASE StepTake
    BY <1>0, <1>6, NowHasType DEF StepTake, Takes, LifecycleTypeOK
  <1>7. CASE StepMove
    <2>1. Now.o \in Objects /\ Now.from \in Objects
      BY <1>0, <1>7, NowHasType DEF StepMove, Takes
    <2>2. base' \in [Objects -> {"none", "here", "gone"}] /\ arrived' \subseteq Objects
      BY <1>7, <2>1 DEF StepMove, LifecycleTypeOK
    <2>3. /\ enabled' \in [Objects -> [Jobs -> BOOLEAN]] /\ settings' \in [Objects -> SUBSET Settings]
          /\ thread' = thread /\ terminated' = terminated
      BY <1>7, <2>1 DEF StepMove, LifecycleTypeOK
    <2>4. wanted' \in [Objects -> SUBSET Jobs] /\ chosen' \in [Objects -> SUBSET Settings]
      BY <1>7, <2>1 DEF StepMove, LifecycleTypeOK
    <2> QED BY <1>1, <2>2, <2>3, <2>4 DEF LifecycleTypeOK
  <1>8. CASE StepFree
    <2>1. Now.o \in Objects
      BY <1>0, <1>8, NowHasType DEF StepFree, Takes
    <2> QED BY <1>1, <1>8, <2>1 DEF StepFree, LifecycleTypeOK
  <1> QED BY <1>1, <1>2, <1>3, <1>4, <1>5, <1>6, <1>7, <1>8 DEF CallStep

LEMMA FormTypes ==
  ASSUME NEW o \in Objects, NEW from \in Objects, NEW j \in Jobs
  PROVE  /\ Start(o, j) \in Seq(AnyStep) /\ Stop(o, j) \in Seq(AnyStep)
         /\ Move(o, from) \in Seq(AnyStep) /\ Destroy(o) \in Seq(AnyStep)
         /\ \A id \in SlaveIds : InsertStep(id, o) \in Seq(AnyStep)
  <1>1. <<>> \in Seq(AnyStep)
    OBVIOUS
  <1>2. LaunchLast(o, j) \in Seq(AnyStep)
    BY LaunchIsSteps
  <1>3. Start(o, j) \in Seq(AnyStep)
    BY <1>2, StartForm, StopIsSteps
  <1> QED BY <1>1, <1>3, StopForm, MoveForm, DestroyForm, InsertForm

LEMMA PoolCallTypes ==
  ASSUME MasterSlaveAssumption, MasterSlaveTypeOK, PoolCall
  PROVE  MasterSlaveTypeOK'
  <1>0. todo \in Seq(AnyStep) /\ slaves' = slaves /\ "keeper" \in Jobs
    BY DEF MasterSlaveTypeOK, AnyStep, PoolCall, Jobs
  <1>1. ASSUME NEW o \in Objects, Construct(o) PROVE LifecycleTypeOK' /\ todo' \in Seq(AnyStep)
    BY <1>0, <1>1 DEF Construct, MasterSlaveTypeOK, LifecycleTypeOK
  <1>2. ASSUME NEW o \in Objects, NEW j \in Jobs, CallStart(o, j) \/ CallStop(o, j)
        PROVE  LifecycleTypeOK' /\ todo' \in Seq(AnyStep)
    <2>1. todo' \in Seq(AnyStep)
      BY <1>2, FormTypes DEF CallStart, CallStop
    <2>2. UNCHANGED <<base, enabled, thread, settings, terminated, chosen, arrived>>
      BY <1>2 DEF CallStart, CallStop
    <2>3. wanted' \in [Objects -> SUBSET Jobs]
      <3>1. PICK X \in SUBSET Jobs : wanted' = [wanted EXCEPT ![o] = X]
        <4>1. wanted[o] \cup {j} \in SUBSET Jobs /\ wanted[o] \ {j} \in SUBSET Jobs
          BY DEF MasterSlaveTypeOK, LifecycleTypeOK
        <4> QED BY <1>2, <4>1 DEF CallStart, CallStop
      <3> QED BY <3>1 DEF MasterSlaveTypeOK, LifecycleTypeOK
    <2>4. LifecycleTypeOK'
      BY <2>2, <2>3 DEF MasterSlaveTypeOK, LifecycleTypeOK
    <2> QED BY <2>1, <2>4
  <1>3. ASSUME NEW o \in Objects, NEW s \in Settings, Choose(o, s)
        PROVE  LifecycleTypeOK' /\ todo' \in Seq(AnyStep)
    BY <1>0, <1>3 DEF Choose, MasterSlaveTypeOK, LifecycleTypeOK
  <1>4. ASSUME NEW o \in Objects, NEW from \in Objects, CallMove(o, from)
        PROVE  LifecycleTypeOK' /\ todo' \in Seq(AnyStep)
    <2>1. todo' \in Seq(AnyStep)
      BY <1>0, <1>4, FormTypes DEF CallMove
    <2>2. LifecycleTypeOK'
      BY <1>4 DEF CallMove, MasterSlaveTypeOK, LifecycleTypeOK
    <2> QED BY <2>1, <2>2
  <1>5. ASSUME NEW o \in Objects, CallDestroy(o)
        PROVE  LifecycleTypeOK' /\ todo' \in Seq(AnyStep)
    <2>1. todo' \in Seq(AnyStep)
      BY <1>0, <1>5, FormTypes DEF CallDestroy
    <2>2. LifecycleTypeOK'
      BY <1>5 DEF CallDestroy, MasterSlaveTypeOK, LifecycleTypeOK
    <2> QED BY <2>1, <2>2
  <1>6. Own \subseteq Objects
    BY DEF Own
  <1>7. LifecycleTypeOK' /\ todo' \in Seq(AnyStep)
    BY <1>1, <1>2, <1>3, <1>4, <1>5, <1>6 DEF PoolCall
  <1> QED BY <1>0, <1>7 DEF MasterSlaveTypeOK, AnyStep

LEMMA GroupCallTypes ==
  ASSUME MasterSlaveAssumption, MasterSlaveTypeOK, NEW id \in SlaveIds, NEW node \in Objects,
         NEW pair \in Objects, NEW from \in Objects,
         CallEmplace(id, node, from) \/ CallAdd(id, node, pair, from) \/ CallErase(id)
  PROVE  MasterSlaveTypeOK'
  <1>0. "keeper" \in Jobs
    BY DEF Jobs
  <1>1. LifecycleTypeOK'
    BY DEF CallEmplace, CallAdd, CallErase, MasterSlaveTypeOK, LifecycleTypeOK
  <1>2. slaves' \in [SlaveIds -> Objects \cup {Free}]
    BY DEF CallEmplace, CallAdd, CallErase, MasterSlaveTypeOK
  <1>3. \A s, t \in Seq(AnyStep) : s \o t \in Seq(AnyStep)
    BY ConcatProperties
  <1>4. /\ Move(node, from) \in Seq(AnyStep) /\ InsertStep(id, node) \in Seq(AnyStep)
        /\ Move(pair, from) \in Seq(AnyStep) /\ Move(node, pair) \in Seq(AnyStep)
        /\ Destroy(pair) \in Seq(AnyStep)
    BY <1>0, FormTypes
  <1>5. CASE CallEmplace(id, node, from)
    <2>1. todo' \in Seq(AnyStep)
      BY <1>3, <1>4, <1>5 DEF CallEmplace
    <2> QED BY <1>1, <1>2, <2>1 DEF MasterSlaveTypeOK, AnyStep
  <1>6. CASE CallAdd(id, node, pair, from)
    <2>1. todo' = Cat(Cat(Cat(Move(pair, from), Move(node, pair)), InsertStep(id, node)), Destroy(pair))
      BY <1>6 DEF CallAdd, Cat
    <2>2. todo' \in Seq(AnyStep)
      BY <1>4, <2>1, CatAssociative
    <2> QED BY <1>1, <1>2, <2>2 DEF MasterSlaveTypeOK, AnyStep
  <1>7. CASE CallErase(id)
    <2>1. slaves[id] \in Objects /\ todo' = Destroy(slaves[id])
      BY <1>7 DEF CallErase, MasterSlaveTypeOK
    <2>2. todo' \in Seq(AnyStep)
      BY <1>0, <2>1, FormTypes
    <2> QED BY <1>1, <1>2, <2>2 DEF MasterSlaveTypeOK, AnyStep
  <1> QED BY <1>5, <1>6, <1>7

LEMMA InsertTypes ==
  ASSUME MasterSlaveTypeOK, StepInsert
  PROVE  MasterSlaveTypeOK'
  <1>0. /\ Tail(todo) \in Seq(AnyStep) /\ Now.o \in Objects /\ Now.id \in SlaveIds
        /\ "keeper" \in Jobs
    BY NowHasType DEF MasterSlaveTypeOK, AnyStep, StepInsert, Jobs
  <1>1. LifecycleTypeOK'
    BY DEF StepInsert, MasterSlaveTypeOK, LifecycleTypeOK
  <1>2. slaves' \in [SlaveIds -> Objects \cup {Free}]
    BY <1>0 DEF StepInsert, MasterSlaveTypeOK
  <1>3. Destroy(Now.o) \o Tail(todo) \in Seq(AnyStep)
    <2>1. Destroy(Now.o) \in Seq(AnyStep)
      BY <1>0, FormTypes
    <2> QED BY <1>0, <2>1, ConcatProperties
  <1>4. todo' \in Seq(AnyStep)
    BY <1>0, <1>3 DEF StepInsert
  <1> QED BY <1>1, <1>2, <1>4 DEF MasterSlaveTypeOK, AnyStep

LEMMA TypesStay ==
  ASSUME MasterSlaveAssumption, MasterSlaveTypeOK, [MasterSlaveNext]_msVars
  PROVE  MasterSlaveTypeOK'
  <1>1. CASE UNCHANGED msVars
    BY <1>1 DEF MasterSlaveTypeOK, LifecycleTypeOK, msVars, lifeVars
  <1>2. CASE CallStep /\ UNCHANGED slaves
    BY <1>2, CallStepTypes DEF MasterSlaveTypeOK, AnyStep
  <1>3. ASSUME NEW o \in Objects, NEW j \in Jobs, JobEnds(o, j) \/ JobFails(o, j), slaves' = slaves
        PROVE  MasterSlaveTypeOK'
    <2>1. thread' \in [Objects -> [Jobs -> {"none", "running", "ended"}]]
      <3>1. thread' = [thread EXCEPT ![o][j] = "ended"]
        BY <1>3 DEF JobEnds, JobFails
      <3> QED BY <3>1 DEF MasterSlaveTypeOK, LifecycleTypeOK
    <2>2. /\ UNCHANGED <<base, enabled, settings, todo, terminated, wanted>>
          /\ UNCHANGED <<chosen, arrived, slaves>>
      BY <1>3 DEF JobEnds, JobFails
    <2> QED BY <2>1, <2>2 DEF MasterSlaveTypeOK, LifecycleTypeOK
  <1>4. ASSUME NEW id \in SlaveIds, CallErase(id) PROVE MasterSlaveTypeOK'
    <2>1. PICK o \in Objects : o = Master
      BY DEF MasterSlaveAssumption
    <2>2. CallEmplace(id, o, o) \/ CallAdd(id, o, o, o) \/ CallErase(id)
      BY <1>4
    <2> QED BY <2>2, GroupCallTypes
  <1>5. ASSUME NEW id \in SlaveIds, NEW node \in Objects, NEW from \in Objects,
               CallEmplace(id, node, from)
        PROVE  MasterSlaveTypeOK'
    <2>1. CallEmplace(id, node, from) \/ CallAdd(id, node, node, from) \/ CallErase(id)
      BY <1>5
    <2> QED BY <2>1, GroupCallTypes
  <1>6. ASSUME NEW id \in SlaveIds, NEW node \in Objects, NEW pair \in Objects, NEW from \in Objects,
               CallAdd(id, node, pair, from)
        PROVE  MasterSlaveTypeOK'
    BY <1>6, GroupCallTypes
  <1> QED
    BY <1>1, <1>2, <1>3, <1>4, <1>5, <1>6, PoolCallTypes, InsertTypes DEF MasterSlaveNext

\* The settings of a pool change together with what the user has chosen for it.
LEMMA SettingsStay ==
  ASSUME MasterSlaveTypeOK, SettingsSurvive, [MasterSlaveNext]_msVars
  PROVE  SettingsSurvive'
  <1>1. CASE UNCHANGED <<settings, chosen, arrived>>
    BY <1>1 DEF SettingsSurvive
  <1>2. CASE StepMove
    <2>1. todo \in Seq(AnyStep) /\ todo # <<>> /\ Now.op = "move"
      BY <1>2 DEF MasterSlaveTypeOK, AnyStep, StepMove, Takes
    <2>2. Now.o \in Objects /\ Now.from \in Objects
      BY <2>1, NowHasType
    <2>3. ASSUME NEW p \in Objects
          PROVE  /\ settings'[p] = IF p = Now.from THEN {}
                                   ELSE IF p = Now.o THEN settings[Now.from] \cap {"spare"}
                                   ELSE settings[p]
                 /\ chosen'[p] = IF p = Now.from THEN {}
                                 ELSE IF p = Now.o THEN chosen[Now.from] ELSE chosen[p]
                 /\ arrived' = arrived \cup {Now.o}
      BY <1>2, <2>2 DEF StepMove, MasterSlaveTypeOK, LifecycleTypeOK
    <2>4. ASSUME NEW p \in Objects, p = Now.o, p # Now.from
          PROVE  /\ settings'[p] \subseteq chosen'[p]
                 /\ chosen'[p] \ settings'[p] \subseteq {"batch", "population"}
      <3>1. /\ settings[Now.from] \subseteq chosen[Now.from]
            /\ chosen[Now.from] \ settings[Now.from] \subseteq {"batch", "population"}
        BY <2>2 DEF SettingsSurvive
      <3>2. chosen[Now.from] \subseteq {"spare", "batch", "population"}
        BY <2>2 DEF MasterSlaveTypeOK, LifecycleTypeOK, Settings
      <3> QED BY <2>3, <2>4, <3>1, <3>2
    <2>5. ASSUME NEW p \in Objects
          PROVE  /\ settings'[p] \subseteq chosen'[p]
                 /\ chosen'[p] \ settings'[p]
                      \subseteq (IF p \in arrived' THEN {"batch", "population"} ELSE {})
      <3>1. CASE p = Now.from
        BY <2>3, <3>1
      <3>2. CASE p = Now.o /\ p # Now.from
        BY <2>3, <2>4, <3>2
      <3>3. CASE p # Now.o /\ p # Now.from
        BY <2>3, <3>3 DEF SettingsSurvive
      <3> QED BY <3>1, <3>2, <3>3
    <2> QED BY <2>5 DEF SettingsSurvive
  <1>3. CASE StepFree
    <2>1. Now.o \in Objects
      BY <1>3, NowHasType DEF MasterSlaveTypeOK, AnyStep, StepFree, Takes
    <2>2. ASSUME NEW p \in Objects
          PROVE  /\ settings'[p] = IF p = Now.o THEN {} ELSE settings[p]
                 /\ chosen'[p] = IF p = Now.o THEN {} ELSE chosen[p]
                 /\ arrived' = arrived \ {Now.o}
      BY <1>3, <2>1 DEF StepFree, MasterSlaveTypeOK, LifecycleTypeOK
    <2> QED BY <2>2 DEF SettingsSurvive
  <1>4. ASSUME NEW o \in Objects, NEW s \in Settings, Choose(o, s) PROVE SettingsSurvive'
    <2>1. ASSUME NEW p \in Objects
          PROVE  /\ settings'[p] = IF p = o THEN settings[p] \cup {s} ELSE settings[p]
                 /\ chosen'[p] = IF p = o THEN chosen[p] \cup {s} ELSE chosen[p]
                 /\ arrived' = arrived
      BY <1>4 DEF Choose, MasterSlaveTypeOK, LifecycleTypeOK
    <2> QED BY <2>1 DEF SettingsSurvive
  <1>5. CASE CallStep
    BY <1>1, <1>2, <1>3, <1>5
    DEF CallStep, StepStop, StepJoin, StepLaunch, StepRelaunch, StepTake
  <1>6. CASE PoolCall
    BY <1>1, <1>4, <1>6 DEF PoolCall, Construct, CallStart, CallStop, CallMove, CallDestroy
  <1>7. CASE \/ UNCHANGED msVars
             \/ \E id \in SlaveIds, node, from \in Objects : CallEmplace(id, node, from)
             \/ \E id \in SlaveIds, node, pair, from \in Objects : CallAdd(id, node, pair, from)
             \/ \E id \in SlaveIds : CallErase(id)
             \/ StepInsert
             \/ \E o \in Objects, j \in Jobs : JobEnds(o, j) \/ JobFails(o, j)
    BY <1>1, <1>7
    DEF msVars, lifeVars, CallEmplace, CallAdd, CallErase, StepInsert, JobEnds, JobFails
  <1> QED BY <1>5, <1>6, <1>7 DEF MasterSlaveNext

-----------------------------------------------------------------------------
(* The theorems.                                                            *)

\* The inductive invariant: where a call is determines which threads there are.
MasterSlaveInv ==
  MasterSlaveTypeOK /\ SettingsSurvive /\ EmptyAll /\ ~terminated /\ Control

LEMMA InvInit ==
  ASSUME MasterSlaveAssumption, MasterSlaveInit
  PROVE  MasterSlaveInv
  <1>1. /\ base = [o \in Objects |-> "none"] /\ todo = <<>> /\ terminated = FALSE
        /\ enabled = [o \in Objects |-> [j \in Jobs |-> FALSE]]
        /\ thread = [o \in Objects |-> [j \in Jobs |-> "none"]]
        /\ settings = [o \in Objects |-> {}] /\ wanted = [o \in Objects |-> {}]
        /\ chosen = [o \in Objects |-> {}] /\ arrived = {}
        /\ slaves = [i \in SlaveIds |-> Free]
    BY DEF MasterSlaveInit, LifecycleInit
  <1>2. LifecycleTypeOK
    BY <1>1 DEF LifecycleTypeOK
  <1>3. todo \in Seq(Steps \cup Insertions)
    <2>1. <<>> \in Seq(Steps \cup Insertions)
      OBVIOUS
    <2> QED BY <1>1, <2>1
  <1>4. MasterSlaveTypeOK
    BY <1>1, <1>2, <1>3 DEF MasterSlaveTypeOK
  <1>5. SettingsSurvive
    BY <1>1 DEF SettingsSurvive
  <1>6. \A o \in Objects, j \in Jobs : Off(o, j) /\ AsAsked(o, j)
    BY <1>1 DEF Off, AsAsked, isThreadRunning
  <1>7. EmptyAll
    BY <1>1, <1>6 DEF EmptyAll, Empty
  <1>8. Control
    BY <1>1, <1>6 DEF Control, AllAsAskedBut
  <1> QED BY <1>1, <1>4, <1>5, <1>7, <1>8 DEF MasterSlaveInv

\* A call of the user, from where all is as he has asked.
LEMMA CallsKeep ==
  ASSUME MasterSlaveTypeOK, EmptyAll, Control,
         \/ PoolCall
         \/ \E id \in SlaveIds, node, from \in Objects : CallEmplace(id, node, from)
         \/ \E id \in SlaveIds, node, pair, from \in Objects : CallAdd(id, node, pair, from)
         \/ \E id \in SlaveIds : CallErase(id)
  PROVE  ~terminated' /\ EmptyAll' /\ Control'
  <1>0. LifecycleTypeOK
    BY DEF MasterSlaveTypeOK
  <1>1. ASSUME NEW o \in Objects, CallDestroy(o)
        PROVE  ~terminated' /\ EmptyAll' /\ Control'
    <2>1. Idle /\ UNCHANGED untouched /\ todo' = Destroy(o)
      BY <1>1 DEF CallDestroy, untouched
    <2> QED BY <2>1, DestroyCalls
  <1>2. ASSUME NEW id \in SlaveIds, CallErase(id)
        PROVE  ~terminated' /\ EmptyAll' /\ Control'
    <2>1. PICK o \in Objects : o = slaves[id]
      BY <1>2 DEF MasterSlaveTypeOK, CallErase
    <2>2. Idle /\ UNCHANGED untouched /\ todo' = Destroy(o)
      BY <1>2, <2>1 DEF CallErase, untouched
    <2> QED BY <2>2, DestroyCalls
  <1>3. Own \subseteq Objects
    BY DEF Own
  <1>4. CASE PoolCall
    BY <1>0, <1>1, <1>3, <1>4, StartCalls, ConstructCalls, MoveCalled DEF PoolCall
  <1> QED BY <1>2, <1>4, EmplaceCalled, AddCalled

LEMMA InvStep ==
  ASSUME MasterSlaveAssumption, MasterSlaveInv, [MasterSlaveNext]_msVars
  PROVE  MasterSlaveInv'
  <1>0. MasterSlaveTypeOK /\ LifecycleTypeOK /\ SettingsSurvive /\ EmptyAll /\ ~terminated /\ Control
    BY DEF MasterSlaveInv, MasterSlaveTypeOK
  <1>1. MasterSlaveTypeOK' /\ SettingsSurvive'
    BY <1>0, TypesStay, SettingsStay
  <1>2. CASE CallStep \/ StepInsert
    BY <1>0, <1>1, <1>2, CallSteps DEF MasterSlaveInv
  <1>3. ASSUME NEW o \in Objects, NEW j \in Jobs, JobEnds(o, j) \/ JobFails(o, j)
        PROVE  MasterSlaveInv'
    BY <1>0, <1>1, <1>3, JobStops DEF MasterSlaveInv
  <1>4. CASE \/ PoolCall
             \/ \E id \in SlaveIds, node, from \in Objects : CallEmplace(id, node, from)
             \/ \E id \in SlaveIds, node, pair, from \in Objects : CallAdd(id, node, pair, from)
             \/ \E id \in SlaveIds : CallErase(id)
    BY <1>0, <1>1, <1>4, CallsKeep DEF MasterSlaveInv
  <1>5. CASE UNCHANGED msVars
    <2>1. UNCHANGED <<unmoved, enabled, todo, terminated>> /\ thread' = thread
      BY <1>5 DEF msVars, lifeVars, unmoved
    <2>2. ~terminated' /\ EmptyAll' /\ Control'
      BY <1>0, <2>1, SameThreads DEF isThreadRunning
    <2> QED BY <1>1, <2>2 DEF MasterSlaveInv
  <1> QED BY <1>2, <1>3, <1>4, <1>5 DEF MasterSlaveNext

LEMMA InvAlways == MasterSlaveSpec => []MasterSlaveInv
  <1>1. MasterSlaveInit => MasterSlaveInv
    BY InvInit, MasterSlaveAssumption
  <1>2. MasterSlaveInv /\ [MasterSlaveNext]_msVars => MasterSlaveInv'
    BY InvStep, MasterSlaveAssumption
  <1> QED BY <1>1, <1>2, PTL DEF MasterSlaveSpec

\* Every variable keeps its type, and `todo' holds only steps of pools and of the map
\* (master_slave_connection_pools.hpp).
THEOREM MasterSlaveTypes == MasterSlaveSpec => []MasterSlaveTypeOK
  <1>1. MasterSlaveInv => MasterSlaveTypeOK
    BY DEF MasterSlaveInv
  <1> QED BY <1>1, InvAlways, PTL

\* In whatever order pools are constructed, started, stopped, moved, put into a group,
\* erased from it and destroyed, and wherever a job ends by itself between two steps,
\* no std::thread is assigned to or destroyed while it is joinable
\* (resource_count_keeper.hpp, health_care_job.hpp, dnsa_connection_pool.hpp).
THEOREM NoPoolTerminates == MasterSlaveSpec => []NeverTerminates
  <1>1. MasterSlaveInv => NeverTerminates
    BY DEF MasterSlaveInv, NeverTerminates
  <1> QED BY <1>1, InvAlways, PTL

\* No thread of a job runs on an object whose base has been destroyed (base.hpp).
THEOREM ThreadsHaveTheirPool == MasterSlaveSpec => []JobsHaveABase
  <1>1. MasterSlaveInv => JobsHaveABase
    BY DEF MasterSlaveInv, JobsHaveABase, EmptyAll, Empty, Off, isThreadRunning
  <1> QED BY <1>1, InvAlways, PTL

\* Between two calls of the user, the threads are those he has asked for, but for the
\* DNS management of a pool that was moved (shared_ptr_pool.hpp).
THEOREM ThreadsAsAsked == MasterSlaveSpec => []JobsAsAsked
  <1>1. ASSUME MasterSlaveInv, Idle, NEW o \in Objects, NEW j \in Jobs
        PROVE  /\ isThreadRunning(o, j) = enabled[o][j]
               /\ isThreadRunning(o, j) => j \in wanted[o]
               /\ j \in wanted[o] => isThreadRunning(o, j) \/ (j = "dns" /\ o \in arrived)
    <2>1. AsAsked(o, j)
      BY <1>1, IdleMeans DEF MasterSlaveInv, Idle, AllAsAskedBut
    <2>2. enabled[o][j] \in BOOLEAN
      BY <1>1 DEF MasterSlaveInv, MasterSlaveTypeOK, LifecycleTypeOK
    <2>3. isThreadRunning(o, j) \in BOOLEAN
      BY DEF isThreadRunning
    <2> QED BY <2>1, <2>2, <2>3 DEF AsAsked
  <1>2. MasterSlaveInv => JobsAsAsked
    BY <1>1 DEF JobsAsAsked
  <1> QED BY <1>2, InvAlways, PTL

\* What the user has set of a pool is in force as long as the pool lives, in whatever
\* memory, but for the batch size and the population id of a pool that was moved.
THEOREM SettingsLast == MasterSlaveSpec => []SettingsSurvive
  <1>1. MasterSlaveInv => SettingsSurvive
    BY DEF MasterSlaveInv
  <1> QED BY <1>1, InvAlways, PTL

\* A call that joins a thread joins one that has been told to end: the wait is as long
\* as the thread takes to look at its flag.
THEOREM JoinsAreToldToEnd == MasterSlaveSpec => []JoinsEnd
  <1>1. ASSUME MasterSlaveInv PROVE JoinsEnd
    <2>1. CASE todo = <<>>
      BY <2>1 DEF JoinsEnd
    <2>2. CASE todo # <<>>
      BY <1>1, <2>2, StartHeads, DestroyHeads, MoveHeads, InsertHeads
      DEF MasterSlaveInv, Control
    <2> QED BY <2>1, <2>2
  <1> QED BY <1>1, InvAlways, PTL

-----------------------------------------------------------------------------
(* The group: which steps may be on their way while it has its slaves.      *)

\* The steps that neither move nor destroy a pool of S.
Apart(S) ==
  {s \in Steps : (s.op = "move" => s.from \notin S) /\ (s.op = "free" => s.o \notin S)}

\* The k-th step puts a pool into the map, and no other step does so.  The pool is
\* there, or is moved there before; no step takes it away.
InsertsAt(t, k) ==
  /\ t[k] \in Insertions /\ t[k].o \notin Pooled \cup {Master}
  /\ \A l \in DOMAIN t \ {k} : t[l] \in Apart(Pooled \cup {t[k].o})
  /\ base[t[k].o] = "here" \/ \E m \in 1 .. k - 1 : t[m].op = "move" /\ t[m].o = t[k].o

\* Each slave has a pool of its own, which is there, whatever call is on its way.
GroupInv ==
  /\ IsFiniteSet(Ids)
  /\ \A i \in Ids : slaves[i] # Master /\ base[slaves[i]] = "here"
  /\ \A i, j \in Ids : slaves[i] = slaves[j] => i = j
  /\ \/ \A k \in DOMAIN todo : todo[k] \in Apart(Pooled)
     \/ \E k \in DOMAIN todo : InsertsAt(todo, k)

LEMMA ApartFrom ==
  ASSUME NEW S, NEW o \in Objects, NEW from \in Objects
  PROVE  /\ \A op \in {"stop", "join", "launch", "relaunch", "take"}, j \in Jobs :
              JobStep(op, o, j, from) \in Apart(S)
         /\ from \notin S => PoolStep("move", o, from) \in Apart(S)
         /\ o \notin S => PoolStep("free", o, from) \in Apart(S)
  BY DEF Apart, Steps, JobStep, PoolStep

LEMMA JobPartsApart ==
  ASSUME NEW S, NEW o \in Objects, NEW from \in Objects, NEW j \in Jobs
  PROVE  /\ Stop(o, j) \in Seq(Apart(S)) /\ Start(o, j) \in Seq(Apart(S))
         /\ MoveJob(o, from, j) \in Seq(Apart(S)) /\ MoveDns(o, from) \in Seq(Apart(S))
  <1>1. ASSUME NEW i \in Jobs, NEW p \in Objects PROVE Stop(p, i) \in Seq(Apart(S))
    <2>1. PICK stop \in Apart(S) : stop = JobStep("stop", p, i, p)
      BY ApartFrom
    <2>2. PICK join \in Apart(S) : join = JobStep("join", p, i, p)
      BY ApartFrom
    <2>3. Stop(p, i) = <<stop, join>>
      BY <2>1, <2>2 DEF Stop, JobStep
    <2> QED BY <2>3
  <1>2. \A i \in Jobs : Take(o, from, i) \in Seq(Apart(S)) /\ Relaunch(o, i) \in Seq(Apart(S))
    BY ApartFrom DEF Take, Relaunch, JobStep
  <1>3. \A s, t, u \in Seq(Apart(S)) : (s \o t) \o u \in Seq(Apart(S)) /\ s \o t \in Seq(Apart(S))
    BY ConcatProperties
  <1>4. <<[op |-> "launch", o |-> o, j |-> j, from |-> o]>> \in Seq(Apart(S))
    BY ApartFrom DEF JobStep
  <1>5. Start(o, j) \in Seq(Apart(S))
    BY <1>1, <1>3, <1>4 DEF Start
  <1>6. MoveJob(o, from, j) \in Seq(Apart(S))
    BY <1>1, <1>2, <1>3 DEF MoveJob
  <1>7. MoveDns(o, from) \in Seq(Apart(S))
    BY <1>1, <1>2, <1>3 DEF MoveDns, Jobs
  <1> QED BY <1>1, <1>5, <1>6, <1>7

LEMMA MoveApart ==
  ASSUME NEW S, NEW o \in Objects, NEW from \in Objects, from \notin S
  PROVE  /\ Move(o, from) \in Seq(Apart(S)) /\ 1 \in DOMAIN Move(o, from)
         /\ Move(o, from)[1].op = "move" /\ Move(o, from)[1].o = o
  <1>1. PICK step \in Apart(S) : step = [op |-> "move", o |-> o, from |-> from]
    BY ApartFrom DEF PoolStep
  <1>2. PICK s, t, u \in Seq(Apart(S)) :
          s = MoveJob(o, from, "keeper") /\ t = MoveJob(o, from, "health") /\ u = MoveDns(o, from)
    BY JobPartsApart DEF Jobs
  <1>3. Move(o, from) = ((<<step>> \o s) \o t) \o u
    BY <1>1, <1>2 DEF Move
  <1>4. PICK first \in Seq(Apart(S)) : first = <<step>> /\ Len(first) = 1 /\ first[1] = step
    <2>1. <<step>> \in Seq(Apart(S)) /\ Len(<<step>>) = 1 /\ <<step>>[1] = step
      OBVIOUS
    <2> QED BY <2>1, Zenon
  <1>5. /\ first \o s \in Seq(Apart(S)) /\ 1 <= Len(first \o s) /\ (first \o s)[1] = step
    BY <1>4, ConcatProperties
  <1>6. /\ (first \o s) \o t \in Seq(Apart(S)) /\ 1 <= Len((first \o s) \o t)
        /\ ((first \o s) \o t)[1] = step
    <2> DEFINE r == first \o s
    <2> HIDE DEF r
    <2>1. r \in Seq(Apart(S)) /\ 1 <= Len(r) /\ r[1] = step
      BY <1>5 DEF r
    <2>2. r \o t \in Seq(Apart(S)) /\ 1 <= Len(r \o t) /\ (r \o t)[1] = step
      BY <2>1, ConcatProperties
    <2> QED BY <2>2 DEF r
  <1>7. /\ Move(o, from) \in Seq(Apart(S)) /\ 1 <= Len(Move(o, from)) /\ Move(o, from)[1] = step
    <2> DEFINE r == (first \o s) \o t
    <2> HIDE DEF r
    <2>1. r \in Seq(Apart(S)) /\ 1 <= Len(r) /\ r[1] = step
      BY <1>6 DEF r
    <2>2. r \o u \in Seq(Apart(S)) /\ 1 <= Len(r \o u) /\ (r \o u)[1] = step
      BY <2>1, ConcatProperties
    <2>3. Move(o, from) = r \o u
      BY <1>3, <1>4 DEF r
    <2> QED BY <2>2, <2>3
  <1> QED BY <1>1, <1>7

LEMMA DestroyApart ==
  ASSUME NEW S, NEW o \in Objects, o \notin S
  PROVE  Destroy(o) \in Seq(Apart(S))
  <1>1. PICK s, t, u \in Seq(Apart(S)) :
          s = Stop(o, "dns") /\ t = Stop(o, "health") /\ u = Stop(o, "keeper")
    BY JobPartsApart DEF Jobs
  <1>2. PICK last \in Seq(Apart(S)) : last = <<[op |-> "free", o |-> o, from |-> o]>>
    <2>1. PICK step \in Apart(S) : step = [op |-> "free", o |-> o, from |-> o]
      BY ApartFrom DEF PoolStep
    <2>2. <<step>> \in Seq(Apart(S))
      OBVIOUS
    <2> QED BY <2>1, <2>2, Zenon
  <1>3. Destroy(o) = ((s \o t) \o u) \o last
    BY <1>1, <1>2 DEF Destroy
  <1>4. \A x, y \in Seq(Apart(S)) : x \o y \in Seq(Apart(S))
    BY ConcatProperties
  <1> QED BY <1>3, <1>4

\* A call that takes no slave's pool away.
LEMMA GroupStays ==
  ASSUME GroupInv, slaves' = slaves, \A i \in Ids : base'[slaves[i]] = "here",
         todo' \in Seq(Apart(Pooled))
  PROVE  GroupInv'
  <1>1. Ids' = Ids /\ Pooled' = Pooled
    BY DEF Ids, Pooled
  <1>2. \A k \in DOMAIN todo' : todo'[k] \in Apart(Pooled')
    BY <1>1, LenProperties
  <1>3. \A i \in Ids' : slaves'[i] # Master /\ base'[slaves'[i]] = "here"
    BY <1>1 DEF GroupInv
  <1> QED BY <1>1, <1>2, <1>3 DEF GroupInv


\* A step of pools keeps what is there and is not its own.
LEMMA StepKeepsBase ==
  ASSUME LifecycleTypeOK, todo \in Seq(AnyStep), CallStep, NEW S, Now \in Apart(S),
         NEW o \in Objects, o \in S
  PROVE  /\ base[o] = "here" => base'[o] = "here"
         /\ Now.op = "move" /\ Now.o = o => base'[o] = "here"
  <1>0. todo # <<>>
    BY DEF CallStep, StepStop, StepJoin, StepLaunch, StepRelaunch, StepTake, StepMove,
           StepFree, Takes
  <1>1. CASE UNCHANGED base /\ Now.op # "move"
    BY <1>1
  <1>2. CASE StepMove
    <2>1. Now.op = "move" /\ Now.o \in Objects /\ Now.from \in Objects /\ Now.from # o
      BY <1>0, <1>2, NowHasType DEF StepMove, Takes, Apart
    <2> QED BY <1>2, <2>1 DEF StepMove, LifecycleTypeOK
  <1>3. CASE StepFree
    <2>1. Now.op = "free" /\ Now.o \in Objects /\ Now.o # o
      BY <1>0, <1>3, NowHasType DEF StepFree, Takes, Apart
    <2> QED BY <1>3, <2>1 DEF StepFree, LifecycleTypeOK
  <1> QED
    BY <1>1, <1>2, <1>3
    DEF CallStep, StepStop, StepJoin, StepLaunch, StepRelaunch, StepTake, Takes

\* The steps that are left are those after the first.
LEMMA LeftAfter ==
  ASSUME todo \in Seq(AnyStep), todo # <<>>, todo' = Tail(todo)
  PROVE  /\ Now = todo[1] /\ 1 \in DOMAIN todo /\ todo' \in Seq(AnyStep)
         /\ \A k \in DOMAIN todo' : /\ k + 1 \in DOMAIN todo /\ k \in Nat \ {0}
                                    /\ todo'[k] = todo[k + 1]
         /\ \A k \in DOMAIN todo \ {1} : k - 1 \in DOMAIN todo' /\ (k - 1) + 1 = k
  <1>1. /\ Len(todo) \in Nat \ {0} /\ DOMAIN todo = 1 .. Len(todo)
        /\ todo' \in Seq(AnyStep) /\ Len(todo') = Len(todo) - 1
        /\ DOMAIN todo' = 1 .. Len(todo) - 1
    BY EmptySeq, LenProperties, HeadTailProperties
  <1>2. \A k \in 1 .. Len(todo) - 1 : todo'[k] = todo[k + 1]
    BY <1>1, HeadTailProperties
  <1>3. Now = todo[1]
    BY <1>1 DEF Now
  <1> QED BY <1>1, <1>2, <1>3

LEMMA PooledHere ==
  ASSUME MasterSlaveTypeOK, GroupInv
  PROVE  /\ Pooled \subseteq Objects /\ Master \notin Pooled
         /\ \A o \in Pooled : base[o] = "here"
         /\ Ids \subseteq SlaveIds /\ \A i \in Ids : slaves[i] \in Pooled
  BY DEF GroupInv, Pooled, Ids, MasterSlaveTypeOK

LEMMA StepKeepsGroup ==
  ASSUME MasterSlaveTypeOK, GroupInv, CallStep, slaves' = slaves
  PROVE  GroupInv'
  <1>0. /\ todo \in Seq(AnyStep) /\ todo # <<>> /\ todo' = Tail(todo) /\ Now.op # "insert"
        /\ LifecycleTypeOK
    BY DEF MasterSlaveTypeOK, AnyStep, CallStep, StepStop, StepJoin, StepLaunch, StepRelaunch,
           StepTake, StepMove, StepFree, Takes
  <1>1. Ids' = Ids /\ Pooled' = Pooled
    BY DEF Ids, Pooled
  <1>2. ASSUME NEW S, Pooled \subseteq S, Now \in Apart(S)
        PROVE  \A i \in Ids' : slaves'[i] # Master /\ base'[slaves'[i]] = "here"
    BY <1>0, <1>1, <1>2, StepKeepsBase, PooledHere DEF GroupInv
  <1>3. CASE \A k \in DOMAIN todo : todo[k] \in Apart(Pooled)
    <2>1. Now \in Apart(Pooled)
      BY <1>0, <1>3, LeftAfter
    <2>2. \A k \in DOMAIN todo' : todo'[k] \in Apart(Pooled')
      BY <1>0, <1>1, <1>3, LeftAfter
    <2> QED BY <1>1, <1>2, <2>1, <2>2 DEF GroupInv
  <1>4. ASSUME NEW k \in DOMAIN todo, InsertsAt(todo, k) PROVE GroupInv'
    <2> DEFINE o == todo[k].o
    <2>1. k # 1 /\ o \in Objects
      BY <1>0, <1>4, LeftAfter DEF InsertsAt, Insertions
    <2>2. Now \in Apart(Pooled \cup {o})
      <3>1. 1 \in DOMAIN todo \ {k} /\ Now = todo[1]
        BY <1>0, <2>1, LeftAfter
      <3>2. \A l \in DOMAIN todo \ {k} : todo[l] \in Apart(Pooled \cup {o})
        BY <1>4 DEF InsertsAt
      <3> QED BY <3>1, <3>2
    <2>3. k - 1 \in DOMAIN todo' /\ todo'[k - 1] = todo[k]
      BY <1>0, <2>1, LeftAfter
    <2>4. ASSUME NEW l \in DOMAIN todo' \ {k - 1}
          PROVE  todo'[l] \in Apart(Pooled \cup {o})
      <3>1. l + 1 \in DOMAIN todo \ {k} /\ todo'[l] = todo[l + 1]
        <4>1. k \in Nat
          BY <1>0, LenProperties
        <4> QED BY <1>0, <4>1, LeftAfter
      <3> QED BY <1>4, <3>1 DEF InsertsAt
    <2>5. base'[o] = "here" \/ \E m \in 1 .. (k - 1) - 1 : todo'[m].op = "move" /\ todo'[m].o = o
      <3>1. CASE base[o] = "here"
        BY <1>0, <2>1, <2>2, <3>1, StepKeepsBase
      <3>2. ASSUME NEW m \in 1 .. k - 1, todo[m].op = "move" /\ todo[m].o = o, m = 1
            PROVE  base'[o] = "here"
        BY <1>0, <2>1, <2>2, <3>2, StepKeepsBase, LeftAfter
      <3>3. ASSUME NEW m \in 1 .. k - 1, todo[m].op = "move" /\ todo[m].o = o, m # 1
            PROVE  \E n \in 1 .. (k - 1) - 1 : todo'[n].op = "move" /\ todo'[n].o = o
        <4>1. k \in Nat /\ m \in DOMAIN todo \ {1}
          BY <1>0, <3>3, LenProperties
        <4>2. m - 1 \in DOMAIN todo' /\ todo'[m - 1] = todo[m]
          BY <1>0, <4>1, LeftAfter
        <4>3. m - 1 \in 1 .. (k - 1) - 1
          BY <3>3, <4>1
        <4> QED BY <3>3, <4>2, <4>3
      <3> QED BY <1>4, <3>1, <3>2, <3>3 DEF InsertsAt
    <2>6. InsertsAt(todo, k - 1)'
      <3>1. todo'[k - 1] \in Insertions /\ todo'[k - 1].o \notin Pooled' \cup {Master}
        BY <1>1, <1>4, <2>3 DEF InsertsAt
      <3>2. \A l \in DOMAIN todo' \ {k - 1} : todo'[l] \in Apart(Pooled' \cup {todo'[k - 1].o})
        BY <1>1, <2>3, <2>4
      <3>3. \/ base'[todo'[k - 1].o] = "here"
            \/ \E m \in 1 .. (k - 1) - 1 : todo'[m].op = "move" /\ todo'[m].o = todo'[k - 1].o
        BY <2>3, <2>5
      <3> QED BY <3>1, <3>2, <3>3 DEF InsertsAt
    <2>7. \A i \in Ids' : slaves'[i] # Master /\ base'[slaves'[i]] = "here"
      BY <1>2, <2>2
    <2> QED BY <1>1, <2>3, <2>6, <2>7 DEF GroupInv
  <1> QED BY <1>3, <1>4 DEF GroupInv

\* The map takes the node, or the node is destroyed.
LEMMA InsertKeepsGroup ==
  ASSUME MasterSlaveAssumption, MasterSlaveTypeOK, GroupInv, StepInsert
  PROVE  GroupInv'
  <1>0. /\ todo \in Seq(AnyStep) /\ todo # <<>> /\ Now = todo[1] /\ 1 \in DOMAIN todo
        /\ Now.op = "insert" /\ base' = base
    <2>1. todo \in Seq(AnyStep) /\ todo # <<>> /\ Now.op = "insert" /\ base' = base
      BY DEF MasterSlaveTypeOK, AnyStep, StepInsert
    <2> QED BY <2>1, LenProperties, EmptySeq DEF Now
  <1>1. \A S : Now \notin Apart(S)
    BY <1>0 DEF Apart, Steps
  <1>2. PICK k \in DOMAIN todo : InsertsAt(todo, k)
    BY <1>0, <1>1 DEF GroupInv
  <1>3. k = 1
    BY <1>0, <1>1, <1>2 DEF InsertsAt
  <1> DEFINE o == Now.o
             id == Now.id
  <1>4. /\ o \in Objects /\ id \in SlaveIds /\ o \notin Pooled \cup {Master} /\ base[o] = "here"
        /\ \A l \in DOMAIN todo \ {1} : todo[l] \in Apart(Pooled \cup {o})
    <2>1. ~\E m \in 1 .. 1 - 1 : TRUE
      OBVIOUS
    <2> QED BY <1>0, <1>2, <1>3, <2>1 DEF InsertsAt, Insertions
  <1>5. /\ Tail(todo) \in Seq(AnyStep)
        /\ \A l \in DOMAIN Tail(todo) : Tail(todo)[l] \in Apart(Pooled \cup {o})
    <2>1. /\ Tail(todo) \in Seq(AnyStep) /\ DOMAIN Tail(todo) = 1 .. Len(todo) - 1
          /\ DOMAIN todo = 1 .. Len(todo) /\ Len(todo) \in Nat
          /\ \A l \in 1 .. Len(todo) - 1 : Tail(todo)[l] = todo[l + 1]
      BY <1>0, LenProperties, HeadTailProperties
    <2>2. \A l \in 1 .. Len(todo) - 1 : l + 1 \in DOMAIN todo \ {1}
      BY <2>1
    <2> QED BY <1>4, <2>1, <2>2
  <1>6. CASE slaves[id] = Free
    <2>1. slaves' = [slaves EXCEPT ![id] = o] /\ todo' = Tail(todo)
      BY <1>6 DEF StepInsert
    <2>2. o # Free /\ slaves \in [SlaveIds -> Objects \cup {Free}]
      BY <1>4 DEF MasterSlaveAssumption, MasterSlaveTypeOK
    <2>3. \A i \in SlaveIds : slaves'[i] = IF i = id THEN o ELSE slaves[i]
      BY <1>4, <2>1, <2>2
    <2>4. Ids' = Ids \cup {id} /\ id \notin Ids
      BY <1>4, <1>6, <2>2, <2>3 DEF Ids
    <2>5. Pooled' = Pooled \cup {o}
      <3>1. \A i \in Ids : i \in SlaveIds /\ i # id
        BY <1>6 DEF Ids
      <3>2. /\ \A i \in Ids : slaves'[i] = slaves[i]
            /\ slaves'[id] = o
        BY <1>4, <2>3, <3>1
      <3>3. Pooled' = {slaves'[i] : i \in Ids'} /\ Pooled = {slaves[i] : i \in Ids}
        BY DEF Pooled
      <3>4. {slaves'[i] : i \in Ids'} = {slaves[i] : i \in Ids} \cup {o}
        BY <2>4, <3>2
      <3> QED BY <3>3, <3>4
    <2>6. IsFiniteSet(Ids')
      BY <2>4, FS_AddElement DEF GroupInv
    <2>7. \A l \in DOMAIN todo' : todo'[l] \in Apart(Pooled')
      BY <1>5, <2>1, <2>5
    <2>8. \A i \in Ids' : slaves'[i] # Master /\ base'[slaves'[i]] = "here"
      <3>1. \A i \in Ids : i \in SlaveIds /\ i # id
        BY <1>6 DEF Ids
      <3> QED BY <1>0, <1>4, <2>3, <2>4, <3>1 DEF GroupInv
    <2>9. \A i, j \in Ids' : slaves'[i] = slaves'[j] => i = j
      <3>1. \A i \in Ids : i \in SlaveIds /\ i # id /\ slaves[i] # o
        BY <1>4, <1>6 DEF Ids, Pooled
      <3> QED BY <1>4, <2>3, <2>4, <3>1 DEF GroupInv
    <2> QED BY <2>6, <2>7, <2>8, <2>9 DEF GroupInv
  <1>7. CASE slaves[id] # Free
    <2>1. slaves' = slaves /\ todo' = Destroy(o) \o Tail(todo)
      BY <1>7 DEF StepInsert
    <2>2. Destroy(o) \in Seq(Apart(Pooled))
      BY <1>4, DestroyApart
    <2>3. Tail(todo) \in Seq(Apart(Pooled))
      <3>1. \A l \in 1 .. Len(Tail(todo)) : Tail(todo)[l] \in Apart(Pooled)
        <4>1. Apart(Pooled \cup {o}) \subseteq Apart(Pooled)
          BY DEF Apart
        <4> QED BY <1>5, <4>1, LenProperties
      <3>2. Len(Tail(todo)) \in Nat /\ Tail(todo) \in [1 .. Len(Tail(todo)) -> AnyStep]
        BY <1>5, LenProperties
      <3>3. Tail(todo) \in [1 .. Len(Tail(todo)) -> Apart(Pooled)]
        BY <3>1, <3>2
      <3> QED BY <3>2, <3>3, SeqDef
    <2>4. todo' \in Seq(Apart(Pooled))
      BY <2>1, <2>2, <2>3, ConcatProperties
    <2> QED BY <1>0, <2>1, <2>4, GroupStays DEF GroupInv
  <1> QED BY <1>6, <1>7

\* The id is free, and the steps that follow destroy a pool that is no slave any more.
LEMMA EraseKeepsGroup ==
  ASSUME MasterSlaveAssumption, MasterSlaveTypeOK, GroupInv, NEW id \in SlaveIds, CallErase(id)
  PROVE  GroupInv'
  <1> DEFINE o == slaves[id]
  <1>0. /\ base' = base /\ slaves' = [slaves EXCEPT ![id] = Free] /\ todo' = Destroy(o)
        /\ o \in Objects /\ slaves \in [SlaveIds -> Objects \cup {Free}] /\ id \in Ids
    BY DEF CallErase, MasterSlaveTypeOK, Ids
  <1>1. Ids' = Ids \ {id} /\ \A i \in Ids' : slaves'[i] = slaves[i]
    BY <1>0 DEF Ids
  <1>2. IsFiniteSet(Ids')
    BY <1>1, FS_RemoveElement DEF GroupInv
  <1>3. o \notin Pooled'
    BY <1>0, <1>1 DEF GroupInv, Pooled
  <1>4. \A k \in DOMAIN todo' : todo'[k] \in Apart(Pooled')
    <2>1. PICK S : S = Pooled' /\ o \notin S
      BY <1>3
    <2>2. Destroy(o) \in Seq(Apart(S))
      BY <1>0, <2>1, DestroyApart
    <2>3. \A k \in DOMAIN todo' : todo'[k] \in Apart(S)
      BY <1>0, <2>2, LenProperties
    <2> QED BY <2>1, <2>3
  <1> QED BY <1>0, <1>1, <1>2, <1>4 DEF GroupInv

\* A sequence with one item between two others, of n and p items.
Surrounds(t, pre, item, post, n, p) ==
  /\ DOMAIN t = 1 .. (n + 1) + p
  /\ \A l \in 1 .. n : t[l] = pre[l]
  /\ t[n + 1] = item
  /\ \A l \in 1 .. p : t[(n + 1) + l] = post[l]

LEMMA OneBetween ==
  ASSUME NEW T, NEW pre \in Seq(T), NEW post \in Seq(T), NEW item \in Seq(T), Len(item) = 1,
         NEW n \in Nat, n = Len(pre), NEW p \in Nat, p = Len(post),
         NEW t, t = (pre \o item) \o post
  PROVE  Surrounds(t, pre, item[1], post, n, p)
  <1>3. PICK r \in Seq(T) :
          /\ r = pre \o item /\ Len(r) = n + 1
          /\ \A l \in 1 .. n + 1 : r[l] = IF l <= n THEN pre[l] ELSE item[l - n]
    <2>1. /\ pre \o item \in Seq(T) /\ Len(pre \o item) = n + 1
          /\ \A l \in 1 .. n + 1 :
               (pre \o item)[l] = IF l <= n THEN pre[l] ELSE item[l - n]
      <3>1. /\ pre \o item \in Seq(T) /\ Len(pre \o item) = Len(pre) + Len(item)
            /\ \A l \in 1 .. Len(pre) + Len(item) :
                 (pre \o item)[l] = IF l <= Len(pre) THEN pre[l] ELSE item[l - Len(pre)]
        BY ConcatProperties
      <3> QED BY <3>1
    <2> QED BY <2>1, Zenon
  <1>4. /\ t \in Seq(T) /\ Len(t) = (n + 1) + p
        /\ \A l \in 1 .. (n + 1) + p : t[l] = IF l <= n + 1 THEN r[l] ELSE post[l - (n + 1)]
    <2>1. /\ r \o post \in Seq(T) /\ Len(r \o post) = (n + 1) + p
          /\ \A l \in 1 .. (n + 1) + p :
               (r \o post)[l] = IF l <= n + 1 THEN r[l] ELSE post[l - (n + 1)]
      <3>1. /\ r \o post \in Seq(T) /\ Len(r \o post) = Len(r) + Len(post)
            /\ \A l \in 1 .. Len(r) + Len(post) :
                 (r \o post)[l] = IF l <= Len(r) THEN r[l] ELSE post[l - Len(r)]
        BY ConcatProperties
      <3> QED BY <1>3, <3>1
    <2> QED BY <1>3, <2>1, Zenon
  <1>5. DOMAIN t = 1 .. (n + 1) + p
    BY <1>4, LenProperties
  <1>6. ASSUME NEW l \in 1 .. n PROVE t[l] = pre[l]
    BY <1>3, <1>4
  <1>7. t[n + 1] = item[1]
    <2>1. /\ n + 1 \in 1 .. n + 1 /\ ~(n + 1 <= n) /\ (n + 1) - n = 1
          /\ n + 1 \in 1 .. (n + 1) + p /\ n + 1 <= n + 1
      OBVIOUS
    <2>2. r[n + 1] = item[1]
      BY <1>3, <2>1, Zenon
    <2> QED BY <1>4, <2>1, <2>2, Zenon
  <1>8. ASSUME NEW l \in 1 .. p PROVE t[(n + 1) + l] = post[l]
    <2>1. /\ (n + 1) + l \in 1 .. (n + 1) + p /\ ~((n + 1) + l <= n + 1)
          /\ ((n + 1) + l) - (n + 1) = l
      OBVIOUS
    <2> QED BY <1>4, <2>1
  <1> QED BY <1>5, <1>6, <1>7, <1>8 DEF Surrounds

\* A call that moves a pool into the node, then puts the node into the map.
LEMMA PlanOfInsertion ==
  ASSUME MasterSlaveTypeOK, GroupInv, UNCHANGED <<base, slaves>>, NEW id \in SlaveIds,
         NEW node \in Objects, node \notin Pooled \cup {Master},
         NEW pre \in Seq(Apart(Pooled \cup {node})), NEW post \in Seq(Apart(Pooled \cup {node})),
         \E m \in DOMAIN pre : pre[m].op = "move" /\ pre[m].o = node,
         todo' = (pre \o InsertStep(id, node)) \o post
  PROVE  GroupInv'
  <1> DEFINE A == Apart(Pooled \cup {node})
  <1>1. PICK step \in Insertions : step = [op |-> "insert", id |-> id, o |-> node]
    BY DEF Insertions
  <1>2. PICK ins \in Seq(A \cup Insertions) :
          ins = InsertStep(id, node) /\ Len(ins) = 1 /\ ins[1] = step
    <2>1. /\ <<step>> \in Seq(A \cup Insertions) /\ Len(<<step>>) = 1 /\ <<step>>[1] = step
      OBVIOUS
    <2> QED BY <1>1, <2>1, Zenon DEF InsertStep
  <1>3. /\ pre \in Seq(A \cup Insertions) /\ post \in Seq(A \cup Insertions)
        /\ Len(pre) \in Nat /\ Len(post) \in Nat /\ DOMAIN pre = 1 .. Len(pre)
        /\ \A l \in 1 .. Len(pre) : pre[l] \in A
        /\ \A l \in 1 .. Len(post) : post[l] \in A
    <2>1. pre \in Seq(A \cup Insertions) /\ post \in Seq(A \cup Insertions)
      BY SeqMonotonic
    <2> QED BY <2>1, LenProperties
  <1> HIDE DEF A
  <1>a. PICK n \in Nat : n = Len(pre)
    BY <1>3
  <1>b. PICK p \in Nat : p = Len(post)
    BY <1>3
  <1> DEFINE k == n + 1
  <1>4. /\ DOMAIN todo' = 1 .. (n + 1) + p
        /\ \A l \in 1 .. n : todo'[l] = pre[l]
        /\ todo'[n + 1] = ins[1]
        /\ \A l \in 1 .. p : todo'[(n + 1) + l] = post[l]
    <2>1. PICK t : t = (pre \o ins) \o post /\ todo' = t
      BY <1>2
    <2>2. Surrounds(t, pre, ins[1], post, n, p)
      BY <1>2, <1>3, <1>a, <1>b, <2>1, OneBetween
    <2> QED BY <2>1, <2>2 DEF Surrounds
  <1>6. /\ k \in DOMAIN todo' /\ todo'[k] = step
        /\ \A l \in 1 .. Len(pre) : todo'[l] = pre[l]
        /\ \A l \in DOMAIN todo' \ {k} : todo'[l] \in A
    <2>2. ASSUME NEW l \in DOMAIN todo' \ {k} PROVE todo'[l] \in A
      <3>0. l \in 1 .. (n + 1) + p /\ l # n + 1
        BY <1>4, Zenon
      <3>1. CASE l < k
        <4>1. l \in 1 .. n
          BY <3>0, <3>1
        <4>2. todo'[l] = pre[l] /\ pre[l] \in A
          BY <1>3, <1>4, <1>a, <4>1, Zenon
        <4> QED BY <4>2
      <3>2. CASE l > k
        <4>1. l - k \in 1 .. p /\ k + (l - k) = l
          BY <3>0, <3>2
        <4>2. todo'[l] = post[l - k]
          BY <1>4, <4>1, Zenon
        <4>3. post[l - k] \in A
          BY <1>3, <1>b, <4>1, Zenon
        <4> QED BY <4>2, <4>3
      <3>3. l < k \/ l > k
        BY <3>0
      <3> QED BY <3>1, <3>2, <3>3
    <2>3. k \in DOMAIN todo'
      BY <1>3, <1>4
    <2> QED BY <1>2, <1>4, <1>a, <2>2, <2>3
  <1>7. Ids' = Ids /\ Pooled' = Pooled
    BY DEF Ids, Pooled
  <1>8. step.o = node
    BY <1>1
  <1>9. InsertsAt(todo, k)'
    <2>1. todo'[k] \in Insertions /\ todo'[k].o = node /\ node \notin Pooled' \cup {Master}
      BY <1>1, <1>6, <1>7, <1>8
    <2>2. \A l \in DOMAIN todo' \ {k} : todo'[l] \in Apart(Pooled' \cup {node})
      BY <1>6, <1>7 DEF A
    <2>3. \E m \in 1 .. k - 1 : todo'[m].op = "move" /\ todo'[m].o = node
      <3>1. PICK m \in 1 .. Len(pre) : pre[m].op = "move" /\ pre[m].o = node
        BY <1>3
      <3>2. m \in 1 .. k - 1 /\ todo'[m] = pre[m]
        BY <1>3, <1>6, <1>a
      <3> QED BY <3>1, <3>2
    <2> QED BY <2>1, <2>2, <2>3 DEF InsertsAt
  <1> QED BY <1>6, <1>7, <1>9 DEF GroupInv

\* The pools of the user, memory without a pool, and the node are no slave's.
LEMMA OutsideGroup ==
  ASSUME MasterSlaveTypeOK, GroupInv
  PROVE  /\ \A o \in Own : o \in Objects /\ o \notin Pooled
         /\ \A o \in Objects : base[o] = "none" => o \notin Pooled
  BY PooledHere DEF Own

LEMMA EmplaceKeepsGroup ==
  ASSUME MasterSlaveTypeOK, GroupInv, NEW id \in SlaveIds, NEW node \in Objects,
         NEW from \in Objects, CallEmplace(id, node, from)
  PROVE  GroupInv'
  <1>1. /\ UNCHANGED <<base, slaves>> /\ todo' = Move(node, from) \o InsertStep(id, node)
        /\ node \notin Pooled \cup {Master} /\ from \notin Pooled \cup {node}
    BY OutsideGroup DEF CallEmplace
  <1>2. PICK S : S = Pooled \cup {node}
    OBVIOUS
  <1>3. PICK pre \in Seq(Apart(S)) :
          pre = Move(node, from) /\ 1 \in DOMAIN pre /\ pre[1].op = "move" /\ pre[1].o = node
    BY <1>1, <1>2, MoveApart
  <1>4. PICK post \in Seq(Apart(S)) : post = <<>>
    <2>1. <<>> \in Seq(Apart(S))
      OBVIOUS
    <2> QED BY <2>1, Zenon
  <1>5. todo' = (pre \o InsertStep(id, node)) \o post
    <2>1. pre \in Seq(Apart(S) \cup AnyStep) /\ InsertStep(id, node) \in Seq(Apart(S) \cup AnyStep)
      <3>1. InsertStep(id, node) \in Seq(AnyStep)
        <4>1. <<>> \in Seq(AnyStep)
          OBVIOUS
        <4> QED BY <4>1, InsertForm
      <3> QED BY <3>1, SeqMonotonic
    <2>2. pre \o InsertStep(id, node) \in Seq(Apart(S) \cup AnyStep)
      BY <2>1, ConcatProperties
    <2> QED BY <1>1, <1>3, <1>4, <2>2, ConcatEmptySeq
  <1> QED BY <1>1, <1>2, <1>3, <1>5, PlanOfInsertion

LEMMA AddKeepsGroup ==
  ASSUME MasterSlaveTypeOK, GroupInv, NEW id \in SlaveIds, NEW node \in Objects,
         NEW pair \in Objects, NEW from \in Objects, CallAdd(id, node, pair, from)
  PROVE  GroupInv'
  <1>0. node # pair /\ node # Master
    BY ThreeApart DEF CallAdd
  <1>1. /\ UNCHANGED <<base, slaves>>
        /\ todo' = ((Move(pair, from) \o Move(node, pair)) \o InsertStep(id, node)) \o Destroy(pair)
        /\ node \notin Pooled \cup {Master} /\ from \notin Pooled \cup {node}
        /\ pair \notin Pooled \cup {node}
    <2>1. base[node] = "none" /\ base[pair] = "none" /\ from \in Own /\ base[from] = "here"
      BY DEF CallAdd
    <2>2. /\ UNCHANGED <<base, slaves>>
          /\ todo' = ((Move(pair, from) \o Move(node, pair)) \o InsertStep(id, node)) \o Destroy(pair)
      BY DEF CallAdd
    <2> QED BY <1>0, <2>1, <2>2, OutsideGroup
  <1>2. PICK S : S = Pooled \cup {node}
    OBVIOUS
  <1>3. PICK first \in Seq(Apart(S)) : first = Move(pair, from)
    BY <1>1, <1>2, MoveApart
  <1>4. PICK second \in Seq(Apart(S)) :
          /\ second = Move(node, pair) /\ 1 \in DOMAIN second
          /\ second[1].op = "move" /\ second[1].o = node
    BY <1>1, <1>2, MoveApart
  <1>5. PICK post \in Seq(Apart(S)) : post = Destroy(pair)
    BY <1>1, <1>2, DestroyApart
  <1>6. PICK pre \in Seq(Apart(S)) : pre = first \o second
    BY ConcatProperties
  <1>7. \E m \in DOMAIN pre : pre[m].op = "move" /\ pre[m].o = node
    <2>1. /\ Len(first) \in Nat /\ Len(second) \in Nat /\ 1 <= Len(second)
          /\ DOMAIN pre = 1 .. Len(pre) /\ Len(pre) = Len(first) + Len(second)
          /\ \A l \in 1 .. Len(first) + Len(second) :
               pre[l] = IF l <= Len(first) THEN first[l] ELSE second[l - Len(first)]
      <3>1. 1 <= Len(second)
        BY <1>4, LenProperties
      <3> QED BY <1>6, <3>1, ConcatProperties, LenProperties
    <2>2. PICK n \in Nat : n = Len(first)
      BY <2>1
    <2>3. n + 1 \in 1 .. n + Len(second) /\ ~(n + 1 <= n) /\ (n + 1) - n = 1
      BY <2>1
    <2>4. pre[n + 1] = second[1]
      BY <2>1, <2>2, <2>3, Zenon
    <2>5. n + 1 \in DOMAIN pre
      BY <2>1, <2>2, <2>3
    <2> QED BY <1>4, <2>4, <2>5
  <1>8. todo' = (pre \o InsertStep(id, node)) \o post
    BY <1>1, <1>3, <1>4, <1>5, <1>6
  <1> QED BY <1>1, <1>2, <1>7, <1>8, PlanOfInsertion

\* What the user does with pools of his own, and with jobs and settings of any.
LEMMA PoolCallKeepsGroup ==
  ASSUME MasterSlaveTypeOK, GroupInv, PoolCall
  PROVE  GroupInv'
  <1>0. LifecycleTypeOK /\ slaves' = slaves /\ Own \subseteq Objects
    BY DEF MasterSlaveTypeOK, PoolCall, Own
  <1>1. ASSUME NEW o \in Objects, Construct(o) PROVE GroupInv'
    <2>1. /\ \A i \in Ids : base'[slaves[i]] = "here" /\ base[slaves[i]] = "here"
          /\ todo' = <<>>
      BY <1>0, <1>1, PooledHere DEF Construct, LifecycleTypeOK, Idle
    <2>2. <<>> \in Seq(Apart(Pooled))
      OBVIOUS
    <2> QED BY <1>0, <2>1, <2>2, GroupStays
  <1>2. ASSUME base' = base, todo' \in Seq(Apart(Pooled)) PROVE GroupInv'
    BY <1>0, <1>2, GroupStays DEF GroupInv
  <1>3. ASSUME NEW o \in Objects, NEW j \in Jobs, CallStart(o, j) \/ CallStop(o, j)
        PROVE  GroupInv'
    BY <1>2, <1>3, JobPartsApart DEF CallStart, CallStop
  <1>4. ASSUME NEW o \in Objects, NEW s \in Settings, Choose(o, s) PROVE GroupInv'
    <2>1. base' = base /\ todo' = <<>>
      BY <1>4 DEF Choose, Idle
    <2>2. <<>> \in Seq(Apart(Pooled))
      OBVIOUS
    <2> QED BY <1>2, <2>1, <2>2
  <1>5. ASSUME NEW o \in Objects, NEW from \in Own, CallMove(o, from) PROVE GroupInv'
    <2>1. from \in Objects /\ from \notin Pooled
      BY OutsideGroup
    <2> QED BY <1>2, <1>5, <2>1, MoveApart DEF CallMove
  <1>6. ASSUME NEW o \in Own, CallDestroy(o) PROVE GroupInv'
    <2>1. o \in Objects /\ o \notin Pooled
      BY OutsideGroup
    <2> QED BY <1>2, <1>6, <2>1, DestroyApart DEF CallDestroy
  <1> QED BY <1>0, <1>1, <1>3, <1>4, <1>5, <1>6 DEF PoolCall

LEMMA GroupStep ==
  ASSUME MasterSlaveAssumption, MasterSlaveTypeOK, GroupInv, [MasterSlaveNext]_msVars
  PROVE  GroupInv'
  <1>1. CASE UNCHANGED <<base, todo, slaves>>
    <2>1. Ids' = Ids /\ Pooled' = Pooled
      BY <1>1 DEF Ids, Pooled
    <2> QED BY <1>1, <2>1 DEF GroupInv, InsertsAt
  <1>2. CASE \E o \in Objects, j \in Jobs : (JobEnds(o, j) \/ JobFails(o, j)) /\ UNCHANGED slaves
    BY <1>1, <1>2 DEF JobEnds, JobFails
  <1>3. CASE UNCHANGED msVars
    BY <1>1, <1>3 DEF msVars, lifeVars
  <1> QED
    BY <1>2, <1>3, PoolCallKeepsGroup, EmplaceKeepsGroup, AddKeepsGroup, EraseKeepsGroup,
       InsertKeepsGroup, StepKeepsGroup DEF MasterSlaveNext

LEMMA GroupInit ==
  ASSUME MasterSlaveAssumption, MasterSlaveInit
  PROVE  GroupInv
  <1>1. todo = <<>> /\ slaves = [i \in SlaveIds |-> Free]
    BY DEF MasterSlaveInit, LifecycleInit
  <1>2. Ids = {}
    BY <1>1 DEF Ids
  <1>3. DOMAIN todo = {}
    BY <1>1
  <1> QED BY <1>2, <1>3, FS_EmptySet DEF GroupInv

LEMMA GroupAlways == MasterSlaveSpec => []GroupInv
  <1>1. MasterSlaveInit => GroupInv
    BY GroupInit, MasterSlaveAssumption
  <1>2. MasterSlaveInv => MasterSlaveTypeOK
    BY DEF MasterSlaveInv
  <1>3. MasterSlaveTypeOK /\ GroupInv /\ [MasterSlaveNext]_msVars => GroupInv'
    BY GroupStep, MasterSlaveAssumption
  <1> QED BY <1>1, <1>2, <1>3, InvAlways, PTL DEF MasterSlaveSpec

-----------------------------------------------------------------------------
(* The order of the map, and the loop over the pools.                       *)

Increasing(s) == \A i, j \in DOMAIN s : i < j => s[i] < s[j]

\* A finite set of numbers can be put in order.
LEMMA Enumeration ==
  ASSUME NEW S, S \subseteq Nat, IsFiniteSet(S)
  PROVE  \E s \in [1 .. Cardinality(S) -> S] : Increasing(s)
  <1> DEFINE Ordered(U) == \E s \in [1 .. Cardinality(U) -> U] : Increasing(s)
             T == {n \in Nat : \A U \in SUBSET Nat :
                                 IsFiniteSet(U) /\ Cardinality(U) = n => Ordered(U)}
  <1>1. 0 \in T
    <2>1. ASSUME NEW U \in SUBSET Nat, IsFiniteSet(U), Cardinality(U) = 0 PROVE Ordered(U)
      <3>1. PICK s : s = [i \in 1 .. 0 |-> 0]
        OBVIOUS
      <3>2. s \in [1 .. Cardinality(U) -> U] /\ Increasing(s)
        BY <2>1, <3>1 DEF Increasing
      <3> QED BY <3>2
    <2> HIDE DEF Ordered
    <2> QED BY <2>1
  <1>2. ASSUME NEW n \in Nat, n \in T PROVE n + 1 \in T
    <2>1. ASSUME NEW U \in SUBSET Nat, IsFiniteSet(U), Cardinality(U) = n + 1 PROVE Ordered(U)
      <3>1. U # {}
        BY <2>1, FS_EmptySet
      <3>2. PICK least \in U : \A y \in U : least <= y
        BY <3>1, Smallest
      <3> DEFINE W == U \ {least}
      <3>3. IsFiniteSet(W) /\ Cardinality(W) = n
        <4>1. IsFiniteSet(W) /\ Cardinality(W) = Cardinality(U) - 1
          BY <2>1, FS_RemoveElement
        <4> QED BY <2>1, <4>1
      <3>4. PICK s : s \in [1 .. n -> W] /\ Increasing(s)
        BY <1>2, <3>3
      <3> DEFINE t == [i \in 1 .. n + 1 |-> IF i = 1 THEN least ELSE s[i - 1]]
      <3>5. \A i \in 2 .. n + 1 : i - 1 \in 1 .. n /\ s[i - 1] \in W
        BY <3>4
      <3>6. t \in [1 .. n + 1 -> U]
        BY <3>5
      <3>7. ASSUME NEW i \in 1 .. n + 1, NEW j \in 1 .. n + 1, i < j PROVE t[i] < t[j]
        <4>1. j \in 2 .. n + 1 /\ t[j] = s[j - 1] /\ s[j - 1] \in W
          BY <3>5, <3>7
        <4>2. CASE i = 1
          <5>1. t[i] = least /\ least \in Nat /\ s[j - 1] \in Nat /\ least <= s[j - 1]
            BY <3>2, <4>1, <4>2
          <5> QED BY <4>1, <5>1
        <4>3. CASE i # 1
          <5>1. i - 1 \in DOMAIN s /\ j - 1 \in DOMAIN s /\ i - 1 < j - 1 /\ t[i] = s[i - 1]
            BY <3>4, <3>7, <4>3
          <5> QED BY <3>4, <4>1, <5>1 DEF Increasing
        <4> QED BY <4>2, <4>3
      <3>8. t \in [1 .. Cardinality(U) -> U] /\ Increasing(t)
        BY <2>1, <3>6, <3>7 DEF Increasing
      <3> HIDE DEF t
      <3> QED BY <3>8
    <2> HIDE DEF Ordered
    <2> QED BY <2>1
  <1>3. Nat \subseteq T
    <2> HIDE DEF T
    <2> QED BY <1>1, <1>2, Induction
  <1>4. Cardinality(S) \in T
    BY <1>3, FS_CardinalityType
  <1> QED BY <1>4

\* The iterators meet the slaves in the map's order, each one once.
LEMMA SlavesInOrder ==
  ASSUME MasterSlaveAssumption, MasterSlaveTypeOK, GroupInv
  PROVE  /\ Cardinality(Ids) \in Nat /\ Len(SlaveSeq) = Cardinality(Ids)
         /\ SlaveSeq \in [1 .. Cardinality(Ids) -> Ids]
         /\ \A id \in Ids : \E i \in 1 .. Cardinality(Ids) : SlaveSeq[i] = id
  <1>1. Ids \subseteq Nat /\ IsFiniteSet(Ids)
    BY DEF Ids, MasterSlaveAssumption, GroupInv
  <1>2. PICK n \in Nat : n = Cardinality(Ids)
    BY <1>1, FS_CardinalityType
  <1>3. \E s \in [1 .. Cardinality(Ids) -> Ids] : \A i, j \in DOMAIN s : i < j => s[i] < s[j]
    BY <1>1, Enumeration DEF Increasing
  <1>4. PICK s : /\ s = SlaveSeq /\ s \in [1 .. n -> Ids]
                 /\ \A i, j \in DOMAIN s : i < j => s[i] < s[j]
    BY <1>2, <1>3, Zenon DEF SlaveSeq
  <1>5. s \in Injection(1 .. n, Ids)
    <2>1. ASSUME NEW i \in 1 .. n, NEW j \in 1 .. n, s[i] = s[j] PROVE i = j
      <3>1. s[i] \in Nat /\ (i < j => s[i] < s[j]) /\ (j < i => s[j] < s[i])
        BY <1>1, <1>4
      <3> QED BY <2>1, <3>1
    <2> QED BY <1>4, <2>1 DEF Injection, IsInjective
  <1>6. Cardinality(1 .. n) = n
    <2>1. 1 \in Int /\ n \in Int
      OBVIOUS
    <2>2. Cardinality(1 .. n) = IF 1 > n THEN 0 ELSE n - 1 + 1
      BY <2>1, FS_Interval
    <2> QED BY <2>2
  <1>7. s \in Surjection(1 .. n, Ids)
    BY <1>1, <1>2, <1>5, <1>6, FS_Injection
  <1>8. \A id \in Ids : \E i \in 1 .. n : s[i] = id
    BY <1>7 DEF Surjection
  <1>9. Len(s) = n
    BY <1>4
  <1> QED BY <1>2, <1>4, <1>8, <1>9

\* A loop over a range of one item and a range of n meets each item, in their order.
LEMMA VisitedInOrder ==
  ASSUME NEW n \in Nat
  PROVE  Visited(1, n) = [k \in 1 .. n + 1 |-> IF k = 1 THEN <<1, 1>> ELSE <<2, k - 1>>]
  <1> DEFINE fuel == 1 + n + 1
             Shown(k) == [m \in 1 .. k |-> IF m = 1 THEN <<1, 1>> ELSE <<2, m - 1>>]
             After(k) == IF k = 0 THEN [it |-> FirstTag(1), seen |-> <<>>]
                         ELSE IF k > n THEN [it |-> SecondTag(n + 1), seen |-> Shown(n + 1)]
                         ELSE [it |-> SecondTag(k), seen |-> Shown(k)]
             Step(before) ==
               IF Same1(before.it, SecondTag(n + 1), 1, n) THEN before
               ELSE [it |-> Next1(before.it, 1, n), seen |-> Append(before.seen, Deref(before.it))]
  <1>0. fuel \in Nat /\ fuel = n + 2
    OBVIOUS
  <1>1. ~Same1(FirstTag(1), SecondTag(n + 1), 1, n)
    BY DEF Same1, FirstTag, SecondTag
  <1>2. \A k \in 1 .. n + 1 : Same1(SecondTag(k), SecondTag(n + 1), 1, n) <=> k = n + 1
    BY DEF Same1, SecondTag
  <1>3. Next1(FirstTag(1), 1, n) = SecondTag(1) /\ Deref(FirstTag(1)) = <<1, 1>>
    BY DEF Next1, FirstTag, SecondTag, Deref
  <1>4. \A k \in Nat : Next1(SecondTag(k), 1, n) = SecondTag(k + 1) /\ Deref(SecondTag(k)) = <<2, k>>
    BY DEF Next1, SecondTag, Deref
  <1>5. Append(<<>>, <<1, 1>>) = Shown(1)
    <2>1. Append(<<>>, <<1, 1>>) = <<<<1, 1>>>>
      OBVIOUS
    <2>2. Shown(1) = <<<<1, 1>>>>
      OBVIOUS
    <2> QED BY <2>1, <2>2
  <1>6. ASSUME NEW k \in Nat \ {0} PROVE Append(Shown(k), <<2, k>>) = Shown(k + 1)
    <2>1. Shown(k) \in Seq(Nat \X Nat) /\ Len(Shown(k)) = k
      OBVIOUS
    <2>2. Shown(k + 1) \in Seq(Nat \X Nat) /\ Len(Shown(k + 1)) = k + 1
      OBVIOUS
    <2> QED BY <2>1, <2>2
  <1>7. ASSUME NEW k \in 1 .. fuel PROVE After(k) = Step(After(k - 1))
    <2> HIDE DEF Shown
    <2>1. CASE k = 1
      <3>1. After(k - 1) = [it |-> FirstTag(1), seen |-> <<>>]
        BY <2>1
      <3>2. Step(After(k - 1)) = [it |-> SecondTag(1), seen |-> Shown(1)]
        BY <1>1, <1>3, <1>5, <3>1
      <3>3. After(k) = [it |-> SecondTag(1), seen |-> Shown(1)]
        BY <2>1
      <3> QED BY <3>2, <3>3
    <2>2. CASE k # 1 /\ k <= n + 1
      <3>1. /\ k - 1 \in Nat \ {0} /\ k - 1 \in 1 .. n + 1 /\ k - 1 # n + 1 /\ (k - 1) + 1 = k
        BY <2>2
      <3>2. After(k - 1) = [it |-> SecondTag(k - 1), seen |-> Shown(k - 1)]
        BY <2>2
      <3>3. Step(After(k - 1)) = [it |-> SecondTag(k), seen |-> Shown(k)]
        BY <1>2, <1>4, <1>6, <3>1, <3>2
      <3>4. After(k) = [it |-> SecondTag(k), seen |-> Shown(k)]
        BY <2>2
      <3> QED BY <3>3, <3>4
    <2>3. CASE k > n + 1
      <3>1. After(k - 1) = [it |-> SecondTag(n + 1), seen |-> Shown(n + 1)] /\ After(k) = After(k - 1)
        BY <2>3
      <3>2. Same1(SecondTag(n + 1), SecondTag(n + 1), 1, n)
        BY <1>2
      <3> QED BY <3>1, <3>2
    <2> QED BY <2>1, <2>2, <2>3
  <1>8. After(fuel).seen = Shown(n + 1)
    BY <1>0
  <1> DEFINE g == [k \in 0 .. fuel |-> After(k)]
  <1>9. g = [k \in 0 .. fuel |-> IF k = 0 THEN [it |-> FirstTag(1), seen |-> <<>>]
                                 ELSE Step(g[k - 1])]
    <2> HIDE DEF Step, fuel
    <2>1. \A k \in 1 .. fuel : k - 1 \in 0 .. fuel
      BY <1>0
    <2>2. After(0) = [it |-> FirstTag(1), seen |-> <<>>]
      OBVIOUS
    <2> HIDE DEF After
    <2> QED BY <1>0, <1>7, <2>1, <2>2
  <1>10. PICK f : /\ f = [k \in 0 .. 1 + n + 1 |->
                            IF k = 0 THEN [it |-> FirstTag(1), seen |-> <<>>]
                            ELSE Step(f[k - 1])]
                  /\ Visited(1, n) = f[1 + n + 1].seen
    <2> HIDE DEF g
    <2> QED BY <1>9, Zenon DEF Visited
  <1>11. f[0] = g[0] /\ \A k \in 1 .. fuel : f[k - 1] = g[k - 1] => f[k] = g[k]
    <2> HIDE DEF Step, After
    <2>1. f[0] = [it |-> FirstTag(1), seen |-> <<>>] /\ \A k \in 1 .. fuel : f[k] = Step(f[k - 1])
      BY <1>0, <1>10
    <2>2. g[0] = [it |-> FirstTag(1), seen |-> <<>>] /\ \A k \in 1 .. fuel : g[k] = Step(g[k - 1])
      <3> HIDE DEF g
      <3> QED BY <1>0, <1>9
    <2> HIDE DEF g
    <2> QED BY <2>1, <2>2
  <1>12. f[fuel] = g[fuel]
    <2> HIDE DEF g
    <2> QED BY <1>0, <1>11, AgreeUpTo
  <1>13. g[fuel] = After(fuel)
    <2> HIDE DEF After
    <2> QED BY <1>0
  <1>14. Visited(1, n) = Shown(n + 1)
    <2> HIDE DEF g, After, Shown
    <2> QED BY <1>8, <1>10, <1>12, <1>13, Zenon
  <1> QED BY <1>14

LEMMA IterationIs ==
  ASSUME MasterSlaveAssumption, MasterSlaveTypeOK, GroupInv
  PROVE  /\ DOMAIN Iteration = 1 .. Cardinality(Ids) + 1 /\ Len(Iteration) = Cardinality(Ids) + 1
         /\ Iteration[1] = Master
         /\ \A k \in 2 .. Cardinality(Ids) + 1 : Iteration[k] = slaves[SlaveSeq[k - 1]]
  <1>1. PICK n \in Nat : n = Cardinality(Ids) /\ n = Len(SlaveSeq)
    BY SlavesInOrder
  <1>2. PICK items : /\ items = Visited(1, n)
                     /\ items = [k \in 1 .. n + 1 |-> IF k = 1 THEN <<1, 1>> ELSE <<2, k - 1>>]
    BY VisitedInOrder
  <1>3. Iteration = [k \in DOMAIN items |-> IF items[k][1] = 1 THEN Master
                                            ELSE slaves[SlaveSeq[items[k][2]]]]
    BY <1>1, <1>2, Zenon DEF Iteration
  <1>4. /\ DOMAIN items = 1 .. n + 1 /\ items[1][1] = 1
        /\ \A k \in 2 .. n + 1 : items[k][1] # 1 /\ items[k][2] = k - 1
    BY <1>2
  <1>5. /\ DOMAIN Iteration = 1 .. n + 1 /\ Iteration[1] = Master
        /\ \A k \in 2 .. n + 1 : Iteration[k] = slaves[SlaveSeq[k - 1]]
    <2>1. 1 \in 1 .. n + 1 /\ \A k \in 2 .. n + 1 : k \in 1 .. n + 1
      OBVIOUS
    <2> QED BY <1>3, <1>4, <2>1, Zenon
  <1>6. Len(Iteration) = n + 1
    <2>1. n + 1 \in Nat
      OBVIOUS
    <2> QED BY <1>5, <2>1
  <1> QED BY <1>1, <1>5, <1>6

\* Whatever was added, refused and erased, a loop over the pools meets the master and
\* then every slave, each one once and alive, as many as size() says, and the look-ups
\* find only these (master_slave_connection_pools.hpp, concat_iterator.hpp).
THEOREM LoopsVisitAll == MasterSlaveSpec => []IterationVisitsAll
  <1>1. ASSUME MasterSlaveTypeOK, GroupInv, base[Master] = "here" PROVE IterationVisitsAll
    <2>1. PICK n \in Nat : n = Cardinality(Ids)
      BY <1>1, SlavesInOrder, MasterSlaveAssumption
    <2>2. /\ DOMAIN Iteration = 1 .. n + 1 /\ Len(Iteration) = n + 1 /\ Iteration[1] = Master
          /\ \A k \in 2 .. n + 1 : Iteration[k] = slaves[SlaveSeq[k - 1]]
      BY <1>1, <2>1, IterationIs, MasterSlaveAssumption
    <2>3. ToSet(Iteration) = {Master} \cup Pooled
      <3>1. ToSet(Iteration) = {Iteration[k] : k \in 1 .. n + 1}
        BY <2>2, Zenon DEF ToSet
      <3>2. ASSUME NEW k \in 1 .. n + 1 PROVE Iteration[k] \in {Master} \cup Pooled
        <4>1. k # 1 => k - 1 \in 1 .. n
          OBVIOUS
        <4>2. k # 1 => SlaveSeq[k - 1] \in Ids
          BY <1>1, <2>1, <4>1, SlavesInOrder, MasterSlaveAssumption
        <4> QED BY <2>2, <4>2 DEF Pooled
      <3>3. \E k \in 1 .. n + 1 : Iteration[k] = Master
        BY <2>2
      <3>4. ASSUME NEW id \in Ids PROVE \E k \in 1 .. n + 1 : Iteration[k] = slaves[id]
        <4>1. PICK i \in 1 .. n : SlaveSeq[i] = id
          BY <1>1, <2>1, SlavesInOrder, MasterSlaveAssumption
        <4>2. i + 1 \in 2 .. n + 1 /\ i + 1 \in 1 .. n + 1 /\ (i + 1) - 1 = i
          OBVIOUS
        <4>3. Iteration[i + 1] = slaves[id]
          BY <2>2, <4>1, <4>2, Zenon
        <4> QED BY <4>2, <4>3
      <3> QED BY <3>1, <3>2, <3>3, <3>4 DEF Pooled
    <2>4. IsFiniteSet(Pooled) /\ Cardinality(Pooled) = n
      <3>1. PICK f : f = [i \in Ids |-> slaves[i]]
        OBVIOUS
      <3>2. f \in Bijection(Ids, Pooled)
        BY <1>1, <3>1 DEF GroupInv, Pooled, Bijection, Injection, Surjection, IsInjective
      <3> QED BY <1>1, <2>1, <3>2, FS_Bijection DEF GroupInv, ExistsBijection
    <2>5. Cardinality(ToSet(Iteration)) = n + 1
      <3>1. PICK S : S = Pooled
        OBVIOUS
      <3>2. IsFiniteSet(S) /\ Cardinality(S) = n /\ Master \notin S
        BY <1>1, <2>4, <3>1, PooledHere
      <3>3. Cardinality(S \cup {Master}) = n + 1
        BY <3>2, FS_AddElement
      <3>4. S \cup {Master} = ToSet(Iteration)
        BY <2>3, <3>1
      <3> QED BY <3>3, <3>4, Zenon
    <2>6. \A o \in ToSet(Iteration) : base[o] = "here"
      BY <1>1, <2>3, PooledHere
    <2>7. getSlavePoolRef \in ToSet(Iteration)
      <3>1. CASE Ids = {}
        BY <2>3, <3>1 DEF getSlavePoolRef
      <3>2. CASE Ids # {}
        <4>1. n # 0
          BY <1>1, <2>1, <3>2, FS_EmptySet DEF GroupInv
        <4>2. SlaveSeq[1] \in Ids
          BY <1>1, <2>1, <4>1, SlavesInOrder, MasterSlaveAssumption
        <4> QED BY <2>3, <3>2, <4>2 DEF getSlavePoolRef, Pooled
      <3> QED BY <3>1, <3>2
    <2>8. ASSUME NEW id \in SlaveIds
          PROVE  /\ getSlaveOrMasterPoolRef(id) \in ToSet(Iteration)
                 /\ getSlavePoolRefOf(id) \in ToSet(Iteration) \cup {Free}
      BY <2>3 DEF getSlaveOrMasterPoolRef, getSlavePoolRefOf, Pooled, Ids
    <2> QED BY <2>1, <2>2, <2>5, <2>6, <2>7, <2>8 DEF IterationVisitsAll, size
  <1>2. MasterSlaveTypeOK /\ GroupInv => IterationVisitsAll
    BY <1>1 DEF IterationVisitsAll
  <1>3. MasterSlaveInv => MasterSlaveTypeOK
    BY DEF MasterSlaveInv
  <1> QED BY <1>2, <1>3, GroupAlways, InvAlways, PTL
=============================================================================
