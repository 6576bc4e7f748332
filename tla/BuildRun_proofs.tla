---------------------------- MODULE BuildRun_proofs ----------------------------
(***************************************************************************)
(* Proofs about BuildRun, for any runs in one work space, any tasks and any*)
(* processors of the steps: what the exit code says is so, the numbers of  *)
(* the summary add up, the file step-by-step.json holds whole accounts of  *)
(* builds, after a build that passed its own, the outputs of a build are   *)
(* those of the tasks it executed, and builds that do not overlap all      *)
(* leave their items in the ledger.                                        *)
(*                                                                         *)
(* The invariant has three parts: the types, what is so of each run by     *)
(* itself (Local), and what is so of the files the runs share (Shared).    *)
(* Every action is one run's: OfRun says that a step leaves the others     *)
(* alone, so that Local is to be shown for the run that takes the step.    *)
(* OutputsInv, of the outputs, and ItemsInv and LedgerInv, of the ledger,  *)
(* are kept beside it, each with a lemma for each kind of step.            *)
(***************************************************************************)
EXTENDS BuildRun, Recursion, FiniteSetTheorems, TLAPS

-----------------------------------------------------------------------------
(* The account of a build as it grows                                      *)

\* the steps a task transmits before it ends
TaskStepNames == {"TASK_STORE_GET", "TASK_STORE_PUT", "TEST_ENDED", "ASSET_PUBLISHED"}
\* how a task came to its verdict
Types == {"CANNOT_START", "UNKNOWN", "CACHED", "EXECUTED"}

\* The steps of a run, of a task while it goes on, and at its end.
RunSteps == [step : {"BUILD_RUN_STARTED", "PLAN_PREPARED", "BUILD_RUN_ENDED"}]
Chats == [step : TaskStepNames, task : AllTasks]
EndSteps == [step : {"TASK_ENDED"}, task : AllTasks, type : Types, verdict : {"OK", "FAIL", "CRASH"}]
AllSteps == RunSteps \cup Chats \cup EndSteps
TaskSteps == Chats \cup EndSteps

\* The step is the end of the task.
IsEnd(s, i, t) == s[i] \in EndSteps /\ s[i].task = t

\* The account of a build that is under way: these tasks have ended.
Told(s, done) ==
    /\ s \in Seq(AllSteps) /\ Len(s) >= 2
    /\ s[1] = Step("BUILD_RUN_STARTED") /\ s[2] = Step("PLAN_PREPARED")
    /\ \A i \in 3 .. Len(s) : s[i] \in Chats \cup EndSteps
    /\ \A i \in 3 .. Len(s) : s[i] \in EndSteps => s[i].task \in done
    /\ \A t \in done : \E i \in 3 .. Len(s) :
        IsEnd(s, i, t) /\ \A j \in 3 .. Len(s) : s[j].task = t => j = i \/ (j < i /\ s[j] \in Chats)

\* The account tells of no task that crashed.
NoCrash(s) == \A i \in DOMAIN s : s[i] \in EndSteps => s[i].verdict # "CRASH"

\* What is transmitted is a step of the run, of a task, or the end of a task.
LEMMA StepKinds ==
    /\ \A e \in RunSteps : e.step \in {"BUILD_RUN_STARTED", "PLAN_PREPARED", "BUILD_RUN_ENDED"}
    /\ \A e \in Chats : e.step \in TaskStepNames /\ e.task \in AllTasks
    /\ \A e \in EndSteps : e.step = "TASK_ENDED" /\ e.task \in AllTasks /\ e.verdict \in {"OK", "FAIL", "CRASH"}
    /\ \A n \in {"BUILD_RUN_STARTED", "PLAN_PREPARED", "BUILD_RUN_ENDED"} : Step(n) \in RunSteps /\ Step(n).step = n
    /\ \A n \in TaskStepNames, t \in AllTasks : TaskStep(n, t) \in Chats /\ TaskStep(n, t).step = n /\ TaskStep(n, t).task = t
    /\ \A t \in AllTasks, y \in Types, v \in {"OK", "FAIL", "CRASH"} :
        Ended(t, y, v) \in EndSteps /\ Ended(t, y, v).task = t /\ Ended(t, y, v).verdict = v
  BY DEF RunSteps, Chats, EndSteps, Step, TaskStep, Ended

\* The name of a step tells its kind.
LEMMA Kinds ==
    \A e \in AllSteps :
        /\ e \in RunSteps <=> e.step \in {"BUILD_RUN_STARTED", "PLAN_PREPARED", "BUILD_RUN_ENDED"}
        /\ e \in Chats <=> e.step \in TaskStepNames
        /\ e \in EndSteps <=> e.step = "TASK_ENDED"
        /\ e \in RunSteps \/ e \in Chats \/ e \in EndSteps
  BY StepKinds DEF AllSteps, TaskStepNames

\* The account begins with the start of the run and its plan.
LEMMA ToldBegins ==
    Told(<<Step("BUILD_RUN_STARTED")>> \o <<Step("PLAN_PREPARED")>>, {})
  <1>1. ASSUME NEW a \in AllSteps, NEW b \in AllSteps
        PROVE  /\ <<a>> \o <<b>> \in Seq(AllSteps) /\ Len(<<a>> \o <<b>>) = 2
               /\ (<<a>> \o <<b>>)[1] = a /\ (<<a>> \o <<b>>)[2] = b
    OBVIOUS
  <1>2. Step("BUILD_RUN_STARTED") \in AllSteps /\ Step("PLAN_PREPARED") \in AllSteps
    BY StepKinds DEF AllSteps
  <1> QED BY <1>1, <1>2 DEF Told

\* Steps of a task that has not ended leave the account as it should be.
LEMMA ToldChats ==
    ASSUME NEW s, NEW done, Told(s, done), NEW n \in Seq(Chats), NEW t, t \notin done,
           \A i \in DOMAIN n : n[i].task = t
    PROVE  Told(s \o n, done)
  <1> DEFINE u == s \o n
  <1>1. n \in Seq(AllSteps) /\ s \in Seq(AllSteps)
    <2>1. \A i \in 1 .. Len(n) : n[i] \in AllSteps BY DEF AllSteps
    <2> QED BY <2>1 DEF Told
  <1>2. u \in Seq(AllSteps) /\ Len(u) = Len(s) + Len(n) /\ Len(s) \in Nat /\ Len(n) \in Nat
    BY <1>1
  <1>3. \A i \in 1 .. Len(s) : u[i] = s[i] BY <1>1
  <1>4. \A i \in (Len(s) + 1) .. Len(u) : u[i] = n[i - Len(s)] /\ i - Len(s) \in DOMAIN n BY <1>1, <1>2
  <1>5. \A i \in (Len(s) + 1) .. Len(u) : u[i] \in Chats /\ u[i] \notin EndSteps /\ u[i].task = t
    BY <1>4, StepKinds DEF TaskStepNames
  <1>6. \A i \in 3 .. Len(u) : i \in 3 .. Len(s) \/ i \in (Len(s) + 1) .. Len(u) BY <1>2 DEF Told
  <1>7. \A d \in done : \E i \in 3 .. Len(u) :
            IsEnd(u, i, d) /\ \A j \in 3 .. Len(u) : u[j].task = d => j = i \/ (j < i /\ u[j] \in Chats)
    <2> TAKE d \in done
    <2>1. PICK i \in 3 .. Len(s) :
            IsEnd(s, i, d) /\ \A j \in 3 .. Len(s) : s[j].task = d => j = i \/ (j < i /\ s[j] \in Chats)
      BY DEF Told
    <2>2. i \in 3 .. Len(u) /\ IsEnd(u, i, d) BY <2>1, <1>2, <1>3 DEF IsEnd
    <2>3. ASSUME NEW j \in 3 .. Len(u), u[j].task = d PROVE j = i \/ (j < i /\ u[j] \in Chats)
      <3>1. d # t OBVIOUS
      <3>2. j \in 3 .. Len(s) BY <1>5, <1>6, <2>3, <3>1
      <3> QED BY <3>2, <2>1, <2>3, <1>3
    <2> QED BY <2>2, <2>3
  <1>8. \A i \in 3 .. Len(u) : u[i] \in Chats \cup EndSteps BY <1>3, <1>5, <1>6 DEF Told
  <1>9. \A i \in 3 .. Len(u) : u[i] \in EndSteps => u[i].task \in done BY <1>3, <1>5, <1>6 DEF Told
  <1>10. Len(u) >= 2 /\ u[1] = Step("BUILD_RUN_STARTED") /\ u[2] = Step("PLAN_PREPARED")
    BY <1>2, <1>3 DEF Told
  <1> HIDE DEF u
  <1>11. Told(u, done) BY <1>2, <1>7, <1>8, <1>9, <1>10 DEF Told
  <1> QED BY <1>11 DEF u

\* The end of a task that has not ended makes it one of those that have.
LEMMA ToldEnds ==
    ASSUME NEW s, NEW done, Told(s, done), NEW e \in EndSteps, e.task \notin done
    PROVE  Told(s \o <<e>>, done \cup {e.task})
  <1> DEFINE u == s \o <<e>>
  <1>1. <<e>> \in Seq(AllSteps) /\ s \in Seq(AllSteps) BY DEF AllSteps, Told
  <1>2. u \in Seq(AllSteps) /\ Len(u) = Len(s) + 1 /\ Len(s) \in Nat /\ Len(s) >= 2
    BY <1>1 DEF Told
  <1>3. \A i \in 1 .. Len(s) : u[i] = s[i] BY <1>1
  <1>4. u[Len(u)] = e BY <1>1, <1>2
  <1>6. \A i \in 3 .. Len(u) : i \in 3 .. Len(s) \/ i = Len(u) BY <1>2
  <1>x. \A i \in 3 .. Len(s) : i \in 1 .. Len(s) /\ i \in 3 .. Len(u) /\ i < Len(u) BY <1>2
  <1> HIDE DEF u
  <1>7. ASSUME NEW d \in done PROVE \E i \in 3 .. Len(u) :
            IsEnd(u, i, d) /\ \A j \in 3 .. Len(u) : u[j].task = d => j = i \/ (j < i /\ u[j] \in Chats)
    <2>1. PICK i \in 3 .. Len(s) :
            IsEnd(s, i, d) /\ \A j \in 3 .. Len(s) : s[j].task = d => j = i \/ (j < i /\ s[j] \in Chats)
      BY <1>7 DEF Told
    <2>2. i \in 3 .. Len(u) /\ IsEnd(u, i, d) BY <2>1, <1>x, <1>3 DEF IsEnd
    <2>3. ASSUME NEW j \in 3 .. Len(u), u[j].task = d PROVE j = i \/ (j < i /\ u[j] \in Chats)
      <3>1. d # e.task BY <1>7
      <3>2. j \in 3 .. Len(s) BY <1>4, <1>6, <2>3, <3>1
      <3> QED BY <3>2, <2>1, <2>3, <1>3, <1>x
    <2> QED BY <2>2, <2>3
  <1>8. \A j \in 3 .. Len(u) : u[j].task = e.task => j = Len(u) \/ (j < Len(u) /\ u[j] \in Chats)
    <2> SUFFICES ASSUME NEW j \in 3 .. Len(u), u[j].task = e.task, j # Len(u)
                 PROVE  j < Len(u) /\ u[j] \in Chats
      OBVIOUS
    <2>1. j \in 3 .. Len(s) /\ j < Len(u) /\ u[j] = s[j] BY <1>6, <1>x, <1>3
    <2> QED BY <2>1 DEF Told
  <1>9. Len(u) \in 3 .. Len(u) /\ IsEnd(u, Len(u), e.task) BY <1>2, <1>4 DEF IsEnd
  <1>10. \A d \in done \cup {e.task} : \E i \in 3 .. Len(u) :
            IsEnd(u, i, d) /\ \A j \in 3 .. Len(u) : u[j].task = d => j = i \/ (j < i /\ u[j] \in Chats)
    BY <1>7, <1>8, <1>9
  <1>11. \A i \in 3 .. Len(u) : u[i] \in Chats \cup EndSteps BY <1>3, <1>4, <1>6, <1>x DEF Told
  <1>12. \A i \in 3 .. Len(u) : u[i] \in EndSteps => u[i].task \in done \cup {e.task}
    BY <1>3, <1>4, <1>6, <1>x DEF Told
  <1>13. Len(u) >= 2 /\ u[1] = Step("BUILD_RUN_STARTED") /\ u[2] = Step("PLAN_PREPARED")
    BY <1>2, <1>3 DEF Told
  <1>14. Told(u, done \cup {e.task}) BY <1>2, <1>10, <1>11, <1>12, <1>13 DEF Told
  <1> QED BY <1>14 DEF u

\* With the end of the run the account is whole.
LEMMA ToldAll ==
    ASSUME NEW s, NEW done, Told(s, done)
    PROVE  Account(s \o <<Step("BUILD_RUN_ENDED")>>, done)
  <1> DEFINE b == Step("BUILD_RUN_ENDED")
             u == s \o <<b>>
  <1>1. b \in RunSteps /\ b.step = "BUILD_RUN_ENDED" BY StepKinds
  <1>2. Len(u) = Len(s) + 1 /\ Len(s) \in Nat /\ Len(s) >= 2 /\ DOMAIN u = 1 .. Len(u)
    BY DEF Told
  <1>3. \A i \in 1 .. Len(s) : u[i] = s[i] BY DEF Told
  <1>4. u[Len(u)] = b BY <1>2 DEF Told
  <1>5. u[1].step = "BUILD_RUN_STARTED" /\ u[2].step = "PLAN_PREPARED"
    BY <1>2, <1>3, StepKinds DEF Told
  <1>6. \A i \in 3 .. Len(s) : u[i] = s[i] /\ u[i] \in Chats \cup EndSteps BY <1>2, <1>3 DEF Told
  <1>7. \A i \in 3 .. Len(s) : u[i].step \in TaskStepNames \cup {"TASK_ENDED"} BY <1>6, StepKinds
  <1>8. \A i \in DOMAIN u : i = 1 \/ i = 2 \/ i \in 3 .. Len(s) \/ i = Len(u) BY <1>2
  <1>9. 1 \in DOMAIN u /\ 2 \in DOMAIN u /\ Len(u) \in DOMAIN u /\ \A i \in 3 .. Len(s) : i \in DOMAIN u
    BY <1>2
  <1> HIDE DEF u, b
  <1>10. At(u, "BUILD_RUN_STARTED") = {1} BY <1>1, <1>4, <1>5, <1>7, <1>8, <1>9 DEF At, TaskStepNames
  <1>11. At(u, "PLAN_PREPARED") = {2} BY <1>1, <1>4, <1>5, <1>7, <1>8, <1>9 DEF At, TaskStepNames
  <1>12. At(u, "BUILD_RUN_ENDED") = {Len(u)} BY <1>1, <1>4, <1>5, <1>7, <1>8, <1>9 DEF At, TaskStepNames
  <1>13. ASSUME NEW t \in done
         PROVE  \E i \in Of(u, t) : At(u, "TASK_ENDED") \cap Of(u, t) = {i} /\ \A j \in Of(u, t) : j <= i
    <2>1. PICK i \in 3 .. Len(s) :
            IsEnd(s, i, t) /\ \A j \in 3 .. Len(s) : s[j].task = t => j = i \/ (j < i /\ s[j] \in Chats)
      BY <1>13 DEF Told
    <2>2. \A j \in Of(u, t) : j \in 3 .. Len(s) /\ u[j].task = t
      BY <1>1, <1>4, <1>5, <1>8 DEF Of
    <2>3. i \in Of(u, t) /\ i \in At(u, "TASK_ENDED")
      BY <2>1, <1>6, <1>9, StepKinds DEF Of, At, IsEnd
    <2>4. \A j \in Of(u, t) : j = i \/ (j < i /\ s[j] \in Chats) BY <2>1, <2>2, <1>6
    <2>5. \A j \in Of(u, t) : j \in At(u, "TASK_ENDED") => j = i
      BY <2>2, <2>4, <1>6, StepKinds DEF At, TaskStepNames
    <2>6. \A j \in Of(u, t) : j <= i BY <2>2, <2>4, <1>2
    <2> QED BY <2>3, <2>5, <2>6
  <1>14. Account(u, done) BY <1>10, <1>11, <1>12, <1>13 DEF Account
  <1> QED BY <1>14 DEF u, b

\* An account that tells of no crash goes on telling of none.
LEMMA NoCrashGrows ==
    ASSUME NEW s \in Seq(AllSteps), NEW n \in Seq(AllSteps), NoCrash(s), NoCrash(n)
    PROVE  NoCrash(s \o n)
  <1>1. \A i \in DOMAIN (s \o n) :
            (i \in DOMAIN s /\ (s \o n)[i] = s[i])
            \/ (i - Len(s) \in DOMAIN n /\ (s \o n)[i] = n[i - Len(s)])
    OBVIOUS
  <1> QED BY <1>1 DEF NoCrash
-----------------------------------------------------------------------------
(* The types                                                               *)

\* how far a task has come, and the statements a run may be at
Statuses == {"waiting", "executing", "reported", "ended"}
Early == {"none", "init-config", "generate-tsconfig", "started"} \cup Builds
Begun == {"ledger", "initialize", "plan"}
PCs == Early \cup Begun \cup {"execute", "close", "returning", "gone"}

\* The types of what the proofs are about.
TypeInv ==
    /\ command \in [Runs -> Builds \cup {"init-config", "generate-tsconfig"}]
    /\ \A r \in Runs : plan[r] \subseteq AllTasks
    /\ pc \in [Runs -> PCs]
    /\ outcome \in [Runs -> {NoRun, "OK", "FAIL", "CRASH"}]
    /\ exitCode \in [Runs -> {0, 1, 2, 9, NoExit}]
    /\ DOMAIN task = Runs /\ DOMAIN verdict = Runs /\ DOMAIN viz = Runs
    /\ \A r \in Runs : task[r] \in [plan[r] -> Statuses] /\ verdict[r] \in [plan[r] -> {"UNKNOWN", "OK", "FAIL"}]
    /\ steps \in [Runs -> Seq(AllSteps)]
    /\ rejected \in [Runs -> BOOLEAN]
    /\ closing \in [Runs -> SUBSET {"ledger", "write", "writing", "steps"}]

\* The types hold at first.
LEMMA TypeInit == Init => TypeInv
  <1> SUFFICES ASSUME Init PROVE TypeInv OBVIOUS
  <1>1. \A c : PlanOf(c) \subseteq AllTasks BY RunsAssumption DEF PlanOf, AllTasks
  <1>2. command \in [Runs -> Builds \cup {"init-config", "generate-tsconfig"}]
    BY RunsAssumption DEF Init, Builds
  <1> QED BY <1>1, <1>2 DEF Init, TypeInv, PCs, Early, Statuses, NoRun, NoExit

\* What is transmitted are steps.
LEMMA TransmitType ==
    ASSUME TypeInv, NEW r \in Runs, NEW n \in Seq(AllSteps), NEW throws \in BOOLEAN, NEW awaited \in BOOLEAN,
           Transmit(r, n, throws, awaited)
    PROVE  /\ steps' \in [Runs -> Seq(AllSteps)] /\ rejected' \in [Runs -> BOOLEAN]
           /\ steps'[r] = steps[r] \o n
           /\ \A q \in Runs \ {r} : steps'[q] = steps[q] /\ rejected'[q] = rejected[q]
  BY DEF Transmit, TypeInv

\* Steps of tasks are steps.
LEMMA TaskStepsAreSteps == ASSUME NEW n \in Seq(TaskSteps) PROVE n \in Seq(AllSteps)
  <1>1. \A i \in 1 .. Len(n) : n[i] \in AllSteps BY DEF AllSteps, TaskSteps
  <1> QED BY <1>1

\* A step by itself is a sequence of steps.
LEMMA OneStep == \A e \in AllSteps : <<e>> \in Seq(AllSteps)
  OBVIOUS

\* The two forms of the end of a task, by whether the processor throws.
TaskEndedQuietly(r, t, before, type, v) ==
    /\ Transmit(r, before \o <<Ended(t, type, v)>>, FALSE, TRUE)
    /\ Bump(r, <<VisualizerEnded(type, v)>>)
    /\ UNCHANGED <<pc, outcome>>

TaskEndedBadly(r) ==
    /\ \E n \in Seq(TaskSteps) : Transmit(r, n, TRUE, TRUE)
    /\ \E w : viz' = [viz EXCEPT ![r] = w]
    /\ Fails(r, "CRASH")

\* TaskEnded() has one of the two forms.
LEMMA EndForms ==
    ASSUME TypeInv, NEW r \in Runs, NEW t \in plan[r], NEW before \in Seq(Chats), NEW type \in Types,
           NEW v \in {"OK", "FAIL"}, TaskEnded(r, t, before, type, v)
    PROVE  TaskEndedQuietly(r, t, before, type, v) \/ TaskEndedBadly(r)
  <1> DEFINE P(throws) ==
        LET again == IF throws THEN <<"CRASH">> ELSE <<>>
            verdicts == <<v>> \o again IN
        /\ Transmit(r, before \o [i \in DOMAIN verdicts |-> Ended(t, type, verdicts[i])], throws, TRUE)
        /\ Bump(r, [i \in DOMAIN verdicts |-> VisualizerEnded(type, verdicts[i])])
        /\ IF throws THEN Fails(r, "CRASH") ELSE UNCHANGED <<pc, outcome>>
  <1>1. \E throws \in BOOLEAN : P(throws) BY DEF TaskEnded
  <1>2. CASE P(FALSE)
    <2>1. DOMAIN (<<v>> \o <<>>) = {1} /\ (<<v>> \o <<>>)[1] = v OBVIOUS
    <2>2. [i \in DOMAIN (<<v>> \o <<>>) |-> Ended(t, type, (<<v>> \o <<>>)[i])] = <<Ended(t, type, v)>>
      BY <2>1
    <2>3. [i \in DOMAIN (<<v>> \o <<>>) |-> VisualizerEnded(type, (<<v>> \o <<>>)[i])] = <<VisualizerEnded(type, v)>>
      BY <2>1
    <2> QED BY <1>2, <2>2, <2>3 DEF TaskEndedQuietly
  <1>3. CASE P(TRUE)
    <2> DEFINE w == <<v>> \o <<"CRASH">>
               n == [i \in DOMAIN w |-> Ended(t, type, w[i])]
    <2>1. DOMAIN w = 1 .. 2 /\ w[1] = v /\ w[2] = "CRASH" OBVIOUS
    <2>2. \A i \in 1 .. 2 : w[i] \in {"OK", "FAIL", "CRASH"} BY <2>1
    <2>3. t \in AllTasks BY DEF TypeInv
    <2>4. \A i \in 1 .. 2 : Ended(t, type, w[i]) \in TaskSteps BY <2>2, <2>3, StepKinds DEF TaskSteps
    <2> HIDE DEF w
    <2>5. n \in Seq(TaskSteps) BY <2>1, <2>4
    <2>6. before \in Seq(TaskSteps)
      <3>1. \A i \in 1 .. Len(before) : before[i] \in TaskSteps BY DEF TaskSteps
      <3> QED BY <3>1
    <2>7. before \o n \in Seq(TaskSteps) BY <2>5, <2>6
    <2>8. Transmit(r, before \o n, TRUE, TRUE) /\ Fails(r, "CRASH")
          /\ Bump(r, [i \in DOMAIN w |-> VisualizerEnded(type, w[i])])
      BY <1>3 DEF w
    <2>9. \E x : viz' = [viz EXCEPT ![r] = x] BY <2>8 DEF Bump
    <2> QED BY <2>7, <2>8, <2>9 DEF TaskEndedBadly
  <1> QED BY <1>1, <1>2, <1>3
-----------------------------------------------------------------------------
(* A step of one run, and the others                                       *)

\* A step leaves the run alone.
Kept(q) ==
    /\ pc'[q] = pc[q] /\ outcome'[q] = outcome[q] /\ exitCode'[q] = exitCode[q]
    /\ task'[q] = task[q] /\ verdict'[q] = verdict[q] /\ viz'[q] = viz[q]
    /\ steps'[q] = steps[q] /\ rejected'[q] = rejected[q] /\ closing'[q] = closing[q]

\* The step is one of r, and of no other run.
OfRun(r) == TypeInv' /\ command' = command /\ plan' = plan /\ \A q \in Runs \ {r} : Kept(q)

\* The statements a run is sent to are statements.
LEMMA PcNames ==
    /\ Builds \cup {"init-config", "generate-tsconfig"} \subseteq PCs
    /\ {"started", "ledger", "initialize", "plan", "execute", "close", "returning", "gone"} \subseteq PCs
  BY DEF PCs, Early, Begun

\* A run goes to a statement, the others stay where they are.
LEMMA GotoType ==
    ASSUME TypeInv, NEW r \in Runs, NEW s \in PCs, Goto(r, s)
    PROVE  pc' \in [Runs -> PCs] /\ pc'[r] = s /\ \A q \in Runs \ {r} : pc'[q] = pc[q]
  BY DEF Goto, TypeInv

\* A run comes to its outcome, the others stay where they are.
LEMMA EndsType ==
    ASSUME TypeInv, NEW r \in Runs, NEW o \in {"OK", "FAIL", "CRASH"}, Ends(r, o)
    PROVE  /\ pc' \in [Runs -> PCs] /\ pc'[r] = "returning" /\ \A q \in Runs \ {r} : pc'[q] = pc[q]
           /\ outcome' \in [Runs -> {NoRun, "OK", "FAIL", "CRASH"}] /\ outcome'[r] = o
           /\ \A q \in Runs \ {r} : outcome'[q] = outcome[q]
  <1>1. Goto(r, "returning") /\ outcome' = [outcome EXCEPT ![r] = o] BY DEF Ends
  <1>2. pc' \in [Runs -> PCs] /\ pc'[r] = "returning" /\ \A q \in Runs \ {r} : pc'[q] = pc[q]
    BY <1>1, GotoType, PcNames
  <1> QED BY <1>1, <1>2 DEF TypeInv

\* A task of a run fails: the run is about to return, with the first error.
LEMMA FailsType ==
    ASSUME TypeInv, NEW r \in Runs, NEW o \in {"FAIL", "CRASH"}, Fails(r, o)
    PROVE  /\ pc' \in [Runs -> PCs] /\ pc'[r] = "returning" /\ \A q \in Runs \ {r} : pc'[q] = pc[q]
           /\ outcome' \in [Runs -> {NoRun, "OK", "FAIL", "CRASH"}]
           /\ outcome'[r] = (IF pc[r] = "execute" THEN o ELSE outcome[r])
           /\ \A q \in Runs \ {r} : outcome'[q] = outcome[q]
  <1>1. Goto(r, "returning") /\ outcome' = [outcome EXCEPT ![r] = IF pc[r] = "execute" THEN o ELSE @] BY DEF Fails
  <1>2. pc' \in [Runs -> PCs] /\ pc'[r] = "returning" /\ \A q \in Runs \ {r} : pc'[q] = pc[q]
    BY <1>1, GotoType, PcNames
  <1> QED BY <1>1, <1>2 DEF TypeInv

\* pc and outcome, as a step of r leaves them
Moves(r) ==
    /\ pc' \in [Runs -> PCs] /\ outcome' \in [Runs -> {NoRun, "OK", "FAIL", "CRASH"}]
    /\ \A q \in Runs \ {r} : pc'[q] = pc[q] /\ outcome'[q] = outcome[q]

\* Whatever way a step moves on, pc and outcome keep their types.
LEMMA MovesType ==
    ASSUME TypeInv, NEW r \in Runs,
           \/ \E s \in PCs : Goto(r, s) /\ UNCHANGED outcome
           \/ \E o \in {"OK", "FAIL", "CRASH"} : Ends(r, o)
           \/ \E o \in {"FAIL", "CRASH"} : Fails(r, o)
           \/ UNCHANGED <<pc, outcome>>
    PROVE  Moves(r)
  <1>1. CASE \E s \in PCs : Goto(r, s) /\ UNCHANGED outcome BY <1>1, GotoType DEF Moves, TypeInv
  <1>2. CASE \E o \in {"OK", "FAIL", "CRASH"} : Ends(r, o) BY <1>2, EndsType DEF Moves
  <1>3. CASE UNCHANGED <<pc, outcome>> BY <1>3 DEF Moves, TypeInv
  <1>4. CASE \E o \in {"FAIL", "CRASH"} : Fails(r, o) BY <1>4, FailsType DEF Moves
  <1> QED BY <1>1, <1>2, <1>3, <1>4

\* MakeBootstrapper is a step of one run only.
LEMMA MakeBootstrapperOf == ASSUME TypeInv, NEW r \in Runs, MakeBootstrapper(r) PROVE OfRun(r)
  <1>1. command[r] \in PCs BY PcNames DEF TypeInv
  <1>2. Moves(r) BY <1>1, PcNames, MovesType DEF MakeBootstrapper
  <1> QED BY <1>2 DEF MakeBootstrapper, OfRun, Moves, Kept, TypeInv, engineVars, fileVars

\* InitConfig is a step of one run only.
LEMMA InitConfigOf == ASSUME TypeInv, NEW r \in Runs, InitConfig(r) PROVE OfRun(r)
  BY DEF InitConfig, OfRun, Kept, TypeInv, Goto, PCs, engineVars, fileVars

\* GenerateTsConfig is a step of one run only.
LEMMA GenerateTsConfigOf == ASSUME TypeInv, NEW r \in Runs, GenerateTsConfig(r) PROVE OfRun(r)
  BY DEF GenerateTsConfig, OfRun, Kept, TypeInv, Goto, PCs, engineVars, fileVars

\* MakeEngine is a step of one run only.
LEMMA MakeEngineOf == ASSUME TypeInv, NEW r \in Runs, MakeEngine(r) PROVE OfRun(r)
  BY DEF MakeEngine, OfRun, Kept, TypeInv, Goto, PCs, Early, engineVars, fileVars

\* RunStarted is a step of one run only.
LEMMA RunStartedOf == ASSUME TypeInv, NEW r \in Runs, RunStarted(r) PROVE OfRun(r)
  <1>1. <<Step("BUILD_RUN_STARTED")>> \in Seq(AllSteps) BY StepKinds, OneStep DEF AllSteps
  <1>2. PICK throws \in BOOLEAN : Transmit(r, <<Step("BUILD_RUN_STARTED")>>, throws, TRUE) BY DEF RunStarted
  <1>3. /\ steps' \in [Runs -> Seq(AllSteps)] /\ rejected' \in [Runs -> BOOLEAN]
        /\ \A q \in Runs \ {r} : steps'[q] = steps[q] /\ rejected'[q] = rejected[q]
    BY <1>1, <1>2, TransmitType
  <1>4. Moves(r) BY PcNames, MovesType DEF RunStarted
  <1> QED BY <1>3, <1>4 DEF RunStarted, OfRun, Moves, Kept, TypeInv, engineVars, fileVars

\* UpdateRun is a step of one run only.
LEMMA UpdateRunOf == ASSUME TypeInv, NEW r \in Runs, UpdateRun(r) PROVE OfRun(r)
  <1>1. Moves(r) BY PcNames, MovesType DEF UpdateRun
  <1> QED BY <1>1 DEF UpdateRun, OfRun, Moves, Kept, TypeInv, engineVars, fileVars

\* Prepare is a step of one run only.
LEMMA PrepareOf == ASSUME TypeInv, NEW r \in Runs, Prepare(r) PROVE OfRun(r)
  <1>1. Moves(r) BY PcNames, MovesType DEF Prepare
  <1> QED BY <1>1 DEF Prepare, OfRun, Moves, Kept, TypeInv, engineVars, fileVars

\* PlanPrepared is a step of one run only.
LEMMA PlanPreparedOf == ASSUME TypeInv, NEW r \in Runs, PlanPrepared(r) PROVE OfRun(r)
  <1>1. <<Step("PLAN_PREPARED")>> \in Seq(AllSteps) BY StepKinds, OneStep DEF AllSteps
  <1>2. PICK throws \in BOOLEAN : Transmit(r, <<Step("PLAN_PREPARED")>>, throws, TRUE) BY DEF PlanPrepared
  <1>3. /\ steps' \in [Runs -> Seq(AllSteps)] /\ rejected' \in [Runs -> BOOLEAN]
        /\ \A q \in Runs \ {r} : steps'[q] = steps[q] /\ rejected'[q] = rejected[q]
    BY <1>1, <1>2, TransmitType
  <1>4. Moves(r) BY PcNames, MovesType DEF PlanPrepared
  <1> QED BY <1>3, <1>4 DEF PlanPrepared, OfRun, Moves, Kept, TypeInv, fileVars

\* RunEnded is a step of one run only.
LEMMA RunEndedOf == ASSUME TypeInv, NEW r \in Runs, RunEnded(r) PROVE OfRun(r)
  <1>1. <<Step("BUILD_RUN_ENDED")>> \in Seq(AllSteps) BY StepKinds, OneStep DEF AllSteps
  <1>2. PICK throws \in BOOLEAN : Transmit(r, <<Step("BUILD_RUN_ENDED")>>, throws, TRUE) BY DEF RunEnded
  <1>3. /\ steps' \in [Runs -> Seq(AllSteps)] /\ rejected' \in [Runs -> BOOLEAN]
        /\ \A q \in Runs \ {r} : steps'[q] = steps[q] /\ rejected'[q] = rejected[q]
    BY <1>1, <1>2, TransmitType
  <1>4. Moves(r) BY PcNames, MovesType DEF RunEnded
  <1>a. \/ closing' = closing \/ closing' = [closing EXCEPT ![r] = {"ledger", "steps"}]
        \/ closing' = [closing EXCEPT ![r] = {"steps"}]
    BY DEF RunEnded
  <1>6. /\ closing' \in [Runs -> SUBSET {"ledger", "write", "writing", "steps"}]
        /\ \A q \in Runs \ {r} : closing'[q] = closing[q]
    <2>1. CASE closing' = closing BY <2>1 DEF TypeInv
    <2>2. CASE closing' = [closing EXCEPT ![r] = {"ledger", "steps"}] BY <2>2 DEF TypeInv
    <2>3. CASE closing' = [closing EXCEPT ![r] = {"steps"}] BY <2>3 DEF TypeInv
    <2> QED BY <1>a, <2>1, <2>2, <2>3
  <1> QED BY <1>3, <1>4, <1>6 DEF RunEnded, OfRun, Moves, Kept, TypeInv, engineVars, fileVars

\* LedgerReads is a step of one run only.
LEMMA LedgerReadsOf == ASSUME TypeInv, NEW r \in Runs, LedgerReads(r) PROVE OfRun(r)
  <1>1. Moves(r) BY MovesType DEF LedgerReads
  <1> QED BY <1>1 DEF LedgerReads, OfRun, Moves, Kept, TypeInv, engineVars, fileVars

\* LedgerTruncates is a step of one run only.
LEMMA LedgerTruncatesOf == ASSUME TypeInv, NEW r \in Runs, LedgerTruncates(r) PROVE OfRun(r)
  BY DEF LedgerTruncates, OfRun, Kept, TypeInv, Ends, Goto, PCs, engineVars, fileVars

\* LedgerWrites is a step of one run only.
LEMMA LedgerWritesOf == ASSUME TypeInv, NEW r \in Runs, LedgerWrites(r) PROVE OfRun(r)
  BY DEF LedgerWrites, OfRun, Kept, TypeInv, Ends, Goto, PCs, engineVars, fileVars

\* StepsClose is a step of one run only.
LEMMA StepsCloseOf == ASSUME TypeInv, NEW r \in Runs, StepsClose(r) PROVE OfRun(r)
  <1>1. Moves(r) BY MovesType DEF StepsClose
  <1> QED BY <1>1 DEF StepsClose, OfRun, Moves, Kept, TypeInv, engineVars, fileVars

\* Finish is a step of one run only.
LEMMA FinishOf == ASSUME TypeInv, NEW r \in Runs, Finish(r) PROVE OfRun(r)
  BY DEF Finish, OfRun, Kept, TypeInv, Ends, Goto, PCs, engineVars, fileVars

\* Dies is a step of one run only.
LEMMA DiesOf == ASSUME TypeInv, NEW r \in Runs, NEW code \in {0, 1, 2, 9}, Dies(r, code) PROVE OfRun(r)
  <1>1. <<>> \in Seq(AllSteps) OBVIOUS
  <1>2. /\ task' = [task EXCEPT ![r] = [t \in plan[r] |-> "waiting"]]
        /\ verdict' = [verdict EXCEPT ![r] = [t \in plan[r] |-> "UNKNOWN"]]
        /\ plan' = plan
    BY DEF Dies
  <1>3. \A q \in Runs : task'[q] \in [plan[q] -> Statuses] /\ verdict'[q] \in [plan[q] -> {"UNKNOWN", "OK", "FAIL"}]
    BY <1>2 DEF TypeInv, Statuses
  <1> QED BY <1>1, <1>3 DEF Dies, OfRun, Kept, TypeInv, Goto, PCs, fileVars

\* Exit is a step of one run only.
LEMMA ExitOf == ASSUME TypeInv, NEW r \in Runs, Exit(r) PROVE OfRun(r)
  <1>1. CASE outcome[r] = "CRASH"
    <2>1. Dies(r, 1) BY <1>1 DEF Exit, ExitCode
    <2> QED BY <2>1, DiesOf
  <1>2. CASE outcome[r] # "CRASH"
    BY <1>2 DEF Exit, ExitCode, OfRun, Kept, TypeInv, Goto, PCs, engineVars, fileVars
  <1> QED BY <1>1, <1>2

\* UnhandledRejection is a step of one run only.
LEMMA UnhandledRejectionOf == ASSUME TypeInv, NEW r \in Runs, UnhandledRejection(r) PROVE OfRun(r)
  BY DiesOf DEF UnhandledRejection

\* Kill is a step of one run only.
LEMMA KillOf == ASSUME TypeInv, NEW r \in Runs, Kill(r) PROVE OfRun(r)
  BY DiesOf DEF Kill

\* The end of a task is a step of its run only.
LEMMA TaskEndedOf ==
    ASSUME TypeInv, NEW r \in Runs, NEW t \in plan[r], NEW before \in Seq(Chats), NEW type \in Types,
           NEW v \in {"OK", "FAIL"}, TaskEnded(r, t, before, type, v),
           UNCHANGED <<command, plan, exitCode, closing>>
    PROVE  OfRun(r)
  <1>0. TaskEndedQuietly(r, t, before, type, v) \/ TaskEndedBadly(r) BY EndForms
  <1>1. t \in AllTasks BY DEF TypeInv
  <1>2. before \o <<Ended(t, type, v)>> \in Seq(AllSteps)
    <2>1. \A i \in 1 .. Len(before) : before[i] \in AllSteps BY DEF AllSteps
    <2>2. Ended(t, type, v) \in AllSteps BY <1>1, StepKinds DEF AllSteps
    <2>3. before \in Seq(AllSteps) BY <2>1
    <2> QED BY <2>2, <2>3
  <1>3. /\ steps' \in [Runs -> Seq(AllSteps)] /\ rejected' \in [Runs -> BOOLEAN]
        /\ \A q \in Runs \ {r} : steps'[q] = steps[q] /\ rejected'[q] = rejected[q]
    <2>1. CASE Transmit(r, before \o <<Ended(t, type, v)>>, FALSE, TRUE) BY <1>2, <2>1, TransmitType
    <2>2. CASE \E n \in Seq(TaskSteps) : Transmit(r, n, TRUE, TRUE) BY <2>2, TaskStepsAreSteps, TransmitType
    <2> QED BY <2>1, <2>2, <1>0 DEF TaskEndedQuietly, TaskEndedBadly
  <1>4. task' = [task EXCEPT ![r][t] = "ended"] /\ verdict' = [verdict EXCEPT ![r][t] = v]
    BY DEF TaskEnded
  <1>5. /\ DOMAIN task' = Runs /\ DOMAIN verdict' = Runs
        /\ \A q \in Runs : task'[q] \in [plan[q] -> Statuses] /\ verdict'[q] \in [plan[q] -> {"UNKNOWN", "OK", "FAIL"}]
        /\ \A q \in Runs \ {r} : task'[q] = task[q] /\ verdict'[q] = verdict[q]
    BY <1>4 DEF TypeInv, Statuses
  <1>6. /\ DOMAIN viz' = Runs /\ \A q \in Runs \ {r} : viz'[q] = viz[q]
        /\ pc' \in [Runs -> PCs] /\ outcome' \in [Runs -> {NoRun, "OK", "FAIL", "CRASH"}]
        /\ \A q \in Runs \ {r} : pc'[q] = pc[q] /\ outcome'[q] = outcome[q]
    <2>1. Moves(r) BY <1>0, MovesType DEF TaskEndedQuietly, TaskEndedBadly
    <2>2. DOMAIN viz' = Runs /\ \A q \in Runs \ {r} : viz'[q] = viz[q]
      BY <1>0 DEF TaskEndedQuietly, TaskEndedBadly, Bump, TypeInv
    <2> QED BY <2>1, <2>2 DEF Moves
  <1> QED BY <1>3, <1>5, <1>6 DEF OfRun, Kept, TypeInv

\* TaskBegins is a step of one run only.
LEMMA TaskBeginsOf == ASSUME TypeInv, NEW r \in Runs, NEW t \in AllTasks, TaskBegins(r, t) PROVE OfRun(r)
  <1>1. t \in plan[r] /\ UNCHANGED <<command, plan, exitCode, closing>> BY DEF TaskBegins
  <1>2. CASE TaskEnded(r, t, <<>>, "CANNOT_START", "FAIL")
    <2>1. <<>> \in Seq(Chats) OBVIOUS
    <2> QED BY <1>1, <1>2, <2>1, TaskEndedOf DEF Types
  <1>x. StoreStep("RESTORED", t) \in Chats BY StepKinds DEF StoreStep, TaskStepNames
  <1>y. <<StoreStep("RESTORED", t)>> \in Seq(Chats) BY <1>x
  <1>3. CASE TaskEnded(r, t, <<StoreStep("RESTORED", t)>>, "CACHED", "OK")
    BY <1>1, <1>3, <1>y, TaskEndedOf DEF Types
  <1>4. CASE /\ task' = [task EXCEPT ![r][t] = "executing"]
             /\ Bump(r, <<{"started"}>>)
             /\ \E failed \in {FALSE, (t \in Retried)} :
                    Transmit(r, IF failed THEN <<StoreStep("RESTORED", t)>> ELSE <<>>, FALSE, TRUE)
             /\ UNCHANGED <<pc, outcome, verdict>>
    <2>1. <<StoreStep("RESTORED", t)>> \in Seq(AllSteps) /\ <<>> \in Seq(AllSteps)
      BY <1>x, OneStep DEF AllSteps
    <2>2. PICK n \in Seq(AllSteps) : Transmit(r, n, FALSE, TRUE) BY <1>4, <2>1
    <2>3. /\ steps' \in [Runs -> Seq(AllSteps)] /\ rejected' \in [Runs -> BOOLEAN]
          /\ \A q \in Runs \ {r} : steps'[q] = steps[q] /\ rejected'[q] = rejected[q]
      BY <2>2, TransmitType
    <2>4. /\ DOMAIN task' = Runs /\ \A q \in Runs : task'[q] \in [plan[q] -> Statuses]
          /\ \A q \in Runs \ {r} : task'[q] = task[q]
      BY <1>1, <1>4 DEF TypeInv, Statuses
    <2>5. DOMAIN viz' = Runs /\ \A q \in Runs \ {r} : viz'[q] = viz[q] BY <1>4 DEF Bump, TypeInv
    <2> QED BY <1>1, <1>4, <2>3, <2>4, <2>5 DEF OfRun, Kept, TypeInv
  <1> QED BY <1>2, <1>3, <1>4 DEF TaskBegins

\* The events a task publishes are steps of this task.
LEMMA PublishedChats ==
    ASSUME NEW t \in AllTasks
    PROVE  Published(t) \in Seq(Chats) /\ \A i \in DOMAIN Published(t) : Published(t)[i].task = t
  <1> DEFINE a == TaskStep("TEST_ENDED", t)
             b == TaskStep("ASSET_PUBLISHED", t)
  <1>1. a \in Chats /\ b \in Chats /\ a.task = t /\ b.task = t BY StepKinds DEF TaskStepNames
  <1> HIDE DEF a, b
  <1>2. ASSUME NEW x \in {<<a>>, <<>>}, NEW y \in {<<b>>, <<>>}
        PROVE  x \o y \in Seq(Chats) /\ \A i \in DOMAIN (x \o y) : (x \o y)[i].task = t
    <2>a. <<a>> \in Seq(Chats) /\ \A i \in DOMAIN <<a>> : <<a>>[i].task = t BY <1>1
    <2>b. <<b>> \in Seq(Chats) /\ \A i \in DOMAIN <<b>> : <<b>>[i].task = t BY <1>1
    <2>c. <<>> \in Seq(Chats) /\ \A i \in DOMAIN <<>> : <<>>[i].task = t OBVIOUS
    <2>1. x \in Seq(Chats) /\ \A i \in DOMAIN x : x[i].task = t BY <2>a, <2>c, Zenon
    <2>2. y \in Seq(Chats) /\ \A i \in DOMAIN y : y[i].task = t BY <2>b, <2>c, Zenon
    <2>3. \A i \in DOMAIN (x \o y) :
            (i \in DOMAIN x /\ (x \o y)[i] = x[i]) \/ (i - Len(x) \in DOMAIN y /\ (x \o y)[i] = y[i - Len(x)])
      BY <2>1, <2>2
    <2> QED BY <2>1, <2>2, <2>3
  <1>3. Published(t) = (IF t \in TestTasks THEN <<a>> ELSE <<>>) \o (IF t \in AssetTasks THEN <<b>> ELSE <<>>)
    BY DEF Published, a, b
  <1> QED BY <1>2, <1>3

\* Steps that end no task are steps.
LEMMA ChatsAreSteps == ASSUME NEW n \in Seq(Chats) PROVE n \in Seq(AllSteps)
  <1>1. \A i \in 1 .. Len(n) : n[i] \in AllSteps BY DEF AllSteps
  <1> QED BY <1>1

\* TaskReports is a step of one run only.
LEMMA TaskReportsOf == ASSUME TypeInv, NEW r \in Runs, NEW t \in AllTasks, TaskReports(r, t) PROVE OfRun(r)
  <1>1. Published(t) \in Seq(AllSteps) BY PublishedChats, ChatsAreSteps
  <1>2. PICK throws \in BOOLEAN : Transmit(r, Published(t), throws, FALSE) BY DEF TaskReports
  <1>3. /\ steps' \in [Runs -> Seq(AllSteps)] /\ rejected' \in [Runs -> BOOLEAN]
        /\ \A q \in Runs \ {r} : steps'[q] = steps[q] /\ rejected'[q] = rejected[q]
    BY <1>1, <1>2, TransmitType
  <1>4. /\ DOMAIN task' = Runs /\ \A q \in Runs : task'[q] \in [plan[q] -> Statuses]
        /\ \A q \in Runs \ {r} : task'[q] = task[q]
    BY DEF TaskReports, InFlight, TypeInv, Statuses
  <1> QED BY <1>3, <1>4 DEF TaskReports, OfRun, Kept, TypeInv

\* TaskEnds is a step of one run only.
LEMMA TaskEndsOf == ASSUME TypeInv, NEW r \in Runs, NEW t \in AllTasks, TaskEnds(r, t) PROVE OfRun(r)
  <1>1. t \in plan[r] /\ UNCHANGED <<command, plan, exitCode, closing>> BY DEF TaskEnds, InFlight
  <1>2. StoreStep("RECORDED", t) \in Chats BY StepKinds DEF StoreStep, TaskStepNames
  <1>3. <<StoreStep("RECORDED", t)>> \in Seq(Chats) BY <1>2
  <1>4. PICK v \in {"OK", "FAIL"} : TaskEnded(r, t, <<StoreStep("RECORDED", t)>>, "EXECUTED", v) BY DEF TaskEnds
  <1> QED BY <1>1, <1>3, <1>4, TaskEndedOf DEF Types

\* TaskCrashes is a step of one run only.
LEMMA TaskCrashesOf == ASSUME TypeInv, NEW r \in Runs, NEW t \in AllTasks, TaskCrashes(r, t) PROVE OfRun(r)
  <1>1. PICK type \in {"UNKNOWN", "EXECUTED"} :
            /\ Transmit(r, <<Ended(t, type, "CRASH")>>, FALSE, TRUE)
            /\ Bump(r, <<VisualizerEnded(type, "CRASH")>>)
    BY DEF TaskCrashes
  <1>2. Ended(t, type, "CRASH") \in AllSteps BY StepKinds DEF AllSteps, Types
  <1>3. <<Ended(t, type, "CRASH")>> \in Seq(AllSteps) BY <1>2, OneStep
  <1>4. /\ steps' \in [Runs -> Seq(AllSteps)] /\ rejected' \in [Runs -> BOOLEAN]
        /\ \A q \in Runs \ {r} : steps'[q] = steps[q] /\ rejected'[q] = rejected[q]
    BY <1>1, <1>3, TransmitType
  <1>5. t \in plan[r] BY DEF TaskCrashes, InFlight
  <1>6. /\ DOMAIN task' = Runs /\ \A q \in Runs : task'[q] \in [plan[q] -> Statuses]
        /\ \A q \in Runs \ {r} : task'[q] = task[q]
    BY <1>5 DEF TaskCrashes, TypeInv, Statuses
  <1>7. verdict' = verdict \/ \E v \in {"OK", "FAIL"} : verdict' = [verdict EXCEPT ![r][t] = v]
    BY DEF TaskCrashes
  <1>8. /\ DOMAIN verdict' = Runs /\ \A q \in Runs : verdict'[q] \in [plan[q] -> {"UNKNOWN", "OK", "FAIL"}]
        /\ \A q \in Runs \ {r} : verdict'[q] = verdict[q]
    <2>1. CASE verdict' = verdict BY <2>1 DEF TypeInv, TaskCrashes
    <2>2. CASE \E v \in {"OK", "FAIL"} : verdict' = [verdict EXCEPT ![r][t] = v] BY <1>5, <2>2 DEF TypeInv
    <2> QED BY <1>7, <2>1, <2>2
  <1>9. DOMAIN viz' = Runs /\ \A q \in Runs \ {r} : viz'[q] = viz[q] BY <1>1 DEF Bump, TypeInv
  <1>10. Moves(r) BY MovesType DEF TaskCrashes, CrashOutcomes
  <1> QED BY <1>4, <1>6, <1>8, <1>9, <1>10 DEF TaskCrashes, Moves, OfRun, Kept, TypeInv
-----------------------------------------------------------------------------
(* What is so of every run by itself                                       *)

\* the tasks of the plan that have ended, and those that are being executed
Done(r) == {t \in plan[r] : task[r][t] = "ended"}
InHand(r) == {t \in plan[r] : task[r][t] \in {"executing", "reported"}}

\* The counters of the visualizer agree with the tasks.
Counts(r) ==
    /\ viz[r] \in [Counters -> Nat]
    /\ viz[r]["all"] = Cardinality(plan[r])
    /\ viz[r]["ended"] + viz[r]["blocked"] = Cardinality(Done(r))
    /\ viz[r]["succeeded"] + viz[r]["failed"] = viz[r]["ended"]
    /\ viz[r]["executed"] + viz[r]["cached"] = viz[r]["ended"]
    /\ viz[r]["started"] = viz[r]["executed"] + Cardinality(InHand(r))

\* No task has begun.
Fresh(r) ==
    /\ \A t \in plan[r] : task[r][t] = "waiting"
    /\ viz[r] = [c \in Counters |-> 0]

\* The build went through to its end and all is well.
Passed(r) ==
    Over(r) /\ ~rejected[r] /\ closing[r] = {} /\ \A t \in plan[r] : verdict[r][t] = "OK"

\* Why a build fails: a task did not pass, or the program; or there was no plan, or
\* a task crashed.
Explained(r) ==
    IF Over(r) THEN command[r] = "run" \/ \E t \in plan[r] : verdict[r][t] # "OK"
    ELSE ~NoCrash(steps[r]) \/ At(steps[r], "PLAN_PREPARED") = {}

\* What is so of a run by itself, by the statement it is at.
Local(r) ==
    /\ pc[r] \in {"init-config", "generate-tsconfig"} => command[r] \notin Builds
    /\ pc[r] # "gone" => exitCode[r] = NoExit
    /\ pc[r] \notin {"returning", "gone"} => outcome[r] = NoRun
    /\ closing[r] # {} => pc[r] \in {"close", "returning"}
    /\ pc[r] \in Early \cup Begun => Fresh(r)
    /\ pc[r] \in Early => steps[r] = <<>>
    /\ pc[r] \in Begun => steps[r] = <<Step("BUILD_RUN_STARTED")>>
    /\ pc[r] = "execute" => Told(steps[r], Done(r)) /\ Counts(r)
    /\ pc[r] = "close" \/ closing[r] # {} => Account(steps[r], plan[r]) /\ Over(r)
    /\ Over(r) => Done(r) = plan[r] /\ Counts(r)
    /\ pc[r] = "close" /\ "steps" \notin closing[r] => ~rejected[r]
    /\ pc[r] = "returning" /\ outcome[r] = "OK" => Passed(r)
    /\ exitCode[r] = 0 /\ command[r] \in Builds => outcome[r] = "OK" /\ Passed(r)
    /\ pc[r] \notin {"returning", "gone"} \/ Over(r) => NoCrash(steps[r])
    /\ pc[r] = "returning" => outcome[r] # NoRun
    /\ outcome[r] = "FAIL" => Explained(r)
    /\ exitCode[r] = 2 => outcome[r] = "FAIL"

\* What is so of a run by itself stays so while it is left alone.
LEMMA LocalKept ==
    ASSUME TypeInv, NEW r \in Runs, Local(r), Kept(r), command' = command, plan' = plan
    PROVE  Local(r)'
  BY DEF Local, Kept, Done, InHand, Counts, Fresh, Passed, Over, Explained

\* The last of the steps that are added is the last.
LEMMA OverGrows ==
    ASSUME NEW s \in Seq(AllSteps), NEW n \in Seq(AllSteps), n # <<>>
    PROVE  Last(s \o n) = n[Len(n)] /\ s \o n # <<>>
  <1>1. Len(n) \in Nat \ {0} /\ Len(s) \in Nat /\ Len(s \o n) = Len(s) + Len(n) OBVIOUS
  <1>2. (s \o n)[Len(s) + Len(n)] = n[Len(n)] BY <1>1
  <1>3. Len(<<>>) = 0 OBVIOUS
  <1> QED BY <1>1, <1>2, <1>3 DEF Last

\* A plan is finite.
LEMMA FinitePlan == ASSUME TypeInv, NEW r \in Runs PROVE IsFiniteSet(plan[r])
  BY RunsAssumption, FS_Subset DEF TypeInv, AllTasks

\* One set of counters goes up by one.
LEMMA BumpOne ==
    ASSUME TypeInv, NEW r \in Runs, viz[r] \in [Counters -> Nat], NEW S, Bump(r, <<S>>)
    PROVE  /\ viz'[r] \in [Counters -> Nat]
           /\ \A c \in Counters : viz'[r][c] = viz[r][c] + (IF c \in S THEN 1 ELSE 0)
  <1>1. \A c : {i \in DOMAIN <<S>> : c \in <<S>>[i]} = IF c \in S THEN {1} ELSE {} OBVIOUS
  <1>2. Cardinality({1}) = 1 /\ Cardinality({}) = 0 BY FS_EmptySet, FS_Singleton
  <1>3. \A c \in Counters : Cardinality({i \in DOMAIN <<S>> : c \in <<S>>[i]}) = IF c \in S THEN 1 ELSE 0
    BY <1>1, <1>2
  <1>4. viz'[r] = [c \in Counters |-> viz[r][c] + Cardinality({i \in DOMAIN <<S>> : c \in <<S>>[i]})]
    BY DEF Bump, TypeInv
  <1> QED BY <1>3, <1>4

\* A set grows by an element.
LEMMA Grows == ASSUME NEW S, IsFiniteSet(S), NEW t, t \notin S
               PROVE  Cardinality(S \cup {t}) = Cardinality(S) + 1 /\ Cardinality(S) \in Nat
  BY FS_AddElement, FS_CardinalityType

\* A set loses an element.
LEMMA Shrinks == ASSUME NEW S, IsFiniteSet(S), NEW t \in S
                 PROVE  Cardinality(S \ {t}) = Cardinality(S) - 1 /\ Cardinality(S) \in Nat
  BY FS_RemoveElement, FS_CardinalityType

\* The tasks of a plan that are done, or in hand, can be counted.
LEMMA Sizes ==
    ASSUME TypeInv, NEW r \in Runs
    PROVE  /\ IsFiniteSet(Done(r)) /\ IsFiniteSet(InHand(r))
           /\ Cardinality(Done(r)) \in Nat /\ Cardinality(InHand(r)) \in Nat
  <1>1. Done(r) \subseteq plan[r] /\ InHand(r) \subseteq plan[r] BY DEF Done, InHand
  <1>2. IsFiniteSet(Done(r)) /\ IsFiniteSet(InHand(r)) BY <1>1, FinitePlan, FS_Subset
  <1> QED BY <1>2, FS_CardinalityType

\* How the sets of tasks move.
LEMMA EndedMoves ==
    ASSUME TypeInv, NEW r \in Runs, NEW t \in plan[r], task[r][t] # "ended", plan' = plan,
           task' = [task EXCEPT ![r][t] = "ended"]
    PROVE  /\ Done(r)' = Done(r) \cup {t} /\ t \notin Done(r)
           /\ Cardinality(Done(r)') = Cardinality(Done(r)) + 1
           /\ task[r][t] = "waiting" => Cardinality(InHand(r)') = Cardinality(InHand(r))
           /\ task[r][t] # "waiting" => Cardinality(InHand(r)') = Cardinality(InHand(r)) - 1
  <1>1. \A u \in plan[r] : task'[r][u] = IF u = t THEN "ended" ELSE task[r][u] BY DEF TypeInv
  <1>2. Done(r)' = Done(r) \cup {t} /\ t \notin Done(r) BY <1>1 DEF Done
  <1>3. task[r][t] = "waiting" => InHand(r)' = InHand(r) BY <1>1 DEF InHand
  <1>4. task[r][t] # "waiting" => InHand(r)' = InHand(r) \ {t} /\ t \in InHand(r)
    BY <1>1 DEF InHand, TypeInv, Statuses
  <1> QED BY <1>2, <1>3, <1>4, Sizes, Grows, Shrinks

\* A task that starts is in hand.
LEMMA StartedMoves ==
    ASSUME TypeInv, NEW r \in Runs, NEW t \in plan[r], task[r][t] = "waiting", plan' = plan,
           task' = [task EXCEPT ![r][t] = "executing"]
    PROVE  Done(r)' = Done(r) /\ t \notin Done(r) /\ Cardinality(InHand(r)') = Cardinality(InHand(r)) + 1
  <1>1. \A u \in plan[r] : task'[r][u] = IF u = t THEN "executing" ELSE task[r][u] BY DEF TypeInv
  <1>2. Done(r)' = Done(r) /\ t \notin Done(r) BY <1>1 DEF Done
  <1>3. InHand(r)' = InHand(r) \cup {t} /\ t \notin InHand(r) BY <1>1 DEF InHand
  <1> QED BY <1>2, <1>3, Sizes, Grows

\* A task that reports stays in hand.
LEMMA ReportedMoves ==
    ASSUME TypeInv, NEW r \in Runs, NEW t \in plan[r], task[r][t] = "executing", plan' = plan,
           task' = [task EXCEPT ![r][t] = "reported"]
    PROVE  Done(r)' = Done(r) /\ t \notin Done(r) /\ InHand(r)' = InHand(r)
  <1>1. \A u \in plan[r] : task'[r][u] = IF u = t THEN "reported" ELSE task[r][u] BY DEF TypeInv
  <1> QED BY <1>1 DEF Done, InHand
-----------------------------------------------------------------------------
(* ... and stays so                                                        *)

\* MakeBootstrapper keeps what is so of its run.
LEMMA MakeBootstrapperLocal ==
    ASSUME TypeInv, NEW r \in Runs, Local(r), OfRun(r), MakeBootstrapper(r) PROVE Local(r)'
  <1>1. CASE Goto(r, "gone") /\ exitCode' = [exitCode EXCEPT ![r] = 1]
    <2>1. pc'[r] = "gone" /\ exitCode'[r] = 1 BY <1>1 DEF Goto, TypeInv
    <2> QED BY <2>1 DEF MakeBootstrapper, Local, Over, Passed, Fresh, Counts, Done, InHand, Early, Begun,
                        Explained, NoRun, engineVars
  <1>2. CASE Goto(r, command[r]) /\ UNCHANGED exitCode
    <2>1. pc'[r] = command[r] /\ pc[r] = "none" /\ exitCode'[r] = exitCode[r] BY <1>2 DEF Goto, TypeInv, MakeBootstrapper
    <2>2. command[r] \in Builds \cup {"init-config", "generate-tsconfig"} BY DEF TypeInv
    <2>3. command[r] \in Early /\ command[r] \notin {"returning", "gone", "close", "execute"} \cup Begun
          /\ (command[r] \in {"init-config", "generate-tsconfig"} => command[r] \notin Builds)
      BY <2>2 DEF Early, Begun, Builds
    <2>4. "none" \in Early \ (Begun \cup {"returning", "gone", "close", "execute"}) BY DEF Early, Begun, Builds
    <2>5. UNCHANGED <<command, plan, outcome, task, verdict, viz, steps, rejected, closing>>
      BY DEF MakeBootstrapper, engineVars
    <2> QED BY <2>1, <2>3, <2>4, <2>5 DEF Local, Over, Passed, Fresh, Counts, Done, InHand, Explained
  <1> QED BY <1>1, <1>2 DEF MakeBootstrapper

\* The statements before the plan, before the execution and after it differ.
LEMMA PcKinds ==
    /\ Early \cap (Begun \cup {"returning", "gone", "close", "execute"}) = {}
    /\ Begun \cap {"returning", "gone", "close", "execute"} = {}
    /\ {"init-config", "generate-tsconfig", "started"} \cup Builds \subseteq Early
    /\ Builds \cap {"init-config", "generate-tsconfig"} = {}
  BY DEF Early, Begun, Builds

\* A run that ends before a task starts, or whose process only changes its place.
LEMMA InitConfigLocal == ASSUME TypeInv, NEW r \in Runs, Local(r), OfRun(r), InitConfig(r) PROVE Local(r)'
  <1>1. /\ pc[r] = "init-config" /\ pc'[r] = "gone" /\ exitCode'[r] \in {0, 1}
        /\ UNCHANGED <<command, plan, outcome, task, verdict, viz, steps, rejected, closing>>
    BY DEF InitConfig, Goto, TypeInv, engineVars
  <1> QED BY <1>1, PcKinds DEF Local, Over, Passed, Fresh, Counts, Done, InHand, Explained, NoRun

\* GenerateTsConfig keeps what is so of its run.
LEMMA GenerateTsConfigLocal ==
    ASSUME TypeInv, NEW r \in Runs, Local(r), OfRun(r), GenerateTsConfig(r) PROVE Local(r)'
  <1>1. /\ pc[r] = "generate-tsconfig" /\ pc'[r] = "gone" /\ exitCode'[r] \in {0, 1}
        /\ UNCHANGED <<command, plan, outcome, task, verdict, viz, steps, rejected, closing>>
    BY DEF GenerateTsConfig, Goto, TypeInv, engineVars
  <1> QED BY <1>1, PcKinds DEF Local, Over, Passed, Fresh, Counts, Done, InHand, Explained, NoRun

\* MakeEngine keeps what is so of its run.
LEMMA MakeEngineLocal == ASSUME TypeInv, NEW r \in Runs, Local(r), OfRun(r), MakeEngine(r) PROVE Local(r)'
  <1>1. /\ pc[r] \in Builds
        /\ \/ pc'[r] = "gone" /\ exitCode'[r] = 1
           \/ pc'[r] = "started" /\ exitCode'[r] = exitCode[r]
        /\ UNCHANGED <<command, plan, outcome, task, verdict, viz, steps, rejected, closing>>
    BY DEF MakeEngine, Goto, TypeInv, engineVars
  <1> QED BY <1>1, PcKinds DEF Local, Over, Passed, Fresh, Counts, Done, InHand, Explained, NoRun

\* The first step is neither the end of the run nor a crash.
LEMMA NoStepsYet == ~(<<Step("BUILD_RUN_STARTED")>> # <<>> /\ Last(<<Step("BUILD_RUN_STARTED")>>).step = "BUILD_RUN_ENDED")
                    /\ NoCrash(<<Step("BUILD_RUN_STARTED")>>)
                    /\ At(<<Step("BUILD_RUN_STARTED")>>, "PLAN_PREPARED") = {}
  <1> DEFINE e == Step("BUILD_RUN_STARTED")
  <1>1. e.step = "BUILD_RUN_STARTED" /\ e \notin EndSteps BY StepKinds
  <1> HIDE DEF e
  <1>2. Last(<<e>>) = e BY DEF Last
  <1>3. At(<<e>>, "PLAN_PREPARED") = {} BY <1>1 DEF At
  <1> QED BY <1>1, <1>2, <1>3 DEF NoCrash, e

\* RunStarted keeps what is so of its run.
LEMMA RunStartedLocal == ASSUME TypeInv, NEW r \in Runs, Local(r), OfRun(r), RunStarted(r) PROVE Local(r)'
  <1> DEFINE e == Step("BUILD_RUN_STARTED")
  <1>1. PICK throws \in BOOLEAN :
            /\ Transmit(r, <<e>>, throws, TRUE)
            /\ IF throws THEN Ends(r, "CRASH") ELSE Goto(r, "ledger") /\ UNCHANGED outcome
    BY DEF RunStarted
  <1>2. <<e>> \in Seq(AllSteps) BY StepKinds, OneStep DEF AllSteps
  <1>3. steps'[r] = steps[r] \o <<e>> BY <1>1, <1>2, TransmitType
  <1>4. pc[r] = "started" /\ steps[r] = <<>> BY PcKinds DEF RunStarted, Local
  <1>5. steps'[r] = <<e>> BY <1>2, <1>3, <1>4
  <1>6. \/ pc'[r] = "ledger" /\ outcome'[r] = outcome[r]
        \/ pc'[r] = "returning" /\ outcome'[r] = "CRASH"
    BY <1>1 DEF Ends, Goto, TypeInv
  <1>7. UNCHANGED <<command, plan, exitCode, task, verdict, viz, closing>> BY DEF RunStarted, engineVars
  <1>8. ~Over(r)' /\ NoCrash(steps'[r]) /\ Explained(r)' BY <1>5, NoStepsYet DEF Over, Explained
  <1>9. "ledger" \in Begun BY DEF Begun
  <1> QED BY <1>4, <1>5, <1>6, <1>7, <1>8, <1>9, PcKinds DEF Local, Passed, Fresh, NoExit, NoRun

\* A step before the plan is made keeps what is so of the run.
LEMMA BeforeThePlan ==
    ASSUME TypeInv, NEW r \in Runs, Local(r), pc[r] \in {"ledger", "initialize"},
           \/ pc'[r] \in {"initialize", "plan"} /\ outcome'[r] = outcome[r]
           \/ pc'[r] = "returning" /\ outcome'[r] \in {"CRASH", "FAIL"},
           UNCHANGED <<command, plan, exitCode, task, verdict, viz, steps, rejected, closing>>
    PROVE  Local(r)'
  <1>1. {"ledger", "initialize", "plan"} \subseteq Begun BY DEF Begun
  <1>2. pc[r] \in Begun /\ steps[r] = <<Step("BUILD_RUN_STARTED")>> BY <1>1 DEF Local
  <1>3. ~Over(r)' /\ NoCrash(steps'[r]) /\ Explained(r)' BY <1>2, NoStepsYet DEF Over, Explained
  <1> QED BY <1>1, <1>2, <1>3, PcKinds DEF Local, Passed, Fresh, NoExit, NoRun

\* UpdateRun keeps what is so of its run.
LEMMA UpdateRunLocal == ASSUME TypeInv, NEW r \in Runs, Local(r), OfRun(r), UpdateRun(r) PROVE Local(r)'
  <1>1. /\ pc[r] = "ledger"
        /\ \/ pc'[r] = "initialize" /\ outcome'[r] = outcome[r]
           \/ pc'[r] = "returning" /\ outcome'[r] = "CRASH"
        /\ UNCHANGED <<command, plan, exitCode, task, verdict, viz, steps, rejected, closing>>
    BY DEF UpdateRun, Ends, Goto, TypeInv, engineVars
  <1> QED BY <1>1, BeforeThePlan

\* Prepare keeps what is so of its run.
LEMMA PrepareLocal == ASSUME TypeInv, NEW r \in Runs, Local(r), OfRun(r), Prepare(r) PROVE Local(r)'
  <1>1. /\ pc[r] = "initialize"
        /\ \/ pc'[r] = "plan" /\ outcome'[r] = outcome[r]
           \/ pc'[r] = "returning" /\ outcome'[r] \in {"CRASH", "FAIL"}
        /\ UNCHANGED <<command, plan, exitCode, task, verdict, viz, steps, rejected, closing>>
    BY DEF Prepare, Ends, Goto, TypeInv, engineVars
  <1> QED BY <1>1, BeforeThePlan

\* Before the execution no task is done or in hand.
LEMMA NoTasksYet ==
    ASSUME TypeInv, NEW r \in Runs, \A t \in plan[r] : task[r][t] = "waiting"
    PROVE  Done(r) = {} /\ InHand(r) = {} /\ Cardinality(Done(r)) = 0 /\ Cardinality(InHand(r)) = 0
  <1>1. Done(r) = {} /\ InHand(r) = {} BY DEF Done, InHand
  <1> QED BY <1>1, FS_EmptySet

\* PlanPrepared keeps what is so of its run.
LEMMA PlanPreparedLocal == ASSUME TypeInv, NEW r \in Runs, Local(r), OfRun(r), PlanPrepared(r) PROVE Local(r)'
  <1> DEFINE e == Step("PLAN_PREPARED")
             b == Step("BUILD_RUN_STARTED")
  <1>1. PICK throws \in BOOLEAN :
            /\ Transmit(r, <<e>>, throws, TRUE)
            /\ IF throws THEN Ends(r, "CRASH") ELSE Goto(r, "execute") /\ UNCHANGED outcome
    BY DEF PlanPrepared
  <1>2. <<e>> \in Seq(AllSteps) /\ <<b>> \in Seq(AllSteps) BY StepKinds, OneStep DEF AllSteps
  <1>3. steps'[r] = steps[r] \o <<e>> BY <1>1, <1>2, TransmitType
  <1>4. pc[r] = "plan" /\ pc[r] \in Begun BY DEF PlanPrepared, Begun
  <1>5. steps[r] = <<b>> /\ Fresh(r) /\ exitCode[r] = NoExit /\ outcome[r] = NoRun /\ closing[r] = {}
    BY <1>4, PcKinds DEF Local
  <1>6. \/ pc'[r] = "execute" /\ outcome'[r] = NoRun
        \/ pc'[r] = "returning" /\ outcome'[r] = "CRASH"
    BY <1>1, <1>5 DEF Ends, Goto, TypeInv
  <1>7. UNCHANGED <<command, plan, exitCode, task, verdict, closing>>
        /\ viz' = [viz EXCEPT ![r].all = Cardinality(plan[r])]
    BY DEF PlanPrepared
  <1>8. Done(r) = {} /\ InHand(r) = {} /\ Cardinality(Done(r)) = 0 /\ Cardinality(InHand(r)) = 0
    BY <1>5, NoTasksYet DEF Fresh
  <1>9. Done(r)' = {} /\ InHand(r)' = {} BY <1>7, <1>8 DEF Done, InHand
  <1>10. Told(steps'[r], {}) BY <1>3, <1>5, ToldBegins
  <1>11. Cardinality(plan[r]) \in Nat BY FinitePlan, FS_CardinalityType
  <1>12. Counts(r)'
    <2>1. viz'[r] = [[c \in Counters |-> 0] EXCEPT !["all"] = Cardinality(plan[r])]
      BY <1>5, <1>7 DEF Fresh, TypeInv
    <2>2. viz'[r] \in [Counters -> Nat] /\ viz'[r]["all"] = Cardinality(plan'[r])
          /\ \A c \in Counters \ {"all"} : viz'[r][c] = 0
      BY <1>7, <1>11, <2>1 DEF Counters
    <2> QED BY <1>8, <1>9, <2>2 DEF Counts, Counters
  <1>13. NoCrash(steps'[r])
    <2>1. NoCrash(<<b>>) /\ NoCrash(<<e>>) BY StepKinds, NoStepsYet DEF NoCrash
    <2> QED BY <1>2, <1>3, <1>5, <2>1, NoCrashGrows
  <1>14. ~Over(r)'
    <2>1. <<e>> # <<>> /\ <<e>>[Len(<<e>>)] = e OBVIOUS
    <2>2. Last(<<b>> \o <<e>>) = e BY <1>2, <2>1, OverGrows
    <2>3. e.step # "BUILD_RUN_ENDED" BY StepKinds
    <2> QED BY <1>3, <1>5, <2>2, <2>3 DEF Over
  <1>15. exitCode'[r] = NoExit /\ closing'[r] = {} BY <1>5, <1>7
  <1> HIDE DEF e, b
  <1> QED BY <1>6, <1>9, <1>10, <1>12, <1>13, <1>14, <1>15, PcKinds DEF Local, NoExit, NoRun

\* RunEnded keeps what is so of its run.
LEMMA RunEndedLocal == ASSUME TypeInv, NEW r \in Runs, Local(r), OfRun(r), RunEnded(r) PROVE Local(r)'
  <1> DEFINE e == Step("BUILD_RUN_ENDED")
  <1>1. PICK throws \in BOOLEAN :
            /\ Transmit(r, <<e>>, throws, TRUE)
            /\ IF throws THEN Ends(r, "CRASH") /\ UNCHANGED closing
               ELSE /\ Goto(r, "close") /\ UNCHANGED outcome
                    /\ closing' = [closing EXCEPT ![r] = IF Ledger THEN {"ledger", "steps"} ELSE {"steps"}]
    BY DEF RunEnded
  <1>2. <<e>> \in Seq(AllSteps) /\ e.step = "BUILD_RUN_ENDED" BY StepKinds, OneStep DEF AllSteps
  <1>3. steps'[r] = steps[r] \o <<e>> BY <1>1, <1>2, TransmitType
  <1>4. pc[r] = "execute" /\ Done(r) = plan[r] BY DEF RunEnded, AllEnded, Done
  <1>5. Told(steps[r], Done(r)) /\ Counts(r) /\ exitCode[r] = NoExit /\ outcome[r] = NoRun /\ closing[r] = {}
        /\ NoCrash(steps[r])
    BY <1>4 DEF Local, NoRun
  <1>6. \/ pc'[r] = "close" /\ outcome'[r] = NoRun /\ "steps" \in closing'[r]
        \/ pc'[r] = "returning" /\ outcome'[r] = "CRASH" /\ closing'[r] = {}
    <2>1. CASE throws BY <1>1, <1>5, <2>1 DEF Ends, Goto, TypeInv
    <2>2. CASE ~throws
      <3>1. "steps" \in (IF Ledger THEN {"ledger", "steps"} ELSE {"steps"}) OBVIOUS
      <3> QED BY <1>1, <1>5, <2>2, <3>1 DEF Ends, Goto, TypeInv
    <2> QED BY <2>1, <2>2
  <1>7. UNCHANGED <<command, plan, exitCode, task, verdict, viz>> BY DEF RunEnded, engineVars
  <1>8. Account(steps'[r], plan'[r]) BY <1>3, <1>4, <1>5, <1>7, ToldAll
  <1>9. Over(r)'
    <2>1. <<e>> # <<>> /\ <<e>>[Len(<<e>>)] = e OBVIOUS
    <2>2. steps[r] \in Seq(AllSteps) BY DEF TypeInv
    <2>3. Last(steps[r] \o <<e>>) = e /\ steps[r] \o <<e>> # <<>> BY <1>2, <2>1, <2>2, OverGrows
    <2> QED BY <1>2, <1>3, <2>3 DEF Over
  <1>10. Done(r)' = plan'[r] /\ Counts(r)' BY <1>4, <1>5, <1>7 DEF Done, InHand, Counts
  <1>11. NoCrash(steps'[r])
    <2>1. NoCrash(<<e>>) BY StepKinds DEF NoCrash
    <2>2. steps[r] \in Seq(AllSteps) BY DEF TypeInv
    <2> QED BY <1>2, <1>3, <1>5, <2>1, <2>2, NoCrashGrows
  <1>12. exitCode'[r] = NoExit BY <1>5, <1>7
  <1> HIDE DEF e
  <1> QED BY <1>6, <1>8, <1>9, <1>10, <1>11, <1>12, PcKinds DEF Local, NoExit, NoRun

\* A step of close() keeps what is so of the run.
LEMMA ClosingLocal ==
    ASSUME TypeInv, NEW r \in Runs, Local(r), closing[r] # {},
           UNCHANGED <<command, plan, exitCode, task, verdict, viz, steps>>,
           \/ UNCHANGED <<pc, outcome>>
           \/ pc'[r] = "returning" /\ outcome'[r] = "CRASH",
           "steps" \in closing[r] /\ "steps" \notin closing'[r] /\ pc'[r] = "close" => ~rejected'[r],
           "steps" \notin closing[r] => "steps" \notin closing'[r] /\ rejected'[r] = rejected[r]
    PROVE  Local(r)'
  <1>1. pc[r] \in {"close", "returning"} /\ Account(steps[r], plan[r]) /\ Over(r) /\ Done(r) = plan[r] /\ Counts(r)
    BY DEF Local
  <1>2. Over(r)' /\ Done(r)' = plan'[r] /\ Counts(r)' /\ Account(steps'[r], plan'[r])
    BY <1>1 DEF Over, Done, InHand, Counts
  <1>3. exitCode[r] = NoExit BY <1>1 DEF Local
  <1>4. pc'[r] \in {"close", "returning"} BY <1>1
  <1>5. pc'[r] = "returning" => outcome'[r] # "OK" BY <1>1 DEF Local, Passed
  <1>6. pc'[r] = "close" => outcome'[r] = NoRun BY <1>1 DEF Local
  <1>7. NoCrash(steps'[r]) BY <1>1 DEF Local
  <1>9. outcome'[r] = "FAIL" => Explained(r)' BY <1>1 DEF Local, Explained, Over
  <1>10. pc'[r] = "returning" => outcome'[r] # NoRun BY <1>1 DEF Local, NoRun
  <1>8. pc'[r] = "close" /\ "steps" \notin closing'[r] => ~rejected'[r] BY <1>1 DEF Local
  <1> QED BY <1>2, <1>3, <1>4, <1>5, <1>6, <1>7, <1>8, <1>9, <1>10, PcKinds DEF Local, NoExit

\* LedgerReads keeps what is so of its run.
LEMMA LedgerReadsLocal == ASSUME TypeInv, NEW r \in Runs, Local(r), OfRun(r), LedgerReads(r) PROVE Local(r)'
  <1>1. closing[r] # {} /\ UNCHANGED <<command, plan, exitCode, task, verdict, viz, steps, rejected>>
    BY DEF LedgerReads, engineVars
  <1>2. UNCHANGED <<pc, outcome>> \/ (pc'[r] = "returning" /\ outcome'[r] = "CRASH")
    BY DEF LedgerReads, Ends, Goto, TypeInv
  <1>3. "steps" \in closing'[r] <=> "steps" \in closing[r] BY DEF LedgerReads, TypeInv
  <1> QED BY <1>1, <1>2, <1>3, ClosingLocal

\* LedgerTruncates keeps what is so of its run.
LEMMA LedgerTruncatesLocal == ASSUME TypeInv, NEW r \in Runs, Local(r), OfRun(r), LedgerTruncates(r) PROVE Local(r)'
  <1>1. closing[r] # {} /\ UNCHANGED <<command, plan, exitCode, task, verdict, viz, steps, rejected, pc, outcome>>
    BY DEF LedgerTruncates, engineVars
  <1>3. "steps" \in closing'[r] <=> "steps" \in closing[r] BY DEF LedgerTruncates, TypeInv
  <1> QED BY <1>1, <1>3, ClosingLocal

\* LedgerWrites keeps what is so of its run.
LEMMA LedgerWritesLocal == ASSUME TypeInv, NEW r \in Runs, Local(r), OfRun(r), LedgerWrites(r) PROVE Local(r)'
  <1>1. closing[r] # {} /\ UNCHANGED <<command, plan, exitCode, task, verdict, viz, steps, rejected, pc, outcome>>
    BY DEF LedgerWrites, engineVars
  <1>3. "steps" \in closing'[r] <=> "steps" \in closing[r] BY DEF LedgerWrites, TypeInv
  <1> QED BY <1>1, <1>3, ClosingLocal

\* StepsClose keeps what is so of its run.
LEMMA StepsCloseLocal == ASSUME TypeInv, NEW r \in Runs, Local(r), OfRun(r), StepsClose(r) PROVE Local(r)'
  <1>1. "steps" \in closing[r] /\ UNCHANGED <<command, plan, exitCode, task, verdict, viz, steps>>
    BY DEF StepsClose, engineVars
  <1>2. UNCHANGED <<pc, outcome>> \/ (pc'[r] = "returning" /\ outcome'[r] = "CRASH")
    BY DEF StepsClose, Ends, Goto, TypeInv
  <1>3. rejected'[r] = FALSE BY DEF StepsClose, TypeInv
  <1> QED BY <1>1, <1>2, <1>3, ClosingLocal

\* Finish keeps what is so of its run.
LEMMA FinishLocal == ASSUME TypeInv, NEW r \in Runs, Local(r), OfRun(r), Finish(r) PROVE Local(r)'
  <1>1. /\ pc[r] = "close" /\ closing[r] = {}
        /\ UNCHANGED <<command, plan, exitCode, task, verdict, viz, steps, rejected, closing>>
        /\ pc'[r] = "returning" /\ outcome'[r] \in {"OK", "FAIL"}
        /\ outcome'[r] = "OK" => Successful(r)
        /\ outcome'[r] = "FAIL" => command[r] = "run" \/ ~Successful(r)
    BY DEF Finish, Ends, Goto, TypeInv, engineVars
  <1>2. Over(r) /\ ~rejected[r] /\ NoCrash(steps[r]) /\ exitCode[r] = NoExit BY <1>1 DEF Local, NoRun
  <1>3. Over(r)' /\ Done(r)' = plan'[r] /\ Counts(r)' BY <1>1, <1>2 DEF Local, Over, Done, InHand, Counts
  <1>4. outcome'[r] = "OK" => Passed(r)' BY <1>1, <1>2 DEF Passed, Over, Successful
  <1>5. outcome'[r] = "FAIL" => Explained(r)' BY <1>1, <1>3 DEF Explained, Successful
  <1> QED BY <1>1, <1>2, <1>3, <1>4, <1>5, PcKinds DEF Local, NoExit, NoRun

\* Dies keeps what is so of its run.
LEMMA DiesLocal ==
    ASSUME TypeInv, NEW r \in Runs, Local(r), NEW code \in {1, 9}, Dies(r, code) PROVE Local(r)'
  <1>1. pc'[r] = "gone" /\ exitCode'[r] = code /\ closing'[r] = {} /\ steps'[r] = <<>>
    BY DEF Dies, Goto, TypeInv
  <1>2. ~Over(r)' /\ NoCrash(steps'[r]) BY <1>1 DEF Over, NoCrash
  <1>3. Explained(r)' BY <1>1, <1>2 DEF Explained, At
  <1> QED BY <1>1, <1>2, <1>3, PcKinds DEF Local, NoExit

\* Exit keeps what is so of its run.
LEMMA ExitLocal == ASSUME TypeInv, NEW r \in Runs, Local(r), OfRun(r), Exit(r) PROVE Local(r)'
  <1>1. CASE outcome[r] = "CRASH"
    <2>1. Dies(r, 1) BY <1>1 DEF Exit, ExitCode
    <2> QED BY <2>1, DiesLocal
  <1>2. CASE outcome[r] # "CRASH"
    <2>1. /\ pc[r] = "returning" /\ closing[r] = {} /\ pc'[r] = "gone"
          /\ exitCode'[r] = (IF outcome[r] = "OK" THEN 0 ELSE 2)
          /\ UNCHANGED <<command, plan, outcome, task, verdict, viz, steps, rejected, closing>>
      BY <1>2 DEF Exit, ExitCode, Goto, TypeInv, engineVars
    <2>2. Over(r)' => Done(r)' = plan'[r] /\ Counts(r)' BY <2>1 DEF Local, Over, Done, InHand, Counts
    <2>3. Passed(r) => Passed(r)' BY <2>1 DEF Passed, Over
    <2>4. Explained(r) => Explained(r)' BY <2>1 DEF Explained, Over
    <2>5. outcome[r] # NoRun /\ outcome[r] \in {NoRun, "OK", "FAIL", "CRASH"} BY <2>1 DEF Local, TypeInv
    <2>6. (Over(r) => NoCrash(steps[r])) => (Over(r) => NoCrash(steps[r]))' BY <2>1 DEF Over
    <2> QED BY <1>2, <2>1, <2>2, <2>3, <2>4, <2>5, <2>6, PcKinds DEF Local
  <1> QED BY <1>1, <1>2
-----------------------------------------------------------------------------
(* The tasks of a run                                                      *)

\* Steps of tasks do not end a run.
LEMMA NotOverYet ==
    ASSUME NEW s \in Seq(AllSteps), NEW n \in Seq(TaskSteps),
           ~(s # <<>> /\ Last(s).step = "BUILD_RUN_ENDED")
    PROVE  ~(s \o n # <<>> /\ Last(s \o n).step = "BUILD_RUN_ENDED")
  <1>1. CASE n = <<>>
    <2>1. s \o n = s BY <1>1
    <2> QED BY <2>1
  <1>2. CASE n # <<>>
    <2>1. n \in Seq(AllSteps) BY TaskStepsAreSteps
    <2>2. Last(s \o n) = n[Len(n)] BY <1>2, <2>1, OverGrows
    <2>3. n[Len(n)] \in TaskSteps BY <1>2
    <2> QED BY <2>2, <2>3, StepKinds DEF TaskSteps, TaskStepNames
  <1> QED BY <1>1, <1>2

\* A run that is under way is not over.
LEMMA NotOverToldYet ==
    ASSUME NEW s, NEW done, Told(s, done)
    PROVE  ~(s # <<>> /\ Last(s).step = "BUILD_RUN_ENDED")
  <1>1. Len(s) \in Nat /\ Len(s) >= 2 BY DEF Told
  <1>2. CASE Len(s) = 2
    <2>1. Last(s) = Step("PLAN_PREPARED") BY <1>2 DEF Told, Last
    <2> QED BY <2>1, StepKinds
  <1>3. CASE Len(s) > 2
    <2>1. Len(s) \in 3 .. Len(s) BY <1>1, <1>3
    <2>2. Last(s) \in Chats \cup EndSteps BY <2>1 DEF Told, Last
    <2> HIDE DEF Last
    <2>3. CASE Last(s) \in Chats BY <2>3, StepKinds DEF TaskStepNames
    <2>4. CASE Last(s) \in EndSteps BY <2>4, StepKinds
    <2> QED BY <2>2, <2>3, <2>4
  <1>4. \A k \in Nat : k >= 2 => k = 2 \/ k > 2 OBVIOUS
  <1>5. Len(s) = 2 \/ Len(s) > 2 BY <1>1, <1>4
  <1> QED BY <1>2, <1>3, <1>5

\* While a task of it is not ended, a run is neither over nor closing nor passed.
LEMMA Unfinished ==
    ASSUME TypeInv, NEW r \in Runs, NEW t \in plan[r], Local(r), pc[r] \in {"execute", "returning"},
           task[r][t] # "ended"
    PROVE  /\ ~Over(r) /\ closing[r] = {} /\ outcome[r] # "OK" /\ exitCode[r] = NoExit
           /\ pc[r] = "returning" => outcome[r] \in {"FAIL", "CRASH"}
           /\ pc[r] = "execute" => NoCrash(steps[r])
           /\ pc[r] = "execute" => Told(steps[r], Done(r)) /\ Counts(r) /\ outcome[r] = NoRun
  <1>1. t \notin Done(r) BY DEF Done
  <1>2. ~Over(r) BY <1>1 DEF Local
  <1>3. outcome[r] \in {NoRun, "OK", "FAIL", "CRASH"} BY DEF TypeInv
  <1> QED BY <1>2, <1>3 DEF Local, NoRun, Passed

\* Steps of tasks leave what has been told of a crash, and no step of a plan.
LEMMA ExplainedGrows ==
    ASSUME NEW s \in Seq(AllSteps), NEW n \in Seq(TaskSteps)
    PROVE  /\ ~NoCrash(s) \/ ~NoCrash(n) => ~NoCrash(s \o n)
           /\ At(s, "PLAN_PREPARED") = {} => At(s \o n, "PLAN_PREPARED") = {}
  <1>1. n \in Seq(AllSteps) BY TaskStepsAreSteps
  <1>2. \A i \in DOMAIN (s \o n) :
            (i \in DOMAIN s /\ (s \o n)[i] = s[i]) \/ (i - Len(s) \in DOMAIN n /\ (s \o n)[i] = n[i - Len(s)])
    BY <1>1
  <1>3. \A i \in DOMAIN s : i \in DOMAIN (s \o n) /\ (s \o n)[i] = s[i] BY <1>1
  <1>4. \A i \in DOMAIN n : Len(s) + i \in DOMAIN (s \o n) /\ (s \o n)[Len(s) + i] = n[i] BY <1>1
  <1>5. ~NoCrash(s) \/ ~NoCrash(n) => ~NoCrash(s \o n) BY <1>3, <1>4 DEF NoCrash
  <1>6. \A i \in DOMAIN n : n[i].step # "PLAN_PREPARED"
    <2>1. \A i \in DOMAIN n : n[i] \in TaskSteps OBVIOUS
    <2> QED BY <2>1, StepKinds DEF TaskSteps, TaskStepNames
  <1>7. At(s, "PLAN_PREPARED") = {} => At(s \o n, "PLAN_PREPARED") = {} BY <1>2, <1>6 DEF At
  <1> QED BY <1>5, <1>7

\* A step of a task that keeps its run from being over.
LEMMA TaskLocal ==
    ASSUME TypeInv, NEW r \in Runs, NEW t \in plan[r], Local(r), pc[r] \in {"execute", "returning"},
           task[r][t] # "ended", NEW n \in Seq(TaskSteps), steps'[r] = steps[r] \o n,
           UNCHANGED <<command, plan, exitCode, closing>>,
           \/ pc'[r] = "returning" /\ outcome'[r] = "CRASH"
           \/ pc'[r] = "returning" /\ pc[r] = "returning" /\ outcome'[r] = outcome[r]
           \/ pc'[r] = "returning" /\ outcome'[r] = "FAIL" /\ ~NoCrash(n)
           \/ /\ pc[r] = "execute" /\ pc'[r] = pc[r] /\ outcome'[r] = outcome[r] /\ NoCrash(n)
              /\ Told(steps'[r], Done(r)') /\ Counts(r)'
    PROVE  Local(r)'
  <1>1. /\ ~Over(r) /\ closing[r] = {} /\ outcome[r] # "OK" /\ exitCode[r] = NoExit
        /\ pc[r] = "returning" => outcome[r] \in {"FAIL", "CRASH"}
        /\ pc[r] = "execute" => NoCrash(steps[r])
        /\ pc[r] = "execute" => outcome[r] = NoRun
    BY Unfinished
  <1>2. steps[r] \in Seq(AllSteps) /\ n \in Seq(AllSteps) BY TaskStepsAreSteps DEF TypeInv
  <1>3. ~Over(r)' BY <1>1, <1>2, NotOverYet DEF Over
  <1>4. NoCrash(n) /\ pc[r] = "execute" => NoCrash(steps'[r]) BY <1>1, <1>2, NoCrashGrows
  <1>5. exitCode'[r] = NoExit /\ closing'[r] = {} BY <1>1
  <1>6. outcome'[r] = "FAIL" => Explained(r)'
    <2>1. outcome[r] = "FAIL" => ~NoCrash(steps[r]) \/ At(steps[r], "PLAN_PREPARED") = {}
      BY <1>1 DEF Local, Explained
    <2>2. outcome'[r] = "FAIL" => outcome[r] = "FAIL" \/ ~NoCrash(n) BY DEF NoRun
    <2> QED BY <1>2, <1>3, <2>1, <2>2, ExplainedGrows DEF Explained
  <1>7. pc'[r] = "returning" => outcome'[r] \in {"FAIL", "CRASH"} BY <1>1
  <1> QED BY <1>1, <1>3, <1>4, <1>5, <1>6, <1>7, PcKinds DEF Local, NoExit, NoRun

\* A task ends in a way that agrees with how far it has come.
Fits(r, t, type, v) ==
    \/ task[r][t] = "waiting" /\ type = "CANNOT_START" /\ v = "FAIL"
    \/ task[r][t] = "waiting" /\ type = "CACHED" /\ v = "OK"
    \/ task[r][t] = "reported" /\ type = "EXECUTED"

\* The counters stay right when a task ends.
LEMMA CountsEnded ==
    ASSUME TypeInv, NEW r \in Runs, NEW t \in plan[r], Counts(r), NEW type \in Types, NEW v \in {"OK", "FAIL"},
           Fits(r, t, type, v), Bump(r, <<VisualizerEnded(type, v)>>),
           task' = [task EXCEPT ![r][t] = "ended"], plan' = plan
    PROVE  Counts(r)'
  <1> DEFINE S == VisualizerEnded(type, v)
  <1>1. /\ viz'[r] \in [Counters -> Nat]
        /\ \A c \in Counters : viz'[r][c] = viz[r][c] + (IF c \in S THEN 1 ELSE 0)
    BY BumpOne DEF Counts
  <1>2. /\ Cardinality(Done(r)') = Cardinality(Done(r)) + 1
        /\ task[r][t] = "waiting" => Cardinality(InHand(r)') = Cardinality(InHand(r))
        /\ task[r][t] # "waiting" => Cardinality(InHand(r)') = Cardinality(InHand(r)) - 1
    BY EndedMoves DEF Fits
  <1>3. Cardinality(Done(r)) \in Nat /\ Cardinality(InHand(r)) \in Nat /\ Cardinality(plan[r]) \in Nat
    BY Sizes, FinitePlan, FS_CardinalityType
  <1>4. \A c \in Counters : viz[r][c] \in Nat BY DEF Counts
  <1>5. CASE task[r][t] = "waiting" /\ type = "CANNOT_START" /\ v = "FAIL"
    <2>1. S = {"blocked"} BY <1>5 DEF VisualizerEnded
    <2> QED BY <1>1, <1>2, <1>3, <1>4, <1>5, <2>1 DEF Counts, Counters
  <1>6. CASE task[r][t] = "waiting" /\ type = "CACHED" /\ v = "OK"
    <2>1. S = {"ended", "cached", "succeeded"} BY <1>6 DEF VisualizerEnded
    <2> QED BY <1>1, <1>2, <1>3, <1>4, <1>6, <2>1 DEF Counts, Counters
  <1>7. CASE task[r][t] = "reported" /\ type = "EXECUTED" /\ v = "OK"
    <2>1. S = {"ended", "executed", "succeeded"} BY <1>7 DEF VisualizerEnded
    <2> QED BY <1>1, <1>2, <1>3, <1>4, <1>7, <2>1 DEF Counts, Counters
  <1>8. CASE task[r][t] = "reported" /\ type = "EXECUTED" /\ v = "FAIL"
    <2>1. S = {"ended", "executed", "failed"} BY <1>8 DEF VisualizerEnded
    <2>2. /\ viz'[r]["all"] = viz[r]["all"] + 0 /\ viz'[r]["blocked"] = viz[r]["blocked"] + 0
          /\ viz'[r]["ended"] = viz[r]["ended"] + 1 /\ viz'[r]["succeeded"] = viz[r]["succeeded"] + 0
          /\ viz'[r]["failed"] = viz[r]["failed"] + 1 /\ viz'[r]["executed"] = viz[r]["executed"] + 1
          /\ viz'[r]["cached"] = viz[r]["cached"] + 0 /\ viz'[r]["started"] = viz[r]["started"] + 0
      BY <1>1, <2>1 DEF Counters
    <2>3. \A c \in {"all", "started", "ended", "blocked", "failed", "succeeded", "executed", "cached"} : viz[r][c] \in Nat
      BY <1>4 DEF Counters
    <2> HIDE DEF S
    <2> QED BY <1>1, <1>2, <1>3, <1>8, <2>2, <2>3 DEF Counts
  <1> QED BY <1>5, <1>6, <1>7, <1>8 DEF Fits

\* The end of a task keeps what is so of its run.
LEMMA TaskEndedLocal ==
    ASSUME TypeInv, NEW r \in Runs, NEW t \in plan[r], Local(r), pc[r] \in {"execute", "returning"},
           NEW type \in Types, NEW v \in {"OK", "FAIL"}, Fits(r, t, type, v),
           NEW before \in Seq(Chats), \A i \in DOMAIN before : before[i].task = t,
           TaskEnded(r, t, before, type, v), UNCHANGED <<command, plan, exitCode, closing>>
    PROVE  Local(r)'
  <1>1. TaskEndedQuietly(r, t, before, type, v) \/ TaskEndedBadly(r) BY EndForms
  <1>2. task[r][t] # "ended" BY DEF Fits
  <1>3. task' = [task EXCEPT ![r][t] = "ended"] BY DEF TaskEnded
  <1>4. CASE TaskEndedBadly(r)
    <2>1. PICK n \in Seq(TaskSteps) : Transmit(r, n, TRUE, TRUE) BY <1>4 DEF TaskEndedBadly
    <2>2. n \in Seq(AllSteps) BY TaskStepsAreSteps
    <2>3. steps'[r] = steps[r] \o n BY <2>1, <2>2, TransmitType
    <2>4. pc'[r] = "returning" /\ outcome'[r] = (IF pc[r] = "execute" THEN "CRASH" ELSE outcome[r])
      BY <1>4, FailsType DEF TaskEndedBadly
    <2> QED BY <1>2, <2>3, <2>4, TaskLocal
  <1>5. CASE TaskEndedQuietly(r, t, before, type, v)
    <2> DEFINE e == Ended(t, type, v)
               n == before \o <<e>>
    <2>0. e \in EndSteps /\ e.task = t /\ e.verdict = v
      <3>1. t \in AllTasks BY DEF TypeInv
      <3> QED BY <3>1, StepKinds
    <2> HIDE DEF e
    <2>1. n \in Seq(TaskSteps)
      <3>1. \A i \in 1 .. Len(before) : before[i] \in TaskSteps BY DEF TaskSteps
      <3>2. before \in Seq(TaskSteps) BY <3>1
      <3>3. e \in TaskSteps BY <2>0 DEF TaskSteps
      <3> QED BY <3>2, <3>3
    <2>2. n \in Seq(AllSteps) /\ before \in Seq(AllSteps) /\ <<e>> \in Seq(AllSteps)
      BY <2>0, <2>1, TaskStepsAreSteps, ChatsAreSteps, OneStep DEF AllSteps
    <2>3. steps'[r] = steps[r] \o n BY <1>5, <2>2, TransmitType DEF TaskEndedQuietly, e
    <2>4. pc'[r] = pc[r] /\ outcome'[r] = outcome[r] BY <1>5 DEF TaskEndedQuietly
    <2>5. NoCrash(n)
      <3>1. NoCrash(before) BY StepKinds DEF NoCrash, TaskStepNames
      <3>2. NoCrash(<<e>>) BY <2>0 DEF NoCrash
      <3> QED BY <2>2, <3>1, <3>2, NoCrashGrows
    <2>6. ASSUME pc[r] = "execute" PROVE Told(steps'[r], Done(r)') /\ Counts(r)'
      <3>1. Told(steps[r], Done(r)) /\ Counts(r) BY <1>2, <2>6, Unfinished
      <3>2. Done(r)' = Done(r) \cup {t} /\ t \notin Done(r) BY <1>2, <1>3, EndedMoves
      <3>3. Told(steps[r] \o before, Done(r)) BY <3>1, <3>2, ToldChats
      <3>4. Told((steps[r] \o before) \o <<e>>, Done(r) \cup {t}) BY <2>0, <3>2, <3>3, ToldEnds
      <3>5. steps[r] \in Seq(AllSteps) BY DEF TypeInv
      <3>a. \A x, y, z \in Seq(AllSteps) : (x \o y) \o z = x \o (y \o z) OBVIOUS
      <3>6. (steps[r] \o before) \o <<e>> = steps[r] \o n BY <2>2, <3>5, <3>a
      <3>7. Counts(r)' BY <1>3, <1>5, <3>1, CountsEnded DEF TaskEndedQuietly
      <3> QED BY <2>3, <3>2, <3>4, <3>6, <3>7
    <2> HIDE DEF n
    <2> QED BY <1>2, <2>1, <2>3, <2>4, <2>5, <2>6, TaskLocal
  <1> QED BY <1>1, <1>4, <1>5

\* TaskEnds keeps what is so of its run.
LEMMA TaskEndsLocal ==
    ASSUME TypeInv, NEW r \in Runs, NEW t \in AllTasks, Local(r), TaskEnds(r, t) PROVE Local(r)'
  <1> DEFINE e == StoreStep("RECORDED", t)
  <1>1. /\ t \in plan[r] /\ UNCHANGED <<command, plan, exitCode, closing>>
        /\ pc[r] \in {"execute", "returning"} /\ task[r][t] = "reported"
    BY DEF TaskEnds, InFlight
  <1>2. e \in Chats /\ e.task = t BY StepKinds DEF StoreStep, TaskStepNames
  <1>3. <<e>> \in Seq(Chats) /\ \A i \in DOMAIN <<e>> : <<e>>[i].task = t
    <2> HIDE DEF e
    <2> QED BY <1>2
  <1>4. PICK v \in {"OK", "FAIL"} : TaskEnded(r, t, <<e>>, "EXECUTED", v) BY DEF TaskEnds
  <1>5. Fits(r, t, "EXECUTED", v) BY <1>1 DEF Fits
  <1>6. "EXECUTED" \in Types BY DEF Types
  <1> HIDE DEF e
  <1> QED BY <1>1, <1>3, <1>4, <1>5, <1>6, TaskEndedLocal

\* TaskBegins keeps what is so of its run.
LEMMA TaskBeginsLocal ==
    ASSUME TypeInv, NEW r \in Runs, NEW t \in AllTasks, Local(r), TaskBegins(r, t) PROVE Local(r)'
  <1> DEFINE e == StoreStep("RESTORED", t)
  <1>1. /\ t \in plan[r] /\ UNCHANGED <<command, plan, exitCode, closing>>
        /\ pc[r] = "execute" /\ task[r][t] = "waiting"
    BY DEF TaskBegins
  <1>2. e \in Chats /\ e.task = t BY StepKinds DEF StoreStep, TaskStepNames
  <1> HIDE DEF e
  <1>3. <<e>> \in Seq(Chats) /\ \A i \in DOMAIN <<e>> : <<e>>[i].task = t BY <1>2
  <1>4. <<>> \in Seq(Chats) /\ \A i \in DOMAIN <<>> : <<>>[i].task = t OBVIOUS
  <1>5. CASE TaskEnded(r, t, <<>>, "CANNOT_START", "FAIL")
    <2>1. Fits(r, t, "CANNOT_START", "FAIL") /\ "CANNOT_START" \in Types BY <1>1 DEF Fits, Types
    <2> QED BY <1>1, <1>4, <1>5, <2>1, TaskEndedLocal
  <1>6. CASE TaskEnded(r, t, <<e>>, "CACHED", "OK")
    <2>1. Fits(r, t, "CACHED", "OK") /\ "CACHED" \in Types BY <1>1 DEF Fits, Types
    <2> QED BY <1>1, <1>3, <1>6, <2>1, TaskEndedLocal
  <1>7. CASE /\ task' = [task EXCEPT ![r][t] = "executing"]
             /\ Bump(r, <<{"started"}>>)
             /\ \E failed \in {FALSE, (t \in Retried)} :
                    Transmit(r, IF failed THEN <<e>> ELSE <<>>, FALSE, TRUE)
             /\ UNCHANGED <<pc, outcome, verdict>>
    <2>1. PICK n \in {<<e>>, <<>>} : Transmit(r, n, FALSE, TRUE) BY <1>7
    <2>2. n \in Seq(Chats) /\ \A i \in DOMAIN n : n[i].task = t BY <1>3, <1>4, Zenon
    <2>3. n \in Seq(AllSteps) BY <2>2, ChatsAreSteps
    <2>4. n \in Seq(TaskSteps)
      <3>1. \A i \in 1 .. Len(n) : n[i] \in TaskSteps BY <2>2 DEF TaskSteps
      <3> QED BY <2>2, <3>1
    <2>5. steps'[r] = steps[r] \o n BY <2>1, <2>3, TransmitType
    <2>6. NoCrash(n) BY <2>2, StepKinds DEF NoCrash, TaskStepNames
    <2>7. Told(steps[r], Done(r)) /\ Counts(r) BY <1>1, Unfinished
    <2>8. Done(r)' = Done(r) /\ t \notin Done(r) /\ Cardinality(InHand(r)') = Cardinality(InHand(r)) + 1
      BY <1>1, <1>7, StartedMoves
    <2>9. Told(steps'[r], Done(r)') BY <2>2, <2>5, <2>7, <2>8, ToldChats
    <2>10. Counts(r)'
      <3>0. plan' = plan BY <1>1
      <3>1. /\ viz'[r] \in [Counters -> Nat]
            /\ \A c \in Counters : viz'[r][c] = viz[r][c] + (IF c \in {"started"} THEN 1 ELSE 0)
        BY <1>7, <2>7, BumpOne DEF Counts
      <3>2. Cardinality(Done(r)) \in Nat /\ Cardinality(InHand(r)) \in Nat BY Sizes
      <3>3. \A c \in {"all", "started", "ended", "blocked", "failed", "succeeded", "executed", "cached"} : viz[r][c] \in Nat
        BY <2>7 DEF Counts, Counters
      <3>4. /\ \A c \in {"all", "ended", "blocked", "failed", "succeeded", "executed", "cached"} : viz'[r][c] = viz[r][c] + 0
            /\ viz'[r]["started"] = viz[r]["started"] + 1
        BY <3>1 DEF Counters
      <3>5. /\ viz'[r]["all"] = viz[r]["all"] /\ viz'[r]["blocked"] = viz[r]["blocked"]
            /\ viz'[r]["ended"] = viz[r]["ended"] /\ viz'[r]["succeeded"] = viz[r]["succeeded"]
            /\ viz'[r]["failed"] = viz[r]["failed"] /\ viz'[r]["executed"] = viz[r]["executed"]
            /\ viz'[r]["cached"] = viz[r]["cached"] /\ viz'[r]["started"] = viz[r]["started"] + 1
        BY <3>3, <3>4
      <3>6. viz'[r]["started"] = viz'[r]["executed"] + Cardinality(InHand(r)')
        <4>1. viz[r]["started"] \in Nat /\ viz[r]["executed"] \in Nat BY <3>3
        <4>2. viz[r]["started"] = viz[r]["executed"] + Cardinality(InHand(r)) BY <2>7 DEF Counts
        <4>3. \A a, b, c \in Nat : a = b + c => a + 1 = b + (c + 1) OBVIOUS
        <4> QED BY <2>8, <3>2, <3>5, <4>1, <4>2, <4>3
      <3>7. /\ viz'[r]["all"] = Cardinality(plan'[r]) /\ viz'[r]["ended"] + viz'[r]["blocked"] = Cardinality(Done(r)')
            /\ viz'[r]["succeeded"] + viz'[r]["failed"] = viz'[r]["ended"]
            /\ viz'[r]["executed"] + viz'[r]["cached"] = viz'[r]["ended"]
        BY <2>7, <2>8, <3>0, <3>5 DEF Counts
      <3> QED BY <3>1, <3>6, <3>7 DEF Counts
    <2> QED BY <1>1, <1>7, <2>4, <2>5, <2>6, <2>9, <2>10, TaskLocal
  <1> QED BY <1>5, <1>6, <1>7 DEF TaskBegins, e

\* TaskReports keeps what is so of its run.
LEMMA TaskReportsLocal ==
    ASSUME TypeInv, NEW r \in Runs, NEW t \in AllTasks, Local(r), TaskReports(r, t) PROVE Local(r)'
  <1> DEFINE n == Published(t)
  <1>1. /\ t \in plan[r] /\ UNCHANGED <<command, plan, exitCode, closing, pc, outcome, viz>>
        /\ pc[r] \in {"execute", "returning"} /\ task[r][t] = "executing"
        /\ task' = [task EXCEPT ![r][t] = "reported"]
    BY DEF TaskReports, InFlight
  <1>2. n \in Seq(Chats) /\ \A i \in DOMAIN n : n[i].task = t BY PublishedChats
  <1>3. PICK throws \in BOOLEAN : Transmit(r, n, throws, FALSE) BY DEF TaskReports
  <1> HIDE DEF n
  <1>4. n \in Seq(AllSteps) BY <1>2, ChatsAreSteps
  <1>5. n \in Seq(TaskSteps)
    <2>1. \A i \in 1 .. Len(n) : n[i] \in TaskSteps BY <1>2 DEF TaskSteps
    <2> QED BY <1>2, <2>1
  <1>6. steps'[r] = steps[r] \o n BY <1>3, <1>4, TransmitType
  <1>7. NoCrash(n) BY <1>2, StepKinds DEF NoCrash, TaskStepNames
  <1>8. ASSUME pc[r] = "execute" PROVE Told(steps'[r], Done(r)') /\ Counts(r)'
    <2>1. Told(steps[r], Done(r)) /\ Counts(r) BY <1>1, <1>8, Unfinished
    <2>2. Done(r)' = Done(r) /\ t \notin Done(r) /\ InHand(r)' = InHand(r) BY <1>1, ReportedMoves
    <2>3. Told(steps'[r], Done(r)') BY <1>2, <1>6, <2>1, <2>2, ToldChats
    <2>4. Counts(r)' BY <1>1, <2>1, <2>2 DEF Counts
    <2> QED BY <2>3, <2>4
  <1> QED BY <1>1, <1>5, <1>6, <1>7, <1>8, TaskLocal

\* TaskCrashes keeps what is so of its run.
LEMMA TaskCrashesLocal ==
    ASSUME TypeInv, NEW r \in Runs, NEW t \in AllTasks, Local(r), TaskCrashes(r, t) PROVE Local(r)'
  <1>1. PICK type \in {"UNKNOWN", "EXECUTED"} : Transmit(r, <<Ended(t, type, "CRASH")>>, FALSE, TRUE)
    BY DEF TaskCrashes
  <1>2. Ended(t, type, "CRASH") \in TaskSteps BY StepKinds DEF TaskSteps, Types
  <1>3. <<Ended(t, type, "CRASH")>> \in Seq(TaskSteps) BY <1>2
  <1>4. <<Ended(t, type, "CRASH")>> \in Seq(AllSteps) BY <1>3, TaskStepsAreSteps
  <1>5. steps'[r] = steps[r] \o <<Ended(t, type, "CRASH")>> BY <1>1, <1>4, TransmitType
  <1>6. /\ t \in plan[r] /\ UNCHANGED <<command, plan, exitCode, closing>>
        /\ pc[r] \in {"execute", "returning"} /\ task[r][t] # "ended"
    BY DEF TaskCrashes, InFlight
  <1>7. PICK o \in CrashOutcomes : Fails(r, o) BY DEF TaskCrashes
  <1>8. pc'[r] = "returning" /\ outcome'[r] = (IF pc[r] = "execute" THEN o ELSE outcome[r])
    BY <1>7, FailsType DEF CrashOutcomes
  <1>9. ~NoCrash(<<Ended(t, type, "CRASH")>>)
    <2> DEFINE e == Ended(t, type, "CRASH")
    <2>1. e \in EndSteps /\ e.verdict = "CRASH"
      <3>1. t \in AllTasks /\ type \in Types BY DEF Types
      <3> QED BY <3>1, StepKinds
    <2> HIDE DEF e
    <2>2. ~NoCrash(<<e>>) BY <2>1 DEF NoCrash
    <2> QED BY <2>2 DEF e
  <1>10. o = "CRASH" \/ o = "FAIL" BY <1>7 DEF CrashOutcomes
  <1>11. \/ pc'[r] = "returning" /\ outcome'[r] = "CRASH"
         \/ pc'[r] = "returning" /\ pc[r] = "returning" /\ outcome'[r] = outcome[r]
         \/ pc'[r] = "returning" /\ outcome'[r] = "FAIL" /\ ~NoCrash(<<Ended(t, type, "CRASH")>>)
    BY <1>6, <1>8, <1>9, <1>10
  <1> QED BY <1>3, <1>5, <1>6, <1>11, TaskLocal
-----------------------------------------------------------------------------
(* What the runs share                                                     *)

\* The run has come to the build.
InBuild(r) == pc[r] \notin {"none", "gone", "init-config", "generate-tsconfig"}

\* The run is between the write of the file build-run-id and the end of close().
Running(r) == pc[r] \in Begun \cup {"execute", "close"} \/ closing[r] # {}

\* The run has written the file step-by-step.json, and still stands for it.
Written(r) ==
    \/ pc[r] = "close" /\ "steps" \notin closing[r]
    \/ outcome[r] = "OK" /\ (pc[r] = "returning" \/ exitCode[r] = 0)

\* What is so of the files the runs share.
Shared ==
    /\ stepsFile # <<>> => \E r \in Runs : Account(stepsFile, plan[r])
    /\ \A r \in Runs : InBuild(r) \/ runId = r => command[r] \in Builds
    /\ ~together => \A q, r \in Runs : Alive(q) /\ Alive(r) => q = r
    /\ ~together => \A r \in Runs : Running(r) => runId = r
    /\ ~together => \A r \in Runs : runId = r /\ Written(r) => stepsFile = steps[r]

\* A step that writes no shared file keeps what is so of them, if it starts no run.
LEMMA SharedKept ==
    ASSUME TypeInv, NEW r \in Runs, OfRun(r), Shared, UNCHANGED <<stepsFile, runId, together>>,
           Alive(r)' => Alive(r), InBuild(r)' => InBuild(r), Running(r)' => Running(r),
           Written(r)' => Written(r) /\ steps'[r] = steps[r]
    PROVE  Shared'
  <1>1. \A q \in Runs \ {r} : Kept(q) BY DEF OfRun
  <1>2. \A q \in Runs \ {r} :
            /\ (Alive(q)' <=> Alive(q)) /\ (InBuild(q)' <=> InBuild(q)) /\ (Running(q)' <=> Running(q))
            /\ (Written(q)' <=> Written(q)) /\ steps'[q] = steps[q]
    BY <1>1 DEF Kept, Alive, InBuild, Running, Written
  <1>3. \A q \in Runs : /\ (Alive(q)' => Alive(q)) /\ (InBuild(q)' => InBuild(q))
                        /\ (Running(q)' => Running(q))
                        /\ (Written(q)' => Written(q) /\ steps'[q] = steps[q])
    BY <1>2
  <1>4. command' = command /\ plan' = plan BY DEF OfRun
  <1>5. (stepsFile # <<>> => \E q \in Runs : Account(stepsFile, plan[q]))' BY <1>4 DEF Shared
  <1>6. \A q \in Runs : InBuild(q)' \/ runId' = q => command'[q] \in Builds BY <1>3, <1>4 DEF Shared
  <1>7. ~together' => \A p, q \in Runs : Alive(p)' /\ Alive(q)' => p = q BY <1>3 DEF Shared
  <1>8. ~together' => \A q \in Runs : Running(q)' => runId' = q BY <1>3 DEF Shared
  <1>9. ~together' => \A q \in Runs : runId' = q /\ Written(q)' => stepsFile' = steps'[q] BY <1>3 DEF Shared
  <1> HIDE DEF Alive, InBuild, Running, Written
  <1> QED BY <1>5, <1>6, <1>7, <1>8, <1>9 DEF Shared

\* MakeBootstrapper keeps what is so of the shared files.
LEMMA MakeBootstrapperShared ==
    ASSUME TypeInv, NEW r \in Runs, Local(r), OfRun(r), Shared, MakeBootstrapper(r) PROVE Shared'
  <1>1. /\ pc[r] = "none" /\ UNCHANGED <<stepsFile, runId, command, plan, steps, closing, outcome>>
        /\ together' = (together \/ \E q \in Runs : Alive(q))
        /\ \/ pc'[r] = "gone" /\ exitCode'[r] = 1
           \/ pc'[r] = command[r] /\ exitCode'[r] = exitCode[r]
    BY DEF MakeBootstrapper, Goto, TypeInv
  <1>2. command[r] \in Builds \cup {"init-config", "generate-tsconfig"} BY DEF TypeInv
  <1>3. closing[r] = {} /\ outcome[r] = NoRun /\ exitCode[r] = NoExit BY <1>1 DEF Local
  <1>4. ~Running(r)' /\ ~Written(r)'
    BY <1>1, <1>2, <1>3, PcKinds DEF Running, Written, NoRun
  <1>5. InBuild(r)' => command'[r] \in Builds BY <1>1, <1>2 DEF InBuild
  <1>6. \A q \in Runs \ {r} : Kept(q) BY DEF OfRun
  <1>7. \A q \in Runs \ {r} :
            /\ (Alive(q)' <=> Alive(q)) /\ (InBuild(q)' <=> InBuild(q)) /\ (Running(q)' <=> Running(q))
            /\ (Written(q)' <=> Written(q)) /\ steps'[q] = steps[q]
    BY <1>6 DEF Kept, Alive, InBuild, Running, Written
  <1>8. ~together' => ~together /\ \A q \in Runs : ~Alive(q) BY <1>1 DEF TypeInv
  <1>9. ~together' => \A p, q \in Runs : Alive(p)' /\ Alive(q)' => p = q BY <1>7, <1>8
  <1>10. ~together' => \A q \in Runs : Running(q)' => runId' = q BY <1>1, <1>4, <1>7, <1>8 DEF Shared
  <1>11. ~together' => \A q \in Runs : runId' = q /\ Written(q)' => stepsFile' = steps'[q]
    BY <1>1, <1>4, <1>7, <1>8 DEF Shared
  <1>12. \A q \in Runs : InBuild(q)' \/ runId' = q => command'[q] \in Builds BY <1>1, <1>5, <1>7 DEF Shared
  <1>13. (stepsFile # <<>> => \E q \in Runs : Account(stepsFile, plan[q]))' BY <1>1 DEF Shared
  <1> QED BY <1>9, <1>10, <1>11, <1>12, <1>13 DEF Shared

\* RunStarted keeps what is so of the shared files.
LEMMA RunStartedShared ==
    ASSUME TypeInv, NEW r \in Runs, \A q \in Runs : Local(q), OfRun(r), Shared, RunStarted(r) PROVE Shared'
  <1>1. /\ pc[r] = "started" /\ UNCHANGED <<stepsFile, together, command, plan, closing, exitCode>>
        /\ \/ pc'[r] = "ledger" /\ runId' = r /\ outcome'[r] = outcome[r]
           \/ pc'[r] = "returning" /\ runId' = runId /\ outcome'[r] = "CRASH"
    BY DEF RunStarted, Ends, Goto, TypeInv
  <1>2. closing[r] = {} /\ outcome[r] = NoRun BY <1>1 DEF Local
  <1>3. Alive(r) /\ InBuild(r) BY <1>1 DEF Alive, InBuild
  <1>4. \A q \in Runs \ {r} : Kept(q) BY DEF OfRun
  <1>5. \A q \in Runs \ {r} :
            /\ (Alive(q)' <=> Alive(q)) /\ (InBuild(q)' <=> InBuild(q)) /\ (Running(q)' <=> Running(q))
            /\ (Written(q)' <=> Written(q)) /\ steps'[q] = steps[q]
    BY <1>4 DEF Kept, Alive, InBuild, Running, Written
  <1>6. ~Written(r)' BY <1>1, <1>2 DEF Written, NoRun
  <1>7. Running(r)' => runId' = r BY <1>1, <1>2, PcKinds DEF Running
  <1>8. \A q \in Runs : Running(q) => Alive(q)
    BY PcKinds DEF Running, Alive, Begun, Local
  <1>9. ~together' => \A p, q \in Runs : Alive(p)' /\ Alive(q)' => p = q BY <1>1, <1>3, <1>5 DEF Shared
  <1>10. ~together' => \A q \in Runs : Running(q)' => runId' = q
    BY <1>1, <1>3, <1>5, <1>7, <1>8 DEF Shared
  <1>11. ~together' => \A q \in Runs : runId' = q /\ Written(q)' => stepsFile' = steps'[q]
    BY <1>1, <1>5, <1>6 DEF Shared
  <1>12. \A q \in Runs : InBuild(q)' \/ runId' = q => command'[q] \in Builds BY <1>1, <1>3, <1>5 DEF Shared
  <1>13. (stepsFile # <<>> => \E q \in Runs : Account(stepsFile, plan[q]))' BY <1>1 DEF Shared
  <1> QED BY <1>9, <1>10, <1>11, <1>12, <1>13 DEF Shared

\* StepsClose keeps what is so of the shared files.
LEMMA StepsCloseShared ==
    ASSUME TypeInv, NEW r \in Runs, Local(r), OfRun(r), Shared, StepsClose(r) PROVE Shared'
  <1>1. /\ "steps" \in closing[r] /\ UNCHANGED <<runId, together, command, plan, steps, exitCode>>
        /\ \/ pc'[r] = "returning" /\ outcome'[r] = "CRASH" /\ stepsFile' = stepsFile
           \/ UNCHANGED <<pc, outcome>> /\ stepsFile' = steps[r]
        /\ closing' = [closing EXCEPT ![r] = @ \ {"steps"}]
    BY DEF StepsClose, Ends, Goto, TypeInv
  <1>2. pc[r] \in {"close", "returning"} /\ Account(steps[r], plan[r]) BY <1>1 DEF Local
  <1>3. CASE stepsFile' = stepsFile /\ pc'[r] = "returning" /\ outcome'[r] = "CRASH"
    <2>1. exitCode[r] = NoExit BY <1>2 DEF Local
    <2>2. ~Written(r)' BY <1>3 DEF Written
    <2>3. Alive(r) /\ InBuild(r) /\ Running(r) BY <1>1, <1>2 DEF Alive, InBuild, Running
    <2> QED BY <1>1, <1>3, <2>2, <2>3, SharedKept
  <1>4. CASE UNCHANGED <<pc, outcome>> /\ stepsFile' = steps[r]
    <2>1. \A q \in Runs \ {r} : Kept(q) BY DEF OfRun
    <2>2. \A q \in Runs : (Alive(q)' <=> Alive(q)) /\ (InBuild(q)' <=> InBuild(q))
      BY <1>4 DEF Alive, InBuild
    <2>3. \A q \in Runs : Running(q)' => Running(q) BY <1>1, <1>4 DEF Running, TypeInv
    <2>4. Running(r) BY <1>1 DEF Running
    <2>5. stepsFile' = steps'[r] BY <1>1, <1>4
    <2>6. ~together' => runId' = r BY <1>1, <2>4 DEF Shared
    <2>7. ~together' => \A q \in Runs : runId' = q /\ Written(q)' => stepsFile' = steps'[q] BY <2>5, <2>6
    <2>8. (stepsFile # <<>> => \E q \in Runs : Account(stepsFile, plan[q]))' BY <1>1, <1>2, <1>4
    <2>9. \A q \in Runs : InBuild(q)' \/ runId' = q => command'[q] \in Builds BY <1>1, <2>2 DEF Shared
    <2>10. ~together' => \A p, q \in Runs : Alive(p)' /\ Alive(q)' => p = q BY <1>1, <2>2 DEF Shared
    <2>11. ~together' => \A q \in Runs : Running(q)' => runId' = q BY <1>1, <2>3 DEF Shared
    <2> QED BY <2>7, <2>8, <2>9, <2>10, <2>11 DEF Shared
  <1> QED BY <1>1, <1>3, <1>4

\* Dies keeps what is so of the shared files.
LEMMA DiesShared ==
    ASSUME TypeInv, NEW r \in Runs, OfRun(r), Shared, NEW code \in {1, 9}, Dies(r, code) PROVE Shared'
  <1>1. pc'[r] = "gone" /\ exitCode'[r] = code /\ closing'[r] = {} BY DEF Dies, Goto, TypeInv
  <1>2. ~Alive(r)' /\ ~InBuild(r)' /\ ~Running(r)' /\ ~Written(r)'
    BY <1>1, PcKinds DEF Alive, InBuild, Running, Written
  <1>3. UNCHANGED <<stepsFile, runId, together>> BY DEF Dies, fileVars
  <1> QED BY <1>2, <1>3, SharedKept

\* A run that goes on, or ends, without writing a file.
LEMMA GoesOnShared ==
    ASSUME TypeInv, NEW r \in Runs, Local(r), OfRun(r), Shared, UNCHANGED <<stepsFile, runId, together>>,
           pc[r] \notin {"none", "gone"},
           InBuild(r)' => InBuild(r),
           Running(r)' => Running(r),
           Written(r)' => Written(r) /\ steps'[r] = steps[r]
    PROVE  Shared'
  <1>1. Alive(r) BY DEF Alive
  <1> QED BY <1>1, SharedKept

\* A step of a task keeps what is so of the shared files.
LEMMA TaskShared ==
    ASSUME TypeInv, NEW r \in Runs, NEW t \in plan[r], Local(r), OfRun(r), Shared,
           UNCHANGED <<stepsFile, runId, together, closing, exitCode>>,
           pc[r] \in {"execute", "returning"}, task[r][t] # "ended",
           pc'[r] \in {pc[r], "returning"}, outcome'[r] \in {outcome[r], "FAIL", "CRASH"}
    PROVE  Shared'
  <1>1. outcome[r] # "OK" /\ closing[r] = {} BY Unfinished
  <1>2. ~Written(r)' BY <1>1 DEF Written
  <1>3. Running(r)' => Running(r) BY <1>1, PcKinds DEF Running
  <1>4. InBuild(r) BY DEF InBuild
  <1> QED BY <1>2, <1>3, <1>4, GoesOnShared
-----------------------------------------------------------------------------
(* The invariant                                                           *)

\* The inductive invariant.
Inv == TypeInv /\ (\A r \in Runs : Local(r)) /\ Shared

\* The invariant holds at first.
LEMMA InitInv == Init => Inv
  <1> SUFFICES ASSUME Init PROVE Inv OBVIOUS
  <1>1. TypeInv BY TypeInit
  <1>2. ASSUME NEW r \in Runs PROVE Local(r) /\ ~InBuild(r) /\ ~Alive(r) /\ ~Running(r) /\ ~Written(r)
    <2>1. /\ pc[r] = "none" /\ exitCode[r] = NoExit /\ outcome[r] = NoRun /\ closing[r] = {} /\ steps[r] = <<>>
          /\ \A t \in plan[r] : task[r][t] = "waiting"
          /\ viz[r] = [c \in Counters |-> 0]
      BY DEF Init
    <2>2. "none" \in Early \ (Begun \cup {"returning", "gone", "close", "execute"}) BY DEF Early, Begun, Builds
    <2>3. NoCrash(<<>>) BY DEF NoCrash
    <2>4. Local(r) BY <2>1, <2>2, <2>3 DEF Local, Fresh, Over, Passed, Explained, NoRun, NoExit
    <2>5. ~InBuild(r) /\ ~Alive(r) /\ ~Running(r) /\ ~Written(r)
      BY <2>1, <2>2 DEF InBuild, Alive, Running, Written, NoRun
    <2> QED BY <2>4, <2>5
  <1>3. stepsFile = <<>> /\ \A r \in Runs : runId # r BY RunsAssumption DEF Init, NoRun
  <1>4. Shared BY <1>2, <1>3 DEF Shared
  <1> QED BY <1>1, <1>2, <1>4 DEF Inv

\* What is so of each run stays so if it does of the one that takes the step.
LEMMA LocalAll ==
    ASSUME Inv, NEW r \in Runs, OfRun(r), Local(r)' PROVE \A q \in Runs : Local(q)'
  <1>1. ASSUME NEW q \in Runs \ {r} PROVE Local(q)'
    <2>1. Kept(q) /\ command' = command /\ plan' = plan BY <1>1 DEF OfRun
    <2> QED BY <2>1, LocalKept DEF Inv
  <1> QED BY <1>1

\* The end of a task moves its run on, if at all, to a failure.
LEMMA TaskEndedPc ==
    ASSUME TypeInv, NEW r \in Runs, NEW t \in plan[r], NEW before \in Seq(Chats), NEW type \in Types,
           NEW v \in {"OK", "FAIL"}, TaskEnded(r, t, before, type, v)
    PROVE  pc'[r] \in {pc[r], "returning"} /\ outcome'[r] \in {outcome[r], "FAIL", "CRASH"}
  <1>1. CASE TaskEndedQuietly(r, t, before, type, v) BY <1>1 DEF TaskEndedQuietly
  <1>2. CASE TaskEndedBadly(r) BY <1>2, FailsType DEF TaskEndedBadly
  <1> QED BY <1>1, <1>2, EndForms

\* No action of a task disturbs what is so of the shared files.
LEMMA TasksShared ==
    ASSUME Inv, NEW r \in Runs, NEW t \in AllTasks, OfRun(r),
           TaskBegins(r, t) \/ TaskReports(r, t) \/ TaskEnds(r, t) \/ TaskCrashes(r, t)
    PROVE  Shared'
  <1>0. TypeInv /\ Local(r) /\ Shared BY DEF Inv
  <1>1. /\ t \in plan[r] /\ UNCHANGED <<stepsFile, runId, together, closing, exitCode>>
        /\ pc[r] \in {"execute", "returning"} /\ task[r][t] # "ended"
    BY DEF TaskBegins, TaskReports, TaskEnds, TaskCrashes, InFlight, fileVars
  <1>2. pc'[r] \in {pc[r], "returning"} /\ outcome'[r] \in {outcome[r], "FAIL", "CRASH"}
    <2>1. <<>> \in Seq(Chats) OBVIOUS
    <2>2. <<StoreStep("RESTORED", t)>> \in Seq(Chats) /\ <<StoreStep("RECORDED", t)>> \in Seq(Chats)
      <3>1. StoreStep("RESTORED", t) \in Chats /\ StoreStep("RECORDED", t) \in Chats
        BY StepKinds DEF StoreStep, TaskStepNames
      <3> QED BY <3>1
    <2>3. CASE TaskBegins(r, t)
      <3>1. CASE TaskEnded(r, t, <<>>, "CANNOT_START", "FAIL")
        BY <1>0, <1>1, <2>1, <3>1, TaskEndedPc DEF Types
      <3>2. CASE TaskEnded(r, t, <<StoreStep("RESTORED", t)>>, "CACHED", "OK")
        BY <1>0, <1>1, <2>2, <3>2, TaskEndedPc DEF Types
      <3>3. CASE UNCHANGED <<pc, outcome>> BY <3>3
      <3> QED BY <2>3, <3>1, <3>2, <3>3 DEF TaskBegins
    <2>4. CASE TaskReports(r, t) BY <2>4 DEF TaskReports
    <2>5. CASE TaskEnds(r, t)
      <3>1. PICK v \in {"OK", "FAIL"} : TaskEnded(r, t, <<StoreStep("RECORDED", t)>>, "EXECUTED", v)
        BY <2>5 DEF TaskEnds
      <3> QED BY <1>0, <1>1, <2>2, <3>1, TaskEndedPc DEF Types
    <2>6. CASE TaskCrashes(r, t) BY <1>0, <2>6, FailsType DEF TaskCrashes, CrashOutcomes
    <2> QED BY <2>3, <2>4, <2>5, <2>6
  <1> QED BY <1>0, <1>1, <1>2, TaskShared

\* The three parts of the invariant make it up again.
LEMMA OneStepInv == ASSUME Inv, NEW r \in Runs, OfRun(r), Local(r)', Shared' PROVE Inv'
  BY LocalAll DEF Inv, OfRun

\* Every step keeps the invariant.
LEMMA NextInv == ASSUME Inv, [Next]_vars PROVE Inv'
  <1>0. TypeInv /\ Shared /\ \A r \in Runs : Local(r) BY DEF Inv
  <1>1. ASSUME NEW r \in Runs, MakeBootstrapper(r) PROVE Inv'
    <2>1. OfRun(r) BY <1>0, <1>1, MakeBootstrapperOf
    <2>2. Local(r)' BY <1>0, <1>1, <2>1, MakeBootstrapperLocal
    <2>3. Shared' BY <1>0, <1>1, <2>1, MakeBootstrapperShared
    <2> QED BY <2>1, <2>2, <2>3, OneStepInv
  <1>2. ASSUME NEW r \in Runs, InitConfig(r) PROVE Inv'
    <2>1. OfRun(r) BY <1>0, <1>2, InitConfigOf
    <2>2. Local(r)' BY <1>0, <1>2, <2>1, InitConfigLocal
    <2>3. /\ pc[r] = "init-config" /\ pc'[r] = "gone" /\ closing'[r] = closing[r] /\ outcome'[r] = outcome[r]
          /\ UNCHANGED <<stepsFile, runId, together>>
      BY <1>0, <1>2 DEF InitConfig, Goto, TypeInv
    <2>4. closing[r] = {} /\ outcome[r] # "OK" BY <1>0, <2>3 DEF Local, NoRun
    <2>5. ~InBuild(r)' /\ ~Running(r)' /\ ~Written(r)' BY <2>3, <2>4, PcKinds DEF InBuild, Running, Written
    <2>6. Shared' BY <1>0, <2>1, <2>3, <2>5, GoesOnShared
    <2> QED BY <2>1, <2>2, <2>6, OneStepInv
  <1>3. ASSUME NEW r \in Runs, GenerateTsConfig(r) PROVE Inv'
    <2>1. OfRun(r) BY <1>0, <1>3, GenerateTsConfigOf
    <2>2. Local(r)' BY <1>0, <1>3, <2>1, GenerateTsConfigLocal
    <2>3. /\ pc[r] = "generate-tsconfig" /\ pc'[r] = "gone" /\ closing'[r] = closing[r] /\ outcome'[r] = outcome[r]
          /\ UNCHANGED <<stepsFile, runId, together>>
      BY <1>0, <1>3 DEF GenerateTsConfig, Goto, TypeInv, fileVars
    <2>4. closing[r] = {} /\ outcome[r] # "OK" BY <1>0, <2>3 DEF Local, NoRun
    <2>5. ~InBuild(r)' /\ ~Running(r)' /\ ~Written(r)' BY <2>3, <2>4, PcKinds DEF InBuild, Running, Written
    <2>6. Shared' BY <1>0, <2>1, <2>3, <2>5, GoesOnShared
    <2> QED BY <2>1, <2>2, <2>6, OneStepInv
  <1>4. ASSUME NEW r \in Runs, MakeEngine(r) PROVE Inv'
    <2>1. OfRun(r) BY <1>0, <1>4, MakeEngineOf
    <2>2. Local(r)' BY <1>0, <1>4, <2>1, MakeEngineLocal
    <2>3. /\ pc[r] \in Builds /\ pc'[r] \in {"gone", "started"} /\ closing'[r] = closing[r]
          /\ outcome'[r] = outcome[r] /\ UNCHANGED <<stepsFile, runId, together>>
      BY <1>0, <1>4 DEF MakeEngine, Goto, TypeInv, fileVars
    <2>a. "started" \in Early /\ pc[r] \notin {"returning", "gone", "close", "execute", "none", "init-config", "generate-tsconfig"}
      BY <2>3 DEF Early, Builds
    <2>4. closing[r] = {} /\ outcome[r] # "OK" BY <1>0, <2>a DEF Local, NoRun
    <2>5. InBuild(r) /\ ~Running(r)' /\ ~Written(r)'
      BY <2>3, <2>4, <2>a, PcKinds DEF InBuild, Running, Written
    <2>6. Shared' BY <1>0, <2>1, <2>3, <2>5, <2>a, GoesOnShared
    <2> QED BY <2>1, <2>2, <2>6, OneStepInv
  <1>5. ASSUME NEW r \in Runs, RunStarted(r) PROVE Inv'
    <2>1. OfRun(r) BY <1>0, <1>5, RunStartedOf
    <2>2. Local(r)' BY <1>0, <1>5, <2>1, RunStartedLocal
    <2>3. Shared' BY <1>0, <1>5, <2>1, RunStartedShared
    <2> QED BY <2>1, <2>2, <2>3, OneStepInv
  <1>6. ASSUME NEW r \in Runs, UpdateRun(r) \/ Prepare(r) \/ PlanPrepared(r) PROVE Inv'
    <2>1. OfRun(r) BY <1>0, <1>6, UpdateRunOf, PrepareOf, PlanPreparedOf
    <2>2. Local(r)' BY <1>0, <1>6, <2>1, UpdateRunLocal, PrepareLocal, PlanPreparedLocal
    <2>3. /\ pc[r] \in {"ledger", "initialize", "plan"} /\ closing'[r] = closing[r]
          /\ UNCHANGED <<stepsFile, runId, together>>
      BY <1>0, <1>6 DEF UpdateRun, Prepare, PlanPrepared, fileVars
    <2>4. \/ pc'[r] \in {"initialize", "plan", "execute"} /\ outcome'[r] = outcome[r]
          \/ pc'[r] = "returning" /\ outcome'[r] \in {"FAIL", "CRASH"}
      BY <1>0, <1>6 DEF UpdateRun, Prepare, PlanPrepared, Ends, Goto, TypeInv
    <2>5. closing[r] = {} /\ outcome[r] # "OK" BY <1>0, <2>3 DEF Local, NoRun
    <2>6. InBuild(r) /\ Running(r) /\ ~Written(r)'
      BY <2>3, <2>4, <2>5 DEF InBuild, Running, Written, Begun
    <2>7. Shared' BY <1>0, <2>1, <2>3, <2>6, GoesOnShared
    <2> QED BY <2>1, <2>2, <2>7, OneStepInv
  <1>7. ASSUME NEW r \in Runs, NEW t \in AllTasks,
               TaskBegins(r, t) \/ TaskReports(r, t) \/ TaskEnds(r, t) \/ TaskCrashes(r, t)
        PROVE  Inv'
    <2>1. OfRun(r) BY <1>0, <1>7, TaskBeginsOf, TaskReportsOf, TaskEndsOf, TaskCrashesOf
    <2>2. Local(r)' BY <1>0, <1>7, TaskBeginsLocal, TaskReportsLocal, TaskEndsLocal, TaskCrashesLocal
    <2>3. Shared' BY <1>7, <2>1, TasksShared
    <2> QED BY <2>1, <2>2, <2>3, OneStepInv
  <1>8. ASSUME NEW r \in Runs, RunEnded(r) PROVE Inv'
    <2>1. OfRun(r) BY <1>0, <1>8, RunEndedOf
    <2>2. Local(r)' BY <1>0, <1>8, <2>1, RunEndedLocal
    <2>3. pc[r] = "execute" /\ UNCHANGED <<stepsFile, runId, together>> BY <1>8 DEF RunEnded, fileVars
    <2>4. \/ pc'[r] = "returning" /\ outcome'[r] = "CRASH"
          \/ pc'[r] = "close" /\ outcome'[r] = outcome[r] /\ "steps" \in closing'[r]
      <3>1. "steps" \in (IF Ledger THEN {"ledger", "steps"} ELSE {"steps"}) OBVIOUS
      <3>2. \/ Ends(r, "CRASH")
            \/ /\ Goto(r, "close") /\ UNCHANGED outcome
               /\ closing' = [closing EXCEPT ![r] = IF Ledger THEN {"ledger", "steps"} ELSE {"steps"}]
        BY <1>8 DEF RunEnded
      <3> QED BY <1>0, <3>1, <3>2 DEF Ends, Goto, TypeInv
    <2>5. outcome[r] # "OK" BY <1>0, <2>3 DEF Local, NoRun
    <2>6. InBuild(r) /\ Running(r) /\ ~Written(r)' BY <2>3, <2>4, <2>5 DEF InBuild, Running, Written
    <2>7. Shared' BY <1>0, <2>1, <2>3, <2>6, GoesOnShared
    <2> QED BY <2>1, <2>2, <2>7, OneStepInv
  <1>9. ASSUME NEW r \in Runs, LedgerReads(r) \/ LedgerTruncates(r) \/ LedgerWrites(r) PROVE Inv'
    <2>1. OfRun(r) BY <1>0, <1>9, LedgerReadsOf, LedgerTruncatesOf, LedgerWritesOf
    <2>2. Local(r)' BY <1>0, <1>9, <2>1, LedgerReadsLocal, LedgerTruncatesLocal, LedgerWritesLocal
    <2>3. /\ closing[r] # {} /\ UNCHANGED <<stepsFile, runId, together, exitCode, steps>>
          /\ \/ pc'[r] = "returning" /\ outcome'[r] = "CRASH"
             \/ pc'[r] = pc[r] /\ outcome'[r] = outcome[r]
      <3>1. CASE LedgerReads(r)
        <4>1. closing[r] # {} /\ UNCHANGED <<stepsFile, runId, together, exitCode, steps>>
          BY <3>1 DEF LedgerReads, fileVars
        <4>2. Ends(r, "CRASH") \/ UNCHANGED <<pc, outcome>> BY <3>1 DEF LedgerReads
        <4> QED BY <1>0, <4>1, <4>2, EndsType
      <3>2. CASE LedgerTruncates(r) BY <3>2 DEF LedgerTruncates
      <3>3. CASE LedgerWrites(r) BY <3>3 DEF LedgerWrites
      <3> QED BY <1>9, <3>1, <3>2, <3>3
    <2>4. "steps" \in closing'[r] <=> "steps" \in closing[r]
      <3>1. CASE LedgerReads(r) BY <1>0, <3>1 DEF LedgerReads, TypeInv
      <3>2. CASE LedgerTruncates(r) BY <1>0, <3>2 DEF LedgerTruncates, TypeInv
      <3>3. CASE LedgerWrites(r) BY <1>0, <3>3 DEF LedgerWrites, TypeInv
      <3> QED BY <1>9, <3>1, <3>2, <3>3
    <2>5. pc[r] \in {"close", "returning"} /\ InBuild(r) /\ Running(r) BY <1>0, <2>3 DEF Local, InBuild, Running
    <2>6. Written(r)' => Written(r) BY <2>3, <2>4 DEF Written
    <2>7. steps'[r] = steps[r] BY <2>3
    <2>8. Shared' BY <1>0, <2>1, <2>3, <2>5, <2>6, <2>7, GoesOnShared
    <2> QED BY <2>1, <2>2, <2>8, OneStepInv
  <1>10. ASSUME NEW r \in Runs, StepsClose(r) PROVE Inv'
    <2>1. OfRun(r) BY <1>0, <1>10, StepsCloseOf
    <2>2. Local(r)' BY <1>0, <1>10, <2>1, StepsCloseLocal
    <2>3. Shared' BY <1>0, <1>10, <2>1, StepsCloseShared
    <2> QED BY <2>1, <2>2, <2>3, OneStepInv
  <1>11. ASSUME NEW r \in Runs, Finish(r) PROVE Inv'
    <2>1. OfRun(r) BY <1>0, <1>11, FinishOf
    <2>2. Local(r)' BY <1>0, <1>11, <2>1, FinishLocal
    <2>3. /\ pc[r] = "close" /\ closing[r] = {} /\ UNCHANGED <<stepsFile, runId, together, steps>>
          /\ pc'[r] = "returning"
      BY <1>0, <1>11 DEF Finish, fileVars, Ends, Goto, TypeInv
    <2>4. InBuild(r) /\ Running(r) /\ Written(r) /\ steps'[r] = steps[r] BY <2>3 DEF InBuild, Running, Written
    <2>5. Shared' BY <1>0, <2>1, <2>3, <2>4, GoesOnShared
    <2> QED BY <2>1, <2>2, <2>5, OneStepInv
  <1>12. ASSUME NEW r \in Runs, NEW code \in {1, 9}, Dies(r, code) PROVE Inv'
    <2>1. OfRun(r) BY <1>0, <1>12, DiesOf
    <2>2. Local(r)' BY <1>0, <1>12, DiesLocal
    <2>3. Shared' BY <1>0, <1>12, <2>1, DiesShared
    <2> QED BY <2>1, <2>2, <2>3, OneStepInv
  <1>13. ASSUME NEW r \in Runs, Exit(r) PROVE Inv'
    <2>1. CASE outcome[r] = "CRASH"
      <3>1. Dies(r, 1) BY <1>13, <2>1 DEF Exit, ExitCode
      <3> QED BY <3>1, <1>12
    <2>2. CASE outcome[r] # "CRASH"
      <3>1. OfRun(r) BY <1>0, <1>13, ExitOf
      <3>2. Local(r)' BY <1>0, <1>13, <3>1, ExitLocal
      <3>3. /\ pc[r] = "returning" /\ closing[r] = {} /\ pc'[r] = "gone"
            /\ UNCHANGED <<stepsFile, runId, together, steps, outcome, closing>>
        BY <1>0, <1>13, <2>2 DEF Exit, fileVars, Goto, TypeInv
      <3>4. InBuild(r) /\ ~Running(r)' /\ steps'[r] = steps[r] BY <3>3, PcKinds DEF InBuild, Running
      <3>5. Written(r)' => Written(r) BY <3>3 DEF Written
      <3>6. Shared' BY <1>0, <3>1, <3>3, <3>4, <3>5, GoesOnShared
      <3> QED BY <3>1, <3>2, <3>6, OneStepInv
    <2> QED BY <2>1, <2>2
  <1>14. CASE UNCHANGED vars
    <2>1. UNCHANGED <<command, plan, pc, outcome, exitCode, task, verdict, steps, rejected, viz, closing,
                      runId, stepsFile, together>>
      BY <1>14 DEF vars, fileVars
    <2>2. \A r \in Runs : Kept(r) BY <2>1 DEF Kept
    <2>3. \A r \in Runs : Local(r)' BY <1>0, <2>1, <2>2, LocalKept
    <2>4. TypeInv' BY <1>0, <2>1 DEF TypeInv
    <2>5. Shared' BY <1>0, <2>1 DEF Shared, Alive, InBuild, Running, Written
    <2> QED BY <2>3, <2>4, <2>5 DEF Inv
  <1>15. ASSUME NEW r \in Runs, UnhandledRejection(r) \/ Kill(r) PROVE Inv'
    BY <1>12, <1>15 DEF UnhandledRejection, Kill
  <1> QED BY <1>1, <1>2, <1>3, <1>4, <1>5, <1>6, <1>7, <1>8, <1>9, <1>10, <1>11, <1>13, <1>14, <1>15
          DEF Next, Progress

\* The invariant always holds.
LEMMA Invariance == Spec => []Inv
  <1>1. Init => Inv BY InitInv
  <1>2. Inv /\ [Next]_vars => Inv' BY NextInv
  <1> QED BY <1>1, <1>2, PTL DEF Spec

-----------------------------------------------------------------------------
(* What the invariant shows                                                *)

\* The exit code of every build tells the truth: with 0 all tasks passed, the
\* processors' promises were kept and the build went through to its end; with 2
\* either it did and a task, or the program, did not pass while none crashed, or it
\* was stopped before it had a plan or by a task reported as a crash
\* (Breakdown.exitCode, the runner of EngineBootstrapper).
THEOREM ExitCodes == Spec => []ExitCodeTruthful
  <1>1. Inv => ExitCodeTruthful
    <2> SUFFICES ASSUME Inv, NEW r \in Runs, command[r] \in Builds
                 PROVE  /\ exitCode[r] = 0 => Over(r) /\ ~rejected[r] /\ \A t \in plan[r] : verdict[r][t] = "OK"
                        /\ exitCode[r] = 2 =>
                              IF Over(r) THEN /\ ~ToldOfCrash(r)
                                              /\ command[r] = "run" \/ \E t \in plan[r] : verdict[r][t] # "OK"
                              ELSE ToldOfCrash(r) \/ At(steps[r], "PLAN_PREPARED") = {}
      BY DEF ExitCodeTruthful
    <2>0. TypeInv /\ Local(r) BY DEF Inv
    <2>1. exitCode[r] = 0 => Over(r) /\ ~rejected[r] /\ \A t \in plan[r] : verdict[r][t] = "OK"
      BY <2>0 DEF Local, Passed
    <2>2. ToldOfCrash(r) <=> ~NoCrash(steps[r])
      <3>1. steps[r] \in Seq(AllSteps) BY <2>0 DEF TypeInv
      <3>2. \A i \in DOMAIN steps[r] : steps[r][i] \in EndSteps <=> steps[r][i].step = "TASK_ENDED"
        <4>1. \A i \in DOMAIN steps[r] : steps[r][i] \in AllSteps BY <3>1
        <4> QED BY <4>1, Kinds
      <3> QED BY <3>2 DEF ToldOfCrash, NoCrash, At
    <2>3. exitCode[r] = 2 => Explained(r) BY <2>0 DEF Local
    <2>4. Over(r) => NoCrash(steps[r]) BY <2>0 DEF Local
    <2> QED BY <2>1, <2>2, <2>3, <2>4 DEF Explained
  <1> QED BY <1>1, Invariance, PTL

\* The numbers of the summary add up when it is printed, whatever became of the
\* tasks (TaskExecutionVisualizer).
THEOREM SummariesAddUp == Spec => []SummaryAddsUp
  <1>1. Inv => SummaryAddsUp
    <2> SUFFICES ASSUME Inv, NEW r \in Runs, Over(r)
                 PROVE  /\ viz[r]["ended"] + viz[r]["blocked"] = viz[r]["all"]
                        /\ viz[r]["succeeded"] + viz[r]["failed"] = viz[r]["ended"]
                        /\ viz[r]["executed"] + viz[r]["cached"] = viz[r]["ended"]
                        /\ viz[r]["started"] = viz[r]["executed"]
      BY DEF SummaryAddsUp
    <2>1. Counts(r) /\ Done(r) = plan[r] BY DEF Inv, Local
    <2>2. InHand(r) = {} BY <2>1 DEF Done, InHand
    <2>3. Cardinality(InHand(r)) = 0 BY <2>2, FS_EmptySet
    <2>4. viz[r]["executed"] \in Nat BY <2>1 DEF Counts, Counters
    <2>5. \A a, b \in Nat : a = b + 0 => a = b OBVIOUS
    <2>6. viz[r]["started"] \in Nat BY <2>1 DEF Counts, Counters
    <2>7. viz[r]["started"] = viz[r]["executed"] BY <2>1, <2>3, <2>4, <2>5, <2>6 DEF Counts
    <2> QED BY <2>1, <2>7 DEF Counts
  <1> QED BY <1>1, Invariance, PTL

\* The file step-by-step.json holds the whole account of one build, and after a
\* build that passed with the work space to itself its own (StepByStepTransmitter.close()).
THEOREM StepsFileTells == Spec => []StepsTellTheRun
  <1>1. Inv => StepsTellTheRun
    <2> SUFFICES ASSUME Inv PROVE StepsTellTheRun OBVIOUS
    <2>1. stepsFile # <<>> => \E r \in Runs : Account(stepsFile, plan[r]) BY DEF Inv, Shared
    <2>2. ASSUME NEW r \in Runs, runId = r, exitCode[r] = 0, ~together PROVE stepsFile = steps[r]
      <3>1. command[r] \in Builds BY <2>2 DEF Inv, Shared
      <3>2. outcome[r] = "OK" BY <2>2, <3>1 DEF Inv, Local
      <3>3. Written(r) BY <2>2, <3>2 DEF Written
      <3> QED BY <2>2, <3>3 DEF Inv, Shared
    <2> QED BY <2>1, <2>2 DEF StepsTellTheRun
  <1> QED BY <1>1, Invariance, PTL
-----------------------------------------------------------------------------
(* The outputs of a build                                                  *)

\* The tasks that were executed, by the steps transmitted.
Ran(s) == {s[i].task : i \in {j \in At(s, "TASK_ENDED") : s[j].type = "EXECUTED"}}

\* The tasks whose outputs are there and whose end is still to come.
Reporting(r) == {t \in plan[r] : task[r][t] = "reported"}

\* The run's file of all outputs, and directory of outputs, are as makeBootstrapper() left them, or are being
\* filled, or are complete.
Unused(r) == pc[r] \in Builds \cup {"started"} \cup Begun
Filled(r) == pc[r] = "execute" \/ (Over(r) /\ pc[r] \in {"close", "returning"})

\* The file all-tests holds what these tasks reported, in some order.
Collected(r, outs, file) ==
    \E order \in SetToSeqs(outs) : file = FlattenSeq([i \in DOMAIN order |-> Reported(r, order[i][2])])

\* The outputs are those of the tasks executed.
Outs(r) ==
    /\ Unused(r) => outputs = {} /\ allTests = <<>>
    /\ Filled(r) => /\ outputs = {<<r, t>> : t \in Ran(steps[r]) \cup Reporting(r)}
                    /\ Collected(r, outputs, allTests)

OutputsInv == ~together => \A r \in Runs : Outs(r)

\* The steps tell of the tasks executed before and of those executed now.
LEMMA RanGrows ==
    ASSUME NEW s \in Seq(AllSteps), NEW n \in Seq(AllSteps)
    PROVE  Ran(s \o n) = Ran(s) \cup Ran(n)
  <1> DEFINE u == s \o n
             Is(e) == e.step = "TASK_ENDED" /\ e.type = "EXECUTED"
  <1>1. u \in Seq(AllSteps) /\ Len(u) = Len(s) + Len(n) /\ Len(s) \in Nat /\ Len(n) \in Nat OBVIOUS
  <1>2. \A i \in DOMAIN s : i \in DOMAIN u /\ u[i] = s[i] BY <1>1
  <1>3. \A i \in DOMAIN n : i + Len(s) \in DOMAIN u /\ u[i + Len(s)] = n[i] BY <1>1
  <1>4. \A i \in DOMAIN u : (i \in DOMAIN s /\ u[i] = s[i]) \/ (i - Len(s) \in DOMAIN n /\ u[i] = n[i - Len(s)])
    BY <1>1
  <1> HIDE DEF u
  <1>5. ASSUME NEW q PROVE Ran(q) = {q[i].task : i \in {j \in DOMAIN q : Is(q[j])}} BY DEF Ran, At
  <1>6. Ran(u) \subseteq Ran(s) \cup Ran(n) BY <1>4, <1>5
  <1>7. Ran(s) \subseteq Ran(u) BY <1>2, <1>5
  <1>8. Ran(n) \subseteq Ran(u) BY <1>3, <1>5
  <1>9. Ran(u) = Ran(s) \cup Ran(n) BY <1>6, <1>7, <1>8
  <1> QED BY <1>9 DEF u

\* Steps that end no task tell of none executed, and the end of a task of one if it was.
LEMMA RanOf ==
    /\ \A n \in Seq(Chats) : Ran(n) = {}
    /\ \A e \in RunSteps : Ran(<<e>>) = {}
    /\ \A t \in AllTasks, v \in {"OK", "FAIL"}, type \in Types :
            Ran(<<Ended(t, type, v)>>) = IF type = "EXECUTED" THEN {t} ELSE {}
  <1>1. ASSUME NEW n \in Seq(Chats) PROVE Ran(n) = {}
    BY StepKinds DEF Ran, At, TaskStepNames
  <1>2. ASSUME NEW e \in RunSteps PROVE Ran(<<e>>) = {}
    BY StepKinds DEF Ran, At
  <1>3. ASSUME NEW t \in AllTasks, NEW v \in {"OK", "FAIL"}, NEW type \in Types
        PROVE  Ran(<<Ended(t, type, v)>>) = IF type = "EXECUTED" THEN {t} ELSE {}
    <2> DEFINE e == Ended(t, type, v)
    <2>1. e.step = "TASK_ENDED" /\ e.type = type /\ e.task = t BY DEF Ended
    <2> HIDE DEF e
    <2>2. DOMAIN <<e>> = {1} /\ <<e>>[1] = e OBVIOUS
    <2>3. At(<<e>>, "TASK_ENDED") = {1} BY <2>1, <2>2 DEF At
    <2>4. {j \in At(<<e>>, "TASK_ENDED") : <<e>>[j].type = "EXECUTED"} = IF type = "EXECUTED" THEN {1} ELSE {}
      BY <2>1, <2>2, <2>3
    <2>5. Ran(<<e>>) = {<<e>>[i].task : i \in (IF type = "EXECUTED" THEN {1} ELSE {})} BY <2>4 DEF Ran
    <2> QED BY <2>1, <2>2, <2>5 DEF e
  <1> QED BY <1>1, <1>2, <1>3

\* What was executed has ended.
LEMMA RanIsDone ==
    ASSUME NEW s, NEW done, Told(s, done) PROVE Ran(s) \subseteq done
  <1> SUFFICES ASSUME NEW i \in At(s, "TASK_ENDED") PROVE s[i].task \in done BY DEF Ran
  <1>1. i \in DOMAIN s /\ s[i].step = "TASK_ENDED" /\ DOMAIN s = 1 .. Len(s) BY DEF At, Told
  <1>2. i # 1 /\ i # 2
    <2>1. s[1].step = "BUILD_RUN_STARTED" /\ s[2].step = "PLAN_PREPARED" BY StepKinds DEF Told
    <2> QED BY <1>1, <2>1
  <1>3. i \in 3 .. Len(s) BY <1>1, <1>2 DEF Told
  <1>4. s[i] \in AllSteps BY <1>1 DEF Told
  <1>5. s[i] \in EndSteps BY <1>1, <1>4, Kinds
  <1> QED BY <1>3, <1>5 DEF Told

\* One more element at the end of an order of a set is an order of the larger set.
LEMMA OrderGrows ==
    ASSUME NEW S, IsFiniteSet(S), NEW e, e \notin S, NEW order \in SetToSeqs(S)
    PROVE  Append(order, e) \in SetToSeqs(S \cup {e}) /\ order \in Seq(S) /\ DOMAIN order = 1 .. Len(order)
  <1> DEFINE k == Cardinality(S)
             longer == Append(order, e)
  <1>1. k \in Nat /\ Cardinality(S \cup {e}) = k + 1 BY FS_AddElement, FS_CardinalityType
  <1>2. order \in [1 .. k -> S] /\ \A i, j \in 1 .. k : i # j => order[i] # order[j] BY DEF SetToSeqs
  <1>3. order \in Seq(S) /\ Len(order) = k BY <1>1, <1>2
  <1>4. DOMAIN longer = 1 .. k + 1 /\ longer[k + 1] = e /\ \A i \in 1 .. k : longer[i] = order[i] BY <1>3
  <1>a. longer = [i \in DOMAIN longer |-> longer[i]]
    <2>1. longer \in Seq(S \cup {e})
      <3>1. order \in Seq(S \cup {e}) BY <1>2, <1>3
      <3> QED BY <3>1
    <2> HIDE DEF longer
    <2> QED BY <2>1
  <1> HIDE DEF longer
  <1>5. longer \in [1 .. k + 1 -> S \cup {e}]
    <2>1. \A i \in 1 .. k + 1 : i \in 1 .. k \/ i = k + 1 BY <1>1
    <2>2. \A i \in 1 .. k + 1 : longer[i] \in S \cup {e} BY <1>2, <1>4, <2>1
    <2> QED BY <1>4, <1>a, <2>2
  <1>6. \A i, j \in 1 .. k + 1 : i # j => longer[i] # longer[j]
    <2>1. \A i \in 1 .. k + 1 : i \in 1 .. k \/ i = k + 1 BY <1>1
    <2>2. \A i \in 1 .. k : order[i] # e BY <1>2
    <2> QED BY <1>2, <1>4, <2>1, <2>2
  <1>7. longer \in SetToSeqs(S \cup {e}) BY <1>1, <1>5, <1>6 DEF SetToSeqs
  <1> QED BY <1>3, <1>7 DEF longer

\* What a task reports is added to what is collected.
LEMMA CollectedGrows ==
    ASSUME NEW r \in Runs, NEW t \in AllTasks, NEW outs, IsFiniteSet(outs), <<r, t>> \notin outs, NEW file,
           Collected(r, outs, file), outs \subseteq Runs \X AllTasks
    PROVE  Collected(r, outs \cup {<<r, t>>}, file \o Reported(r, t))
  <1> DEFINE told(list) == [i \in DOMAIN list |-> Reported(r, list[i][2])]
             X == Runs \X AllTasks \X {"tests", "output"}
             R == Seq(X)
  <1>1. PICK order \in SetToSeqs(outs) : file = FlattenSeq(told(order)) BY DEF Collected
  <1> DEFINE longer == Append(order, <<r, t>>)
  <1>2. /\ longer \in SetToSeqs(outs \cup {<<r, t>>}) /\ order \in Seq(outs)
        /\ DOMAIN order = 1 .. Len(order)
    BY OrderGrows
  <1>3. ASSUME NEW u \in AllTasks PROVE Reported(r, u) \in R
    <2>1. <<r, u, "tests">> \in X /\ <<r, u, "output">> \in X OBVIOUS
    <2> HIDE DEF X
    <2>2. <<<<r, u, "tests">>>> \in Seq(X) /\ <<<<r, u, "output">>>> \in Seq(X) /\ <<>> \in Seq(X) BY <2>1
    <2> QED BY <2>2 DEF Reported
  <1> HIDE DEF R
  <1>4. told(order) \in Seq(R) /\ Len(told(order)) = Len(order)
    <2>1. Len(order) \in Nat BY <1>2
    <2>2. \A i \in 1 .. Len(order) : order[i] \in Runs \X AllTasks BY <1>2
    <2>3. \A i \in 1 .. Len(order) : Reported(r, order[i][2]) \in R BY <1>3, <2>2
    <2> QED BY <1>2, <2>1, <2>3
  <1>5. told(longer) = Append(told(order), Reported(r, t))
    <2> DEFINE n == Len(order)
    <2>1. n \in Nat /\ DOMAIN longer = 1 .. n + 1 /\ longer[n + 1] = <<r, t>> /\ \A i \in 1 .. n : longer[i] = order[i]
      BY <1>2
    <2> HIDE DEF longer
    <2>2. \A i \in 1 .. n : told(order)[i] = Reported(r, order[i][2]) BY <1>2
    <2>3. told(longer) = [i \in 1 .. n + 1 |-> IF i = n + 1 THEN Reported(r, t) ELSE told(order)[i]]
      <3>1. \A i \in 1 .. n + 1 : i \in 1 .. n \/ i = n + 1 BY <2>1
      <3>2. \A i \in 1 .. n + 1 : Reported(r, longer[i][2]) = IF i = n + 1 THEN Reported(r, t) ELSE told(order)[i]
        BY <2>1, <2>2, <3>1
      <3> QED BY <2>1, <3>2
    <2> DEFINE a == told(order)
               b == Reported(r, t)
    <2>4. a \in Seq(R) /\ Len(a) = n /\ b \in R BY <1>3, <1>4
    <2> HIDE DEF told, a, b
    <2>5. Append(a, b) = [i \in 1 .. n + 1 |-> IF i = n + 1 THEN b ELSE a[i]]
      <3>1. Append(a, b) \in Seq(R) /\ Len(Append(a, b)) = n + 1 BY <2>1, <2>4
      <3>2. \A i \in 1 .. n + 1 : Append(a, b)[i] = IF i = n + 1 THEN b ELSE a[i] BY <2>1, <2>4
      <3>3. \A s \in Seq(R) : s = [i \in 1 .. Len(s) |-> s[i]] OBVIOUS
      <3> QED BY <3>1, <3>2, <3>3
    <2>6. Append(told(order), Reported(r, t))
            = [i \in 1 .. n + 1 |-> IF i = n + 1 THEN Reported(r, t) ELSE told(order)[i]]
      BY <2>5 DEF a, b
    <2> QED BY <2>3, <2>6
  <1> HIDE DEF told, longer
  <1>6. FlattenSeq(told(longer)) = FlattenSeq(told(order)) \o Reported(r, t)
    BY <1>3, <1>4, <1>5, FlattenGrows DEF R
  <1>7. Collected(r, outs \cup {<<r, t>>}, file \o Reported(r, t))
    BY <1>1, <1>2, <1>6 DEF Collected, told, longer
  <1> QED BY <1>7
\* A step that writes no outputs leaves them right, if the account tells of no other task that reported.
LEMMA OutsSame ==
    ASSUME NEW r \in Runs, Outs(r), UNCHANGED <<outputs, allTests>>, Unused(r)' => Unused(r),
           Filled(r)' => /\ Filled(r)
                         /\ Ran(steps'[r]) \cup Reporting(r)' = Ran(steps[r]) \cup Reporting(r)
    PROVE  Outs(r)'
  <1> HIDE DEF Unused, Filled, Ran, Reporting
  <1>1. Unused(r)' => outputs' = {} /\ allTests' = <<>> BY DEF Outs
  <1>2. ASSUME Filled(r)'
        PROVE  /\ outputs' = {<<r, t>> : t \in Ran(steps'[r]) \cup Reporting(r)'}
               /\ Collected(r, outputs', allTests')
    BY <1>2 DEF Outs
  <1> QED BY <1>1, <1>2 DEF Outs

\* Runs that are left alone keep their outputs.
LEMMA OutsKept ==
    ASSUME NEW q \in Runs, Kept(q), plan' = plan, Outs(q), UNCHANGED <<outputs, allTests>> PROVE Outs(q)'
  <1>1. /\ (Unused(q)' <=> Unused(q)) /\ (Filled(q)' <=> Filled(q))
        /\ steps'[q] = steps[q] /\ Reporting(q)' = Reporting(q)
    BY DEF Kept, Unused, Filled, Over, Reporting
  <1> QED BY <1>1, OutsSame

\* A step of one run that writes no outputs keeps them all right if it does its own.
LEMMA OneStepOuts ==
    ASSUME OutputsInv, NEW r \in Runs, OfRun(r), UNCHANGED <<outputs, allTests, together>>, Outs(r) => Outs(r)'
    PROVE  OutputsInv'
  <1>1. plan' = plan /\ \A q \in Runs \ {r} : Kept(q) BY DEF OfRun
  <1>2. ASSUME ~together', NEW q \in Runs PROVE Outs(q)'
    <2>1. \A p \in Runs : Outs(p) BY <1>2 DEF OutputsInv
    <2>2. CASE q = r BY <2>1, <2>2
    <2>3. CASE q # r BY <1>1, <2>1, <2>3, OutsKept
    <2> QED BY <2>2, <2>3
  <1> QED BY <1>2 DEF OutputsInv

\* A step of a task that writes no outputs keeps those of its run right.
LEMMA TaskOuts ==
    ASSUME TypeInv, NEW r \in Runs, NEW t \in plan[r], Local(r), Outs(r), pc[r] \in {"execute", "returning"},
           task[r][t] # "ended", NEW n \in Seq(TaskSteps), steps'[r] = steps[r] \o n,
           UNCHANGED <<outputs, allTests>>,
           \/ pc'[r] = "returning"
           \/ /\ pc'[r] = pc[r]
              /\ Ran(n) \cup Reporting(r)' \subseteq Ran(steps[r]) \cup Reporting(r)
              /\ Reporting(r) \subseteq Ran(n) \cup Reporting(r)'
    PROVE  Outs(r)'
  <1>1. steps[r] \in Seq(AllSteps) /\ n \in Seq(AllSteps) BY TaskStepsAreSteps DEF TypeInv
  <1>2. ~Over(r) BY Unfinished
  <1>3. ~Over(r)' BY <1>1, <1>2, NotOverYet DEF Over
  <1>4. ~Unused(r)' BY PcKinds DEF Unused
  <1>5. CASE pc'[r] = "returning"
    <2>1. ~Filled(r)' BY <1>3, <1>5 DEF Filled
    <2> QED BY <1>4, <2>1, OutsSame
  <1>6. CASE /\ pc'[r] = pc[r]
             /\ Ran(n) \cup Reporting(r)' \subseteq Ran(steps[r]) \cup Reporting(r)
             /\ Reporting(r) \subseteq Ran(n) \cup Reporting(r)'
    <2>1. Filled(r)' => Filled(r) BY <1>3, <1>6 DEF Filled
    <2>2. Ran(steps'[r]) = Ran(steps[r]) \cup Ran(n) BY <1>1, RanGrows
    <2>3. Ran(steps'[r]) \cup Reporting(r)' = Ran(steps[r]) \cup Reporting(r) BY <1>6, <2>2
    <2> QED BY <1>4, <2>1, <2>3, OutsSame
  <1> QED BY <1>5, <1>6

\* A task that ends keeps the outputs of its run right.
LEMMA TaskEndedOuts ==
    ASSUME TypeInv, NEW r \in Runs, NEW t \in plan[r], Local(r), Outs(r), pc[r] \in {"execute", "returning"},
           NEW type \in Types, NEW v \in {"OK", "FAIL"}, Fits(r, t, type, v),
           NEW before \in Seq(Chats), TaskEnded(r, t, before, type, v), plan' = plan,
           UNCHANGED <<outputs, allTests>>
    PROVE  Outs(r)'
  <1>1. TaskEndedQuietly(r, t, before, type, v) \/ TaskEndedBadly(r) BY EndForms
  <1>2. task[r][t] # "ended" BY DEF Fits
  <1>3. CASE TaskEndedBadly(r)
    <2>1. PICK n \in Seq(TaskSteps) : Transmit(r, n, TRUE, TRUE) BY <1>3 DEF TaskEndedBadly
    <2>2. n \in Seq(AllSteps) BY TaskStepsAreSteps
    <2>3. steps'[r] = steps[r] \o n BY <2>1, <2>2, TransmitType
    <2>4. pc'[r] = "returning" BY <1>3, FailsType DEF TaskEndedBadly
    <2> QED BY <1>2, <2>3, <2>4, TaskOuts
  <1>4. CASE TaskEndedQuietly(r, t, before, type, v)
    <2> DEFINE e == Ended(t, type, v)
               n == before \o <<e>>
    <2>0. t \in AllTasks BY DEF TypeInv
    <2>1. e \in EndSteps BY <2>0, StepKinds
    <2>2. Ran(<<e>>) = IF type = "EXECUTED" THEN {t} ELSE {} BY <2>0, RanOf
    <2> HIDE DEF e
    <2>3. n \in Seq(TaskSteps)
      <3>1. \A i \in 1 .. Len(before) : before[i] \in TaskSteps BY DEF TaskSteps
      <3>2. before \in Seq(TaskSteps) BY <3>1
      <3>3. e \in TaskSteps BY <2>1 DEF TaskSteps
      <3> QED BY <3>2, <3>3
    <2>4. n \in Seq(AllSteps) /\ before \in Seq(AllSteps) /\ <<e>> \in Seq(AllSteps)
      BY <2>1, <2>3, TaskStepsAreSteps, ChatsAreSteps, OneStep DEF AllSteps
    <2>5. steps'[r] = steps[r] \o n BY <1>4, <2>4, TransmitType DEF TaskEndedQuietly, e
    <2>6. Ran(n) = IF type = "EXECUTED" THEN {t} ELSE {}
      <3>1. Ran(n) = Ran(before) \cup Ran(<<e>>) BY <2>4, RanGrows
      <3>2. Ran(before) = {} BY RanOf
      <3> QED BY <2>2, <3>1, <3>2
    <2>7. pc'[r] = pc[r] BY <1>4 DEF TaskEndedQuietly
    <2>8. \A u \in plan[r] : task'[r][u] = IF u = t THEN "ended" ELSE task[r][u] BY DEF TaskEnded, TypeInv
    <2>9. Reporting(r)' = Reporting(r) \ {t} /\ (t \in Reporting(r) <=> type = "EXECUTED")
      BY <2>8 DEF Reporting, Fits
    <2> HIDE DEF n
    <2>10. /\ Ran(n) \cup Reporting(r)' \subseteq Ran(steps[r]) \cup Reporting(r)
           /\ Reporting(r) \subseteq Ran(n) \cup Reporting(r)'
      BY <2>6, <2>9
    <2> QED BY <1>2, <2>3, <2>5, <2>7, <2>10, TaskOuts
  <1> QED BY <1>1, <1>3, <1>4

\* TaskBegins writes no output.
LEMMA TaskBeginsOuts ==
    ASSUME TypeInv, NEW r \in Runs, NEW t \in AllTasks, Local(r), Outs(r), TaskBegins(r, t) PROVE Outs(r)'
  <1> DEFINE e == StoreStep("RESTORED", t)
  <1>1. /\ t \in plan[r] /\ plan' = plan /\ UNCHANGED <<outputs, allTests>>
        /\ pc[r] = "execute" /\ task[r][t] = "waiting"
    BY DEF TaskBegins, fileVars
  <1>2. e \in Chats BY StepKinds DEF StoreStep, TaskStepNames
  <1> HIDE DEF e
  <1>3. <<e>> \in Seq(Chats) /\ <<>> \in Seq(Chats) BY <1>2
  <1>5. CASE TaskEnded(r, t, <<>>, "CANNOT_START", "FAIL")
    <2>1. Fits(r, t, "CANNOT_START", "FAIL") /\ "CANNOT_START" \in Types BY <1>1 DEF Fits, Types
    <2> QED BY <1>1, <1>3, <1>5, <2>1, TaskEndedOuts
  <1>6. CASE TaskEnded(r, t, <<e>>, "CACHED", "OK")
    <2>1. Fits(r, t, "CACHED", "OK") /\ "CACHED" \in Types BY <1>1 DEF Fits, Types
    <2> QED BY <1>1, <1>3, <1>6, <2>1, TaskEndedOuts
  <1>7. CASE /\ task' = [task EXCEPT ![r][t] = "executing"]
             /\ \E failed \in {FALSE, (t \in Retried)} :
                    Transmit(r, IF failed THEN <<e>> ELSE <<>>, FALSE, TRUE)
             /\ UNCHANGED <<pc, outcome, verdict>>
    <2>1. PICK n \in {<<e>>, <<>>} : Transmit(r, n, FALSE, TRUE) BY <1>7
    <2>2. n \in Seq(Chats) BY <1>3, Zenon
    <2>3. n \in Seq(AllSteps) BY <2>2, ChatsAreSteps
    <2>4. n \in Seq(TaskSteps)
      <3>1. \A i \in 1 .. Len(n) : n[i] \in TaskSteps BY <2>2 DEF TaskSteps
      <3> QED BY <2>2, <3>1
    <2>5. steps'[r] = steps[r] \o n BY <2>1, <2>3, TransmitType
    <2>6. Ran(n) = {} BY <2>2, RanOf
    <2>7. \A u \in plan[r] : task'[r][u] = IF u = t THEN "executing" ELSE task[r][u] BY <1>1, <1>7 DEF TypeInv
    <2>8. Reporting(r)' = Reporting(r) BY <1>1, <2>7 DEF Reporting
    <2>9. pc'[r] = pc[r] BY <1>7
    <2> QED BY <1>1, <2>4, <2>5, <2>6, <2>8, <2>9, TaskOuts
  <1> QED BY <1>5, <1>6, <1>7 DEF TaskBegins, e

\* TaskEnds writes no output.
LEMMA TaskEndsOuts ==
    ASSUME TypeInv, NEW r \in Runs, NEW t \in AllTasks, Local(r), Outs(r), TaskEnds(r, t) PROVE Outs(r)'
  <1> DEFINE e == StoreStep("RECORDED", t)
  <1>1. /\ t \in plan[r] /\ plan' = plan /\ UNCHANGED <<outputs, allTests>>
        /\ pc[r] \in {"execute", "returning"} /\ task[r][t] = "reported"
    BY DEF TaskEnds, InFlight, fileVars
  <1>2. e \in Chats BY StepKinds DEF StoreStep, TaskStepNames
  <1>3. <<e>> \in Seq(Chats)
    <2> HIDE DEF e
    <2> QED BY <1>2
  <1>4. PICK v \in {"OK", "FAIL"} : TaskEnded(r, t, <<e>>, "EXECUTED", v) BY DEF TaskEnds
  <1>5. Fits(r, t, "EXECUTED", v) /\ "EXECUTED" \in Types BY <1>1 DEF Fits, Types
  <1> HIDE DEF e
  <1> QED BY <1>1, <1>3, <1>4, <1>5, TaskEndedOuts

\* A task that crashes ends the claim.
LEMMA TaskCrashesOuts ==
    ASSUME TypeInv, NEW r \in Runs, NEW t \in AllTasks, Local(r), Outs(r), TaskCrashes(r, t) PROVE Outs(r)'
  <1>1. PICK type \in {"UNKNOWN", "EXECUTED"} : Transmit(r, <<Ended(t, type, "CRASH")>>, FALSE, TRUE)
    BY DEF TaskCrashes
  <1>2. Ended(t, type, "CRASH") \in TaskSteps BY StepKinds DEF TaskSteps, Types
  <1>3. <<Ended(t, type, "CRASH")>> \in Seq(TaskSteps) BY <1>2
  <1>4. <<Ended(t, type, "CRASH")>> \in Seq(AllSteps) BY <1>3, TaskStepsAreSteps
  <1>5. steps'[r] = steps[r] \o <<Ended(t, type, "CRASH")>> BY <1>1, <1>4, TransmitType
  <1>6. /\ t \in plan[r] /\ UNCHANGED <<outputs, allTests>>
        /\ pc[r] \in {"execute", "returning"} /\ task[r][t] # "ended"
    BY DEF TaskCrashes, InFlight, fileVars
  <1>7. pc'[r] = "returning" BY FailsType DEF TaskCrashes, CrashOutcomes
  <1> QED BY <1>3, <1>5, <1>6, <1>7, TaskOuts

\* What a task reports is added to the outputs.
LEMMA TaskReportsOuts ==
    ASSUME TypeInv, NEW r \in Runs, NEW t \in AllTasks, Local(r), Outs(r), TaskReports(r, t) PROVE Outs(r)'
  <1> DEFINE n == Published(t)
  <1>1. /\ t \in plan[r] /\ UNCHANGED <<plan, pc>>
        /\ pc[r] \in {"execute", "returning"} /\ task[r][t] = "executing"
        /\ task' = [task EXCEPT ![r][t] = "reported"]
        /\ outputs' = outputs \cup {<<r, t>>} /\ allTests' = allTests \o Reported(r, t)
    BY DEF TaskReports, InFlight
  <1>2. n \in Seq(Chats) BY PublishedChats
  <1>3. PICK throws \in BOOLEAN : Transmit(r, n, throws, FALSE) BY DEF TaskReports
  <1> HIDE DEF n
  <1>4. n \in Seq(AllSteps) BY <1>2, ChatsAreSteps
  <1>5. n \in Seq(TaskSteps)
    <2>1. \A i \in 1 .. Len(n) : n[i] \in TaskSteps BY <1>2 DEF TaskSteps
    <2> QED BY <1>2, <2>1
  <1>6. steps'[r] = steps[r] \o n BY <1>3, <1>4, TransmitType
  <1>7. ~Over(r)
    <2>1. task[r][t] # "ended" BY <1>1
    <2> QED BY <1>1, <2>1, Unfinished
  <1>8. steps[r] \in Seq(AllSteps) BY DEF TypeInv
  <1>9. ~Over(r)' BY <1>4, <1>5, <1>6, <1>7, <1>8, NotOverYet DEF Over
  <1>10. ~Unused(r)' BY <1>1, PcKinds DEF Unused
  <1>11. ASSUME Filled(r)'
         PROVE  /\ outputs' = {<<r, u>> : u \in Ran(steps'[r]) \cup Reporting(r)'}
                /\ Collected(r, outputs', allTests')
    <2>1. pc[r] = "execute" BY <1>1, <1>9, <1>11 DEF Filled
    <2>2. /\ outputs = {<<r, u>> : u \in Ran(steps[r]) \cup Reporting(r)}
          /\ Collected(r, outputs, allTests)
      BY <2>1 DEF Outs, Filled
    <2>3. \A u \in plan[r] : task'[r][u] = IF u = t THEN "reported" ELSE task[r][u] BY <1>1 DEF TypeInv
    <2>4. Reporting(r)' = Reporting(r) \cup {t} /\ t \notin Reporting(r) BY <1>1, <2>3 DEF Reporting
    <2>5. Ran(steps'[r]) = Ran(steps[r])
      <3>1. Ran(steps[r] \o n) = Ran(steps[r]) \cup Ran(n) BY <1>4, <1>8, RanGrows
      <3>2. Ran(n) = {} BY <1>2, RanOf
      <3> QED BY <1>6, <3>1, <3>2
    <2>6. Ran(steps[r]) \subseteq Done(r)
      <3>1. Told(steps[r], Done(r)) BY <2>1 DEF Local
      <3> QED BY <3>1, RanIsDone
    <2>7. t \notin Ran(steps[r]) BY <1>1, <2>6 DEF Done
    <2> DEFINE T == Ran(steps[r]) \cup Reporting(r)
    <2>8. T \subseteq plan[r] /\ t \notin T BY <2>4, <2>6, <2>7 DEF Done, Reporting
    <2>9. outputs = {<<r, u>> : u \in T} BY <2>2
    <2>10. outputs' = {<<r, u>> : u \in Ran(steps'[r]) \cup Reporting(r)'} BY <1>1, <2>4, <2>5, <2>9
    <2> HIDE DEF T
    <2>11. IsFiniteSet(outputs)
      <3>1. IsFiniteSet(plan[r]) BY FinitePlan
      <3>2. IsFiniteSet(T) BY <2>8, <3>1, FS_Subset
      <3>3. IsFiniteSet({r} \X T) BY <3>2, FS_Singleton, FS_Product
      <3>4. outputs \subseteq {r} \X T BY <2>9
      <3> QED BY <3>3, <3>4, FS_Subset
    <2>12. <<r, t>> \notin outputs BY <2>8, <2>9
    <2>13. outputs \subseteq Runs \X AllTasks BY <2>8, <2>9 DEF TypeInv
    <2>14. Collected(r, outputs', allTests') BY <1>1, <2>2, <2>11, <2>12, <2>13, CollectedGrows
    <2> QED BY <2>10, <2>14
  <1> HIDE DEF Unused, Filled, Ran, Reporting
  <1> QED BY <1>10, <1>11 DEF Outs
\* What a run does before its plan is prepared writes no output.
LEMMA EarlyOuts ==
    ASSUME TypeInv, NEW r \in Runs, Local(r), Outs(r),
           InitConfig(r) \/ GenerateTsConfig(r) \/ MakeEngine(r) \/ RunStarted(r) \/ UpdateRun(r) \/ Prepare(r)
    PROVE  Outs(r)'
  <1> DEFINE e == Step("BUILD_RUN_STARTED")
  <1>1. UNCHANGED <<outputs, allTests>>
    BY DEF InitConfig, GenerateTsConfig, MakeEngine, RunStarted, UpdateRun, Prepare, fileVars
  <1>2. CASE InitConfig(r) \/ GenerateTsConfig(r)
    <2>1. pc'[r] = "gone" BY <1>2 DEF InitConfig, GenerateTsConfig, Goto, TypeInv
    <2>2. ~Unused(r)' /\ ~Filled(r)' BY <2>1, PcKinds DEF Unused, Filled
    <2> QED BY <1>1, <2>2, OutsSame
  <1>3. CASE MakeEngine(r)
    <2>1. pc[r] \in Builds /\ pc'[r] \in {"gone", "started"} BY <1>3 DEF MakeEngine, Goto, TypeInv
    <2>2. Unused(r) BY <2>1 DEF Unused
    <2>3. ~Filled(r)' BY <2>1 DEF Filled
    <2> QED BY <1>1, <2>2, <2>3, OutsSame
  <1>4. CASE RunStarted(r)
    <2>1. pc[r] = "started" /\ pc'[r] \in {"ledger", "returning"} BY <1>4 DEF RunStarted, Ends, Goto, TypeInv
    <2>2. <<e>> \in Seq(AllSteps) BY StepKinds, OneStep DEF AllSteps
    <2>3. steps[r] = <<>> BY <2>1, PcKinds DEF Local
    <2>4. PICK throws \in BOOLEAN : Transmit(r, <<e>>, throws, TRUE) BY <1>4 DEF RunStarted
    <2>5. steps'[r] = steps[r] \o <<e>> BY <2>2, <2>4, TransmitType
    <2>6. steps'[r] = <<e>> BY <2>2, <2>3, <2>5
    <2>7. ~Over(r)' BY <2>6, NoStepsYet DEF Over
    <2>8. Unused(r) /\ ~Filled(r)' BY <2>1, <2>7 DEF Unused, Filled
    <2> QED BY <1>1, <2>8, OutsSame
  <1>5. CASE UpdateRun(r) \/ Prepare(r)
    <2>1. /\ pc[r] \in {"ledger", "initialize"} /\ pc'[r] \in {"initialize", "plan", "returning"}
          /\ steps'[r] = steps[r]
      BY <1>5 DEF UpdateRun, Prepare, Ends, Goto, TypeInv
    <2>2. steps[r] = <<e>> BY <2>1, PcKinds DEF Local, Begun
    <2>3. ~Over(r)' BY <2>1, <2>2, NoStepsYet DEF Over
    <2>4. Unused(r) /\ ~Filled(r)' BY <2>1, <2>3 DEF Unused, Filled, Begun
    <2> QED BY <1>1, <2>4, OutsSame
  <1> QED BY <1>2, <1>3, <1>4, <1>5

\* When the execution begins there are no outputs and none are to be there.
LEMMA PlanPreparedOuts ==
    ASSUME TypeInv, NEW r \in Runs, Local(r), Outs(r), PlanPrepared(r) PROVE Outs(r)'
  <1> DEFINE e == Step("PLAN_PREPARED")
             b == Step("BUILD_RUN_STARTED")
  <1>1. /\ pc[r] = "plan" /\ pc'[r] \in {"execute", "returning"}
        /\ UNCHANGED <<outputs, allTests, plan, task>>
    BY DEF PlanPrepared, Ends, Goto, TypeInv, fileVars
  <1>2. <<e>> \in Seq(AllSteps) /\ <<b>> \in Seq(AllSteps) BY StepKinds, OneStep DEF AllSteps
  <1>3. PICK throws \in BOOLEAN : Transmit(r, <<e>>, throws, TRUE) BY DEF PlanPrepared
  <1>4. steps'[r] = steps[r] \o <<e>> BY <1>2, <1>3, TransmitType
  <1>5. pc[r] \in Begun BY <1>1 DEF Begun
  <1>6. steps[r] = <<b>> /\ Fresh(r) BY <1>5, PcKinds DEF Local
  <1>7. Told(steps'[r], {}) BY <1>4, <1>6, ToldBegins
  <1>8. ~Over(r)' BY <1>7, NotOverToldYet DEF Over
  <1>9. Ran(steps'[r]) = {} BY <1>7, RanIsDone
  <1>10. Reporting(r)' = {} BY <1>1, <1>6 DEF Reporting, Fresh
  <1>11. outputs = {} /\ allTests = <<>> BY <1>5 DEF Outs, Unused
  <1>12. ~Unused(r)' BY <1>1, PcKinds DEF Unused
  <1>13. Collected(r, {}, <<>>)
    <2>1. <<>> \in SetToSeqs({})
      <3>1. Cardinality({}) = 0 BY FS_EmptySet
      <3>2. 1 .. 0 = {} /\ <<>> \in [{} -> {}] OBVIOUS
      <3> QED BY <3>1, <3>2 DEF SetToSeqs
    <2>2. [i \in DOMAIN <<>> |-> Reported(r, <<>>[i][2])] = <<>> OBVIOUS
    <2>3. FlattenSeq(<<>>) = <<>> BY DEF FlattenSeq
    <2> QED BY <2>1, <2>2, <2>3 DEF Collected
  <1>14. outputs' = {<<r, t>> : t \in Ran(steps'[r]) \cup Reporting(r)'} BY <1>1, <1>9, <1>10, <1>11
  <1> HIDE DEF Unused, Filled, Ran, Reporting
  <1> QED BY <1>1, <1>11, <1>12, <1>13, <1>14 DEF Outs

\* The end of the execution is no output.
LEMMA RunEndedOuts ==
    ASSUME TypeInv, NEW r \in Runs, Local(r), Outs(r), RunEnded(r) PROVE Outs(r)'
  <1> DEFINE e == Step("BUILD_RUN_ENDED")
  <1>1. /\ pc[r] = "execute" /\ pc'[r] \in {"close", "returning"}
        /\ UNCHANGED <<outputs, allTests, plan, task>>
    BY DEF RunEnded, Ends, Goto, TypeInv, fileVars, engineVars
  <1>2. <<e>> \in Seq(AllSteps) /\ e \in RunSteps BY StepKinds, OneStep DEF AllSteps
  <1>3. PICK throws \in BOOLEAN : Transmit(r, <<e>>, throws, TRUE) BY DEF RunEnded
  <1>4. steps'[r] = steps[r] \o <<e>> BY <1>2, <1>3, TransmitType
  <1>5. steps[r] \in Seq(AllSteps) BY DEF TypeInv
  <1>6. Ran(steps'[r]) = Ran(steps[r])
    <2> HIDE DEF e
    <2>1. Ran(steps[r] \o <<e>>) = Ran(steps[r]) \cup Ran(<<e>>) BY <1>2, <1>5, RanGrows
    <2>2. Ran(<<e>>) = {} BY <1>2, RanOf
    <2> QED BY <1>4, <2>1, <2>2
  <1>7. Reporting(r)' = Reporting(r) BY <1>1 DEF Reporting
  <1>8. Filled(r) /\ ~Unused(r)' BY <1>1, PcKinds DEF Filled, Unused
  <1> QED BY <1>1, <1>6, <1>7, <1>8, OutsSame

\* The end of the build writes no output.
LEMMA ClosingOuts ==
    ASSUME TypeInv, NEW r \in Runs, Local(r), Outs(r),
           \/ LedgerReads(r) \/ LedgerTruncates(r) \/ LedgerWrites(r) \/ StepsClose(r) \/ Finish(r)
    PROVE  Outs(r)'
  <1>1. UNCHANGED <<outputs, allTests, plan, task, steps>>
    BY DEF LedgerReads, LedgerTruncates, LedgerWrites, StepsClose, Finish, fileVars, engineVars
  <1>2. pc[r] = "close" \/ closing[r] # {}
    BY DEF LedgerReads, LedgerTruncates, LedgerWrites, StepsClose, Finish
  <1>3. pc[r] \in {"close", "returning"} BY <1>2 DEF Local
  <1>4. pc'[r] = "returning" \/ pc'[r] = pc[r]
    <2>1. CASE LedgerReads(r) BY <2>1 DEF LedgerReads, Ends, Goto, TypeInv
    <2>2. CASE LedgerTruncates(r) BY <2>2 DEF LedgerTruncates
    <2>3. CASE LedgerWrites(r) BY <2>3 DEF LedgerWrites
    <2>4. CASE StepsClose(r) BY <2>4 DEF StepsClose, Ends, Goto, TypeInv
    <2>5. CASE Finish(r) BY <2>5 DEF Finish, Ends, Goto, TypeInv
    <2> QED BY <2>1, <2>2, <2>3, <2>4, <2>5
  <1>5. Filled(r)' => Filled(r) BY <1>1, <1>3, <1>4 DEF Filled, Over
  <1>6. ~Unused(r)' BY <1>3, <1>4, PcKinds DEF Unused
  <1>7. Reporting(r)' = Reporting(r) BY <1>1 DEF Reporting
  <1> QED BY <1>1, <1>5, <1>6, <1>7, OutsSame

\* A process that is gone makes no claim.
LEMMA GoneOuts ==
    ASSUME NEW r \in Runs, Outs(r), pc'[r] = "gone", UNCHANGED <<outputs, allTests>> PROVE Outs(r)'
  <1>1. ~Unused(r)' /\ ~Filled(r)' BY PcKinds DEF Unused, Filled
  <1> QED BY <1>1, OutsSame

\* What earlier runs left is removed.
LEMMA MakeBootstrapperOuts ==
    ASSUME TypeInv, NEW r \in Runs, OfRun(r), OutputsInv, MakeBootstrapper(r) PROVE OutputsInv'
  <1> SUFFICES ASSUME ~together', NEW q \in Runs PROVE Outs(q)' BY DEF OutputsInv
  <1>1. ~together /\ \A p \in Runs : ~Alive(p) BY DEF MakeBootstrapper
  <1>2. CASE q = r
    <2>1. CASE Goto(r, "gone") /\ UNCHANGED <<allTests, outputs>>
      <3>1. pc'[r] = "gone" BY <2>1 DEF Goto, TypeInv
      <3>2. ~Unused(r)' /\ ~Filled(r)' BY <3>1, PcKinds DEF Unused, Filled
      <3> QED BY <1>2, <3>2 DEF Outs
    <2>2. CASE Goto(r, command[r]) /\ outputs' = {} /\ allTests' = Wiped(allTests)
      <3>1. pc'[r] = command[r] /\ command[r] \in Builds \cup {"init-config", "generate-tsconfig"}
        BY <2>2 DEF Goto, TypeInv
      <3>2. ~Filled(r)' BY <3>1, PcKinds DEF Filled, Early
      <3> QED BY <1>2, <2>2, <3>2 DEF Outs, Wiped
    <2> QED BY <2>1, <2>2 DEF MakeBootstrapper
  <1>3. CASE q # r
    <2>1. Kept(q) BY <1>3 DEF OfRun
    <2>2. pc'[q] \in {"none", "gone"} BY <1>1, <2>1 DEF Kept, Alive
    <2>3. "none" \notin Builds \cup {"started"} \cup Begun /\ "gone" \notin Builds \cup {"started"} \cup Begun
      BY DEF Builds, Begun
    <2>4. ~Unused(q)' /\ ~Filled(q)' BY <2>2, <2>3 DEF Unused, Filled
    <2> QED BY <2>4 DEF Outs
  <1> QED BY <1>2, <1>3

\* The report of a task is that of the only run there is.
LEMMA TaskReportsAlone ==
    ASSUME Inv, NEW r \in Runs, NEW t \in AllTasks, OfRun(r), OutputsInv, TaskReports(r, t) PROVE OutputsInv'
  <1> SUFFICES ASSUME ~together', NEW q \in Runs PROVE Outs(q)' BY DEF OutputsInv
  <1>0. TypeInv /\ Local(r) /\ Shared BY DEF Inv
  <1>1. ~together /\ pc[r] \in {"execute", "returning"} BY DEF TaskReports, InFlight
  <1>2. Outs(r)' BY <1>0, <1>1, TaskReportsOuts DEF OutputsInv
  <1>3. CASE q # r
    <2>1. Kept(q) BY <1>3 DEF OfRun
    <2>2. ~Alive(q) BY <1>0, <1>1, <1>3 DEF Shared, Alive
    <2>3. pc'[q] \in {"none", "gone"} BY <2>1, <2>2 DEF Kept, Alive
    <2>4. "none" \notin Builds \cup {"started"} \cup Begun /\ "gone" \notin Builds \cup {"started"} \cup Begun
      BY DEF Builds, Begun
    <2>5. ~Unused(q)' /\ ~Filled(q)' BY <2>3, <2>4 DEF Unused, Filled
    <2> QED BY <2>5 DEF Outs
  <1> QED BY <1>2, <1>3

\* Every step keeps the outputs right.
LEMMA NextOuts == ASSUME Inv, OutputsInv, [Next]_vars PROVE OutputsInv'
  <1>0. TypeInv /\ Shared /\ \A r \in Runs : Local(r) BY DEF Inv
  <1>1. ASSUME NEW r \in Runs, MakeBootstrapper(r) PROVE OutputsInv'
    BY <1>0, <1>1, MakeBootstrapperOf, MakeBootstrapperOuts
  <1>2. ASSUME NEW r \in Runs,
               InitConfig(r) \/ GenerateTsConfig(r) \/ MakeEngine(r) \/ RunStarted(r) \/ UpdateRun(r) \/ Prepare(r)
        PROVE  OutputsInv'
    <2>1. OfRun(r)
      BY <1>0, <1>2, InitConfigOf, GenerateTsConfigOf, MakeEngineOf, RunStartedOf, UpdateRunOf, PrepareOf
    <2>2. UNCHANGED <<outputs, allTests, together>>
      BY <1>2 DEF InitConfig, GenerateTsConfig, MakeEngine, RunStarted, UpdateRun, Prepare, fileVars
    <2>3. Outs(r) => Outs(r)' BY <1>0, <1>2, EarlyOuts
    <2> QED BY <2>1, <2>2, <2>3, OneStepOuts
  <1>3. ASSUME NEW r \in Runs, PlanPrepared(r) \/ RunEnded(r) PROVE OutputsInv'
    <2>1. OfRun(r) BY <1>0, <1>3, PlanPreparedOf, RunEndedOf
    <2>2. UNCHANGED <<outputs, allTests, together>> BY <1>3 DEF PlanPrepared, RunEnded, fileVars
    <2>3. Outs(r) => Outs(r)' BY <1>0, <1>3, PlanPreparedOuts, RunEndedOuts
    <2> QED BY <2>1, <2>2, <2>3, OneStepOuts
  <1>4. ASSUME NEW r \in Runs, NEW t \in AllTasks, TaskReports(r, t) PROVE OutputsInv'
    BY <1>0, <1>4, TaskReportsOf, TaskReportsAlone
  <1>5. ASSUME NEW r \in Runs, NEW t \in AllTasks, TaskBegins(r, t) \/ TaskEnds(r, t) \/ TaskCrashes(r, t)
        PROVE  OutputsInv'
    <2>1. OfRun(r) BY <1>0, <1>5, TaskBeginsOf, TaskEndsOf, TaskCrashesOf
    <2>2. UNCHANGED <<outputs, allTests, together>> BY <1>5 DEF TaskBegins, TaskEnds, TaskCrashes, fileVars
    <2>3. Outs(r) => Outs(r)' BY <1>0, <1>5, TaskBeginsOuts, TaskEndsOuts, TaskCrashesOuts
    <2> QED BY <2>1, <2>2, <2>3, OneStepOuts
  <1>6. ASSUME NEW r \in Runs,
               \/ LedgerReads(r) \/ LedgerTruncates(r) \/ LedgerWrites(r) \/ StepsClose(r) \/ Finish(r)
        PROVE  OutputsInv'
    <2>1. OfRun(r)
      BY <1>0, <1>6, LedgerReadsOf, LedgerTruncatesOf, LedgerWritesOf, StepsCloseOf, FinishOf
    <2>2. UNCHANGED <<outputs, allTests, together>>
      BY <1>6 DEF LedgerReads, LedgerTruncates, LedgerWrites, StepsClose, Finish, fileVars
    <2>3. Outs(r) => Outs(r)' BY <1>0, <1>6, ClosingOuts
    <2> QED BY <2>1, <2>2, <2>3, OneStepOuts
  <1>7. ASSUME NEW r \in Runs, Exit(r) \/ UnhandledRejection(r) \/ Kill(r) PROVE OutputsInv'
    <2>1. OfRun(r) BY <1>0, <1>7, ExitOf, UnhandledRejectionOf, KillOf
    <2>2. UNCHANGED <<outputs, allTests, together>> /\ pc'[r] = "gone"
      BY <1>0, <1>7 DEF Exit, UnhandledRejection, Kill, Dies, Goto, TypeInv, fileVars
    <2>3. Outs(r) => Outs(r)' BY <2>2, GoneOuts
    <2> QED BY <2>1, <2>2, <2>3, OneStepOuts
  <1>8. CASE UNCHANGED vars
    <2>1. UNCHANGED <<outputs, allTests, together, plan, pc, outcome, exitCode, task, verdict, viz, steps,
                      rejected, closing>>
      BY <1>8 DEF vars, fileVars
    <2>2. \A q \in Runs : Kept(q) BY <2>1 DEF Kept
    <2>3. ASSUME ~together', NEW q \in Runs PROVE Outs(q)'
      <3>1. Outs(q) BY <2>1, <2>3 DEF OutputsInv
      <3> QED BY <2>1, <2>2, <3>1, OutsKept
    <2> QED BY <2>3 DEF OutputsInv
  <1> QED BY <1>1, <1>2, <1>3, <1>4, <1>5, <1>6, <1>7, <1>8 DEF Next, Progress

\* When a build that had the work space to itself is over, the outputs there are those
\* of the tasks it executed, each once, and no others (makeBootstrapper(), the
\* listener of executionEnded).
THEOREM OutputsAreRight == Spec => []OutputsAreThisBuilds
  <1>1. Init => OutputsInv
    <2> SUFFICES ASSUME Init, NEW r \in Runs PROVE Outs(r) BY DEF OutputsInv
    <2>1. pc[r] = "none" BY DEF Init
    <2>2. ~Unused(r) /\ ~Filled(r) BY <2>1 DEF Unused, Filled, Builds, Begun
    <2> QED BY <2>2 DEF Outs
  <1>2. Inv /\ OutputsInv /\ [Next]_vars => OutputsInv' BY NextOuts
  <1>3. Inv /\ OutputsInv => OutputsAreThisBuilds
    <2> SUFFICES ASSUME Inv, OutputsInv, NEW r \in Runs, Over(r), pc[r] \in {"close", "returning"}, ~together
                 PROVE  LET executed == {<<r, steps[r][i].task>> :
                                            i \in {j \in At(steps[r], "TASK_ENDED") : steps[r][j].type = "EXECUTED"}} IN
                        /\ outputs = executed
                        /\ \E order \in SetToSeqs(executed) :
                              allTests = FlattenSeq([i \in DOMAIN order |-> Reported(r, order[i][2])])
      BY DEF OutputsAreThisBuilds
    <2> DEFINE executed == {<<r, steps[r][i].task>> :
                              i \in {j \in At(steps[r], "TASK_ENDED") : steps[r][j].type = "EXECUTED"}}
    <2>1. Filled(r) BY DEF Filled
    <2>2. Outs(r) BY DEF OutputsInv
    <2>3. Done(r) = plan[r] BY DEF Inv, Local
    <2>4. Reporting(r) = {} BY <2>3 DEF Done, Reporting
    <2>5. outputs = {<<r, t>> : t \in Ran(steps[r])} /\ Collected(r, outputs, allTests)
      BY <2>1, <2>2, <2>4 DEF Outs
    <2>6. outputs = executed BY <2>5 DEF Ran
    <2> HIDE DEF executed
    <2>7. \E order \in SetToSeqs(executed) :
            allTests = FlattenSeq([i \in DOMAIN order |-> Reported(r, order[i][2])])
      BY <2>5, <2>6 DEF Collected
    <2> QED BY <2>6, <2>7 DEF executed
  <1> QED BY <1>1, <1>2, <1>3, Invariance, PTL DEF Spec

-----------------------------------------------------------------------------
(* The ledger                                                              *)

\* The sequence has the other one in it, in one piece.
Holds(s, x) == \E i \in 0 .. Len(s) : i + Len(x) <= Len(s) /\ SubSeq(s, i + 1, i + Len(x)) = x

\* A ledger with items of U, each once and none of these runs, that has all of these in it, each in one piece.
Good(s, U, waiting, whole) ==
    /\ s \in Seq(U) /\ IsInjective(s)
    /\ \A i \in DOMAIN s : s[i][1] \notin waiting
    /\ \A x \in whole : Holds(s, x)

\* A part of a sequence, by its elements.
LEMMA PartIs ==
    ASSUME NEW U, NEW s \in Seq(U), NEW i \in Nat, NEW n \in Nat, i + n <= Len(s)
    PROVE  SubSeq(s, i + 1, i + n) = [j \in 1 .. n |-> s[i + j]]
  <1>1. SubSeq(s, i + 1, i + n) = [j \in 1 .. n |-> s[(i + 1) + j - 1]] OBVIOUS
  <1>2. \A j \in 1 .. n : (i + 1) + j - 1 = i + j OBVIOUS
  <1> QED BY <1>1, <1>2

\* Every sequence has nothing in it.
LEMMA HoldsNothing == ASSUME NEW U, NEW s \in Seq(U) PROVE Holds(s, <<>>)
  <1>1. Len(s) \in Nat /\ Len(<<>>) = 0 /\ 0 \in 0 .. Len(s) /\ 0 + 0 <= Len(s) OBVIOUS
  <1>2. SubSeq(s, 0 + 1, 0 + 0) = [j \in 1 .. 0 |-> s[0 + j]] BY <1>1, PartIs
  <1>3. [j \in 1 .. 0 |-> s[0 + j]] = <<>> OBVIOUS
  <1> QED BY <1>1, <1>2, <1>3 DEF Holds

\* What is in a sequence stays in it when it grows.
LEMMA HoldsGrows ==
    ASSUME NEW U, NEW s \in Seq(U), NEW n \in Seq(U), NEW x \in Seq(U), Holds(s, x)
    PROVE  Holds(s \o n, x)
  <1> DEFINE u == s \o n
  <1>1. u \in Seq(U) /\ Len(u) = Len(s) + Len(n) /\ Len(s) \in Nat /\ Len(n) \in Nat /\ Len(x) \in Nat OBVIOUS
  <1>2. \A k \in 1 .. Len(s) : u[k] = s[k] OBVIOUS
  <1> HIDE DEF u
  <1>3. PICK i \in 0 .. Len(s) : i + Len(x) <= Len(s) /\ SubSeq(s, i + 1, i + Len(x)) = x BY DEF Holds
  <1>4. i \in Nat /\ i \in 0 .. Len(u) /\ i + Len(x) <= Len(u) BY <1>1, <1>3
  <1>5. SubSeq(s, i + 1, i + Len(x)) = [j \in 1 .. Len(x) |-> s[i + j]] BY <1>1, <1>3, <1>4, PartIs
  <1>6. SubSeq(u, i + 1, i + Len(x)) = [j \in 1 .. Len(x) |-> u[i + j]] BY <1>1, <1>4, PartIs
  <1>7. \A j \in 1 .. Len(x) : i + j \in 1 .. Len(s) BY <1>1, <1>3, <1>4
  <1>8. [j \in 1 .. Len(x) |-> s[i + j]] = [j \in 1 .. Len(x) |-> u[i + j]] BY <1>2, <1>7
  <1>9. Holds(u, x) BY <1>3, <1>4, <1>5, <1>6, <1>8 DEF Holds
  <1> QED BY <1>9 DEF u

\* What is put at the end of a sequence is in it.
LEMMA HoldsLast == ASSUME NEW U, NEW s \in Seq(U), NEW x \in Seq(U) PROVE Holds(s \o x, x)
  <1> DEFINE u == s \o x
             k == Len(s)
  <1>1. u \in Seq(U) /\ Len(u) = k + Len(x) /\ k \in Nat /\ Len(x) \in Nat /\ k \in 0 .. Len(u) OBVIOUS
  <1>2. \A j \in 1 .. Len(x) : u[k + j] = x[j] OBVIOUS
  <1>3. x = [j \in 1 .. Len(x) |-> x[j]] OBVIOUS
  <1> HIDE DEF u, k
  <1>4. SubSeq(u, k + 1, k + Len(x)) = [j \in 1 .. Len(x) |-> u[k + j]] BY <1>1, PartIs
  <1>5. [j \in 1 .. Len(x) |-> u[k + j]] = [j \in 1 .. Len(x) |-> x[j]] BY <1>2
  <1>6. SubSeq(u, k + 1, k + Len(x)) = x BY <1>3, <1>4, <1>5
  <1>7. k + Len(x) <= Len(u) BY <1>1
  <1>8. Holds(u, x) BY <1>1, <1>6, <1>7 DEF Holds
  <1> QED BY <1>8 DEF u

\* A ledger is good enough for more items, fewer runs that wait and fewer that are whole.
LEMMA GoodWeakens ==
    ASSUME NEW s, NEW U, NEW W, NEW D, Good(s, U, W, D), NEW U2, NEW W2, NEW D2, U \subseteq U2, W2 \subseteq W,
           D2 \subseteq D \cup {<<>>}
    PROVE  Good(s, U2, W2, D2)
  <1>1. s \in Seq(U2)
    <2>1. \A i \in 1 .. Len(s) : s[i] \in U2 BY DEF Good
    <2>2. Len(s) \in Nat /\ s = [i \in 1 .. Len(s) |-> s[i]] BY DEF Good
    <2> QED BY <2>1, <2>2
  <1>2. \A x \in D2 : Holds(s, x) BY <1>1, HoldsNothing DEF Good
  <1> QED BY <1>1, <1>2 DEF Good

\* With the items of a run that was waiting a ledger stays good, and has them in it.
LEMMA GoodGrows ==
    ASSUME NEW s, NEW U, NEW W, NEW D, Good(s, U, W, D), NEW r \in W, NEW x \in Seq(U), IsInjective(x),
           \A i \in DOMAIN x : x[i][1] = r, D \subseteq Seq(U)
    PROVE  Good(s \o x, U, W \ {r}, D \cup {x})
  <1> DEFINE u == s \o x
  <1>1. /\ s \in Seq(U) /\ u \in Seq(U) /\ DOMAIN u = 1 .. Len(u) /\ Len(u) = Len(s) + Len(x)
        /\ Len(s) \in Nat /\ Len(x) \in Nat
    BY DEF Good
  <1>2. \A i \in DOMAIN u : (i \in DOMAIN s /\ u[i] = s[i]) \/ (i - Len(s) \in DOMAIN x /\ u[i] = x[i - Len(s)])
    BY <1>1
  <1>3. \A d \in D \cup {x} : Holds(u, d) BY <1>1, HoldsGrows, HoldsLast DEF Good
  <1>a. DOMAIN u \subseteq Int BY <1>1
  <1> HIDE DEF u
  <1>4. \A i \in DOMAIN s : s[i][1] # r BY DEF Good
  <1>5. \A i, j \in DOMAIN u : u[i] = u[j] => i = j
    <2> SUFFICES ASSUME NEW i \in DOMAIN u, NEW j \in DOMAIN u, u[i] = u[j] PROVE i = j OBVIOUS
    <2>1. CASE i \in DOMAIN s /\ u[i] = s[i] /\ j \in DOMAIN s /\ u[j] = s[j] BY <2>1 DEF Good, IsInjective
    <2>2. CASE i - Len(s) \in DOMAIN x /\ u[i] = x[i - Len(s)] /\ j - Len(s) \in DOMAIN x /\ u[j] = x[j - Len(s)]
      <3>1. i - Len(s) = j - Len(s) BY <2>2 DEF IsInjective
      <3>2. i \in Int /\ j \in Int BY <1>a
      <3>3. \A a, b, c \in Int : a - c = b - c => a = b OBVIOUS
      <3> QED BY <1>1, <3>1, <3>2, <3>3
    <2> QED BY <1>2, <1>4, <2>1, <2>2
  <1>6. \A i \in DOMAIN u : u[i][1] \notin W \ {r} BY <1>2 DEF Good
  <1>7. Good(u, U, W \ {r}, D \cup {x}) BY <1>1, <1>3, <1>5, <1>6 DEF Good, IsInjective
  <1> QED BY <1>7 DEF u

\* A good ledger is no longer than there are items to put in it.
LEMMA GoodIsShort ==
    ASSUME NEW s, NEW U, IsFiniteSet(U), NEW W, NEW D, Good(s, U, W, D) PROVE Len(s) <= Cardinality(U)
  <1> DEFINE n == Len(s)
             S == 1 .. n
  <1>1. n \in Nat /\ s \in [S -> U] /\ Cardinality(U) \in Nat BY FS_CardinalityType DEF Good
  <1>2. IsFiniteSet(S) /\ Cardinality(S) = n
    <2>1. ASSUME NEW k \in Nat PROVE IsFiniteSet(1 .. k) /\ Cardinality(1 .. k) = k BY FS_Interval
    <2> HIDE DEF n
    <2> QED BY <1>1, <2>1
  <1>3. DOMAIN s = S BY <1>1
  <1> HIDE DEF n, S
  <1>4. ASSUME Cardinality(U) < n PROVE FALSE
    <2>1. \E i, j \in S : i # j /\ s[i] = s[j] BY <1>1, <1>2, <1>4, FS_PigeonHole
    <2> QED BY <1>3, <2>1 DEF Good, IsInjective
  <1>5. n <= Cardinality(U) BY <1>1, <1>4
  <1> QED BY <1>5 DEF n

\* the parts of PersistedFingerprintLedger.close()
LedgerParts == {"ledger", "write", "writing"}

\* All that a run may put in the ledger.
Entries(r) == {r} \X ({"run"} \cup plan[r])

\* The run has not come to the end of its write to the ledger.
Pending(r) == pc[r] \notin {"close", "returning", "gone"} \/ closing[r] \cap LedgerParts # {}

\* The build is over and has written to the ledger.
Complete(r) == Over(r) /\ outcome[r] # "CRASH" /\ ~Pending(r)

AllPut == UNION {PutBy(q) : q \in Runs}
PendingRuns == {q \in Runs : Pending(q)}
WholeItems == {items[q] : q \in {p \in Runs : Complete(p)}}
Small == Cardinality(AllPut) <= Limit

\* What is so of the ledger items of a run: each is its own and there once, none before the task's turn.
ItemsOf(r) ==
    /\ items[r] \in Seq(Entries(r)) /\ IsInjective(items[r])
    /\ pc[r] \in Early \cup {"ledger"} => items[r] = <<>>
    /\ \A t \in plan[r] : task[r][t] = "waiting" => \A i \in DOMAIN items[r] : items[r][i] # <<r, t>>
    /\ ~Ledger => items[r] = <<>>
    /\ exitCode[r] \in {0, 2} => outcome[r] # "CRASH"
    /\ \E p \in LedgerParts : closing[r] \cap LedgerParts \subseteq {p}

ItemsInv == DOMAIN items = Runs /\ DOMAIN base = Runs /\ \A r \in Runs : ItemsOf(r)

\* The ledger has the items of each build that is over and has written them.  So has what was read of it, until it
\* is written again.
LedgerInv ==
    ~together /\ Small =>
        /\ ledger # Torn => Good(ledger, AllPut, PendingRuns, WholeItems)
        /\ \A r \in Runs :
            /\ "write" \in closing[r] => ledger # Torn /\ base[r] = ledger
            /\ "writing" \in closing[r] => Good(base[r], AllPut, PendingRuns, WholeItems)

\* The step is one of r, and leaves the items of the others alone.
ItemsOfRun(r) ==
    /\ OfRun(r) /\ (together => together')
    /\ DOMAIN items' = Runs /\ DOMAIN base' = Runs
    /\ \A q \in Runs \ {r} : items'[q] = items[q] /\ base'[q] = base[q]

\* What a run puts in the ledger are its items, or part of what it could put there.
LEMMA PutIsEntries == ASSUME NEW r \in Runs, ItemsOf(r) PROVE PutBy(r) \subseteq Entries(r)
  <1>1. Range(items[r]) \subseteq Entries(r) BY DEF ItemsOf, Range
  <1> QED BY <1>1 DEF PutBy, Entries

\* All that is put in the ledger can be counted.
LEMMA PutIsFinite == TypeInv /\ ItemsInv => IsFiniteSet(AllPut)
  <1> SUFFICES ASSUME TypeInv, ItemsInv PROVE IsFiniteSet(AllPut) OBVIOUS
  <1> DEFINE N == {"run"} \cup AllTasks
             A == Runs \X N
  <1>1. IsFiniteSet(N)
    <2>1. IsFiniteSet(AllTasks) BY RunsAssumption DEF AllTasks
    <2>2. IsFiniteSet(AllTasks \cup {"run"}) BY <2>1, FS_AddElement
    <2>3. AllTasks \cup {"run"} = N OBVIOUS
    <2> QED BY <2>2, <2>3
  <1>2. ASSUME NEW r \in Runs PROVE PutBy(r) \subseteq A
    <2>1. PutBy(r) \subseteq Entries(r) BY PutIsEntries DEF ItemsInv
    <2>2. plan[r] \subseteq AllTasks BY DEF TypeInv
    <2> QED BY <2>1, <2>2 DEF Entries
  <1>3. AllPut \subseteq A BY <1>2 DEF AllPut
  <1>4. IsFiniteSet(A)
    <2> HIDE DEF N
    <2> QED BY <1>1, RunsAssumption, FS_Product
  <1> HIDE DEF A
  <1> QED BY <1>3, <1>4, FS_Subset

\* A run that goes on has put no less in the ledger than before.
LEMMA PutGrows ==
    ASSUME NEW r \in Runs, Local(r), ItemsOf(r), pc[r] # "gone", plan' = plan,
           exitCode'[r] \in {1, 9} \/ \A i \in DOMAIN items[r] : items[r][i] \in Range(items'[r])
    PROVE  PutBy(r) \subseteq PutBy(r)'
  <1>1. exitCode[r] = NoExit BY DEF Local
  <1>2. PutBy(r) = Range(items[r]) BY <1>1 DEF PutBy, NoExit
  <1>3. CASE exitCode'[r] \in {1, 9}
    <2>1. PutBy(r)' = Entries(r) BY <1>3 DEF PutBy, Entries
    <2>2. PutBy(r) \subseteq Entries(r) BY PutIsEntries
    <2> QED BY <2>1, <2>2
  <1>4. CASE exitCode'[r] \notin {1, 9} /\ \A i \in DOMAIN items[r] : items[r][i] \in Range(items'[r])
    <2>1. PutBy(r)' = Range(items'[r]) BY <1>4 DEF PutBy
    <2>2. Range(items[r]) \subseteq Range(items'[r]) BY <1>4 DEF Range
    <2> QED BY <1>2, <2>1, <2>2
  <1> QED BY <1>3, <1>4

\* The runs that are left alone are as they were.
LEMMA OthersSame ==
    ASSUME NEW r \in Runs, ItemsOfRun(r), NEW q \in Runs \ {r}
    PROVE  /\ PutBy(q)' = PutBy(q) /\ (Pending(q)' <=> Pending(q)) /\ (Complete(q)' <=> Complete(q))
           /\ items'[q] = items[q] /\ base'[q] = base[q] /\ closing'[q] = closing[q]
  BY DEF ItemsOfRun, OfRun, Kept, PutBy, Pending, Complete, Over

\* What is so of the items of all runs, if it is of those of the run that takes the step.
LEMMA ItemsAll == ASSUME ItemsInv, NEW r \in Runs, ItemsOfRun(r), ItemsOf(r)' PROVE ItemsInv'
  <1>1. ASSUME NEW q \in Runs \ {r} PROVE ItemsOf(q)'
    <2>1. Kept(q) /\ plan' = plan /\ items'[q] = items[q] BY DEF ItemsOfRun, OfRun
    <2>2. ItemsOf(q) BY DEF ItemsInv
    <2> QED BY <2>1, <2>2 DEF Kept, ItemsOf, Entries
  <1> QED BY <1>1 DEF ItemsInv, ItemsOfRun

\* If a step of a run takes nothing back of what was put in the ledger, the others' bounds only widen.
LEMMA Widens ==
    ASSUME ItemsInv, NEW r \in Runs, ItemsOfRun(r), ItemsOf(r)', PutBy(r) \subseteq PutBy(r)', Pending(r)' => Pending(r)
    PROVE  AllPut \subseteq AllPut' /\ PendingRuns' \subseteq PendingRuns /\ (Small' => Small)
  <1>1. \A q \in Runs : PutBy(q) \subseteq PutBy(q)' /\ (Pending(q)' => Pending(q)) BY OthersSame
  <1> HIDE DEF PutBy, Pending
  <1>2. AllPut \subseteq AllPut' BY <1>1 DEF AllPut
  <1>3. PendingRuns' \subseteq PendingRuns BY <1>1 DEF PendingRuns
  <1>4. TypeInv' /\ ItemsInv' BY ItemsAll DEF ItemsOfRun, OfRun
  <1>5. (TypeInv /\ ItemsInv => IsFiniteSet(AllPut))' BY PutIsFinite, PTL
  <1>6. IsFiniteSet(AllPut') BY <1>4, <1>5
  <1>7. IsFiniteSet(AllPut) /\ Cardinality(AllPut) <= Cardinality(AllPut') BY <1>2, <1>6, FS_Subset
  <1>8. Cardinality(AllPut) \in Nat /\ Cardinality(AllPut') \in Nat BY <1>6, <1>7, FS_CardinalityType
  <1>9. \A a, b, c \in Nat : a <= b /\ b <= c => a <= c OBVIOUS
  <1>10. Small' => Small BY <1>7, <1>8, <1>9, RunsAssumption DEF Small
  <1> QED BY <1>2, <1>3, <1>10

\* What a step of one run may do to the items that are whole.
LEMMA WholeSame ==
    ASSUME NEW r \in Runs, ItemsOfRun(r),
           Complete(r)' => (Complete(r) /\ items'[r] = items[r]) \/ items'[r] = <<>>
    PROVE  WholeItems' \subseteq WholeItems \cup {<<>>}
  <1> SUFFICES ASSUME NEW q \in Runs, Complete(q)' PROVE items'[q] \in WholeItems \cup {<<>>}
    BY DEF WholeItems
  <1>1. CASE q = r BY <1>1 DEF WholeItems
  <1>2. CASE q # r
    <2>1. Complete(q) /\ items'[q] = items[q] BY <1>2, OthersSame
    <2> QED BY <2>1 DEF WholeItems
  <1> QED BY <1>1, <1>2

\* A step that neither reads the ledger nor writes it keeps it right.
LEMMA QuietLedger ==
    ASSUME ItemsInv, LedgerInv, NEW r \in Runs, ItemsOfRun(r), ItemsOf(r)', PutBy(r) \subseteq PutBy(r)',
           Pending(r)' => Pending(r), ledger' = ledger,
           Complete(r)' => (Complete(r) /\ items'[r] = items[r]) \/ items'[r] = <<>>,
           \A p \in {"write", "writing"} : p \in closing'[r] => p \in closing[r] /\ base'[r] = base[r]
    PROVE  LedgerInv'
  <1> SUFFICES ASSUME ~together', Small' PROVE
            /\ ledger' # Torn => Good(ledger', AllPut', PendingRuns', WholeItems')
            /\ \A q \in Runs :
                /\ "write" \in closing'[q] => ledger' # Torn /\ base'[q] = ledger'
                /\ "writing" \in closing'[q] => Good(base'[q], AllPut', PendingRuns', WholeItems')
    BY DEF LedgerInv
  <1>1. AllPut \subseteq AllPut' /\ PendingRuns' \subseteq PendingRuns /\ Small BY Widens
  <1>2. WholeItems' \subseteq WholeItems \cup {<<>>} BY WholeSame
  <1>3. ~together BY DEF ItemsOfRun
  <1>4. \A s : Good(s, AllPut, PendingRuns, WholeItems) => Good(s, AllPut', PendingRuns', WholeItems')
    BY <1>1, <1>2, GoodWeakens
  <1>5. \A q \in Runs, p \in {"write", "writing"} : p \in closing'[q] => p \in closing[q] /\ base'[q] = base[q]
    BY OthersSame
  <1> HIDE DEF AllPut, PendingRuns, WholeItems, Small
  <1> QED BY <1>1, <1>3, <1>4, <1>5 DEF LedgerInv

\* A step that leaves the items and the ledger alone.
LEMMA SteadyLedger ==
    ASSUME ItemsInv, LedgerInv, NEW r \in Runs, Local(r), OfRun(r), pc[r] # "gone", together => together',
           UNCHANGED <<base, ledger>>, DOMAIN items' = DOMAIN items, \A q \in Runs : items'[q] = items[q],
           closing'[r] \cap LedgerParts = closing[r] \cap LedgerParts,
           pc'[r] \in Early \cup {"ledger"} => pc[r] \in Early \cup {"ledger"},
           \A t \in plan[r] : task'[r][t] = "waiting" => task[r][t] = "waiting",
           exitCode'[r] \in {0, 2} => outcome'[r] # "CRASH",
           Pending(r)' => Pending(r), Complete(r)' => Complete(r) \/ items[r] = <<>>
    PROVE  ItemsInv' /\ LedgerInv'
  <1>1. ItemsOfRun(r) BY DEF ItemsOfRun, ItemsInv
  <1>2. ItemsOf(r) BY DEF ItemsInv
  <1>3. plan' = plan BY DEF OfRun
  <1>4. ItemsOf(r)' BY <1>2, <1>3 DEF ItemsOf, Entries
  <1>5. PutBy(r) \subseteq PutBy(r)'
    <2>1. \A i \in DOMAIN items[r] : items[r][i] \in Range(items'[r]) BY DEF Range
    <2> QED BY <1>2, <1>3, <2>1, PutGrows
  <1>6. \A p \in {"write", "writing"} : p \in closing'[r] => p \in closing[r] /\ base'[r] = base[r]
    BY DEF LedgerParts
  <1>7. LedgerInv' BY <1>1, <1>4, <1>5, <1>6, QuietLedger
  <1> QED BY <1>1, <1>4, <1>7, ItemsAll

\* A step of a run that has no items yet.
LEMMA EarlyLedger ==
    ASSUME ItemsInv, LedgerInv, NEW r \in Runs, Local(r), OfRun(r), together => together',
           UNCHANGED <<items, base, ledger, closing, task>>, pc[r] \in Early \cup {"ledger"},
           exitCode'[r] \in {0, 2} => outcome'[r] # "CRASH"
    PROVE  ItemsInv' /\ LedgerInv'
  <1>1. pc[r] \notin {"close", "returning", "gone"} BY PcKinds DEF Begun
  <1>2. Pending(r) BY <1>1 DEF Pending
  <1>3. items[r] = <<>> BY DEF ItemsInv, ItemsOf
  <1> QED BY <1>1, <1>2, <1>3, SteadyLedger

\* Nothing that a run does before updateRun() touches the ledger.
LEMMA StartsLedger ==
    ASSUME TypeInv, ItemsInv, LedgerInv, NEW r \in Runs, Local(r), OfRun(r),
           MakeBootstrapper(r) \/ InitConfig(r) \/ GenerateTsConfig(r) \/ MakeEngine(r) \/ RunStarted(r)
    PROVE  ItemsInv' /\ LedgerInv'
  <1>1. together => together'
    BY DEF MakeBootstrapper, InitConfig, GenerateTsConfig, MakeEngine, RunStarted, fileVars
  <1>2. UNCHANGED <<items, base, ledger, closing, task>>
    BY DEF MakeBootstrapper, InitConfig, GenerateTsConfig, MakeEngine, RunStarted, fileVars, engineVars
  <1>3. pc[r] \in {"none", "init-config", "generate-tsconfig", "started"} \cup Builds
    BY DEF MakeBootstrapper, InitConfig, GenerateTsConfig, MakeEngine, RunStarted
  <1>4. pc[r] \in Early BY <1>3 DEF Early
  <1>5. pc[r] \notin {"returning", "gone"} BY <1>4, PcKinds
  <1>6. outcome[r] = NoRun /\ exitCode[r] = NoExit BY <1>5 DEF Local
  <1>7. exitCode'[r] \in {0, 2} => outcome'[r] # "CRASH"
    <2>1. CASE RunStarted(r) BY <1>6, <2>1 DEF RunStarted, NoExit
    <2>2. CASE ~RunStarted(r)
      <3>1. outcome' = outcome
        BY <2>2 DEF MakeBootstrapper, InitConfig, GenerateTsConfig, MakeEngine
      <3> QED BY <1>6, <3>1 DEF NoRun
    <2> QED BY <2>1, <2>2
  <1> QED BY <1>1, <1>2, <1>4, <1>7, EarlyLedger

\* The planning touches no ledger.
LEMMA PlansLedger ==
    ASSUME TypeInv, ItemsInv, LedgerInv, NEW r \in Runs, Local(r), OfRun(r), Prepare(r) \/ PlanPrepared(r)
    PROVE  ItemsInv' /\ LedgerInv'
  <1>1. UNCHANGED <<items, base, ledger, closing, task, exitCode, together>>
    BY DEF Prepare, PlanPrepared, fileVars, engineVars
  <1>2. pc[r] \in {"initialize", "plan"} /\ pc'[r] \in {"plan", "execute", "returning"}
    BY DEF Prepare, PlanPrepared, Ends, Goto, TypeInv
  <1>3. pc[r] \in Begun /\ pc[r] \notin {"close", "returning", "gone"} BY <1>2 DEF Begun
  <1>4. Pending(r) BY <1>3 DEF Pending
  <1>5. exitCode[r] = NoExit BY <1>3 DEF Local
  <1>6. pc'[r] \notin Early \cup {"ledger"}
    <2>1. "plan" \in Begun /\ Begun \cap Early = {} BY DEF Begun, Early, Builds
    <2> QED BY <1>2, <2>1, PcKinds
  <1>7. ~Over(r)'
    <2> DEFINE b == Step("BUILD_RUN_STARTED")
               e == Step("PLAN_PREPARED")
    <2>1. steps[r] = <<b>> BY <1>3, PcKinds DEF Local
    <2>2. CASE Prepare(r)
      <3>1. steps'[r] = <<b>> BY <2>1, <2>2 DEF Prepare
      <3> QED BY <3>1, NoStepsYet DEF Over
    <2>3. CASE PlanPrepared(r)
      <3>1. <<e>> \in Seq(AllSteps) BY StepKinds, OneStep DEF AllSteps
      <3>2. PICK throws \in BOOLEAN : Transmit(r, <<e>>, throws, TRUE) BY <2>3 DEF PlanPrepared
      <3>3. steps'[r] = <<b>> \o <<e>> BY <2>1, <3>1, <3>2, TransmitType
      <3>4. Told(steps'[r], {}) BY <3>3, ToldBegins
      <3> QED BY <3>4, NotOverToldYet DEF Over
    <2> QED BY <2>2, <2>3
  <1>8. ~Complete(r)' BY <1>7 DEF Complete
  <1>9. exitCode'[r] \notin {0, 2} BY <1>1, <1>5 DEF NoExit
  <1>10. pc[r] # "gone" BY <1>3
  <1> QED BY <1>1, <1>4, <1>6, <1>8, <1>9, <1>10, SteadyLedger

\* The first item of a run.
LEMMA UpdateRunLedger ==
    ASSUME TypeInv, ItemsInv, LedgerInv, NEW r \in Runs, Local(r), OfRun(r), UpdateRun(r)
    PROVE  ItemsInv' /\ LedgerInv'
  <1>1. UNCHANGED <<base, ledger, closing, task, exitCode, together, plan, steps>>
    BY DEF UpdateRun, fileVars, engineVars
  <1>2. pc[r] = "ledger" BY DEF UpdateRun
  <1>3. exitCode[r] = NoExit BY <1>2 DEF Local
  <1>4. CASE UNCHANGED items
    BY <1>1, <1>2, <1>3, <1>4, EarlyLedger DEF NoExit
  <1>5. CASE /\ Goto(r, "initialize") /\ UNCHANGED outcome
             /\ items' = [items EXCEPT ![r] = IF Ledger THEN <<<<r, "run">>>> ELSE <<>>]
    <2> DEFINE e == <<r, "run">>
               x == IF Ledger THEN <<e>> ELSE <<>>
    <2>1. DOMAIN items = Runs /\ ItemsOf(r) BY DEF ItemsInv
    <2>2. items'[r] = x /\ ItemsOfRun(r) BY <1>1, <1>5, <2>1 DEF ItemsOfRun, ItemsInv
    <2>3. pc'[r] = "initialize" BY <1>5 DEF Goto, TypeInv
    <2>4. e \in Entries(r) /\ \A t \in plan[r] : e # <<r, t>>
      <3>1. "run" \notin plan[r] BY RunsAssumption DEF TypeInv, AllTasks
      <3> QED BY <3>1 DEF Entries
    <2>5. plan'[r] = plan[r] /\ Entries(r)' = Entries(r) BY <1>1 DEF Entries
    <2> HIDE DEF e
    <2>6. x \in Seq(Entries(r)) /\ IsInjective(x) /\ (\A i \in DOMAIN x : x[i] = e) /\ (~Ledger => x = <<>>)
      <3>1. <<e>> \in Seq(Entries(r)) /\ DOMAIN <<e>> = {1} /\ <<e>>[1] = e BY <2>4
      <3>2. <<>> \in Seq(Entries(r)) /\ DOMAIN <<>> = {} OBVIOUS
      <3> QED BY <3>1, <3>2 DEF IsInjective
    <2> HIDE DEF x
    <2>7. pc'[r] \notin Early \cup {"ledger"} BY <2>3, PcKinds DEF Early, Builds
    <2>8. ItemsOf(r)' BY <1>1, <1>3, <2>1, <2>2, <2>4, <2>5, <2>6, <2>7 DEF ItemsOf, NoExit
    <2>9. items[r] = <<>> BY <1>2, <2>1 DEF ItemsOf
    <2>10. PutBy(r) \subseteq PutBy(r)'
      <3>1. \A i \in DOMAIN items[r] : items[r][i] \in Range(items'[r]) BY <2>9
      <3> QED BY <1>1, <1>2, <2>1, <3>1, PutGrows
    <2>11. Pending(r) /\ Pending(r)' BY <1>2, <2>3 DEF Pending
    <2>12. ~Complete(r)' BY <2>11 DEF Complete
    <2>13. LedgerInv' BY <1>1, <2>2, <2>8, <2>10, <2>11, <2>12, QuietLedger
    <2> QED BY <2>2, <2>8, <2>13, ItemsAll
  <1> QED BY <1>4, <1>5 DEF UpdateRun

\* The end of a task adds steps of tasks.
LEMMA TaskEndedAdds ==
    ASSUME TypeInv, NEW r \in Runs, NEW t \in plan[r], NEW before \in Seq(Chats), NEW type \in Types,
           NEW v \in {"OK", "FAIL"}, TaskEnded(r, t, before, type, v)
    PROVE  \E n \in Seq(TaskSteps) : steps'[r] = steps[r] \o n
  <1>1. CASE TaskEndedQuietly(r, t, before, type, v)
    <2> DEFINE e == Ended(t, type, v)
    <2>0. t \in AllTasks BY DEF TypeInv
    <2>1. e \in TaskSteps BY <2>0, StepKinds DEF TaskSteps
    <2>2. Transmit(r, before \o <<e>>, FALSE, TRUE) BY <1>1 DEF TaskEndedQuietly
    <2> HIDE DEF e
    <2>3. before \o <<e>> \in Seq(TaskSteps)
      <3>1. \A i \in 1 .. Len(before) : before[i] \in TaskSteps BY DEF TaskSteps
      <3>2. before \in Seq(TaskSteps) BY <3>1
      <3> QED BY <2>1, <3>2
    <2> DEFINE n == before \o <<e>>
    <2> HIDE DEF n
    <2>4. n \in Seq(AllSteps) /\ n \in Seq(TaskSteps) BY <2>3, TaskStepsAreSteps DEF n
    <2>5. Transmit(r, n, FALSE, TRUE) BY <2>2 DEF n
    <2> QED BY <2>4, <2>5, TransmitType
  <1>2. CASE TaskEndedBadly(r) BY <1>2, TaskStepsAreSteps, TransmitType DEF TaskEndedBadly
  <1> QED BY <1>1, <1>2, EndForms

\* So does every step of a task.
LEMMA TaskAdds ==
    ASSUME TypeInv, NEW r \in Runs, NEW t \in AllTasks,
           TaskBegins(r, t) \/ TaskReports(r, t) \/ TaskEnds(r, t) \/ TaskCrashes(r, t)
    PROVE  \E n \in Seq(TaskSteps) : steps'[r] = steps[r] \o n
  <1> DEFINE a == StoreStep("RESTORED", t)
             b == StoreStep("RECORDED", t)
  <1>1. t \in plan[r] BY DEF TaskBegins, TaskReports, TaskEnds, TaskCrashes, InFlight
  <1>2. a \in Chats /\ b \in Chats BY StepKinds DEF StoreStep, TaskStepNames
  <1>3. ASSUME NEW n \in Seq(Chats) PROVE n \in Seq(TaskSteps)
    <2>1. \A i \in 1 .. Len(n) : n[i] \in TaskSteps BY DEF TaskSteps
    <2> QED BY <2>1
  <1>4. CASE TaskBegins(r, t)
    <2> HIDE DEF a
    <2>1. <<a>> \in Seq(Chats) /\ <<>> \in Seq(Chats) BY <1>2
    <2>2. CASE TaskEnded(r, t, <<>>, "CANNOT_START", "FAIL") BY <1>1, <2>1, <2>2, TaskEndedAdds DEF Types
    <2>3. CASE TaskEnded(r, t, <<a>>, "CACHED", "OK") BY <1>1, <2>1, <2>3, TaskEndedAdds DEF Types
    <2>4. CASE \E failed \in {FALSE, (t \in Retried)} :
                  Transmit(r, IF failed THEN <<a>> ELSE <<>>, FALSE, TRUE)
      <3>1. PICK n \in {<<a>>, <<>>} : Transmit(r, n, FALSE, TRUE) BY <2>4
      <3>2. n \in Seq(Chats) BY <2>1, Zenon
      <3>3. n \in Seq(TaskSteps) BY <1>3, <3>2
      <3> QED BY <3>1, <3>3, TaskStepsAreSteps, TransmitType
    <2> QED BY <1>4, <2>2, <2>3, <2>4 DEF TaskBegins, a
  <1>5. CASE TaskReports(r, t)
    <2>1. Published(t) \in Seq(TaskSteps) BY <1>3, PublishedChats
    <2>2. PICK throws \in BOOLEAN : Transmit(r, Published(t), throws, FALSE) BY <1>5 DEF TaskReports
    <2> QED BY <2>1, <2>2, TaskStepsAreSteps, TransmitType
  <1>6. CASE TaskEnds(r, t)
    <2>1. PICK v \in {"OK", "FAIL"} : TaskEnded(r, t, <<b>>, "EXECUTED", v) BY <1>6 DEF TaskEnds
    <2> HIDE DEF b
    <2>2. <<b>> \in Seq(Chats) BY <1>2
    <2> QED BY <1>1, <2>1, <2>2, TaskEndedAdds DEF Types
  <1>7. CASE TaskCrashes(r, t)
    <2>1. PICK type \in {"UNKNOWN", "EXECUTED"} : Transmit(r, <<Ended(t, type, "CRASH")>>, FALSE, TRUE)
      BY <1>7 DEF TaskCrashes
    <2> DEFINE e == Ended(t, type, "CRASH")
    <2>2. e \in TaskSteps BY StepKinds DEF TaskSteps, Types
    <2> HIDE DEF e
    <2>3. <<e>> \in Seq(TaskSteps) BY <2>2
    <2>4. Transmit(r, <<e>>, FALSE, TRUE) BY <2>1 DEF e
    <2> QED BY <2>3, <2>4, TaskStepsAreSteps, TransmitType
  <1> QED BY <1>4, <1>5, <1>6, <1>7

\* A task adds its item to those of its run at its turn, if at all.
LEMMA TasksLedger ==
    ASSUME Inv, ItemsInv, LedgerInv, NEW r \in Runs, OfRun(r), NEW t \in AllTasks,
           TaskBegins(r, t) \/ TaskReports(r, t) \/ TaskEnds(r, t) \/ TaskCrashes(r, t)
    PROVE  ItemsInv' /\ LedgerInv'
  <1>0. TypeInv /\ Local(r) BY DEF Inv
  <1>1. /\ t \in plan[r] /\ UNCHANGED <<base, ledger, closing, exitCode, together, plan>>
        /\ pc[r] \in {"execute", "returning"} /\ task[r][t] # "ended"
    BY DEF TaskBegins, TaskReports, TaskEnds, TaskCrashes, InFlight, fileVars
  <1>2. pc'[r] = pc[r] \/ pc'[r] = "returning"
    <2>1. <<>> \in Seq(Chats) OBVIOUS
    <2>2. <<StoreStep("RESTORED", t)>> \in Seq(Chats) /\ <<StoreStep("RECORDED", t)>> \in Seq(Chats)
      <3>1. StoreStep("RESTORED", t) \in Chats /\ StoreStep("RECORDED", t) \in Chats
        BY StepKinds DEF StoreStep, TaskStepNames
      <3> QED BY <3>1
    <2>3. CASE TaskBegins(r, t)
      <3>1. CASE TaskEnded(r, t, <<>>, "CANNOT_START", "FAIL")
        BY <1>0, <1>1, <2>1, <3>1, TaskEndedPc DEF Types
      <3>2. CASE TaskEnded(r, t, <<StoreStep("RESTORED", t)>>, "CACHED", "OK")
        BY <1>0, <1>1, <2>2, <3>2, TaskEndedPc DEF Types
      <3>3. CASE UNCHANGED <<pc, outcome>> BY <3>3
      <3> QED BY <2>3, <3>1, <3>2, <3>3 DEF TaskBegins
    <2>4. CASE TaskReports(r, t) BY <2>4 DEF TaskReports
    <2>5. CASE TaskEnds(r, t)
      <3>1. PICK v \in {"OK", "FAIL"} : TaskEnded(r, t, <<StoreStep("RECORDED", t)>>, "EXECUTED", v)
        BY <2>5 DEF TaskEnds
      <3> QED BY <1>0, <1>1, <2>2, <3>1, TaskEndedPc DEF Types
    <2>6. CASE TaskCrashes(r, t) BY <1>0, <2>6, FailsType DEF TaskCrashes, CrashOutcomes
    <2> QED BY <2>3, <2>4, <2>5, <2>6
  <1>3. \A u \in plan[r] : task'[r][u] = "waiting" => task[r][u] = "waiting" /\ u # t
    <2>1. PICK s \in {"executing", "reported", "ended"} : task' = [task EXCEPT ![r][t] = s]
      BY DEF TaskBegins, TaskReports, TaskEnds, TaskCrashes, TaskEnded
    <2> QED BY <1>0, <1>1, <2>1 DEF TypeInv
  <1>4. ~Over(r) /\ closing[r] = {} /\ exitCode[r] = NoExit BY <1>0, <1>1, Unfinished
  <1>5. ~Over(r)'
    <2>1. PICK n \in Seq(TaskSteps) : steps'[r] = steps[r] \o n BY <1>0, TaskAdds
    <2>2. steps[r] \in Seq(AllSteps) BY <1>0 DEF TypeInv
    <2> QED BY <1>4, <2>1, <2>2, NotOverYet DEF Over
  <1>6. ~Complete(r)' BY <1>5 DEF Complete
  <1>7. Pending(r)' => Pending(r) BY <1>1, <1>2, <1>4 DEF Pending
  <1>8. /\ pc'[r] \notin Early \cup {"ledger"} /\ pc[r] # "gone" /\ exitCode'[r] \notin {0, 2}
    BY <1>1, <1>2, <1>4, PcKinds DEF NoExit, Begun
  <1>9. CASE DOMAIN items' = DOMAIN items /\ \A q \in Runs : items'[q] = items[q]
    BY <1>0, <1>1, <1>3, <1>6, <1>7, <1>8, <1>9, SteadyLedger
  <1>10. CASE /\ items' = [items EXCEPT ![r] = Append(@, <<r, t>>)] /\ Ledger
              /\ task[r][t] = "waiting"
    <2> DEFINE e == <<r, t>>
               x == items[r]
               y == Append(x, e)
    <2>1. DOMAIN items = Runs /\ ItemsOf(r) BY DEF ItemsInv
    <2>2. items'[r] = y /\ ItemsOfRun(r) BY <1>1, <1>10, <2>1 DEF ItemsOfRun, ItemsInv
    <2>3. e \in Entries(r) /\ Entries(r)' = Entries(r) BY <1>1 DEF Entries
    <2>4. /\ x \in Seq(Entries(r)) /\ IsInjective(x) /\ \A i \in DOMAIN x : x[i] # e
          /\ \A u \in plan[r] : task[r][u] = "waiting" => \A i \in DOMAIN x : x[i] # <<r, u>>
      BY <1>1, <1>10, <2>1 DEF ItemsOf
    <2>a. \A u \in plan[r] : u # t => e # <<r, u>> OBVIOUS
    <2> HIDE DEF e, x
    <2>5. /\ y \in Seq(Entries(r)) /\ DOMAIN x = 1 .. Len(x) /\ Len(x) \in Nat /\ DOMAIN y = 1 .. Len(x) + 1
          /\ \A i \in DOMAIN x : i \in DOMAIN y /\ y[i] = x[i]
          /\ y[Len(x) + 1] = e /\ \A i \in DOMAIN y : i \in DOMAIN x \/ i = Len(x) + 1
      BY <2>3, <2>4
    <2> HIDE DEF y
    <2>6. IsInjective(y) BY <2>4, <2>5 DEF IsInjective
    <2>7. \A u \in plan[r] : task'[r][u] = "waiting" => \A i \in DOMAIN y : y[i] # <<r, u>>
      BY <1>3, <2>4, <2>5, <2>a
    <2>8. ItemsOf(r)' BY <1>1, <1>8, <1>10, <2>1, <2>2, <2>3, <2>5, <2>6, <2>7 DEF ItemsOf
    <2>9. PutBy(r) \subseteq PutBy(r)'
      <3>1. \A i \in DOMAIN items[r] : items[r][i] \in Range(items'[r]) BY <2>2, <2>5 DEF Range, x
      <3> QED BY <1>0, <1>1, <1>8, <2>1, <3>1, PutGrows
    <2>10. LedgerInv' BY <1>1, <1>6, <1>7, <2>2, <2>8, <2>9, QuietLedger
    <2> QED BY <2>2, <2>8, <2>10, ItemsAll
  <1>11. \/ DOMAIN items' = DOMAIN items /\ \A q \in Runs : items'[q] = items[q]
         \/ /\ items' = [items EXCEPT ![r] = Append(@, <<r, t>>)] /\ Ledger
            /\ task[r][t] = "waiting"
    <2>1. CASE TaskBegins(r, t)
      <3>1. task[r][t] = "waiting" BY <2>1 DEF TaskBegins
      <3>2. UNCHANGED items \/ Fingerprinted(r, t) BY <2>1 DEF TaskBegins
      <3>3. CASE Fingerprinted(r, t) /\ Ledger BY <3>1, <3>3 DEF Fingerprinted
      <3>4. CASE Fingerprinted(r, t) /\ ~Ledger
        <4>1. items' = [items EXCEPT ![r] = items[r]] BY <3>4 DEF Fingerprinted
        <4> QED BY <4>1
      <3> QED BY <3>2, <3>3, <3>4
    <2>2. CASE ~TaskBegins(r, t) BY <2>2 DEF TaskReports, TaskEnds, TaskCrashes
    <2> QED BY <2>1, <2>2
  <1> QED BY <1>9, <1>10, <1>11

\* The end of the execution leaves the ledger to close().
LEMMA RunEndedLedger ==
    ASSUME TypeInv, ItemsInv, LedgerInv, NEW r \in Runs, Local(r), OfRun(r), RunEnded(r)
    PROVE  ItemsInv' /\ LedgerInv'
  <1>1. UNCHANGED <<items, base, ledger, task, exitCode, together, plan>> /\ pc[r] = "execute"
    BY DEF RunEnded, fileVars, engineVars
  <1>2. closing[r] = {} /\ exitCode[r] = NoExit /\ Pending(r) BY <1>1 DEF Local, Pending
  <1>3. \/ pc'[r] = "returning" /\ outcome'[r] = "CRASH" /\ closing' = closing
        \/ pc'[r] = "close" /\ closing'[r] = IF Ledger THEN {"ledger", "steps"} ELSE {"steps"}
    BY DEF RunEnded, Ends, Goto, TypeInv
  <1>4. ItemsOfRun(r) BY <1>1 DEF ItemsOfRun, ItemsInv
  <1>5. ItemsOf(r) BY DEF ItemsInv
  <1>6. pc'[r] \notin Early \cup {"ledger"} BY <1>3, PcKinds
  <1>7. closing'[r] \cap LedgerParts \subseteq {"ledger"} BY <1>2, <1>3 DEF LedgerParts
  <1>8. ItemsOf(r)'
    <2>1. items'[r] \in Seq(Entries(r)') /\ IsInjective(items'[r]) BY <1>1, <1>5 DEF ItemsOf, Entries
    <2>2. exitCode'[r] \notin {0, 2} BY <1>1, <1>2 DEF NoExit
    <2>3. \E p \in LedgerParts : closing'[r] \cap LedgerParts \subseteq {p} BY <1>7 DEF LedgerParts
    <2>4. \A t \in plan[r] : task[r][t] = "waiting" => \A i \in DOMAIN items[r] : items[r][i] # <<r, t>>
      BY <1>5 DEF ItemsOf
    <2>5. ~Ledger => items[r] = <<>> BY <1>5 DEF ItemsOf
    <2> QED BY <1>1, <1>6, <2>1, <2>2, <2>3, <2>4, <2>5 DEF ItemsOf
  <1>9. PutBy(r) \subseteq PutBy(r)' BY <1>1 DEF PutBy
  <1>10. Complete(r)' => items'[r] = <<>>
    <2>1. CASE pc'[r] = "returning" /\ outcome'[r] = "CRASH" BY <2>1 DEF Complete
    <2>2. CASE ~Ledger BY <1>1, <1>5, <2>2 DEF ItemsOf
    <2>3. CASE Ledger /\ closing'[r] = {"ledger", "steps"}
      <3>1. Pending(r)' BY <2>3 DEF Pending, LedgerParts
      <3> QED BY <3>1 DEF Complete
    <2> QED BY <1>3, <2>1, <2>2, <2>3
  <1>11. \A p \in {"write", "writing"} : p \notin closing'[r] BY <1>2, <1>3
  <1>12. LedgerInv' BY <1>1, <1>2, <1>4, <1>8, <1>9, <1>10, <1>11, QuietLedger
  <1> QED BY <1>4, <1>8, <1>12, ItemsAll

\* While close() is at one part, it is at no other.
LEMMA OnePart ==
    ASSUME NEW r \in Runs, ItemsOf(r), NEW p \in LedgerParts, p \in closing[r]
    PROVE  closing[r] \cap LedgerParts = {p}
  BY DEF ItemsOf

\* A run that closes is the only one that does, if runs do not overlap.
LEMMA OneCloses ==
    ASSUME Inv, ~together, NEW r \in Runs, closing[r] # {}, NEW q \in Runs \ {r}
    PROVE  closing[q] = {}
  <1>1. pc[r] \in {"close", "returning"} BY DEF Inv, Local
  <1>2. Alive(r) BY <1>1 DEF Alive
  <1>3. ~Alive(q) BY <1>2 DEF Inv, Shared
  <1>4. pc[q] \notin {"close", "returning"} BY <1>3 DEF Alive
  <1> QED BY <1>4 DEF Inv, Local

\* What all steps of close() that have to do with the ledger have in common.
LEMMA CloseParts ==
    ASSUME Inv, ItemsInv, NEW r \in Runs, OfRun(r), LedgerReads(r) \/ LedgerTruncates(r) \/ LedgerWrites(r)
    PROVE  /\ UNCHANGED <<items, task, exitCode, together, plan, steps>> /\ ItemsOf(r) /\ ItemsOfRun(r)
           /\ pc[r] \in {"close", "returning"} /\ pc'[r] \in {"close", "returning"} /\ exitCode[r] = NoExit
           /\ pc'[r] \notin Early \cup {"ledger"} /\ PutBy(r) \subseteq PutBy(r)' /\ Pending(r)
  <1>1. UNCHANGED <<items, task, exitCode, together, plan, steps>>
    BY DEF LedgerReads, LedgerTruncates, LedgerWrites, fileVars, engineVars
  <1>2. closing[r] \cap LedgerParts # {} BY DEF LedgerReads, LedgerTruncates, LedgerWrites, LedgerParts
  <1>3. pc[r] \in {"close", "returning"} /\ exitCode[r] = NoExit BY <1>2 DEF Inv, Local
  <1>4. DOMAIN base' = Runs /\ \A q \in Runs \ {r} : base'[q] = base[q]
    <2>1. DOMAIN base = Runs BY DEF ItemsInv
    <2>2. base' = base \/ \E x : base' = [base EXCEPT ![r] = x]
      BY DEF LedgerReads, LedgerTruncates, LedgerWrites
    <2> QED BY <2>1, <2>2
  <1>5. ItemsOf(r) /\ ItemsOfRun(r) BY <1>1, <1>4 DEF ItemsInv, ItemsOfRun
  <1>6. pc'[r] \in {"close", "returning"}
    <2>1. CASE LedgerReads(r) BY <1>3, <2>1 DEF LedgerReads, Ends, Goto, Inv, TypeInv
    <2>2. CASE LedgerTruncates(r) BY <1>3, <2>2 DEF LedgerTruncates
    <2>3. CASE LedgerWrites(r) BY <1>3, <2>3 DEF LedgerWrites
    <2> QED BY <2>1, <2>2, <2>3
  <1>7. pc'[r] \notin Early \cup {"ledger"} BY <1>6, PcKinds
  <1>8. PutBy(r) \subseteq PutBy(r)' BY <1>1 DEF PutBy
  <1>9. Pending(r) BY <1>2 DEF Pending
  <1> QED BY <1>1, <1>3, <1>5, <1>6, <1>7, <1>8, <1>9

\* The read of the ledger discards nothing while it is within the limit.
LEMMA LedgerReadsLedger ==
    ASSUME Inv, ItemsInv, LedgerInv, NEW r \in Runs, OfRun(r), LedgerReads(r)
    PROVE  ItemsInv' /\ LedgerInv'
  <1>1. /\ UNCHANGED <<items, task, exitCode, together, plan, steps>> /\ ItemsOf(r) /\ ItemsOfRun(r)
        /\ pc[r] \in {"close", "returning"} /\ pc'[r] \in {"close", "returning"} /\ exitCode[r] = NoExit
        /\ pc'[r] \notin Early \cup {"ledger"} /\ PutBy(r) \subseteq PutBy(r)' /\ Pending(r)
    BY CloseParts
  <1>2. "ledger" \in closing[r] /\ UNCHANGED ledger /\ TypeInv BY DEF LedgerReads, fileVars, Inv
  <1>3. closing[r] \cap LedgerParts = {"ledger"} BY <1>1, <1>2, OnePart DEF LedgerParts
  <1>4. CASE ledger = Torn
    <2>1. closing'[r] = closing[r] \ {"ledger"} /\ outcome'[r] = "CRASH"
      BY <1>2, <1>4 DEF LedgerReads, Ends, TypeInv
    <2>2. closing'[r] \cap LedgerParts = {} BY <1>3, <2>1
    <2>a. closing'[r] \cap LedgerParts \subseteq {"ledger"} BY <2>2
    <2>b. "ledger" \in LedgerParts /\ NoExit \notin {0, 2} BY DEF LedgerParts, NoExit
    <2>3. ItemsOf(r)' BY <1>1, <2>a, <2>b DEF ItemsOf, Entries
    <2>4. ~Complete(r)' BY <2>1 DEF Complete
    <2>5. \A p \in {"write", "writing"} : p \notin closing'[r] BY <2>2 DEF LedgerParts
    <2>6. LedgerInv' BY <1>1, <1>2, <2>3, <2>4, <2>5, QuietLedger
    <2> QED BY <1>1, <2>3, <2>6, ItemsAll
  <1>5. CASE ledger # Torn
    <2>1. closing'[r] = (closing[r] \ {"ledger"}) \cup {"write"} /\ base'[r] = ReadLedger
      BY <1>2, <1>5 DEF LedgerReads, TypeInv, ItemsInv
    <2>2. closing'[r] \cap LedgerParts = {"write"} BY <1>3, <2>1 DEF LedgerParts
    <2>3. ItemsOf(r)' BY <1>1, <2>2 DEF ItemsOf, Entries, NoExit, LedgerParts
    <2>4. Pending(r)' BY <2>2 DEF Pending
    <2>5. WholeItems' \subseteq WholeItems \cup {<<>>} BY <1>1, <2>4, WholeSame DEF Complete
    <2>6. AllPut \subseteq AllPut' /\ PendingRuns' \subseteq PendingRuns /\ (Small' => Small)
      BY <1>1, <2>3, Widens
    <2>7. LedgerInv'
      <3> SUFFICES ASSUME ~together', Small' PROVE
                /\ ledger' # Torn => Good(ledger', AllPut', PendingRuns', WholeItems')
                /\ \A q \in Runs :
                    /\ "write" \in closing'[q] => ledger' # Torn /\ base'[q] = ledger'
                    /\ "writing" \in closing'[q] => Good(base'[q], AllPut', PendingRuns', WholeItems')
        BY DEF LedgerInv
      <3>1. Good(ledger, AllPut, PendingRuns, WholeItems) BY <1>1, <1>5, <2>6 DEF LedgerInv
      <3>2. Good(ledger, AllPut', PendingRuns', WholeItems') BY <2>5, <2>6, <3>1, GoodWeakens
      <3>3. ReadLedger = ledger
        <4>1. IsFiniteSet(AllPut) BY <1>2, PutIsFinite
        <4>2. Len(ledger) <= Cardinality(AllPut) BY <3>1, <4>1, GoodIsShort
        <4>3. Cardinality(AllPut) \in Nat /\ Len(ledger) \in Nat BY <3>1, <4>1, FS_CardinalityType DEF Good
        <4>4. \A a, b, c \in Nat : a <= b /\ b <= c => ~(a > c) OBVIOUS
        <4>5. ~(Len(ledger) > Limit) BY <2>6, <4>2, <4>3, <4>4, RunsAssumption DEF Small
        <4> QED BY <4>5 DEF ReadLedger
      <3>4. ASSUME NEW q \in Runs \ {r}
            PROVE  "write" \notin closing'[q] /\ "writing" \notin closing'[q]
        <4>1. closing[q] = {} BY <1>1, <1>2, OneCloses
        <4> QED BY <1>1, <4>1, OthersSame
      <3>5. "writing" \notin closing'[r] BY <2>2 DEF LedgerParts
      <3> QED BY <1>2, <1>5, <2>1, <3>2, <3>3, <3>4, <3>5
    <2> QED BY <1>1, <2>3, <2>7, ItemsAll
  <1> QED BY <1>4, <1>5

\* While the file is cut what was in it is what was read.
LEMMA LedgerTruncatesLedger ==
    ASSUME Inv, ItemsInv, LedgerInv, NEW r \in Runs, OfRun(r), LedgerTruncates(r)
    PROVE  ItemsInv' /\ LedgerInv'
  <1>1. /\ UNCHANGED <<items, task, exitCode, together, plan, steps>> /\ ItemsOf(r) /\ ItemsOfRun(r)
        /\ pc[r] \in {"close", "returning"} /\ pc'[r] \in {"close", "returning"} /\ exitCode[r] = NoExit
        /\ pc'[r] \notin Early \cup {"ledger"} /\ PutBy(r) \subseteq PutBy(r)' /\ Pending(r)
    BY CloseParts
  <1>2. "write" \in closing[r] /\ ledger' = Torn /\ base' = base /\ TypeInv BY DEF LedgerTruncates, Inv
  <1>3. closing[r] \cap LedgerParts = {"write"} BY <1>1, <1>2, OnePart DEF LedgerParts
  <1>4. closing'[r] = (closing[r] \ {"write"}) \cup {"writing"} BY <1>2 DEF LedgerTruncates, TypeInv
  <1>5. closing'[r] \cap LedgerParts = {"writing"} BY <1>3, <1>4 DEF LedgerParts
  <1>6. ItemsOf(r)' BY <1>1, <1>5 DEF ItemsOf, Entries, NoExit, LedgerParts
  <1>7. Pending(r)' BY <1>5 DEF Pending
  <1>8. WholeItems' \subseteq WholeItems \cup {<<>>} BY <1>1, <1>7, WholeSame DEF Complete
  <1>9. AllPut \subseteq AllPut' /\ PendingRuns' \subseteq PendingRuns /\ (Small' => Small)
    BY <1>1, <1>6, Widens
  <1>10. LedgerInv'
    <2> SUFFICES ASSUME ~together', Small' PROVE
              \A q \in Runs :
                  /\ "write" \notin closing'[q]
                  /\ "writing" \in closing'[q] => Good(base'[q], AllPut', PendingRuns', WholeItems')
      BY <1>2 DEF LedgerInv
    <2>1. Good(base[r], AllPut, PendingRuns, WholeItems) BY <1>1, <1>2, <1>9 DEF LedgerInv
    <2>2. Good(base'[r], AllPut', PendingRuns', WholeItems') BY <1>2, <1>8, <1>9, <2>1, GoodWeakens
    <2>3. ASSUME NEW q \in Runs \ {r}
          PROVE  "write" \notin closing'[q] /\ "writing" \notin closing'[q]
      <3>1. closing[q] = {} BY <1>1, <1>2, OneCloses
      <3> QED BY <1>1, <3>1, OthersSame
    <2>4. "write" \notin closing'[r] BY <1>5 DEF LedgerParts
    <2> QED BY <2>2, <2>3, <2>4
  <1> QED BY <1>1, <1>6, <1>10, ItemsAll

\* The items of a run are among all that is put in the ledger.
LEMMA ItemsArePut == ASSUME ItemsInv, NEW q \in Runs PROVE items[q] \in Seq(AllPut)
  <1> DEFINE x == items[q]
  <1>1. x \in Seq(Entries(q)) BY DEF ItemsInv, ItemsOf
  <1>2. \A i \in DOMAIN x : x[i] \in PutBy(q)
    <2>1. \A i \in DOMAIN x : x[i] \in Entries(q) /\ x[i] \in Range(x) BY <1>1 DEF Range
    <2> QED BY <2>1 DEF PutBy, Entries
  <1>3. \A i \in DOMAIN x : x[i] \in AllPut BY <1>2 DEF AllPut
  <1> HIDE DEF x
  <1>4. x \in Seq(AllPut) BY <1>1, <1>3
  <1> QED BY <1>4 DEF x

\* The write adds the items of the run to what it read.
LEMMA LedgerWritesLedger ==
    ASSUME Inv, ItemsInv, LedgerInv, NEW r \in Runs, OfRun(r), LedgerWrites(r)
    PROVE  ItemsInv' /\ LedgerInv'
  <1>1. /\ UNCHANGED <<items, task, exitCode, together, plan, steps>> /\ ItemsOf(r) /\ ItemsOfRun(r)
        /\ pc[r] \in {"close", "returning"} /\ pc'[r] \in {"close", "returning"} /\ exitCode[r] = NoExit
        /\ pc'[r] \notin Early \cup {"ledger"} /\ PutBy(r) \subseteq PutBy(r)' /\ Pending(r)
    BY CloseParts
  <1>2. "writing" \in closing[r] /\ ledger' = base[r] \o items[r] /\ TypeInv BY DEF LedgerWrites, Inv
  <1>3. closing[r] \cap LedgerParts = {"writing"} BY <1>1, <1>2, OnePart DEF LedgerParts
  <1>4. closing'[r] = closing[r] \ {"writing"} BY <1>2 DEF LedgerWrites, TypeInv
  <1>5. closing'[r] \cap LedgerParts = {} BY <1>3, <1>4 DEF LedgerParts
  <1>a. closing'[r] \cap LedgerParts \subseteq {"ledger"} BY <1>5
  <1>b. "ledger" \in LedgerParts /\ NoExit \notin {0, 2} BY DEF LedgerParts, NoExit
  <1>6. ItemsOf(r)' BY <1>1, <1>a, <1>b DEF ItemsOf, Entries
  <1>7. ~Pending(r)' BY <1>1, <1>5 DEF Pending
  <1>8. AllPut \subseteq AllPut' /\ PendingRuns' \subseteq PendingRuns /\ (Small' => Small)
    BY <1>1, <1>6, <1>7, Widens
  <1>9. PendingRuns' \subseteq PendingRuns \ {r} BY <1>7, <1>8 DEF PendingRuns
  <1>10. WholeItems' \subseteq (WholeItems \cup {items[r]}) \cup {<<>>}
    <2> SUFFICES ASSUME NEW q \in Runs, Complete(q)' PROVE items'[q] \in WholeItems \cup {items[r]}
      BY DEF WholeItems
    <2>1. CASE q = r BY <1>1, <2>1
    <2>2. CASE q # r
      <3>1. Complete(q) /\ items'[q] = items[q] BY <1>1, <2>2, OthersSame
      <3> QED BY <3>1 DEF WholeItems
    <2> QED BY <2>1, <2>2
  <1>11. LedgerInv'
    <2> SUFFICES ASSUME ~together', Small' PROVE
              /\ Good(ledger', AllPut', PendingRuns', WholeItems')
              /\ \A q \in Runs : "write" \notin closing'[q] /\ "writing" \notin closing'[q]
      BY DEF LedgerInv
    <2>1. Good(base[r], AllPut, PendingRuns, WholeItems) BY <1>1, <1>2, <1>8 DEF LedgerInv
    <2>2. r \in PendingRuns BY <1>1 DEF PendingRuns
    <2>3. items[r] \in Seq(AllPut) /\ WholeItems \subseteq Seq(AllPut) BY ItemsArePut DEF WholeItems
    <2>4. IsInjective(items[r]) /\ \A i \in DOMAIN items[r] : items[r][i][1] = r BY <1>1 DEF ItemsOf, Entries
    <2>5. Good(base[r] \o items[r], AllPut, PendingRuns \ {r}, WholeItems \cup {items[r]})
      BY <2>1, <2>2, <2>3, <2>4, GoodGrows
    <2>6. Good(ledger', AllPut', PendingRuns', WholeItems') BY <1>2, <1>8, <1>9, <1>10, <2>5, GoodWeakens
    <2>7. ASSUME NEW q \in Runs \ {r}
          PROVE  "write" \notin closing'[q] /\ "writing" \notin closing'[q]
      <3>1. closing[q] = {} BY <1>1, <1>2, OneCloses
      <3> QED BY <1>1, <3>1, OthersSame
    <2>8. "write" \notin closing'[r] /\ "writing" \notin closing'[r] BY <1>5 DEF LedgerParts
    <2> QED BY <2>6, <2>7, <2>8
  <1> QED BY <1>1, <1>6, <1>11, ItemsAll

\* The end of close() leaves the ledger alone, and so does a process that goes of itself.
LEMMA EndsLedger ==
    ASSUME TypeInv, ItemsInv, LedgerInv, NEW r \in Runs, Local(r), OfRun(r),
           StepsClose(r) \/ Finish(r) \/ (Exit(r) /\ outcome[r] # "CRASH")
    PROVE  ItemsInv' /\ LedgerInv'
  <1>1. UNCHANGED <<items, base, ledger, task, together, plan, steps>>
    BY DEF StepsClose, Finish, Exit, fileVars, engineVars
  <1>2. pc[r] \in {"close", "returning"}
    <2>1. closing[r] # {} \/ pc[r] \in {"close", "returning"} BY DEF StepsClose, Finish, Exit
    <2> QED BY <2>1 DEF Local
  <1>3. pc'[r] \in {"close", "returning", "gone"}
    <2>1. CASE StepsClose(r) BY <1>2, <2>1 DEF StepsClose, Ends, Goto, TypeInv
    <2>2. CASE Finish(r) BY <2>2 DEF Finish, Ends, Goto, TypeInv
    <2>3. CASE Exit(r) /\ outcome[r] # "CRASH" BY <2>3 DEF Exit, Goto, TypeInv
    <2> QED BY <2>1, <2>2, <2>3
  <1>4. closing'[r] \cap LedgerParts = closing[r] \cap LedgerParts
    <2>1. closing' = closing \/ closing' = [closing EXCEPT ![r] = @ \ {"steps"}]
      BY DEF StepsClose, Finish, Exit
    <2>2. CASE closing' = closing BY <2>2
    <2>3. CASE closing' = [closing EXCEPT ![r] = @ \ {"steps"}]
      <3>1. closing'[r] = closing[r] \ {"steps"} /\ "steps" \notin LedgerParts BY <2>3 DEF TypeInv, LedgerParts
      <3> QED BY <3>1
    <2> QED BY <2>1, <2>2, <2>3
  <1>5. exitCode[r] = NoExit BY <1>2 DEF Local
  <1>6. exitCode'[r] \in {0, 2} => outcome'[r] # "CRASH"
    <2>1. CASE StepsClose(r) \/ Finish(r) BY <1>5, <2>1 DEF StepsClose, Finish, NoExit
    <2>2. CASE Exit(r) /\ outcome[r] # "CRASH" BY <2>2 DEF Exit
    <2> QED BY <2>1, <2>2
  <1>7. outcome'[r] # "CRASH" => outcome[r] # "CRASH"
    <2>1. CASE StepsClose(r) BY <2>1 DEF StepsClose, Ends, TypeInv
    <2>2. CASE Finish(r)
      <3>1. outcome[r] = NoRun BY <2>2 DEF Finish, Local
      <3> QED BY <3>1 DEF NoRun
    <2>3. CASE Exit(r) /\ outcome[r] # "CRASH" BY <2>3
    <2> QED BY <2>1, <2>2, <2>3
  <1>8. Pending(r)' <=> Pending(r) BY <1>2, <1>3, <1>4 DEF Pending
  <1>9. Complete(r)' => Complete(r) BY <1>1, <1>7, <1>8 DEF Complete, Over
  <1>10. pc'[r] \notin Early \cup {"ledger"} /\ pc[r] # "gone" BY <1>2, <1>3, PcKinds
  <1> QED BY <1>1, <1>4, <1>6, <1>8, <1>9, <1>10, SteadyLedger

\* A process that dies takes its items with it, and what it has cut stays cut.
LEMMA DiesLedger ==
    ASSUME TypeInv, ItemsInv, LedgerInv, NEW r \in Runs, Local(r), OfRun(r), NEW code \in {1, 9}, Dies(r, code),
           pc[r] # "gone", pc[r] # "none"
    PROVE  ItemsInv' /\ LedgerInv'
  <1>1. UNCHANGED <<ledger, together, plan>> BY DEF Dies, fileVars
  <1>2. /\ pc'[r] = "gone" /\ exitCode'[r] = code /\ closing'[r] = {}
        /\ items' = [items EXCEPT ![r] = <<>>] /\ base' = [base EXCEPT ![r] = <<>>]
    BY DEF Dies, Goto, TypeInv
  <1>3. ItemsOf(r) /\ items'[r] = <<>> /\ ItemsOfRun(r) BY <1>1, <1>2 DEF ItemsInv, ItemsOfRun
  <1>4. <<>> \in Seq(Entries(r)') /\ IsInjective(<<>>) /\ DOMAIN <<>> = {} BY DEF IsInjective
  <1>5. \E p \in LedgerParts : closing'[r] \cap LedgerParts \subseteq {p}
    <2>1. closing'[r] \cap LedgerParts = {} BY <1>2
    <2> QED BY <2>1 DEF LedgerParts
  <1>6. ItemsOf(r)' BY <1>2, <1>3, <1>4, <1>5 DEF ItemsOf
  <1>7. PutBy(r) \subseteq PutBy(r)' BY <1>1, <1>2, <1>3, PutGrows
  <1>8. ~Pending(r)' BY <1>2 DEF Pending
  <1>9. \A p \in {"write", "writing"} : p \notin closing'[r] BY <1>2
  <1>10. LedgerInv' BY <1>1, <1>3, <1>6, <1>7, <1>8, <1>9, QuietLedger
  <1> QED BY <1>3, <1>6, <1>10, ItemsAll

\* Every step keeps the ledger right.
LEMMA NextLedger == ASSUME Inv, ItemsInv, LedgerInv, [Next]_vars PROVE ItemsInv' /\ LedgerInv'
  <1>0. TypeInv /\ Shared /\ \A r \in Runs : Local(r) BY DEF Inv
  <1>1. ASSUME NEW r \in Runs,
               MakeBootstrapper(r) \/ InitConfig(r) \/ GenerateTsConfig(r) \/ MakeEngine(r) \/ RunStarted(r)
        PROVE  ItemsInv' /\ LedgerInv'
    <2>1. OfRun(r)
      BY <1>0, <1>1, MakeBootstrapperOf, InitConfigOf, GenerateTsConfigOf, MakeEngineOf, RunStartedOf
    <2> QED BY <1>0, <1>1, <2>1, StartsLedger
  <1>2. ASSUME NEW r \in Runs, UpdateRun(r) PROVE ItemsInv' /\ LedgerInv'
    BY <1>0, <1>2, UpdateRunOf, UpdateRunLedger
  <1>3. ASSUME NEW r \in Runs, Prepare(r) \/ PlanPrepared(r) PROVE ItemsInv' /\ LedgerInv'
    BY <1>0, <1>3, PrepareOf, PlanPreparedOf, PlansLedger
  <1>4. ASSUME NEW r \in Runs, NEW t \in AllTasks,
               TaskBegins(r, t) \/ TaskReports(r, t) \/ TaskEnds(r, t) \/ TaskCrashes(r, t)
        PROVE  ItemsInv' /\ LedgerInv'
    <2>1. OfRun(r) BY <1>0, <1>4, TaskBeginsOf, TaskReportsOf, TaskEndsOf, TaskCrashesOf
    <2> QED BY <1>4, <2>1, TasksLedger
  <1>5. ASSUME NEW r \in Runs, RunEnded(r) PROVE ItemsInv' /\ LedgerInv'
    BY <1>0, <1>5, RunEndedOf, RunEndedLedger
  <1>6. ASSUME NEW r \in Runs, LedgerReads(r) PROVE ItemsInv' /\ LedgerInv'
    BY <1>0, <1>6, LedgerReadsOf, LedgerReadsLedger
  <1>7. ASSUME NEW r \in Runs, LedgerTruncates(r) PROVE ItemsInv' /\ LedgerInv'
    BY <1>0, <1>7, LedgerTruncatesOf, LedgerTruncatesLedger
  <1>8. ASSUME NEW r \in Runs, LedgerWrites(r) PROVE ItemsInv' /\ LedgerInv'
    BY <1>0, <1>8, LedgerWritesOf, LedgerWritesLedger
  <1>9. ASSUME NEW r \in Runs, StepsClose(r) \/ Finish(r) \/ (Exit(r) /\ outcome[r] # "CRASH")
        PROVE  ItemsInv' /\ LedgerInv'
    BY <1>0, <1>9, StepsCloseOf, FinishOf, ExitOf, EndsLedger
  <1>10. ASSUME NEW r \in Runs, (Exit(r) /\ outcome[r] = "CRASH") \/ UnhandledRejection(r) \/ Kill(r)
         PROVE  ItemsInv' /\ LedgerInv'
    <2>1. pc[r] # "gone" /\ pc[r] # "none" BY <1>10 DEF Exit, UnhandledRejection, Kill, Alive
    <2>2. PICK code \in {1, 9} : Dies(r, code) BY <1>10 DEF Exit, ExitCode, UnhandledRejection, Kill
    <2> QED BY <1>0, <2>1, <2>2, DiesOf, DiesLedger
  <1>11. CASE UNCHANGED vars
    <2>1. UNCHANGED <<together, ledger, items, base, plan, pc, outcome, exitCode, task, steps, closing>>
      BY <1>11 DEF vars, fileVars, engineVars
    <2>2. \A q \in Runs : /\ (Pending(q)' <=> Pending(q)) /\ (Complete(q)' <=> Complete(q)) /\ PutBy(q)' = PutBy(q)
                          /\ ItemsOf(q)' = ItemsOf(q)
      BY <2>1 DEF Pending, Complete, Over, PutBy, ItemsOf, Entries
    <2>3. AllPut' = AllPut /\ PendingRuns' = PendingRuns /\ WholeItems' = WholeItems
      BY <2>1, <2>2 DEF AllPut, PendingRuns, WholeItems
    <2>4. ItemsInv' BY <2>1, <2>2 DEF ItemsInv
    <2>5. LedgerInv' BY <2>1, <2>3 DEF LedgerInv, Small
    <2> QED BY <2>4, <2>5
  <1> QED BY <1>1, <1>2, <1>3, <1>4, <1>5, <1>6, <1>7, <1>8, <1>9, <1>10, <1>11 DEF Next, Progress

\* Builds that do not overlap all leave their items in the ledger, each in one piece, whichever of the others
\* crashed or was killed, as long as all that was ever put there is within the limit (PersistedFingerprintLedger).
THEOREM LedgerHasTheRuns == Spec => []LedgerKeepsRuns
  <1>1. Init => ItemsInv /\ LedgerInv
    <2> SUFFICES ASSUME Init PROVE ItemsInv /\ LedgerInv OBVIOUS
    <2>1. DOMAIN items = Runs /\ DOMAIN base = Runs /\ ledger = <<>> BY DEF Init
    <2>2. ASSUME NEW r \in Runs
          PROVE  pc[r] = "none" /\ items[r] = <<>> /\ exitCode[r] = NoExit /\ closing[r] = {} /\ steps[r] = <<>>
      BY DEF Init
    <2>3. ASSUME NEW r \in Runs PROVE ItemsOf(r)
      <3>1. <<>> \in Seq(Entries(r)) /\ IsInjective(<<>>) /\ DOMAIN <<>> = {} BY DEF IsInjective
      <3>2. closing[r] \cap LedgerParts \subseteq {"ledger"} /\ exitCode[r] \notin {0, 2} BY <2>2 DEF NoExit
      <3>3. items[r] = <<>> BY <2>2
      <3> QED BY <3>1, <3>2, <3>3 DEF ItemsOf, LedgerParts
    <2>4. Good(<<>>, AllPut, PendingRuns, WholeItems)
      <3>1. <<>> \in Seq(AllPut) /\ IsInjective(<<>>) /\ DOMAIN <<>> = {} BY DEF IsInjective
      <3>2. \A q \in Runs : ~Complete(q) BY <2>2 DEF Complete, Over
      <3>3. WholeItems = {} BY <3>2 DEF WholeItems
      <3> QED BY <3>1, <3>3 DEF Good
    <2>5. LedgerInv BY <2>1, <2>2, <2>4 DEF LedgerInv
    <2> QED BY <2>1, <2>3, <2>5 DEF ItemsInv
  <1>2. Inv /\ ItemsInv /\ LedgerInv /\ [Next]_vars => ItemsInv' /\ LedgerInv' BY NextLedger
  <1>3. Inv /\ ItemsInv /\ LedgerInv => LedgerKeepsRuns
    <2> SUFFICES ASSUME Inv, ItemsInv, LedgerInv, ~together, ledger # Torn,
                        Cardinality(UNION {PutBy(r) : r \in Runs}) <= Limit,
                        NEW r \in Runs, Over(r), exitCode[r] \in {0, 2}
                 PROVE  \E i \in 0 .. Len(ledger) : i + Len(items[r]) <= Len(ledger)
                                     /\ SubSeq(ledger, i + 1, i + Len(items[r])) = items[r]
      BY DEF LedgerKeepsRuns
    <2>1. Good(ledger, AllPut, PendingRuns, WholeItems) BY DEF LedgerInv, Small, AllPut
    <2>2. pc[r] = "gone" /\ closing[r] = {} BY DEF Inv, Local, NoExit
    <2>3. outcome[r] # "CRASH" BY DEF ItemsInv, ItemsOf
    <2>4. Complete(r) BY <2>2, <2>3 DEF Complete, Pending
    <2>5. Holds(ledger, items[r]) BY <2>1, <2>4 DEF Good, WholeItems
    <2> QED BY <2>5 DEF Holds
  <1> QED BY <1>1, <1>2, <1>3, Invariance, PTL DEF Spec
=============================================================================
