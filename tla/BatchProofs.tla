---------------------------- MODULE BatchProofs ----------------------------
(***************************************************************************)
(* The safety of the desktop application for every set of files and every  *)
(* bound.  IInv is inductive: TypeStep, UiStep, BatchStep, QueueStep and   *)
(* RowStep each prove one conjunct, with one step per action.  ReportStep  *)
(* maps every action to a step of BatchReport.                             *)
(***************************************************************************)
EXTENDS BatchProcessing, TLAPS, SequenceTheorems, FiniteSetTheorems

LEMMA InitTyped == Init => TypeOK
  <1> SUFFICES ASSUME Init PROVE TypeOK
    OBVIOUS
  <1>1. /\ tasks \in Seq(Task)
        /\ activeTasks \in Seq(Task)
        /\ dialogs \in Seq(Dialogs)
        /\ events \in Seq(Event)
    BY EmptySeq DEF Init
  <1>2. /\ removals \in [Task -> 0 .. MaxRemoves]
        /\ requests \in [Batch -> Seq(Task)]
        /\ wsteps \in [Batch -> 0 .. MaxProgress]
    BY EmptySeq, BoundsAssumption DEF Init
  <1>3. /\ windex \in [Batch -> Nat]
        /\ wpc \in [Batch -> Pcs]
        /\ cancelled \in [Batch -> BOOLEAN]
        /\ quit \in [Batch -> BOOLEAN]
        /\ taskState \in [Task -> TaskStates]
    BY DEF Init, Pcs, TaskStates
  <1>4. /\ workerThread \in Batch \cup {None}
        /\ workerPtr \in Batch \cup {None}
        /\ batch \in 0 .. MaxBatches
    BY BoundsAssumption DEF Init
  <1>5. /\ processing \in BOOLEAN
        /\ closeWhenFinished \in BOOLEAN
        /\ resultSuccess \in Nat
        /\ resultFailure \in Nat
        /\ resultCard \in Cards
        /\ window \in {"open", "closed", "destroying", "exited"}
        /\ closePosts \in Nat
    BY DEF Init, Cards
  <1> QED
    BY <1>1, <1>2, <1>3, <1>4, <1>5 DEF TypeOK


LEMMA RemoveTyped ==
  ASSUME NEW S, NEW s \in Seq(S), NEW i \in DOMAIN s
  PROVE  RemoveAt(s, i) \in Seq(S)
  BY DEF RemoveAt

LEMMA TypeStep == TypeOK /\ [Next]_vars => TypeOK'
  <1> SUFFICES ASSUME TypeOK, [Next]_vars PROVE TypeOK'
    OBVIOUS
  <1> USE DEF resultVars, guiVars, ptrVars, uiVars, timerVars, workerVars
  <1>1. ASSUME NEW t \in Task, AddFile(t) PROVE TypeOK'
    <2>1. tasks' \in Seq(Task)
      BY <1>1, AppendProperties DEF AddFile, TypeOK
    <2>2. taskState' \in [Task -> TaskStates]
      BY <1>1 DEF AddFile, TypeOK, TaskStates
    <2>3. resultCard' \in Cards
      BY <1>1 DEF AddFile, TypeOK, Cards
    <2> QED
      BY <1>1, <2>1, <2>2, <2>3 DEF AddFile, TypeOK
  <1>2. ASSUME NEW t \in Task, RemoveClicked(t) PROVE TypeOK'
    <2>1. removals' \in [Task -> 0 .. MaxRemoves]
      BY <1>2, BoundsAssumption DEF RemoveClicked, TypeOK
    <2> QED
      BY <1>2, <2>1 DEF RemoveClicked, TypeOK
  <1>3. ASSUME ClearTasks PROVE TypeOK'
    <2>1. tasks' \in Seq(Task) /\ activeTasks' \in Seq(Task)
      BY <1>3, EmptySeq DEF ClearTasks, ClearList
    <2>2. resultCard' \in Cards
      BY <1>3 DEF ClearTasks, ClearList, Cards
    <2> QED
      BY <1>3, <2>1, <2>2 DEF ClearTasks, TypeOK
  <1>4. ASSUME SetMode PROVE TypeOK'
    <2>1. dialogs' \in Seq(Dialogs)
      BY <1>4 DEF SetMode, Dialogs, TypeOK
    <2> QED
      BY <1>4, <2>1 DEF SetMode, Dialogs, TypeOK
  <1>5. ASSUME NEW yes \in BOOLEAN, AnswerMode(yes) PROVE TypeOK'
    <2>1. tasks' \in Seq(Task) /\ activeTasks' \in Seq(Task)
      BY <1>5, EmptySeq DEF AnswerMode, ClearList, TypeOK
    <2>2. dialogs' \in Seq(Dialogs)
      BY <1>5 DEF AnswerMode, TypeOK, Answering, Front
    <2>3. resultCard' \in Cards
      BY <1>5 DEF AnswerMode, ClearList, TypeOK, Cards
    <2> QED
      BY <1>5, <2>1, <2>2, <2>3 DEF AnswerMode, TypeOK
  <1>6. ASSUME NEW yes \in BOOLEAN, AnswerExisting(yes) PROVE TypeOK'
    <2>1. dialogs' \in Seq(Dialogs)
      BY <1>6 DEF AnswerExisting, TypeOK, Answering, Front
    <2>2. activeTasks' \in Seq(Task)
      BY <1>6 DEF AnswerExisting, BeginBatch, TypeOK
    <2>3. taskState' \in [Task -> TaskStates]
      BY <1>6 DEF AnswerExisting, BeginBatch, TypeOK, TaskStates
    <2>4. resultSuccess' \in Nat /\ resultFailure' \in Nat /\ resultCard' \in Cards
      <3>1. CASE yes
        <4>1. resultSuccess' = 0 /\ resultFailure' = 0 /\ resultCard' = "hidden"
          BY <1>6, <3>1 DEF AnswerExisting, BeginBatch
        <4> QED
          BY <4>1 DEF Cards
      <3>2. CASE ~yes
        BY <1>6, <3>2 DEF AnswerExisting, resultVars, TypeOK
      <3> QED
        BY <3>1, <3>2
    <2>5. processing' \in BOOLEAN
      BY <1>6 DEF AnswerExisting, BeginBatch, TypeOK
    <2>6. /\ batch' \in 0 .. MaxBatches
          /\ workerPtr' \in Batch \cup {None}
          /\ workerThread' \in Batch \cup {None}
      <3>1. batch < MaxBatches => batch + 1 \in Batch
        BY BoundsAssumption DEF TypeOK, Batch
      <3>2. Batch \subseteq 0 .. MaxBatches
        BY BoundsAssumption DEF Batch
      <3> QED
        BY <1>6, <3>1, <3>2 DEF AnswerExisting, BeginBatch, TypeOK
    <2>7. requests' \in [Batch -> Seq(Task)]
      BY <1>6 DEF AnswerExisting, BeginBatch, TypeOK
    <2>8. wpc' \in [Batch -> Pcs]
      BY <1>6 DEF AnswerExisting, BeginBatch, TypeOK, Pcs
    <2> QED
      BY <1>6, <2>1, <2>2, <2>3, <2>4, <2>5, <2>6, <2>7, <2>8 DEF AnswerExisting, TypeOK
  <1>7. ASSUME NEW yes \in BOOLEAN, AnswerClose(yes) PROVE TypeOK'
    <2>1. dialogs' \in Seq(Dialogs)
      BY <1>7 DEF AnswerClose, TypeOK, Answering, Front
    <2>2. closeWhenFinished' \in BOOLEAN
      BY <1>7 DEF AnswerClose, TypeOK
    <2>3. cancelled' \in [Batch -> BOOLEAN]
      BY <1>7 DEF AnswerClose, RequestCancel, TypeOK
    <2> QED
      BY <1>7, <2>1, <2>2, <2>3 DEF AnswerClose, TypeOK
  <1>8. ASSUME NEW out \in BOOLEAN, StartClicked(out) PROVE TypeOK'
    <2>1. dialogs' \in Seq(Dialogs)
      <3>1. <<"existing">> \in Seq(Dialogs)
        BY DEF Dialogs
      <3> QED
        BY <1>8, <3>1 DEF StartClicked, TypeOK
    <2>2. activeTasks' \in Seq(Task)
      BY <1>8 DEF StartClicked, BeginBatch, TypeOK
    <2>3. taskState' \in [Task -> TaskStates]
      BY <1>8 DEF StartClicked, BeginBatch, TypeOK, TaskStates
    <2>4. resultSuccess' \in Nat /\ resultFailure' \in Nat /\ resultCard' \in Cards
      BY <1>8 DEF StartClicked, BeginBatch, TypeOK, Cards
    <2>5. processing' \in BOOLEAN
      BY <1>8 DEF StartClicked, BeginBatch, TypeOK
    <2>6. /\ batch' \in 0 .. MaxBatches
          /\ workerPtr' \in Batch \cup {None}
          /\ workerThread' \in Batch \cup {None}
      <3>1. batch < MaxBatches => batch + 1 \in Batch
        BY BoundsAssumption DEF TypeOK, Batch
      <3>2. Batch \subseteq 0 .. MaxBatches
        BY BoundsAssumption DEF Batch
      <3> QED
        BY <1>8, <3>1, <3>2 DEF StartClicked, BeginBatch, TypeOK
    <2>7. requests' \in [Batch -> Seq(Task)]
      BY <1>8 DEF StartClicked, BeginBatch, TypeOK
    <2>8. wpc' \in [Batch -> Pcs]
      BY <1>8 DEF StartClicked, BeginBatch, TypeOK, Pcs
    <2> QED
      BY <1>8, <2>1, <2>2, <2>3, <2>4, <2>5, <2>6, <2>7, <2>8 DEF StartClicked, TypeOK
  <1>9. ASSUME CancelClicked PROVE TypeOK'
    <2>1. cancelled' \in [Batch -> BOOLEAN]
      BY <1>9 DEF CancelClicked, RequestCancel, TypeOK
    <2> QED
      BY <1>9, <2>1 DEF CancelClicked, TypeOK
  <1>10. ASSUME CloseRequested PROVE TypeOK'
    <2>1. dialogs' \in Seq(Dialogs)
      <3>1. Append(dialogs, "close") \in Seq(Dialogs)
        BY AppendProperties DEF TypeOK, Dialogs
      <3> QED
        BY <1>10, <3>1, EmptySeq DEF CloseRequested, CloseEvent, TypeOK
    <2>2. window' \in {"open", "closed", "destroying", "exited"}
      BY <1>10 DEF CloseRequested, CloseEvent, TypeOK
    <2> QED
      BY <1>10, <2>1, <2>2 DEF CloseRequested, TypeOK
  <1>11. ASSUME HandleTaskStarted PROVE TypeOK'
    <2>1. events' \in Seq(Event)
      BY <1>11, HeadTailProperties DEF HandleTaskStarted, Delivering, TypeOK
    <2>2. taskState' \in [Task -> TaskStates]
      BY <1>11 DEF HandleTaskStarted, InActive, TypeOK, TaskStates
    <2> QED
      BY <1>11, <2>1, <2>2 DEF HandleTaskStarted, TypeOK
  <1>12. ASSUME HandleTaskProgress PROVE TypeOK'
    <2>1. events' \in Seq(Event)
      BY <1>12, HeadTailProperties DEF HandleTaskProgress, Delivering, TypeOK
    <2> QED
      BY <1>12, <2>1 DEF HandleTaskProgress, TypeOK
  <1>13. ASSUME HandleTaskFinished PROVE TypeOK'
    <2>1. events' \in Seq(Event)
      BY <1>13, HeadTailProperties DEF HandleTaskFinished, Delivering, TypeOK
    <2>2. taskState' \in [Task -> TaskStates]
      BY <1>13 DEF HandleTaskFinished, InActive, TypeOK, EndState, TaskStates
    <2>3. resultSuccess' \in Nat /\ resultFailure' \in Nat
      <3>1. resultSuccess \in Nat /\ resultFailure \in Nat
        BY DEF TypeOK
      <3>2. \/ resultSuccess' = resultSuccess + 1 /\ resultFailure' = resultFailure + 0
            \/ resultSuccess' = resultSuccess + 0 /\ resultFailure' = resultFailure + 1
            \/ resultSuccess' = resultSuccess /\ resultFailure' = resultFailure
        BY <1>13 DEF HandleTaskFinished
      <3> QED
        BY ONLY <3>1, <3>2
    <2> QED
      BY <1>13, <2>1, <2>2, <2>3 DEF HandleTaskFinished, TypeOK
  <1>14. ASSUME HandleAllFinished PROVE TypeOK'
    <2>1. events' \in Seq(Event)
      BY <1>14, HeadTailProperties DEF HandleAllFinished, Delivering, TypeOK
    <2>2. taskState' \in [Task -> TaskStates]
      BY <1>14 DEF HandleAllFinished, TypeOK, TaskStates
    <2>3. processing' \in BOOLEAN
      BY <1>14 DEF HandleAllFinished
    <2>4. resultCard' \in Cards
      BY <1>14 DEF HandleAllFinished, ResultCard, Cards
    <2> QED
      BY <1>14, <2>1, <2>2, <2>3, <2>4 DEF HandleAllFinished, TypeOK
  <1>15. ASSUME HandleQuit PROVE TypeOK'
    <2>1. events' \in Seq(Event)
      BY <1>15, HeadTailProperties DEF HandleQuit, Delivering, TypeOK
    <2>2. quit' \in [Batch -> BOOLEAN]
      BY <1>15 DEF HandleQuit, TypeOK
    <2> QED
      BY <1>15, <2>1, <2>2 DEF HandleQuit, TypeOK
  <1>16. ASSUME HandleThreadFinished PROVE TypeOK'
    <2>1. events' \in Seq(Event)
      BY <1>16, HeadTailProperties DEF HandleThreadFinished, Delivering, TypeOK
    <2>2. workerPtr' \in Batch \cup {None} /\ workerThread' \in Batch \cup {None}
      BY <1>16 DEF HandleThreadFinished, TypeOK
    <2>3. closePosts' \in Nat
      <3>1. (IF closeWhenFinished THEN 1 ELSE 0) \in Nat
        OBVIOUS
      <3> QED
        BY <1>16, <3>1 DEF HandleThreadFinished, TypeOK
    <2>4. closeWhenFinished' \in BOOLEAN
      BY <1>16 DEF HandleThreadFinished
    <2> QED
      BY <1>16, <2>1, <2>2, <2>3, <2>4 DEF HandleThreadFinished, TypeOK
  <1>17. ASSUME NEW t \in Task, HandleRemove(t) PROVE TypeOK'
    <2>1. tasks' \in Seq(Task)
      BY <1>17, RemoveTyped DEF HandleRemove, TypeOK
    <2>2. removals' \in [Task -> 0 .. MaxRemoves]
      BY <1>17, BoundsAssumption DEF HandleRemove, TypeOK
    <2>3. resultCard' \in Cards
      BY <1>17 DEF HandleRemove, TypeOK, Cards
    <2> QED
      BY <1>17, <2>1, <2>2, <2>3 DEF HandleRemove, TypeOK
  <1>18. ASSUME HandlePostedClose PROVE TypeOK'
    <2>1. dialogs' \in Seq(Dialogs)
      <3>1. Append(dialogs, "close") \in Seq(Dialogs)
        BY AppendProperties DEF TypeOK, Dialogs
      <3> QED
        BY <1>18, <3>1, EmptySeq DEF HandlePostedClose, CloseEvent, TypeOK
    <2>2. window' \in {"open", "closed", "destroying", "exited"}
      BY <1>18 DEF HandlePostedClose, CloseEvent, TypeOK
    <2>3. closePosts' \in Nat
      BY <1>18 DEF HandlePostedClose, TypeOK
    <2> QED
      BY <1>18, <2>1, <2>2, <2>3 DEF HandlePostedClose, TypeOK
  <1>19. ASSUME NEW b \in Batch, WorkerTakeTask(b) PROVE TypeOK'
    <2>1. events' \in Seq(Event)
      BY <1>19, AppendProperties DEF WorkerTakeTask, Post, Event, TypeOK, EventTypes, TaskEvents, Outcomes
    <2>2. wpc' \in [Batch -> Pcs]
      BY <1>19 DEF WorkerTakeTask, TypeOK, Pcs
    <2> QED
      BY <1>19, <2>1, <2>2 DEF WorkerTakeTask, TypeOK
  <1>20. ASSUME NEW b \in Batch, WorkerProgress(b) PROVE TypeOK'
    <2>1. events' \in Seq(Event)
      BY <1>20, AppendProperties DEF WorkerProgress, Post, Event, TypeOK, EventTypes, TaskEvents, Outcomes
    <2>2. wpc' \in [Batch -> Pcs]
      BY <1>20 DEF WorkerProgress, TypeOK, Pcs
    <2>3. wsteps' \in [Batch -> 0 .. MaxProgress]
      <3>1. wsteps \in [Batch -> 0 .. MaxProgress]
        BY DEF TypeOK
      <3>2. wsteps[b] < MaxProgress /\ wsteps' = [wsteps EXCEPT ![b] = @ + 1]
        BY <1>20 DEF WorkerProgress
      <3>3. wsteps[b] + 1 \in 0 .. MaxProgress
        BY <3>1, <3>2, BoundsAssumption
      <3> QED
        BY ONLY <3>1, <3>2, <3>3
    <2> QED
      BY <1>20, <2>1, <2>2, <2>3 DEF WorkerProgress, TypeOK
  <1>21. ASSUME NEW b \in Batch, NEW outcome \in Outcomes, WorkerFinishTask(b, outcome) PROVE TypeOK'
    <2>1. events' \in Seq(Event)
      BY <1>21, AppendProperties DEF WorkerFinishTask, Post, Event, TypeOK, EventTypes, TaskEvents, Outcomes
    <2>2. wpc' \in [Batch -> Pcs]
      BY <1>21 DEF WorkerFinishTask, TypeOK, Pcs
    <2>3. windex' \in [Batch -> Nat]
      <3>1. windex' = [windex EXCEPT ![b] = @ + 1] \/ windex' = windex
        BY <1>21 DEF WorkerFinishTask
      <3>2. windex \in [Batch -> Nat]
        BY DEF TypeOK
      <3> QED
        BY ONLY <3>1, <3>2
    <2>4. wsteps' \in [Batch -> 0 .. MaxProgress]
      BY <1>21, BoundsAssumption DEF WorkerFinishTask, TypeOK
    <2> QED
      BY <1>21, <2>1, <2>2, <2>3, <2>4 DEF WorkerFinishTask, TypeOK
  <1>22. ASSUME NEW b \in Batch, WorkerAllFinished(b) PROVE TypeOK'
    <2>1. events' \in Seq(Event)
      BY <1>22, AppendProperties DEF WorkerAllFinished, Post, Event, TypeOK, EventTypes, TaskEvents, Outcomes
    <2>2. wpc' \in [Batch -> Pcs]
      BY <1>22 DEF WorkerAllFinished, TypeOK, Pcs
    <2> QED
      BY <1>22, <2>1, <2>2 DEF WorkerAllFinished, TypeOK
  <1>23. ASSUME NEW b \in Batch, WorkerPostQuit(b) PROVE TypeOK'
    <2>1. events' \in Seq(Event)
      BY <1>23, AppendProperties DEF WorkerPostQuit, Post, Event, TypeOK, EventTypes, TaskEvents, Outcomes
    <2>2. wpc' \in [Batch -> Pcs]
      BY <1>23 DEF WorkerPostQuit, TypeOK, Pcs
    <2> QED
      BY <1>23, <2>1, <2>2 DEF WorkerPostQuit, TypeOK
  <1>24. ASSUME NEW b \in Batch, ThreadFinish(b) PROVE TypeOK'
    <2>1. events' \in Seq(Event)
      BY <1>24, AppendProperties DEF ThreadFinish, Post, Event, TypeOK, EventTypes, TaskEvents, Outcomes
    <2>2. wpc' \in [Batch -> Pcs]
      BY <1>24 DEF ThreadFinish, TypeOK, Pcs
    <2>3. workerPtr' \in Batch \cup {None}
      BY <1>24 DEF ThreadFinish, TypeOK
    <2> QED
      BY <1>24, <2>1, <2>2, <2>3 DEF ThreadFinish, TypeOK
  <1>25. ASSUME DestroyWindow PROVE TypeOK'
    <2>1. cancelled' \in [Batch -> BOOLEAN]
      BY <1>25 DEF DestroyWindow, TypeOK
    <2>2. quit' \in [Batch -> BOOLEAN]
      BY <1>25 DEF DestroyWindow, TypeOK
    <2>3. window' \in {"open", "closed", "destroying", "exited"}
      BY <1>25 DEF DestroyWindow
    <2> QED
      BY <1>25, <2>1, <2>2, <2>3 DEF DestroyWindow, TypeOK
  <1>26. ASSUME ExitProgram PROVE TypeOK'
    <2>1. window' \in {"open", "closed", "destroying", "exited"}
      BY <1>26 DEF ExitProgram
    <2> QED
      BY <1>26, <2>1 DEF ExitProgram, TypeOK
  <1>27. CASE UNCHANGED vars
    BY <1>27 DEF TypeOK, vars
  <1> QED
    BY <1>1, <1>2, <1>3, <1>4, <1>5, <1>6, <1>7, <1>8, <1>9, <1>10, <1>11, <1>12, <1>13, <1>14, <1>15, <1>16, <1>17, <1>18, <1>19, <1>20, <1>21, <1>22, <1>23, <1>24, <1>25, <1>26, <1>27
    DEF Next, User, HandleEvent, Timers, Worker, Terminated

LEMMA DeliverFacts ==
  ASSUME events \in Seq(Event), NEW type, Delivering(type)
  PROVE  /\ events' \in Seq(Event)
         /\ 1 \in DOMAIN events
         /\ Head(events) = events[1]
         /\ Head(events) \in Event
         /\ Head(events).type = type
         /\ \A k \in DOMAIN events' :
               k \in Nat /\ k + 1 \in DOMAIN events /\ events'[k] = events[k + 1]
  BY HeadTailProperties DEF Delivering

LEMMA PostFacts ==
  ASSUME events \in Seq(Event),
         NEW type \in EventTypes, NEW b \in Batch, NEW i \in Nat,
         NEW outcome \in Outcomes, Post(type, b, i, outcome)
  PROVE  /\ events' \in Seq(Event)
         /\ \A k \in DOMAIN events' :
               \/ k \in DOMAIN events /\ events'[k] = events[k]
               \/ /\ k = Len(events) + 1
                  /\ events'[k].type = type
                  /\ events'[k].batch = b
                  /\ events'[k].index = i
         /\ \A j \in DOMAIN events : j \in Nat /\ j < Len(events) + 1
  <1> DEFINE e == [type |-> type, batch |-> b, index |-> i, outcome |-> outcome]
  <1>1. e \in Event
    BY DEF Event
  <1>2. events' = Append(events, e)
    BY DEF Post
  <1> HIDE DEF e
  <1>3. /\ events' \in Seq(Event)
        /\ \A k \in DOMAIN events' :
              \/ k \in DOMAIN events /\ events'[k] = events[k]
              \/ k = Len(events) + 1 /\ events'[k] = e
        /\ \A j \in DOMAIN events : j \in Nat /\ j < Len(events) + 1
    BY <1>1, <1>2, AppendProperties
  <1> QED
    BY <1>3 DEF e

\* A change that no queued event depends on.
LEMMA QueueFrame ==
  ASSUME QueueInv, UNCHANGED <<events, processing, batch, tasks, wpc>>
  PROVE  QueueInv'
  BY DEF QueueInv, EventOK, Running

\* Without a batch the queue holds thread events only, and the list may change.
LEMMA IdleQueueFrame ==
  ASSUME QueueInv, ~processing, UNCHANGED <<events, wpc>>
  PROVE  QueueInv'
  BY DEF QueueInv, EventOK

\* Delivering an event leaves a queue whose events are still in order.
LEMMA DeliverQueue ==
  ASSUME IInv, NEW type, Delivering(type),
         UNCHANGED <<processing, batch, tasks, wpc>>
  PROVE  QueueInv'
  <1>1. /\ DOMAIN events = 1 .. Len(events)
        /\ \A k \in DOMAIN events' :
              k \in Nat /\ k + 1 \in DOMAIN events /\ events'[k] = events[k + 1]
    BY DeliverFacts DEF IInv, TypeOK
  <1>2. \A e : EventOK(e) => EventOK(e)'
    BY DEF EventOK, Running
  <1>3. (\A k \in DOMAIN events : EventOK(events[k]))'
    BY <1>1, <1>2 DEF IInv, QueueInv, EventOK
  <1>4. \A j, k \in DOMAIN events' : j < k /\ events'[j].type = "allFinished" =>
           events'[k].type \notin TaskEvents \cup {"allFinished"}
    BY <1>1 DEF IInv, QueueInv
  <1> QED
    BY <1>3, <1>4 DEF QueueInv

\* Posting an event keeps the order if no allFinished waits before a task's.
LEMMA PostQueue ==
  ASSUME IInv,
         NEW type \in EventTypes, NEW b \in Batch, NEW i \in Nat,
         NEW outcome \in Outcomes, Post(type, b, i, outcome),
         \A e : EventOK(e) => EventOK(e)',
         \A e : e.type = type /\ e.batch = b /\ e.index = i => EventOK(e)',
         type \in TaskEvents \cup {"allFinished"} =>
             \A k \in DOMAIN events : events[k].type # "allFinished"
  PROVE  QueueInv'
  <1>1. \A k \in DOMAIN events' :
           \/ k \in DOMAIN events /\ events'[k] = events[k]
           \/ /\ k = Len(events) + 1
              /\ events'[k].type = type
              /\ events'[k].batch = b
              /\ events'[k].index = i
    BY PostFacts DEF IInv, TypeOK
  <1>2. \A j \in DOMAIN events : j \in Nat /\ j < Len(events) + 1
    BY PostFacts DEF IInv, TypeOK
  <1>3. (\A k \in DOMAIN events : EventOK(events[k]))'
    BY <1>1 DEF IInv, QueueInv, EventOK
  <1>4. Len(events) \in Nat
    BY DEF IInv, TypeOK
  <1>5. \A j, k \in DOMAIN events' : j < k /\ events'[j].type = "allFinished" =>
           events'[k].type \notin TaskEvents \cup {"allFinished"}
    BY <1>1, <1>2, <1>4 DEF IInv, QueueInv
  <1> QED
    BY <1>3, <1>5 DEF QueueInv

\* The batch a click on Start begins meets an idle queue.
LEMMA BeginQueue ==
  ASSUME IInv, ~processing, BeginBatch, UNCHANGED <<tasks, events, windex>>
  PROVE  QueueInv' /\ BatchInv'
  <1>1. batch + 1 \in Batch /\ batch \in Nat
    BY BoundsAssumption DEF BeginBatch, IInv, TypeOK, Batch
  <1>2. wpc[batch + 1] = "none"
    BY <1>1 DEF IInv, BatchInv, Batch
  <1>3. wpc' = [wpc EXCEPT ![batch + 1] = "loop"]
    BY DEF BeginBatch
  <1>4. \A k \in DOMAIN events : EventOK(events[k])'
    <2> SUFFICES ASSUME NEW k \in DOMAIN events PROVE EventOK(events[k])'
      OBVIOUS
    <2>1. EventOK(events[k])
      BY DEF IInv, QueueInv
    <2>2. events[k] \in Event
      BY DEF IInv, TypeOK
    <2>3. events[k].batch \in Batch
      BY <2>2 DEF Event
    <2> QED
      BY <1>1, <1>2, <1>3, <2>1, <2>3 DEF EventOK, IInv, TypeOK
  <1>5. QueueInv'
    BY <1>4 DEF IInv, QueueInv
  <1>6. \A b \in Batch : ~Running(b)
    BY DEF IInv, BatchInv
  <1>7. BatchInv'
    BY <1>1, <1>3, <1>6 DEF BeginBatch, IInv, TypeOK, BatchInv, Running, Batch
  <1> QED
    BY <1>5, <1>7

LEMMA FrontFacts ==
  ASSUME dialogs \in Seq(Dialogs), NEW d, Answering(d)
  PROVE  /\ \A k \in DOMAIN dialogs' : k \in DOMAIN dialogs /\ dialogs'[k] = dialogs[k]
         /\ Len(dialogs) = 1 => dialogs' = <<>>
         /\ \E k \in DOMAIN dialogs : dialogs[k] = d
  <1>1. Len(dialogs) \in Nat \ {0} /\ DOMAIN dialogs = 1 .. Len(dialogs)
    BY DEF Answering
  <1>2. dialogs' = SubSeq(dialogs, 1, Len(dialogs) - 1)
    BY DEF Answering, Front
  <1>3. dialogs[Len(dialogs)] = d
    BY DEF Answering, Last
  <1>4. \A k \in DOMAIN dialogs' : k \in DOMAIN dialogs /\ dialogs'[k] = dialogs[k]
    BY <1>1, <1>2
  <1>5. Len(dialogs) = 1 => dialogs' = <<>>
    BY <1>2, SubSeqEmpty
  <1> QED
    BY <1>1, <1>3, <1>4, <1>5

LEMMA UiStep == IInv /\ [Next]_vars => UiInv'
  <1> SUFFICES ASSUME IInv, [Next]_vars PROVE UiInv'
    OBVIOUS
  <1> USE DEF resultVars, guiVars, ptrVars, uiVars, timerVars, workerVars
  <1>1. ASSUME NEW t \in Task, AddFile(t) PROVE UiInv'
    BY <1>1 DEF AddFile, IInv, TypeOK, UiInv
  <1>2. ASSUME NEW t \in Task, RemoveClicked(t) PROVE UiInv'
    BY <1>2 DEF RemoveClicked, IInv, TypeOK, UiInv
  <1>3. ASSUME ClearTasks PROVE UiInv'
    BY <1>3 DEF ClearTasks, IInv, TypeOK, UiInv
  <1>4. ASSUME SetMode PROVE UiInv'
    BY <1>4 DEF SetMode, IInv, TypeOK, UiInv, UserReady
  <1>5. ASSUME NEW yes \in BOOLEAN, AnswerMode(yes) PROVE UiInv'
    BY <1>5, FrontFacts DEF AnswerMode, Answering, IInv, TypeOK, UiInv
  <1>6. ASSUME NEW yes \in BOOLEAN, AnswerExisting(yes) PROVE UiInv'
    <2>1. dialogs' = <<>>
      BY <1>6, FrontFacts DEF AnswerExisting, IInv, TypeOK, UiInv
    <2>2. window' = window /\ window = "open"
      BY <1>6 DEF AnswerExisting, Answering
    <2> QED
      BY <2>1, <2>2 DEF UiInv
  <1>7. ASSUME NEW yes \in BOOLEAN, AnswerClose(yes) PROVE UiInv'
    BY <1>7, FrontFacts DEF AnswerClose, Answering, IInv, TypeOK, UiInv
  <1>8. ASSUME NEW out \in BOOLEAN, StartClicked(out) PROVE UiInv'
    BY <1>8 DEF StartClicked, IInv, TypeOK, UiInv, UserReady, BeginBatch
  <1>9. ASSUME CancelClicked PROVE UiInv'
    BY <1>9 DEF CancelClicked, IInv, TypeOK, UiInv
  <1>10. ASSUME CloseRequested PROVE UiInv'
    BY <1>10 DEF CloseRequested, IInv, TypeOK, UiInv, UserReady, CloseEvent
  <1>11. ASSUME HandleTaskStarted PROVE UiInv'
    BY <1>11 DEF HandleTaskStarted, IInv, TypeOK, UiInv
  <1>12. ASSUME HandleTaskProgress PROVE UiInv'
    BY <1>12 DEF HandleTaskProgress, IInv, TypeOK, UiInv
  <1>13. ASSUME HandleTaskFinished PROVE UiInv'
    BY <1>13 DEF HandleTaskFinished, IInv, TypeOK, UiInv
  <1>14. ASSUME HandleAllFinished PROVE UiInv'
    BY <1>14 DEF HandleAllFinished, IInv, TypeOK, UiInv
  <1>15. ASSUME HandleQuit PROVE UiInv'
    BY <1>15 DEF HandleQuit, IInv, TypeOK, UiInv
  <1>16. ASSUME HandleThreadFinished PROVE UiInv'
    BY <1>16 DEF HandleThreadFinished, IInv, TypeOK, UiInv
  <1>17. ASSUME NEW t \in Task, HandleRemove(t) PROVE UiInv'
    BY <1>17 DEF HandleRemove, IInv, TypeOK, UiInv
  <1>18. ASSUME HandlePostedClose PROVE UiInv'
    <2>1. CASE processing
      <3>1. CASE window = "open"
        <4>1. dialogs' = Append(dialogs, "close") /\ window' = window
          BY <1>18, <2>1, <3>1 DEF HandlePostedClose, CloseEvent
        <4>2. \A k \in DOMAIN dialogs : dialogs[k] = "close"
          BY <2>1 DEF IInv, UiInv
        <4>3. dialogs \in Seq(Dialogs) /\ "close" \in Dialogs
          BY DEF IInv, TypeOK, Dialogs
        <4>4. \A k \in DOMAIN dialogs' : dialogs'[k] = "close"
          BY <4>1, <4>2, <4>3, AppendProperties
        <4> QED
          BY <3>1, <4>1, <4>4 DEF UiInv
      <3> QED
        BY <1>18, <2>1, <3>1 DEF HandlePostedClose, IInv, UiInv
    <2>2. CASE ~processing
      BY <1>18, <2>2 DEF HandlePostedClose, CloseEvent, IInv, UiInv
    <2> QED
      BY <2>1, <2>2
  <1>19. ASSUME NEW b \in Batch, WorkerTakeTask(b) PROVE UiInv'
    BY <1>19 DEF WorkerTakeTask, IInv, TypeOK, UiInv
  <1>20. ASSUME NEW b \in Batch, WorkerProgress(b) PROVE UiInv'
    BY <1>20 DEF WorkerProgress, IInv, TypeOK, UiInv
  <1>21. ASSUME NEW b \in Batch, NEW outcome \in Outcomes, WorkerFinishTask(b, outcome) PROVE UiInv'
    BY <1>21 DEF WorkerFinishTask, IInv, TypeOK, UiInv
  <1>22. ASSUME NEW b \in Batch, WorkerAllFinished(b) PROVE UiInv'
    BY <1>22 DEF WorkerAllFinished, IInv, TypeOK, UiInv
  <1>23. ASSUME NEW b \in Batch, WorkerPostQuit(b) PROVE UiInv'
    BY <1>23 DEF WorkerPostQuit, IInv, TypeOK, UiInv
  <1>24. ASSUME NEW b \in Batch, ThreadFinish(b) PROVE UiInv'
    BY <1>24 DEF ThreadFinish, IInv, TypeOK, UiInv
  <1>25. ASSUME DestroyWindow PROVE UiInv'
    BY <1>25 DEF DestroyWindow, IInv, TypeOK, UiInv
  <1>26. ASSUME ExitProgram PROVE UiInv'
    BY <1>26 DEF ExitProgram, IInv, TypeOK, UiInv
  <1>27. CASE UNCHANGED vars
    BY <1>27 DEF IInv, UiInv, vars
  <1> QED
    BY <1>1, <1>2, <1>3, <1>4, <1>5, <1>6, <1>7, <1>8, <1>9, <1>10, <1>11, <1>12, <1>13, <1>14, <1>15, <1>16, <1>17, <1>18, <1>19, <1>20, <1>21, <1>22, <1>23, <1>24, <1>25, <1>26, <1>27
    DEF Next, User, HandleEvent, Timers, Worker, Terminated

LEMMA BatchStep == IInv /\ [Next]_vars => BatchInv'
  <1> SUFFICES ASSUME IInv, [Next]_vars PROVE BatchInv'
    OBVIOUS
  <1> USE DEF resultVars, guiVars, ptrVars, uiVars, timerVars, workerVars
  <1>1. ASSUME NEW t \in Task, AddFile(t) PROVE BatchInv'
    BY <1>1 DEF AddFile, IInv, TypeOK, BatchInv, Running
  <1>2. ASSUME NEW t \in Task, RemoveClicked(t) PROVE BatchInv'
    BY <1>2 DEF RemoveClicked, IInv, TypeOK, BatchInv, Running
  <1>3. ASSUME ClearTasks PROVE BatchInv'
    BY <1>3 DEF ClearTasks, IInv, TypeOK, BatchInv, Running, ClearList
  <1>4. ASSUME SetMode PROVE BatchInv'
    BY <1>4 DEF SetMode, IInv, TypeOK, BatchInv, Running
  <1>5. ASSUME NEW yes \in BOOLEAN, AnswerMode(yes) PROVE BatchInv'
    BY <1>5 DEF AnswerMode, IInv, TypeOK, BatchInv, Running, ClearList
  <1>6. ASSUME NEW yes \in BOOLEAN, AnswerExisting(yes) PROVE BatchInv'
    <2>1. ~processing
      BY <1>6, FrontFacts DEF AnswerExisting, IInv, TypeOK, UiInv
    <2>2. CASE yes
      BY <1>6, <2>1, <2>2, BeginQueue DEF AnswerExisting
    <2>3. CASE ~(yes)
      BY <1>6, <2>3 DEF AnswerExisting, IInv, BatchInv, Running
    <2> QED
      BY <2>2, <2>3
  <1>7. ASSUME NEW yes \in BOOLEAN, AnswerClose(yes) PROVE BatchInv'
    BY <1>7 DEF AnswerClose, IInv, TypeOK, BatchInv, Running
  <1>8. ASSUME NEW out \in BOOLEAN, StartClicked(out) PROVE BatchInv'
    <2>1. ~processing
      BY <1>8 DEF StartClicked
    <2>2. CASE ~out
      BY <1>8, <2>1, <2>2, BeginQueue DEF StartClicked
    <2>3. CASE ~(~out)
      BY <1>8, <2>3 DEF StartClicked, IInv, BatchInv, Running
    <2> QED
      BY <2>2, <2>3
  <1>9. ASSUME CancelClicked PROVE BatchInv'
    BY <1>9 DEF CancelClicked, IInv, TypeOK, BatchInv, Running
  <1>10. ASSUME CloseRequested PROVE BatchInv'
    BY <1>10 DEF CloseRequested, IInv, TypeOK, BatchInv, Running
  <1>11. ASSUME HandleTaskStarted PROVE BatchInv'
    BY <1>11 DEF HandleTaskStarted, IInv, TypeOK, BatchInv, Running
  <1>12. ASSUME HandleTaskProgress PROVE BatchInv'
    BY <1>12 DEF HandleTaskProgress, IInv, TypeOK, BatchInv, Running
  <1>13. ASSUME HandleTaskFinished PROVE BatchInv'
    BY <1>13 DEF HandleTaskFinished, IInv, TypeOK, BatchInv, Running
  <1>14. ASSUME HandleAllFinished PROVE BatchInv'
    BY <1>14 DEF HandleAllFinished, IInv, TypeOK, BatchInv, Running, Delivering, QueueInv, EventOK
  <1>15. ASSUME HandleQuit PROVE BatchInv'
    BY <1>15 DEF HandleQuit, IInv, TypeOK, BatchInv, Running
  <1>16. ASSUME HandleThreadFinished PROVE BatchInv'
    BY <1>16 DEF HandleThreadFinished, IInv, TypeOK, BatchInv, Running, Delivering, QueueInv, EventOK
  <1>17. ASSUME NEW t \in Task, HandleRemove(t) PROVE BatchInv'
    BY <1>17 DEF HandleRemove, IInv, TypeOK, BatchInv, Running
  <1>18. ASSUME HandlePostedClose PROVE BatchInv'
    BY <1>18 DEF HandlePostedClose, IInv, TypeOK, BatchInv, Running
  <1>19. ASSUME NEW b \in Batch, WorkerTakeTask(b) PROVE BatchInv'
    BY <1>19 DEF WorkerTakeTask, IInv, TypeOK, BatchInv, Running
  <1>20. ASSUME NEW b \in Batch, WorkerProgress(b) PROVE BatchInv'
    BY <1>20 DEF WorkerProgress, IInv, TypeOK, BatchInv, Running
  <1>21. ASSUME NEW b \in Batch, NEW outcome \in Outcomes, WorkerFinishTask(b, outcome) PROVE BatchInv'
    BY <1>21 DEF WorkerFinishTask, IInv, TypeOK, BatchInv, Running, CodecReturns
  <1>22. ASSUME NEW b \in Batch, WorkerAllFinished(b) PROVE BatchInv'
    BY <1>22 DEF WorkerAllFinished, IInv, TypeOK, BatchInv, Running
  <1>23. ASSUME NEW b \in Batch, WorkerPostQuit(b) PROVE BatchInv'
    BY <1>23 DEF WorkerPostQuit, IInv, TypeOK, BatchInv, Running
  <1>24. ASSUME NEW b \in Batch, ThreadFinish(b) PROVE BatchInv'
    BY <1>24 DEF ThreadFinish, IInv, TypeOK, BatchInv, Running
  <1>25. ASSUME DestroyWindow PROVE BatchInv'
    BY <1>25 DEF DestroyWindow, IInv, TypeOK, BatchInv, Running
  <1>26. ASSUME ExitProgram PROVE BatchInv'
    BY <1>26 DEF ExitProgram, IInv, TypeOK, BatchInv, Running
  <1>27. CASE UNCHANGED vars
    BY <1>27 DEF IInv, BatchInv, vars, Running
  <1> QED
    BY <1>1, <1>2, <1>3, <1>4, <1>5, <1>6, <1>7, <1>8, <1>9, <1>10, <1>11, <1>12, <1>13, <1>14, <1>15, <1>16, <1>17, <1>18, <1>19, <1>20, <1>21, <1>22, <1>23, <1>24, <1>25, <1>26, <1>27
    DEF Next, User, HandleEvent, Timers, Worker, Terminated

LEMMA QueueStep == IInv /\ [Next]_vars => QueueInv'
  <1> SUFFICES ASSUME IInv, [Next]_vars PROVE QueueInv'
    OBVIOUS
  <1> USE DEF resultVars, guiVars, ptrVars, uiVars, timerVars, workerVars
  <1>1. ASSUME NEW t \in Task, AddFile(t) PROVE QueueInv'
    BY <1>1, QueueFrame, IdleQueueFrame DEF AddFile, IInv
  <1>2. ASSUME NEW t \in Task, RemoveClicked(t) PROVE QueueInv'
    BY <1>2, QueueFrame DEF RemoveClicked, IInv
  <1>3. ASSUME ClearTasks PROVE QueueInv'
    BY <1>3, QueueFrame, IdleQueueFrame DEF ClearTasks, IInv
  <1>4. ASSUME SetMode PROVE QueueInv'
    BY <1>4, QueueFrame DEF SetMode, IInv
  <1>5. ASSUME NEW yes \in BOOLEAN, AnswerMode(yes) PROVE QueueInv'
    BY <1>5, QueueFrame, IdleQueueFrame DEF AnswerMode, IInv
  <1>6. ASSUME NEW yes \in BOOLEAN, AnswerExisting(yes) PROVE QueueInv'
    <2>1. ~processing
      BY <1>6, FrontFacts DEF AnswerExisting, IInv, TypeOK, UiInv
    <2>2. CASE yes
      BY <1>6, <2>1, <2>2, BeginQueue DEF AnswerExisting
    <2>3. CASE ~(yes)
      BY <1>6, <2>3, QueueFrame DEF AnswerExisting, IInv
    <2> QED
      BY <2>2, <2>3
  <1>7. ASSUME NEW yes \in BOOLEAN, AnswerClose(yes) PROVE QueueInv'
    BY <1>7, QueueFrame DEF AnswerClose, IInv
  <1>8. ASSUME NEW out \in BOOLEAN, StartClicked(out) PROVE QueueInv'
    <2>1. ~processing
      BY <1>8 DEF StartClicked
    <2>2. CASE ~out
      BY <1>8, <2>1, <2>2, BeginQueue DEF StartClicked
    <2>3. CASE ~(~out)
      BY <1>8, <2>3, QueueFrame DEF StartClicked, IInv
    <2> QED
      BY <2>2, <2>3
  <1>9. ASSUME CancelClicked PROVE QueueInv'
    BY <1>9, QueueFrame DEF CancelClicked, IInv
  <1>10. ASSUME CloseRequested PROVE QueueInv'
    BY <1>10, QueueFrame DEF CloseRequested, IInv
  <1>11. ASSUME HandleTaskStarted PROVE QueueInv'
    BY <1>11, DeliverQueue DEF HandleTaskStarted
  <1>12. ASSUME HandleTaskProgress PROVE QueueInv'
    BY <1>12, DeliverQueue DEF HandleTaskProgress
  <1>13. ASSUME HandleTaskFinished PROVE QueueInv'
    BY <1>13, DeliverQueue DEF HandleTaskFinished
  <1>14. ASSUME HandleAllFinished PROVE QueueInv'
    <2>1. /\ Delivering("allFinished") /\ UNCHANGED <<batch, tasks, wpc>>
          /\ ~processing'
      BY <1>14 DEF HandleAllFinished
    <2>2. /\ 1 \in DOMAIN events
          /\ events[1].type = "allFinished"
          /\ DOMAIN events = 1 .. Len(events)
          /\ \A k \in DOMAIN events' :
                k \in Nat /\ k + 1 \in DOMAIN events /\ events'[k] = events[k + 1]
      BY <2>1, DeliverFacts DEF IInv, TypeOK
    <2>3. \A k \in DOMAIN events' :
             events'[k].type \notin TaskEvents \cup {"allFinished"}
      BY <2>2 DEF IInv, QueueInv
    <2>4. (\A k \in DOMAIN events : EventOK(events[k]))'
      BY <2>1, <2>2, <2>3 DEF IInv, QueueInv, EventOK
    <2> QED
      BY <2>3, <2>4 DEF QueueInv
  <1>15. ASSUME HandleQuit PROVE QueueInv'
    BY <1>15, DeliverQueue DEF HandleQuit
  <1>16. ASSUME HandleThreadFinished PROVE QueueInv'
    BY <1>16, DeliverQueue DEF HandleThreadFinished
  <1>17. ASSUME NEW t \in Task, HandleRemove(t) PROVE QueueInv'
    BY <1>17, QueueFrame, IdleQueueFrame DEF HandleRemove, IInv
  <1>18. ASSUME HandlePostedClose PROVE QueueInv'
    BY <1>18, QueueFrame DEF HandlePostedClose, IInv
  <1>19. ASSUME NEW b \in Batch, WorkerTakeTask(b) PROVE QueueInv'
    <2>1. /\ Post("taskStarted", b, windex[b], "none")
          /\ "taskStarted" \in EventTypes /\ windex[b] \in Nat /\ "none" \in Outcomes
      BY <1>19 DEF WorkerTakeTask, EventTypes, TaskEvents, Outcomes, IInv, TypeOK
    <2>2. \A e : EventOK(e) => EventOK(e)'
      BY <1>19 DEF WorkerTakeTask, EventOK, Running, IInv, TypeOK, BatchInv
    <2>3. \A e : e.type = "taskStarted" /\ e.batch = b /\ e.index = windex[b] => EventOK(e)'
      BY <1>19 DEF WorkerTakeTask, EventOK, TaskEvents, Running, IInv, TypeOK, BatchInv
    <2>4. \A k \in DOMAIN events : events[k].type # "allFinished"
      BY <1>19 DEF WorkerTakeTask, EventOK, Running, IInv, QueueInv, BatchInv
    <2> QED
      BY <2>1, <2>2, <2>3, <2>4, PostQueue
  <1>20. ASSUME NEW b \in Batch, WorkerProgress(b) PROVE QueueInv'
    <2>1. /\ Post("taskProgress", b, windex[b], "none")
          /\ "taskProgress" \in EventTypes /\ windex[b] \in Nat /\ "none" \in Outcomes
      BY <1>20 DEF WorkerProgress, EventTypes, TaskEvents, Outcomes, IInv, TypeOK
    <2>2. \A e : EventOK(e) => EventOK(e)'
      BY <1>20 DEF WorkerProgress, EventOK, Running, IInv, TypeOK, BatchInv
    <2>3. \A e : e.type = "taskProgress" /\ e.batch = b /\ e.index = windex[b] => EventOK(e)'
      BY <1>20 DEF WorkerProgress, EventOK, TaskEvents, Running, IInv, TypeOK, BatchInv
    <2>4. \A k \in DOMAIN events : events[k].type # "allFinished"
      BY <1>20 DEF WorkerProgress, EventOK, Running, IInv, QueueInv, BatchInv
    <2> QED
      BY <2>1, <2>2, <2>3, <2>4, PostQueue
  <1>21. ASSUME NEW b \in Batch, NEW outcome \in Outcomes, WorkerFinishTask(b, outcome) PROVE QueueInv'
    <2>1. /\ Post("taskFinished", b, windex[b], outcome)
          /\ "taskFinished" \in EventTypes /\ windex[b] \in Nat /\ outcome \in Outcomes
      BY <1>21 DEF WorkerFinishTask, EventTypes, TaskEvents, Outcomes, IInv, TypeOK
    <2>2. \A e : EventOK(e) => EventOK(e)'
      BY <1>21 DEF WorkerFinishTask, CodecReturns, EventOK, Running, IInv, TypeOK, BatchInv
    <2>3. \A e : e.type = "taskFinished" /\ e.batch = b /\ e.index = windex[b] => EventOK(e)'
      BY <1>21 DEF WorkerFinishTask, CodecReturns, EventOK, TaskEvents, Running, IInv, TypeOK, BatchInv
    <2>4. \A k \in DOMAIN events : events[k].type # "allFinished"
      BY <1>21 DEF WorkerFinishTask, CodecReturns, EventOK, Running, IInv, QueueInv, BatchInv
    <2> QED
      BY <2>1, <2>2, <2>3, <2>4, PostQueue
  <1>22. ASSUME NEW b \in Batch, WorkerAllFinished(b) PROVE QueueInv'
    <2>1. /\ Post("allFinished", b, 0, (IF cancelled[b] THEN "cancelled" ELSE "ok"))
          /\ "allFinished" \in EventTypes /\ 0 \in Nat /\ (IF cancelled[b] THEN "cancelled" ELSE "ok") \in Outcomes
      BY <1>22 DEF WorkerAllFinished, EventTypes, TaskEvents, Outcomes, IInv, TypeOK
    <2>2. \A e : EventOK(e) => EventOK(e)'
      BY <1>22 DEF WorkerAllFinished, EventOK, Running, IInv, TypeOK, BatchInv
    <2>3. \A e : e.type = "allFinished" /\ e.batch = b /\ e.index = 0 => EventOK(e)'
      BY <1>22 DEF WorkerAllFinished, EventOK, TaskEvents, Running, IInv, TypeOK, BatchInv
    <2>4. \A k \in DOMAIN events : events[k].type # "allFinished"
      BY <1>22 DEF WorkerAllFinished, EventOK, Running, IInv, QueueInv, BatchInv
    <2> QED
      BY <2>1, <2>2, <2>3, <2>4, PostQueue
  <1>23. ASSUME NEW b \in Batch, WorkerPostQuit(b) PROVE QueueInv'
    <2>1. /\ Post("quit", b, 0, "none")
          /\ "quit" \in EventTypes /\ 0 \in Nat /\ "none" \in Outcomes
      BY <1>23 DEF WorkerPostQuit, EventTypes, TaskEvents, Outcomes, IInv, TypeOK
    <2>2. \A e : EventOK(e) => EventOK(e)'
      BY <1>23 DEF WorkerPostQuit, EventOK, Running, IInv, TypeOK, BatchInv
    <2>3. \A e : e.type = "quit" /\ e.batch = b /\ e.index = 0 => EventOK(e)'
      BY <1>23 DEF WorkerPostQuit, EventOK, TaskEvents, Running, IInv, TypeOK, BatchInv
    <2>4. "quit" \notin TaskEvents \cup {"allFinished"}
      BY DEF TaskEvents
    <2> QED
      BY <2>1, <2>2, <2>3, <2>4, PostQueue
  <1>24. ASSUME NEW b \in Batch, ThreadFinish(b) PROVE QueueInv'
    <2>1. /\ Post("finished", b, 0, "none")
          /\ "finished" \in EventTypes /\ 0 \in Nat /\ "none" \in Outcomes
      BY <1>24 DEF ThreadFinish, EventTypes, TaskEvents, Outcomes, IInv, TypeOK
    <2>2. \A e : EventOK(e) => EventOK(e)'
      BY <1>24 DEF ThreadFinish, EventOK, Running, IInv, TypeOK, BatchInv
    <2>3. \A e : e.type = "finished" /\ e.batch = b /\ e.index = 0 => EventOK(e)'
      BY <1>24 DEF ThreadFinish, EventOK, TaskEvents, Running, IInv, TypeOK, BatchInv
    <2>4. "finished" \notin TaskEvents \cup {"allFinished"}
      BY DEF TaskEvents
    <2> QED
      BY <2>1, <2>2, <2>3, <2>4, PostQueue
  <1>25. ASSUME DestroyWindow PROVE QueueInv'
    BY <1>25, QueueFrame DEF DestroyWindow, IInv
  <1>26. ASSUME ExitProgram PROVE QueueInv'
    BY <1>26, QueueFrame DEF ExitProgram, IInv
  <1>27. CASE UNCHANGED vars
    BY <1>27 DEF IInv, QueueInv, vars, EventOK, Running
  <1> QED
    BY <1>1, <1>2, <1>3, <1>4, <1>5, <1>6, <1>7, <1>8, <1>9, <1>10, <1>11, <1>12, <1>13, <1>14, <1>15, <1>16, <1>17, <1>18, <1>19, <1>20, <1>21, <1>22, <1>23, <1>24, <1>25, <1>26, <1>27
    DEF Next, User, HandleEvent, Timers, Worker, Terminated

----------------------------------------------------------------------------
(* Rows and their counts.                                                  *)

LEMMA IntervalCount ==
  ASSUME NEW m \in Nat, NEW R \in SUBSET (1 .. m)
  PROVE  /\ IsFiniteSet(R) /\ Cardinality(R) \in Nat
         /\ Cardinality(R) = 0 <=> R = {}
         /\ Cardinality(R) = m <=> R = 1 .. m
  <1>1. /\ IsFiniteSet(1 .. m)
        /\ Cardinality(1 .. m) = IF 1 > m THEN 0 ELSE m - 1 + 1
    BY FS_Interval
  <1>2. (IF 1 > m THEN 0 ELSE m - 1 + 1) = m
    OBVIOUS
  <1>3. IsFiniteSet(R) /\ Cardinality(R) \in Nat
    BY <1>1, FS_Subset, FS_CardinalityType
  <1>4. Cardinality(R) = 0 <=> R = {}
    BY <1>3, FS_EmptySet
  <1>5. Cardinality(R) = m <=> R = 1 .. m
    BY <1>1, <1>2, FS_Subset
  <1> QED
    BY <1>3, <1>4, <1>5

LEMMA CountFacts ==
  ASSUME activeTasks \in Seq(Task), NEW states
  PROVE  /\ IsFiniteSet(RowsIn(states))
         /\ CountActive(states) \in Nat
         /\ CountActive(states) = 0 <=> \A i \in DOMAIN activeTasks : Row(i) \notin states
  <1>1. /\ Len(activeTasks) \in Nat /\ DOMAIN activeTasks = 1 .. Len(activeTasks)
        /\ RowsIn(states) \in SUBSET (1 .. Len(activeTasks))
    BY DEF RowsIn
  <1>2. /\ IsFiniteSet(RowsIn(states)) /\ CountActive(states) \in Nat
        /\ CountActive(states) = 0 <=> RowsIn(states) = {}
    BY <1>1, IntervalCount DEF CountActive
  <1> QED
    BY <1>2 DEF RowsIn

\* Requests that share a count share its states.
LEMMA SameCount ==
  ASSUME NEW S, NEW T,
         \A i \in DOMAIN activeTasks : Row(i) \in S <=> Row(i) \in T
  PROVE  CountActive(S) = CountActive(T)
  <1>1. RowsIn(S) = RowsIn(T)
    BY DEF RowsIn
  <1> QED
    BY <1>1 DEF CountActive

\* A slot changes one row.
LEMMA OneRowChanges ==
  ASSUME TypeOK, Distinct(activeTasks), NEW i \in DOMAIN activeTasks,
         NEW state \in TaskStates,
         taskState' = [taskState EXCEPT ![activeTasks[i]] = state],
         activeTasks' = activeTasks
  PROVE  /\ Row(i)' = state
         /\ \A j \in DOMAIN activeTasks : j # i => Row(j)' = Row(j)
  BY DEF TypeOK, Row, Distinct

LEMMA CountChanges ==
  ASSUME TypeOK, Distinct(activeTasks), NEW i \in DOMAIN activeTasks,
         NEW state \in TaskStates,
         taskState' = [taskState EXCEPT ![activeTasks[i]] = state],
         activeTasks' = activeTasks, NEW states
  PROVE  CountActive(states)' =
           (CountActive(states) - (IF Row(i) \in states THEN 1 ELSE 0))
             + (IF state \in states THEN 1 ELSE 0)
  <1> DEFINE R == RowsIn(states)
             others == R \ {i}
  <1>1. IsFiniteSet(R) /\ Cardinality(R) \in Nat
    BY CountFacts DEF CountActive, TypeOK
  <1>2. RowsIn(states)' = IF state \in states THEN others \cup {i} ELSE others
    BY OneRowChanges DEF RowsIn
  <1>3. i \in R <=> Row(i) \in states
    BY DEF RowsIn
  <1> HIDE DEF R
  <1>4. /\ IsFiniteSet(others)
        /\ Cardinality(others) = IF i \in R THEN Cardinality(R) - 1 ELSE Cardinality(R)
    BY <1>1, FS_RemoveElement
  <1>5. i \notin others
    OBVIOUS
  <1> HIDE DEF others
  <1>6. Cardinality(others \cup {i}) = Cardinality(others) + 1
    BY <1>4, <1>5, FS_AddElement
  <1>7. CountActive(states) = Cardinality(R)
    BY DEF R, CountActive
  <1>8. CountActive(states)' = IF state \in states THEN Cardinality(others \cup {i}) ELSE Cardinality(others)
    BY <1>2 DEF CountActive
  <1> QED
    BY <1>1, <1>3, <1>4, <1>6, <1>7, <1>8

\* A set without two different elements.
LEMMA AtMostOne ==
  ASSUME NEW R, \A x, y \in R : x = y
  PROVE  Cardinality(R) <= 1
  <1>1. CASE R = {}
    <2>1. Cardinality(R) = 0
      BY <1>1, FS_EmptySet
    <2> QED
      BY <2>1
  <1>2. CASE R # {}
    <2>1. PICK x : x \in R
      BY <1>2
    <2>2. R = {x}
      BY <2>1
    <2>3. Cardinality(R) = 1
      BY <2>2, FS_Singleton
    <2> QED
      BY <2>3
  <1> QED
    BY <1>1, <1>2

\* A step that changes none of what rows, queue and worker tell; the flag of a
\* worker is never taken back.
LEMMA RowFrame ==
  ASSUME IInv,
         UNCHANGED <<tasks, activeTasks, taskState, resultVars, processing,
                     batch, requests, windex, wpc, events>>,
         \A b \in Batch : cancelled[b] => cancelled'[b]
  PROVE  RowInv'
  <1> USE DEF resultVars
  <1>1. /\ Queued' = Queued /\ QueuedNumbers' = QueuedNumbers
        /\ NextNumber' = NextNumber /\ InOrder' = InOrder
    BY DEF Queued, QueuedNumbers, NextNumber, InOrder, Number
  <1>2. /\ \A i : Row(i)' = Row(i)
        /\ \A states : CountActive(states)' = CountActive(states)
    BY DEF Row, CountActive, RowsIn
  <1>3. NothingCancelled' = NothingCancelled
    BY <1>1, <1>2 DEF NothingCancelled
  <1>4. \A n : DeliveredBelow(n)' = DeliveredBelow(n)
    BY <1>1, <1>2 DEF DeliveredBelow
  <1>5. processing => batch \in Batch
    BY DEF IInv, BatchInv
  <1>6. processing' => RowsFollow'
    BY <1>1, <1>3, <1>4, <1>5 DEF RowsFollow, IInv, RowInv
  <1>7. PlainEnd'
    BY <1>3 DEF PlainEnd, IInv, RowInv
  <1>8. CountersMatchRows' /\ CardMatchesRows'
    BY <1>2 DEF CountersMatchRows, CardMatchesRows, IInv, RowInv
  <1>9. Distinct(tasks)' /\ (\A b \in Batch : b > batch => windex[b] = 1)'
    BY DEF IInv, RowInv, Distinct
  <1>10. (resultCard # "hidden" => activeTasks = tasks)' /\ InOrder'
    BY <1>1 DEF IInv, RowInv
  <1> QED
    BY <1>6, <1>7, <1>8, <1>9, <1>10 DEF RowInv

\* The list of an idle window may change, and takes the result card with it.
LEMMA IdleRows ==
  ASSUME IInv, ~processing, Distinct(tasks)', resultCard' = "hidden",
         UNCHANGED <<processing, batch, windex, wpc, events>>
  PROVE  RowInv'
  <1>1. InOrder'
    BY DEF Queued, InOrder, Number, IInv, RowInv
  <1>2. \A k \in DOMAIN events : events[k].type # "allFinished"
    BY DEF IInv, QueueInv, EventOK
  <1>3. PlainEnd'
    BY <1>2 DEF PlainEnd
  <1>4. CardMatchesRows' /\ CountersMatchRows'
    BY DEF CardMatchesRows, CountersMatchRows
  <1> QED
    BY <1>1, <1>3, <1>4 DEF RowInv, IInv

\* A new batch: every row waits, and the queue holds no signal of a task.
LEMMA BeginRows ==
  ASSUME IInv, ~processing, BeginBatch,
         UNCHANGED <<tasks, events, windex, cancelled>>
  PROVE  RowInv'
  <1>1. batch + 1 \in Batch /\ batch \in Nat
    BY BoundsAssumption DEF BeginBatch, IInv, TypeOK, Batch
  <1>2. /\ wpc'[batch + 1] = "loop" /\ windex'[batch + 1] = 1 /\ batch' = batch + 1
    BY <1>1 DEF BeginBatch, IInv, TypeOK, RowInv
  <1>3. NextNumber' = 2
    BY <1>2 DEF NextNumber
  <1>4. \A k \in DOMAIN events : events[k].type \notin TaskEvents \cup {"allFinished"}
    BY DEF IInv, QueueInv, EventOK
  <1>5. Queued' = {} /\ QueuedNumbers' = {}
    BY <1>4 DEF Queued, QueuedNumbers, BeginBatch, RowSignals, TaskEvents
  <1>6. activeTasks' = tasks /\ \A i \in DOMAIN tasks : Row(i)' = "Ready"
    BY DEF BeginBatch, IInv, TypeOK, Row, ToSet
  <1>7. DeliveredBelow(2)'
    <2>1. \A i \in DOMAIN tasks : 2 <= 2 * i
      BY DEF IInv, TypeOK
    <2>2. \A i \in DOMAIN tasks : Row(i)' \in RowStates(i, 2)
      BY <1>6, <2>1 DEF RowStates
    <2>3. QueuedNumbers' = 2 .. 2 - 1
      BY <1>5
    <2>4. QueuedNumbers' = 2 .. NextNumber' - 1
      BY <1>3, <2>3
    <2> QED
      BY <1>6, <2>2, <2>4 DEF DeliveredBelow
  <1>8. NothingCancelled'
    BY <1>5, <1>6 DEF NothingCancelled
  <1>9. resultCard' = "hidden" /\ resultSuccess' = 0 /\ resultFailure' = 0
    BY DEF BeginBatch
  <1>10. RowsFollow'
    BY <1>2, <1>3, <1>7, <1>8, <1>9 DEF RowsFollow
  <1>11. PlainEnd'
    BY <1>4 DEF PlainEnd
  <1>12. CountersMatchRows'
    <2>1. activeTasks' \in Seq(Task)
      BY <1>6 DEF IInv, TypeOK
    <2>2. \A states : "Ready" \notin states => RowsIn(states)' = {}
      BY <1>6 DEF RowsIn
    <2>3. \A states : "Ready" \notin states => CountActive(states)' = 0
      BY <2>2, FS_EmptySet DEF CountActive
    <2>4. /\ CountActive({"Completed"})' = 0
          /\ CountActive({"Failed", "Cancelled"})' = 0
          /\ CountActive({"Processing"})' = 0
      BY <2>3
    <2> QED
      BY <1>9, <2>4 DEF CountersMatchRows
  <1>13. CardMatchesRows' /\ InOrder' /\ Distinct(tasks)'
    BY <1>5, <1>9 DEF CardMatchesRows, InOrder, Distinct, IInv, RowInv
  <1>14. (\A b \in Batch : b > batch => windex[b] = 1)'
    BY <1>1, <1>2 DEF IInv, RowInv, Batch
  <1> QED
    BY <1>9, <1>10, <1>11, <1>12, <1>13, <1>14 DEF RowInv

LEMMA NumberIsNat == \A e \in Event : Number(e) \in Nat
  BY DEF Event, Number

\* Delivering a signal of a task takes the least number from the queue.
LEMMA DeliverNumbers ==
  ASSUME IInv, NEW type, Delivering(type)
  PROVE  /\ InOrder'
         /\ \A k \in Queued' : \E j \in Queued : events'[k] = events[j]
         /\ type \notin RowSignals => QueuedNumbers' = QueuedNumbers
         /\ type \in RowSignals =>
              /\ Number(Head(events)) \in QueuedNumbers
              /\ QueuedNumbers' = QueuedNumbers \ {Number(Head(events))}
              /\ \A x \in QueuedNumbers : Number(Head(events)) <= x
              /\ 1 \in Queued
  <1>1. /\ DOMAIN events = 1 .. Len(events) /\ Len(events) \in Nat
        /\ DOMAIN events' = 1 .. Len(events) - 1
        /\ 1 \in DOMAIN events /\ Head(events) = events[1]
        /\ Head(events).type = type
        /\ \A k \in DOMAIN events' : k + 1 \in DOMAIN events /\ events'[k] = events[k + 1]
    BY HeadTailProperties DEF IInv, TypeOK, Delivering
  <1>2. \A k \in DOMAIN events : k # 1 => k - 1 \in DOMAIN events' /\ events'[k - 1] = events[k]
    BY <1>1
  <1>3. \A k \in Queued' : k \in Nat /\ k + 1 \in Queued /\ events'[k] = events[k + 1]
    BY <1>1 DEF Queued
  <1>4. \A k \in Queued : k # 1 => k - 1 \in Queued' /\ events'[k - 1] = events[k]
    BY <1>1, <1>2 DEF Queued
  <1>5. InOrder
    BY DEF IInv, RowInv
  <1>6. InOrder'
    <2>1. ASSUME NEW j \in Queued', NEW k \in Queued', j < k
          PROVE  Number(events'[j]) < Number(events'[k])
      BY <1>3, <1>5, <2>1 DEF InOrder
    <2>2. \A e : Number(e)' = Number(e)
      BY DEF Number
    <2> QED
      BY <2>1, <2>2 DEF InOrder
  <1>7. \A k \in Queued' : \E j \in Queued : events'[k] = events[j]
    BY <1>3
  <1>8. QueuedNumbers' = {Number(events[k]) : k \in Queued \ {1}}
    <2>1. QueuedNumbers' = {Number(events'[k]) : k \in Queued'}
      BY DEF QueuedNumbers, Number
    <2>2. ASSUME NEW k \in Queued' PROVE Number(events'[k]) \in {Number(events[j]) : j \in Queued \ {1}}
      <3>1. k + 1 \in Queued \ {1} /\ events'[k] = events[k + 1]
        BY <1>3, <1>1 DEF Queued
      <3> QED
        BY <3>1
    <2>3. ASSUME NEW j \in Queued \ {1} PROVE Number(events[j]) \in {Number(events'[k]) : k \in Queued'}
      <3>1. j - 1 \in Queued' /\ events'[j - 1] = events[j]
        BY <1>4
      <3> QED
        BY <3>1
    <2> QED
      BY <2>1, <2>2, <2>3
  <1>9. ASSUME type \notin RowSignals PROVE QueuedNumbers' = QueuedNumbers
    <2>1. 1 \notin Queued
      BY <1>1, <1>9 DEF Queued
    <2>2. Queued \ {1} = Queued
      BY <2>1
    <2> QED
      BY <1>8, <2>2 DEF QueuedNumbers
  <1>10. ASSUME type \in RowSignals
         PROVE  /\ Number(Head(events)) \in QueuedNumbers
                /\ QueuedNumbers' = QueuedNumbers \ {Number(Head(events))}
                /\ \A x \in QueuedNumbers : Number(Head(events)) <= x
                /\ 1 \in Queued
    <2>1. 1 \in Queued
      BY <1>1, <1>10 DEF Queued
    <2>2. \A k \in Queued : k # 1 => Number(events[1]) < Number(events[k])
      BY <1>1, <1>5, <2>1 DEF InOrder, Queued
    <2>3. \A k \in Queued : Number(events[k]) \in Nat
      BY NumberIsNat DEF IInv, TypeOK, Queued
    <2> DEFINE num(k) == Number(events[k])
    <2>4. /\ QueuedNumbers = {num(k) : k \in Queued}
          /\ QueuedNumbers' = {num(k) : k \in Queued \ {1}}
          /\ num(1) = Number(Head(events))
      BY <1>1, <1>8 DEF QueuedNumbers
    <2>5. /\ \A k \in Queued : num(k) \in Nat
          /\ \A k \in Queued : k # 1 => num(1) < num(k)
      BY <2>2, <2>3
    <2> HIDE DEF num
    <2>6. \A x \in QueuedNumbers : num(1) <= x
      <3>1. ASSUME NEW k \in Queued PROVE num(1) <= num(k)
        BY <2>1, <2>5
      <3> QED
        BY <3>1, <2>4
    <2>7. QueuedNumbers' = QueuedNumbers \ {num(1)}
      <3>1. num(1) \notin {num(k) : k \in Queued \ {1}}
        <4>1. ASSUME NEW k \in Queued \ {1} PROVE num(k) # num(1)
          BY <2>1, <2>5
        <4> QED
          BY <4>1
      <3> QED
        BY <2>1, <2>4, <3>1
    <2>8. num(1) \in QueuedNumbers
      BY <2>1, <2>4
    <2> QED
      BY <2>1, <2>4, <2>6, <2>7, <2>8
  <1> QED
    BY <1>6, <1>7, <1>9, <1>10

\* Posting one adds its number.
LEMMA PostNumbers ==
  ASSUME IInv,
         NEW type \in EventTypes, NEW b \in Batch, NEW i \in Nat,
         NEW outcome \in Outcomes, Post(type, b, i, outcome),
         NEW e, e = [type |-> type, batch |-> b, index |-> i, outcome |-> outcome]
  PROVE  /\ \A k \in DOMAIN events' :
               \/ k \in DOMAIN events /\ events'[k] = events[k]
               \/ k = Len(events) + 1 /\ events'[k] = e
         /\ type \notin RowSignals =>
              InOrder' /\ Queued' = Queued /\ QueuedNumbers' = QueuedNumbers
         /\ type \in RowSignals => QueuedNumbers' = QueuedNumbers \cup {Number(e)}
         /\ (type \in RowSignals /\ \A x \in QueuedNumbers : x < Number(e)) => InOrder'
         /\ \A k \in Queued : events'[k] = events[k]
  <1>1. e \in Event /\ e.type = type
    BY DEF Event
  <1>2. events' = Append(events, e) /\ events \in Seq(Event)
    BY DEF Post, IInv, TypeOK
  <1>3. /\ DOMAIN events = 1 .. Len(events) /\ Len(events) \in Nat
        /\ DOMAIN events' = 1 .. Len(events) + 1
        /\ \A k \in DOMAIN events : k \in DOMAIN events' /\ events'[k] = events[k]
        /\ events'[Len(events) + 1] = e
    BY <1>1, <1>2, AppendProperties
  <1> DEFINE n == Len(events) + 1
  <1>4. /\ Queued' = IF type \in RowSignals THEN Queued \cup {n} ELSE Queued
        /\ \A k \in Queued : events'[k] = events[k] /\ k < n
    BY <1>1, <1>3 DEF Queued
  <1>5. InOrder
    BY DEF IInv, RowInv
  <1>6. \A x : Number(x)' = Number(x)
    BY DEF Number
  <1>7. QueuedNumbers' = {Number(events'[k]) : k \in Queued'}
    BY <1>6 DEF QueuedNumbers
  <1>8. ASSUME type \notin RowSignals
        PROVE  InOrder' /\ Queued' = Queued /\ QueuedNumbers' = QueuedNumbers
    <2>1. Queued' = Queued
      BY <1>4, <1>8
    <2>2. QueuedNumbers' = QueuedNumbers
      BY <1>4, <1>7, <2>1 DEF QueuedNumbers
    <2>3. InOrder'
      BY <1>4, <1>5, <1>6, <2>1 DEF InOrder
    <2> QED
      BY <2>1, <2>2, <2>3
  <1>9. ASSUME type \in RowSignals PROVE QueuedNumbers' = QueuedNumbers \cup {Number(e)}
    <2>1. Queued' = Queued \cup {n} /\ events'[n] = e
      BY <1>3, <1>4, <1>9
    <2> QED
      BY <1>4, <1>7, <2>1 DEF QueuedNumbers
  <1>10. ASSUME type \in RowSignals, \A x \in QueuedNumbers : x < Number(e) PROVE InOrder'
    <2>1. Queued' = Queued \cup {n} /\ events'[n] = e
      BY <1>3, <1>4, <1>10
    <2>2. \A k \in Queued : Number(events[k]) < Number(e)
      BY <1>10 DEF QueuedNumbers
    <2>3. ASSUME NEW j \in Queued', NEW k \in Queued', j < k
          PROVE  Number(events'[j]) < Number(events'[k])
      <3>1. j \in Queued
        BY <1>3, <1>4, <2>1, <2>3 DEF Queued
      <3>2. CASE k \in Queued
        BY <1>4, <1>5, <2>3, <3>1, <3>2 DEF InOrder
      <3>3. CASE k = n
        BY <1>4, <2>1, <2>2, <3>1, <3>3
      <3> QED
        BY <2>1, <3>2, <3>3
    <2> QED
      BY <1>6, <2>3 DEF InOrder
  <1>11. \A k \in DOMAIN events' :
            \/ k \in DOMAIN events /\ events'[k] = events[k]
            \/ k = Len(events) + 1 /\ events'[k] = e
    BY <1>3
  <1> QED
    BY <1>4, <1>8, <1>9, <1>10, <1>11

LEMMA SameRows ==
  ASSUME UNCHANGED <<activeTasks, taskState>>
  PROVE  /\ \A i : Row(i)' = Row(i)
         /\ \A states : CountActive(states)' = CountActive(states)
  BY DEF Row, CountActive, RowsIn

\* An event that neither changes a row nor ends a batch is delivered.
LEMMA DeliverOther ==
  ASSUME IInv, NEW type, type \notin RowSignals, Delivering(type),
         UNCHANGED <<tasks, activeTasks, taskState, resultVars, processing,
                     batch, requests, windex, wpc, cancelled>>
  PROVE  RowInv'
  <1> USE DEF resultVars
  <1>1. /\ InOrder' /\ QueuedNumbers' = QueuedNumbers /\ NextNumber' = NextNumber
        /\ \A k \in Queued' : \E j \in Queued : events'[k] = events[j]
    BY DeliverNumbers DEF NextNumber
  <1>2. \A k \in DOMAIN events' : k + 1 \in DOMAIN events /\ events'[k] = events[k + 1]
    BY DeliverFacts DEF IInv, TypeOK
  <1>3. /\ \A i : Row(i)' = Row(i)
        /\ \A states : CountActive(states)' = CountActive(states)
    BY SameRows
  <1>4. NothingCancelled => NothingCancelled'
    BY <1>1, <1>3 DEF NothingCancelled
  <1>5. \A n : DeliveredBelow(n)' = DeliveredBelow(n)
    BY <1>1, <1>3 DEF DeliveredBelow
  <1>6. processing' => RowsFollow'
    BY <1>1, <1>4, <1>5 DEF RowsFollow, IInv, RowInv
  <1>7. PlainEnd'
    BY <1>2, <1>4 DEF PlainEnd, IInv, RowInv
  <1>8. CountersMatchRows' /\ CardMatchesRows'
    BY <1>3 DEF CountersMatchRows, CardMatchesRows, IInv, RowInv
  <1>9. Distinct(tasks)' /\ (\A b \in Batch : b > batch => windex[b] = 1)'
    BY DEF IInv, RowInv, Distinct
  <1>10. (resultCard # "hidden" => activeTasks = tasks)'
    BY DEF IInv, RowInv
  <1> QED
    BY <1>1, <1>6, <1>7, <1>8, <1>9, <1>10 DEF RowInv

\* The worker posts an event that neither changes a row nor ends a batch.
LEMMA PostOther ==
  ASSUME IInv,
         NEW type \in EventTypes, type \notin RowSignals \cup {"allFinished"},
         NEW b \in Batch, NEW i \in Nat, NEW outcome \in Outcomes,
         Post(type, b, i, outcome),
         UNCHANGED <<tasks, activeTasks, taskState, resultVars, processing,
                     batch, requests, windex, cancelled>>,
         processing => NextNumber' = NextNumber,
         processing /\ wpc'[batch] = "abort" => cancelled[batch]
  PROVE  RowInv'
  <1> USE DEF resultVars
  <1> DEFINE e == [type |-> type, batch |-> b, index |-> i, outcome |-> outcome]
  <1>1. /\ InOrder' /\ Queued' = Queued /\ QueuedNumbers' = QueuedNumbers
        /\ \A k \in Queued : events'[k] = events[k]
        /\ \A k \in DOMAIN events' :
              \/ k \in DOMAIN events /\ events'[k] = events[k]
              \/ k = Len(events) + 1 /\ events'[k] = e
    <2> HIDE DEF e
    <2>1. e = [type |-> type, batch |-> b, index |-> i, outcome |-> outcome]
      BY DEF e
    <2> QED
      BY <2>1, PostNumbers
  <1>3. /\ \A x : Row(x)' = Row(x)
        /\ \A states : CountActive(states)' = CountActive(states)
    BY SameRows
  <1>4. NothingCancelled' = NothingCancelled
    BY <1>1, <1>3 DEF NothingCancelled
  <1>5. processing => \A n : DeliveredBelow(n)' = DeliveredBelow(n)
    BY <1>1, <1>3 DEF DeliveredBelow
  <1>6. processing' => RowsFollow'
    BY <1>1, <1>4, <1>5 DEF RowsFollow, IInv, RowInv
  <1>7. PlainEnd'
    <2>1. e.type # "allFinished"
      OBVIOUS
    <2> HIDE DEF e
    <2>2. \A k \in DOMAIN events' : events'[k].type = "allFinished" =>
             k \in DOMAIN events /\ events'[k] = events[k]
      BY <1>1, <2>1
    <2> QED
      BY <1>4, <2>2 DEF PlainEnd, IInv, RowInv
  <1>8. CountersMatchRows' /\ CardMatchesRows'
    BY <1>3 DEF CountersMatchRows, CardMatchesRows, IInv, RowInv
  <1>9. Distinct(tasks)' /\ (\A x \in Batch : x > batch => windex[x] = 1)'
    BY DEF IInv, RowInv, Distinct
  <1>10. (resultCard # "hidden" => activeTasks = tasks)'
    BY DEF IInv, RowInv
  <1> QED
    BY <1>1, <1>6, <1>7, <1>8, <1>9, <1>10 DEF RowInv

\* The worker posts the next signal of a row: what is queued stays without a
\* gap, and the rows still follow what was delivered.
LEMMA PostRow ==
  ASSUME IInv, processing,
         NEW type \in RowSignals, NEW outcome \in Outcomes,
         Post(type, batch, windex[batch], outcome),
         UNCHANGED <<tasks, activeTasks, taskState, resultVars, processing,
                     batch, requests, cancelled>>,
         NextNumber' = NextNumber + 1,
         2 * windex[batch] + (IF type = "taskFinished" THEN 1 ELSE 0) = NextNumber,
         windex' = [windex EXCEPT ![batch] = @ + 1] \/ windex' = windex,
         wpc'[batch] # "abort",
         outcome = "cancelled" => cancelled[batch],
         Running(batch)
  PROVE  RowInv'
  <1> USE DEF resultVars
  <1> DEFINE e == [type |-> type, batch |-> batch,
                   index |-> windex[batch], outcome |-> outcome]
  <1>1. /\ batch \in Batch /\ windex[batch] \in Nat /\ type \in EventTypes
        /\ NextNumber \in Nat
    BY DEF IInv, BatchInv, TypeOK, RowSignals, EventTypes, TaskEvents, NextNumber
  <1>2. /\ type \in RowSignals => QueuedNumbers' = QueuedNumbers \cup {Number(e)}
        /\ (type \in RowSignals /\ \A x \in QueuedNumbers : x < Number(e)) => InOrder'
        /\ \A k \in DOMAIN events' :
              \/ k \in DOMAIN events /\ events'[k] = events[k]
              \/ k = Len(events) + 1 /\ events'[k] = e
    BY <1>1, PostNumbers
  <1>3. /\ Number(e) = NextNumber /\ e.type = type /\ e.outcome = outcome
    BY DEF Number
  <1> HIDE DEF e
  <1>4. PICK n \in 2 .. NextNumber : DeliveredBelow(n)
    BY DEF IInv, RowInv, RowsFollow
  <1>5. QueuedNumbers' = n .. NextNumber' - 1 /\ InOrder' /\ n \in 2 .. NextNumber'
    <2>1. QueuedNumbers = n .. NextNumber - 1
      BY <1>4 DEF DeliveredBelow
    <2>2. (n .. NextNumber - 1) \cup {NextNumber} = n .. (NextNumber + 1) - 1
      BY <1>1, <1>4
    <2>3. \A x \in QueuedNumbers : x < NextNumber
      BY <1>1, <1>4, <2>1
    <2>4. InOrder'
      BY <1>2, <1>3, <2>3
    <2>5. QueuedNumbers' = n .. NextNumber' - 1
      BY <1>2, <1>3, <2>1, <2>2
    <2>6. n \in 2 .. NextNumber'
      BY <1>1, <1>4
    <2> QED
      BY <2>4, <2>5, <2>6
  <1>6. /\ \A x : Row(x)' = Row(x)
        /\ \A states : CountActive(states)' = CountActive(states)
    BY SameRows
  <1>7. DeliveredBelow(n)'
    BY <1>4, <1>5, <1>6 DEF DeliveredBelow
  <1>8. cancelled[batch] \/ NothingCancelled'
    <2>1. cancelled[batch] \/ (NothingCancelled /\ outcome # "cancelled")
      BY DEF IInv, RowInv, RowsFollow
    <2> QED
      BY <1>2, <1>3, <1>6, <2>1 DEF NothingCancelled, Queued
  <1>9. RowsFollow'
    BY <1>5, <1>7, <1>8 DEF RowsFollow, IInv, RowInv
  <1>10. PlainEnd'
    <2>1. \A k \in DOMAIN events : events[k].type # "allFinished"
      BY DEF IInv, QueueInv, EventOK
    <2>2. e.type # "allFinished"
      BY <1>3 DEF RowSignals
    <2>3. \A k \in DOMAIN events' : events'[k].type # "allFinished"
      BY <1>2, <2>1, <2>2
    <2> QED
      BY <2>3 DEF PlainEnd
  <1>11. CountersMatchRows' /\ CardMatchesRows'
    BY <1>6 DEF CountersMatchRows, CardMatchesRows, IInv, RowInv
  <1>12. (\A x \in Batch : x > batch => windex[x] = 1)'
    <2>1. \A x \in Batch : x > batch => windex'[x] = windex[x]
      <3>1. \A x \in Batch : x > batch => x # batch
        BY <1>1, BoundsAssumption DEF Batch
      <3>2. windex \in [Batch -> Nat]
        BY DEF IInv, TypeOK
      <3> QED
        BY <3>1, <3>2
    <2> QED
      BY <2>1 DEF IInv, RowInv
  <1>13. Distinct(tasks)' /\ (resultCard # "hidden" => activeTasks = tasks)'
    BY DEF IInv, RowInv, Distinct
  <1> QED
    BY <1>5, <1>9, <1>10, <1>11, <1>12, <1>13 DEF RowInv

\* The end of run(): its title is plain only if nothing was cancelled.
LEMMA PostEnd ==
  ASSUME IInv, NEW b \in Batch, WorkerAllFinished(b)
  PROVE  RowInv'
  <1> USE DEF resultVars, guiVars, ptrVars, uiVars, timerVars, workerVars
  <1> DEFINE outcome == IF cancelled[b] THEN "cancelled" ELSE "ok"
             e == [type |-> "allFinished", batch |-> b, index |-> 0, outcome |-> outcome]
  <1>1. Running(b) /\ processing /\ b = batch
    BY DEF WorkerAllFinished, Running, IInv, BatchInv
  <1>2. /\ InOrder' /\ Queued' = Queued /\ QueuedNumbers' = QueuedNumbers
        /\ \A k \in Queued : events'[k] = events[k]
        /\ \A k \in DOMAIN events' :
              \/ k \in DOMAIN events /\ events'[k] = events[k]
              \/ k = Len(events) + 1 /\ events'[k] = e
    <2>1. /\ "allFinished" \in EventTypes /\ "allFinished" \notin RowSignals
          /\ outcome \in Outcomes /\ 0 \in Nat
      BY DEF EventTypes, RowSignals, Outcomes
    <2>2. Post("allFinished", b, 0, outcome)
      BY DEF WorkerAllFinished
    <2>3. e = [type |-> "allFinished", batch |-> b, index |-> 0, outcome |-> outcome]
      OBVIOUS
    <2> HIDE DEF e, outcome
    <2> QED
      BY <2>1, <2>2, <2>3, PostNumbers
  <1>3. NextNumber' = NextNumber /\ wpc'[batch] = "emitted"
    BY <1>1 DEF WorkerAllFinished, NextNumber, IInv, TypeOK
  <1>4. /\ \A x : Row(x)' = Row(x)
        /\ \A states : CountActive(states)' = CountActive(states)
    BY SameRows DEF WorkerAllFinished
  <1>5. NothingCancelled' = NothingCancelled
    BY <1>2, <1>4 DEF NothingCancelled, WorkerAllFinished
  <1>6. \A n : DeliveredBelow(n)' = DeliveredBelow(n)
    BY <1>2, <1>3, <1>4 DEF DeliveredBelow, WorkerAllFinished
  <1>7. RowsFollow'
    BY <1>1, <1>3, <1>5, <1>6 DEF RowsFollow, IInv, RowInv, WorkerAllFinished
  <1>8. PlainEnd'
    <2>1. \A k \in DOMAIN events : events[k].type # "allFinished"
      BY <1>1 DEF IInv, QueueInv, EventOK
    <2>2. e.outcome # "cancelled" => ~cancelled[b]
      OBVIOUS
    <2>3. ~cancelled[b] => windex[batch] > Len(requests[batch]) /\ NothingCancelled
      BY <1>1 DEF WorkerAllFinished, IInv, RowInv, RowsFollow
    <2> HIDE DEF e
    <2>4. ASSUME NEW k \in DOMAIN events', events'[k].type = "allFinished",
                 events'[k].outcome # "cancelled"
          PROVE  windex[batch] > Len(requests[batch]) /\ NothingCancelled
      BY <1>2, <2>1, <2>2, <2>3, <2>4
    <2> QED
      BY <1>5, <2>4 DEF PlainEnd, WorkerAllFinished
  <1>9. CountersMatchRows' /\ CardMatchesRows'
    BY <1>4 DEF CountersMatchRows, CardMatchesRows, IInv, RowInv, WorkerAllFinished
  <1>10. Distinct(tasks)' /\ (\A x \in Batch : x > batch => windex[x] = 1)'
    BY DEF IInv, RowInv, Distinct, WorkerAllFinished
  <1>11. (resultCard # "hidden" => activeTasks = tasks)'
    BY DEF IInv, RowInv, WorkerAllFinished
  <1> QED
    BY <1>2, <1>7, <1>8, <1>9, <1>10, <1>11 DEF RowInv

\* What a slot finds when a signal of a row is delivered.
LEMMA HeadRow ==
  ASSUME IInv, NEW type \in RowSignals, Delivering(type)
  PROVE  /\ processing /\ activeTasks = tasks
         /\ Head(events) \in Event /\ Head(events).type = type
         /\ Head(events).index \in DOMAIN activeTasks
         /\ Number(Head(events)) \in 2 .. NextNumber - 1
         /\ NextNumber \in Nat
         /\ QueuedNumbers' = (Number(Head(events)) + 1) .. NextNumber - 1
         /\ \A i \in DOMAIN activeTasks : Row(i) \in RowStates(i, Number(Head(events)))
         /\ 1 \in Queued /\ events[1] = Head(events)
  <1>1. /\ 1 \in DOMAIN events /\ Head(events) = events[1]
        /\ Head(events) \in Event /\ Head(events).type = type
    BY DeliverFacts DEF IInv, TypeOK
  <1>2. processing /\ Head(events).index \in DOMAIN tasks
    BY <1>1 DEF IInv, QueueInv, EventOK, RowSignals, TaskEvents
  <1>3. activeTasks = tasks /\ batch \in Batch
    BY <1>2 DEF IInv, BatchInv
  <1>4. PICK n \in 2 .. NextNumber : DeliveredBelow(n)
    BY <1>2 DEF IInv, RowInv, RowsFollow
  <1>5. NextNumber \in Nat
    BY <1>3 DEF IInv, TypeOK, NextNumber
  <1>6. /\ Number(Head(events)) \in QueuedNumbers
        /\ QueuedNumbers' = QueuedNumbers \ {Number(Head(events))}
        /\ \A x \in QueuedNumbers : Number(Head(events)) <= x
        /\ 1 \in Queued
    BY DeliverNumbers
  <1>7. QueuedNumbers = n .. NextNumber - 1
    BY <1>4 DEF DeliveredBelow
  <1> DEFINE m == Number(Head(events))
  <1>8. m \in Nat
    BY <1>1, NumberIsNat
  <1> HIDE DEF m
  <1>9. m = n /\ n \in 2 .. NextNumber - 1
    <2>1. m \in n .. NextNumber - 1 /\ \A x \in n .. NextNumber - 1 : m <= x
      BY <1>6, <1>7 DEF m
    <2>2. n \in n .. NextNumber - 1
      BY <1>4, <1>5, <1>8, <2>1
    <2> QED
      BY <1>4, <1>5, <1>8, <2>1, <2>2
  <1>10. (n .. NextNumber - 1) \ {n} = (n + 1) .. NextNumber - 1
    BY <1>5, <1>9
  <1>11. QueuedNumbers' = (m + 1) .. NextNumber - 1
    BY <1>6, <1>7, <1>9, <1>10 DEF m
  <1>12. \A i \in DOMAIN activeTasks : Row(i) \in RowStates(i, m)
    BY <1>4, <1>9 DEF DeliveredBelow
  <1>13. m \in 2 .. NextNumber - 1
    BY <1>9
  <1> QED
    BY <1>1, <1>2, <1>3, <1>5, <1>6, <1>11, <1>12, <1>13 DEF m

\* A slot moves its row to the next state, and the counters with it.
LEMMA DeliverRow ==
  ASSUME IInv, NEW type \in RowSignals, Delivering(type),
         NEW i, i = Head(events).index, NEW m, m = Number(Head(events)),
         NEW state \in TaskStates,
         taskState' = [taskState EXCEPT ![activeTasks[i]] = state],
         UNCHANGED <<tasks, activeTasks, processing, batch, requests, windex,
                     wpc, cancelled, resultCard>>,
         state \in RowStates(i, m + 1), Row(i) \notin Ends,
         state = "Cancelled" => Head(events).outcome = "cancelled",
         resultSuccess' = resultSuccess + (IF state = "Completed" THEN 1 ELSE 0),
         resultFailure' = resultFailure
                            + (IF state \in {"Failed", "Cancelled"} THEN 1 ELSE 0)
  PROVE  RowInv'
  <1>1. /\ processing /\ activeTasks = tasks
        /\ i \in DOMAIN activeTasks /\ i \in Nat
        /\ m \in 2 .. NextNumber - 1 /\ NextNumber \in Nat
        /\ QueuedNumbers' = (m + 1) .. NextNumber - 1
        /\ \A j \in DOMAIN activeTasks : Row(j) \in RowStates(j, m)
        /\ 1 \in Queued /\ events[1] = Head(events)
    BY HeadRow DEF Event
  <1>2. m = 2 * i \/ m = 2 * i + 1
    BY <1>1 DEF Number
  <1>3. activeTasks \in Seq(Task) /\ Distinct(activeTasks) /\ TypeOK
    BY <1>1 DEF IInv, TypeOK, RowInv
  <1>5. state = "Cancelled" => events[1].outcome = "cancelled"
    BY <1>1
  <1>6. Row(i)' = state /\ \A j \in DOMAIN activeTasks : j # i => Row(j)' = Row(j)
    BY <1>1, <1>3, OneRowChanges
  <1>7. InOrder' /\ \A k \in Queued' : \E j \in Queued : events'[k] = events[j]
    BY DeliverNumbers
  <1>8. NextNumber' = NextNumber
    BY DEF NextNumber
  <1>9. DeliveredBelow(m + 1)' /\ m + 1 \in 2 .. NextNumber'
    <2>1. \A j \in DOMAIN activeTasks : j \in Nat
      BY <1>3
    <2>2. ASSUME NEW j \in DOMAIN activeTasks, j # i
          PROVE  RowStates(j, m + 1) = RowStates(j, m)
      BY <1>1, <1>2, <2>1, <2>2 DEF RowStates
    <2>3. \A j \in DOMAIN activeTasks : Row(j)' \in RowStates(j, m + 1)
      BY <1>1, <1>6, <2>2
    <2>4. m + 1 \in 2 .. NextNumber'
      BY <1>1, <1>8
    <2>7. QueuedNumbers' = (m + 1) .. NextNumber' - 1
      BY <1>1, <1>8
    <2>8. DeliveredBelow(m + 1)'
      BY <2>3, <2>7 DEF DeliveredBelow
    <2> QED
      BY <2>4, <2>8
  <1>10. NothingCancelled => NothingCancelled'
    BY <1>1, <1>5, <1>6, <1>7 DEF NothingCancelled
  <1>11. RowsFollow'
    BY <1>1, <1>9, <1>10 DEF RowsFollow, IInv, RowInv
  <1>12. PlainEnd'
    <2>1. \A k \in DOMAIN events' : k + 1 \in DOMAIN events /\ events'[k] = events[k + 1]
      BY DeliverFacts DEF IInv, TypeOK
    <2> QED
      BY <1>10, <2>1 DEF PlainEnd, IInv, RowInv
  <1>13. CountersMatchRows'
    <2>1. /\ resultSuccess = CountActive({"Completed"})
          /\ resultFailure = CountActive({"Failed", "Cancelled"})
      BY <1>1 DEF CountersMatchRows, IInv, RowInv
    <2>2. \A S : CountActive(S) \in Nat
      BY <1>3, CountFacts
    <2>3. \A S : CountActive(S)' =
             (CountActive(S) - (IF Row(i) \in S THEN 1 ELSE 0))
               + (IF state \in S THEN 1 ELSE 0)
      BY <1>1, <1>3, CountChanges
    <2>4. Row(i) \notin {"Completed"} /\ Row(i) \notin {"Failed", "Cancelled"}
      BY DEF Ends
    <2>5. CountActive({"Completed"})' = CountActive({"Completed"})
             + (IF state = "Completed" THEN 1 ELSE 0)
      BY <2>2, <2>3, <2>4
    <2>6. CountActive({"Failed", "Cancelled"})' = CountActive({"Failed", "Cancelled"})
             + (IF state \in {"Failed", "Cancelled"} THEN 1 ELSE 0)
      BY <2>2, <2>3, <2>4
    <2>7. CountActive({"Processing"})' <= 1
      <3>1. \A j \in RowsIn({"Processing"})' : j \in Nat /\ m + 1 = 2 * j + 1
        <4> SUFFICES ASSUME NEW j \in RowsIn({"Processing"})'
                     PROVE  j \in Nat /\ m + 1 = 2 * j + 1
          OBVIOUS
        <4>1. j \in DOMAIN activeTasks /\ Row(j)' = "Processing"
          BY DEF RowsIn
        <4>2. Row(j)' \in RowStates(j, m + 1)
          BY <1>9, <4>1 DEF DeliveredBelow
        <4>3. j \in Nat
          BY <1>3, <4>1
        <4> QED
          BY <4>1, <4>2, <4>3 DEF RowStates, Ends
      <3>2. \A x, y \in RowsIn({"Processing"})' : x = y
        BY <1>1, <3>1
      <3> QED
        BY <3>2, AtMostOne DEF CountActive
    <2> QED
      BY <2>1, <2>5, <2>6, <2>7 DEF CountersMatchRows
  <1>14. CardMatchesRows'
    BY <1>11 DEF CardMatchesRows, RowsFollow
  <1>15. Distinct(tasks)' /\ (\A x \in Batch : x > batch => windex[x] = 1)'
    BY DEF IInv, RowInv, Distinct
  <1>16. (resultCard # "hidden" => activeTasks = tasks)'
    BY DEF IInv, RowInv
  <1> QED
    BY <1>7, <1>11, <1>12, <1>13, <1>14, <1>15, <1>16 DEF RowInv

\* taskStarted.
LEMMA StartedRows == IInv /\ HandleTaskStarted => RowInv'
  <1> SUFFICES ASSUME IInv, HandleTaskStarted PROVE RowInv'
    OBVIOUS
  <1> USE DEF resultVars, guiVars, ptrVars, uiVars, timerVars, workerVars
  <1>1. PICK i : i = Head(events).index
    OBVIOUS
  <1>2. PICK m : m = Number(Head(events))
    OBVIOUS
  <1>3. Delivering("taskStarted") /\ "taskStarted" \in RowSignals
    BY DEF HandleTaskStarted, RowSignals
  <1>4. /\ i \in DOMAIN activeTasks /\ Head(events) \in Event
        /\ Head(events).type = "taskStarted"
        /\ \A j \in DOMAIN activeTasks : Row(j) \in RowStates(j, m)
    BY <1>1, <1>2, <1>3, HeadRow
  <1>5. m = 2 * i /\ i \in Nat
    BY <1>1, <1>2, <1>4 DEF Number, Event
  <1>6. Row(i) = "Ready" /\ RowStates(i, m + 1) = {"Processing"}
    BY <1>4, <1>5 DEF RowStates
  <1>7. /\ taskState' = [taskState EXCEPT ![activeTasks[i]] = "Processing"]
        /\ UNCHANGED <<tasks, activeTasks, processing, batch, requests, windex,
                       wpc, cancelled, resultCard, resultSuccess, resultFailure>>
    BY <1>1, <1>4 DEF HandleTaskStarted, InActive
  <1>8. resultSuccess \in Nat /\ resultFailure \in Nat
    BY DEF IInv, TypeOK
  <1>9. "Processing" \in TaskStates /\ Row(i) \notin Ends
    BY <1>6 DEF TaskStates, Ends
  <1>10. /\ resultSuccess' = resultSuccess + (IF "Processing" = "Completed" THEN 1 ELSE 0)
         /\ resultFailure' = resultFailure + (IF "Processing" \in {"Failed", "Cancelled"} THEN 1 ELSE 0)
    BY <1>7, <1>8
  <1> QED
    BY <1>1, <1>2, <1>3, <1>6, <1>7, <1>9, <1>10, DeliverRow

\* taskFinished.
LEMMA FinishedRows == IInv /\ HandleTaskFinished => RowInv'
  <1> SUFFICES ASSUME IInv, HandleTaskFinished PROVE RowInv'
    OBVIOUS
  <1> USE DEF resultVars, guiVars, ptrVars, uiVars, timerVars, workerVars
  <1>1. PICK i : i = Head(events).index
    OBVIOUS
  <1>2. PICK m : m = Number(Head(events))
    OBVIOUS
  <1>3. Delivering("taskFinished") /\ "taskFinished" \in RowSignals
    BY DEF HandleTaskFinished, RowSignals
  <1>4. /\ i \in DOMAIN activeTasks /\ Head(events) \in Event
        /\ Head(events).type = "taskFinished"
        /\ \A j \in DOMAIN activeTasks : Row(j) \in RowStates(j, m)
    BY <1>1, <1>2, <1>3, HeadRow
  <1>5. m = 2 * i + 1 /\ i \in Nat
    BY <1>1, <1>2, <1>4 DEF Number, Event
  <1>6. Row(i) = "Processing" /\ RowStates(i, m + 1) = Ends
    BY <1>4, <1>5 DEF RowStates
  <1>7. PICK outcome : outcome = Head(events).outcome
    OBVIOUS
  <1>8. PICK state : state = EndState(outcome)
    OBVIOUS
  <1>9. /\ taskState' = [taskState EXCEPT ![activeTasks[i]] = state]
        /\ resultSuccess' = resultSuccess + (IF outcome = "ok" THEN 1 ELSE 0)
        /\ resultFailure' = resultFailure + (IF outcome = "ok" THEN 0 ELSE 1)
        /\ UNCHANGED <<tasks, activeTasks, processing, batch, requests, windex,
                       wpc, cancelled, resultCard>>
    BY <1>1, <1>4, <1>7, <1>8 DEF HandleTaskFinished, InActive
  <1>10. /\ state \in Ends /\ state \in TaskStates
         /\ state = "Completed" <=> outcome = "ok"
         /\ state \in {"Failed", "Cancelled"} <=> outcome # "ok"
         /\ state = "Cancelled" => outcome = "cancelled"
    BY <1>8 DEF EndState, Ends, TaskStates
  <1>11. Row(i) \notin Ends /\ state \in RowStates(i, m + 1)
    BY <1>6, <1>10 DEF Ends
  <1>12. /\ resultSuccess' = resultSuccess + (IF state = "Completed" THEN 1 ELSE 0)
         /\ resultFailure' = resultFailure + (IF state \in {"Failed", "Cancelled"} THEN 1 ELSE 0)
    BY <1>9, <1>10
  <1>13. state = "Cancelled" => Head(events).outcome = "cancelled"
    BY <1>7, <1>10
  <1> QED
    BY <1>1, <1>2, <1>3, <1>9, <1>10, <1>11, <1>12, <1>13, DeliverRow

\* What allFinished finds: every signal was delivered, so each row waits or
\* has ended; after a plain end none waits and none was cancelled.
LEMMA RowsAtEnd ==
  ASSUME IInv, Delivering("allFinished")
  PROVE  /\ processing /\ activeTasks = tasks /\ activeTasks \in Seq(Task)
         /\ \A i \in DOMAIN activeTasks : Row(i) \in Ends \cup {"Ready"}
         /\ Head(events).outcome # "cancelled" =>
              \A i \in DOMAIN activeTasks : Row(i) \in {"Completed", "Failed"}
         /\ \A k \in DOMAIN events' : events'[k].type # "allFinished"
  <1>1. /\ 1 \in DOMAIN events /\ Head(events) = events[1]
        /\ events[1].type = "allFinished"
        /\ DOMAIN events = 1 .. Len(events)
        /\ \A k \in DOMAIN events' : k \in Nat /\ k + 1 \in DOMAIN events /\ events'[k] = events[k + 1]
    BY DeliverFacts DEF IInv, TypeOK
  <1>2. processing /\ batch \in Batch /\ ~Running(batch)
    BY <1>1 DEF IInv, QueueInv, EventOK, BatchInv
  <1>3. /\ activeTasks = tasks /\ requests[batch] = tasks /\ activeTasks \in Seq(Task)
    BY <1>2 DEF IInv, BatchInv, TypeOK
  <1>4. /\ \A k \in DOMAIN events : k # 1 => events[k].type \notin TaskEvents \cup {"allFinished"}
        /\ Queued = {}
    BY <1>1 DEF IInv, QueueInv, Queued, RowSignals, TaskEvents
  <1>5. QueuedNumbers = {}
    BY <1>4 DEF QueuedNumbers
  <1>6. PICK n \in 2 .. NextNumber : DeliveredBelow(n)
    BY <1>2 DEF IInv, RowInv, RowsFollow
  <1>7. NextNumber = 2 * windex[batch] /\ windex[batch] \in Nat
    BY <1>2 DEF NextNumber, Running, IInv, TypeOK
  <1>8. n = NextNumber
    <2>1. n .. NextNumber - 1 = {}
      BY <1>5, <1>6 DEF DeliveredBelow
    <2> QED
      BY <1>6, <1>7, <2>1
  <1>9. \A i \in DOMAIN activeTasks :
           /\ i \in Nat
           /\ Row(i) \in RowStates(i, 2 * windex[batch])
    BY <1>3, <1>6, <1>7, <1>8 DEF DeliveredBelow
  <1>10. \A i \in DOMAIN activeTasks : Row(i) \in Ends \cup {"Ready"}
    BY <1>7, <1>9 DEF RowStates
  <1>11. ASSUME Head(events).outcome # "cancelled", NEW i \in DOMAIN activeTasks
         PROVE  Row(i) \in {"Completed", "Failed"}
    <2>1. windex[batch] > Len(requests[batch]) /\ NothingCancelled
      BY <1>1, <1>11 DEF IInv, RowInv, PlainEnd
    <2>2. i <= Len(activeTasks) /\ i < windex[batch]
      BY <1>3, <1>7, <1>11, <2>1
    <2>3. Row(i) \in Ends
      BY <1>7, <1>9, <2>2 DEF RowStates
    <2> QED
      BY <2>1, <2>3 DEF NothingCancelled, Ends
  <1>12. \A k \in DOMAIN events' : events'[k].type # "allFinished"
    <2>1. DOMAIN events' = 1 .. Len(events')
      BY DeliverFacts DEF IInv, TypeOK
    <2>2. \A k \in DOMAIN events' : k + 1 # 1
      BY <1>1, <2>1
    <2> QED
      BY <1>1, <1>4, <2>2
  <1> QED
    BY <1>1, <1>2, <1>3, <1>10, <1>11, <1>12

\* allFinished.
LEMMA AllFinishedRows == IInv /\ HandleAllFinished => RowInv'
  <1> SUFFICES ASSUME IInv, HandleAllFinished PROVE RowInv'
    OBVIOUS
  <1> USE DEF resultVars, guiVars, ptrVars, uiVars, timerVars, workerVars
  <1>1. Delivering("allFinished")
    BY DEF HandleAllFinished
  <1>2. /\ processing /\ activeTasks = tasks /\ activeTasks \in Seq(Task)
        /\ \A i \in DOMAIN activeTasks : Row(i) \in Ends \cup {"Ready"}
        /\ Head(events).outcome # "cancelled" =>
              \A i \in DOMAIN activeTasks : Row(i) \in {"Completed", "Failed"}
        /\ \A k \in DOMAIN events' : events'[k].type # "allFinished"
    BY <1>1, RowsAtEnd
  <1>3. InOrder'
    BY <1>1, DeliverNumbers
  <1>4. UNCHANGED <<tasks, activeTasks, resultSuccess, resultFailure, batch, windex>>
    BY DEF HandleAllFinished
  <1>5. \A i \in DOMAIN activeTasks :
           Row(i)' = IF Row(i) = "Ready" THEN "Cancelled" ELSE Row(i)
    BY <1>2, <1>4 DEF HandleAllFinished, Row, ToSet
  <1> DEFINE m == Len(activeTasks)
  <1>6. m \in Nat /\ DOMAIN activeTasks = 1 .. m
    BY <1>2
  <1>7. \A S : RowsIn(S)' = {i \in 1 .. m : Row(i)' \in S}
    BY <1>4, <1>6 DEF RowsIn
  <1>8. CountActive({"Ready", "Processing"})' = 0
    <2>1. RowsIn({"Ready", "Processing"})' = {}
      BY <1>2, <1>5, <1>6, <1>7 DEF Ends
    <2> QED
      BY <2>1, FS_EmptySet DEF CountActive
  <1>9. ASSUME Head(events).outcome # "cancelled"
        PROVE  /\ \A i \in 1 .. m : Row(i)' = Row(i) /\ Row(i) \in {"Completed", "Failed"}
               /\ CountActive({"Completed", "Failed"})' = m
    <2>1. \A i \in 1 .. m : Row(i)' = Row(i) /\ Row(i) \in {"Completed", "Failed"}
      BY <1>2, <1>5, <1>6, <1>9
    <2>2. RowsIn({"Completed", "Failed"})' = 1 .. m
      BY <1>7, <2>1
    <2> QED
      BY <1>6, <2>1, <2>2, IntervalCount DEF CountActive
  <1>10. /\ resultSuccess = CountActive({"Completed"})
         /\ resultFailure = CountActive({"Failed", "Cancelled"})
         /\ resultFailure \in Nat
    BY <1>2 DEF IInv, RowInv, CountersMatchRows, TypeOK
  <1>11. resultCard' = ResultCard(Head(events).outcome = "cancelled")
    BY DEF HandleAllFinished
  <1>12. ASSUME resultCard' = "complete"
         PROVE  CountActive({"Completed"})' = m /\ resultSuccess' = m
    <2>1. Head(events).outcome # "cancelled" /\ resultFailure = 0
      BY <1>10, <1>11, <1>12 DEF ResultCard
    <2>2. \A i \in 1 .. m : Row(i) \notin {"Failed", "Cancelled"}
      BY <1>2, <1>6, <1>10, <2>1, CountFacts
    <2>3. \A i \in 1 .. m : Row(i) = "Completed" /\ Row(i)' = "Completed"
      BY <1>9, <2>1, <2>2
    <2>4. RowsIn({"Completed"})' = 1 .. m /\ RowsIn({"Completed"}) = 1 .. m
      <3>1. RowsIn({"Completed"}) = 1 .. m
        BY <1>6, <2>3 DEF RowsIn
      <3>2. RowsIn({"Completed"})' = 1 .. m
        BY <1>7, <2>3
      <3> QED
        BY <3>1, <3>2
    <2>5. CountActive({"Completed"})' = m /\ CountActive({"Completed"}) = m
      BY <1>6, <2>4, IntervalCount DEF CountActive
    <2> QED
      BY <1>4, <1>10, <2>5
  <1>13. ASSUME resultCard' = "errors"
         PROVE  CountActive({"Completed", "Failed"})' = m /\ resultFailure' > 0
    BY <1>4, <1>9, <1>11, <1>13 DEF ResultCard
  <1>14. CardMatchesRows'
    <2>1. Len(activeTasks)' = m
      BY <1>4
    <2> HIDE DEF m
    <2> QED
      BY <1>8, <1>12, <1>13, <2>1 DEF CardMatchesRows
  <1>15. ~processing'
    BY DEF HandleAllFinished
  <1>16. PlainEnd' /\ CountersMatchRows'
    BY <1>2, <1>15 DEF PlainEnd, CountersMatchRows
  <1>17. Distinct(tasks)' /\ (\A b \in Batch : b > batch => windex[b] = 1)'
    BY <1>4 DEF IInv, RowInv, Distinct
  <1>18. (resultCard # "hidden" => activeTasks = tasks)'
    BY <1>2, <1>4
  <1> QED
    BY <1>3, <1>14, <1>15, <1>16, <1>17, <1>18 DEF RowInv

LEMMA AppendDistinct ==
  ASSUME NEW s \in Seq(Task), Distinct(s), NEW t \in Task, t \notin ToSet(s)
  PROVE  Distinct(Append(s, t))
  BY AppendProperties DEF Distinct, ToSet

LEMMA RemoveDistinct ==
  ASSUME NEW s \in Seq(Task), Distinct(s), NEW i \in DOMAIN s
  PROVE  Distinct(RemoveAt(s, i))
  <1> DEFINE r == RemoveAt(s, i)
             at(k) == IF k < i THEN k ELSE k + 1
  <1>1. /\ DOMAIN r = 1 .. Len(s) - 1 /\ DOMAIN s = 1 .. Len(s) /\ Len(s) \in Nat
        /\ i \in 1 .. Len(s)
        /\ \A k \in DOMAIN r : r[k] = s[at(k)] /\ at(k) \in DOMAIN s
    <2> DEFINE left == SubSeq(s, 1, i - 1)
               right == SubSeq(s, i + 1, Len(s))
    <2>1. DOMAIN s = 1 .. Len(s) /\ Len(s) \in Nat /\ i \in 1 .. Len(s)
      OBVIOUS
    <2>2. /\ left \in Seq(Task) /\ Len(left) = i - 1
          /\ \A k \in 1 .. i - 1 : left[k] = s[k]
      BY <2>1, SubSeqProperties
    <2>3. /\ right \in Seq(Task) /\ Len(right) = Len(s) - i
          /\ \A k \in 1 .. Len(s) - i : right[k] = s[i + k]
      BY <2>1, SubSeqProperties
    <2>4. r = left \o right
      BY DEF RemoveAt
    <2> HIDE DEF left, right, r
    <2>5. DOMAIN r = 1 .. Len(s) - 1
      <3>0. left \in Seq(Task) /\ right \in Seq(Task)
        BY <2>2, <2>3
      <3>1. r \in Seq(Task) /\ Len(r) = Len(left) + Len(right)
        BY ONLY <3>0, <2>4, ConcatProperties
      <3>2. (i - 1) + (Len(s) - i) = Len(s) - 1
        BY <2>1
      <3> QED
        BY <2>2, <2>3, <3>1, <3>2
    <2>6. ASSUME NEW k \in 1 .. Len(s) - 1 PROVE r[k] = s[at(k)] /\ at(k) \in 1 .. Len(s)
      <3>1. r[k] = IF k <= Len(left) THEN left[k] ELSE right[k - Len(left)]
        BY <2>1, <2>2, <2>3, <2>4, <2>6, ConcatProperties
      <3>2. CASE k < i
        BY <2>1, <2>2, <3>1, <3>2
      <3>3. CASE ~(k < i)
        <4>1. r[k] = right[k - (i - 1)] /\ k - (i - 1) \in 1 .. Len(s) - i
          BY <2>1, <2>2, <2>6, <3>1, <3>3
        <4>2. i + (k - (i - 1)) = k + 1
          BY <2>1, <2>6
        <4>3. right[k - (i - 1)] = s[k + 1]
          BY <2>3, <4>1, <4>2
        <4>4. k + 1 \in 1 .. Len(s)
          BY <2>1, <2>6
        <4> QED
          BY <3>3, <4>1, <4>3, <4>4
      <3> QED
        BY <3>2, <3>3
    <2> QED
      BY <2>1, <2>5, <2>6
  <1>2. \A j, k \in 1 .. Len(s) - 1 : at(j) = at(k) => j = k
    BY <1>1
  <1> HIDE DEF r, at
  <1>3. Distinct(r)
    BY <1>1, <1>2 DEF Distinct
  <1> QED
    BY <1>3 DEF r

LEMMA RowStep == IInv /\ [Next]_vars => RowInv'
  <1> SUFFICES ASSUME IInv, [Next]_vars PROVE RowInv'
    OBVIOUS
  <1> USE DEF resultVars, guiVars, ptrVars, uiVars, timerVars, workerVars
  <1>1. ASSUME NEW t \in Task, AddFile(t) PROVE RowInv'
    <2>1. tasks' = Append(tasks, t) /\ tasks \in Seq(Task) /\ t \notin ToSet(tasks)
      BY <1>1 DEF AddFile, IInv, TypeOK
    <2>2. Distinct(Append(tasks, t))
      BY <2>1, AppendDistinct DEF IInv, RowInv
    <2>3. Distinct(tasks)'
      BY <2>1, <2>2 DEF Distinct
    <2> QED
      BY <1>1, <2>3, IdleRows DEF AddFile
  <1>2. ASSUME NEW t \in Task, RemoveClicked(t) PROVE RowInv'
    BY <1>2, RowFrame DEF RemoveClicked
  <1>3. ASSUME ClearTasks PROVE RowInv'
    <2>1. Distinct(tasks)'
      BY <1>3 DEF ClearTasks, ClearList, Distinct
    <2> QED
      BY <1>3, <2>1, IdleRows DEF ClearTasks, ClearList
  <1>4. ASSUME SetMode PROVE RowInv'
    BY <1>4, RowFrame DEF SetMode
  <1>5. ASSUME NEW yes \in BOOLEAN, AnswerMode(yes) PROVE RowInv'
    <2>1. CASE yes /\ ~processing
      <3>1. Distinct(tasks)'
        BY <1>5, <2>1 DEF AnswerMode, ClearList, Distinct
      <3> QED
        BY <1>5, <2>1, <3>1, IdleRows DEF AnswerMode, ClearList
    <2>2. CASE ~(yes /\ ~processing)
      BY <1>5, <2>2, RowFrame DEF AnswerMode
    <2> QED
      BY <2>1, <2>2
  <1>6. ASSUME NEW yes \in BOOLEAN, AnswerExisting(yes) PROVE RowInv'
    <2>1. ~processing
      BY <1>6, FrontFacts DEF AnswerExisting, IInv, TypeOK, UiInv
    <2>2. CASE yes
      BY <1>6, <2>1, <2>2, BeginRows DEF AnswerExisting
    <2>3. CASE ~yes
      BY <1>6, <2>3, RowFrame DEF AnswerExisting
    <2> QED
      BY <2>2, <2>3
  <1>7. ASSUME NEW yes \in BOOLEAN, AnswerClose(yes) PROVE RowInv'
    <2>1. \A b \in Batch : cancelled[b] => cancelled'[b]
      BY <1>7 DEF AnswerClose, RequestCancel, IInv, TypeOK
    <2> QED
      BY <1>7, <2>1, RowFrame DEF AnswerClose
  <1>8. ASSUME NEW out \in BOOLEAN, StartClicked(out) PROVE RowInv'
    <2>1. ~processing
      BY <1>8 DEF StartClicked
    <2>2. CASE ~out
      BY <1>8, <2>1, <2>2, BeginRows DEF StartClicked
    <2>3. CASE out
      BY <1>8, <2>3, RowFrame DEF StartClicked
    <2> QED
      BY <2>2, <2>3
  <1>9. ASSUME CancelClicked PROVE RowInv'
    <2>1. \A b \in Batch : cancelled[b] => cancelled'[b]
      BY <1>9 DEF CancelClicked, RequestCancel, IInv, TypeOK
    <2> QED
      BY <1>9, <2>1, RowFrame DEF CancelClicked
  <1>10. ASSUME CloseRequested PROVE RowInv'
    BY <1>10, RowFrame DEF CloseRequested
  <1>11. ASSUME HandleTaskStarted PROVE RowInv'
    BY <1>11, StartedRows
  <1>12. ASSUME HandleTaskProgress PROVE RowInv'
    BY <1>12, DeliverOther DEF HandleTaskProgress, RowSignals
  <1>13. ASSUME HandleTaskFinished PROVE RowInv'
    BY <1>13, FinishedRows
  <1>14. ASSUME HandleAllFinished PROVE RowInv'
    BY <1>14, AllFinishedRows
  <1>15. ASSUME HandleQuit PROVE RowInv'
    BY <1>15, DeliverOther DEF HandleQuit, RowSignals
  <1>16. ASSUME HandleThreadFinished PROVE RowInv'
    BY <1>16, DeliverOther DEF HandleThreadFinished, RowSignals
  <1>17. ASSUME NEW t \in Task, HandleRemove(t) PROVE RowInv'
    <2>1. CASE processing \/ t \notin ToSet(tasks)
      BY <1>17, <2>1, RowFrame DEF HandleRemove
    <2>2. CASE ~(processing \/ t \notin ToSet(tasks))
      <3>1. PICK i \in DOMAIN tasks : tasks' = RemoveAt(tasks, i)
        BY <1>17, <2>2 DEF HandleRemove
      <3>2. Distinct(RemoveAt(tasks, i))
        BY RemoveDistinct DEF IInv, TypeOK, RowInv
      <3>3. Distinct(tasks)'
        BY <3>1, <3>2 DEF Distinct
      <3> QED
        BY <1>17, <2>2, <3>3, IdleRows DEF HandleRemove
    <2> QED
      BY <2>1, <2>2
  <1>18. ASSUME HandlePostedClose PROVE RowInv'
    BY <1>18, RowFrame DEF HandlePostedClose
  <1>19. ASSUME NEW b \in Batch, WorkerTakeTask(b) PROVE RowInv'
    <2>1. Running(b) /\ processing /\ b = batch /\ wpc[batch] = "loop"
      BY <1>19 DEF WorkerTakeTask, Running, IInv, BatchInv
    <2>2. /\ NextNumber' = NextNumber + 1 /\ wpc'[batch] = "codec"
          /\ 2 * windex[batch] + 0 = NextNumber
      BY <1>19, <2>1 DEF WorkerTakeTask, NextNumber, IInv, TypeOK
    <2>3. "taskStarted" \in RowSignals /\ "none" \in Outcomes
      BY DEF RowSignals, Outcomes
    <2>4. Post("taskStarted", batch, windex[batch], "none")
      BY <1>19, <2>1 DEF WorkerTakeTask
    <2> QED
      BY <1>19, <2>1, <2>2, <2>3, <2>4, PostRow DEF WorkerTakeTask
  <1>20. ASSUME NEW b \in Batch, WorkerProgress(b) PROVE RowInv'
    <2>1. Running(b) /\ processing /\ b = batch /\ wpc[batch] = "codec"
      BY <1>20 DEF WorkerProgress, Running, IInv, BatchInv
    <2>2. /\ NextNumber' = NextNumber
          /\ wpc'[batch] = "abort" => cancelled[batch]
      BY <1>20, <2>1 DEF WorkerProgress, NextNumber, IInv, TypeOK
    <2>3. /\ "taskProgress" \in EventTypes /\ "none" \in Outcomes
          /\ "taskProgress" \notin RowSignals \cup {"allFinished"}
          /\ windex[b] \in Nat
      BY DEF EventTypes, TaskEvents, RowSignals, Outcomes, IInv, TypeOK
    <2>4. Post("taskProgress", b, windex[b], "none")
      BY <1>20 DEF WorkerProgress
    <2> QED
      BY <1>20, <2>2, <2>3, <2>4, PostOther DEF WorkerProgress
  <1>21. ASSUME NEW b \in Batch, NEW outcome \in Outcomes, WorkerFinishTask(b, outcome)
         PROVE  RowInv'
    <2>1. /\ Running(b) /\ processing /\ b = batch
          /\ wpc[batch] \in {"codec", "abort"}
      BY <1>21 DEF WorkerFinishTask, CodecReturns, Running, IInv, BatchInv
    <2>2. windex[batch] \in Nat
      BY <2>1 DEF IInv, TypeOK
    <2>3. /\ NextNumber' = 2 * (windex[batch] + 1) /\ wpc'[batch] = "loop"
          /\ 2 * windex[batch] + 1 = NextNumber
      BY <1>21, <2>1 DEF WorkerFinishTask, NextNumber, IInv, TypeOK
    <2>4. "taskFinished" \in RowSignals
      BY DEF RowSignals
    <2>5. Post("taskFinished", batch, windex[batch], outcome)
      BY <1>21, <2>1 DEF WorkerFinishTask
    <2>6. outcome = "cancelled" => cancelled[batch]
      BY <1>21, <2>1 DEF WorkerFinishTask, CodecReturns, IInv, RowInv, RowsFollow
    <2>7. NextNumber' = NextNumber + 1
      BY <2>2, <2>3
    <2>8. /\ windex' = [windex EXCEPT ![batch] = @ + 1]
          /\ UNCHANGED <<tasks, activeTasks, taskState, resultVars, processing,
                         batch, requests, cancelled>>
      BY <1>21, <2>1 DEF WorkerFinishTask
    <2> QED
      BY <2>1, <2>3, <2>4, <2>5, <2>6, <2>7, <2>8, PostRow
  <1>22. ASSUME NEW b \in Batch, WorkerAllFinished(b) PROVE RowInv'
    BY <1>22, PostEnd
  <1>23. ASSUME NEW b \in Batch, WorkerPostQuit(b) PROVE RowInv'
    <2>1. NextNumber' = NextNumber /\ (wpc'[batch] = "abort" => wpc[batch] = "abort")
      BY <1>23 DEF WorkerPostQuit, NextNumber, IInv, TypeOK
    <2>2. processing /\ wpc'[batch] = "abort" => cancelled[batch]
      BY <2>1 DEF IInv, RowInv, RowsFollow
    <2>3. /\ "quit" \in EventTypes /\ "none" \in Outcomes /\ 0 \in Nat
          /\ "quit" \notin RowSignals \cup {"allFinished"}
      BY DEF EventTypes, RowSignals, Outcomes
    <2>4. Post("quit", b, 0, "none")
      BY <1>23 DEF WorkerPostQuit
    <2> QED
      BY <1>23, <2>1, <2>2, <2>3, <2>4, PostOther DEF WorkerPostQuit
  <1>24. ASSUME NEW b \in Batch, ThreadFinish(b) PROVE RowInv'
    <2>1. NextNumber' = NextNumber /\ (wpc'[batch] = "abort" => wpc[batch] = "abort")
      BY <1>24 DEF ThreadFinish, NextNumber, IInv, TypeOK
    <2>2. processing /\ wpc'[batch] = "abort" => cancelled[batch]
      BY <2>1 DEF IInv, RowInv, RowsFollow
    <2>3. /\ "finished" \in EventTypes /\ "none" \in Outcomes /\ 0 \in Nat
          /\ "finished" \notin RowSignals \cup {"allFinished"}
      BY DEF EventTypes, RowSignals, Outcomes
    <2>4. Post("finished", b, 0, "none")
      BY <1>24 DEF ThreadFinish
    <2> QED
      BY <1>24, <2>1, <2>2, <2>3, <2>4, PostOther DEF ThreadFinish
  <1>25. ASSUME DestroyWindow PROVE RowInv'
    <2>1. \A b \in Batch : cancelled[b] => cancelled'[b]
      BY <1>25 DEF DestroyWindow, IInv, TypeOK
    <2> QED
      BY <1>25, <2>1, RowFrame DEF DestroyWindow
  <1>26. ASSUME ExitProgram PROVE RowInv'
    BY <1>26, RowFrame DEF ExitProgram
  <1>27. CASE UNCHANGED vars
    BY <1>27, RowFrame DEF vars
  <1> QED
    BY <1>1, <1>2, <1>3, <1>4, <1>5, <1>6, <1>7, <1>8, <1>9, <1>10, <1>11, <1>12, <1>13, <1>14, <1>15, <1>16, <1>17, <1>18, <1>19, <1>20, <1>21, <1>22, <1>23, <1>24, <1>25, <1>26, <1>27
    DEF Next, User, HandleEvent, Timers, Worker, Terminated

LEMMA InitRowInv == Init => RowInv
  <1> SUFFICES ASSUME Init PROVE RowInv
    OBVIOUS
  <1>1. Queued = {}
    BY DEF Init, Queued
  <1>2. InOrder
    BY <1>1 DEF InOrder
  <1>3. Distinct(tasks)
    BY DEF Init, Distinct
  <1>4. PlainEnd /\ CountersMatchRows /\ CardMatchesRows
    BY DEF Init, PlainEnd, CountersMatchRows, CardMatchesRows
  <1> QED
    BY <1>2, <1>3, <1>4 DEF Init, RowInv

----------------------------------------------------------------------------
(* The refinement of BatchReport.                                          *)

LEMMA SameReport ==
  ASSUME UNCHANGED <<processing, activeTasks, taskState, resultCard>>
  PROVE  UNCHANGED Report!vars
  BY DEF Report!vars, ShownRows, Row

LEMMA ForgetReport ==
  ASSUME ~processing, ~processing', processing' = processing, resultCard' = "hidden"
  PROVE  Report!Forget
  BY DEF Report!Forget, ShownRows

LEMMA BeginReport ==
  ASSUME IInv, ~processing, BeginBatch
  PROVE  Report!Begin
  <1>1. activeTasks' = tasks /\ \A i \in DOMAIN tasks : Row(i)' = "Ready"
    BY DEF BeginBatch, IInv, TypeOK, Row, ToSet
  <1>2. processing' /\ resultCard' = "hidden"
    BY DEF BeginBatch
  <1>3. ShownRows' = [i \in DOMAIN tasks |-> Row(i)']
    BY <1>1, <1>2 DEF ShownRows
  <1>4. ToSet(ShownRows') \subseteq {"Ready"}
    BY <1>1, <1>3 DEF ToSet
  <1> QED
    BY <1>2, <1>4 DEF Report!Begin, ToSet, Report!ToSet

LEMMA StartedReport == IInv /\ HandleTaskStarted => Report!Start
  <1> SUFFICES ASSUME IInv, HandleTaskStarted PROVE Report!Start
    OBVIOUS
  <1> USE DEF resultVars, guiVars, ptrVars, uiVars, timerVars, workerVars
  <1>1. PICK i : i = Head(events).index
    OBVIOUS
  <1>2. PICK m : m = Number(Head(events))
    OBVIOUS
  <1>3. Delivering("taskStarted") /\ "taskStarted" \in RowSignals
    BY DEF HandleTaskStarted, RowSignals
  <1>4. /\ i \in DOMAIN activeTasks /\ Head(events) \in Event
        /\ Head(events).type = "taskStarted"
        /\ processing /\ activeTasks = tasks
        /\ \A j \in DOMAIN activeTasks : Row(j) \in RowStates(j, m)
    BY <1>1, <1>2, <1>3, HeadRow
  <1>5. m = 2 * i /\ i \in Nat
    BY <1>1, <1>2, <1>4 DEF Number, Event
  <1>6. /\ Row(i) = "Ready"
        /\ \A j \in DOMAIN activeTasks : j \in Nat /\ Row(j) # "Processing"
        /\ \A j \in DOMAIN activeTasks : j < i => Row(j) # "Ready"
    <2>1. \A j \in DOMAIN activeTasks : j \in Nat
      BY DEF IInv, TypeOK
    <2>2. \A j \in DOMAIN activeTasks : m # 2 * j + 1
      BY <1>5, <2>1
    <2>3. \A j \in DOMAIN activeTasks : j < i => ~(m <= 2 * j)
      BY <1>5, <2>1
    <2> QED
      BY <1>4, <1>5, <2>1, <2>2, <2>3 DEF RowStates, Ends
  <1>7. /\ taskState' = [taskState EXCEPT ![activeTasks[i]] = "Processing"]
        /\ UNCHANGED <<processing, activeTasks, resultCard>>
    BY <1>1, <1>4 DEF HandleTaskStarted, InActive
  <1>8. /\ Row(i)' = "Processing"
        /\ \A j \in DOMAIN activeTasks : j # i => Row(j)' = Row(j)
    BY <1>4, <1>7, OneRowChanges DEF IInv, RowInv, TaskStates
  <1>9. /\ ShownRows = [j \in DOMAIN activeTasks |-> Row(j)]
        /\ ShownRows' = [j \in DOMAIN activeTasks |-> Row(j)']
    BY <1>4, <1>7 DEF ShownRows
  <1>10. ShownRows' = [ShownRows EXCEPT ![i] = "Processing"]
    BY <1>4, <1>8, <1>9
  <1>11. "Processing" \notin ToSet(ShownRows)
    BY <1>6, <1>9 DEF ToSet
  <1>12. i \in DOMAIN ShownRows /\ ShownRows[i] = "Ready"
    BY <1>4, <1>6, <1>9
  <1>13. \A j \in 1 .. i - 1 : ShownRows[j] # "Ready"
    <2>1. \A j \in 1 .. i - 1 : j \in DOMAIN activeTasks /\ j < i
      <3>1. activeTasks \in Seq(Task)
        BY DEF IInv, TypeOK
      <3>2. DOMAIN activeTasks = 1 .. Len(activeTasks) /\ Len(activeTasks) \in Nat
        BY <3>1
      <3> QED
        BY <1>4, <1>5, <3>2
    <2> QED
      BY <1>6, <1>9, <2>1
  <1> QED
    BY <1>4, <1>7, <1>10, <1>11, <1>12, <1>13 DEF Report!Start, ToSet, Report!ToSet

LEMMA FinishedReport == IInv /\ HandleTaskFinished => Report!Finish
  <1> SUFFICES ASSUME IInv, HandleTaskFinished PROVE Report!Finish
    OBVIOUS
  <1> USE DEF resultVars, guiVars, ptrVars, uiVars, timerVars, workerVars
  <1>1. PICK i : i = Head(events).index
    OBVIOUS
  <1>2. PICK m : m = Number(Head(events))
    OBVIOUS
  <1>3. Delivering("taskFinished") /\ "taskFinished" \in RowSignals
    BY DEF HandleTaskFinished, RowSignals
  <1>4. /\ i \in DOMAIN activeTasks /\ Head(events) \in Event
        /\ Head(events).type = "taskFinished"
        /\ processing /\ activeTasks = tasks
        /\ \A j \in DOMAIN activeTasks : Row(j) \in RowStates(j, m)
    BY <1>1, <1>2, <1>3, HeadRow
  <1>5. m = 2 * i + 1 /\ i \in Nat
    BY <1>1, <1>2, <1>4 DEF Number, Event
  <1>6. Row(i) = "Processing"
    BY <1>4, <1>5 DEF RowStates
  <1>7. PICK state : state = EndState(Head(events).outcome)
    OBVIOUS
  <1>8. /\ taskState' = [taskState EXCEPT ![activeTasks[i]] = state]
        /\ UNCHANGED <<processing, activeTasks, resultCard>>
    BY <1>1, <1>4, <1>7 DEF HandleTaskFinished, InActive
  <1>9. state \in Report!Ends /\ state \in TaskStates
    BY <1>7 DEF EndState, Report!Ends, TaskStates
  <1>10. /\ Row(i)' = state
         /\ \A j \in DOMAIN activeTasks : j # i => Row(j)' = Row(j)
    BY <1>4, <1>8, <1>9, OneRowChanges DEF IInv, RowInv
  <1>11. /\ ShownRows = [j \in DOMAIN activeTasks |-> Row(j)]
         /\ ShownRows' = [j \in DOMAIN activeTasks |-> Row(j)']
    BY <1>4, <1>8 DEF ShownRows
  <1>12. ShownRows' = [ShownRows EXCEPT ![i] = state]
    BY <1>4, <1>10, <1>11
  <1>13. i \in DOMAIN ShownRows /\ ShownRows[i] = "Processing"
    BY <1>4, <1>6, <1>11
  <1> QED
    BY <1>4, <1>8, <1>9, <1>12, <1>13 DEF Report!Finish

LEMMA EndReport == IInv /\ HandleAllFinished => Report!End
  <1> SUFFICES ASSUME IInv, HandleAllFinished PROVE Report!End
    OBVIOUS
  <1> USE DEF resultVars, guiVars, ptrVars, uiVars, timerVars, workerVars
  <1>1. /\ processing /\ activeTasks = tasks /\ activeTasks \in Seq(Task)
        /\ \A i \in DOMAIN activeTasks : Row(i) \in Ends \cup {"Ready"}
        /\ Head(events).outcome # "cancelled" =>
              \A i \in DOMAIN activeTasks : Row(i) \in {"Completed", "Failed"}
    BY RowsAtEnd DEF HandleAllFinished
  <1>2. /\ activeTasks' = activeTasks /\ ~processing'
        /\ resultCard' = ResultCard(Head(events).outcome = "cancelled")
    BY DEF HandleAllFinished
  <1>3. \A i \in DOMAIN activeTasks :
           Row(i)' = IF Row(i) = "Ready" THEN "Cancelled" ELSE Row(i)
    BY <1>1, <1>2 DEF HandleAllFinished, Row, ToSet
  <1>4. resultCard' \in {"complete", "errors", "cancelled"}
    BY <1>2 DEF ResultCard
  <1>5. /\ ShownRows = [j \in DOMAIN activeTasks |-> Row(j)]
        /\ ShownRows' = [j \in DOMAIN activeTasks |-> Row(j)']
    BY <1>1, <1>2, <1>4 DEF ShownRows
  <1>6. ShownRows' = [j \in DOMAIN ShownRows |->
                         IF ShownRows[j] = "Ready" THEN "Cancelled" ELSE ShownRows[j]]
    BY <1>3, <1>5
  <1>7. "Processing" \notin ToSet(ShownRows)
    BY <1>1, <1>5 DEF ToSet, Ends
  <1>8. ASSUME NEW x \in ToSet(ShownRows'), resultCard' # "cancelled"
        PROVE  x \in {"Completed", "Failed"}
    BY <1>1, <1>2, <1>3, <1>5, <1>8 DEF ToSet, ResultCard
  <1>9. /\ resultFailure = CountActive({"Failed", "Cancelled"})
        /\ resultFailure \in Nat
    BY <1>1 DEF IInv, RowInv, CountersMatchRows, TypeOK
  <1>10. resultCard' = "complete" => ToSet(ShownRows') \subseteq {"Completed"}
    <2> SUFFICES ASSUME resultCard' = "complete"
                 PROVE  \A i \in DOMAIN activeTasks : Row(i)' = "Completed"
      BY <1>5 DEF ToSet
    <2>1. Head(events).outcome # "cancelled" /\ resultFailure = 0
      BY <1>2, <1>9 DEF ResultCard
    <2>2. \A i \in DOMAIN activeTasks : Row(i) \notin {"Failed", "Cancelled"}
      BY <1>1, <1>9, <2>1, CountFacts
    <2> QED
      BY <1>1, <1>3, <2>1, <2>2
  <1>11. resultCard' = "errors" =>
            "Failed" \in ToSet(ShownRows') /\ "Cancelled" \notin ToSet(ShownRows')
    <2> SUFFICES ASSUME resultCard' = "errors"
                 PROVE  "Failed" \in ToSet(ShownRows') /\ "Cancelled" \notin ToSet(ShownRows')
      OBVIOUS
    <2>1. Head(events).outcome # "cancelled" /\ resultFailure # 0
      BY <1>2, <1>9 DEF ResultCard
    <2>2. PICK i \in DOMAIN activeTasks : Row(i) \in {"Failed", "Cancelled"}
      BY <1>1, <1>9, <2>1, CountFacts
    <2>3. Row(i)' = "Failed"
      BY <1>1, <1>3, <2>1, <2>2
    <2> QED
      BY <1>5, <1>8, <2>3 DEF ToSet
  <1>12. Report!Claims(resultCard', ToSet(ShownRows'))
    BY <1>4, <1>10, <1>11 DEF Report!Claims
  <1> QED
    BY <1>1, <1>2, <1>4, <1>6, <1>7, <1>12 DEF Report!End, ToSet, Report!ToSet

LEMMA ReportStep == IInv /\ [Next]_vars => [Report!Next]_(Report!vars)
  <1> SUFFICES ASSUME IInv, [Next]_vars PROVE Report!Next \/ UNCHANGED Report!vars
    BY DEF Report!vars
  <1> USE DEF resultVars, guiVars, ptrVars, uiVars, timerVars, workerVars
  <1> DEFINE Goal == Report!Next \/ UNCHANGED Report!vars
  <1>1. ASSUME NEW t \in Task, AddFile(t) PROVE Goal
    BY <1>1, ForgetReport DEF AddFile, Report!Next
  <1>2. ASSUME NEW t \in Task, RemoveClicked(t) PROVE Goal
    BY <1>2, SameReport DEF RemoveClicked
  <1>3. ASSUME ClearTasks PROVE Goal
    BY <1>3, ForgetReport DEF ClearTasks, ClearList, Report!Next
  <1>4. ASSUME SetMode PROVE Goal
    BY <1>4, SameReport DEF SetMode
  <1>5. ASSUME NEW yes \in BOOLEAN, AnswerMode(yes) PROVE Goal
    <2>1. CASE yes /\ ~processing
      BY <1>5, <2>1, ForgetReport DEF AnswerMode, ClearList, Report!Next
    <2>2. CASE ~(yes /\ ~processing)
      BY <1>5, <2>2, SameReport DEF AnswerMode
    <2> QED
      BY <2>1, <2>2
  <1>6. ASSUME NEW yes \in BOOLEAN, AnswerExisting(yes) PROVE Goal
    <2>1. ~processing
      BY <1>6, FrontFacts DEF AnswerExisting, IInv, TypeOK, UiInv
    <2>2. CASE yes
      BY <1>6, <2>1, <2>2, BeginReport DEF AnswerExisting, Report!Next
    <2>3. CASE ~yes
      BY <1>6, <2>3, SameReport DEF AnswerExisting
    <2> QED
      BY <2>2, <2>3
  <1>7. ASSUME NEW yes \in BOOLEAN, AnswerClose(yes) PROVE Goal
    BY <1>7, SameReport DEF AnswerClose
  <1>8. ASSUME NEW out \in BOOLEAN, StartClicked(out) PROVE Goal
    <2>1. CASE ~out
      BY <1>8, <2>1, BeginReport DEF StartClicked, Report!Next
    <2>2. CASE out
      BY <1>8, <2>2, SameReport DEF StartClicked
    <2> QED
      BY <2>1, <2>2
  <1>9. ASSUME CancelClicked PROVE Goal
    BY <1>9, SameReport DEF CancelClicked
  <1>10. ASSUME CloseRequested PROVE Goal
    BY <1>10, SameReport DEF CloseRequested
  <1>11. ASSUME HandleTaskStarted PROVE Goal
    BY <1>11, StartedReport DEF Report!Next
  <1>12. ASSUME HandleTaskProgress PROVE Goal
    BY <1>12, SameReport DEF HandleTaskProgress
  <1>13. ASSUME HandleTaskFinished PROVE Goal
    BY <1>13, FinishedReport DEF Report!Next
  <1>14. ASSUME HandleAllFinished PROVE Goal
    BY <1>14, EndReport DEF Report!Next
  <1>15. ASSUME HandleQuit PROVE Goal
    BY <1>15, SameReport DEF HandleQuit
  <1>16. ASSUME HandleThreadFinished PROVE Goal
    BY <1>16, SameReport DEF HandleThreadFinished
  <1>17. ASSUME NEW t \in Task, HandleRemove(t) PROVE Goal
    <2>1. CASE processing \/ t \notin ToSet(tasks)
      BY <1>17, <2>1, SameReport DEF HandleRemove
    <2>2. CASE ~(processing \/ t \notin ToSet(tasks))
      BY <1>17, <2>2, ForgetReport DEF HandleRemove, Report!Next
    <2> QED
      BY <2>1, <2>2
  <1>18. ASSUME HandlePostedClose PROVE Goal
    BY <1>18, SameReport DEF HandlePostedClose
  <1>19. ASSUME NEW b \in Batch, WorkerTakeTask(b) PROVE Goal
    BY <1>19, SameReport DEF WorkerTakeTask
  <1>20. ASSUME NEW b \in Batch, WorkerProgress(b) PROVE Goal
    BY <1>20, SameReport DEF WorkerProgress
  <1>21. ASSUME NEW b \in Batch, NEW outcome \in Outcomes, WorkerFinishTask(b, outcome)
         PROVE  Goal
    BY <1>21, SameReport DEF WorkerFinishTask
  <1>22. ASSUME NEW b \in Batch, WorkerAllFinished(b) PROVE Goal
    BY <1>22, SameReport DEF WorkerAllFinished
  <1>23. ASSUME NEW b \in Batch, WorkerPostQuit(b) PROVE Goal
    BY <1>23, SameReport DEF WorkerPostQuit
  <1>24. ASSUME NEW b \in Batch, ThreadFinish(b) PROVE Goal
    BY <1>24, SameReport DEF ThreadFinish
  <1>25. ASSUME DestroyWindow PROVE Goal
    BY <1>25, SameReport DEF DestroyWindow
  <1>26. ASSUME ExitProgram PROVE Goal
    BY <1>26, SameReport DEF ExitProgram
  <1>27. CASE UNCHANGED vars
    BY <1>27, SameReport DEF vars
  <1> QED
    BY <1>1, <1>2, <1>3, <1>4, <1>5, <1>6, <1>7, <1>8, <1>9, <1>10, <1>11, <1>12, <1>13, <1>14, <1>15, <1>16, <1>17, <1>18, <1>19, <1>20, <1>21, <1>22, <1>23, <1>24, <1>25, <1>26, <1>27
    DEF Next, User, HandleEvent, Timers, Worker, Terminated

LEMMA InitReport == Init => Report!Init
  BY DEF Init, Report!Init, ShownRows

----------------------------------------------------------------------------
(* The theorems.                                                           *)

LEMMA InitIInv == Init => IInv
  <1> SUFFICES ASSUME Init PROVE IInv
    OBVIOUS
  <1>1. TypeOK
    BY InitTyped
  <1>2. QueueInv
    BY DEF Init, QueueInv
  <1>3. BatchInv
    BY DEF Init, BatchInv, Running, Batch
  <1>4. UiInv
    BY DEF Init, UiInv
  <1> QED
    BY <1>1, <1>2, <1>3, <1>4, InitRowInv DEF IInv

LEMMA NextIInv == IInv /\ [Next]_vars => IInv'
  BY TypeStep, UiStep, BatchStep, QueueStep, RowStep DEF IInv

\* The variables keep their types for every set of files and every bound.
THEOREM TypeCorrect == Spec => []TypeOK
  <1>1. Init => TypeOK
    BY InitTyped
  <1>2. TypeOK /\ [Next]_vars => TypeOK'
    BY TypeStep
  <1> QED
    BY <1>1, <1>2, PTL DEF Spec

\* The queue of the GUI thread and MainWindow's pointers agree with the worker
\* threads (MainWindow.cpp:1061-1165) in every reachable state.
THEOREM InvariantHolds == Spec => []IInv
  BY InitIInv, NextIInv, PTL DEF Spec

\* No queued signal of a worker is stale: the raw pointer its slot follows
\* (MainWindow.cpp:1068-1135) is the live entry the request came from.
THEOREM SignalsAreFresh == Spec => []SignalsHitTheirTask
  <1>1. IInv => SignalsHitTheirTask
    BY DEF IInv, TypeOK, QueueInv, EventOK, BatchInv, SignalsHitTheirTask, ToSet
  <1> QED
    BY <1>1, InvariantHolds, PTL

\* At most one worker executes run(), and workerThread_ is its thread.
THEOREM SingleWorker == Spec => []OneWorkerRuns
  <1>1. IInv => OneWorkerRuns
    BY DEF IInv, BatchInv, OneWorkerRuns
  <1> QED
    BY <1>1, InvariantHolds, PTL

\* No file is being written once the window has closed
\* (closeEvent, MainWindow.cpp:1287; the destructor, MainWindow.cpp:67).
THEOREM ExitIsSafe == Spec => []SafeExit
  <1>1. IInv => SafeExit
    BY DEF IInv, UiInv, BatchInv, SafeExit
  <1> QED
    BY <1>1, InvariantHolds, PTL

\* Every raw pointer that Show Output Folder may follow while the result card
\* is up is an entry of the list (showOutputFolder, MainWindow.cpp:1274).
THEOREM CardPointersLive == Spec => []ResultCardSafe
  <1>1. IInv => ResultCardSafe
    BY DEF IInv, RowInv, ResultCardSafe
  <1> QED
    BY <1>1, InvariantHolds, PTL

\* The counters of the taskFinished slot (MainWindow.cpp:1094-1135) agree with
\* the rows at every moment of a batch.
THEOREM CountersTrue == Spec => []CountersMatchRows
  <1>1. IInv => CountersMatchRows
    BY DEF IInv, RowInv
  <1> QED
    BY <1>1, InvariantHolds, PTL

\* The title of the result card is true of the rows below it, whenever a
\* cancel arrives (showResult, MainWindow.cpp:1219).
THEOREM CardTrue == Spec => []CardMatchesRows
  <1>1. IInv => CardMatchesRows
    BY DEF IInv, RowInv
  <1> QED
    BY <1>1, InvariantHolds, PTL

\* The application implements BatchReport: each step of a slot, a timer, the
\* user or a worker is a step of the plain batch or changes nothing it shows.
THEOREM ReportRefined == Spec => ReportsInOrder
  <1>1. Init => Report!Init
    BY InitReport
  <1>2. IInv /\ [Next]_vars => [Report!Next]_(Report!vars)
    BY ReportStep
  <1> QED
    BY <1>1, <1>2, InvariantHolds, PTL DEF Spec, ReportsInOrder, Report!Spec

====
