-------------------------- MODULE BatchProcessing --------------------------
(***************************************************************************)
(* The desktop application: MainWindow (gui/MainWindow.cpp) on the GUI     *)
(* thread, and one CompressionWorker (gui/CompressionWorker.cpp) on a      *)
(* thread of its own for each batch the user starts.                       *)
(*                                                                         *)
(* The two sides share one atomic flag (cancelled_) and talk through Qt's  *)
(* queued connections: every signal of a worker, and every slot call on    *)
(* its QThread object, is an event in the FIFO queue of the GUI thread.    *)
(* Zero-delay timers (a click on a row's remove button, the deferred       *)
(* close) fire in no fixed order relative to that queue.  A message box    *)
(* runs a nested event loop: while it is open the user can only answer it, *)
(* but queued events and timers are still delivered.                       *)
(***************************************************************************)
EXTENDS Integers, FiniteSets, Sequences, SequencesExt

CONSTANTS
    Task,         \* addresses a TaskEntry can have; a freed one is reused
    MaxBatches,   \* bound: batches started in one session
    MaxProgress,  \* bound: progress callbacks of one codec call
    MaxRemoves    \* bound: pending clicks on one task's remove button

ASSUME BoundsAssumption ==
    /\ MaxBatches \in Nat \ {0}
    /\ MaxProgress \in Nat \ {0}
    /\ MaxRemoves \in Nat
    /\ IsFiniteSet(Task)

Batch == 1 .. MaxBatches    \* a batch, its QThread and its worker object
None == 0                   \* a null QPointer

VARIABLES
    processing,        \* processing_
    closeWhenFinished, \* closeWhenFinished_
    tasks,             \* tasks_: the file list, in order
    activeTasks,       \* activeTasks_: raw pointers into the list
    taskState,         \* TaskEntry::state, by address
    resultSuccess,     \* resultSuccessCount_
    resultFailure,     \* resultFailureCount_
    resultCard,        \* the result card: hidden, or the title it shows
    workerThread,      \* workerThread_: the batch whose thread it is, or None
    workerPtr,         \* worker_: the batch whose worker it is, or None
    batch,             \* batches started so far
    dialogs,           \* open message boxes, innermost last
    window,            \* life of the MainWindow object
    events,            \* posted events of the GUI thread
    removals,          \* zero timers of remove clicks, per task address
    closePosts,        \* zero timers that will call QWidget::close
    requests,          \* requests_ of each batch's worker
    wpc,               \* where each worker thread is
    windex,            \* index of run()'s loop, from 1
    wsteps,            \* progress callbacks of the current codec call, else 0
    cancelled,         \* cancelled_ of each worker
    quit               \* QThread::quit was called on the batch's thread

resultVars == <<resultSuccess, resultFailure, resultCard>>
guiVars    == <<processing, closeWhenFinished, activeTasks, taskState>>
ptrVars    == <<workerThread, workerPtr, batch>>
uiVars     == <<dialogs, window>>
timerVars  == <<removals, closePosts>>
workerVars == <<requests, wpc, windex, wsteps>>
vars == <<tasks, resultVars, guiVars, ptrVars, uiVars, timerVars,
          workerVars, events, cancelled, quit>>

----------------------------------------------------------------------------

TaskStates == {"Ready", "Processing", "Completed", "Failed", "Cancelled"}
Cards      == {"hidden", "cancelled", "errors", "complete"}
Dialogs    == {"close", "existing", "mode"}
Outcomes   == {"none", "ok", "failed", "cancelled"}
TaskEvents == {"taskStarted", "taskProgress", "taskFinished"}
EventTypes == TaskEvents \cup {"allFinished", "quit", "finished"}
Pcs        == {"none", "loop", "codec", "abort", "emitted", "idle", "finished"}

Event == [type : EventTypes, batch : Batch, index : Nat, outcome : Outcomes]

Post(type, b, i, outcome) ==
    events' = Append(events, [type |-> type, batch |-> b,
                              index |-> i, outcome |-> outcome])

\* run() is between its first line and its last one.
Running(b) == wpc[b] \in {"loop", "codec", "abort"}

TypeOK ==
    /\ processing \in BOOLEAN
    /\ closeWhenFinished \in BOOLEAN
    /\ tasks \in Seq(Task)
    /\ activeTasks \in Seq(Task)
    /\ taskState \in [Task -> TaskStates]
    /\ resultSuccess \in Nat
    /\ resultFailure \in Nat
    /\ resultCard \in Cards
    /\ workerThread \in Batch \cup {None}
    /\ workerPtr \in Batch \cup {None}
    /\ batch \in 0 .. MaxBatches
    /\ dialogs \in Seq(Dialogs)
    /\ window \in {"open", "closed", "destroying", "exited"}
    /\ events \in Seq(Event)
    /\ removals \in [Task -> 0 .. MaxRemoves]
    /\ closePosts \in Nat
    /\ requests \in [Batch -> Seq(Task)]
    /\ wpc \in [Batch -> Pcs]
    /\ windex \in [Batch -> Nat]
    /\ wsteps \in [Batch -> 0 .. MaxProgress]
    /\ cancelled \in [Batch -> BOOLEAN]
    /\ quit \in [Batch -> BOOLEAN]

Init ==
    /\ processing = FALSE
    /\ closeWhenFinished = FALSE
    /\ tasks = <<>>
    /\ activeTasks = <<>>
    /\ taskState = [t \in Task |-> "Ready"]
    /\ resultSuccess = 0
    /\ resultFailure = 0
    /\ resultCard = "hidden"
    /\ workerThread = None
    /\ workerPtr = None
    /\ batch = 0
    /\ dialogs = <<>>
    /\ window = "open"
    /\ events = <<>>
    /\ removals = [t \in Task |-> 0]
    /\ closePosts = 0
    /\ requests = [b \in Batch |-> <<>>]
    /\ wpc = [b \in Batch |-> "none"]
    /\ windex = [b \in Batch |-> 1]
    /\ wsteps = [b \in Batch |-> 0]
    /\ cancelled = [b \in Batch |-> FALSE]
    /\ quit = [b \in Batch |-> FALSE]

----------------------------------------------------------------------------
(* The user.  A message box blocks the main window's own controls.         *)

UserReady == window = "open" /\ dialogs = <<>>

\* addFiles, one path: the entry may get the address of a freed one.
AddFile(t) ==
    /\ UserReady
    /\ ~processing
    /\ t \notin ToSet(tasks)
    /\ tasks' = Append(tasks, t)
    /\ taskState' = [taskState EXCEPT ![t] = "Ready"]
    /\ resultCard' = "hidden"
    /\ UNCHANGED <<processing, closeWhenFinished, activeTasks,
                   resultSuccess, resultFailure, ptrVars, uiVars, timerVars,
                   workerVars, events, cancelled, quit>>

\* A click on a row's remove button only starts a zero timer.
RemoveClicked(t) ==
    /\ UserReady
    /\ ~processing
    /\ t \in ToSet(tasks)
    /\ removals[t] < MaxRemoves
    /\ removals' = [removals EXCEPT ![t] = @ + 1]
    /\ UNCHANGED <<tasks, resultVars, guiVars, ptrVars, uiVars, closePosts,
                   workerVars, events, cancelled, quit>>

ClearList ==
    /\ tasks' = <<>>
    /\ activeTasks' = <<>>
    /\ resultCard' = "hidden"

\* Mutant: the menu action clears the list without the test of processing_.
ClearTasksAnytime ==
    /\ UserReady
    /\ ClearList
    /\ UNCHANGED <<processing, closeWhenFinished, taskState, resultSuccess,
                   resultFailure, ptrVars, uiVars, timerVars, workerVars,
                   events, cancelled, quit>>

ClearTasks ==
    /\ UserReady
    /\ ~processing
    /\ ClearList
    /\ UNCHANGED <<processing, closeWhenFinished,
                   taskState, resultSuccess, resultFailure, ptrVars, uiVars,
                   timerVars, workerVars, events, cancelled, quit>>

\* setMode: with files in the list it asks first.  Which mode is chosen only
\* selects the codec of the calls, whose outcome is arbitrary here.
SetMode ==
    /\ UserReady
    /\ ~processing
    /\ tasks # <<>>
    /\ dialogs' = <<"mode">>
    /\ UNCHANGED <<tasks, resultVars, guiVars, ptrVars, window,
                   timerVars, workerVars, events, cancelled, quit>>

Answering(dialog) ==
    /\ window = "open"
    /\ dialogs # <<>>
    /\ Last(dialogs) = dialog
    /\ dialogs' = Front(dialogs)

\* The rest of setMode; clearTasks has a guard of its own.
AnswerMode(yes) ==
    /\ Answering("mode")
    /\ IF yes /\ ~processing
       THEN ClearList
       ELSE UNCHANGED <<tasks, activeTasks, resultCard>>
    /\ UNCHANGED <<processing, closeWhenFinished, taskState,
                   resultSuccess, resultFailure, ptrVars, window, timerVars,
                   workerVars, events, cancelled, quit>>

\* Mutant: the counters of the previous batch are not reset.
BeginBatchKeepsCounters ==
    LET b == batch + 1 IN
    /\ batch < MaxBatches
    /\ activeTasks' = tasks
    /\ taskState' = [t \in Task |->
                        IF t \in ToSet(tasks) THEN "Ready" ELSE taskState[t]]
    /\ UNCHANGED <<resultSuccess, resultFailure>>
    /\ resultCard' = "hidden"
    /\ processing' = TRUE
    /\ batch' = b
    /\ workerThread' = b
    /\ workerPtr' = b
    /\ requests' = [requests EXCEPT ![b] = tasks]
    /\ wpc' = [wpc EXCEPT ![b] = "loop"]

\* startProcessing after its checks: the batch is the list as it is now.
BeginBatch ==
    LET b == batch + 1 IN
    /\ batch < MaxBatches
    /\ activeTasks' = tasks
    /\ taskState' = [t \in Task |->
                        IF t \in ToSet(tasks) THEN "Ready" ELSE taskState[t]]
    /\ resultSuccess' = 0
    /\ resultFailure' = 0
    /\ resultCard' = "hidden"
    /\ processing' = TRUE
    /\ batch' = b
    /\ workerThread' = b
    /\ workerPtr' = b
    /\ requests' = [requests EXCEPT ![b] = tasks]
    /\ wpc' = [wpc EXCEPT ![b] = "loop"]

\* Mutant: startProcessing does not test processing_.
StartClickedAnytime(outputsExist) ==
    /\ UserReady
    /\ tasks # <<>>
    /\ batch < MaxBatches
    /\ BeginBatch
    /\ UNCHANGED <<tasks, closeWhenFinished, dialogs, window, timerVars,
                   windex, wsteps, events, cancelled, quit>>

\* startProcessing.  The output paths may be free, or some of them may exist:
\* then resolveExistingOutputs opens a message box in the middle of the call.
StartClicked(outputsExist) ==
    /\ UserReady
    /\ ~processing
    /\ tasks # <<>>
    /\ batch < MaxBatches
    /\ IF outputsExist
       THEN /\ dialogs' = <<"existing">>
            /\ UNCHANGED <<resultVars, processing, activeTasks, taskState,
                           ptrVars, requests, wpc>>
       ELSE BeginBatch /\ UNCHANGED dialogs
    /\ UNCHANGED <<tasks, closeWhenFinished, window, timerVars,
                   windex, wsteps, events, cancelled, quit>>

\* Replace Existing and Create New Names go on; Cancel returns.
AnswerExisting(goOn) ==
    /\ Answering("existing")
    /\ IF goOn
       THEN BeginBatch
       ELSE UNCHANGED <<resultVars, processing, activeTasks, taskState,
                        ptrVars, requests, wpc>>
    /\ UNCHANGED <<tasks, closeWhenFinished, window, timerVars,
                   windex, wsteps, events, cancelled, quit>>

\* requestCancel: nothing happens without a batch or with a null worker_.
RequestCancel ==
    cancelled' = IF processing /\ workerPtr # None
                 THEN [cancelled EXCEPT ![workerPtr] = TRUE]
                 ELSE cancelled

CancelClicked ==
    /\ UserReady
    /\ processing
    /\ RequestCancel
    /\ UNCHANGED <<tasks, resultVars, guiVars, ptrVars, uiVars, timerVars,
                   workerVars, events, quit>>

\* Mutant: closeEvent accepts at once.
CloseEventAccepts == dialogs' = <<>> /\ window' = "closed"

\* closeEvent: asks while a batch is processing, else accepts.
CloseEvent ==
    IF processing
    THEN dialogs' = Append(dialogs, "close") /\ UNCHANGED window
    ELSE dialogs' = <<>> /\ window' = "closed"

CloseRequested ==
    /\ UserReady
    /\ CloseEvent
    /\ UNCHANGED <<tasks, resultVars, guiVars, ptrVars, timerVars,
                   workerVars, events, cancelled, quit>>

\* The rest of closeEvent; the batch may have ended behind the message box.
AnswerClose(yes) ==
    /\ Answering("close")
    /\ IF yes
       THEN closeWhenFinished' = TRUE /\ RequestCancel
       ELSE UNCHANGED <<closeWhenFinished, cancelled>>
    /\ UNCHANGED <<tasks, resultVars, processing, activeTasks, taskState,
                   ptrVars, window, timerVars, workerVars, events, quit>>

----------------------------------------------------------------------------
(* The GUI thread delivers its posted events in order, also behind a       *)
(* message box and until the closed window is destroyed.                   *)

EventLoopRuns == window \in {"open", "closed"}

Delivering(type) ==
    /\ EventLoopRuns
    /\ events # <<>>
    /\ Head(events).type = type
    /\ events' = Tail(events)

\* The three slots ignore an index outside activeTasks_.
InActive(i) == i \in DOMAIN activeTasks

HandleTaskStarted ==
    /\ Delivering("taskStarted")
    /\ LET i == Head(events).index IN
         taskState' = IF InActive(i)
                      THEN [taskState EXCEPT ![activeTasks[i]] = "Processing"]
                      ELSE taskState
    /\ UNCHANGED <<tasks, resultVars, processing, closeWhenFinished,
                   activeTasks, ptrVars, uiVars, timerVars, workerVars,
                   cancelled, quit>>

\* Only the progress bar changes, which is not modelled.
HandleTaskProgress ==
    /\ Delivering("taskProgress")
    /\ UNCHANGED <<tasks, resultVars, guiVars, ptrVars, uiVars, timerVars,
                   workerVars, cancelled, quit>>

EndState(outcome) ==
    CASE outcome = "ok"        -> "Completed"
      [] outcome = "cancelled" -> "Cancelled"
      [] OTHER                 -> "Failed"

HandleTaskFinished ==
    /\ Delivering("taskFinished")
    /\ LET i == Head(events).index
           outcome == Head(events).outcome
       IN IF InActive(i)
          THEN /\ taskState' = [taskState EXCEPT
                                  ![activeTasks[i]] = EndState(outcome)]
               /\ resultSuccess' =
                    resultSuccess + (IF outcome = "ok" THEN 1 ELSE 0)
               /\ resultFailure' =
                    resultFailure + (IF outcome = "ok" THEN 0 ELSE 1)
          ELSE UNCHANGED <<taskState, resultSuccess, resultFailure>>
    /\ UNCHANGED <<tasks, resultCard, processing, closeWhenFinished,
                   activeTasks, ptrVars, uiVars, timerVars, workerVars,
                   cancelled, quit>>

\* Mutant: failures are not looked at.
ResultCardHidesFailures(wasCancelled) ==
    IF wasCancelled THEN "cancelled" ELSE "complete"

\* showResult: the title, and with it the completion flash.
ResultCard(wasCancelled) ==
    CASE wasCancelled      -> "cancelled"
      [] ~wasCancelled /\ resultFailure > 0 -> "errors"
      [] OTHER             -> "complete"

HandleAllFinished ==
    /\ Delivering("allFinished")
    /\ taskState' = [t \in Task |->
                        IF t \in ToSet(activeTasks) /\ taskState[t] = "Ready"
                        THEN "Cancelled" ELSE taskState[t]]
    /\ processing' = FALSE
    /\ resultCard' = ResultCard(Head(events).outcome = "cancelled")
    /\ UNCHANGED <<tasks, resultSuccess, resultFailure, closeWhenFinished,
                   activeTasks, ptrVars, uiVars, timerVars, workerVars,
                   cancelled, quit>>

\* Mutant: allFinished is not connected to QThread::quit.
HandleQuitIgnored ==
    /\ Delivering("quit")
    /\ UNCHANGED <<tasks, resultVars, guiVars, ptrVars, uiVars, timerVars,
                   workerVars, cancelled, quit>>

HandleQuit ==
    /\ Delivering("quit")
    /\ quit' = [quit EXCEPT ![Head(events).batch] = TRUE]
    /\ UNCHANGED <<tasks, resultVars, guiVars, ptrVars, uiVars, timerVars,
                   workerVars, cancelled>>

\* Mutant: workerThread_ is reset as unconditionally as worker_ is.
HandleThreadFinishedResetsBoth ==
    /\ Delivering("finished")
    /\ workerThread' = None
    /\ workerPtr' = None
    /\ closeWhenFinished' = FALSE
    /\ closePosts' = closePosts + (IF closeWhenFinished THEN 1 ELSE 0)
    /\ UNCHANGED <<tasks, resultVars, processing, activeTasks, taskState,
                   batch, uiVars, removals, workerVars, cancelled, quit>>

\* Mutant: the flag is cleared but close() is not called again.
HandleThreadFinishedForgetsClose ==
    /\ Delivering("finished")
    /\ workerThread' = IF workerThread = Head(events).batch
                       THEN None ELSE workerThread
    /\ workerPtr' = None
    /\ closeWhenFinished' = FALSE
    /\ UNCHANGED <<tasks, resultVars, processing, activeTasks, taskState,
                   batch, uiVars, timerVars, workerVars, cancelled, quit>>

\* The slot on QThread::finished: worker_ is reset whatever it points to.
HandleThreadFinished ==
    /\ Delivering("finished")
    /\ workerThread' = IF workerThread = Head(events).batch
                       THEN None ELSE workerThread
    /\ workerPtr' = None
    /\ closeWhenFinished' = FALSE
    /\ closePosts' = closePosts + (IF closeWhenFinished THEN 1 ELSE 0)
    /\ UNCHANGED <<tasks, resultVars, processing, activeTasks, taskState,
                   batch, uiVars, removals, workerVars, cancelled, quit>>

HandleEvent ==
    \/ HandleTaskStarted
    \/ HandleTaskProgress
    \/ HandleTaskFinished
    \/ HandleAllFinished
    \/ HandleQuit
    \/ HandleThreadFinished

\* Mutant: removing a row leaves the result card visible.
HandleRemoveKeepsCard(t) ==
    /\ EventLoopRuns
    /\ removals[t] > 0
    /\ removals' = [removals EXCEPT ![t] = @ - 1]
    /\ IF processing \/ t \notin ToSet(tasks)
       THEN UNCHANGED tasks
       ELSE \E i \in DOMAIN tasks :
                tasks[i] = t /\ tasks' = RemoveAt(tasks, i)
    /\ UNCHANGED <<resultVars, guiVars, ptrVars, uiVars, closePosts,
                   workerVars, events, cancelled, quit>>

\* The zero timer of a remove click: removeTask.
HandleRemove(t) ==
    /\ EventLoopRuns
    /\ removals[t] > 0
    /\ removals' = [removals EXCEPT ![t] = @ - 1]
    /\ IF processing \/ t \notin ToSet(tasks)
       THEN UNCHANGED <<tasks, resultCard>>
       ELSE /\ \E i \in DOMAIN tasks :
                 tasks[i] = t /\ tasks' = RemoveAt(tasks, i)
            /\ resultCard' = "hidden"
    /\ UNCHANGED <<resultSuccess, resultFailure,
                   guiVars, ptrVars, uiVars, closePosts, workerVars, events,
                   cancelled, quit>>

\* Mutant: the deferred close is a timer nobody started.
HandlePostedCloseRepeats ==
    /\ EventLoopRuns
    /\ closePosts' = closePosts - 1
    /\ IF window = "open" THEN CloseEvent ELSE UNCHANGED uiVars
    /\ UNCHANGED <<tasks, resultVars, guiVars, ptrVars, removals,
                   workerVars, events, cancelled, quit>>

\* The zero timer of a deferred close; close() does nothing when closed.
HandlePostedClose ==
    /\ EventLoopRuns
    /\ closePosts > 0
    /\ closePosts' = closePosts - 1
    /\ IF window = "open" THEN CloseEvent ELSE UNCHANGED uiVars
    /\ UNCHANGED <<tasks, resultVars, guiVars, ptrVars, removals,
                   workerVars, events, cancelled, quit>>

----------------------------------------------------------------------------
(* The worker thread of batch b: CompressionWorker::run and its QThread.   *)

\* One more request: it is announced and its codec call begins.
WorkerTakeTask(b) ==
    /\ wpc[b] = "loop"
    /\ ~cancelled[b]
    /\ windex[b] <= Len(requests[b])
    /\ Post("taskStarted", b, windex[b], "none")
    /\ wpc' = [wpc EXCEPT ![b] = "codec"]
    /\ UNCHANGED <<tasks, resultVars, guiVars, ptrVars, uiVars, timerVars,
                   requests, windex, wsteps, cancelled, quit>>

\* progressCallback: a cancelled batch makes the codec give up.
WorkerProgress(b) ==
    /\ wpc[b] = "codec"
    /\ wsteps[b] < MaxProgress
    /\ Post("taskProgress", b, windex[b], "none")
    /\ wsteps' = [wsteps EXCEPT ![b] = @ + 1]
    /\ wpc' = [wpc EXCEPT ![b] = IF cancelled[b] THEN "abort" ELSE "codec"]
    /\ UNCHANGED <<tasks, resultVars, guiVars, ptrVars, uiVars, timerVars,
                   requests, windex, cancelled, quit>>

\* The codec returns: success only after its initial callback.
CodecReturns(b, outcome) ==
    \/ wpc[b] = "codec" /\ outcome = "failed"
    \/ wpc[b] = "codec" /\ outcome = "ok" /\ wsteps[b] > 0
    \/ wpc[b] = "abort" /\ outcome = "cancelled"

\* Mutant: taskFinished is connected directly, so its slot runs in the worker
\* thread and overtakes the signals that are queued.
WorkerFinishTaskDirectly(b, outcome) ==
    /\ CodecReturns(b, outcome)
    /\ InActive(windex[b])
    /\ taskState' = [taskState EXCEPT
                        ![activeTasks[windex[b]]] = EndState(outcome)]
    /\ resultSuccess' = resultSuccess + (IF outcome = "ok" THEN 1 ELSE 0)
    /\ resultFailure' = resultFailure + (IF outcome = "ok" THEN 0 ELSE 1)
    /\ wpc' = [wpc EXCEPT ![b] = "loop"]
    /\ windex' = [windex EXCEPT ![b] = @ + 1]
    /\ wsteps' = [wsteps EXCEPT ![b] = 0]
    /\ UNCHANGED <<tasks, resultCard, processing, closeWhenFinished,
                   activeTasks, ptrVars, uiVars, timerVars, requests, events,
                   cancelled, quit>>

WorkerFinishTask(b, outcome) ==
    /\ CodecReturns(b, outcome)
    /\ Post("taskFinished", b, windex[b], outcome)
    /\ wpc' = [wpc EXCEPT ![b] = "loop"]
    /\ windex' = [windex EXCEPT ![b] = @ + 1]
    /\ wsteps' = [wsteps EXCEPT ![b] = 0]
    /\ UNCHANGED <<tasks, resultVars, guiVars, ptrVars, uiVars, timerVars,
                   requests, cancelled, quit>>

\* Mutant: a cancelled run() returns before its last line.
WorkerAllFinishedUnlessCancelled(b) ==
    /\ wpc[b] = "loop"
    /\ windex[b] > Len(requests[b])
    /\ Post("allFinished", b, 0, IF cancelled[b] THEN "cancelled" ELSE "ok")
    /\ wpc' = [wpc EXCEPT ![b] = "emitted"]
    /\ UNCHANGED <<tasks, resultVars, guiVars, ptrVars, uiVars, timerVars,
                   requests, windex, wsteps, cancelled, quit>>

\* emit allFinished posts two events, one for each of its connections.
WorkerAllFinished(b) ==
    /\ wpc[b] = "loop"
    /\ cancelled[b] \/ windex[b] > Len(requests[b])
    /\ Post("allFinished", b, 0, IF cancelled[b] THEN "cancelled" ELSE "ok")
    /\ wpc' = [wpc EXCEPT ![b] = "emitted"]
    /\ UNCHANGED <<tasks, resultVars, guiVars, ptrVars, uiVars, timerVars,
                   requests, windex, wsteps, cancelled, quit>>

WorkerPostQuit(b) ==
    /\ wpc[b] = "emitted"
    /\ Post("quit", b, 0, "none")
    /\ wpc' = [wpc EXCEPT ![b] = "idle"]
    /\ UNCHANGED <<tasks, resultVars, guiVars, ptrVars, uiVars, timerVars,
                   requests, windex, wsteps, cancelled, quit>>

\* The thread's own event loop ends: finished is emitted, and deleteLater
\* destroys the worker, which clears a QPointer to it.
ThreadFinish(b) ==
    /\ wpc[b] = "idle"
    /\ quit[b]
    /\ Post("finished", b, 0, "none")
    /\ wpc' = [wpc EXCEPT ![b] = "finished"]
    /\ workerPtr' = IF workerPtr = b THEN None ELSE workerPtr
    /\ UNCHANGED <<tasks, resultVars, guiVars, workerThread, batch, uiVars,
                   timerVars, requests, windex, wsteps, cancelled, quit>>

Worker(b) ==
    \/ WorkerTakeTask(b)
    \/ WorkerProgress(b)
    \/ \E outcome \in Outcomes : WorkerFinishTask(b, outcome)
    \/ WorkerAllFinished(b)
    \/ WorkerPostQuit(b)
    \/ ThreadFinish(b)

----------------------------------------------------------------------------
(* The end of main(): the event loop has ended and ~MainWindow runs.       *)

\* Mutant: the destructor waits without calling quit().
DestroyWindowWithoutQuit ==
    /\ window = "closed"
    /\ window' = "destroying"
    /\ cancelled' = IF workerPtr = None
                    THEN cancelled ELSE [cancelled EXCEPT ![workerPtr] = TRUE]
    /\ UNCHANGED <<tasks, resultVars, guiVars, ptrVars, dialogs, timerVars,
                   workerVars, events, quit>>

DestroyWindow ==
    /\ window = "closed"
    /\ window' = "destroying"
    /\ cancelled' = IF workerPtr = None
                    THEN cancelled ELSE [cancelled EXCEPT ![workerPtr] = TRUE]
    /\ quit' = IF workerThread = None \/ wpc[workerThread] = "finished"
               THEN quit ELSE [quit EXCEPT ![workerThread] = TRUE]
    /\ UNCHANGED <<tasks, resultVars, guiVars, ptrVars, dialogs, timerVars,
                   workerVars, events>>

\* wait() has returned, or there was nothing to wait for.
ExitProgram ==
    /\ window = "destroying"
    /\ workerThread # None => wpc[workerThread] = "finished"
    /\ window' = "exited"
    /\ UNCHANGED <<tasks, resultVars, guiVars, ptrVars, dialogs, timerVars,
                   workerVars, events, cancelled, quit>>

\* The process is gone: nothing else can happen.
Terminated == window = "exited" /\ UNCHANGED vars

User ==
    \/ \E t \in Task : AddFile(t) \/ RemoveClicked(t)
    \/ ClearTasks
    \/ SetMode
    \/ \E answer \in BOOLEAN : AnswerMode(answer) \/ AnswerExisting(answer)
                                 \/ AnswerClose(answer)
    \/ \E outputsExist \in BOOLEAN : StartClicked(outputsExist)
    \/ CancelClicked
    \/ CloseRequested

Timers == HandlePostedClose \/ \E t \in Task : HandleRemove(t)

Next ==
    \/ User
    \/ HandleEvent
    \/ Timers
    \/ window # "exited" /\ \E b \in Batch : Worker(b)
    \/ DestroyWindow
    \/ ExitProgram
    \/ Terminated

\* The GUI thread runs its event loop and then returns from main; each
\* worker thread is scheduled.  Nothing is assumed of the user.
Fairness ==
    /\ WF_vars(HandleEvent)
    /\ WF_vars(Timers)
    /\ \A b \in Batch : WF_vars(window # "exited" /\ Worker(b))
    /\ WF_vars(DestroyWindow)
    /\ WF_vars(ExitProgram)

Spec == Init /\ [][Next]_vars /\ Fairness

----------------------------------------------------------------------------
(* Properties.                                                             *)

\* A queued signal of a worker finds the batch it belongs to still current:
\* the index it carries names, through activeTasks_, the live list entry the
\* request was made from (the slots of MainWindow.cpp:1068-1135 dereference
\* that raw pointer).
SignalsHitTheirTask ==
    \A k \in DOMAIN events : events[k].type \in TaskEvents =>
        LET i == events[k].index IN
        /\ processing
        /\ events[k].batch = batch
        /\ i \in DOMAIN requests[batch]
        /\ i \in DOMAIN activeTasks
        /\ activeTasks[i] = requests[batch][i]
        /\ activeTasks[i] \in ToSet(tasks)

\* While the result card, with its Show Output Folder button, is visible,
\* every raw pointer showOutputFolder (MainWindow.cpp:1276) may follow is
\* still an entry of the list.
ResultCardSafe ==
    resultCard # "hidden" => ToSet(activeTasks) \subseteq ToSet(tasks)

\* The state shown for request i of the batch.
Row(i) == taskState[activeTasks[i]]

RowsIn(states) == {i \in DOMAIN activeTasks : Row(i) \in states}

CountActive(states) == Cardinality(RowsIn(states))

\* The two counters of the result card agree with the rows of the list all
\* through a batch, and at most one row shows a running codec.
CountersMatchRows ==
    processing => /\ resultSuccess = CountActive({"Completed"})
                  /\ resultFailure = CountActive({"Failed", "Cancelled"})
                  /\ CountActive({"Processing"}) <= 1

\* The result card tells the truth when it appears: complete means that every
\* file of the batch was written, errors that every file was tried and one
\* failed; in any case no row is left unfinished.
CardMatchesRows ==
    LET all == Len(activeTasks) IN
    /\ resultCard # "hidden" => CountActive({"Ready", "Processing"}) = 0
    /\ resultCard = "complete" =>
         CountActive({"Completed"}) = all /\ resultSuccess = all
    /\ resultCard = "errors" =>
         CountActive({"Completed", "Failed"}) = all /\ resultFailure > 0

\* At most one worker is in run(), it is the one of the current batch, and
\* workerThread_ names its thread: the destructor waits for the right one.
OneWorkerRuns ==
    \A b \in Batch : Running(b) =>
        /\ processing
        /\ b = batch
        /\ workerThread = b

\* Once the main window has closed no codec is at work: the process does not
\* end in the middle of a file.
SafeExit == window # "open" => \A b \in Batch : ~Running(b)

\* The rows the list shows of a batch: while it runs, and as long as its
\* result card stays.
ShownRows ==
    IF processing \/ resultCard # "hidden"
    THEN [i \in DOMAIN activeTasks |-> Row(i)]
    ELSE <<>>

Report == INSTANCE BatchReport
            WITH running <- processing, rows <- ShownRows, card <- resultCard

\* Threads, queued signals and message boxes implement the plain batch of
\* BatchReport: one file at a time and in order, no start overtaken by its
\* answer, no finished row reopened, and a card that sums up its rows.
ReportsInOrder == Report!Spec

\* What the queue of the GUI thread may hold: signals of a task and
\* allFinished belong to the current batch, nothing of a batch follows its
\* allFinished, and the thread events follow what the thread has done.
EventOK(e) ==
    /\ e.type \in TaskEvents =>
         processing /\ e.batch = batch /\ e.index \in DOMAIN tasks
    /\ e.type = "allFinished" =>
         processing /\ e.batch = batch /\ ~Running(batch)
    /\ e.type = "quit" => wpc[e.batch] \in {"idle", "finished"}
    /\ e.type = "finished" => wpc[e.batch] = "finished"

QueueInv ==
    /\ \A k \in DOMAIN events : EventOK(events[k])
    /\ \A j, k \in DOMAIN events :
         j < k /\ events[j].type = "allFinished" =>
             events[k].type \notin TaskEvents \cup {"allFinished"}

\* What MainWindow knows of the worker while a batch is processing.
BatchInv ==
    /\ processing => /\ batch \in Batch
                     /\ activeTasks = tasks
                     /\ requests[batch] = tasks
    /\ \A b \in Batch :
         /\ b > batch => wpc[b] = "none"
         /\ windex[b] >= 1
         /\ Running(b) => processing /\ b = batch /\ workerThread = b
         /\ wpc[b] \in {"codec", "abort"} => windex[b] \in DOMAIN requests[b]

\* A message box of an idle window is alone and does not survive into a batch.
UiInv ==
    /\ window # "open" => ~processing /\ dialogs = <<>>
    /\ \A k \in DOMAIN dialogs :
         dialogs[k] # "close" => ~processing /\ Len(dialogs) = 1

\* The signals that change a row, and their number in the order in which
\* run() emits them: request i is number 2 * i when it starts.
RowSignals == {"taskStarted", "taskFinished"}

Number(e) == 2 * e.index + (IF e.type = "taskFinished" THEN 1 ELSE 0)

\* The queued ones, by their place in the queue.
Queued == {k \in DOMAIN events : events[k].type \in RowSignals}

QueuedNumbers == {Number(events[k]) : k \in Queued}

\* The number of the next one the worker of the batch will emit.
NextNumber ==
    2 * windex[batch] + (IF wpc[batch] \in {"codec", "abort"} THEN 1 ELSE 0)

Ends == {"Completed", "Failed", "Cancelled"}

\* What the row of request i may show when n is the first signal that has
\* not been delivered.
RowStates(i, n) ==
    IF n <= 2 * i THEN {"Ready"}
    ELSE IF n = 2 * i + 1 THEN {"Processing"}
    ELSE Ends

\* The queue holds the signals from number n on, none missing, and the rows
\* show all that came before.
DeliveredBelow(n) ==
    /\ QueuedNumbers = n .. NextNumber - 1
    /\ \A i \in DOMAIN activeTasks : Row(i) \in RowStates(i, n)

\* No file of the batch was given up for a cancellation, so far as its rows
\* and its queued signals tell.
NothingCancelled ==
    /\ \A i \in DOMAIN activeTasks : Row(i) # "Cancelled"
    /\ \A k \in Queued : events[k].outcome # "cancelled"

Distinct(s) == \A i, j \in DOMAIN s : s[i] = s[j] => i = j

InOrder ==
    \A j, k \in Queued : j < k => Number(events[j]) < Number(events[k])

\* While a batch runs.
RowsFollow ==
    /\ resultCard = "hidden"
    /\ \E n \in 2 .. NextNumber : DeliveredBelow(n)
    /\ cancelled[batch] \/ NothingCancelled
    /\ wpc[batch] = "abort" => cancelled[batch]

\* An allFinished that does not speak of a cancellation.
PlainEnd ==
    \A k \in DOMAIN events :
        events[k].type = "allFinished" /\ events[k].outcome # "cancelled" =>
            windex[batch] > Len(requests[batch]) /\ NothingCancelled

\* The rows, their counters and the result card tell what the worker did.
RowInv ==
    /\ Distinct(tasks)
    /\ \A b \in Batch : b > batch => windex[b] = 1
    /\ InOrder
    /\ processing => RowsFollow
    /\ PlainEnd
    /\ CountersMatchRows
    /\ resultCard # "hidden" => activeTasks = tasks
    /\ CardMatchesRows

\* The inductive invariant behind the safety properties above (the slots of
\* MainWindow.cpp:1068-1164 rely on it).
IInv == TypeOK /\ QueueInv /\ BatchInv /\ UiInv /\ RowInv

\* A batch comes to an end whatever its codec calls return and whatever
\* message box is open.
BatchEnds == processing ~> ~processing

\* The thread of a batch ends (or the process does), even if the window is
\* closed before allFinished has made it quit.
ThreadsEnd ==
    \A b \in Batch :
        wpc[b] = "loop" ~> (wpc[b] = "finished" \/ window = "exited")

\* A yes to the question of closeEvent, given while the batch runs, is acted
\* upon: close() is called again after the batch.
CloseIsServed ==
    (closeWhenFinished /\ processing) ~> (closePosts > 0 \/ window # "open")

\* The program ends after its window has closed; the destructor's wait()
\* returns.
ProgramExits == window = "closed" ~> window = "exited"

\* The message box of closeEvent (MainWindow.cpp:1298) promises: "The current
\* block will finish safely before the application closes."  A pending close
\* therefore needs a thread whose end will trigger it.
PendingCloseHasTrigger ==
    closeWhenFinished =>
        \/ \E b \in Batch : wpc[b] \notin {"none", "finished"}
        \/ \E k \in DOMAIN events : events[k].type = "finished"

\* README.md:57 promises "Batch task processing with per-file progress and
\* cancellation": while a batch runs, requestCancel finds its worker.
CancelReachesWorker ==
    \A b \in Batch : processing /\ Running(b) => workerPtr = b

====
