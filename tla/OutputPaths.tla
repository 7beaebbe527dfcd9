---------------------------- MODULE OutputPaths ----------------------------
(***************************************************************************)
(* Where the outputs of a batch go (gui/MainWindow.cpp): the names that    *)
(* updateOutputPaths proposes, the ones resolveExistingOutputs settles on, *)
(* and what the batch then does to the files.                              *)
(*                                                                         *)
(* A path is a directory and a name, a name the parts between its dots,    *)
(* and a part a word with the numbers " (n)" behind it.  Paths that differ *)
(* in case are one path, as the code compares them.                        *)
(***************************************************************************)
EXTENDS Integers, Sequences, FiniteSets, SequencesExt, FiniteSetsExt, Functions

CONSTANTS
    Directories,    \* the folders that can be chosen for the outputs
    Files,          \* the kind of every file that may exist at first
    Endings,        \* valid suffixes, each a sequence of parts
    Words,          \* the words that names are made of
    SourceFolder,   \* the location "each source folder"
    MaxRows,        \* bound: rows of the list
    MaxPending,     \* bound: clicks on remove buttons not handled yet
    MaxBatches      \* bound: batches

ASSUME PathAssumption ==
    /\ SourceFolder \notin Directories
    /\ MaxRows \in Nat /\ MaxPending \in Nat /\ MaxBatches \in Nat

Kinds   == {"plain", "mgz", "gzip"}
Parts   == [word : Words, numbers : Seq(Nat)]
Names   == Seq(Parts) \ {<<>>}
Folders == Directories \cup {path.dir : path \in DOMAIN Files}
Paths   == [dir : Folders, name : Names]

\* There are finitely many files, and each has a name.
ASSUME FilesAssumption ==
    /\ Files \in [DOMAIN Files -> Kinds]
    /\ DOMAIN Files \subseteq Paths
    /\ IsFiniteSet(DOMAIN Files)
    /\ Endings \subseteq Seq(Parts)
    /\ "restored" \in Words

VARIABLES
    disk,           \* the kind of every file
    compressMode,   \* compressMode_
    location,       \* locationCombo_ and selectedOutputDirectory_
    suffix,         \* suffixEdit_
    tasks,          \* tasks_: input, format and output of every row
    pending,        \* rows whose removal is queued, by their inputs
    pc,             \* "idle", "asking" or "running"
    inputPaths,     \* inputPaths of the open question
    requests,       \* requests of the batch
    done,           \* requests that are through
    batches,        \* batches so far
    answer,         \* history: what the question was answered with
    replanned,      \* history: a removal replanned during the question
    lost            \* history: files the batch wrote over or removed

listVars  == <<compressMode, location, suffix, tasks, pending>>
batchVars == <<requests, done, batches>>
history   == <<answer, replanned, lost>>
vars      == <<disk, listVars, pc, inputPaths, batchVars, history>>

----------------------------------------------------------------------------
\* Names

Part(word) == [word |-> word, numbers |-> <<>>]

\* The last dot is there, and not in the first place.
HasExtension(name) == Len(name) > 1 /\ name # <<Part(""), Last(name)>>

\* Extraction takes the extension away, or adds one.
Extracted(name, format) ==
    IF HasExtension(name) /\ (format = "gzip" => Last(name) = Part("gz"))
    THEN Front(name)
    ELSE Append(name, Part("restored"))

proposedOutputPath(task, where, ending) ==
    LET input == task.input
        path  == [dir  |-> IF where = SourceFolder THEN input.dir ELSE where,
                  name |-> IF compressMode
                           THEN input.name \o ending
                           ELSE Extracted(input.name, task.format)]
    IN IF path = input
       THEN [path EXCEPT !.name = Append(@, Part("restored"))]
       ELSE path

\* The number goes behind the stem.
makeNumberedPath(path, number) ==
    LET stem == IF HasExtension(path.name) THEN Len(path.name) - 1
                                           ELSE Len(path.name)
    IN [path EXCEPT !.name[stem].numbers = Append(@, number)]

\* The path, or the first numbered one that is not taken; one of the first
\* numbers is free, since no two of them give the same path.
FirstFree(path, taken) ==
    IF path \notin taken THEN path
    ELSE makeNumberedPath(path,
             Min({n \in 1 .. Cardinality(taken) + 1 :
                     makeNumberedPath(path, n) \notin taken}))

\* Mutant: an output that was settled is not remembered.
SettleForgetful(paths, taken) ==
    [i \in DOMAIN paths |-> FirstFree(paths[i], taken)]

\* One output after the other, each away from those before it.
Settle(paths, taken) ==
    LET settled[i \in 1 .. Len(paths)] ==
            FirstFree(paths[i], taken \cup {settled[j] : j \in 1 .. i - 1})
    IN settled

Inputs(rows)  == {rows[i].input : i \in DOMAIN rows}
Outputs(rows) == [i \in DOMAIN rows |-> rows[i].output]

WithOutputs(rows, outputs) ==
    [i \in DOMAIN rows |-> [rows[i] EXCEPT !.output = outputs[i]]]

updateOutputPaths(rows, where, ending) ==
    WithOutputs(rows,
        Settle([i \in DOMAIN rows |->
                   proposedOutputPath(rows[i], where, ending)], {}))

----------------------------------------------------------------------------
\* The list.  None of this happens during a batch or behind the question,
\* except that a queued removal is handled whenever an event loop runs.

Init ==
    /\ \E there \in SUBSET DOMAIN Files : disk = Restrict(Files, there)
    /\ compressMode \in BOOLEAN
    /\ location = SourceFolder
    /\ suffix \in Endings
    /\ tasks = <<>> /\ pending = {}
    /\ pc = "idle" /\ inputPaths = {}
    /\ requests = <<>> /\ done = 0 /\ batches = 0
    /\ answer = "none" /\ replanned = FALSE /\ lost = {}

\* No call is under way; after the last batch nothing is looked at any more.
Idle == pc = "idle" /\ batches < MaxBatches

\* addFiles, one path of its list; each call plans anew from scratch.
AddFile(path) ==
    /\ Idle
    /\ Len(tasks) < MaxRows
    /\ path \notin Inputs(tasks)
    /\ compressMode \/ disk[path] \in {"mgz", "gzip"}
    /\ LET task == [input  |-> path,
                    format |-> IF compressMode THEN "mgz" ELSE disk[path],
                    output |-> path]
       IN tasks' = updateOutputPaths(Append(tasks, task), location, suffix)
    /\ UNCHANGED <<disk, compressMode, location, suffix, pending, pc,
                   inputPaths, batchVars, history>>

RemoveClicked(path) ==
    /\ Idle
    /\ path \in Inputs(tasks)
    /\ Cardinality(pending) < MaxPending
    /\ pending' = pending \cup {path}
    /\ UNCHANGED <<disk, compressMode, location, suffix, tasks, pc, inputPaths,
                   batchVars, history>>

\* removeTask; during a batch it does nothing.
HandleRemove(path) ==
    /\ path \in pending
    /\ pending' = pending \ {path}
    /\ IF pc = "running" \/ path \notin Inputs(tasks)
       THEN UNCHANGED <<tasks, replanned>>
       ELSE /\ \E i \in DOMAIN tasks :
                 /\ tasks[i].input = path
                 /\ tasks' = updateOutputPaths(RemoveAt(tasks, i), location,
                                              suffix)
            /\ replanned' = (pc = "asking" \/ replanned)
    /\ UNCHANGED <<disk, compressMode, location, suffix, pc, inputPaths,
                   batchVars, answer, lost>>

\* clearTasks, also for setMode, which asks first when there are rows.
ClearTasks ==
    /\ Idle
    /\ tasks' = <<>>
    /\ pending' = {}
    /\ compressMode' \in BOOLEAN
    /\ UNCHANGED <<disk, location, suffix, pc, inputPaths, batchVars, history>>

\* The location, the chosen directory or the suffix changes.
SetOutput(where, ending) ==
    /\ Idle
    /\ compressMode \/ ending = suffix
    /\ location' = where
    /\ suffix' = ending
    /\ tasks' = updateOutputPaths(tasks, where, ending)
    /\ UNCHANGED <<disk, compressMode, pending, pc, inputPaths, batchVars,
                   history>>

----------------------------------------------------------------------------
\* startProcessing, resolveExistingOutputs

Begin(rows, how) ==
    /\ requests' = [i \in DOMAIN rows |->
                       [input     |-> rows[i].input,
                        output    |-> rows[i].output,
                        operation |-> IF compressMode THEN "compress"
                                      ELSE rows[i].format]]
    /\ tasks' = rows
    /\ done' = 0
    /\ batches' = batches + 1
    /\ answer' = how
    /\ lost' = {}
    /\ inputPaths' = {}
    /\ pc' = "running"

\* Outputs are kept apart from each other and from all inputs; when one of
\* them exists, the question is asked.
StartProcessing ==
    /\ Idle
    /\ tasks # <<>>
    /\ LET planned == updateOutputPaths(tasks, location, suffix)
           rows    == WithOutputs(planned,
                          Settle(Outputs(planned), Inputs(planned)))
       IN IF ToSet(Outputs(rows)) \cap DOMAIN disk = {}
          THEN Begin(rows, "none")
          ELSE /\ tasks' = rows
               /\ inputPaths' = Inputs(rows)
               /\ pc' = "asking"
               /\ UNCHANGED <<batchVars, answer, lost>>
    /\ replanned' = FALSE
    /\ UNCHANGED <<disk, compressMode, location, suffix, pending>>

AnswerReplace ==
    /\ pc = "asking"
    /\ Begin(tasks, "replace")
    /\ UNCHANGED <<disk, compressMode, location, suffix, pending, replanned>>

\* Mutant: new names are only kept apart from each other.
AnswerRenameOverExisting ==
    /\ pc = "asking"
    /\ Begin(WithOutputs(tasks, Settle(Outputs(tasks), {})), "rename")
    /\ UNCHANGED <<disk, compressMode, location, suffix, pending, replanned>>

\* The inputs are those of the list before the question.
AnswerRename ==
    /\ pc = "asking"
    /\ Begin(WithOutputs(tasks,
                 Settle(Outputs(tasks), DOMAIN disk \cup inputPaths)),
             "rename")
    /\ UNCHANGED <<disk, compressMode, location, suffix, pending, replanned>>

AnswerCancel ==
    /\ pc = "asking"
    /\ pc' = "idle"
    /\ inputPaths' = {}
    /\ replanned' = FALSE
    /\ UNCHANGED <<disk, listVars, batchVars, answer, lost>>

----------------------------------------------------------------------------
\* The batch, as the functions of format.c and gzip_decode.c treat files

Request == requests[done + 1]

\* The input is there and, to be extracted, of the kind it was added as.
Readable(request) ==
    /\ request.input \in DOMAIN disk
    /\ request.operation \in {"compress", disk[request.input]}

Without(path) == Restrict(disk, DOMAIN disk \ {path})

With(path, kind) ==
    [p \in DOMAIN disk \cup {path} |-> IF p = path THEN kind ELSE disk[p]]

\* The call succeeds, or fails once it has opened, and so emptied, its
\* output, which it then removes.
Process ==
    /\ pc = "running" /\ done < Len(requests)
    /\ Readable(Request)
    /\ \/ \E kind \in IF compressMode THEN {"mgz"} ELSE {"plain", "mgz"} :
            disk' = With(Request.output, kind)
       \/ disk' = Without(Request.output)
    /\ lost' = lost \cup ({Request.output} \cap DOMAIN disk)
    /\ done' = done + 1
    /\ UNCHANGED <<listVars, pc, inputPaths, requests, batches, answer,
                   replanned>>

\* The call fails before it opens its output.
Refuse ==
    /\ pc = "running" /\ done < Len(requests)
    /\ done' = done + 1
    /\ UNCHANGED <<disk, listVars, pc, inputPaths, requests, batches, history>>

\* After the last request, or after a cancellation.
EndBatch ==
    /\ pc = "running"
    /\ pc' = "idle"
    /\ requests' = <<>> /\ done' = 0
    /\ answer' = "none" /\ replanned' = FALSE /\ lost' = {}
    /\ UNCHANGED <<disk, listVars, inputPaths, batches>>

Stopped == pc = "idle" /\ batches = MaxBatches /\ UNCHANGED vars

Next ==
    \/ \E path \in DOMAIN disk : AddFile(path)
    \/ \E path \in Inputs(tasks) : RemoveClicked(path)
    \/ \E path \in pending : HandleRemove(path)
    \/ ClearTasks
    \/ \E where \in Directories \cup {SourceFolder}, ending \in Endings :
            SetOutput(where, ending)
    \/ StartProcessing
    \/ AnswerReplace \/ AnswerRename \/ AnswerCancel
    \/ Process \/ Refuse \/ EndBatch
    \/ Stopped

Spec == Init /\ [][Next]_vars

----------------------------------------------------------------------------

\* Two outputs of a batch never meet, nor does an output meet an input of the
\* batch, its own or that of another row, whatever was added, removed,
\* extracted or renumbered before; the one exception is a removal that came
\* while the question was open (MainWindow.cpp:853-874, 929-951, 976-993).
OutputsApart ==
    pc = "running" =>
        /\ \A i, j \in DOMAIN requests :
              i # j => /\ requests[i].output # requests[j].output
                       /\ requests[i].input # requests[j].input
        /\ \A i, j \in DOMAIN requests :
              i = j \/ ~replanned => requests[i].output # requests[j].input

\* A batch writes over no file and removes none unless the user chose to
\* replace existing outputs: without a question there was nothing in the way,
\* and the new names keep away from every file (MainWindow.cpp:953-995).
ReplacesOnlyIfAsked == lost # {} => answer = "replace"

\* README.md:61, "Output conflict handling": a batch does not destroy the
\* files it was given.
InputsSurvive ==
    \A i \in DOMAIN requests : requests[i].input \notin lost

====
