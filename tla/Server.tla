------------------------------- MODULE Server -------------------------------
(***************************************************************************)
(* The web server (usbsas-server): HTTP handlers that call usbsas through  *)
(* one pair of pipes under the mutex `comm', a thread per transfer, and    *)
(* the stream that carries the progress of a transfer to the browser.      *)
(* usbsas is seen as in Dialogue.  There is one browser, which waits for   *)
(* the response to a request before it makes the next one and follows one  *)
(* stream at a time.                                                       *)
(***************************************************************************)
EXTENDS Dialogue, Naturals

CONSTANTS
    Pages,      \* the HTTP requests that the browser may make
    Targets,    \* destinations that the browser may choose
    Analyzer,   \* the configuration has an analyzer
    PostCopy,   \* ... and a command to run after a transfer
    BadInput,   \* the browser may name a path, format or device that is refused
    MayDie,     \* usbsas may die at any point
    DeviceFails,\* writing to the destination device may fail
    HostFails,  \* so may the server's own files, and starting usbsas
    MaxInPipe,  \* responses that fit in the pipe
    MaxSessions \* sessions until the browser stops resetting

ASSUME TargetsAreDests == Targets \subseteq Destinations
ASSUME SwitchesAreBoolean ==
    {Analyzer, PostCopy, BadInput, MayDie, DeviceFails, HostFails} \subseteq BOOLEAN
ASSUME PipeHoldsTwo == MaxInPipe \in Nat \ {0, 1}

VARIABLES
    toUsbsas, fromUsbsas,   \* the pipes of comm
    comm,       \* who holds the mutex: "none", "handler" or "job"
    outDev,     \* out_dev, "none" at start
    page,       \* the HTTP request being handled, "none"
    calls,      \* the calls to usbsas that its handler has not made
    choice,     \* the destination that a device_select asked for
    selected,   \* destination of the device_select of this session
    job,        \* the transfer whose thread runs, "none"
    loop,       \* the loop that thread is in
    ops,        \* what it still has to put on the stream
    messages, done, waker,  \* the three shared fields of ResponseStream
    task,       \* the task that polls the stream
    got,        \* the browser has received the last message
    sessions    \* usbsas processes started so far

usbsas == <<state, doing, dest>>
pipes == <<toUsbsas, fromUsbsas>>
httpVars == <<page, calls, choice>>
jobVars == <<job, loop, ops>>
streamVars == <<messages, done, waker, task, got>>
vars == <<usbsas, pipes, comm, outDev, httpVars, selected, jobVars,
          streamVars, sessions>>

---------------------------------------------------------------------------
(* usbsas at the other end of the pipes.                                   *)

(* --analyze is given exactly when the configuration has an analyzer.      *)
Possible(w) ==
    /\ w.from = <<"CopyFiles", "Tar">> /\ w.to[1] = "WriteFiles"
          => w.to[2] = IF Analyzer THEN "Analyze" ELSE "Fs"
    /\ w.says = <<"Error", "CopyDone">> => DeviceFails

UsbsasTakes ==
    /\ toUsbsas # <<>>
    /\ doing = "none"
    /\ toUsbsas' = Tail(toUsbsas)
    /\ LET q == Head(toUsbsas) IN
       \/ /\ \E a \in Accepts : a[2] = q.type /\ Take(a, q.dest)
          /\ UNCHANGED fromUsbsas
       \/ /\ \A a \in Accepts : a[1] = state => a[2] # q.type
          /\ Refuse
          /\ fromUsbsas' = Append(fromUsbsas, "Error")
    /\ UNCHANGED <<comm, outDev, httpVars, selected, jobVars, streamVars,
                   sessions>>

UsbsasWorks ==
    /\ doing \notin {"none", "exit"}
    /\ \E w \in Steps[dest] :
          /\ Possible(w)
          /\ Len(fromUsbsas) + Len(w.says) <= MaxInPipe
          /\ Work(w)
          /\ fromUsbsas' = fromUsbsas \o w.says
    /\ UNCHANGED <<toUsbsas, comm, outDev, httpVars, selected, jobVars,
                   streamVars, sessions>>

(* usbsas dies.                                                            *)
UsbsasDies ==
    /\ MayDie
    /\ doing # "exit"
    /\ doing' = "exit"
    /\ UNCHANGED <<state, dest, pipes, comm, outDev, httpVars, selected, jobVars,
                   streamVars, sessions>>

Gone == doing = "exit"
Asks(q, d) == toUsbsas' = Append(toUsbsas, [type |-> q, dest |-> d])

---------------------------------------------------------------------------
(* The HTTP handlers.  Each is a sequence of calls, the mutex taken for    *)
(* each of them.                                                           *)
Plan == [devices |-> <<"Devices">>, id |-> <<"Id">>,
         select |-> <<"Devices", "OpenDevice">>,
         partitions |-> <<"Partitions">>, open |-> <<"OpenPartition">>,
         read_dir |-> <<"ReadDir">>, copy |-> <<>>,
         wipe |-> <<"Devices">>, imagedisk |-> <<"Devices">>,
         reset |-> <<"End">>]
ASSUME PagesArePlanned == Pages \subseteq DOMAIN Plan

Jobs == {"copy", "wipe", "imagedisk"}

(* The browser makes a request.  It does not start a transfer while it     *)
(* follows the stream of another one.                                      *)
Browse(p) ==
    /\ page = "none"
    /\ p \in Jobs => job = "none" /\ task \in {"none", "ended"}
    /\ p = "reset" => sessions < MaxSessions
    /\ page' = p
    /\ calls' = Plan[p]
    /\ choice' \in IF p = "select" THEN Targets ELSE {"none"}
    /\ UNCHANGED <<usbsas, pipes, comm, outDev, selected, jobVars,
                   streamVars, sessions>>

(* The handler returns its response, an error or not.                      *)
Answer == /\ page' = "none"
          /\ calls' = <<>>
          /\ choice' = "none"

(* The mutex is taken and the request written, or usbsas is gone.          *)
HandlerCalls ==
    /\ calls # <<>>
    /\ comm = "none"
    /\ \/ /\ ~Gone
          /\ comm' = "handler"
          /\ Asks(Head(calls), "Usb")
          /\ UNCHANGED httpVars
       \/ Gone /\ Answer /\ UNCHANGED <<comm, toUsbsas>>
    /\ UNCHANGED <<usbsas, fromUsbsas, outDev, selected, jobVars,
                   streamVars, sessions>>

(* The handler returns an error between its calls: device_select is given  *)
(* one device twice, or devices that are no longer there, wipe and         *)
(* imagedisk such a device, read_dir a path that was not authenticated.    *)
Refusals == [select |-> {Plan["select"], Tail(Plan["select"])},
             read_dir |-> {Plan["read_dir"]},
             wipe |-> {<<>>}, imagedisk |-> {<<>>}]

HandlerRefuses ==
    /\ page \in DOMAIN Refusals /\ calls \in Refusals[page]
    /\ comm # "handler"
    /\ BadInput
    /\ Answer
    /\ UNCHANGED <<usbsas, pipes, comm, outDev, selected, jobVars, streamVars,
                   sessions>>

(* The answer is read.  reset keeps the mutex, the others release it.      *)
HandlerReads ==
    /\ comm = "handler" /\ calls # <<>>
    /\ \/ /\ fromUsbsas # <<>>
          /\ fromUsbsas' = Tail(fromUsbsas)
          /\ IF Head(fromUsbsas) = Head(calls)
               THEN /\ calls' = Tail(calls)
                    /\ comm' = IF page = "reset" THEN comm ELSE "none"
                    /\ UNCHANGED <<page, choice>>
               ELSE Answer /\ comm' = "none"
       \/ /\ fromUsbsas = <<>> /\ Gone
          /\ Answer
          /\ comm' = "none"
          /\ UNCHANGED fromUsbsas
    /\ UNCHANGED <<usbsas, toUsbsas, outDev, selected, jobVars,
                   streamVars, sessions>>

(* The calls are over: device_select records the destination, a transfer   *)
(* gets its stream and its thread.                                         *)
HandlerEnds ==
    /\ page # "none" /\ page # "reset" /\ calls = <<>>
    /\ Answer
    /\ \/ /\ page = "select"
          /\ outDev' = choice
          /\ selected' = choice
          /\ UNCHANGED <<jobVars, streamVars>>
       \/ /\ page \in Jobs
          /\ job' = page
          /\ loop' = "start"
          /\ ops' = <<>>
          /\ messages' = {} /\ done' = FALSE /\ waker' = FALSE
          /\ task' = "poll" /\ got' = FALSE
          /\ UNCHANGED <<outDev, selected>>
       \/ /\ page \notin Jobs \cup {"select"}
          /\ UNCHANGED <<outDev, selected, jobVars, streamVars>>
    /\ UNCHANGED <<usbsas, pipes, comm, sessions>>

(* reset: the old process is waited for, the temporary files are replaced, *)
(* a new process is started with new pipes.  out_dev is left as it was.    *)
ResetRestarts ==
    /\ page = "reset" /\ comm = "handler" /\ calls = <<>>
    /\ Gone
    /\ state' = "Init" /\ doing' = "none" /\ dest' = "Usb"
    /\ toUsbsas' = <<>> /\ fromUsbsas' = <<>>
    /\ sessions' = sessions + 1
    /\ selected' = "none"
    /\ comm' = "none"
    /\ Answer
    /\ UNCHANGED <<outDev, jobVars, streamVars>>

(* The temporary files cannot be replaced, or no process started: the      *)
(* mutex is released, with the pipes of the process that is gone.          *)
ResetFails ==
    /\ page = "reset" /\ comm = "handler" /\ calls = <<>>
    /\ Gone
    /\ HostFails
    /\ comm' = "none"
    /\ Answer
    /\ UNCHANGED <<usbsas, pipes, outDev, selected, jobVars, streamVars,
                   sessions>>

HandlerNext == \/ HandlerCalls \/ HandlerRefuses \/ HandlerReads \/ HandlerEnds
               \/ ResetRestarts \/ ResetFails

---------------------------------------------------------------------------
(* The thread of a transfer.                                               *)

(* Mutant: an error leaves the mutex locked.                               *)
JobEnds_KeepsComm ==
    job' = "none" /\ loop' = "none" /\ UNCHANGED <<comm, ops>>

(* It returns; the stream is left as it is.                                *)
JobEnds == /\ job' = "none"
           /\ loop' = "none"
           /\ comm' = IF comm = "job" THEN "none" ELSE comm
           /\ UNCHANGED ops

(* It puts the messages of o on the stream and goes on in loop l.          *)
Reports(o, l) == /\ ops' = o
                 /\ loop' = l
                 /\ UNCHANGED <<job, comm>>

(* A last message, done(), and the thread returns.                         *)
Finishes == Reports(<<"final", "done">>, "return")

(* copy() refuses a selection that was not authenticated, wipe() a file    *)
(* system type that does not exist.                                        *)
JobRefused ==
    /\ loop = "start" /\ BadInput
    /\ \/ job = "copy" /\ JobEnds
       \/ job = "wipe" /\ Reports(<<"progress">>, "return")
    /\ UNCHANGED <<usbsas, pipes, outDev, httpVars, selected, streamVars,
                   sessions>>

(* Mutant: without a destination the transfer goes to a device.            *)
JobStarts_Default ==
    /\ loop = "start" /\ job = "copy" /\ comm = "none" /\ ~Gone
    /\ Asks("CopyStart", "Usb")
    /\ comm' = "job"
    /\ ops' = <<"progress">> /\ loop' = "Tar"
    /\ UNCHANGED job
    /\ UNCHANGED <<usbsas, fromUsbsas, outDev, httpVars, selected,
                   streamVars, sessions>>

(* wipe() and imagedisk() report that they start, then wait for the mutex. *)
JobAnnounces ==
    /\ loop = "start" /\ job \in {"wipe", "imagedisk"}
    /\ Reports(<<"progress">>, "lock")
    /\ UNCHANGED <<usbsas, pipes, outDev, httpVars, selected, streamVars,
                   sessions>>

(* The mutex is taken until the thread returns; the request is written.    *)
(* copy() needs a destination and, for a device, a known file system type. *)
JobStarts ==
    /\ comm = "none"
    /\ \/ /\ job = "copy" /\ loop = "start"
          /\ \/ /\ outDev # "none" /\ ~Gone
                /\ Asks("CopyStart", outDev)
                /\ loop' = "Tar"
             \/ /\ Gone \/ outDev = "none" \/ (outDev = "Usb" /\ BadInput)
                /\ loop' = "return"
                /\ UNCHANGED toUsbsas
          /\ ops' = <<"progress">>
       \/ /\ job \in {"wipe", "imagedisk"} /\ loop = "lock" /\ ops = <<>>
          /\ \/ /\ ~Gone
                /\ Asks(IF job = "wipe" THEN "Wipe" ELSE "ImgDisk", "Usb")
                /\ loop' = job
             \/ /\ Gone
                /\ loop' = "return"
                /\ UNCHANGED toUsbsas
          /\ UNCHANGED ops
    /\ comm' = "job"
    /\ UNCHANGED <<usbsas, fromUsbsas, outDev, httpVars, selected, job,
                   streamVars, sessions>>

(* The loops of copy(), wipe() and imagedisk(): the responses after which  *)
(* they go round again, go on to the next loop, or finish.                 *)
Again == [Tar |-> {"CopyStart", "CopyStatus"}, Analyze |-> {"AnalyzeStatus"},
          Fs |-> {"CopyStatus"},
          Final |-> {"FinalCopyStatus", "FinalCopyStatusDone"}, Post |-> {},
          wipe |-> {"FinalCopyStatus", "FinalCopyStatusDone"},
          imagedisk |-> {"Opened", "FinalCopyStatus"}]
Onward == [Tar |-> {"CopyStatusDone"}, Analyze |-> {"AnalyzeDone"},
           Fs |-> {"CopyStatusDone"}, Final |-> {"CopyDone"}, Post |-> {},
           wipe |-> {}, imagedisk |-> {}]
Finish == [Tar |-> {"NotEnoughSpace", "NothingToCopy", "Error"},
           Analyze |-> {"Error"}, Fs |-> {"NothingToCopy", "Error"},
           Final |-> {"Error"}, Post |-> {"PostCopyCmd"},
           wipe |-> {"Wipe", "Error"}, imagedisk |-> {"ImgDisk", "Error"}]

(* Mutant: the analysis is waited for whatever the destination.            *)
NextLoop_AlwaysAnalyze ==
    CASE loop = "Tar" -> IF Analyzer THEN "Analyze"
                         ELSE IF outDev = "Usb" THEN "Fs" ELSE "Final"
      [] loop = "Analyze" -> "Fs"
      [] loop = "Fs" -> "Final"
      [] loop = "Final" -> "Post"

(* out_dev is locked together with comm: it does not change meanwhile.     *)
NextLoop ==
    CASE loop = "Tar" -> IF outDev # "Usb" THEN "Final"
                         ELSE IF Analyzer THEN "Analyze" ELSE "Fs"
      [] loop = "Analyze" -> "Fs"
      [] loop = "Fs" -> "Final"
      [] loop = "Final" -> "Post"

(* imagedisk() renames the image before it reports the end.                *)
JobReads ==
    /\ comm = "job" /\ loop \in DOMAIN Again /\ ops = <<>>
    /\ fromUsbsas # <<>>
    /\ fromUsbsas' = Tail(fromUsbsas)
    /\ LET m == Head(fromUsbsas) IN
       \/ /\ m \in Again[loop]
          /\ Reports(<<"progress">>, loop)
          /\ UNCHANGED toUsbsas
       \/ /\ m \in Onward[loop]
          /\ NextLoop # "Post"
          /\ Reports(<<"progress">>, NextLoop)
          /\ UNCHANGED toUsbsas
       \/ /\ m \in Onward[loop]
          /\ NextLoop = "Post"
          /\ IF PostCopy THEN Reports(<<"progress">>, "Post")
                              /\ Asks("PostCopyCmd", "Usb")
                         ELSE Finishes /\ UNCHANGED toUsbsas
       \/ /\ m \in Finish[loop]
          /\ Finishes
          /\ UNCHANGED toUsbsas
       \/ /\ m = "ImgDisk" /\ loop = "imagedisk"
          /\ HostFails
          /\ JobEnds
          /\ UNCHANGED toUsbsas
       \/ /\ m \notin Again[loop] \cup Onward[loop] \cup Finish[loop]
          /\ IF loop = "Post" THEN JobEnds ELSE Finishes
          /\ UNCHANGED toUsbsas
    /\ UNCHANGED <<usbsas, outDev, httpVars, selected, streamVars,
                   sessions>>

(* recv() fails, and so does the thread.                                   *)
JobEof ==
    /\ comm = "job" /\ loop \in DOMAIN Again /\ ops = <<>>
    /\ fromUsbsas = <<>> /\ Gone
    /\ JobEnds
    /\ UNCHANGED <<usbsas, pipes, outDev, httpVars, selected, streamVars,
                   sessions>>

(* add_message() and done() are two steps: the field is changed, then the  *)
(* waker is taken and used.                                                *)
Puts ==
    /\ ops # <<>>
    /\ Head(ops) # "wake"
    /\ IF Head(ops) = "done"
         THEN done' = TRUE /\ UNCHANGED messages
         ELSE messages' = messages \cup {Head(ops)} /\ UNCHANGED done
    /\ ops' = <<"wake">> \o Tail(ops)
    /\ UNCHANGED <<usbsas, pipes, comm, outDev, httpVars, selected, job,
                   loop, waker, task, got, sessions>>

Wakes ==
    /\ ops # <<>>
    /\ Head(ops) = "wake"
    /\ waker' = FALSE
    /\ task' = IF waker THEN "poll" ELSE task
    /\ ops' = Tail(ops)
    /\ UNCHANGED <<usbsas, pipes, comm, outDev, httpVars, selected, job,
                   loop, messages, done, got, sessions>>

JobReturns ==
    /\ loop = "return" /\ ops = <<>>
    /\ JobEnds
    /\ UNCHANGED <<usbsas, pipes, outDev, httpVars, selected, streamVars,
                   sessions>>

JobNext == \/ JobRefused \/ JobAnnounces \/ JobStarts \/ JobReads \/ JobEof
           \/ Puts \/ Wakes \/ JobReturns

---------------------------------------------------------------------------
(* poll_next(): the messages are tested, then done is loaded, then the     *)
(* waker is stored, with no lock held in between.                          *)
Poll ==
    /\ \/ /\ task = "poll"
          /\ IF messages = {}
               THEN task' = "empty" /\ UNCHANGED <<messages, got>>
               ELSE /\ got' = (got \/ "final" \in messages)
                    /\ messages' = {}
                    /\ UNCHANGED task
          /\ UNCHANGED waker
       \/ /\ task = "empty"
          /\ task' = IF done THEN "ended" ELSE "notdone"
          /\ UNCHANGED <<messages, got, waker>>
       \/ /\ task = "notdone"
          /\ waker' = TRUE
          /\ task' = "pending"
          /\ UNCHANGED <<messages, got>>
    /\ UNCHANGED <<usbsas, pipes, comm, outDev, httpVars, selected, jobVars,
                   done, sessions>>

---------------------------------------------------------------------------
Init ==
    /\ Started
    /\ toUsbsas = <<>> /\ fromUsbsas = <<>>
    /\ comm = "none" /\ outDev = "none" /\ selected = "none"
    /\ page = "none" /\ calls = <<>> /\ choice = "none"
    /\ job = "none" /\ loop = "none" /\ ops = <<>>
    /\ messages = {} /\ done = FALSE /\ waker = FALSE
    /\ task = "none" /\ got = FALSE
    /\ sessions = 1

Next ==
    \/ \E p \in Pages : Browse(p)
    \/ HandlerNext
    \/ JobNext
    \/ Poll
    \/ UsbsasTakes
    \/ UsbsasWorks
    \/ UsbsasDies

(* Threads and processes are scheduled, and a call of usbsas returns: it   *)
(* reports progress a finite number of times.                              *)
Fairness ==
    /\ WF_vars(HandlerNext)
    /\ WF_vars(JobNext)
    /\ WF_vars(Poll)
    /\ WF_vars(UsbsasTakes)
    /\ WF_vars(UsbsasWorks)
    /\ SF_vars(UsbsasWorks /\ <<state', doing'>> # <<state, doing>>)

Spec == Init /\ [][Next]_vars
FairSpec == Spec /\ Fairness

---------------------------------------------------------------------------
(* Properties.                                                             *)

(* The server and usbsas stay in step, whatever the browser asks and in    *)
(* whatever order threads get the mutex: the next response in the pipe is  *)
(* always one that its reader knows what to do with, and the first thing   *)
(* that a reset finds there is the End it waits for.                       *)
InStep ==
    fromUsbsas # <<>> =>
        LET m == Head(fromUsbsas) IN
        \/ /\ comm = "handler"
           /\ calls # <<>>
           /\ m = Head(calls) \/ (m = "Error" /\ page # "reset")
        \/ /\ comm = "job"
           /\ \/ ops # <<>> /\ loop # "return"
              \/ /\ loop \in DOMAIN Again
                 /\ m \in Again[loop] \cup Onward[loop] \cup Finish[loop]
                             \cup (IF loop = "Post" THEN {"Error"} ELSE {})

(* A transfer goes to the destination that was chosen in this session,     *)
(* although out_dev keeps the one of the session before the reset.         *)
ChosenDestination == state \in {"CopyFiles", "WriteFiles", "UploadOrCmd"}
                        => dest = selected

(* Every HTTP request gets its response, also when it has to wait for the  *)
(* mutex until a transfer is over.                                         *)
HandlersReturn == page # "none" ~> page = "none"

(* Once the thread of a transfer has returned, the stream comes to its end *)
(* and has carried the last message of the transfer to the browser.        *)
StreamDelivers ==
    (task # "none" /\ job = "none") ~> (task = "ended" /\ got)
============================================================================
