---------------------------- MODULE Orchestrator ----------------------------
(***************************************************************************)
(* The state of the orchestrator, usbsas (usbsas-usbsas/src/main.rs), its  *)
(* calls to the children, and how it ends them.                            *)
(*                                                                         *)
(* usbsas is one thread.  `state` is the State it runs and `pc` the point  *)
(* it has reached in it: either "recv", blocked for a request of its       *)
(* client, or a point named after the call to a child that is made there.  *)
(* A call is two steps: the request is written, then its answer is read.   *)
(***************************************************************************)
EXTENDS Tar2Files, Files2Fs, Fs2Dev, Scsi2Files, Services

CONSTANT Analyze        \* usbsas was started with --analyze

ASSUME AnalyzeIsBoolean == Analyze \in BOOLEAN

VARIABLES
    state,      \* the State of usbsas
    pc,         \* the point reached in it
    wait,       \* the child whose answer is awaited, "none" or "epipe"
    locked,     \* children that usbsas takes for locked
    hasId,      \* the client has identified its user
    dest,       \* the destination of the transfer
    fstype,     \* the file system asked for
    files,      \* files left to copy (survivors of filter and analysis)
    dirs,       \* directories to create
    filtered, errors, dirty,    \* the three lists of the final report
    hidden,     \* history: entries whose failed reads usbsas is not told of
    todo,       \* entries the current loop has not reached
    cur, off,   \* the entry being copied and the chunks of it done
    last,       \* the bit vector chunk just received is the last one
    answers,    \* the non progress responses to the client's last request
    nth         \* position in EndOrder

ctlVars == <<state, pc, wait, locked, nth>>
jobVars == <<hasId, dest, fstype, filtered, last>>
loopVars == <<todo, cur, off>>
reportVars == <<files, dirs, errors, dirty, hidden>>
orchVars == <<ctlVars, jobVars, loopVars, reportVars, answers>>
storeVars == <<tarVars, index, imgVars, devVars>>

States == {"Init", "DevOpened", "PartitionOpened", "CopyFiles", "WriteFiles",
           "UploadOrCmd", "Wipe", "ImgDisk", "TransferDone", "WaitEnd", "End"}

---------------------------------------------------------------------------
(* The calls: at which point, to which child, which request.  The response *)
(* that counts as success has the type of the request.                     *)
CallOf ==
    [id        |-> <<"identificator", "Id">>,
     devices   |-> <<"usbdev", "Devices">>,
     open      |-> <<"scsi2files", "OpenDevice">>,
     parts     |-> <<"scsi2files", "Partitions">>,
     openpart  |-> <<"scsi2files", "OpenPartition">>,
     attr      |-> <<"scsi2files", "GetAttr">>,
     readdir   |-> <<"scsi2files", "ReadDir">>,
     postcopy  |-> <<"cmdexec", "PostCopyExec">>,
     cf_size   |-> <<"fs2dev", "DevSize">>,
     tar_attr  |-> <<"scsi2files", "GetAttr">>,
     tar_new   |-> <<"files2tar", "NewFile">>,
     tar_read  |-> <<"scsi2files", "ReadFile">>,
     tar_write |-> <<"files2tar", "WriteFile">>,
     tar_end   |-> <<"files2tar", "EndFile">>,
     tar_close |-> <<"files2tar", "Close">>,
     analyze   |-> <<"analyzer", "Analyze">>,
     fs_size   |-> <<"fs2dev", "DevSize">>,
     fs_init   |-> <<"files2fs", "SetFsInfos">>,
     dir_attr  |-> <<"tar2files", "GetAttr">>,
     dir_new   |-> <<"files2fs", "NewFile">>,
     w_attr    |-> <<"tar2files", "GetAttr">>,
     w_new     |-> <<"files2fs", "NewFile">>,
     w_read    |-> <<"tar2files", "ReadFile">>,
     w_write   |-> <<"files2fs", "WriteFile">>,
     w_end     |-> <<"files2fs", "EndFile">>,
     fs_close  |-> <<"files2fs", "Close">>,
     bv_get    |-> <<"files2fs", "BitVec">>,
     bv_load   |-> <<"fs2dev", "LoadBitVec">>,
     startcopy |-> <<"fs2dev", "StartCopy">>,
     upload    |-> <<"uploader", "Upload">>,
     exec      |-> <<"cmdexec", "Exec">>,
     wipe      |-> <<"fs2dev", "Wipe">>,
     img_open  |-> <<"scsi2files", "OpenDevice">>,
     img_start |-> <<"files2fs", "ImgDisk">>,
     img_read  |-> <<"scsi2files", "ReadSectors">>,
     img_write |-> <<"files2fs", "WriteData">>]

Callee == CallOf[pc][1]

(* The request made at pc.                                                 *)
Request ==
    LET t == CallOf[pc][2] IN
    CASE pc \in {"tar_new", "dir_attr", "dir_new", "w_attr", "w_new", "w_read"}
            -> [type |-> t, path |-> cur]
      [] pc \in {"tar_write", "w_write"} -> [type |-> t, offset |-> off]
      [] pc = "fs_init" -> [type |-> t, fstype |-> fstype]
      [] pc = "bv_load" -> [type |-> t, last |-> last]
      [] OTHER -> Msg(t)

(* The first half of a call.  Writing to a child that is gone fails.       *)
SendRequest ==
    /\ pc \in DOMAIN CallOf
    /\ wait = "none"
    /\ IF Closed(Callee)
         THEN wait' = "epipe" /\ UNCHANGED req
         ELSE /\ wait' = Callee
              /\ req' = [req EXCEPT ![Callee] = Append(@, Request)]
    /\ UNCHANGED <<st, rsp, state, pc, locked, nth, jobVars, loopVars,
                   reportVars, answers, storeVars>>

(* The second half: an answer of type t from c is there and is read.       *)
Read(c, t) == /\ wait = c
              /\ rsp[c] # <<>>
              /\ Head(rsp[c]).type = t
              /\ rsp' = [rsp EXCEPT ![c] = Tail(@)]

(* What c sent is of none of the types in T.                               *)
ReadOther(c, T) == /\ wait = c
                   /\ rsp[c] # <<>>
                   /\ Head(rsp[c]).type \notin T
                   /\ rsp' = [rsp EXCEPT ![c] = Tail(@)]

(* The pipe is broken: c was gone when usbsas wrote, or has gone without   *)
(* an answer.                                                              *)
ReadEof(c) == /\ \/ wait = "epipe"
                 \/ wait = c /\ rsp[c] = <<>> /\ Closed(c)
              /\ UNCHANGED rsp

ReadFails(c, T) == ReadOther(c, T) \/ ReadEof(c)

(* The call made at point p succeeded, or failed.                          *)
CallOk(p) == /\ pc = p
             /\ Read(CallOf[p][1], CallOf[p][2])
             /\ wait' = "none"
CallFails(p) == /\ pc = p
                /\ ReadFails(CallOf[p][1], {CallOf[p][2]})
                /\ wait' = "none"

---------------------------------------------------------------------------
(* run() returned Err: main_loop answers one error and waits for the end.  *)
RunFails == /\ state' = "WaitEnd"
            /\ pc' = "recv"
            /\ answers' = Append(answers, "Error")

(* run() returned Ok: usbsas answers a and runs state s.                   *)
RunEnds(a, s) == /\ state' = s
                 /\ pc' = "recv"
                 /\ answers' = Append(answers, a)

(* Raw unlock bytes for child c.                                           *)
WriteUnlock(c, v) == [req EXCEPT ![c] = Append(@, Unlock(v))]

---------------------------------------------------------------------------
(* The end of a session: end_all ends the children one after the other in  *)
(* this order, wait_all then waits for them in the same order.             *)
EndOrder ==
    (IF Analyze THEN <<"analyzer">> ELSE <<>>)
        \o <<"identificator", "cmdexec", "files2fs", "files2tar", "filter",
             "fs2dev", "scsi2files", "tar2files", "uploader", "usbdev">>

EndByte(c) == IF c = "files2tar" THEN 2 ELSE 0

(* A child still taken for locked gets its unlock bytes before End.  The   *)
(* flag itself is not cleared.                                             *)
EndSend ==
    /\ pc = "end"
    /\ wait = "none"
    /\ LET c == EndOrder[nth]
           bytes == IF c \in locked THEN <<Unlock(EndByte(c))>> ELSE <<>>
       IN IF Closed(c)
            THEN wait' = "epipe" /\ UNCHANGED req
            ELSE /\ wait' = c
                 /\ req' = [req EXCEPT ![c] = @ \o bytes \o <<Msg("End")>>]
    /\ UNCHANGED <<st, rsp, state, pc, locked, nth, jobVars, loopVars,
                   reportVars, answers, storeVars>>

(* Mutant: a child whose End fails is asked again.                         *)
EndReturn_Retries ==
    /\ pc = "end"
    /\ LET c == EndOrder[nth] IN
          \/ /\ Read(c, "End")
             /\ IF nth < Len(EndOrder)
                  THEN nth' = nth + 1 /\ UNCHANGED pc
                  ELSE nth' = 1 /\ pc' = "wait"
          \/ ReadFails(c, {"End"}) /\ UNCHANGED <<nth, pc>>
    /\ wait' = "none"
    /\ UNCHANGED <<st, req, state, locked, jobVars, loopVars, reportVars,
                   answers, storeVars>>

(* Whatever came back, an error is only logged.                            *)
EndReturn ==
    /\ pc = "end"
    /\ LET c == EndOrder[nth] IN Read(c, "End") \/ ReadFails(c, {"End"})
    /\ wait' = "none"
    /\ IF nth < Len(EndOrder)
         THEN nth' = nth + 1 /\ UNCHANGED pc
         ELSE nth' = 1 /\ pc' = "wait"
    /\ UNCHANGED <<st, req, state, locked, jobVars, loopVars, reportVars,
                   answers, storeVars>>

(* waitpid() returns once the child has exited.                            *)
WaitChild ==
    /\ pc = "wait"
    /\ st[EndOrder[nth]] = "End"
    /\ IF nth < Len(EndOrder)
         THEN nth' = nth + 1 /\ UNCHANGED <<state, pc, answers>>
         ELSE /\ nth' = 1
              /\ state' = "End"
              /\ pc' = "exit"
              /\ answers' = Append(answers, "End")
    /\ UNCHANGED <<ipcVars, wait, locked, jobVars, loopVars, reportVars,
                   storeVars>>
============================================================================
