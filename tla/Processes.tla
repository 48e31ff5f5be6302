----------------------------- MODULE Processes -----------------------------
(***************************************************************************)
(* What every process of usbsas shares: the two pipes that link a child to *)
(* its parent (usbsas-comm), the spawn / unlock / exit life cycle          *)
(* (usbsas-process) and the error handling that each child's main_loop     *)
(* repeats.                                                                *)
(*                                                                         *)
(* A process is single threaded.  It blocks in recv() until a whole        *)
(* message is there, handles it, writes its responses and blocks again, so *)
(* one action takes one request and writes all the responses to it.        *)
(***************************************************************************)
EXTENDS Integers, Sequences

CONSTANTS
    Files,      \* regular files below the selection
    Dirs,       \* directories below the selection
    NoEntry,    \* not an entry
    Size,       \* Size[f]: the number of READ_FILE_MAX_SIZE chunks of f
    Faults      \* the failures the environment may inject in this instance

VARIABLES
    st,         \* st[c]: the state of process c
    req,        \* req[c]: what the parent wrote and c has not read yet
    rsp         \* rsp[c]: what c wrote and the parent has not read yet

ipcVars == <<st, req, rsp>>

Entries == Files \cup Dirs

ASSUME EntriesDisjoint == Files \cap Dirs = {}
ASSUME NoEntryIsNone == NoEntry \notin Entries
ASSUME SizeInNat == Size \in [Files -> Nat]

(* The chunks of data an entry carries; a directory has none.              *)
Chunks(e) == IF e \in Files THEN Size[e] ELSE 0

(* The children of usbsas, and dev2scsi, which is a child of scsi2files.   *)
Children == {"analyzer", "identificator", "cmdexec", "files2fs", "files2tar",
             "filter", "fs2dev", "scsi2files", "tar2files", "uploader",
             "usbdev"}

Procs == Children \cup {"dev2scsi"}

(* Children spawned with wait_on_startup: they read raw bytes before their *)
(* first message.                                                          *)
WaitOnStartup == {"files2tar", "fs2dev", "tar2files"}

---------------------------------------------------------------------------
(* Messages: a type, and for some types the data that a property needs.    *)
Msg(t) == [type |-> t]
Error == Msg("Error")
EndRsp == Msg("End")

(* The raw bytes of an unlock.  They are not a message: a process that is  *)
(* past its unlock takes them for the start of a length prefix and blocks. *)
Unlock(v) == [type |-> "Unlock", value |-> v]

(* The process is gone and its ends of the pipes are closed.  dev2scsi is  *)
(* forked by scsi2files and inherits both ends of its pipes, so those stay *)
(* open as long as either process lives.                                   *)
Closed(c) == /\ st[c] = "End"
             /\ c = "scsi2files" => st["dev2scsi"] = "End"

---------------------------------------------------------------------------
(* Steps of a child.                                                       *)

(* c is in state s, blocked in recv(), and a message of type t is there.   *)
Receives(c, s, t) == /\ st[c] = s
                     /\ req[c] # <<>>
                     /\ Head(req[c]).type = t

(* c is in state s and receives a message whose type is not in T.          *)
ReceivesOther(c, s, T) == /\ st[c] = s
                          /\ req[c] # <<>>
                          /\ Head(req[c]).type \notin T \cup {"Unlock"}

(* c takes the request, writes the responses rs and moves to state s.      *)
Answer(c, rs, s) == /\ st' = [st EXCEPT ![c] = s]
                    /\ req' = [req EXCEPT ![c] = Tail(@)]
                    /\ rsp' = [rsp EXCEPT ![c] = @ \o rs]

(* c writes responses and changes state without having read a request.     *)
Emit(c, rs, s) == /\ st' = [st EXCEPT ![c] = s]
                  /\ rsp' = [rsp EXCEPT ![c] = @ \o rs]
                  /\ UNCHANGED req

(* run() returned Err: main_loop sends one error and waits for the end.    *)
RunError(c) == Answer(c, <<Error>>, "WaitEnd")

(* The handler answered an error of its own and then returned Err(State):  *)
(* main_loop sends a second one.                                           *)
BadRequestTwice(c) == Answer(c, <<Error, Error>>, "WaitEnd")

(* The WaitEnd state of files2tar, tar2files, files2fs, fs2dev, dev2scsi:  *)
(* it reads one request, answers it and exits whatever it was.             *)
WaitEndOnce(c) ==
    \/ Receives(c, "WaitEnd", "End") /\ Answer(c, <<EndRsp>>, "End")
    \/ ReceivesOther(c, "WaitEnd", {"End"}) /\ Answer(c, <<Error>>, "End")

(* Mutant: End is answered like any other request.                         *)
WaitEndLoop_Stays(c) ==
    /\ st[c] = "WaitEnd"
    /\ req[c] # <<>>
    /\ Answer(c, <<EndRsp>>, "WaitEnd")

(* The WaitEnd state of the others: it loops until it reads End.           *)
WaitEndLoop(c) ==
    \/ Receives(c, "WaitEnd", "End") /\ Answer(c, <<EndRsp>>, "End")
    \/ ReceivesOther(c, "WaitEnd", {"End"}) /\ Answer(c, <<Error>>, "WaitEnd")

(* The process dies (panic, signal): its unread requests are lost with it, *)
(* what it already wrote stays readable.                                   *)
Die(c) == /\ st[c] # "End"
          /\ st' = [st EXCEPT ![c] = "End"]
          /\ UNCHANGED <<req, rsp>>
============================================================================
