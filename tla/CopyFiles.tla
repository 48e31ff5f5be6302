----------------------------- MODULE CopyFiles -----------------------------
(***************************************************************************)
(* A transfer: the states CopyFiles, WriteFiles and UploadOrCmd of usbsas. *)
(* The selected files go from the source device into the archive, the      *)
(* archive is analyzed, and the clean files go from there into a new file  *)
(* system image that is copied on the destination device; or the archive   *)
(* is uploaded or handed to a command.                                     *)
(***************************************************************************)
EXTENDS Orchestrator

CONSTANTS
    Rejected,   \* entries that the rules of the filter match
    BigFiles    \* files larger than a FAT file system can hold

ASSUME RejectedAreEntries == Rejected \subseteq Entries
ASSUME BigFilesAreFiles == BigFiles \subseteq Files

(* usbsas tells the client why there is nothing to do and waits for End.   *)
GiveUp(a) == RunEnds(a, "WaitEnd")

---------------------------------------------------------------------------
(* CopyFilesState.                                                         *)

(* tar_src_files begins with the entries that the filter let through.      *)
StartTar(es) == /\ todo' = es
                /\ pc' = "tar_next"
                /\ UNCHANGED <<state, answers>>

(* selected_to_files_list and filter_files: calls to scsi2files and filter *)
(* that change neither of them.  An entry whose attributes cannot be read  *)
(* is reported; a directory that cannot be read, or a filter that is gone, *)
(* fails the transfer.  A FAT directory whose sectors are read as zeros    *)
(* ends early, and the entries behind that point are not listed at all.    *)
(* (Entries are not nested here: the walk of the tree is the subject of    *)
(* SelectFiles.)  Then the first child the destination needs is unlocked.  *)
Unreadable ==
    IF st["scsi2files"] = "End" THEN {Entries}
    ELSE IF SourceFails THEN SUBSET Entries
    ELSE {{}}

Unlisted == IF "src_zeros" \in Faults THEN SUBSET Entries ELSE {{}}

Select ==
    /\ pc = "select"
    /\ \/ \E lost \in Unlisted, gone \in Unreadable :
             LET kept == Entries \ (lost \cup gone \cup Rejected) IN
             /\ ~Closed("filter")
             /\ hidden' = lost
             /\ errors' = gone \ lost
             /\ filtered' = Rejected \ (lost \cup gone)
             /\ files' = kept \cap Files
             /\ dirs' = kept \cap Dirs
             /\ \/ /\ kept = {}
                   /\ GiveUp("NothingToCopy")
                   /\ UNCHANGED <<req, locked, todo>>
                \/ /\ kept # {}
                   /\ dest = "Usb"
                   /\ ~Closed("fs2dev")
                   /\ req' = WriteUnlock("fs2dev", 1)
                   /\ locked' = locked \ {"fs2dev"}
                   /\ pc' = "cf_size"
                   /\ UNCHANGED <<state, answers, todo>>
                \/ /\ kept # {}
                   /\ dest # "Usb"
                   /\ ~Closed("files2tar")
                   /\ req' = WriteUnlock("files2tar", 1)
                   /\ locked' = locked \ {"files2tar"}
                   /\ StartTar(kept)
                \/ /\ kept # {}
                   /\ Closed(IF dest = "Usb" THEN "fs2dev" ELSE "files2tar")
                   /\ RunFails
                   /\ UNCHANGED <<req, locked, todo>>
       \/ /\ SourceFails \/ Closed("filter")
          /\ RunFails
          /\ UNCHANGED <<req, locked, todo, reportVars, filtered>>
    /\ UNCHANGED <<st, rsp, wait, nth, hasId, dest, fstype, last, cur, off,
                   dirty, storeVars>>

(* The size of the destination is known.  The transfer stops if the files  *)
(* do not fit; else files2tar is unlocked, and only then is the file       *)
(* system type looked at.                                                  *)
GotDevSize ==
    /\ CallOk("cf_size")
    /\ \/ /\ GiveUp("NotEnoughSpace")
          /\ UNCHANGED <<req, locked, todo>>
       \/ /\ ~Closed("files2tar")
          /\ req' = WriteUnlock("files2tar", 0)
          /\ \/ /\ fstype = "Bad"
                /\ RunFails
                /\ UNCHANGED <<locked, todo>>
             \/ /\ fstype # "Bad"
                /\ locked' = locked \ {"files2tar"}
                /\ StartTar(files \cup dirs)
       \/ /\ Closed("files2tar")
          /\ RunFails
          /\ UNCHANGED <<req, locked, todo>>
    /\ UNCHANGED <<st, nth, jobVars, cur, off, reportVars, storeVars>>

(* The loop of tar_src_files.                                              *)
TarNext ==
    /\ pc = "tar_next"
    /\ \/ \E e \in todo : /\ cur' = e
                          /\ todo' = todo \ {e}
                          /\ pc' = "tar_attr"
       \/ /\ todo = {}
          /\ pc' = "tar_close"
          /\ UNCHANGED <<cur, todo>>
    /\ UNCHANGED <<ipcVars, state, wait, locked, nth, jobVars, off, reportVars,
                   answers, storeVars>>

(* file_to_tar: attributes, header, then one chunk after the other.  Zeros *)
(* are a chunk like any other.                                             *)
TarFile ==
    /\ \/ /\ CallOk("tar_attr")
          /\ ~(fstype = "Fat" /\ dest = "Usb" /\ cur \in BigFiles)
          /\ pc' = "tar_new"
          /\ off' = 0
       \/ /\ CallOk("tar_new")
          /\ pc' = IF Chunks(cur) > 0 THEN "tar_read" ELSE "tar_end"
          /\ UNCHANGED off
       \/ /\ CallOk("tar_read")
          /\ pc' = "tar_write"
          /\ UNCHANGED off
       \/ /\ CallOk("tar_write")
          /\ off' = off + 1
          /\ pc' = IF off' < Chunks(cur) THEN "tar_read" ELSE "tar_end"
       \/ /\ CallOk("tar_end")
          /\ pc' = "tar_next"
          /\ UNCHANGED off
    /\ hidden' = IF pc = "tar_read" /\ Head(rsp["scsi2files"]) = Zeros
                    THEN hidden \cup {cur} ELSE hidden
    /\ UNCHANGED <<st, req, state, locked, nth, jobVars, todo, cur, files, dirs,
                   errors, dirty, answers, storeVars>>

(* Mutant: the failure is not reported.                                    *)
TarFileFails_Silent ==
    /\ \E p \in {"tar_attr", "tar_new", "tar_read", "tar_write",
                  "tar_end"} : CallFails(p)
    /\ pc' = "tar_next"
    /\ UNCHANGED <<st, req, state, locked, nth, jobVars, loopVars, reportVars,
                   answers, storeVars>>

(* file_to_tar fails, or the file is too large: the entry is reported, the *)
(* loop goes on, and files2tar is left wherever it was.                    *)
TarFileFails ==
    /\ \/ \E p \in {"tar_attr", "tar_new", "tar_read", "tar_write",
                     "tar_end"} : CallFails(p)
       \/ /\ CallOk("tar_attr")
          /\ fstype = "Fat" /\ dest = "Usb" /\ cur \in BigFiles
    /\ errors' = errors \cup {cur}
    /\ pc' = "tar_next"
    /\ UNCHANGED <<st, req, state, locked, nth, jobVars, loopVars, files, dirs,
                   dirty, hidden, answers, storeVars>>

(* Mutant: a failure to close the archive is ignored.                      *)
TarClosed_Unchecked ==
    /\ CallOk("tar_close") \/ CallFails("tar_close")
    /\ ~Closed("tar2files")
    /\ req' = WriteUnlock("tar2files", 1)
    /\ locked' = locked \ {"tar2files"}
    /\ state' = "WriteFiles"
    /\ pc' = "analyzed"
    /\ UNCHANGED <<st, nth, jobVars, loopVars, reportVars, answers, storeVars>>

(* The archive is closed: tar2files is unlocked, to read it or to stay     *)
(* out of the way.                                                         *)
TarClosed ==
    /\ CallOk("tar_close")
    /\ \/ /\ ~Closed("tar2files")
          /\ req' = WriteUnlock("tar2files", IF dest = "Usb" THEN 1 ELSE 0)
          /\ locked' = locked \ {"tar2files"}
          /\ state' = IF dest = "Usb" THEN "WriteFiles" ELSE "UploadOrCmd"
          /\ pc' = CASE dest = "Usb" -> IF Analyze THEN "analyze" ELSE "analyzed"
                     [] dest = "Net" -> "upload"
                     [] dest = "Cmd" -> "exec"
          /\ UNCHANGED answers
       \/ /\ Closed("tar2files")
          /\ RunFails
          /\ UNCHANGED <<req, locked>>
    /\ UNCHANGED <<st, nth, jobVars, loopVars, reportVars, storeVars>>

---------------------------------------------------------------------------
(* WriteFilesState.                                                        *)

(* Mutant: a progress message is taken for the verdict.                    *)
AnalyzeProgress_Stops ==
    /\ pc = "analyze"
    /\ Read("analyzer", "UploadStatus")
    /\ wait' = "none"
    /\ pc' = "analyzed"
    /\ UNCHANGED <<st, req, state, locked, nth, jobVars, loopVars, reportVars,
                   answers, storeVars>>

(* analyze_files: progress is passed on to the client; only the files the  *)
(* analyzer calls clean are kept.                                          *)
AnalyzeProgress ==
    /\ pc = "analyze"
    /\ Read("analyzer", "UploadStatus")
    /\ UNCHANGED <<st, req, orchVars, storeVars>>

(* Mutant: dirty files are reported, and copied.                           *)
AnalyzeDone_KeepsAll ==
    /\ CallOk("analyze")
    /\ dirty' = dirty \cup Head(rsp["analyzer"]).dirty
    /\ pc' = "analyzed"
    /\ UNCHANGED <<st, req, state, locked, nth, jobVars, loopVars, files, dirs,
                   errors, hidden, answers, storeVars>>

AnalyzeDone ==
    /\ CallOk("analyze")
    /\ LET verdict == Head(rsp["analyzer"]) IN
          /\ files' = files \cap verdict.clean
          /\ dirty' = dirty \cup verdict.dirty
    /\ pc' = "analyzed"
    /\ UNCHANGED <<st, req, state, locked, nth, jobVars, loopVars, dirs, errors,
                   hidden, answers, storeVars>>

AnalyzeFails ==
    /\ pc = "analyze"
    /\ ReadFails("analyzer", {"Analyze", "UploadStatus"})
    /\ wait' = "none"
    /\ RunFails
    /\ UNCHANGED <<st, req, locked, nth, jobVars, loopVars, reportVars,
                   storeVars>>

(* Nothing is written unless a file survived.                              *)
Analyzed ==
    /\ pc = "analyzed"
    /\ \/ files = {} /\ GiveUp("NothingToCopy")
       \/ files # {} /\ pc' = "fs_size" /\ UNCHANGED <<state, answers>>
    /\ UNCHANGED <<ipcVars, wait, locked, nth, jobVars, loopVars, reportVars,
                   storeVars>>

(* init_fs, also the middle of a wipe, which formats without copying.      *)
InitFs ==
    /\ \/ /\ CallOk("fs_size")
          /\ pc' = "fs_init"
          /\ UNCHANGED todo
       \/ /\ CallOk("fs_init")
          /\ pc' = IF state = "Wipe" THEN "fs_close" ELSE "dir_next"
          /\ todo' = dirs
    /\ UNCHANGED <<st, req, state, locked, nth, jobVars, cur, off, reportVars,
                   answers, storeVars>>

(* The loop over the directories, then the one over the files.             *)
DirNext ==
    /\ pc = "dir_next"
    /\ \/ \E e \in todo : /\ cur' = e
                          /\ todo' = todo \ {e}
                          /\ pc' = "dir_attr"
       \/ /\ todo = {}
          /\ todo' = files
          /\ pc' = "w_next"
          /\ UNCHANGED cur
    /\ UNCHANGED <<ipcVars, state, wait, locked, nth, jobVars, off, reportVars,
                   answers, storeVars>>

WriteDir ==
    /\ \/ CallOk("dir_attr") /\ pc' = "dir_new"
       \/ CallOk("dir_new") /\ pc' = "dir_next"
    /\ UNCHANGED <<st, req, state, locked, nth, jobVars, loopVars, reportVars,
                   answers, storeVars>>

WriteNext ==
    /\ pc = "w_next"
    /\ \/ \E e \in todo : /\ cur' = e
                          /\ todo' = todo \ {e}
                          /\ pc' = "w_attr"
       \/ /\ todo = {}
          /\ pc' = "fs_close"
          /\ UNCHANGED <<cur, todo>>
    /\ UNCHANGED <<ipcVars, state, wait, locked, nth, jobVars, off, reportVars,
                   answers, storeVars>>

(* Mutant: the last chunk of a file is left out.                           *)
WriteFile_Short ==
    /\ \/ /\ CallOk("w_attr")
          /\ pc' = "w_new"
          /\ off' = 0
       \/ /\ CallOk("w_new")
          /\ pc' = IF Chunks(cur) > 0 THEN "w_read" ELSE "w_end"
          /\ UNCHANGED off
       \/ /\ CallOk("w_read")
          /\ pc' = "w_write"
          /\ UNCHANGED off
       \/ /\ CallOk("w_write")
          /\ off' = off + 1
          /\ pc' = IF off' + 1 < Chunks(cur) THEN "w_read" ELSE "w_end"
       \/ /\ CallOk("w_end")
          /\ pc' = "w_next"
          /\ UNCHANGED off
    /\ UNCHANGED <<st, req, state, locked, nth, jobVars, todo, cur, reportVars,
                   answers, storeVars>>

(* write_file.                                                             *)
WriteFile ==
    /\ \/ /\ CallOk("w_attr")
          /\ pc' = "w_new"
          /\ off' = 0
       \/ /\ CallOk("w_new")
          /\ pc' = IF Chunks(cur) > 0 THEN "w_read" ELSE "w_end"
          /\ UNCHANGED off
       \/ /\ CallOk("w_read")
          /\ pc' = "w_write"
          /\ UNCHANGED off
       \/ /\ CallOk("w_write")
          /\ off' = off + 1
          /\ pc' = IF off' < Chunks(cur) THEN "w_read" ELSE "w_end"
       \/ /\ CallOk("w_end")
          /\ pc' = "w_next"
          /\ UNCHANGED off
    /\ UNCHANGED <<st, req, state, locked, nth, jobVars, todo, cur, reportVars,
                   answers, storeVars>>

(* write_file fails: the file is reported, the loop goes on, and files2fs  *)
(* is left wherever it was.                                                *)
WriteFileFails ==
    /\ \E p \in {"w_attr", "w_new", "w_read", "w_write", "w_end"} : CallFails(p)
    /\ errors' = errors \cup {cur}
    /\ pc' = "w_next"
    /\ UNCHANGED <<st, req, state, locked, nth, jobVars, loopVars, files, dirs,
                   dirty, hidden, answers, storeVars>>

(* The image is closed; forward_bitvec passes its bit vector to fs2dev.    *)
ForwardBitVec ==
    /\ \/ /\ CallOk("fs_close")
          /\ pc' = "bv_get"
          /\ UNCHANGED last
       \/ /\ CallOk("bv_get")
          /\ last' = Head(rsp["files2fs"]).last
          /\ pc' = "bv_load"
       \/ /\ CallOk("bv_load")
          /\ pc' = IF last THEN "startcopy" ELSE "bv_get"
          /\ UNCHANGED last
    /\ UNCHANGED <<st, req, state, locked, nth, hasId, dest, fstype, filtered,
                   loopVars, reportVars, answers, storeVars>>

(* write_fs: fs2dev accepted the copy and now reports on it.  The end of a *)
(* wipe runs the same loop.                                                *)
StartCopy ==
    /\ pc = "startcopy"
    /\ Read("fs2dev", "StartCopy")
    /\ pc' = "copying"
    /\ UNCHANGED <<st, req, state, wait, locked, nth, jobVars, loopVars,
                   reportVars, answers, storeVars>>

CopyProgress ==
    /\ pc \in {"copying", "wiping"}
    /\ Read("fs2dev", "CopyStatus")
    /\ UNCHANGED <<st, req, orchVars, storeVars>>

(* Mutant: a copy in which no file succeeded is reported as no copy.       *)
CopyDone_Empty ==
    /\ pc = "copying"
    /\ Read("fs2dev", "CopyStatusDone")
    /\ wait' = "none"
    /\ IF files \subseteq errors THEN RunEnds("NothingToCopy", "WaitEnd")
                                 ELSE RunEnds("CopyDone", "TransferDone")
    /\ UNCHANGED <<st, req, locked, nth, jobVars, loopVars, reportVars,
                   storeVars>>

CopyDone ==
    /\ pc = "copying"
    /\ Read("fs2dev", "CopyStatusDone")
    /\ wait' = "none"
    /\ IF state = "Wipe" THEN RunEnds("Wipe", "WaitEnd")
                         ELSE RunEnds("CopyDone", "TransferDone")
    /\ UNCHANGED <<st, req, locked, nth, jobVars, loopVars, reportVars,
                   storeVars>>

(* fs2dev reports an error: write_fs answers it and returns Ok, and run()  *)
(* goes on to answer CopyDone.                                             *)
CopyRefused ==
    /\ pc = "copying"
    /\ ReadOther("fs2dev", {"CopyStatus", "CopyStatusDone"})
    /\ wait' = "none"
    /\ pc' = "recv"
    /\ IF state = "Wipe"
         THEN state' = "WaitEnd" /\ answers' = Append(answers, "Error")
         ELSE /\ state' = "TransferDone"
              /\ answers' = answers \o <<"Error", "CopyDone">>
    /\ UNCHANGED <<st, req, locked, nth, jobVars, loopVars, reportVars,
                   storeVars>>

(* Mutant: the error is answered and the transfer reported as done.        *)
CopyBroken_Both ==
    /\ pc = "copying"
    /\ ReadEof("fs2dev")
    /\ wait' = "none"
    /\ state' = "TransferDone"
    /\ pc' = "recv"
    /\ answers' = answers \o <<"Error", "CopyDone">>
    /\ UNCHANGED <<st, req, locked, nth, jobVars, loopVars, reportVars,
                   storeVars>>

CopyBroken ==
    /\ pc = "copying"
    /\ ReadEof("fs2dev")
    /\ wait' = "none"
    /\ RunFails
    /\ UNCHANGED <<st, req, locked, nth, jobVars, loopVars, reportVars,
                   storeVars>>

---------------------------------------------------------------------------
(* UploadOrCmdState.                                                       *)
UploadProgress ==
    /\ pc = "upload"
    /\ Read("uploader", "UploadStatus")
    /\ UNCHANGED <<st, req, orchVars, storeVars>>

(* Mutant: fs2dev is unlocked but still taken for locked.                  *)
Delivered_StaysLocked ==
    /\ CallOk("upload") \/ CallOk("exec")
    /\ ~Closed("fs2dev")
    /\ req' = WriteUnlock("fs2dev", 0)
    /\ RunEnds("CopyDone", "TransferDone")
    /\ UNCHANGED <<st, locked, nth, jobVars, loopVars, reportVars, storeVars>>

(* The archive is delivered: fs2dev is unlocked so that it can exit.       *)
Delivered ==
    /\ CallOk("upload") \/ CallOk("exec")
    /\ \/ /\ ~Closed("fs2dev")
          /\ req' = WriteUnlock("fs2dev", 0)
          /\ locked' = locked \ {"fs2dev"}
          /\ RunEnds("CopyDone", "TransferDone")
       \/ /\ Closed("fs2dev")
          /\ RunFails
          /\ UNCHANGED <<req, locked>>
    /\ UNCHANGED <<st, nth, jobVars, loopVars, reportVars, storeVars>>

UploadFails ==
    /\ pc = "upload"
    /\ ReadFails("uploader", {"Upload", "UploadStatus"})
    /\ wait' = "none"
    /\ RunFails
    /\ UNCHANGED <<st, req, locked, nth, jobVars, loopVars, reportVars,
                   storeVars>>

---------------------------------------------------------------------------
(* The calls whose failure is passed on with `?'.                          *)
TransferAborts ==
    /\ \E p \in {"cf_size", "tar_close", "fs_size", "fs_init", "dir_attr",
                  "dir_new", "fs_close", "bv_get", "bv_load", "startcopy",
                  "exec"} : CallFails(p)
    /\ RunFails
    /\ UNCHANGED <<st, req, locked, nth, jobVars, loopVars, reportVars,
                   storeVars>>

CopyFilesNext ==
    \/ Select
    \/ GotDevSize
    \/ TarNext
    \/ TarFile
    \/ TarFileFails
    \/ TarClosed
    \/ AnalyzeProgress
    \/ AnalyzeDone
    \/ AnalyzeFails
    \/ Analyzed
    \/ InitFs
    \/ DirNext
    \/ WriteDir
    \/ WriteNext
    \/ WriteFile
    \/ WriteFileFails
    \/ ForwardBitVec
    \/ StartCopy
    \/ CopyProgress
    \/ CopyDone
    \/ CopyRefused
    \/ CopyBroken
    \/ UploadProgress
    \/ Delivered
    \/ UploadFails
    \/ TransferAborts
============================================================================
