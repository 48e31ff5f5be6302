------------------------------ MODULE Services ------------------------------
(***************************************************************************)
(* The children of usbsas with one state of service: analyzer and uploader *)
(* (usbsas-net), cmdexec, identificator, filter and usbdev.                *)
(***************************************************************************)
EXTENDS Files2Tar

ServiceNames == {"analyzer", "identificator", "cmdexec", "filter",
                 "uploader", "usbdev"}

(* "Drained": the archive's file handle was taken by a first Analyze.      *)
ServiceStates == {"Running", "Drained", "WaitEnd", "End"}

---------------------------------------------------------------------------
(* RunningState of analyzer: upload the archive, poll for the verdict.     *)
(* Every file of the archive is reported, as CLEAN or as something else.   *)
(* A failure of the remote server is answered by one error and survived.   *)
AnalyzerAnalyze ==
    /\ Receives("analyzer", "Running", "Analyze")
    /\ \/ \E clean \in SUBSET {f \in Files : InTar(f)},
             progress \in {<<>>, <<Msg("UploadStatus")>>} :
             Answer("analyzer",
                    Append(progress,
                           [type |-> "Analyze", clean |-> clean,
                            dirty |-> {f \in Files : InTar(f)} \ clean]),
                    "Drained")
       \/ "analyze" \in Faults /\ Answer("analyzer", <<Error>>, "Drained")
    /\ UNCHANGED tarVars

AnalyzerAgain ==
    /\ Receives("analyzer", "Drained", "Analyze")
    /\ Answer("analyzer", <<Error>>, "Drained")
    /\ UNCHANGED tarVars

(* RunningState of uploader: one request, whatever its outcome.            *)
UploaderUpload ==
    /\ Receives("uploader", "Running", "Upload")
    /\ \/ \E progress \in {<<>>, <<Msg("UploadStatus")>>} :
             Answer("uploader", Append(progress, Msg("Upload")), "WaitEnd")
       \/ "upload" \in Faults /\ Answer("uploader", <<Error>>, "WaitEnd")
    /\ UNCHANGED tarVars

(* RunningState of cmdexec.                                                *)
CmdExecRun ==
    /\ \E t \in {"Exec", "PostCopyExec"} :
          /\ Receives("cmdexec", "Running", t)
          /\ \/ Answer("cmdexec", <<Msg(t)>>, "Running")
             \/ "exec" \in Faults /\ Answer("cmdexec", <<Error>>, "Running")
    /\ UNCHANGED tarVars

IdentificatorId ==
    /\ Receives("identificator", "Running", "Id")
    /\ Answer("identificator", <<Msg("Id")>>, "Running")
    /\ UNCHANGED tarVars

UsbDevDevices ==
    /\ Receives("usbdev", "Running", "Devices")
    /\ Answer("usbdev", <<Msg("Devices")>>, "Running")
    /\ UNCHANGED tarVars

ServiceEnd ==
    /\ \E c \in ServiceNames, s \in {"Running", "Drained"} :
          /\ Receives(c, s, "End")
          /\ Answer(c, <<EndRsp>>, "End")
    /\ UNCHANGED tarVars

(* filter and identificator have no WaitEnd state.                         *)
ServiceWaitEnd ==
    /\ \E c \in ServiceNames \ {"filter", "identificator"} : WaitEndLoop(c)
    /\ UNCHANGED tarVars

(* How a service comes up: analyzer parks without its section of the       *)
(* configuration; uploader fails without its own, and writes an error      *)
(* nobody asked for.                                                       *)
ServiceStart(c) ==
    {[st |-> "Running", rsp |-> <<>>]}
        \cup (IF c = "analyzer" /\ "no_analyzer_conf" \in Faults
                THEN {[st |-> "WaitEnd", rsp |-> <<>>]} ELSE {})
        \cup (IF c = "uploader" /\ "no_network_conf" \in Faults
                THEN {[st |-> "WaitEnd", rsp |-> <<Error>>]} ELSE {})

ServicesNext ==
    \/ AnalyzerAnalyze
    \/ AnalyzerAgain
    \/ UploaderUpload
    \/ CmdExecRun
    \/ IdentificatorId
    \/ UsbDevDevices
    \/ ServiceEnd
    \/ ServiceWaitEnd
============================================================================
