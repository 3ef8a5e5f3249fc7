---------------------------- MODULE TransferTool ----------------------------
(***************************************************************************)
(* A host tool that was not started for one upload (FirmwareUpdate) but to *)
(* download the running firmware or to watch for builds.  The modes share  *)
(* nothing but the program, so a behaviour is of one or of the other.      *)
(***************************************************************************)
EXTENDS FirmwareDownload, BuildWatch

vars == <<downloadVars, watchVars>>

SomeImage == CHOOSE i \in Images : TRUE

Init ==
    /\ DownloadInit
    /\ \/ WatchInit({"none"}) /\ bin = Gz(SomeImage)
       \/ WatchInit(Kinds) /\ running = SomeImage

Next ==
    \/ watch.kind = "none" /\ DownloadNext /\ UNCHANGED watchVars
    \/ watch.kind # "none" /\ WatchNext /\ UNCHANGED downloadVars

Spec == Init /\ [][Next]_vars /\ WatchFairness

\* Every variable has its type; the parts say what else.
TypeOK == DownloadTypeOK /\ (watch.kind # "none" => WatchTypeOK)

=============================================================================
