------------------------------- MODULE MapStore -------------------------------
(***************************************************************************)
(* The map directories on the disk, one file operation at a time, and those  *)
(* who write there:                                                         *)
(*                                                                          *)
(*  - the MapManager, in the one request or operation that has              *)
(*    operation_in_progress_: create, delete, start of mapping, save;       *)
(*  - the last-pose worker, which takes no part in that flag;               *)
(*  - the mapping process, which writes map.pcd when it has been asked to,  *)
(*    however late, and may outlive a stop that fails and a manager that is *)
(*    killed.                                                               *)
(*                                                                          *)
(* Every file operation may fail, and the manager may be killed and started *)
(* again between any two of them.  The disk keeps what has been written     *)
(* (the code never calls fsync).  A temporary file is left behind under     *)
(* another pid's name; here the next writer takes the same name.  Refused   *)
(* requests change nothing and are left out.                                *)
(*                                                                          *)
(* `mapper = NoMap' is what the manager knows of a mapping process before   *)
(* a start.  As long as it has started that process itself, that is the     *)
(* record of the ProcessManager.  After Crash the record is gone, and all   *)
(* that is left is that MappingAdapter::isRunning and start also ask whether*)
(* somebody offers the save service.  The model assumes that a survivor     *)
(* which lives is discovered by that: nothing in the code makes sure of it. *)
(***************************************************************************)
CONSTANTS Maps, NoMap

ASSUME MapStoreAssumption == NoMap \notin Maps

VARIABLES
  dirs,      \* the directories there are
  file,      \* the content of each entry of each directory
  \* the request in progress: what it is, its map, where it is, and whether it
  \* has made the directory itself
  kind, opMap, pc, made,
  \* the state class and current_map_
  session, currentMap,
  \* the mapping process: the map it works on, and its answer to the save call
  mapper, dump,
  \* the last-pose worker
  wPc, wMap,
  saved      \* history: maps marked saved and not deleted since

disk    == <<dirs, file>>
request == <<kind, opMap, pc, made>>
process == <<mapper, dump>>
worker  == <<wPc, wMap>>

vars == <<disk, request, session, currentMap, process, worker, saved>>

Entries == {"metadata", "metadata.tmp", "pose", "pose.tmp", "pcd"}

Contents == {"none", "part", "whole"}

Listed(m) == m \in dirs /\ file[m]["metadata"] # "none"

Init ==
  /\ dirs = {} /\ file = [m \in Maps |-> [e \in Entries |-> "none"]]
  /\ kind = "none" /\ opMap = NoMap /\ pc = "idle" /\ made = FALSE
  /\ session = "none" /\ currentMap = NoMap
  /\ mapper = NoMap /\ dump = "idle"
  /\ wPc = "idle" /\ wMap = NoMap
  /\ saved = {}

-----------------------------------------------------------------------------
Put(m, e, c) == file' = [file EXCEPT ![m][e] = c] /\ UNCHANGED dirs

\* rename(2): the entry changes in one step, and the temporary one is gone.
Rename(m, temporary, e) ==
  /\ file' = [file EXCEPT ![m][e] = file[m][temporary], ![m][temporary] = "none"]
  /\ UNCHANGED dirs

BeginOp(k, m, label) ==
  /\ pc = "idle" /\ kind' = k /\ opMap' = m /\ pc' = label /\ made' = FALSE
  /\ UNCHANGED <<disk, currentMap, process, worker>>

EndOp == kind' = "none" /\ opMap' = NoMap /\ pc' = "idle" /\ made' = FALSE

Goto(label) == pc' = label /\ UNCHANGED <<kind, opMap, made>>

\* What a create, start or delete comes to, before finishOperation.
AnswerWith(a) == pc' = a /\ made' = FALSE /\ UNCHANGED <<kind, opMap>>

OpStep(label) ==
  /\ pc = label /\ UNCHANGED <<worker, saved>>

Outside == UNCHANGED <<session, currentMap, process>>

-----------------------------------------------------------------------------
(* createMap and writeMetadata.                                              *)

HandleCreateMap(m) ==
  /\ session = "none" /\ m \notin dirs
  /\ BeginOp("create", m, "mkdir") /\ UNCHANGED <<session, saved>>

MakeDirectory ==
  /\ OpStep("mkdir") /\ Outside
  /\ \/ /\ dirs' = dirs \cup {opMap} /\ made' = TRUE /\ pc' = "open"
        /\ UNCHANGED <<file, kind, opMap>>
     \/ AnswerWith("failed") /\ UNCHANGED disk

\* What a failed writeMetadata leads to: createMap removes its directory, a
\* save reports the error and stops the mapping process.
MetadataFails == Goto(IF kind = "save" THEN "stopFailed" ELSE "remove")

OpenMetadataAs(e) ==
  /\ OpStep("open") /\ Outside
  /\ \/ Put(opMap, e, "part") /\ Goto("write")
     \/ MetadataFails /\ UNCHANGED disk

\* Faulty: the file itself is truncated and written.
OpenMetadataInPlace == OpenMetadataAs("metadata")

OpenMetadata == OpenMetadataAs("metadata.tmp")

WriteMetadata ==
  /\ OpStep("write") /\ Outside
  /\ \/ Put(opMap, "metadata.tmp", "whole") /\ Goto("rename")
     \/ MetadataFails /\ UNCHANGED disk

\* A rename that fails is followed by a removal of the temporary file, which may
\* fail as well and only adds to the error.
InstallMetadata ==
  /\ OpStep("rename") /\ Outside
  /\ \/ /\ Rename(opMap, "metadata.tmp", "metadata")
        /\ CASE kind = "create" -> AnswerWith("ok")
             [] kind = "start"  -> Goto("admit")
             [] OTHER           -> Goto("stopSaved")
     \/ /\ Put(opMap, "metadata.tmp", "none") \/ UNCHANGED disk
        /\ MetadataFails

-----------------------------------------------------------------------------
(* deleteMap, and every other remove_all: entries in any order, then the     *)
(* directory.  An entry that comes after the scan makes it fail.             *)

HandleDeleteMap(m) ==
  /\ session = "none" /\ m # currentMap /\ m \in dirs
  /\ BeginOp("delete", m, "remove") /\ saved' = saved \ {m} /\ UNCHANGED session

RemoveEntry ==
  /\ OpStep("remove") /\ Outside
  /\ \E e \in Entries : file[opMap][e] # "none" /\ Put(opMap, e, "none")
  /\ UNCHANGED request

RemoveDirectory ==
  /\ OpStep("remove") /\ Outside
  /\ \A e \in Entries : file[opMap][e] = "none"
  /\ dirs' = dirs \ {opMap} /\ UNCHANGED file
  /\ AnswerWith(IF kind = "delete" THEN "ok" ELSE "failed")

\* An error, which only a deletion reports: the others fail in any case.
RemoveFails ==
  /\ OpStep("remove") /\ Outside /\ AnswerWith("failed") /\ UNCHANGED disk

Reply == OpStep("ok") /\ EndOp /\ Outside /\ UNCHANGED disk

ReplyFailed == OpStep("failed") /\ EndOp /\ Outside /\ UNCHANGED disk

-----------------------------------------------------------------------------
(* Sessions.                                                                 *)

\* A directory without metadata is no map and cannot be created: refused.
\* `mapper = NoMap' after a Crash is service discovery only (see above).
HandleStartMapping(m) ==
  /\ session = "none" /\ mapper = NoMap
  /\ \/ Listed(m) /\ BeginOp("start", m, "admit")
     \/ m \notin dirs /\ BeginOp("start", m, "mkdir")
  /\ UNCHANGED <<session, saved>>

AdmitMappingIf(allowed) ==
  /\ OpStep("admit") /\ UNCHANGED <<disk, process>>
  /\ \/ /\ allowed /\ session' = "mapping" /\ currentMap' = opMap
        /\ Goto("launch")
     \/ ~allowed /\ AnswerWith("failed") /\ UNCHANGED <<session, currentMap>>

\* Faulty: a map.pcd that is there will be overwritten.
AdmitMappingAnyway == AdmitMappingIf(TRUE)

AdmitMapping == AdmitMappingIf(file[opMap]["pcd"] = "none")

\* A process that starts too slowly is stopped, and may survive that.
LaunchOr(failed) ==
  /\ OpStep("launch") /\ UNCHANGED disk
  /\ \/ /\ mapper' = opMap /\ dump' = "idle" /\ AnswerWith("ok")
        /\ UNCHANGED <<session, currentMap>>
     \/ mapper' \in {NoMap, opMap} /\ dump' = "idle" /\ currentMap' = NoMap /\ failed

CleanUpIf(own) ==
  IF own THEN Goto("remove") ELSE AnswerWith("failed")

\* Faulty: a failed start removes the map, whoever has created it.
LaunchCleansAlways == LaunchOr(session' = "none" /\ CleanUpIf(TRUE))

\* Faulty: a failed start stays in its state.
LaunchKeepsSession == LaunchOr(UNCHANGED session /\ CleanUpIf(made))

Launch == LaunchOr(session' = "none" /\ CleanUpIf(made))

HandleLoadMap(m) ==
  /\ session = "none" /\ pc = "idle"
  /\ Listed(m) /\ file[m]["pcd"] # "none"
  /\ currentMap' = m
  /\ UNCHANGED <<disk, request, session, process, worker, saved>>

\* `mapper = NoMap' after a Crash is service discovery only (see above).
HandleStartLocalization(m) ==
  /\ session = "none" /\ pc = "idle" /\ mapper = NoMap
  /\ Listed(m) /\ file[m]["pcd"] # "none"
  /\ session' = "localization" /\ currentMap' = m
  /\ UNCHANGED <<disk, request, process, worker, saved>>

\* A stop, a failure of the process or of the sensors.  A failed stop leaves
\* the process and the selection.
EndSession ==
  /\ session # "none" /\ pc = "idle" /\ session' = "none"
  /\ \/ currentMap' = NoMap /\ mapper' = NoMap /\ dump' = "idle"
     \/ UNCHANGED <<currentMap, process>>
  /\ UNCHANGED <<disk, request, worker, saved>>

HandleRecover ==
  /\ session = "none" /\ pc = "idle" /\ currentMap' = NoMap
  /\ UNCHANGED <<disk, request, session, process, worker, saved>>

-----------------------------------------------------------------------------
(* The save of a map.                                                        *)

HandleSaveMap ==
  /\ session = "mapping"
  /\ BeginOp("save", currentMap, "ask") /\ UNCHANGED <<session, saved>>

\* saveMap of the adapter removes the previous output and calls the service.
AskForSave ==
  /\ OpStep("ask") /\ UNCHANGED <<session, currentMap, mapper>>
  /\ \/ /\ mapper = opMap /\ Put(opMap, "pcd", "none") /\ dump' = "asked"
        /\ Goto("await")
     \/ Goto("stopFailed") /\ UNCHANGED <<disk, dump>>

\* A good reply, the checks of the output, and markMapSaved's look at the metadata.
SaveReplies ==
  /\ OpStep("await") /\ Outside /\ dump = "done"
  /\ Goto(IF file[opMap]["pcd"] # "none" /\ Listed(opMap) THEN "open" ELSE "stopFailed")
  /\ UNCHANGED disk

\* No reply in time, or a bad one.
SaveTimesOut ==
  /\ OpStep("await") /\ Outside /\ Goto("stopFailed") /\ UNCHANGED disk

StopAfterSave ==
  /\ pc \in {"stopSaved", "stopFailed"}
  /\ session' = "none" /\ EndOp
  /\ saved' = IF pc = "stopSaved" THEN saved \cup {opMap} ELSE saved
  /\ \/ mapper' = NoMap /\ dump' = "idle"
     \/ UNCHANGED process
  /\ UNCHANGED <<disk, currentMap, worker>>

-----------------------------------------------------------------------------
(* The mapping process.                                                      *)

MapperStep ==
  UNCHANGED <<request, session, currentMap, mapper, worker, saved>>

MapperOpens ==
  /\ dump = "asked" /\ MapperStep
  /\ \/ mapper \in dirs /\ Put(mapper, "pcd", "part") /\ dump' = "writing"
     \/ dump' = "idle" /\ UNCHANGED disk

\* What has been removed meanwhile does not come back.
MapperCloses ==
  /\ dump = "writing" /\ MapperStep
  /\ \/ /\ Put(mapper, "pcd", IF file[mapper]["pcd"] = "none" THEN "none" ELSE "whole")
        /\ dump' = "done"
     \/ dump' = "idle" /\ UNCHANGED disk

MapperExits ==
  /\ mapper # NoMap /\ mapper' = NoMap /\ dump' = "idle"
  /\ UNCHANGED <<disk, request, session, currentMap, worker, saved>>

-----------------------------------------------------------------------------
(* The last-pose worker: a request may be written long after its session,    *)
(* and gives way to a newer one while it waits.                              *)

WorkerStep(from, to) ==
  /\ wPc = from /\ wPc' = to
  /\ wMap' = IF to = "idle" THEN NoMap ELSE wMap
  /\ UNCHANGED <<request, session, currentMap, process, saved>>

requestLastPoseSave ==
  /\ session = "localization" /\ currentMap \in dirs
  /\ wPc \in {"idle", "open"} /\ wPc' = "open" /\ wMap' = currentMap
  /\ UNCHANGED <<disk, request, session, currentMap, process, saved>>

OpenPose ==
  \/ wMap \in dirs /\ WorkerStep("open", "write") /\ Put(wMap, "pose.tmp", "part")
  \/ WorkerStep("open", "idle") /\ UNCHANGED disk

\* What remove_all has unlinked is written without a name.
WritePose ==
  \/ /\ WorkerStep("write", "rename")
     /\ Put(wMap, "pose.tmp", IF file[wMap]["pose.tmp"] = "none" THEN "none" ELSE "whole")
  \/ WorkerStep("write", "idle") /\ UNCHANGED disk

InstallPose ==
  /\ WorkerStep("rename", "idle")
  /\ \/ file[wMap]["pose.tmp"] # "none" /\ Rename(wMap, "pose.tmp", "pose")
     \/ Put(wMap, "pose.tmp", "none")
     \/ UNCHANGED disk

-----------------------------------------------------------------------------
\* The manager is killed and started again; its children may live on.
Crash ==
  /\ EndOp
  /\ session' = "none" /\ currentMap' = NoMap /\ wPc' = "idle" /\ wMap' = NoMap
  /\ UNCHANGED <<disk, process, saved>>

Requests ==
  \/ \E m \in Maps :
       \/ HandleCreateMap(m) \/ HandleDeleteMap(m) \/ HandleStartMapping(m)
       \/ HandleLoadMap(m) \/ HandleStartLocalization(m)
  \/ HandleSaveMap \/ HandleRecover \/ EndSession \/ requestLastPoseSave

ManagerStep ==
  \/ MakeDirectory \/ OpenMetadata \/ WriteMetadata \/ InstallMetadata
  \/ RemoveEntry \/ RemoveDirectory \/ RemoveFails \/ Reply \/ ReplyFailed
  \/ AdmitMapping \/ Launch
  \/ AskForSave \/ SaveReplies \/ SaveTimesOut \/ StopAfterSave

Next ==
  \/ Requests \/ ManagerStep
  \/ MapperOpens \/ MapperCloses \/ MapperExits
  \/ OpenPose \/ WritePose \/ InstallPose
  \/ Crash

Spec == Init /\ [][Next]_vars

-----------------------------------------------------------------------------
(* Properties.                                                               *)

DiskTypes ==
  /\ dirs \subseteq Maps /\ file \in [Maps -> [Entries -> Contents]]
  /\ \A m \in Maps \ dirs : \A e \in Entries : file[m][e] = "none"
  /\ saved \subseteq Maps

RequestTypes ==
  /\ kind \in {"none", "create", "delete", "start", "save"}
  /\ pc \in {"idle", "mkdir", "open", "write", "rename", "remove", "admit", "launch", "ask",
             "await", "stopSaved", "stopFailed", "ok", "failed"}
  /\ made \in BOOLEAN
  /\ IF pc = "idle" THEN kind = "none" /\ opMap = NoMap /\ ~made
                    ELSE kind # "none" /\ opMap \in Maps

SessionTypes ==
  /\ session \in {"none", "mapping", "localization"}
  /\ IF session = "none" THEN currentMap \in Maps \cup {NoMap} ELSE currentMap \in Maps
  /\ dump \in {"idle", "asked", "writing", "done"}
  /\ IF mapper = NoMap THEN dump = "idle" ELSE mapper \in Maps
  /\ wPc \in {"idle", "open", "write", "rename"}
  /\ IF wPc = "idle" THEN wMap = NoMap ELSE wMap \in Maps

\* Type invariant: a directory that is not there has no entries, a request has
\* a map, and a session has its map selected.
MapStoreTypeOK == DiskTypes /\ RequestTypes /\ SessionTypes

\* README.md and phase7_initial_pose_last_pose_commands.md: metadata.yaml and
\* last_pose.yaml are replaced as a whole.  Otherwise one killed write would
\* make every listing fail, and with it every later start of the manager.
InstalledFilesAreWhole ==
  \A m \in Maps : file[m]["metadata"] # "part" /\ file[m]["pose"] # "part"

\* A map that has been saved keeps its metadata and its whole map.pcd until
\* somebody asks for its deletion, whatever start, save or crash comes after,
\* and however late a mapping process writes what an earlier save asked for.
SavedMapIsKept ==
  \A m \in saved : Listed(m) /\ file[m]["pcd"] = "whole"

Status ==
  [m \in Maps |-> IF m \notin dirs THEN "none" ELSE IF Listed(m) THEN "listed" ELSE "hidden"]

Call ==
  IF kind \in {"create", "start", "delete"}
  THEN [op |-> kind, name |-> opMap] ELSE [op |-> "none", name |-> NoMap]

Answer == IF pc \in {"ok", "failed"} THEN pc ELSE "none"

Catalog == INSTANCE MapCatalog WITH
  Names <- Maps, NoName <- NoMap, status <- Status, call <- Call, mine <- made, answer <- Answer

\* The file operations, each of which may be the last one of a process, keep
\* what MapCatalog promises about names.
ImplementsMapCatalog == Catalog!Spec

==============================================================================
