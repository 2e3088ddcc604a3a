---------------------------- MODULE MapStoreProofs ----------------------------
(***************************************************************************)
(* Proofs about MapStore for any set of maps: its types, that installed      *)
(* files are whole, that a saved map is kept, and that the file operations   *)
(* implement MapCatalog.                                                     *)
(***************************************************************************)
EXTENDS MapStore, Naturals, TLAPS

\* Only a whole temporary file is renamed.
TemporariesAreWhole ==
  /\ pc = "rename" => file[opMap]["metadata.tmp"] = "whole"
  /\ wPc = "rename" => file[wMap]["pose.tmp"] # "part"

\* Where a request of a kind can be.
KindsAndPlaces ==
  /\ pc = "mkdir" => kind \in {"create", "start"} /\ ~made
  /\ pc \in {"open", "write", "rename"} => kind = "save" \/ (kind \in {"create", "start"} /\ made)
  /\ pc = "remove" => kind = "delete" \/ (kind \in {"create", "start"} /\ made)
  /\ pc \in {"admit", "launch"} => kind = "start"
  /\ pc \in {"ask", "await", "stopSaved", "stopFailed"} => kind = "save"
  /\ pc \in {"ok", "failed"} => kind # "save" /\ ~made
  /\ kind = "delete" => pc \in {"remove", "ok", "failed"}
  /\ kind = "save" => ~made

\* A request works in a directory that is there, and a map that is being made
\* has no metadata before they are installed.
DirectoriesOfRequests ==
  /\ pc = "mkdir" => opMap \notin dirs
  /\ pc \notin {"idle", "mkdir", "ok", "failed"} => opMap \in dirs
  /\ pc \in {"open", "write", "rename"} /\ made => file[opMap]["metadata"] = "none"
  /\ pc = "remove" /\ kind = "create" => file[opMap]["metadata"] = "none"
  /\ pc \in {"admit", "launch"} => Listed(opMap)
  /\ kind = "start" /\ pc = "ok" => Listed(opMap)
  /\ kind = "save" => Listed(opMap)

\* While a session lasts, the only requests are its own.
SessionsAlone ==
  /\ session # "none" => Listed(currentMap)
  /\ session # "none" /\ pc # "idle" =>
       kind = "save" \/ pc = "launch" \/ (kind = "start" /\ pc = "ok")
  /\ kind = "save" \/ pc = "launch" => session = "mapping" /\ currentMap = opMap
  /\ session = "mapping" => mapper \in {NoMap, currentMap}
  /\ kind = "start" /\ pc \in {"mkdir", "open", "write", "rename", "admit"} => mapper = NoMap

\* What is being made, removed, mapped or still to be written is not saved; a
\* save has the whole map.pcd before it is marked.
SavesInOrder ==
  /\ \A m \in saved : Listed(m) /\ file[m]["pcd"] = "whole"
  /\ made \/ pc = "remove" => opMap \notin saved
  /\ session = "mapping" => currentMap \notin saved
  /\ dump = "asked" => mapper \notin saved
  /\ dump = "done" => file[mapper]["pcd"] # "part"
  /\ kind = "save" /\ pc \in {"open", "write", "rename", "stopSaved"} =>
       dump \in {"done", "idle"} /\ file[opMap]["pcd"] = "whole"

MapStoreInv ==
  /\ MapStoreTypeOK /\ InstalledFilesAreWhole /\ TemporariesAreWhole /\ KindsAndPlaces
  /\ DirectoriesOfRequests /\ SessionsAlone /\ SavesInOrder

-----------------------------------------------------------------------------
(* Each part of the invariant is kept by every step.                         *)

LEMMA InitHolds == Init => MapStoreInv
<1> USE MapStoreAssumption DEF Init
<1>1. Init => DiskTypes
  BY DEF DiskTypes, Contents
<1>2. Init => RequestTypes /\ SessionTypes
  BY DEF RequestTypes, SessionTypes
<1>3. Init => InstalledFilesAreWhole
  BY DEF InstalledFilesAreWhole, Entries
<1>4. Init => TemporariesAreWhole /\ KindsAndPlaces /\ DirectoriesOfRequests
  BY DEF TemporariesAreWhole, KindsAndPlaces, DirectoriesOfRequests
<1>5. Init => SessionsAlone /\ SavesInOrder
  BY DEF SessionsAlone, SavesInOrder
<1> QED
  BY <1>1, <1>2, <1>3, <1>4, <1>5 DEF MapStoreInv, MapStoreTypeOK

\* No entry comes into a directory that is not there.
LEMMA DiskTypesStep ==
  ASSUME MapStoreInv, [Next]_vars
  PROVE  DiskTypes'
<1> USE MapStoreAssumption DEF MapStoreInv, MapStoreTypeOK, DiskTypes, RequestTypes,
      SessionTypes, DirectoriesOfRequests, Entries, Contents, Listed, disk, request,
      process, worker
<1>0. CASE UNCHANGED vars
  BY <1>0 DEF vars
<1>1. CASE Requests
  <2>1. ASSUME NEW m \in Maps, HandleCreateMap(m) \/ HandleDeleteMap(m) \/ HandleStartMapping(m)
        PROVE  DiskTypes'
    BY <2>1 DEF HandleCreateMap, HandleDeleteMap, HandleStartMapping, BeginOp, Listed
  <2>2. ASSUME NEW m \in Maps, HandleLoadMap(m) \/ HandleStartLocalization(m)
        PROVE  DiskTypes'
    BY <2>2 DEF HandleLoadMap, HandleStartLocalization, Listed
  <2>3. CASE HandleSaveMap
    BY <2>3 DEF HandleSaveMap, BeginOp
  <2>4. CASE HandleRecover \/ EndSession \/ requestLastPoseSave
    BY <2>4 DEF HandleRecover, EndSession, requestLastPoseSave
  <2> QED
    BY <1>1, <2>1, <2>2, <2>3, <2>4 DEF Requests
<1>2. CASE MakeDirectory
  BY <1>2 DEF MakeDirectory, Outside, OpStep, AnswerWith
<1>3. CASE OpenMetadata \/ WriteMetadata
  BY <1>3 DEF OpenMetadata, OpenMetadataAs, WriteMetadata, MetadataFails, Outside, OpStep,
      Goto, Put
<1>4. CASE InstallMetadata
  BY <1>4 DEF InstallMetadata, MetadataFails, Outside, OpStep, Goto, Put, Rename, AnswerWith
<1>5. CASE RemoveEntry \/ RemoveDirectory \/ RemoveFails
  BY <1>5 DEF RemoveEntry, RemoveDirectory, RemoveFails, Outside, OpStep, Put, AnswerWith
<1>6. CASE Reply \/ ReplyFailed
  BY <1>6 DEF Reply, ReplyFailed, Outside, OpStep, EndOp
<1>7. CASE AdmitMapping \/ Launch
  BY <1>7 DEF AdmitMapping, AdmitMappingIf, Launch, LaunchOr, CleanUpIf, OpStep, Goto,
      AnswerWith
<1>8. CASE AskForSave
  BY <1>8 DEF AskForSave, OpStep, Goto, Put
<1>9. CASE SaveReplies \/ SaveTimesOut \/ StopAfterSave
  BY <1>9 DEF SaveReplies, SaveTimesOut, StopAfterSave, Outside, OpStep, Goto, EndOp
<1>10. CASE MapperOpens \/ MapperCloses \/ MapperExits
  BY <1>10 DEF MapperOpens, MapperCloses, MapperExits, MapperStep, Put
<1>11. CASE OpenPose \/ WritePose \/ InstallPose
  BY <1>11 DEF OpenPose, WritePose, InstallPose, WorkerStep, Put, Rename
<1>12. CASE Crash
  BY <1>12 DEF Crash, EndOp
<1> QED
  BY <1>0, <1>1, <1>2, <1>3, <1>4, <1>5, <1>6, <1>7, <1>8, <1>9, <1>10, <1>11, <1>12 DEF
      Next, ManagerStep

\* Requests have a map until they end.
LEMMA RequestTypesStep ==
  ASSUME MapStoreInv, [Next]_vars
  PROVE  RequestTypes'
<1> USE MapStoreAssumption DEF MapStoreInv, MapStoreTypeOK, RequestTypes, SessionTypes,
      disk, request, process, worker
<1>0. CASE UNCHANGED vars
  BY <1>0 DEF vars
<1>1. CASE Requests
  <2>1. ASSUME NEW m \in Maps, HandleCreateMap(m) \/ HandleDeleteMap(m) \/ HandleStartMapping(m)
        PROVE  RequestTypes'
    BY <2>1 DEF HandleCreateMap, HandleDeleteMap, HandleStartMapping, BeginOp, Listed
  <2>2. ASSUME NEW m \in Maps, HandleLoadMap(m) \/ HandleStartLocalization(m)
        PROVE  RequestTypes'
    BY <2>2 DEF HandleLoadMap, HandleStartLocalization, Listed
  <2>3. CASE HandleSaveMap
    BY <2>3 DEF HandleSaveMap, BeginOp
  <2>4. CASE HandleRecover \/ EndSession \/ requestLastPoseSave
    BY <2>4 DEF HandleRecover, EndSession, requestLastPoseSave
  <2> QED
    BY <1>1, <2>1, <2>2, <2>3, <2>4 DEF Requests
<1>2. CASE MakeDirectory
  BY <1>2 DEF MakeDirectory, Outside, OpStep, AnswerWith
<1>3. CASE OpenMetadata \/ WriteMetadata
  BY <1>3 DEF OpenMetadata, OpenMetadataAs, WriteMetadata, MetadataFails, Outside, OpStep,
      Goto, Put
<1>4. CASE InstallMetadata
  BY <1>4 DEF InstallMetadata, MetadataFails, Outside, OpStep, Goto, Put, Rename, AnswerWith
<1>5. CASE RemoveEntry \/ RemoveDirectory \/ RemoveFails
  BY <1>5 DEF RemoveEntry, RemoveDirectory, RemoveFails, Outside, OpStep, Put, AnswerWith
<1>6. CASE Reply \/ ReplyFailed
  BY <1>6 DEF Reply, ReplyFailed, Outside, OpStep, EndOp
<1>7. CASE AdmitMapping \/ Launch
  BY <1>7 DEF AdmitMapping, AdmitMappingIf, Launch, LaunchOr, CleanUpIf, OpStep, Goto,
      AnswerWith
<1>8. CASE AskForSave
  BY <1>8 DEF AskForSave, OpStep, Goto, Put
<1>9. CASE SaveReplies \/ SaveTimesOut \/ StopAfterSave
  BY <1>9 DEF SaveReplies, SaveTimesOut, StopAfterSave, Outside, OpStep, Goto, EndOp
<1>10. CASE MapperOpens \/ MapperCloses \/ MapperExits
  BY <1>10 DEF MapperOpens, MapperCloses, MapperExits, MapperStep, Put
<1>11. CASE OpenPose \/ WritePose \/ InstallPose
  BY <1>11 DEF OpenPose, WritePose, InstallPose, WorkerStep, Put, Rename
<1>12. CASE Crash
  BY <1>12 DEF Crash, EndOp
<1> QED
  BY <1>0, <1>1, <1>2, <1>3, <1>4, <1>5, <1>6, <1>7, <1>8, <1>9, <1>10, <1>11, <1>12 DEF
      Next, ManagerStep

\* A session has its map selected.
LEMMA SessionTypesStep ==
  ASSUME MapStoreInv, [Next]_vars
  PROVE  SessionTypes'
<1> USE MapStoreAssumption DEF MapStoreInv, MapStoreTypeOK, SessionTypes, RequestTypes,
      disk, request, process, worker
<1>0. CASE UNCHANGED vars
  BY <1>0 DEF vars
<1>1. CASE Requests
  <2>1. ASSUME NEW m \in Maps, HandleCreateMap(m) \/ HandleDeleteMap(m) \/ HandleStartMapping(m)
        PROVE  SessionTypes'
    BY <2>1 DEF HandleCreateMap, HandleDeleteMap, HandleStartMapping, BeginOp, Listed
  <2>2. ASSUME NEW m \in Maps, HandleLoadMap(m) \/ HandleStartLocalization(m)
        PROVE  SessionTypes'
    BY <2>2 DEF HandleLoadMap, HandleStartLocalization, Listed
  <2>3. CASE HandleSaveMap
    BY <2>3 DEF HandleSaveMap, BeginOp
  <2>4. CASE HandleRecover \/ EndSession \/ requestLastPoseSave
    BY <2>4 DEF HandleRecover, EndSession, requestLastPoseSave
  <2> QED
    BY <1>1, <2>1, <2>2, <2>3, <2>4 DEF Requests
<1>2. CASE MakeDirectory
  BY <1>2 DEF MakeDirectory, Outside, OpStep, AnswerWith
<1>3. CASE OpenMetadata \/ WriteMetadata
  BY <1>3 DEF OpenMetadata, OpenMetadataAs, WriteMetadata, MetadataFails, Outside, OpStep,
      Goto, Put
<1>4. CASE InstallMetadata
  BY <1>4 DEF InstallMetadata, MetadataFails, Outside, OpStep, Goto, Put, Rename, AnswerWith
<1>5. CASE RemoveEntry \/ RemoveDirectory \/ RemoveFails
  BY <1>5 DEF RemoveEntry, RemoveDirectory, RemoveFails, Outside, OpStep, Put, AnswerWith
<1>6. CASE Reply \/ ReplyFailed
  BY <1>6 DEF Reply, ReplyFailed, Outside, OpStep, EndOp
<1>7. CASE AdmitMapping \/ Launch
  BY <1>7 DEF AdmitMapping, AdmitMappingIf, Launch, LaunchOr, CleanUpIf, OpStep, Goto,
      AnswerWith
<1>8. CASE AskForSave
  BY <1>8 DEF AskForSave, OpStep, Goto, Put
<1>9. CASE SaveReplies \/ SaveTimesOut \/ StopAfterSave
  BY <1>9 DEF SaveReplies, SaveTimesOut, StopAfterSave, Outside, OpStep, Goto, EndOp
<1>10. CASE MapperOpens \/ MapperCloses \/ MapperExits
  BY <1>10 DEF MapperOpens, MapperCloses, MapperExits, MapperStep, Put
<1>11. CASE OpenPose \/ WritePose \/ InstallPose
  BY <1>11 DEF OpenPose, WritePose, InstallPose, WorkerStep, Put, Rename
<1>12. CASE Crash
  BY <1>12 DEF Crash, EndOp
<1> QED
  BY <1>0, <1>1, <1>2, <1>3, <1>4, <1>5, <1>6, <1>7, <1>8, <1>9, <1>10, <1>11, <1>12 DEF
      Next, ManagerStep

\* A file is installed by the renaming of a whole one.
LEMMA WholeStep ==
  ASSUME MapStoreInv, [Next]_vars
  PROVE  InstalledFilesAreWhole'
<1> USE MapStoreAssumption DEF MapStoreInv, MapStoreTypeOK, InstalledFilesAreWhole,
      DiskTypes, RequestTypes, SessionTypes, TemporariesAreWhole, Entries, Contents, disk,
      request, process, worker
<1>0. CASE UNCHANGED vars
  BY <1>0 DEF vars
<1>1. CASE Requests
  <2>1. ASSUME NEW m \in Maps, HandleCreateMap(m) \/ HandleDeleteMap(m) \/ HandleStartMapping(m)
        PROVE  InstalledFilesAreWhole'
    BY <2>1 DEF HandleCreateMap, HandleDeleteMap, HandleStartMapping, BeginOp, Listed
  <2>2. ASSUME NEW m \in Maps, HandleLoadMap(m) \/ HandleStartLocalization(m)
        PROVE  InstalledFilesAreWhole'
    BY <2>2 DEF HandleLoadMap, HandleStartLocalization, Listed
  <2>3. CASE HandleSaveMap
    BY <2>3 DEF HandleSaveMap, BeginOp
  <2>4. CASE HandleRecover \/ EndSession \/ requestLastPoseSave
    BY <2>4 DEF HandleRecover, EndSession, requestLastPoseSave
  <2> QED
    BY <1>1, <2>1, <2>2, <2>3, <2>4 DEF Requests
<1>2. CASE MakeDirectory
  BY <1>2 DEF MakeDirectory, Outside, OpStep, AnswerWith
<1>3. CASE OpenMetadata \/ WriteMetadata
  BY <1>3 DEF OpenMetadata, OpenMetadataAs, WriteMetadata, MetadataFails, Outside, OpStep,
      Goto, Put
<1>4. CASE InstallMetadata
  BY <1>4 DEF InstallMetadata, MetadataFails, Outside, OpStep, Goto, Put, Rename, AnswerWith
<1>5. CASE RemoveEntry \/ RemoveDirectory \/ RemoveFails
  BY <1>5 DEF RemoveEntry, RemoveDirectory, RemoveFails, Outside, OpStep, Put, AnswerWith
<1>6. CASE Reply \/ ReplyFailed
  BY <1>6 DEF Reply, ReplyFailed, Outside, OpStep, EndOp
<1>7. CASE AdmitMapping \/ Launch
  BY <1>7 DEF AdmitMapping, AdmitMappingIf, Launch, LaunchOr, CleanUpIf, OpStep, Goto,
      AnswerWith
<1>8. CASE AskForSave
  BY <1>8 DEF AskForSave, OpStep, Goto, Put
<1>9. CASE SaveReplies \/ SaveTimesOut \/ StopAfterSave
  BY <1>9 DEF SaveReplies, SaveTimesOut, StopAfterSave, Outside, OpStep, Goto, EndOp
<1>10. CASE MapperOpens \/ MapperCloses \/ MapperExits
  BY <1>10 DEF MapperOpens, MapperCloses, MapperExits, MapperStep, Put
<1>11. CASE OpenPose \/ WritePose \/ InstallPose
  BY <1>11 DEF OpenPose, WritePose, InstallPose, WorkerStep, Put, Rename
<1>12. CASE Crash
  BY <1>12 DEF Crash, EndOp
<1> QED
  BY <1>0, <1>1, <1>2, <1>3, <1>4, <1>5, <1>6, <1>7, <1>8, <1>9, <1>10, <1>11, <1>12 DEF
      Next, ManagerStep

\* Nobody else writes the temporary files, and a removal only removes them.
LEMMA TemporariesStep ==
  ASSUME MapStoreInv, [Next]_vars
  PROVE  TemporariesAreWhole'
<1> USE MapStoreAssumption DEF MapStoreInv, MapStoreTypeOK, TemporariesAreWhole, DiskTypes,
      RequestTypes, SessionTypes, Entries, Contents, disk, request, process, worker
<1>0. CASE UNCHANGED vars
  BY <1>0 DEF vars
<1>1. CASE Requests
  <2>1. ASSUME NEW m \in Maps, HandleCreateMap(m) \/ HandleDeleteMap(m) \/ HandleStartMapping(m)
        PROVE  TemporariesAreWhole'
    BY <2>1 DEF HandleCreateMap, HandleDeleteMap, HandleStartMapping, BeginOp, Listed
  <2>2. ASSUME NEW m \in Maps, HandleLoadMap(m) \/ HandleStartLocalization(m)
        PROVE  TemporariesAreWhole'
    BY <2>2 DEF HandleLoadMap, HandleStartLocalization, Listed
  <2>3. CASE HandleSaveMap
    BY <2>3 DEF HandleSaveMap, BeginOp
  <2>4. CASE HandleRecover \/ EndSession \/ requestLastPoseSave
    BY <2>4 DEF HandleRecover, EndSession, requestLastPoseSave
  <2> QED
    BY <1>1, <2>1, <2>2, <2>3, <2>4 DEF Requests
<1>2. CASE MakeDirectory
  BY <1>2 DEF MakeDirectory, Outside, OpStep, AnswerWith
<1>3. CASE OpenMetadata \/ WriteMetadata
  BY <1>3 DEF OpenMetadata, OpenMetadataAs, WriteMetadata, MetadataFails, Outside, OpStep,
      Goto, Put
<1>4. CASE InstallMetadata
  BY <1>4 DEF InstallMetadata, MetadataFails, Outside, OpStep, Goto, Put, Rename, AnswerWith
<1>5. CASE RemoveEntry \/ RemoveDirectory \/ RemoveFails
  BY <1>5 DEF RemoveEntry, RemoveDirectory, RemoveFails, Outside, OpStep, Put, AnswerWith
<1>6. CASE Reply \/ ReplyFailed
  BY <1>6 DEF Reply, ReplyFailed, Outside, OpStep, EndOp
<1>7. CASE AdmitMapping \/ Launch
  BY <1>7 DEF AdmitMapping, AdmitMappingIf, Launch, LaunchOr, CleanUpIf, OpStep, Goto,
      AnswerWith
<1>8. CASE AskForSave
  BY <1>8 DEF AskForSave, OpStep, Goto, Put
<1>9. CASE SaveReplies \/ SaveTimesOut \/ StopAfterSave
  BY <1>9 DEF SaveReplies, SaveTimesOut, StopAfterSave, Outside, OpStep, Goto, EndOp
<1>10. CASE MapperOpens \/ MapperCloses \/ MapperExits
  BY <1>10 DEF MapperOpens, MapperCloses, MapperExits, MapperStep, Put
<1>11. CASE OpenPose \/ WritePose \/ InstallPose
  BY <1>11 DEF OpenPose, WritePose, InstallPose, WorkerStep, Put, Rename
<1>12. CASE Crash
  BY <1>12 DEF Crash, EndOp
<1> QED
  BY <1>0, <1>1, <1>2, <1>3, <1>4, <1>5, <1>6, <1>7, <1>8, <1>9, <1>10, <1>11, <1>12 DEF
      Next, ManagerStep

\* A request removes only what is to be deleted or what it has made.
LEMMA PlacesStep ==
  ASSUME MapStoreInv, [Next]_vars
  PROVE  KindsAndPlaces'
<1> USE MapStoreAssumption DEF MapStoreInv, MapStoreTypeOK, KindsAndPlaces, RequestTypes,
      disk, request, process, worker
<1>0. CASE UNCHANGED vars
  BY <1>0 DEF vars
<1>1. CASE Requests
  <2>1. ASSUME NEW m \in Maps, HandleCreateMap(m) \/ HandleDeleteMap(m) \/ HandleStartMapping(m)
        PROVE  KindsAndPlaces'
    BY <2>1 DEF HandleCreateMap, HandleDeleteMap, HandleStartMapping, BeginOp, Listed
  <2>2. ASSUME NEW m \in Maps, HandleLoadMap(m) \/ HandleStartLocalization(m)
        PROVE  KindsAndPlaces'
    BY <2>2 DEF HandleLoadMap, HandleStartLocalization, Listed
  <2>3. CASE HandleSaveMap
    BY <2>3 DEF HandleSaveMap, BeginOp
  <2>4. CASE HandleRecover \/ EndSession \/ requestLastPoseSave
    BY <2>4 DEF HandleRecover, EndSession, requestLastPoseSave
  <2> QED
    BY <1>1, <2>1, <2>2, <2>3, <2>4 DEF Requests
<1>2. CASE MakeDirectory
  BY <1>2 DEF MakeDirectory, Outside, OpStep, AnswerWith
<1>3. CASE OpenMetadata \/ WriteMetadata
  BY <1>3 DEF OpenMetadata, OpenMetadataAs, WriteMetadata, MetadataFails, Outside, OpStep,
      Goto, Put
<1>4. CASE InstallMetadata
  BY <1>4 DEF InstallMetadata, MetadataFails, Outside, OpStep, Goto, Put, Rename, AnswerWith
<1>5. CASE RemoveEntry \/ RemoveDirectory \/ RemoveFails
  BY <1>5 DEF RemoveEntry, RemoveDirectory, RemoveFails, Outside, OpStep, Put, AnswerWith
<1>6. CASE Reply \/ ReplyFailed
  BY <1>6 DEF Reply, ReplyFailed, Outside, OpStep, EndOp
<1>7. CASE AdmitMapping \/ Launch
  BY <1>7 DEF AdmitMapping, AdmitMappingIf, Launch, LaunchOr, CleanUpIf, OpStep, Goto,
      AnswerWith
<1>8. CASE AskForSave
  BY <1>8 DEF AskForSave, OpStep, Goto, Put
<1>9. CASE SaveReplies \/ SaveTimesOut \/ StopAfterSave
  BY <1>9 DEF SaveReplies, SaveTimesOut, StopAfterSave, Outside, OpStep, Goto, EndOp
<1>10. CASE MapperOpens \/ MapperCloses \/ MapperExits
  BY <1>10 DEF MapperOpens, MapperCloses, MapperExits, MapperStep, Put
<1>11. CASE OpenPose \/ WritePose \/ InstallPose
  BY <1>11 DEF OpenPose, WritePose, InstallPose, WorkerStep, Put, Rename
<1>12. CASE Crash
  BY <1>12 DEF Crash, EndOp
<1> QED
  BY <1>0, <1>1, <1>2, <1>3, <1>4, <1>5, <1>6, <1>7, <1>8, <1>9, <1>10, <1>11, <1>12 DEF
      Next, ManagerStep

\* A directory is removed only by the request that works on it.
LEMMA DirectoriesStep ==
  ASSUME MapStoreInv, [Next]_vars
  PROVE  DirectoriesOfRequests'
<1> USE MapStoreAssumption DEF MapStoreInv, MapStoreTypeOK, DirectoriesOfRequests,
      DiskTypes, RequestTypes, SessionTypes, KindsAndPlaces, SessionsAlone,
      TemporariesAreWhole, Listed, Entries, Contents, disk, request, process, worker
<1>0. CASE UNCHANGED vars
  BY <1>0 DEF vars
<1>1. CASE Requests
  <2>1. ASSUME NEW m \in Maps, HandleCreateMap(m) \/ HandleDeleteMap(m) \/ HandleStartMapping(m)
        PROVE  DirectoriesOfRequests'
    BY <2>1 DEF HandleCreateMap, HandleDeleteMap, HandleStartMapping, BeginOp, Listed
  <2>2. ASSUME NEW m \in Maps, HandleLoadMap(m) \/ HandleStartLocalization(m)
        PROVE  DirectoriesOfRequests'
    BY <2>2 DEF HandleLoadMap, HandleStartLocalization, Listed
  <2>3. CASE HandleSaveMap
    BY <2>3 DEF HandleSaveMap, BeginOp
  <2>4. CASE HandleRecover \/ EndSession \/ requestLastPoseSave
    BY <2>4 DEF HandleRecover, EndSession, requestLastPoseSave
  <2> QED
    BY <1>1, <2>1, <2>2, <2>3, <2>4 DEF Requests
<1>2. CASE MakeDirectory
  BY <1>2 DEF MakeDirectory, Outside, OpStep, AnswerWith
<1>3. CASE OpenMetadata \/ WriteMetadata
  BY <1>3 DEF OpenMetadata, OpenMetadataAs, WriteMetadata, MetadataFails, Outside, OpStep,
      Goto, Put
<1>4. CASE InstallMetadata
  BY <1>4 DEF InstallMetadata, MetadataFails, Outside, OpStep, Goto, Put, Rename, AnswerWith
<1>5. CASE RemoveEntry \/ RemoveDirectory \/ RemoveFails
  BY <1>5 DEF RemoveEntry, RemoveDirectory, RemoveFails, Outside, OpStep, Put, AnswerWith
<1>6. CASE Reply \/ ReplyFailed
  BY <1>6 DEF Reply, ReplyFailed, Outside, OpStep, EndOp
<1>7. CASE AdmitMapping \/ Launch
  BY <1>7 DEF AdmitMapping, AdmitMappingIf, Launch, LaunchOr, CleanUpIf, OpStep, Goto,
      AnswerWith
<1>8. CASE AskForSave
  BY <1>8 DEF AskForSave, OpStep, Goto, Put
<1>9. CASE SaveReplies \/ SaveTimesOut \/ StopAfterSave
  BY <1>9 DEF SaveReplies, SaveTimesOut, StopAfterSave, Outside, OpStep, Goto, EndOp
<1>10. CASE MapperOpens \/ MapperCloses \/ MapperExits
  BY <1>10 DEF MapperOpens, MapperCloses, MapperExits, MapperStep, Put
<1>11. CASE OpenPose \/ WritePose \/ InstallPose
  BY <1>11 DEF OpenPose, WritePose, InstallPose, WorkerStep, Put, Rename
<1>12. CASE Crash
  BY <1>12 DEF Crash, EndOp
<1> QED
  BY <1>0, <1>1, <1>2, <1>3, <1>4, <1>5, <1>6, <1>7, <1>8, <1>9, <1>10, <1>11, <1>12 DEF
      Next, ManagerStep

\* No map of a session is removed or replaced.
LEMMA SessionsStep ==
  ASSUME MapStoreInv, [Next]_vars
  PROVE  SessionsAlone'
<1> USE MapStoreAssumption DEF MapStoreInv, MapStoreTypeOK, SessionsAlone, DiskTypes,
      RequestTypes, SessionTypes, KindsAndPlaces, DirectoriesOfRequests,
      TemporariesAreWhole, Listed, Entries, Contents, disk, request, process, worker
<1>0. CASE UNCHANGED vars
  BY <1>0 DEF vars
<1>1. CASE Requests
  <2>1. ASSUME NEW m \in Maps, HandleCreateMap(m) \/ HandleDeleteMap(m) \/ HandleStartMapping(m)
        PROVE  SessionsAlone'
    BY <2>1 DEF HandleCreateMap, HandleDeleteMap, HandleStartMapping, BeginOp, Listed
  <2>2. ASSUME NEW m \in Maps, HandleLoadMap(m) \/ HandleStartLocalization(m)
        PROVE  SessionsAlone'
    BY <2>2 DEF HandleLoadMap, HandleStartLocalization, Listed
  <2>3. CASE HandleSaveMap
    BY <2>3 DEF HandleSaveMap, BeginOp
  <2>4. CASE HandleRecover \/ EndSession \/ requestLastPoseSave
    BY <2>4 DEF HandleRecover, EndSession, requestLastPoseSave
  <2> QED
    BY <1>1, <2>1, <2>2, <2>3, <2>4 DEF Requests
<1>2. CASE MakeDirectory
  BY <1>2 DEF MakeDirectory, Outside, OpStep, AnswerWith
<1>3. CASE OpenMetadata \/ WriteMetadata
  BY <1>3 DEF OpenMetadata, OpenMetadataAs, WriteMetadata, MetadataFails, Outside, OpStep,
      Goto, Put
<1>4. CASE InstallMetadata
  BY <1>4 DEF InstallMetadata, MetadataFails, Outside, OpStep, Goto, Put, Rename, AnswerWith
<1>5. CASE RemoveEntry \/ RemoveDirectory \/ RemoveFails
  BY <1>5 DEF RemoveEntry, RemoveDirectory, RemoveFails, Outside, OpStep, Put, AnswerWith
<1>6. CASE Reply \/ ReplyFailed
  BY <1>6 DEF Reply, ReplyFailed, Outside, OpStep, EndOp
<1>7. CASE AdmitMapping \/ Launch
  BY <1>7 DEF AdmitMapping, AdmitMappingIf, Launch, LaunchOr, CleanUpIf, OpStep, Goto,
      AnswerWith
<1>8. CASE AskForSave
  BY <1>8 DEF AskForSave, OpStep, Goto, Put
<1>9. CASE SaveReplies \/ SaveTimesOut \/ StopAfterSave
  BY <1>9 DEF SaveReplies, SaveTimesOut, StopAfterSave, Outside, OpStep, Goto, EndOp
<1>10. CASE MapperOpens \/ MapperCloses \/ MapperExits
  BY <1>10 DEF MapperOpens, MapperCloses, MapperExits, MapperStep, Put
<1>11. CASE OpenPose \/ WritePose \/ InstallPose
  BY <1>11 DEF OpenPose, WritePose, InstallPose, WorkerStep, Put, Rename
<1>12. CASE Crash
  BY <1>12 DEF Crash, EndOp
<1> QED
  BY <1>0, <1>1, <1>2, <1>3, <1>4, <1>5, <1>6, <1>7, <1>8, <1>9, <1>10, <1>11, <1>12 DEF
      Next, ManagerStep

\* A saved map is not mapped again, and no late write can reach it.
LEMMA SavesStep ==
  ASSUME MapStoreInv, [Next]_vars
  PROVE  SavesInOrder'
<1> USE MapStoreAssumption DEF MapStoreInv, MapStoreTypeOK, SavesInOrder, DiskTypes,
      RequestTypes, SessionTypes, KindsAndPlaces, DirectoriesOfRequests, SessionsAlone,
      TemporariesAreWhole, Listed, Entries, Contents, disk, request, process, worker
<1>0. CASE UNCHANGED vars
  BY <1>0 DEF vars
<1>1. CASE Requests
  <2>1. ASSUME NEW m \in Maps, HandleCreateMap(m) \/ HandleDeleteMap(m) \/ HandleStartMapping(m)
        PROVE  SavesInOrder'
    BY <2>1 DEF HandleCreateMap, HandleDeleteMap, HandleStartMapping, BeginOp, Listed
  <2>2. ASSUME NEW m \in Maps, HandleLoadMap(m) \/ HandleStartLocalization(m)
        PROVE  SavesInOrder'
    BY <2>2 DEF HandleLoadMap, HandleStartLocalization, Listed
  <2>3. CASE HandleSaveMap
    BY <2>3 DEF HandleSaveMap, BeginOp
  <2>4. CASE HandleRecover \/ EndSession \/ requestLastPoseSave
    BY <2>4 DEF HandleRecover, EndSession, requestLastPoseSave
  <2> QED
    BY <1>1, <2>1, <2>2, <2>3, <2>4 DEF Requests
<1>2. CASE MakeDirectory
  BY <1>2 DEF MakeDirectory, Outside, OpStep, AnswerWith
<1>3. CASE OpenMetadata \/ WriteMetadata
  BY <1>3 DEF OpenMetadata, OpenMetadataAs, WriteMetadata, MetadataFails, Outside, OpStep,
      Goto, Put
<1>4. CASE InstallMetadata
  BY <1>4 DEF InstallMetadata, MetadataFails, Outside, OpStep, Goto, Put, Rename, AnswerWith
<1>5. CASE RemoveEntry \/ RemoveDirectory \/ RemoveFails
  BY <1>5 DEF RemoveEntry, RemoveDirectory, RemoveFails, Outside, OpStep, Put, AnswerWith
<1>6. CASE Reply \/ ReplyFailed
  BY <1>6 DEF Reply, ReplyFailed, Outside, OpStep, EndOp
<1>7. CASE AdmitMapping \/ Launch
  BY <1>7 DEF AdmitMapping, AdmitMappingIf, Launch, LaunchOr, CleanUpIf, OpStep, Goto,
      AnswerWith
<1>8. CASE AskForSave
  BY <1>8 DEF AskForSave, OpStep, Goto, Put
<1>9. CASE SaveReplies \/ SaveTimesOut \/ StopAfterSave
  BY <1>9 DEF SaveReplies, SaveTimesOut, StopAfterSave, Outside, OpStep, Goto, EndOp
<1>10. CASE MapperOpens \/ MapperCloses \/ MapperExits
  BY <1>10 DEF MapperOpens, MapperCloses, MapperExits, MapperStep, Put
<1>11. CASE OpenPose \/ WritePose \/ InstallPose
  BY <1>11 DEF OpenPose, WritePose, InstallPose, WorkerStep, Put, Rename
<1>12. CASE Crash
  BY <1>12 DEF Crash, EndOp
<1> QED
  BY <1>0, <1>1, <1>2, <1>3, <1>4, <1>5, <1>6, <1>7, <1>8, <1>9, <1>10, <1>11, <1>12 DEF
      Next, ManagerStep

LEMMA NextHolds == MapStoreInv /\ [Next]_vars => MapStoreInv'
BY DiskTypesStep, RequestTypesStep, SessionTypesStep, WholeStep, TemporariesStep, PlacesStep,
   DirectoriesStep, SessionsStep, SavesStep
DEF MapStoreInv, MapStoreTypeOK

-----------------------------------------------------------------------------
(* Theorems.                                                                 *)

\* The types are right in every reachable state.
THEOREM MapStoreTypesCorrect == Spec => []MapStoreTypeOK
<1>1. MapStoreInv => MapStoreTypeOK
  BY DEF MapStoreInv
<1> QED
  BY <1>1, InitHolds, NextHolds, PTL DEF Spec

\* No failure and no kill leaves a part of a metadata.yaml or a last_pose.yaml.
THEOREM FilesAreWhole == Spec => []InstalledFilesAreWhole
<1>1. MapStoreInv => InstalledFilesAreWhole
  BY DEF MapStoreInv
<1> QED
  BY <1>1, InitHolds, NextHolds, PTL DEF Spec

\* For any maps, a saved one is kept until its deletion is asked for.
THEOREM SavedMapsAreKept == Spec => []SavedMapIsKept
<1>1. MapStoreInv => SavedMapIsKept
  BY DEF MapStoreInv, SavesInOrder, SavedMapIsKept
<1> QED
  BY <1>1, InitHolds, NextHolds, PTL DEF Spec

-----------------------------------------------------------------------------
(* MapStore implements MapCatalog.                                           *)

\* No status changes while the directories and the metadata stay as they are.
LEMMA StatusKept ==
  ASSUME UNCHANGED dirs,
         \A m \in Maps : file'[m]["metadata"] = "none" <=> file[m]["metadata"] = "none"
  PROVE  UNCHANGED Status
BY DEF Status, Listed

\* Only the status of one name changes when nothing else does.
LEMMA StatusMoves ==
  ASSUME NEW n \in Maps, NEW to,
         \A m \in Maps \ {n} :
           /\ m \in dirs' <=> m \in dirs
           /\ file'[m]["metadata"] = "none" <=> file[m]["metadata"] = "none",
         Status'[n] = to
  PROVE  Status' = [Status EXCEPT ![n] = to]
BY DEF Status, Listed

\* Steps of the mapping process and of the worker keep the status and the request.
LEMMA OutsiderSteps ==
  ASSUME MapStoreInv, MapperOpens \/ MapperCloses \/ OpenPose \/ WritePose \/ InstallPose
  PROVE  UNCHANGED <<Status, request>>
<1> USE DEF MapStoreInv, MapStoreTypeOK, DiskTypes, SessionTypes, Put, Entries
<1>1. UNCHANGED request /\ UNCHANGED dirs
  BY DEF MapperOpens, MapperCloses, MapperStep, OpenPose, WritePose, InstallPose, WorkerStep,
     Rename, disk
<1>2. CASE MapperOpens \/ MapperCloses
  <2>1. \A m \in Maps : file'[m]["metadata"] = file[m]["metadata"]
    BY <1>2 DEF MapperOpens, MapperCloses, disk
  <2> QED
    BY <1>1, <2>1, StatusKept
<1>3. CASE OpenPose \/ WritePose \/ InstallPose
  <2>1. \A m \in Maps : file'[m]["metadata"] = file[m]["metadata"]
    BY <1>3 DEF OpenPose, WritePose, InstallPose, WorkerStep, Rename, disk
  <2> QED
    BY <1>1, <2>1, StatusKept
<1> QED
  BY <1>2, <1>3

\* Requests begin a call or change nothing the catalog sees.
LEMMA CallsBegin ==
  ASSUME MapStoreInv, Requests
  PROVE  Catalog!Begin \/ UNCHANGED <<Status, Call, made, Answer>>
<1> USE DEF disk, request, process, worker, MapStoreInv, MapStoreTypeOK, RequestTypes
<1>1. UNCHANGED Status
  BY StatusKept DEF Requests, HandleCreateMap, HandleDeleteMap, HandleStartMapping, BeginOp,
     HandleLoadMap, HandleStartLocalization, HandleSaveMap, HandleRecover, EndSession,
     requestLastPoseSave
<1>2. ASSUME NEW m \in Maps, HandleCreateMap(m) \/ HandleDeleteMap(m) \/ HandleStartMapping(m)
      PROVE  Catalog!Begin
  BY <1>1, <1>2 DEF HandleCreateMap, HandleDeleteMap, HandleStartMapping, BeginOp, Call, Answer,
     Catalog!Begin, Catalog!NoCall
<1>3. ASSUME NEW m \in Maps, HandleLoadMap(m) \/ HandleStartLocalization(m)
      PROVE  UNCHANGED <<Call, made, Answer>>
  BY <1>3 DEF HandleLoadMap, HandleStartLocalization, Call, Answer
<1>4. CASE HandleSaveMap
  BY <1>1, <1>4 DEF HandleSaveMap, BeginOp, Call, Answer
<1>5. CASE HandleRecover \/ EndSession \/ requestLastPoseSave
  BY <1>1, <1>5 DEF HandleRecover, EndSession, requestLastPoseSave, Call, Answer
<1> QED
  BY <1>1, <1>2, <1>3, <1>4, <1>5 DEF Requests

\* Each file operation of the manager is a step of the call, or none.
LEMMA CallsStep ==
  ASSUME MapStoreInv, ManagerStep
  PROVE  Catalog!Next \/ UNCHANGED <<Status, Call, made, Answer>>
<1> USE MapStoreAssumption
    DEF disk, request, process, worker, MapStoreInv, MapStoreTypeOK, DiskTypes, RequestTypes,
        KindsAndPlaces, OpStep, Outside, Goto, AnswerWith, EndOp
<1>1. CASE MakeDirectory
  <2>1. opMap \in Maps /\ Call = [op |-> kind, name |-> opMap] /\ Call # Catalog!NoCall
        /\ Answer = "none" /\ UNCHANGED Call
    BY <1>1 DEF MakeDirectory, Call, Answer, Catalog!NoCall
  <2>2. CASE made'
    <3>1. Status[opMap] = "none" /\ Status'[opMap] = "hidden"
      BY <1>1, <2>1, <2>2 DEF MakeDirectory, Status, Listed, DirectoriesOfRequests, Entries
    <3>2. Status' = [Status EXCEPT ![opMap] = "hidden"]
      BY <1>1, <2>1, <2>2, <3>1, StatusMoves DEF MakeDirectory
    <3> QED
      BY <1>1, <2>1, <2>2, <3>1, <3>2 DEF MakeDirectory, Answer, Catalog!Next, Catalog!Make,
         Catalog!Move
  <2>3. CASE ~made'
    <3>1. UNCHANGED Status
      BY <1>1, <2>3, StatusKept DEF MakeDirectory
    <3> QED
      BY <1>1, <2>1, <2>3, <3>1 DEF MakeDirectory, Answer, Catalog!Next, Catalog!Settle,
         Catalog!Answer
  <2> QED
    BY <1>1, <2>2, <2>3 DEF MakeDirectory
<1>2. CASE OpenMetadata \/ WriteMetadata
  <2>1. UNCHANGED dirs /\ \A m \in Maps : file'[m]["metadata"] = file[m]["metadata"]
    BY <1>2 DEF OpenMetadata, OpenMetadataAs, WriteMetadata, MetadataFails, Put, Entries
  <2>2. UNCHANGED Status
    BY <2>1, StatusKept
  <2> QED
    BY <1>2, <2>2 DEF OpenMetadata, OpenMetadataAs, WriteMetadata, MetadataFails, Call, Answer
<1>3. CASE InstallMetadata
  <2>1. opMap \in Maps /\ Answer = "none" /\ UNCHANGED <<Call, dirs>>
    BY <1>3 DEF InstallMetadata, MetadataFails, Put, Rename, Call, Answer
  <2>2. \A m \in Maps \ {opMap} : file'[m]["metadata"] = file[m]["metadata"]
    BY <1>3, <2>1 DEF InstallMetadata, Put, Rename, Entries
  <2>3. CASE Rename(opMap, "metadata.tmp", "metadata") /\ kind = "save" /\ Goto("stopSaved")
    <3>1. file[opMap]["metadata"] # "none" /\ file'[opMap]["metadata"] # "none"
      BY <1>3, <2>1, <2>3
      DEF InstallMetadata, Rename, Entries, TemporariesAreWhole, DirectoriesOfRequests, Listed
    <3>2. UNCHANGED Status
      BY <2>1, <2>2, <3>1, StatusKept
    <3> QED
      BY <1>3, <2>1, <2>3, <3>2 DEF InstallMetadata, Answer
  <2>4. CASE /\ Rename(opMap, "metadata.tmp", "metadata")
             /\ (kind = "create" /\ AnswerWith("ok")) \/ (kind = "start" /\ Goto("admit"))
    <3>1. made /\ Status[opMap] = "hidden" /\ Status'[opMap] = "listed"
      BY <1>3, <2>1, <2>4
      DEF InstallMetadata, Rename, Entries, TemporariesAreWhole, DirectoriesOfRequests, Status,
          Listed
    <3>2. Status' = [Status EXCEPT ![opMap] = "listed"]
      BY <2>1, <2>2, <3>1, StatusMoves
    <3>3. Call # Catalog!NoCall /\ Call.name = opMap /\ Call.op = kind
      BY <2>1, <2>4 DEF Call, Catalog!NoCall
    <3> QED
      BY <1>3, <2>1, <2>4, <3>1, <3>2, <3>3
      DEF InstallMetadata, Answer, Catalog!Next, Catalog!Publish, Catalog!Move, Catalog!Answer
  <2>5. CASE (Put(opMap, "metadata.tmp", "none") \/ UNCHANGED disk) /\ MetadataFails
    <3>1. UNCHANGED Status
      BY <2>1, <2>2, <2>5, StatusKept DEF Put, Entries, disk
    <3> QED
      BY <1>3, <2>1, <2>5, <3>1 DEF MetadataFails, Answer
  <2> QED
    BY <1>3, <2>3, <2>4, <2>5 DEF InstallMetadata
<1>4. CASE RemoveEntry
  <2>1. opMap \in Maps /\ Answer = "none" /\ UNCHANGED <<Call, made, Answer, dirs>>
    BY <1>4 DEF RemoveEntry, Put, Call, Answer
  <2>2. PICK e \in Entries : file[opMap][e] # "none" /\ file' = [file EXCEPT ![opMap][e] = "none"]
    BY <1>4 DEF RemoveEntry, Put
  <2>3. CASE e # "metadata"
    <3>1. UNCHANGED Status
      BY <2>1, <2>2, <2>3, StatusKept DEF Entries
    <3> QED
      BY <2>1, <3>1
  <2>4. CASE e = "metadata"
    <3>1. Status[opMap] = "listed" /\ Status'[opMap] = "hidden"
      BY <1>4, <2>1, <2>2, <2>4 DEF RemoveEntry, DirectoriesOfRequests, Status, Listed, Entries
    <3>2. Status' = [Status EXCEPT ![opMap] = "hidden"]
      BY <2>1, <2>2, <2>4, <3>1, StatusMoves DEF Entries
    <3>3. Call # Catalog!NoCall /\ Call.name = opMap /\ Call.op = kind
      BY <1>4, <2>1 DEF RemoveEntry, Call, Catalog!NoCall
    <3> QED
      BY <1>4, <2>1, <3>1, <3>2, <3>3
      DEF RemoveEntry, Catalog!Next, Catalog!Hide, Catalog!MayRemove, Catalog!Move
  <2> QED
    BY <2>3, <2>4
<1>5. CASE RemoveDirectory
  <2>1. opMap \in Maps /\ Answer = "none" /\ UNCHANGED Call
    BY <1>5 DEF RemoveDirectory, Call, Answer
  <2>2. Status[opMap] = "hidden" /\ Status'[opMap] = "none"
    BY <1>5, <2>1 DEF RemoveDirectory, DirectoriesOfRequests, Status, Listed, Entries
  <2>3. Status' = [Status EXCEPT ![opMap] = "none"]
    BY <1>5, <2>1, <2>2, StatusMoves DEF RemoveDirectory
  <2>4. Call # Catalog!NoCall /\ Call.name = opMap /\ Call.op = kind
    BY <1>5, <2>1 DEF RemoveDirectory, Call, Catalog!NoCall
  <2> QED
    BY <1>5, <2>1, <2>2, <2>3, <2>4
    DEF RemoveDirectory, Answer, Catalog!Next, Catalog!Remove, Catalog!MayRemove, Catalog!Move,
        Catalog!Answer
<1>6. CASE RemoveFails
  <2>1. UNCHANGED Status
    BY <1>6, StatusKept DEF RemoveFails
  <2> QED
    BY <1>6, <2>1 DEF RemoveFails, Call, Answer, Catalog!Next, Catalog!Settle, Catalog!Answer,
       Catalog!NoCall
<1>7. CASE Reply \/ ReplyFailed
  <2>1. UNCHANGED Status
    BY <1>7, StatusKept DEF Reply, ReplyFailed
  <2> QED
    BY <1>7, <2>1 DEF Reply, ReplyFailed, Call, Answer, Catalog!Next, Catalog!End, Catalog!NoCall
<1>8. CASE AdmitMapping \/ Launch
  <2>1. UNCHANGED <<Status, Call>> /\ Call # Catalog!NoCall /\ Call.op = "start"
        /\ Call.name = opMap /\ Answer = "none"
    BY <1>8, StatusKept DEF AdmitMapping, AdmitMappingIf, Launch, LaunchOr, CleanUpIf, Call,
       Answer, Catalog!NoCall
  <2>2. Status[opMap] = "listed"
    BY <1>8 DEF AdmitMapping, AdmitMappingIf, Launch, LaunchOr, DirectoriesOfRequests, Status,
       Listed
  <2>3. UNCHANGED <<made, Answer>> \/ (made' = FALSE /\ Answer' \in {"ok", "failed"})
    BY <1>8 DEF AdmitMapping, AdmitMappingIf, Launch, LaunchOr, CleanUpIf, Answer
  <2> QED
    BY <2>1, <2>2, <2>3 DEF Catalog!Next, Catalog!Settle, Catalog!Answer
<1>9. CASE AskForSave \/ SaveReplies \/ SaveTimesOut \/ StopAfterSave
  <2>1. UNCHANGED dirs /\ \A m \in Maps : file'[m]["metadata"] = file[m]["metadata"]
    BY <1>9 DEF AskForSave, SaveReplies, SaveTimesOut, StopAfterSave, Put, Entries
  <2>2. UNCHANGED Status
    BY <2>1, StatusKept
  <2>3. kind = "save" /\ kind' \in {"save", "none"} /\ made = FALSE /\ made' = FALSE
    BY <1>9 DEF AskForSave, SaveReplies, SaveTimesOut, StopAfterSave
  <2>4. UNCHANGED <<Call, Answer>>
    BY <1>9, <2>3 DEF AskForSave, SaveReplies, SaveTimesOut, StopAfterSave, Call, Answer
  <2> QED
    BY <2>2, <2>3, <2>4
<1> QED
  BY <1>1, <1>2, <1>3, <1>4, <1>5, <1>6, <1>7, <1>8, <1>9 DEF ManagerStep

\* The file operations keep what MapCatalog promises: a killed creation leaves a
\* hidden name, only a deletion or the call that made a map removes it, and a
\* start that succeeds has a listed map.
THEOREM MapCatalogImplemented == Spec => ImplementsMapCatalog
<1>1. Init => Catalog!Init
  BY DEF Init, Catalog!Init, Catalog!NoCall, Status, Call, Answer, Listed
<1>2. ASSUME MapStoreInv, [Next]_vars PROVE [Catalog!Next]_(Catalog!vars)
  <2>1. CASE UNCHANGED vars
    BY <2>1, StatusKept DEF vars, disk, request, Call, Answer, Catalog!vars
  <2>2. CASE Requests
    BY <1>2, <2>2, CallsBegin DEF Catalog!Next, Catalog!vars
  <2>3. CASE ManagerStep
    BY <1>2, <2>3, CallsStep DEF Catalog!vars
  <2>4. CASE MapperOpens \/ MapperCloses \/ OpenPose \/ WritePose \/ InstallPose
    BY <1>2, <2>4, OutsiderSteps DEF request, Call, Answer, Catalog!vars
  <2>5. CASE MapperExits
    BY <2>5, StatusKept DEF MapperExits, disk, request, Call, Answer, Catalog!vars
  <2>6. CASE Crash
    BY <2>6, StatusKept DEF Crash, EndOp, disk, Call, Answer, Catalog!Next, Catalog!End,
       Catalog!NoCall
  <2> QED
    BY <1>2, <2>1, <2>2, <2>3, <2>4, <2>5, <2>6 DEF Next
<1> QED
  BY <1>1, <1>2, InitHolds, NextHolds, PTL DEF Spec, ImplementsMapCatalog, Catalog!Spec

-----------------------------------------------------------------------------
(* Requests end: each has a bounded number of file operations, although a    *)
(* mapping process and the worker may write into a directory that is being   *)
(* removed.                                                                  *)

PresentIn(d, e) == IF d[e] # "none" THEN 1 ELSE 0

EntriesIn(d) ==
  PresentIn(d, "metadata") + PresentIn(d, "metadata.tmp") + PresentIn(d, "pose")
    + PresentIn(d, "pose.tmp") + PresentIn(d, "pcd")

ToRemove == EntriesIn(file[opMap])

\* What may still be written there: by a mapper that was asked, and by the worker.
MayStillCome ==
  (IF dump = "asked" /\ mapper = opMap THEN 1 ELSE 0)
    + (IF wPc = "open" /\ wMap = opMap THEN 1 ELSE 0)

RequestRank ==
  CASE pc = "idle" -> 0
    [] pc \in {"ok", "failed", "stopSaved", "stopFailed"} -> 1
    [] pc = "remove" -> 2 + ToRemove + MayStillCome
    [] pc = "launch" -> 10
    [] pc = "admit" -> 11
    [] pc = "rename" -> 12
    [] pc = "write" -> 13
    [] pc = "open" -> 14
    [] pc \in {"mkdir", "await"} -> 15
    [] OTHER -> 16

\* Without any fairness: every step of the manager takes its request nearer its
\* end, and no step of anybody else takes it back.
RequestIsBounded ==
  [][pc # "idle" => IF ManagerStep THEN RequestRank' < RequestRank
                                   ELSE RequestRank' <= RequestRank]_vars

LEMMA EntriesBound == \A d : EntriesIn(d) \in 0..5
BY DEF EntriesIn, PresentIn

\* Writing to an entry adds at most itself, and nothing where one was.
LEMMA EntriesPut ==
  ASSUME NEW d \in [Entries -> Contents], NEW e \in Entries, NEW c \in Contents
  PROVE  /\ EntriesIn([d EXCEPT ![e] = c]) <= EntriesIn(d) + 1
         /\ c = "none" \/ d[e] # "none" => EntriesIn([d EXCEPT ![e] = c]) <= EntriesIn(d)
         /\ c = "none" /\ d[e] # "none" => EntriesIn([d EXCEPT ![e] = c]) < EntriesIn(d)
<1> DEFINE t == [d EXCEPT ![e] = c]
<1>1. \A f \in Entries : t[f] = IF f = e THEN c ELSE d[f]
  OBVIOUS
<1> HIDE DEF t
<1>2. \A f \in Entries \ {e} : PresentIn(t, f) = PresentIn(d, f)
  BY <1>1 DEF PresentIn
<1>3. /\ PresentIn(t, e) = IF c = "none" THEN 0 ELSE 1
      /\ PresentIn(d, e) = IF d[e] = "none" THEN 0 ELSE 1
      /\ \A f : PresentIn(d, f) \in 0..1
  BY <1>1 DEF PresentIn
<1>4. EntriesIn(t) + PresentIn(d, e) = EntriesIn(d) + PresentIn(t, e)
  BY <1>2, <1>3 DEF EntriesIn, Entries
<1> QED
  BY <1>3, <1>4, EntriesBound DEF t

LEMMA EntriesRename ==
  ASSUME NEW d \in [Entries -> Contents], d["pose.tmp"] # "none"
  PROVE  EntriesIn([d EXCEPT !["pose"] = d["pose.tmp"], !["pose.tmp"] = "none"]) <= EntriesIn(d)
<1> DEFINE t == [d EXCEPT !["pose"] = d["pose.tmp"], !["pose.tmp"] = "none"]
<1>1. /\ t["pose.tmp"] = "none"
      /\ \A f \in {"metadata", "metadata.tmp", "pcd"} : t[f] = d[f]
  BY DEF Entries
<1> HIDE DEF t
<1>2. /\ PresentIn(t, "pose.tmp") = 0 /\ PresentIn(d, "pose.tmp") = 1
      /\ \A f \in {"metadata", "metadata.tmp", "pcd"} : PresentIn(t, f) = PresentIn(d, f)
      /\ PresentIn(t, "pose") \in 0..1 /\ PresentIn(d, "pose") \in 0..1
      /\ \A f : PresentIn(d, f) \in 0..1
  BY <1>1 DEF PresentIn
<1> QED
  BY <1>2 DEF EntriesIn, t

LEMMA RankIsBounded ==
  MapStoreTypeOK => RequestRank \in 0..16 /\ (RequestRank = 0 <=> pc = "idle")
BY EntriesBound DEF MapStoreTypeOK, RequestTypes, RequestRank, ToRemove, MayStillCome

\* A removal has some entries before it, and possibly some still to come.
LEMMA RemovalIsBounded ==
  /\ ToRemove \in 0..5 /\ MayStillCome \in 0..2
  /\ ToRemove' \in 0..5 /\ MayStillCome' \in 0..2
<1>1. ToRemove \in 0..5 /\ ToRemove' \in 0..5
  BY EntriesBound DEF ToRemove
<1> QED
  BY <1>1 DEF MayStillCome

LEMMA ManagerDescends ==
  ASSUME MapStoreInv, ManagerStep
  PROVE  RequestRank' < RequestRank
<1> USE DEF MapStoreInv, MapStoreTypeOK, RequestTypes, KindsAndPlaces, OpStep
<1>1. ASSUME RemoveEntry
      PROVE  RequestRank' < RequestRank
  <2>1. PICK e \in Entries : file[opMap][e] # "none" /\ Put(opMap, e, "none")
    BY <1>1 DEF RemoveEntry
  <2>2. opMap \in Maps /\ file \in [Maps -> [Entries -> Contents]]
    BY <1>1 DEF RemoveEntry, DiskTypes
  <2>3. file'[opMap] = [file[opMap] EXCEPT ![e] = "none"] /\ opMap' = opMap
    BY <1>1, <2>1, <2>2 DEF RemoveEntry, Put, request
  <2>4. ToRemove' < ToRemove
    BY <2>1, <2>2, <2>3, EntriesPut DEF ToRemove, Contents
  <2>5. MayStillCome' = MayStillCome /\ pc = "remove" /\ pc' = "remove"
    BY <1>1, <2>3 DEF RemoveEntry, Outside, MayStillCome, request, process, worker
  <2> QED
    BY <2>4, <2>5, RemovalIsBounded DEF RequestRank
<1>2. ASSUME ~RemoveEntry
      PROVE  \/ pc = "mkdir" /\ pc' \in {"open", "failed"}
             \/ pc = "open" /\ pc' \in {"write", "remove", "stopFailed"}
             \/ pc = "write" /\ pc' \in {"rename", "remove", "stopFailed"}
             \/ pc = "rename" /\ pc' \in {"ok", "admit", "stopSaved", "remove", "stopFailed"}
             \/ pc = "remove" /\ pc' \in {"ok", "failed"}
             \/ pc = "admit" /\ pc' \in {"launch", "failed"}
             \/ pc = "launch" /\ pc' \in {"ok", "remove", "failed"}
             \/ pc = "ask" /\ pc' \in {"await", "stopFailed"}
             \/ pc = "await" /\ pc' \in {"open", "stopFailed"}
             \/ pc \in {"ok", "failed", "stopSaved", "stopFailed"} /\ pc' = "idle"
  BY <1>2 DEF ManagerStep, MakeDirectory, OpenMetadata, OpenMetadataAs, WriteMetadata,
     InstallMetadata, MetadataFails, RemoveDirectory, RemoveFails, Reply, ReplyFailed,
     AdmitMapping, AdmitMappingIf, Launch, LaunchOr, CleanUpIf, AskForSave, SaveReplies,
     SaveTimesOut, StopAfterSave, Goto, AnswerWith, EndOp
<1> QED
  BY <1>1, <1>2, RemovalIsBounded DEF RequestRank

LEMMA SumsOrder ==
  ASSUME NEW a \in Nat, NEW b \in Nat, NEW c \in Nat, NEW d \in Nat
  PROVE  /\ c <= a /\ d <= b => c + d <= a + b
         /\ c <= a + 1 /\ d + 1 = b => c + d <= a + b
OBVIOUS

\* Whoever writes into a directory that is being removed, uses up what may come.
LEMMA OutsidersLeaveLess ==
  ASSUME MapStoreInv, pc # "idle",
         \/ MapperOpens \/ MapperCloses \/ MapperExits
         \/ OpenPose \/ WritePose \/ InstallPose
  PROVE  ToRemove' + MayStillCome' <= ToRemove + MayStillCome
<1> USE DEF MapStoreInv, MapStoreTypeOK, DiskTypes, RequestTypes, SessionTypes
<1>0. /\ ToRemove \in Nat /\ MayStillCome \in Nat /\ ToRemove' \in Nat /\ MayStillCome' \in Nat
  BY RemovalIsBounded
<1>1. /\ opMap \in Maps /\ opMap' = opMap /\ file \in [Maps -> [Entries -> Contents]]
      /\ file[opMap] \in [Entries -> Contents]
  BY DEF MapperOpens, MapperCloses, MapperExits, MapperStep, OpenPose, WritePose, InstallPose,
     WorkerStep, request
<1>2. ASSUME NEW m \in Maps, NEW e \in Entries, NEW c \in Contents, Put(m, e, c)
      PROVE  /\ ToRemove' <= ToRemove + 1
             /\ m # opMap \/ c = "none" \/ file[m][e] # "none" => ToRemove' <= ToRemove
  <2>1. CASE m # opMap
    <3>1. file'[opMap] = file[opMap]
      BY <1>1, <1>2, <2>1 DEF Put
    <3>2. ToRemove' = ToRemove
      BY <1>1, <3>1 DEF ToRemove
    <3> QED
      BY <1>0, <3>2
  <2>2. CASE m = opMap
    <3>1. file'[opMap] = [file[opMap] EXCEPT ![e] = c]
      BY <1>1, <1>2, <2>2 DEF Put
    <3> QED
      BY <1>1, <2>2, <3>1, EntriesPut DEF ToRemove
  <2> QED
    BY <2>1, <2>2
<1>3. ASSUME UNCHANGED disk
      PROVE  ToRemove' <= ToRemove
  <2>1. ToRemove' = ToRemove
    BY <1>1, <1>3 DEF disk, ToRemove
  <2> QED
    BY <1>0, <2>1
<1> USE DEF Entries, Contents
<1>4. CASE MapperOpens
  <2>1. mapper \in Maps /\ mapper' = mapper /\ UNCHANGED worker
    BY <1>4 DEF MapperOpens, MapperStep
  <2>2. CASE Put(mapper, "pcd", "part") /\ dump' = "writing"
    <3>1. /\ mapper = opMap => MayStillCome' + 1 = MayStillCome
          /\ mapper # opMap => MayStillCome' <= MayStillCome
      BY <1>1, <1>4, <2>1, <2>2 DEF MayStillCome, MapperOpens, worker
    <3> QED
      BY <1>0, <1>2, <2>1, <2>2, <3>1, SumsOrder
  <2>3. CASE dump' = "idle" /\ UNCHANGED disk
    <3>1. MayStillCome' <= MayStillCome
      BY <1>1, <1>4, <2>1, <2>3 DEF MayStillCome, MapperOpens, worker
    <3> QED
      BY <1>0, <1>3, <2>3, <3>1, SumsOrder
  <2> QED
    BY <1>4, <2>2, <2>3 DEF MapperOpens
<1>5. CASE MapperCloses
  <2>1. /\ mapper \in Maps /\ mapper' = mapper /\ UNCHANGED worker
        /\ dump = "writing" /\ dump' \in {"done", "idle"}
    BY <1>5 DEF MapperCloses, MapperStep
  <2>2. MayStillCome' <= MayStillCome
    BY <1>1, <2>1 DEF MayStillCome, worker
  <2>3. ToRemove' <= ToRemove
    <3>1. CASE UNCHANGED disk
      BY <1>3, <3>1
    <3>2. CASE Put(mapper, "pcd", IF file[mapper]["pcd"] = "none" THEN "none" ELSE "whole")
      BY <1>2, <2>1, <3>2
    <3> QED
      BY <1>5, <3>1, <3>2 DEF MapperCloses
  <2> QED
    BY <1>0, <2>2, <2>3, SumsOrder
<1>6. CASE MapperExits
  <2>1. MayStillCome' <= MayStillCome
    BY <1>1, <1>6 DEF MapperExits, MayStillCome, worker
  <2>2. ToRemove' <= ToRemove
    BY <1>3, <1>6 DEF MapperExits
  <2> QED
    BY <1>0, <2>1, <2>2, SumsOrder
<1>7. CASE OpenPose
  <2>1. wMap \in Maps /\ wPc = "open" /\ UNCHANGED <<mapper, dump>>
    BY <1>7 DEF OpenPose, WorkerStep, process
  <2>2. CASE WorkerStep("open", "write") /\ Put(wMap, "pose.tmp", "part")
    <3>1. /\ wMap = opMap => MayStillCome' + 1 = MayStillCome
          /\ wMap # opMap => MayStillCome' <= MayStillCome
      BY <1>1, <2>1, <2>2 DEF MayStillCome, WorkerStep
    <3> QED
      BY <1>0, <1>2, <2>1, <2>2, <3>1, SumsOrder
  <2>3. CASE WorkerStep("open", "idle") /\ UNCHANGED disk
    <3>1. MayStillCome' <= MayStillCome
      BY <1>1, <2>1, <2>3 DEF MayStillCome, WorkerStep
    <3> QED
      BY <1>0, <1>3, <2>3, <3>1, SumsOrder
  <2> QED
    BY <1>7, <2>2, <2>3 DEF OpenPose
<1>8. CASE WritePose
  <2>1. wMap \in Maps /\ wPc = "write" /\ wPc' \in {"rename", "idle"} /\ UNCHANGED <<mapper, dump>>
    BY <1>8 DEF WritePose, WorkerStep, process
  <2>2. MayStillCome' <= MayStillCome
    BY <1>1, <2>1 DEF MayStillCome
  <2>3. ToRemove' <= ToRemove
    <3>1. CASE UNCHANGED disk
      BY <1>3, <3>1
    <3>2. CASE Put(wMap, "pose.tmp", IF file[wMap]["pose.tmp"] = "none" THEN "none" ELSE "whole")
      BY <1>2, <2>1, <3>2
    <3> QED
      BY <1>8, <3>1, <3>2 DEF WritePose
  <2> QED
    BY <1>0, <2>2, <2>3, SumsOrder
<1>9. CASE InstallPose
  <2>1. wMap \in Maps /\ wPc = "rename" /\ wPc' = "idle" /\ UNCHANGED <<mapper, dump>>
    BY <1>9 DEF InstallPose, WorkerStep, process
  <2>2. MayStillCome' <= MayStillCome
    BY <1>1, <2>1 DEF MayStillCome
  <2>3. ToRemove' <= ToRemove
    <3>1. CASE Put(wMap, "pose.tmp", "none")
      BY <1>2, <2>1, <3>1
    <3>2. CASE file[wMap]["pose.tmp"] # "none" /\ Rename(wMap, "pose.tmp", "pose")
      <4>1. CASE wMap = opMap
        <5>1. file'[opMap] = [file[opMap] EXCEPT !["pose"] = file[opMap]["pose.tmp"],
                                                !["pose.tmp"] = "none"]
          BY <1>1, <3>2, <4>1 DEF Rename
        <5> QED
          BY <1>1, <3>2, <4>1, <5>1, EntriesRename DEF ToRemove
      <4>2. CASE wMap # opMap
        <5>1. file'[opMap] = file[opMap]
          BY <1>1, <3>2, <4>2 DEF Rename
        <5>2. ToRemove' = ToRemove
          BY <1>1, <5>1 DEF ToRemove
        <5> QED
          BY <1>0, <5>2
      <4> QED
        BY <4>1, <4>2
    <3>3. CASE UNCHANGED disk
      <4>1. ToRemove' = ToRemove
        BY <2>1, <3>3, <1>9 DEF ToRemove, disk, InstallPose, WorkerStep, request
      <4> QED
        BY <1>0, <4>1
    <3> QED
      BY <1>9, <3>1, <3>2, <3>3 DEF InstallPose
  <2> QED
    BY <1>0, <2>2, <2>3, SumsOrder
<1> QED
  BY <1>4, <1>5, <1>6, <1>7, <1>8, <1>9

LEMMA OthersKeepRank ==
  ASSUME MapStoreInv, [Next]_vars, ~ManagerStep, pc # "idle"
  PROVE  RequestRank' <= RequestRank
<1> USE DEF MapStoreInv, MapStoreTypeOK, RequestTypes
<1>1. CASE Crash
  BY <1>1, RankIsBounded DEF Crash, EndOp, RequestRank
<1>2. CASE UNCHANGED vars
  <2>1. pc' = pc /\ ToRemove' = ToRemove /\ MayStillCome' = MayStillCome
    BY <1>2 DEF vars, disk, request, process, worker, ToRemove, MayStillCome
  <2> QED
    BY <2>1, RemovalIsBounded DEF RequestRank
<1>3. CASE Requests
  <2>1. requestLastPoseSave
    BY <1>3 DEF Requests, HandleCreateMap, HandleDeleteMap, HandleStartMapping, HandleLoadMap,
       HandleStartLocalization, HandleSaveMap, HandleRecover, EndSession, BeginOp
  <2>2. pc' = pc /\ pc # "remove"
    BY <2>1 DEF requestLastPoseSave, request, SessionsAlone, KindsAndPlaces
  <2> QED
    BY <2>2 DEF RequestRank
<1>4. CASE \/ MapperOpens \/ MapperCloses \/ MapperExits
           \/ OpenPose \/ WritePose \/ InstallPose
  <2>1. pc' = pc
    BY <1>4 DEF MapperOpens, MapperCloses, MapperExits, MapperStep, OpenPose, WritePose,
       InstallPose, WorkerStep, request
  <2> QED
    BY <1>4, <2>1, OutsidersLeaveLess, RemovalIsBounded DEF RequestRank
<1> QED
  BY <1>1, <1>2, <1>3, <1>4 DEF Next

\* For any maps: a request comes to its answer within sixteen steps of the manager,
\* whatever a mapping process that outlived its stop and the worker write into its
\* directory meanwhile, so that no deletion holds operation_in_progress_ for ever.
THEOREM RequestsAreBounded ==
  Spec => [](RequestRank \in 0..16 /\ (RequestRank = 0 <=> pc = "idle")) /\ RequestIsBounded
<1>1. MapStoreInv /\ [Next]_vars
        => [pc # "idle" => IF ManagerStep THEN RequestRank' < RequestRank
                                          ELSE RequestRank' <= RequestRank]_vars
  BY ManagerDescends, OthersKeepRank
<1>2. Spec => []MapStoreInv
  BY InitHolds, NextHolds, PTL DEF Spec
<1>3. MapStoreInv => MapStoreTypeOK
  BY DEF MapStoreInv
<1> QED
  BY <1>1, <1>2, <1>3, RankIsBounded, PTL DEF Spec, RequestIsBounded

==============================================================================
