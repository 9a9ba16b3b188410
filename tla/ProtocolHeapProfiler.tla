------------------------ MODULE ProtocolHeapProfiler ------------------------
(*****************************************************************************)
(* The HeapProfiler domain of the debugging protocol: heap snapshots and      *)
(* allocation tracking. The session wires its commands to an agent. A type is *)
(* the fields its fromValue reads and its toValue writes, in their order; its *)
(* builder is the fields whose setters build() demands; a command is the      *)
(* parameters its handler reads and the results it writes; a notification is  *)
(* the fields of the message that the front end object sends.                 *)
(*****************************************************************************)
EXTENDS WireTypes

(* Types *)
SamplingHeapProfileNode == <<Req("callFrame", Ref("Runtime", "CallFrame")),
                             Req("selfSize", Num),
                             Req("children", ArrayOf(Ref("HeapProfiler", "SamplingHeapProfileNode")))>>
SamplingHeapProfile == <<Req("head", Ref("HeapProfiler", "SamplingHeapProfileNode"))>>

(* Builders of the types *)
SamplingHeapProfileNodeBuilder == {"callFrame", "selfSize", "children"}
SamplingHeapProfileBuilder == {"head"}

(* Commands: parameters and results *)
addInspectedHeapObject == Sync(<<Req("heapObjectId", Str)>>, <<>>)
collectGarbage == Sync(<<>>, <<>>)
disable == Sync(<<>>, <<>>)
enable == Sync(<<>>, <<>>)
getHeapObjectId == Sync(<<Req("objectId", Str)>>, <<Req("heapSnapshotObjectId", Str)>>)
getObjectByHeapObjectId == Sync(<<Req("objectId", Str), Opt("objectGroup", Str)>>,
                                <<Req("result", Ref("Runtime", "RemoteObject"))>>)
getSamplingProfile == Sync(<<>>,
                           <<Req("profile", Ref("HeapProfiler", "SamplingHeapProfile"))>>)
startSampling == Sync(<<Opt("samplingInterval", Num)>>, <<>>)
startTrackingHeapObjects == Sync(<<Opt("trackAllocations", Bool)>>, <<>>)
stopSampling == Sync(<<>>, <<Req("profile", Ref("HeapProfiler", "SamplingHeapProfile"))>>)
stopTrackingHeapObjects == Sync(<<Opt("reportProgress", Bool)>>, <<>>)
takeHeapSnapshot == Sync(<<Opt("reportProgress", Bool)>>, <<>>)

(* Notifications: the message, its builder and what the front end object sets *)
AddHeapSnapshotChunkNotification == <<Req("chunk", Str)>>
HeapStatsUpdateNotification == <<Req("statsUpdate", ArrayOf(Int32))>>
LastSeenObjectIdNotification == <<Req("lastSeenObjectId", Int32), Req("timestamp", Num)>>
ReportHeapSnapshotProgressNotification == <<Req("done", Int32), Req("total", Int32),
                                            Opt("finished", Bool)>>
AddHeapSnapshotChunkNotificationBuilder == {"chunk"}
HeapStatsUpdateNotificationBuilder == {"statsUpdate"}
LastSeenObjectIdNotificationBuilder == {"lastSeenObjectId", "timestamp"}
ReportHeapSnapshotProgressNotificationBuilder == {"done", "total"}
addHeapSnapshotChunk == Event("AddHeapSnapshotChunkNotification", {"chunk"}, {})
heapStatsUpdate == Event("HeapStatsUpdateNotification", {"statsUpdate"}, {})
lastSeenObjectId == Event("LastSeenObjectIdNotification",
                          {"lastSeenObjectId", "timestamp"},
                          {})
reportHeapSnapshotProgress == Event("ReportHeapSnapshotProgressNotification",
                                    {"done", "total"},
                                    {"finished"})
resetProfiles == EmptyEvent

------------------------------------------------------------------------------
(* The tables of the domain *)
Types == [SamplingHeapProfileNode |-> SamplingHeapProfileNode,
          SamplingHeapProfile |-> SamplingHeapProfile,
          AddHeapSnapshotChunkNotification |-> AddHeapSnapshotChunkNotification,
          HeapStatsUpdateNotification |-> HeapStatsUpdateNotification,
          LastSeenObjectIdNotification |-> LastSeenObjectIdNotification,
          ReportHeapSnapshotProgressNotification |-> ReportHeapSnapshotProgressNotification]
Builders == [SamplingHeapProfileNode |-> SamplingHeapProfileNodeBuilder,
             SamplingHeapProfile |-> SamplingHeapProfileBuilder,
             AddHeapSnapshotChunkNotification |-> AddHeapSnapshotChunkNotificationBuilder,
             HeapStatsUpdateNotification |-> HeapStatsUpdateNotificationBuilder,
             LastSeenObjectIdNotification |-> LastSeenObjectIdNotificationBuilder,
             ReportHeapSnapshotProgressNotification |-> ReportHeapSnapshotProgressNotificationBuilder]
Commands == [addInspectedHeapObject |-> addInspectedHeapObject,
             collectGarbage |-> collectGarbage, disable |-> disable, enable |-> enable,
             getHeapObjectId |-> getHeapObjectId,
             getObjectByHeapObjectId |-> getObjectByHeapObjectId,
             getSamplingProfile |-> getSamplingProfile, startSampling |-> startSampling,
             startTrackingHeapObjects |-> startTrackingHeapObjects,
             stopSampling |-> stopSampling,
             stopTrackingHeapObjects |-> stopTrackingHeapObjects,
             takeHeapSnapshot |-> takeHeapSnapshot]
Events == [addHeapSnapshotChunk |-> addHeapSnapshotChunk,
           heapStatsUpdate |-> heapStatsUpdate, lastSeenObjectId |-> lastSeenObjectId,
           reportHeapSnapshotProgress |-> reportHeapSnapshotProgress,
           resetProfiles |-> resetProfiles]
==============================================================================
