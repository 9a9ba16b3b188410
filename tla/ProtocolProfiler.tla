-------------------------- MODULE ProtocolProfiler --------------------------
(*****************************************************************************)
(* The Profiler domain of the debugging protocol: CPU profiles and coverage.  *)
(* The session wires its commands to an agent. A type is the fields its       *)
(* fromValue reads and its toValue writes, in their order; its builder is the *)
(* fields whose setters build() demands; a command is the parameters its      *)
(* handler reads and the results it writes; a notification is the fields of   *)
(* the message that the front end object sends.                               *)
(*****************************************************************************)
EXTENDS WireTypes

(* Types *)
ProfileNode == <<Req("id", Int32), Req("callFrame", Ref("Runtime", "CallFrame")),
                 Opt("hitCount", Int32), Opt("children", ArrayOf(Int32)),
                 Opt("deoptReason", Str),
                 Opt("positionTicks", ArrayOf(Ref("Profiler", "PositionTickInfo")))>>
Profile == <<Req("nodes", ArrayOf(Ref("Profiler", "ProfileNode"))), Req("startTime", Num),
             Req("endTime", Num), Opt("samples", ArrayOf(Int32)),
             Opt("timeDeltas", ArrayOf(Int32))>>
PositionTickInfo == <<Req("line", Int32), Req("ticks", Int32)>>
CoverageRange == <<Req("startOffset", Int32), Req("endOffset", Int32), Req("count", Int32)>>
FunctionCoverage == <<Req("functionName", Str),
                      Req("ranges", ArrayOf(Ref("Profiler", "CoverageRange"))),
                      Req("isBlockCoverage", Bool)>>
ScriptCoverage == <<Req("scriptId", Str), Req("url", Str),
                    Req("functions", ArrayOf(Ref("Profiler", "FunctionCoverage")))>>
TypeObject == <<Req("name", Str)>>
TypeProfileEntry == <<Req("offset", Int32),
                      Req("types", ArrayOf(Ref("Profiler", "TypeObject")))>>
ScriptTypeProfile == <<Req("scriptId", Str), Req("url", Str),
                       Req("entries", ArrayOf(Ref("Profiler", "TypeProfileEntry")))>>

(* Builders of the types *)
ProfileNodeBuilder == {"id", "callFrame"}
ProfileBuilder == {"nodes", "startTime", "endTime"}
PositionTickInfoBuilder == {"line", "ticks"}
CoverageRangeBuilder == {"startOffset", "endOffset", "count"}
FunctionCoverageBuilder == {"functionName", "ranges", "isBlockCoverage"}
ScriptCoverageBuilder == {"scriptId", "url", "functions"}
TypeObjectBuilder == {"name"}
TypeProfileEntryBuilder == {"offset", "types"}
ScriptTypeProfileBuilder == {"scriptId", "url", "entries"}

(* Commands: parameters and results *)
disable == Sync(<<>>, <<>>)
enable == Sync(<<>>, <<>>)
getBestEffortCoverage == Sync(<<>>,
                              <<Req("result", ArrayOf(Ref("Profiler", "ScriptCoverage")))>>)
setSamplingInterval == Sync(<<Req("interval", Int32)>>, <<>>)
start == Sync(<<>>, <<>>)
startPreciseCoverage == Sync(<<Opt("callCount", Bool), Opt("detailed", Bool)>>, <<>>)
startTypeProfile == Sync(<<>>, <<>>)
stop == Sync(<<>>, <<Req("profile", Ref("Profiler", "Profile"))>>)
stopPreciseCoverage == Sync(<<>>, <<>>)
stopTypeProfile == Sync(<<>>, <<>>)
takePreciseCoverage == Sync(<<>>,
                            <<Req("result", ArrayOf(Ref("Profiler", "ScriptCoverage")))>>)
takeTypeProfile == Sync(<<>>,
                        <<Req("result", ArrayOf(Ref("Profiler", "ScriptTypeProfile")))>>)

(* Notifications: the message, its builder and what the front end object sets *)
ConsoleProfileFinishedNotification == <<Req("id", Str),
                                        Req("location", Ref("Debugger", "Location")),
                                        Req("profile", Ref("Profiler", "Profile")),
                                        Opt("title", Str)>>
ConsoleProfileStartedNotification == <<Req("id", Str),
                                       Req("location", Ref("Debugger", "Location")),
                                       Opt("title", Str)>>
ConsoleProfileFinishedNotificationBuilder == {"id", "location", "profile"}
ConsoleProfileStartedNotificationBuilder == {"id", "location"}
consoleProfileFinished == Event("ConsoleProfileFinishedNotification",
                                {"id", "location", "profile"},
                                {"title"})
consoleProfileStarted == Event("ConsoleProfileStartedNotification",
                               {"id", "location"},
                               {"title"})

------------------------------------------------------------------------------
(* The tables of the domain *)
Types == [ProfileNode |-> ProfileNode, Profile |-> Profile,
          PositionTickInfo |-> PositionTickInfo, CoverageRange |-> CoverageRange,
          FunctionCoverage |-> FunctionCoverage, ScriptCoverage |-> ScriptCoverage,
          TypeObject |-> TypeObject, TypeProfileEntry |-> TypeProfileEntry,
          ScriptTypeProfile |-> ScriptTypeProfile,
          ConsoleProfileFinishedNotification |-> ConsoleProfileFinishedNotification,
          ConsoleProfileStartedNotification |-> ConsoleProfileStartedNotification]
Builders == [ProfileNode |-> ProfileNodeBuilder, Profile |-> ProfileBuilder,
             PositionTickInfo |-> PositionTickInfoBuilder,
             CoverageRange |-> CoverageRangeBuilder,
             FunctionCoverage |-> FunctionCoverageBuilder,
             ScriptCoverage |-> ScriptCoverageBuilder, TypeObject |-> TypeObjectBuilder,
             TypeProfileEntry |-> TypeProfileEntryBuilder,
             ScriptTypeProfile |-> ScriptTypeProfileBuilder,
             ConsoleProfileFinishedNotification |-> ConsoleProfileFinishedNotificationBuilder,
             ConsoleProfileStartedNotification |-> ConsoleProfileStartedNotificationBuilder]
Commands == [disable |-> disable, enable |-> enable,
             getBestEffortCoverage |-> getBestEffortCoverage,
             setSamplingInterval |-> setSamplingInterval, start |-> start,
             startPreciseCoverage |-> startPreciseCoverage,
             startTypeProfile |-> startTypeProfile, stop |-> stop,
             stopPreciseCoverage |-> stopPreciseCoverage,
             stopTypeProfile |-> stopTypeProfile,
             takePreciseCoverage |-> takePreciseCoverage,
             takeTypeProfile |-> takeTypeProfile]
Events == [consoleProfileFinished |-> consoleProfileFinished,
           consoleProfileStarted |-> consoleProfileStarted]
==============================================================================
