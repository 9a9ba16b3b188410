-------------------------- MODULE ProtocolDebugger --------------------------
(*****************************************************************************)
(* The Debugger domain of the debugging protocol: scripts, breakpoints,       *)
(* pauses and stepping. The session wires its commands to an agent. A type is *)
(* the fields its fromValue reads and its toValue writes, in their order; its *)
(* builder is the fields whose setters build() demands; a command is the      *)
(* parameters its handler reads and the results it writes; a notification is  *)
(* the fields of the message that the front end object sends.                 *)
(*****************************************************************************)
EXTENDS WireTypes

(* Types *)
Location == <<Req("scriptId", Str), Req("lineNumber", Int32), Opt("columnNumber", Int32)>>
ScriptPosition == <<Req("lineNumber", Int32), Req("columnNumber", Int32)>>
CallFrame == <<Req("callFrameId", Str), Req("functionName", Str),
               Opt("functionLocation", Ref("Debugger", "Location")),
               Req("location", Ref("Debugger", "Location")), Req("url", Str),
               Req("scopeChain", ArrayOf(Ref("Debugger", "Scope"))),
               Req("this", Ref("Runtime", "RemoteObject")),
               Opt("returnValue", Ref("Runtime", "RemoteObject"))>>
Scope == <<Req("type", Str), Req("object", Ref("Runtime", "RemoteObject")),
           Opt("name", Str), Opt("startLocation", Ref("Debugger", "Location")),
           Opt("endLocation", Ref("Debugger", "Location"))>>
SearchMatch == <<Req("lineNumber", Num), Req("lineContent", Str)>>
BreakLocation == <<Req("scriptId", Str), Req("lineNumber", Int32),
                   Opt("columnNumber", Int32), Opt("type", Str)>>

(* Builders of the types *)
LocationBuilder == {"scriptId", "lineNumber"}
ScriptPositionBuilder == {"lineNumber", "columnNumber"}
CallFrameBuilder == {"callFrameId", "functionName", "location", "url", "scopeChain", "this"}
ScopeBuilder == {"type", "object"}
SearchMatchBuilder == {"lineNumber", "lineContent"}
BreakLocationBuilder == {"scriptId", "lineNumber"}

(* Commands: parameters and results *)
continueToLocation == Sync(<<Req("location", Ref("Debugger", "Location")),
                             Opt("targetCallFrames", Str)>>,
                           <<>>)
disable == Sync(<<>>, <<>>)
enable == Sync(<<>>, <<Req("debuggerId", Str)>>)
evaluateOnCallFrame == Sync(<<Req("callFrameId", Str), Req("expression", Str),
                              Opt("objectGroup", Str), Opt("includeCommandLineAPI", Bool),
                              Opt("silent", Bool), Opt("returnByValue", Bool),
                              Opt("generatePreview", Bool),
                              Opt("throwOnSideEffect", Bool)>>,
                            <<Req("result", Ref("Runtime", "RemoteObject")),
                              Opt("exceptionDetails", Ref("Runtime", "ExceptionDetails"))>>)
getPossibleBreakpoints == Sync(<<Req("start", Ref("Debugger", "Location")),
                                 Opt("end", Ref("Debugger", "Location")),
                                 Opt("restrictToFunction", Bool)>>,
                               <<Req("locations", ArrayOf(Ref("Debugger", "BreakLocation")))>>)
getScriptSource == Sync(<<Req("scriptId", Str)>>, <<Req("scriptSource", Str)>>)
getStackTrace == Sync(<<Req("stackTraceId", Ref("Runtime", "StackTraceId"))>>,
                      <<Req("stackTrace", Ref("Runtime", "StackTrace"))>>)
pause == Sync(<<>>, <<>>)
pauseOnAsyncCall == Sync(<<Req("parentStackTraceId", Ref("Runtime", "StackTraceId"))>>,
                         <<>>)
removeBreakpoint == Sync(<<Req("breakpointId", Str)>>, <<>>)
restartFrame == Sync(<<Req("callFrameId", Str)>>,
                     <<Req("callFrames", ArrayOf(Ref("Debugger", "CallFrame"))),
                       Opt("asyncStackTrace", Ref("Runtime", "StackTrace")),
                       Opt("asyncStackTraceId", Ref("Runtime", "StackTraceId"))>>)
resume == Sync(<<>>, <<>>)
scheduleStepIntoAsync == Async(<<>>, <<>>)
searchInContent == Sync(<<Req("scriptId", Str), Req("query", Str),
                          Opt("caseSensitive", Bool), Opt("isRegex", Bool)>>,
                        <<Req("result", ArrayOf(Ref("Debugger", "SearchMatch")))>>)
setAsyncCallStackDepth == Sync(<<Req("maxDepth", Int32)>>, <<>>)
setBlackboxPatterns == Sync(<<Req("patterns", ArrayOf(Str))>>, <<>>)
setBlackboxedRanges == Sync(<<Req("scriptId", Str),
                              Req("positions", ArrayOf(Ref("Debugger", "ScriptPosition")))>>,
                            <<>>)
setBreakpoint == Sync(<<Req("location", Ref("Debugger", "Location")),
                        Opt("condition", Str)>>,
                      <<Req("breakpointId", Str),
                        Req("actualLocation", Ref("Debugger", "Location"))>>)
setBreakpointByUrl == Sync(<<Req("lineNumber", Int32), Opt("url", Str),
                             Opt("urlRegex", Str), Opt("scriptHash", Str),
                             Opt("columnNumber", Int32), Opt("condition", Str)>>,
                           <<Req("breakpointId", Str),
                             Req("locations", ArrayOf(Ref("Debugger", "Location")))>>)
setBreakpointsActive == Sync(<<Req("active", Bool)>>, <<>>)
setPauseOnExceptions == Sync(<<Req("state", Str)>>, <<>>)
setReturnValue == Sync(<<Req("newValue", Ref("Runtime", "CallArgument"))>>, <<>>)
setScriptSource == Sync(<<Req("scriptId", Str), Req("scriptSource", Str),
                          Opt("dryRun", Bool)>>,
                        <<Opt("callFrames", ArrayOf(Ref("Debugger", "CallFrame"))),
                          Opt("stackChanged", Bool),
                          Opt("asyncStackTrace", Ref("Runtime", "StackTrace")),
                          Opt("asyncStackTraceId", Ref("Runtime", "StackTraceId")),
                          Opt("exceptionDetails", Ref("Runtime", "ExceptionDetails"))>>)
setSkipAllPauses == Sync(<<Req("skip", Bool)>>, <<>>)
setVariableValue == Sync(<<Req("scopeNumber", Int32), Req("variableName", Str),
                           Req("newValue", Ref("Runtime", "CallArgument")),
                           Req("callFrameId", Str)>>,
                         <<>>)
stepInto == Sync(<<Opt("breakOnAsyncCall", Bool)>>, <<>>)
stepOut == Sync(<<>>, <<>>)
stepOver == Sync(<<>>, <<>>)

(* Notifications: the message, its builder and what the front end object sets *)
BreakpointResolvedNotification == <<Req("breakpointId", Str),
                                    Req("location", Ref("Debugger", "Location"))>>
PausedNotification == <<Req("callFrames", ArrayOf(Ref("Debugger", "CallFrame"))),
                        Req("reason", Str), Opt("data", Dict),
                        Opt("hitBreakpoints", ArrayOf(Str)),
                        Opt("asyncStackTrace", Ref("Runtime", "StackTrace")),
                        Opt("asyncStackTraceId", Ref("Runtime", "StackTraceId")),
                        Opt("asyncCallStackTraceId", Ref("Runtime", "StackTraceId"))>>
ScriptFailedToParseNotification == <<Req("scriptId", Str), Req("url", Str),
                                     Req("startLine", Int32), Req("startColumn", Int32),
                                     Req("endLine", Int32), Req("endColumn", Int32),
                                     Req("executionContextId", Int32), Req("hash", Str),
                                     Opt("executionContextAuxData", Dict),
                                     Opt("sourceMapURL", Str), Opt("hasSourceURL", Bool),
                                     Opt("isModule", Bool), Opt("length", Int32),
                                     Opt("stackTrace", Ref("Runtime", "StackTrace"))>>
ScriptParsedNotification == <<Req("scriptId", Str), Req("url", Str),
                              Req("startLine", Int32), Req("startColumn", Int32),
                              Req("endLine", Int32), Req("endColumn", Int32),
                              Req("executionContextId", Int32), Req("hash", Str),
                              Opt("executionContextAuxData", Dict), Opt("isLiveEdit", Bool),
                              Opt("sourceMapURL", Str), Opt("hasSourceURL", Bool),
                              Opt("isModule", Bool), Opt("length", Int32),
                              Opt("stackTrace", Ref("Runtime", "StackTrace"))>>
BreakpointResolvedNotificationBuilder == {"breakpointId", "location"}
PausedNotificationBuilder == {"callFrames", "reason"}
ScriptFailedToParseNotificationBuilder == {"scriptId", "url", "startLine", "startColumn",
                                           "endLine", "endColumn", "executionContextId",
                                           "hash"}
ScriptParsedNotificationBuilder == {"scriptId", "url", "startLine", "startColumn",
                                    "endLine", "endColumn", "executionContextId", "hash"}
breakpointResolved == Event("BreakpointResolvedNotification",
                            {"breakpointId", "location"},
                            {})
paused == Event("PausedNotification",
                {"callFrames", "reason"},
                {"data", "hitBreakpoints", "asyncStackTrace", "asyncStackTraceId",
                 "asyncCallStackTraceId"})
resumed == EmptyEvent
scriptFailedToParse == Event("ScriptFailedToParseNotification",
                             {"scriptId", "url", "startLine", "startColumn", "endLine",
                              "endColumn", "executionContextId", "hash"},
                             {"executionContextAuxData", "sourceMapURL", "hasSourceURL",
                              "isModule", "length", "stackTrace"})
scriptParsed == Event("ScriptParsedNotification",
                      {"scriptId", "url", "startLine", "startColumn", "endLine",
                       "endColumn", "executionContextId", "hash"},
                      {"executionContextAuxData", "isLiveEdit", "sourceMapURL",
                       "hasSourceURL", "isModule", "length", "stackTrace"})

------------------------------------------------------------------------------
(* The tables of the domain *)
Types == [Location |-> Location, ScriptPosition |-> ScriptPosition, CallFrame |-> CallFrame,
          Scope |-> Scope, SearchMatch |-> SearchMatch, BreakLocation |-> BreakLocation,
          BreakpointResolvedNotification |-> BreakpointResolvedNotification,
          PausedNotification |-> PausedNotification,
          ScriptFailedToParseNotification |-> ScriptFailedToParseNotification,
          ScriptParsedNotification |-> ScriptParsedNotification]
Builders == [Location |-> LocationBuilder, ScriptPosition |-> ScriptPositionBuilder,
             CallFrame |-> CallFrameBuilder, Scope |-> ScopeBuilder,
             SearchMatch |-> SearchMatchBuilder, BreakLocation |-> BreakLocationBuilder,
             BreakpointResolvedNotification |-> BreakpointResolvedNotificationBuilder,
             PausedNotification |-> PausedNotificationBuilder,
             ScriptFailedToParseNotification |-> ScriptFailedToParseNotificationBuilder,
             ScriptParsedNotification |-> ScriptParsedNotificationBuilder]
Commands == [continueToLocation |-> continueToLocation, disable |-> disable,
             enable |-> enable, evaluateOnCallFrame |-> evaluateOnCallFrame,
             getPossibleBreakpoints |-> getPossibleBreakpoints,
             getScriptSource |-> getScriptSource, getStackTrace |-> getStackTrace,
             pause |-> pause, pauseOnAsyncCall |-> pauseOnAsyncCall,
             removeBreakpoint |-> removeBreakpoint, restartFrame |-> restartFrame,
             resume |-> resume, scheduleStepIntoAsync |-> scheduleStepIntoAsync,
             searchInContent |-> searchInContent,
             setAsyncCallStackDepth |-> setAsyncCallStackDepth,
             setBlackboxPatterns |-> setBlackboxPatterns,
             setBlackboxedRanges |-> setBlackboxedRanges, setBreakpoint |-> setBreakpoint,
             setBreakpointByUrl |-> setBreakpointByUrl,
             setBreakpointsActive |-> setBreakpointsActive,
             setPauseOnExceptions |-> setPauseOnExceptions,
             setReturnValue |-> setReturnValue, setScriptSource |-> setScriptSource,
             setSkipAllPauses |-> setSkipAllPauses, setVariableValue |-> setVariableValue,
             stepInto |-> stepInto, stepOut |-> stepOut, stepOver |-> stepOver]
Events == [breakpointResolved |-> breakpointResolved, paused |-> paused,
           resumed |-> resumed, scriptFailedToParse |-> scriptFailedToParse,
           scriptParsed |-> scriptParsed]
==============================================================================
