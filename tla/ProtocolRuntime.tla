-------------------------- MODULE ProtocolRuntime --------------------------
(*****************************************************************************)
(* The Runtime domain of the debugging protocol: evaluation of script, remote *)
(* objects, contexts and console calls. The session wires its commands to an  *)
(* agent. A type is the fields its fromValue reads and its toValue writes, in *)
(* their order; its builder is the fields whose setters build() demands; a    *)
(* command is the parameters its handler reads and the results it writes; a   *)
(* notification is the fields of the message that the front end object sends. *)
(*****************************************************************************)
EXTENDS WireTypes

(* Types *)
RemoteObject == <<Req("type", Str), Opt("subtype", Str), Opt("className", Str),
                  Opt("value", AnyValue), Opt("unserializableValue", Str),
                  Opt("description", Str), Opt("objectId", Str),
                  Opt("preview", Ref("Runtime", "ObjectPreview")),
                  Opt("customPreview", Ref("Runtime", "CustomPreview"))>>
CustomPreview == <<Req("header", Str), Req("hasBody", Bool), Req("formatterObjectId", Str),
                   Req("bindRemoteObjectFunctionId", Str), Opt("configObjectId", Str)>>
ObjectPreview == <<Req("type", Str), Opt("subtype", Str), Opt("description", Str),
                   Req("overflow", Bool),
                   Req("properties", ArrayOf(Ref("Runtime", "PropertyPreview"))),
                   Opt("entries", ArrayOf(Ref("Runtime", "EntryPreview")))>>
PropertyPreview == <<Req("name", Str), Req("type", Str), Opt("value", Str),
                     Opt("valuePreview", Ref("Runtime", "ObjectPreview")),
                     Opt("subtype", Str)>>
EntryPreview == <<Opt("key", Ref("Runtime", "ObjectPreview")),
                  Req("value", Ref("Runtime", "ObjectPreview"))>>
PropertyDescriptor == <<Req("name", Str), Opt("value", Ref("Runtime", "RemoteObject")),
                        Opt("writable", Bool), Opt("get", Ref("Runtime", "RemoteObject")),
                        Opt("set", Ref("Runtime", "RemoteObject")),
                        Req("configurable", Bool), Req("enumerable", Bool),
                        Opt("wasThrown", Bool), Opt("isOwn", Bool),
                        Opt("symbol", Ref("Runtime", "RemoteObject"))>>
InternalPropertyDescriptor == <<Req("name", Str),
                                Opt("value", Ref("Runtime", "RemoteObject"))>>
CallArgument == <<Opt("value", AnyValue), Opt("unserializableValue", Str),
                  Opt("objectId", Str)>>
ExecutionContextDescription == <<Req("id", Int32), Req("origin", Str), Req("name", Str),
                                 Opt("auxData", Dict)>>
ExceptionDetails == <<Req("exceptionId", Int32), Req("text", Str), Req("lineNumber", Int32),
                      Req("columnNumber", Int32), Opt("scriptId", Str), Opt("url", Str),
                      Opt("stackTrace", Ref("Runtime", "StackTrace")),
                      Opt("exception", Ref("Runtime", "RemoteObject")),
                      Opt("executionContextId", Int32)>>
CallFrame == <<Req("functionName", Str), Req("scriptId", Str), Req("url", Str),
               Req("lineNumber", Int32), Req("columnNumber", Int32)>>
StackTrace == <<Opt("description", Str),
                Req("callFrames", ArrayOf(Ref("Runtime", "CallFrame"))),
                Opt("parent", Ref("Runtime", "StackTrace")),
                Opt("parentId", Ref("Runtime", "StackTraceId"))>>
StackTraceId == <<Req("id", Str), Opt("debuggerId", Str)>>

(* Builders of the types *)
RemoteObjectBuilder == {"type"}
CustomPreviewBuilder == {"header", "hasBody", "formatterObjectId",
                         "bindRemoteObjectFunctionId"}
ObjectPreviewBuilder == {"type", "overflow", "properties"}
PropertyPreviewBuilder == {"name", "type"}
EntryPreviewBuilder == {"value"}
PropertyDescriptorBuilder == {"name", "configurable", "enumerable"}
InternalPropertyDescriptorBuilder == {"name"}
CallArgumentBuilder == {}
ExecutionContextDescriptionBuilder == {"id", "origin", "name"}
ExceptionDetailsBuilder == {"exceptionId", "text", "lineNumber", "columnNumber"}

CallFrameBuilderWithoutUrl == {"functionName", "scriptId", "lineNumber", "columnNumber"}

CallFrameBuilder == {"functionName", "scriptId", "url", "lineNumber", "columnNumber"}

StackTraceBuilder == {"callFrames"}
StackTraceIdBuilder == {"id"}

(* Commands: parameters and results *)
awaitPromise == Async(<<Req("promiseObjectId", Str), Opt("returnByValue", Bool),
                        Opt("generatePreview", Bool)>>,
                      <<Req("result", Ref("Runtime", "RemoteObject")),
                        Opt("exceptionDetails", Ref("Runtime", "ExceptionDetails"))>>)
callFunctionOn == Async(<<Req("functionDeclaration", Str), Opt("objectId", Str),
                          Opt("arguments", ArrayOf(Ref("Runtime", "CallArgument"))),
                          Opt("silent", Bool), Opt("returnByValue", Bool),
                          Opt("generatePreview", Bool), Opt("userGesture", Bool),
                          Opt("awaitPromise", Bool), Opt("executionContextId", Int32),
                          Opt("objectGroup", Str)>>,
                        <<Req("result", Ref("Runtime", "RemoteObject")),
                          Opt("exceptionDetails", Ref("Runtime", "ExceptionDetails"))>>)
compileScript == Sync(<<Req("expression", Str), Req("sourceURL", Str),
                        Req("persistScript", Bool), Opt("executionContextId", Int32)>>,
                      <<Opt("scriptId", Str),
                        Opt("exceptionDetails", Ref("Runtime", "ExceptionDetails"))>>)
disable == Sync(<<>>, <<>>)
discardConsoleEntries == Sync(<<>>, <<>>)
enable == Sync(<<>>, <<>>)
evaluate == Async(<<Req("expression", Str), Opt("objectGroup", Str),
                    Opt("includeCommandLineAPI", Bool), Opt("silent", Bool),
                    Opt("contextId", Int32), Opt("returnByValue", Bool),
                    Opt("generatePreview", Bool), Opt("userGesture", Bool),
                    Opt("awaitPromise", Bool), Opt("throwOnSideEffect", Bool)>>,
                  <<Req("result", Ref("Runtime", "RemoteObject")),
                    Opt("exceptionDetails", Ref("Runtime", "ExceptionDetails"))>>)
getIsolateId == Sync(<<>>, <<Req("id", Str)>>)
getHeapUsage == Sync(<<>>, <<Req("usedSize", Num), Req("totalSize", Num)>>)
getProperties == Sync(<<Req("objectId", Str), Opt("ownProperties", Bool),
                        Opt("accessorPropertiesOnly", Bool), Opt("generatePreview", Bool)>>,
                      <<Req("result", ArrayOf(Ref("Runtime", "PropertyDescriptor"))),
                        Opt("internalProperties", ArrayOf(Ref("Runtime", "InternalPropertyDescriptor"))),
                        Opt("exceptionDetails", Ref("Runtime", "ExceptionDetails"))>>)
globalLexicalScopeNames == Sync(<<Opt("executionContextId", Int32)>>,
                                <<Req("names", ArrayOf(Str))>>)
queryObjects == Sync(<<Req("prototypeObjectId", Str), Opt("objectGroup", Str)>>,
                     <<Req("objects", Ref("Runtime", "RemoteObject"))>>)
releaseObject == Sync(<<Req("objectId", Str)>>, <<>>)
releaseObjectGroup == Sync(<<Req("objectGroup", Str)>>, <<>>)
runIfWaitingForDebugger == Sync(<<>>, <<>>)
runScript == Async(<<Req("scriptId", Str), Opt("executionContextId", Int32),
                     Opt("objectGroup", Str), Opt("silent", Bool),
                     Opt("includeCommandLineAPI", Bool), Opt("returnByValue", Bool),
                     Opt("generatePreview", Bool), Opt("awaitPromise", Bool)>>,
                   <<Req("result", Ref("Runtime", "RemoteObject")),
                     Opt("exceptionDetails", Ref("Runtime", "ExceptionDetails"))>>)
setCustomObjectFormatterEnabled == Sync(<<Req("enabled", Bool)>>, <<>>)
terminateExecution == Async(<<>>, <<>>)

(* Notifications: the message, its builder and what the front end object sets *)
ConsoleAPICalledNotification == <<Req("type", Str),
                                  Req("args", ArrayOf(Ref("Runtime", "RemoteObject"))),
                                  Req("executionContextId", Int32), Req("timestamp", Num),
                                  Opt("stackTrace", Ref("Runtime", "StackTrace")),
                                  Opt("context", Str)>>
ExceptionRevokedNotification == <<Req("reason", Str), Req("exceptionId", Int32)>>
ExceptionThrownNotification == <<Req("timestamp", Num),
                                 Req("exceptionDetails", Ref("Runtime", "ExceptionDetails"))>>
ExecutionContextCreatedNotification == <<Req("context", Ref("Runtime", "ExecutionContextDescription"))>>
ExecutionContextDestroyedNotification == <<Req("executionContextId", Int32)>>
InspectRequestedNotification == <<Req("object", Ref("Runtime", "RemoteObject")),
                                  Req("hints", Dict)>>
ConsoleAPICalledNotificationBuilder == {"type", "args", "executionContextId", "timestamp"}
ExceptionRevokedNotificationBuilder == {"reason", "exceptionId"}
ExceptionThrownNotificationBuilder == {"timestamp", "exceptionDetails"}
ExecutionContextCreatedNotificationBuilder == {"context"}
ExecutionContextDestroyedNotificationBuilder == {"executionContextId"}
InspectRequestedNotificationBuilder == {"object", "hints"}
consoleAPICalled == Event("ConsoleAPICalledNotification",
                          {"type", "args", "executionContextId", "timestamp"},
                          {"stackTrace", "context"})
exceptionRevoked == Event("ExceptionRevokedNotification", {"reason", "exceptionId"}, {})
exceptionThrown == Event("ExceptionThrownNotification",
                         {"timestamp", "exceptionDetails"},
                         {})
executionContextCreated == Event("ExecutionContextCreatedNotification", {"context"}, {})
executionContextDestroyed == Event("ExecutionContextDestroyedNotification",
                                   {"executionContextId"},
                                   {})
executionContextsCleared == EmptyEvent
inspectRequested == Event("InspectRequestedNotification", {"object", "hints"}, {})

------------------------------------------------------------------------------
(* The tables of the domain *)
Types == [RemoteObject |-> RemoteObject, CustomPreview |-> CustomPreview,
          ObjectPreview |-> ObjectPreview, PropertyPreview |-> PropertyPreview,
          EntryPreview |-> EntryPreview, PropertyDescriptor |-> PropertyDescriptor,
          InternalPropertyDescriptor |-> InternalPropertyDescriptor,
          CallArgument |-> CallArgument,
          ExecutionContextDescription |-> ExecutionContextDescription,
          ExceptionDetails |-> ExceptionDetails, CallFrame |-> CallFrame,
          StackTrace |-> StackTrace, StackTraceId |-> StackTraceId,
          ConsoleAPICalledNotification |-> ConsoleAPICalledNotification,
          ExceptionRevokedNotification |-> ExceptionRevokedNotification,
          ExceptionThrownNotification |-> ExceptionThrownNotification,
          ExecutionContextCreatedNotification |-> ExecutionContextCreatedNotification,
          ExecutionContextDestroyedNotification |-> ExecutionContextDestroyedNotification,
          InspectRequestedNotification |-> InspectRequestedNotification]
Builders == [RemoteObject |-> RemoteObjectBuilder, CustomPreview |-> CustomPreviewBuilder,
             ObjectPreview |-> ObjectPreviewBuilder,
             PropertyPreview |-> PropertyPreviewBuilder,
             EntryPreview |-> EntryPreviewBuilder,
             PropertyDescriptor |-> PropertyDescriptorBuilder,
             InternalPropertyDescriptor |-> InternalPropertyDescriptorBuilder,
             CallArgument |-> CallArgumentBuilder,
             ExecutionContextDescription |-> ExecutionContextDescriptionBuilder,
             ExceptionDetails |-> ExceptionDetailsBuilder, CallFrame |-> CallFrameBuilder,
             StackTrace |-> StackTraceBuilder, StackTraceId |-> StackTraceIdBuilder,
             ConsoleAPICalledNotification |-> ConsoleAPICalledNotificationBuilder,
             ExceptionRevokedNotification |-> ExceptionRevokedNotificationBuilder,
             ExceptionThrownNotification |-> ExceptionThrownNotificationBuilder,
             ExecutionContextCreatedNotification |-> ExecutionContextCreatedNotificationBuilder,
             ExecutionContextDestroyedNotification |-> ExecutionContextDestroyedNotificationBuilder,
             InspectRequestedNotification |-> InspectRequestedNotificationBuilder]
Commands == [awaitPromise |-> awaitPromise, callFunctionOn |-> callFunctionOn,
             compileScript |-> compileScript, disable |-> disable,
             discardConsoleEntries |-> discardConsoleEntries, enable |-> enable,
             evaluate |-> evaluate, getIsolateId |-> getIsolateId,
             getHeapUsage |-> getHeapUsage, getProperties |-> getProperties,
             globalLexicalScopeNames |-> globalLexicalScopeNames,
             queryObjects |-> queryObjects, releaseObject |-> releaseObject,
             releaseObjectGroup |-> releaseObjectGroup,
             runIfWaitingForDebugger |-> runIfWaitingForDebugger, runScript |-> runScript,
             setCustomObjectFormatterEnabled |-> setCustomObjectFormatterEnabled,
             terminateExecution |-> terminateExecution]
Events == [consoleAPICalled |-> consoleAPICalled, exceptionRevoked |-> exceptionRevoked,
           exceptionThrown |-> exceptionThrown,
           executionContextCreated |-> executionContextCreated,
           executionContextDestroyed |-> executionContextDestroyed,
           executionContextsCleared |-> executionContextsCleared,
           inspectRequested |-> inspectRequested]
==============================================================================
