-------------------------- MODULE ProtocolOverlay --------------------------
(*****************************************************************************)
(* The Overlay domain of the debugging protocol: highlights and the message   *)
(* shown while paused. The session wires its commands to an agent. A type is  *)
(* the fields its fromValue reads and its toValue writes, in their order; its *)
(* builder is the fields whose setters build() demands; a command is the      *)
(* parameters its handler reads and the results it writes; a notification is  *)
(* the fields of the message that the front end object sends.                 *)
(*****************************************************************************)
EXTENDS WireTypes

(* Types *)
HighlightConfig == <<Opt("showInfo", Bool), Opt("showRulers", Bool),
                     Opt("showExtensionLines", Bool), Opt("displayAsMaterial", Bool),
                     Opt("contentColor", Ref("DOM", "RGBA")),
                     Opt("paddingColor", Ref("DOM", "RGBA")),
                     Opt("borderColor", Ref("DOM", "RGBA")),
                     Opt("marginColor", Ref("DOM", "RGBA")),
                     Opt("eventTargetColor", Ref("DOM", "RGBA")),
                     Opt("shapeColor", Ref("DOM", "RGBA")),
                     Opt("shapeMarginColor", Ref("DOM", "RGBA")), Opt("selectorList", Str),
                     Opt("cssGridColor", Ref("DOM", "RGBA"))>>

(* Builders of the types *)
HighlightConfigBuilder == {}

(* Commands: parameters and results *)
disable == Sync(<<>>, <<>>)
enable == Sync(<<>>, <<>>)
getHighlightObjectForTest == Sync(<<Req("nodeId", Int32)>>, <<Req("highlight", Dict)>>)
hideHighlight == Sync(<<>>, <<>>)
highlightFrame == Sync(<<Req("frameId", Str), Opt("contentColor", Ref("DOM", "RGBA")),
                         Opt("contentOutlineColor", Ref("DOM", "RGBA"))>>,
                       <<>>)
highlightNode == Sync(<<Req("highlightConfig", Ref("Overlay", "HighlightConfig")),
                        Opt("nodeId", Int32), Opt("backendNodeId", Int32),
                        Opt("objectId", Str)>>,
                      <<>>)
highlightQuad == Sync(<<Req("quad", ArrayOf(Num)), Opt("color", Ref("DOM", "RGBA")),
                        Opt("outlineColor", Ref("DOM", "RGBA"))>>,
                      <<>>)
highlightRect == Sync(<<Req("x", Int32), Req("y", Int32), Req("width", Int32),
                        Req("height", Int32), Opt("color", Ref("DOM", "RGBA")),
                        Opt("outlineColor", Ref("DOM", "RGBA"))>>,
                      <<>>)
setInspectMode == Sync(<<Req("mode", Str),
                         Opt("highlightConfig", Ref("Overlay", "HighlightConfig"))>>,
                       <<>>)
setPausedInDebuggerMessage == Sync(<<Opt("message", Str)>>, <<>>)
setShowDebugBorders == Sync(<<Req("show", Bool)>>, <<>>)
setShowFPSCounter == Sync(<<Req("show", Bool)>>, <<>>)
setShowPaintRects == Sync(<<Req("result", Bool)>>, <<>>)
setShowScrollBottleneckRects == Sync(<<Req("show", Bool)>>, <<>>)
setShowViewportSizeOnResize == Sync(<<Req("show", Bool)>>, <<>>)
setSuspended == Sync(<<Req("suspended", Bool)>>, <<>>)

(* Notifications: the message, its builder and what the front end object sets *)
InspectNodeRequestedNotification == <<Req("backendNodeId", Int32)>>
NodeHighlightRequestedNotification == <<Req("nodeId", Int32)>>
ScreenshotRequestedNotification == <<Req("viewport", Ref("Page", "Viewport"))>>
InspectNodeRequestedNotificationBuilder == {"backendNodeId"}
NodeHighlightRequestedNotificationBuilder == {"nodeId"}
ScreenshotRequestedNotificationBuilder == {"viewport"}
inspectNodeRequested == Event("InspectNodeRequestedNotification", {"backendNodeId"}, {})
nodeHighlightRequested == Event("NodeHighlightRequestedNotification", {"nodeId"}, {})
screenshotRequested == Event("ScreenshotRequestedNotification", {"viewport"}, {})

------------------------------------------------------------------------------
(* The tables of the domain *)
Types == [HighlightConfig |-> HighlightConfig,
          InspectNodeRequestedNotification |-> InspectNodeRequestedNotification,
          NodeHighlightRequestedNotification |-> NodeHighlightRequestedNotification,
          ScreenshotRequestedNotification |-> ScreenshotRequestedNotification]
Builders == [HighlightConfig |-> HighlightConfigBuilder,
             InspectNodeRequestedNotification |-> InspectNodeRequestedNotificationBuilder,
             NodeHighlightRequestedNotification |-> NodeHighlightRequestedNotificationBuilder,
             ScreenshotRequestedNotification |-> ScreenshotRequestedNotificationBuilder]
Commands == [disable |-> disable, enable |-> enable,
             getHighlightObjectForTest |-> getHighlightObjectForTest,
             hideHighlight |-> hideHighlight, highlightFrame |-> highlightFrame,
             highlightNode |-> highlightNode, highlightQuad |-> highlightQuad,
             highlightRect |-> highlightRect, setInspectMode |-> setInspectMode,
             setPausedInDebuggerMessage |-> setPausedInDebuggerMessage,
             setShowDebugBorders |-> setShowDebugBorders,
             setShowFPSCounter |-> setShowFPSCounter,
             setShowPaintRects |-> setShowPaintRects,
             setShowScrollBottleneckRects |-> setShowScrollBottleneckRects,
             setShowViewportSizeOnResize |-> setShowViewportSizeOnResize,
             setSuspended |-> setSuspended]
Events == [inspectNodeRequested |-> inspectNodeRequested,
           nodeHighlightRequested |-> nodeHighlightRequested,
           screenshotRequested |-> screenshotRequested]
==============================================================================
