---------------------------- MODULE ProtocolPage ----------------------------
(*****************************************************************************)
(* The Page domain of the debugging protocol: frames and resources, answered  *)
(* with the page of the application. The session wires its commands to an     *)
(* agent. A type is the fields its fromValue reads and its toValue writes, in *)
(* their order; its builder is the fields whose setters build() demands; a    *)
(* command is the parameters its handler reads and the results it writes; a   *)
(* notification is the fields of the message that the front end object sends. *)
(*****************************************************************************)
EXTENDS WireTypes

(* Types *)
Frame == <<Req("id", Str), Opt("parentId", Str), Req("loaderId", Str), Opt("name", Str),
           Req("url", Str), Req("securityOrigin", Str), Req("mimeType", Str),
           Opt("unreachableUrl", Str)>>
FrameResource == <<Req("url", Str), Req("type", Str), Req("mimeType", Str),
                   Opt("lastModified", Num), Opt("contentSize", Num), Opt("failed", Bool),
                   Opt("canceled", Bool)>>
FrameResourceTree == <<Req("frame", Ref("Page", "Frame")),
                       Opt("childFrames", ArrayOf(Ref("Page", "FrameResourceTree"))),
                       Req("resources", ArrayOf(Ref("Page", "FrameResource")))>>
FrameTree == <<Req("frame", Ref("Page", "Frame")),
               Opt("childFrames", ArrayOf(Ref("Page", "FrameTree")))>>
NavigationEntry == <<Req("id", Int32), Req("url", Str), Req("userTypedURL", Str),
                     Req("title", Str), Req("transitionType", Str)>>
ScreencastFrameMetadata == <<Req("offsetTop", Num), Req("pageScaleFactor", Num),
                             Req("deviceWidth", Num), Req("deviceHeight", Num),
                             Req("scrollOffsetX", Num), Req("scrollOffsetY", Num),
                             Opt("timestamp", Num)>>
AppManifestError == <<Req("message", Str), Req("critical", Int32), Req("line", Int32),
                      Req("column", Int32)>>
LayoutViewport == <<Req("pageX", Int32), Req("pageY", Int32), Req("clientWidth", Int32),
                    Req("clientHeight", Int32)>>
VisualViewport == <<Req("offsetX", Num), Req("offsetY", Num), Req("pageX", Num),
                    Req("pageY", Num), Req("clientWidth", Num), Req("clientHeight", Num),
                    Req("scale", Num)>>
Viewport == <<Req("x", Num), Req("y", Num), Req("width", Num), Req("height", Num),
              Req("scale", Num)>>

(* Builders of the types *)
FrameBuilder == {"id", "loaderId", "url", "securityOrigin", "mimeType"}
FrameResourceBuilder == {"url", "type", "mimeType"}
FrameResourceTreeBuilder == {"frame", "resources"}
FrameTreeBuilder == {"frame"}
NavigationEntryBuilder == {"id", "url", "userTypedURL", "title", "transitionType"}
ScreencastFrameMetadataBuilder == {"offsetTop", "pageScaleFactor", "deviceWidth",
                                   "deviceHeight", "scrollOffsetX", "scrollOffsetY"}
AppManifestErrorBuilder == {"message", "critical", "line", "column"}
LayoutViewportBuilder == {"pageX", "pageY", "clientWidth", "clientHeight"}
VisualViewportBuilder == {"offsetX", "offsetY", "pageX", "pageY", "clientWidth",
                          "clientHeight", "scale"}
ViewportBuilder == {"x", "y", "width", "height", "scale"}

(* Commands: parameters and results *)
addScriptToEvaluateOnLoad == Sync(<<Req("scriptSource", Str)>>, <<Req("identifier", Str)>>)
addScriptToEvaluateOnNewDocument == Sync(<<Req("source", Str)>>, <<Req("identifier", Str)>>)
bringToFront == Sync(<<>>, <<>>)
captureScreenshot == Sync(<<Opt("format", Str), Opt("quality", Int32),
                            Opt("clip", Ref("Page", "Viewport")),
                            Opt("fromSurface", Bool)>>,
                          <<Req("data", Str)>>)
createIsolatedWorld == Sync(<<Req("frameId", Str), Opt("worldName", Str),
                              Opt("grantUniveralAccess", Bool)>>,
                            <<Req("executionContextId", Int32)>>)
disable == Sync(<<>>, <<>>)
enable == Sync(<<>>, <<>>)
getAppManifest == Sync(<<>>,
                       <<Req("url", Str),
                         Req("errors", ArrayOf(Ref("Page", "AppManifestError"))),
                         Opt("data", Str)>>)
getFrameTree == Sync(<<>>, <<Req("frameTree", Ref("Page", "FrameTree"))>>)
getLayoutMetrics == Sync(<<>>,
                         <<Req("layoutViewport", Ref("Page", "LayoutViewport")),
                           Req("visualViewport", Ref("Page", "VisualViewport")),
                           Req("contentSize", Ref("DOM", "Rect"))>>)
getNavigationHistory == Sync(<<>>,
                             <<Req("currentIndex", Int32),
                               Req("entries", ArrayOf(Ref("Page", "NavigationEntry")))>>)
getResourceContent == Sync(<<Req("frameId", Str), Req("url", Str)>>,
                           <<Req("content", Str), Req("base64Encoded", Bool)>>)
getResourceTree == Sync(<<>>, <<Req("frameTree", Ref("Page", "FrameResourceTree"))>>)
handleJavaScriptDialog == Sync(<<Req("accept", Bool), Opt("promptText", Str)>>, <<>>)
navigate == Sync(<<Req("url", Str), Opt("referrer", Str), Opt("transitionType", Str),
                   Opt("frameId", Str)>>,
                 <<Req("frameId", Str), Opt("loaderId", Str), Opt("errorText", Str)>>)
navigateToHistoryEntry == Sync(<<Req("entryId", Int32)>>, <<>>)
printToPDF == Sync(<<Opt("landscape", Bool), Opt("displayHeaderFooter", Bool),
                     Opt("printBackground", Bool), Opt("scale", Num),
                     Opt("paperWidth", Num), Opt("paperHeight", Num), Opt("marginTop", Num),
                     Opt("marginBottom", Num), Opt("marginLeft", Num),
                     Opt("marginRight", Num), Opt("pageRanges", Str),
                     Opt("ignoreInvalidPageRanges", Bool), Opt("headerTemplate", Str),
                     Opt("footerTemplate", Str), Opt("preferCSSPageSize", Bool)>>,
                   <<Req("data", Str)>>)
reload == Sync(<<Opt("ignoreCache", Bool), Opt("scriptToEvaluateOnLoad", Str)>>, <<>>)
removeScriptToEvaluateOnLoad == Sync(<<Req("identifier", Str)>>, <<>>)
removeScriptToEvaluateOnNewDocument == Sync(<<Req("identifier", Str)>>, <<>>)
requestAppBanner == Sync(<<>>, <<>>)
screencastFrameAck == Sync(<<Req("sessionId", Int32)>>, <<>>)
searchInResource == Sync(<<Req("frameId", Str), Req("url", Str), Req("query", Str),
                           Opt("caseSensitive", Bool), Opt("isRegex", Bool)>>,
                         <<Req("result", ArrayOf(Ref("Debugger", "SearchMatch")))>>)
setAdBlockingEnabled == Sync(<<Req("enabled", Bool)>>, <<>>)
setBypassCSP == Sync(<<Req("enabled", Bool)>>, <<>>)
setDocumentContent == Sync(<<Req("frameId", Str), Req("html", Str)>>, <<>>)
setDownloadBehavior == Sync(<<Req("behavior", Str), Opt("downloadPath", Str)>>, <<>>)
setLifecycleEventsEnabled == Sync(<<Req("enabled", Bool)>>, <<>>)
startScreencast == Sync(<<Opt("format", Str), Opt("quality", Int32), Opt("maxWidth", Int32),
                          Opt("maxHeight", Int32), Opt("everyNthFrame", Int32)>>,
                        <<>>)
stopLoading == Sync(<<>>, <<>>)
crash == Sync(<<>>, <<>>)
stopScreencast == Sync(<<>>, <<>>)

(* Notifications: the message, its builder and what the front end object sets *)
DomContentEventFiredNotification == <<Req("timestamp", Num)>>
FrameAttachedNotification == <<Req("frameId", Str), Req("parentFrameId", Str),
                               Opt("stack", Ref("Runtime", "StackTrace"))>>
FrameClearedScheduledNavigationNotification == <<Req("frameId", Str)>>
FrameDetachedNotification == <<Req("frameId", Str)>>
FrameNavigatedNotification == <<Req("frame", Ref("Page", "Frame"))>>
FrameScheduledNavigationNotification == <<Req("frameId", Str), Req("delay", Num),
                                          Req("reason", Str), Req("url", Str)>>
FrameStartedLoadingNotification == <<Req("frameId", Str)>>
FrameStoppedLoadingNotification == <<Req("frameId", Str)>>
JavascriptDialogClosedNotification == <<Req("result", Bool), Req("userInput", Str)>>
JavascriptDialogOpeningNotification == <<Req("url", Str), Req("message", Str),
                                         Req("type", Str), Req("hasBrowserHandler", Bool),
                                         Opt("defaultPrompt", Str)>>
LifecycleEventNotification == <<Req("frameId", Str), Req("loaderId", Str), Req("name", Str),
                                Req("timestamp", Num)>>
LoadEventFiredNotification == <<Req("timestamp", Num)>>
NavigatedWithinDocumentNotification == <<Req("frameId", Str), Req("url", Str)>>
ScreencastFrameNotification == <<Req("data", Str),
                                 Req("metadata", Ref("Page", "ScreencastFrameMetadata")),
                                 Req("sessionId", Int32)>>
ScreencastVisibilityChangedNotification == <<Req("visible", Bool)>>
WindowOpenNotification == <<Req("url", Str), Req("windowName", Str),
                            Req("windowFeatures", ArrayOf(Str)), Req("userGesture", Bool)>>
DomContentEventFiredNotificationBuilder == {"timestamp"}
FrameAttachedNotificationBuilder == {"frameId", "parentFrameId"}
FrameClearedScheduledNavigationNotificationBuilder == {"frameId"}
FrameDetachedNotificationBuilder == {"frameId"}
FrameNavigatedNotificationBuilder == {"frame"}
FrameScheduledNavigationNotificationBuilder == {"frameId", "delay", "reason", "url"}
FrameStartedLoadingNotificationBuilder == {"frameId"}
FrameStoppedLoadingNotificationBuilder == {"frameId"}
JavascriptDialogClosedNotificationBuilder == {"result", "userInput"}
JavascriptDialogOpeningNotificationBuilder == {
     "url", "message", "type", "hasBrowserHandler"}
LifecycleEventNotificationBuilder == {"frameId", "loaderId", "name", "timestamp"}
LoadEventFiredNotificationBuilder == {"timestamp"}
NavigatedWithinDocumentNotificationBuilder == {"frameId", "url"}
ScreencastFrameNotificationBuilder == {"data", "metadata", "sessionId"}
ScreencastVisibilityChangedNotificationBuilder == {"visible"}
WindowOpenNotificationBuilder == {"url", "windowName", "windowFeatures", "userGesture"}
domContentEventFired == Event("DomContentEventFiredNotification", {"timestamp"}, {})
frameAttached == Event("FrameAttachedNotification", {"frameId", "parentFrameId"}, {"stack"})
frameClearedScheduledNavigation == Event("FrameClearedScheduledNavigationNotification",
                                         {"frameId"},
                                         {})
frameDetached == Event("FrameDetachedNotification", {"frameId"}, {})
frameNavigated == Event("FrameNavigatedNotification", {"frame"}, {})
frameResized == EmptyEvent
frameScheduledNavigation == Event("FrameScheduledNavigationNotification",
                                  {"frameId", "delay", "reason", "url"},
                                  {})
frameStartedLoading == Event("FrameStartedLoadingNotification", {"frameId"}, {})
frameStoppedLoading == Event("FrameStoppedLoadingNotification", {"frameId"}, {})
interstitialHidden == EmptyEvent
interstitialShown == EmptyEvent
javascriptDialogClosed == Event("JavascriptDialogClosedNotification",
                                {"result", "userInput"},
                                {})
javascriptDialogOpening == Event("JavascriptDialogOpeningNotification",
                                 {"url", "message", "type", "hasBrowserHandler"},
                                 {"defaultPrompt"})
lifecycleEvent == Event("LifecycleEventNotification",
                        {"frameId", "loaderId", "name", "timestamp"},
                        {})
loadEventFired == Event("LoadEventFiredNotification", {"timestamp"}, {})
navigatedWithinDocument == Event("NavigatedWithinDocumentNotification",
                                 {"frameId", "url"},
                                 {})
screencastFrame == Event("ScreencastFrameNotification",
                         {"data", "metadata", "sessionId"},
                         {})
screencastVisibilityChanged == Event("ScreencastVisibilityChangedNotification",
                                     {"visible"},
                                     {})
windowOpen == Event("WindowOpenNotification",
                    {"url", "windowName", "windowFeatures", "userGesture"},
                    {})

------------------------------------------------------------------------------
(* The tables of the domain *)
Types == [Frame |-> Frame, FrameResource |-> FrameResource,
          FrameResourceTree |-> FrameResourceTree, FrameTree |-> FrameTree,
          NavigationEntry |-> NavigationEntry,
          ScreencastFrameMetadata |-> ScreencastFrameMetadata,
          AppManifestError |-> AppManifestError, LayoutViewport |-> LayoutViewport,
          VisualViewport |-> VisualViewport, Viewport |-> Viewport,
          DomContentEventFiredNotification |-> DomContentEventFiredNotification,
          FrameAttachedNotification |-> FrameAttachedNotification,
          FrameClearedScheduledNavigationNotification |-> FrameClearedScheduledNavigationNotification,
          FrameDetachedNotification |-> FrameDetachedNotification,
          FrameNavigatedNotification |-> FrameNavigatedNotification,
          FrameScheduledNavigationNotification |-> FrameScheduledNavigationNotification,
          FrameStartedLoadingNotification |-> FrameStartedLoadingNotification,
          FrameStoppedLoadingNotification |-> FrameStoppedLoadingNotification,
          JavascriptDialogClosedNotification |-> JavascriptDialogClosedNotification,
          JavascriptDialogOpeningNotification |-> JavascriptDialogOpeningNotification,
          LifecycleEventNotification |-> LifecycleEventNotification,
          LoadEventFiredNotification |-> LoadEventFiredNotification,
          NavigatedWithinDocumentNotification |-> NavigatedWithinDocumentNotification,
          ScreencastFrameNotification |-> ScreencastFrameNotification,
          ScreencastVisibilityChangedNotification |-> ScreencastVisibilityChangedNotification,
          WindowOpenNotification |-> WindowOpenNotification]
Builders == [Frame |-> FrameBuilder, FrameResource |-> FrameResourceBuilder,
             FrameResourceTree |-> FrameResourceTreeBuilder, FrameTree |-> FrameTreeBuilder,
             NavigationEntry |-> NavigationEntryBuilder,
             ScreencastFrameMetadata |-> ScreencastFrameMetadataBuilder,
             AppManifestError |-> AppManifestErrorBuilder,
             LayoutViewport |-> LayoutViewportBuilder,
             VisualViewport |-> VisualViewportBuilder, Viewport |-> ViewportBuilder,
             DomContentEventFiredNotification |-> DomContentEventFiredNotificationBuilder,
             FrameAttachedNotification |-> FrameAttachedNotificationBuilder,
             FrameClearedScheduledNavigationNotification |-> FrameClearedScheduledNavigationNotificationBuilder,
             FrameDetachedNotification |-> FrameDetachedNotificationBuilder,
             FrameNavigatedNotification |-> FrameNavigatedNotificationBuilder,
             FrameScheduledNavigationNotification |-> FrameScheduledNavigationNotificationBuilder,
             FrameStartedLoadingNotification |-> FrameStartedLoadingNotificationBuilder,
             FrameStoppedLoadingNotification |-> FrameStoppedLoadingNotificationBuilder,
             JavascriptDialogClosedNotification |-> JavascriptDialogClosedNotificationBuilder,
             JavascriptDialogOpeningNotification |-> JavascriptDialogOpeningNotificationBuilder,
             LifecycleEventNotification |-> LifecycleEventNotificationBuilder,
             LoadEventFiredNotification |-> LoadEventFiredNotificationBuilder,
             NavigatedWithinDocumentNotification |-> NavigatedWithinDocumentNotificationBuilder,
             ScreencastFrameNotification |-> ScreencastFrameNotificationBuilder,
             ScreencastVisibilityChangedNotification |-> ScreencastVisibilityChangedNotificationBuilder,
             WindowOpenNotification |-> WindowOpenNotificationBuilder]
Commands == [addScriptToEvaluateOnLoad |-> addScriptToEvaluateOnLoad,
             addScriptToEvaluateOnNewDocument |-> addScriptToEvaluateOnNewDocument,
             bringToFront |-> bringToFront, captureScreenshot |-> captureScreenshot,
             createIsolatedWorld |-> createIsolatedWorld, disable |-> disable,
             enable |-> enable, getAppManifest |-> getAppManifest,
             getFrameTree |-> getFrameTree, getLayoutMetrics |-> getLayoutMetrics,
             getNavigationHistory |-> getNavigationHistory,
             getResourceContent |-> getResourceContent, getResourceTree |-> getResourceTree,
             handleJavaScriptDialog |-> handleJavaScriptDialog, navigate |-> navigate,
             navigateToHistoryEntry |-> navigateToHistoryEntry, printToPDF |-> printToPDF,
             reload |-> reload,
             removeScriptToEvaluateOnLoad |-> removeScriptToEvaluateOnLoad,
             removeScriptToEvaluateOnNewDocument |-> removeScriptToEvaluateOnNewDocument,
             requestAppBanner |-> requestAppBanner,
             screencastFrameAck |-> screencastFrameAck,
             searchInResource |-> searchInResource,
             setAdBlockingEnabled |-> setAdBlockingEnabled, setBypassCSP |-> setBypassCSP,
             setDocumentContent |-> setDocumentContent,
             setDownloadBehavior |-> setDownloadBehavior,
             setLifecycleEventsEnabled |-> setLifecycleEventsEnabled,
             startScreencast |-> startScreencast, stopLoading |-> stopLoading,
             crash |-> crash, stopScreencast |-> stopScreencast]
Events == [domContentEventFired |-> domContentEventFired, frameAttached |-> frameAttached,
           frameClearedScheduledNavigation |-> frameClearedScheduledNavigation,
           frameDetached |-> frameDetached, frameNavigated |-> frameNavigated,
           frameResized |-> frameResized,
           frameScheduledNavigation |-> frameScheduledNavigation,
           frameStartedLoading |-> frameStartedLoading,
           frameStoppedLoading |-> frameStoppedLoading,
           interstitialHidden |-> interstitialHidden,
           interstitialShown |-> interstitialShown,
           javascriptDialogClosed |-> javascriptDialogClosed,
           javascriptDialogOpening |-> javascriptDialogOpening,
           lifecycleEvent |-> lifecycleEvent, loadEventFired |-> loadEventFired,
           navigatedWithinDocument |-> navigatedWithinDocument,
           screencastFrame |-> screencastFrame,
           screencastVisibilityChanged |-> screencastVisibilityChanged,
           windowOpen |-> windowOpen]
==============================================================================
