-------------------------- MODULE ProtocolNetwork --------------------------
(*****************************************************************************)
(* The Network domain of the debugging protocol: requests and responses,      *)
(* referred to by the page domain. No agent of the session serves its         *)
(* commands. A type is the fields its fromValue reads and its toValue writes, *)
(* in their order; its builder is the fields whose setters build() demands; a *)
(* command is the parameters its handler reads and the results it writes; a   *)
(* notification is the fields of the message that the front end object sends. *)
(*****************************************************************************)
EXTENDS WireTypes

(* Types *)
ResourceTiming == <<Req("requestTime", Num), Req("proxyStart", Num), Req("proxyEnd", Num),
                    Req("dnsStart", Num), Req("dnsEnd", Num), Req("connectStart", Num),
                    Req("connectEnd", Num), Req("sslStart", Num), Req("sslEnd", Num),
                    Req("workerStart", Num), Req("workerReady", Num), Req("sendStart", Num),
                    Req("sendEnd", Num), Req("pushStart", Num), Req("pushEnd", Num),
                    Req("receiveHeadersEnd", Num)>>
Request == <<Req("url", Str), Req("method", Str), Req("headers", Dict),
             Opt("postData", Str), Opt("hasPostData", Bool), Opt("mixedContentType", Str),
             Req("initialPriority", Str), Req("referrerPolicy", Str),
             Opt("isLinkPreload", Bool)>>
SignedCertificateTimestamp == <<Req("status", Str), Req("origin", Str),
                                Req("logDescription", Str), Req("logId", Str),
                                Req("timestamp", Num), Req("hashAlgorithm", Str),
                                Req("signatureAlgorithm", Str), Req("signatureData", Str)>>
SecurityDetails == <<Req("protocol", Str), Req("keyExchange", Str),
                     Opt("keyExchangeGroup", Str), Req("cipher", Str), Opt("mac", Str),
                     Req("certificateId", Int32), Req("subjectName", Str),
                     Req("sanList", ArrayOf(Str)), Req("issuer", Str),
                     Req("validFrom", Num), Req("validTo", Num),
                     Req("signedCertificateTimestampList", ArrayOf(Ref("Network", "SignedCertificateTimestamp"))),
                     Req("certificateTransparencyCompliance", Str)>>
Response == <<Req("url", Str), Req("status", Int32), Req("statusText", Str),
              Req("headers", Dict), Opt("headersText", Str), Req("mimeType", Str),
              Opt("requestHeaders", Dict), Opt("requestHeadersText", Str),
              Req("connectionReused", Bool), Req("connectionId", Num),
              Opt("remoteIPAddress", Str), Opt("remotePort", Int32),
              Opt("fromDiskCache", Bool), Opt("fromServiceWorker", Bool),
              Req("encodedDataLength", Num),
              Opt("timing", Ref("Network", "ResourceTiming")), Opt("protocol", Str),
              Req("securityState", Str),
              Opt("securityDetails", Ref("Network", "SecurityDetails"))>>
WebSocketRequest == <<Req("headers", Dict)>>
WebSocketResponse == <<Req("status", Int32), Req("statusText", Str), Req("headers", Dict),
                       Opt("headersText", Str), Opt("requestHeaders", Dict),
                       Opt("requestHeadersText", Str)>>
WebSocketFrame == <<Req("opcode", Num), Req("mask", Bool), Req("payloadData", Str)>>
Initiator == <<Req("type", Str), Opt("stack", Ref("Runtime", "StackTrace")),
               Opt("url", Str), Opt("lineNumber", Num)>>
Cookie == <<Req("name", Str), Req("value", Str), Req("domain", Str), Req("path", Str),
            Req("expires", Num), Req("size", Int32), Req("httpOnly", Bool),
            Req("secure", Bool), Req("session", Bool), Opt("sameSite", Str)>>
CookieParam == <<Req("name", Str), Req("value", Str), Opt("url", Str), Opt("domain", Str),
                 Opt("path", Str), Opt("secure", Bool), Opt("httpOnly", Bool),
                 Opt("sameSite", Str), Opt("expires", Num)>>
AuthChallenge == <<Opt("source", Str), Req("origin", Str), Req("scheme", Str),
                   Req("realm", Str)>>
AuthChallengeResponse == <<Req("response", Str), Opt("username", Str),
                           Opt("password", Str)>>
RequestPattern == <<Opt("urlPattern", Str), Opt("resourceType", Str),
                    Opt("interceptionStage", Str)>>

(* Builders of the types *)
ResourceTimingBuilder == {"requestTime", "proxyStart", "proxyEnd", "dnsStart", "dnsEnd",
                          "connectStart", "connectEnd", "sslStart", "sslEnd", "workerStart",
                          "workerReady", "sendStart", "sendEnd", "pushStart", "pushEnd",
                          "receiveHeadersEnd"}
RequestBuilder == {"url", "method", "headers", "initialPriority", "referrerPolicy"}
SignedCertificateTimestampBuilder == {"status", "origin", "logDescription", "logId",
                                      "timestamp", "hashAlgorithm", "signatureAlgorithm",
                                      "signatureData"}
SecurityDetailsBuilder == {"protocol", "keyExchange", "cipher", "certificateId",
                           "subjectName", "sanList", "issuer", "validFrom", "validTo",
                           "signedCertificateTimestampList",
                           "certificateTransparencyCompliance"}
ResponseBuilder == {"url", "status", "statusText", "headers", "mimeType",
                    "connectionReused", "connectionId", "encodedDataLength",
                    "securityState"}
WebSocketRequestBuilder == {"headers"}
WebSocketResponseBuilder == {"status", "statusText", "headers"}
WebSocketFrameBuilder == {"opcode", "mask", "payloadData"}
InitiatorBuilder == {"type"}
CookieBuilder == {"name", "value", "domain", "path", "expires", "size", "httpOnly",
                  "secure", "session"}
CookieParamBuilder == {"name", "value"}
AuthChallengeBuilder == {"origin", "scheme", "realm"}
AuthChallengeResponseBuilder == {"response"}
RequestPatternBuilder == {}

(* Commands: parameters and results *)
canClearBrowserCache == Sync(<<>>, <<Req("result", Bool)>>)
canClearBrowserCookies == Sync(<<>>, <<Req("result", Bool)>>)
canEmulateNetworkConditions == Sync(<<>>, <<Req("result", Bool)>>)
clearBrowserCache == Sync(<<>>, <<>>)
clearBrowserCookies == Sync(<<>>, <<>>)
continueInterceptedRequest == Sync(<<Req("interceptionId", Str), Opt("errorReason", Str),
                                     Opt("rawResponse", Str), Opt("url", Str),
                                     Opt("method", Str), Opt("postData", Str),
                                     Opt("headers", Dict),
                                     Opt("authChallengeResponse", Ref("Network", "AuthChallengeResponse"))>>,
                                   <<>>)
deleteCookies == Sync(<<Req("name", Str), Opt("url", Str), Opt("domain", Str),
                        Opt("path", Str)>>,
                      <<>>)
disable == Sync(<<>>, <<>>)
emulateNetworkConditions == Sync(<<Req("offline", Bool), Req("latency", Num),
                                   Req("downloadThroughput", Num),
                                   Req("uploadThroughput", Num),
                                   Opt("connectionType", Str)>>,
                                 <<>>)
enable == Sync(<<Opt("maxTotalBufferSize", Int32), Opt("maxResourceBufferSize", Int32),
                 Opt("maxPostDataSize", Int32)>>,
               <<>>)
getAllCookies == Sync(<<>>, <<Req("cookies", ArrayOf(Ref("Network", "Cookie")))>>)
getCertificate == Sync(<<Req("origin", Str)>>, <<Req("tableNames", ArrayOf(Str))>>)
getCookies == Sync(<<Opt("urls", ArrayOf(Str))>>,
                   <<Req("cookies", ArrayOf(Ref("Network", "Cookie")))>>)
getResponseBody == Sync(<<Req("requestId", Str)>>,
                        <<Req("body", Str), Req("base64Encoded", Bool)>>)
getRequestPostData == Sync(<<Req("requestId", Str)>>, <<Req("postData", Str)>>)
getResponseBodyForInterception == Sync(<<Req("interceptionId", Str)>>,
                                       <<Req("body", Str), Req("base64Encoded", Bool)>>)
replayXHR == Sync(<<Req("requestId", Str)>>, <<>>)
searchInResponseBody == Sync(<<Req("requestId", Str), Req("query", Str),
                               Opt("caseSensitive", Bool), Opt("isRegex", Bool)>>,
                             <<Req("result", ArrayOf(Ref("Debugger", "SearchMatch")))>>)
setBlockedURLs == Sync(<<Req("urls", ArrayOf(Str))>>, <<>>)
setBypassServiceWorker == Sync(<<Req("bypass", Bool)>>, <<>>)
setCacheDisabled == Sync(<<Req("cacheDisabled", Bool)>>, <<>>)
setCookie == Sync(<<Req("name", Str), Req("value", Str), Opt("url", Str),
                    Opt("domain", Str), Opt("path", Str), Opt("secure", Bool),
                    Opt("httpOnly", Bool), Opt("sameSite", Str), Opt("expires", Num)>>,
                  <<Req("success", Bool)>>)
setCookies == Sync(<<Req("cookies", ArrayOf(Ref("Network", "CookieParam")))>>, <<>>)
setDataSizeLimitsForTest == Sync(<<Req("maxTotalSize", Int32),
                                   Req("maxResourceSize", Int32)>>,
                                 <<>>)
setExtraHTTPHeaders == Sync(<<Req("headers", Dict)>>, <<>>)
setRequestInterception == Sync(<<Req("patterns", ArrayOf(Ref("Network", "RequestPattern")))>>,
                               <<>>)
setUserAgentOverride == Sync(<<Req("userAgent", Str)>>, <<>>)

(* Notifications: the message, its builder and what the front end object sets *)
DataReceivedNotification == <<Req("requestId", Str), Req("timestamp", Num),
                              Req("dataLength", Int32), Req("encodedDataLength", Int32)>>
EventSourceMessageReceivedNotification == <<Req("requestId", Str), Req("timestamp", Num),
                                            Req("eventName", Str), Req("eventId", Str),
                                            Req("data", Str)>>
LoadingFailedNotification == <<Req("requestId", Str), Req("timestamp", Num),
                               Req("type", Str), Req("errorText", Str),
                               Opt("canceled", Bool), Opt("blockedReason", Str)>>
LoadingFinishedNotification == <<Req("requestId", Str), Req("timestamp", Num),
                                 Req("encodedDataLength", Num),
                                 Opt("blockedCrossSiteDocument", Bool)>>
RequestInterceptedNotification == <<Req("interceptionId", Str),
                                    Req("request", Ref("Network", "Request")),
                                    Req("frameId", Str), Req("resourceType", Str),
                                    Req("isNavigationRequest", Bool),
                                    Opt("redirectUrl", Str),
                                    Opt("authChallenge", Ref("Network", "AuthChallenge")),
                                    Opt("responseErrorReason", Str),
                                    Opt("responseStatusCode", Int32),
                                    Opt("responseHeaders", Dict)>>
RequestServedFromCacheNotification == <<Req("requestId", Str)>>
RequestWillBeSentNotification == <<Req("requestId", Str), Req("loaderId", Str),
                                   Req("documentURL", Str),
                                   Req("request", Ref("Network", "Request")),
                                   Req("timestamp", Num), Req("wallTime", Num),
                                   Req("initiator", Ref("Network", "Initiator")),
                                   Opt("redirectResponse", Ref("Network", "Response")),
                                   Opt("type", Str), Opt("frameId", Str),
                                   Opt("hasUserGesture", Bool)>>
ResourceChangedPriorityNotification == <<Req("requestId", Str), Req("newPriority", Str),
                                         Req("timestamp", Num)>>
ResponseReceivedNotification == <<Req("requestId", Str), Req("loaderId", Str),
                                  Req("timestamp", Num), Req("type", Str),
                                  Req("response", Ref("Network", "Response")),
                                  Opt("frameId", Str)>>
WebSocketClosedNotification == <<Req("requestId", Str), Req("timestamp", Num)>>
WebSocketCreatedNotification == <<Req("requestId", Str), Req("url", Str),
                                  Opt("initiator", Ref("Network", "Initiator"))>>
WebSocketFrameErrorNotification == <<Req("requestId", Str), Req("timestamp", Num),
                                     Req("errorMessage", Str)>>
WebSocketFrameReceivedNotification == <<Req("requestId", Str), Req("timestamp", Num),
                                        Req("response", Ref("Network", "WebSocketFrame"))>>
WebSocketFrameSentNotification == <<Req("requestId", Str), Req("timestamp", Num),
                                    Req("response", Ref("Network", "WebSocketFrame"))>>
WebSocketHandshakeResponseReceivedNotification == <<
     Req("requestId", Str), Req("timestamp", Num),
     Req("response", Ref("Network", "WebSocketResponse"))>>
WebSocketWillSendHandshakeRequestNotification == <<
     Req("requestId", Str), Req("timestamp", Num), Req("wallTime", Num),
     Req("request", Ref("Network", "WebSocketRequest"))>>
DataReceivedNotificationBuilder == {"requestId", "timestamp", "dataLength",
                                    "encodedDataLength"}
EventSourceMessageReceivedNotificationBuilder == {
     "requestId", "timestamp", "eventName", "eventId", "data"}
LoadingFailedNotificationBuilder == {"requestId", "timestamp", "type", "errorText"}
LoadingFinishedNotificationBuilder == {"requestId", "timestamp", "encodedDataLength"}
RequestInterceptedNotificationBuilder == {"interceptionId", "request", "frameId",
                                          "resourceType", "isNavigationRequest"}
RequestServedFromCacheNotificationBuilder == {"requestId"}
RequestWillBeSentNotificationBuilder == {"requestId", "loaderId", "documentURL", "request",
                                         "timestamp", "wallTime", "initiator"}
ResourceChangedPriorityNotificationBuilder == {"requestId", "newPriority", "timestamp"}
ResponseReceivedNotificationBuilder == {"requestId", "loaderId", "timestamp", "type",
                                        "response"}
WebSocketClosedNotificationBuilder == {"requestId", "timestamp"}
WebSocketCreatedNotificationBuilder == {"requestId", "url"}
WebSocketFrameErrorNotificationBuilder == {"requestId", "timestamp", "errorMessage"}
WebSocketFrameReceivedNotificationBuilder == {"requestId", "timestamp", "response"}
WebSocketFrameSentNotificationBuilder == {"requestId", "timestamp", "response"}
WebSocketHandshakeResponseReceivedNotificationBuilder == {
     "requestId", "timestamp", "response"}
WebSocketWillSendHandshakeRequestNotificationBuilder == {
     "requestId", "timestamp", "wallTime", "request"}
dataReceived == Event("DataReceivedNotification",
                      {"requestId", "timestamp", "dataLength", "encodedDataLength"},
                      {})
eventSourceMessageReceived == Event("EventSourceMessageReceivedNotification",
                                    {"requestId", "timestamp", "eventName", "eventId",
                                     "data"},
                                    {})
loadingFailed == Event("LoadingFailedNotification",
                       {"requestId", "timestamp", "type", "errorText"},
                       {"canceled", "blockedReason"})
loadingFinished == Event("LoadingFinishedNotification",
                         {"requestId", "timestamp", "encodedDataLength"},
                         {"blockedCrossSiteDocument"})
requestIntercepted == Event("RequestInterceptedNotification",
                            {"interceptionId", "request", "frameId", "resourceType",
                             "isNavigationRequest"},
                            {"redirectUrl", "authChallenge", "responseErrorReason",
                             "responseStatusCode", "responseHeaders"})
requestServedFromCache == Event("RequestServedFromCacheNotification", {"requestId"}, {})
requestWillBeSent == Event("RequestWillBeSentNotification",
                           {"requestId", "loaderId", "documentURL", "request", "timestamp",
                            "wallTime", "initiator"},
                           {"redirectResponse", "type", "frameId", "hasUserGesture"})
resourceChangedPriority == Event("ResourceChangedPriorityNotification",
                                 {"requestId", "newPriority", "timestamp"},
                                 {})
responseReceived == Event("ResponseReceivedNotification",
                          {"requestId", "loaderId", "timestamp", "type", "response"},
                          {"frameId"})
webSocketClosed == Event("WebSocketClosedNotification", {"requestId", "timestamp"}, {})
webSocketCreated == Event("WebSocketCreatedNotification",
                          {"requestId", "url"},
                          {"initiator"})
webSocketFrameError == Event("WebSocketFrameErrorNotification",
                             {"requestId", "timestamp", "errorMessage"},
                             {})
webSocketFrameReceived == Event("WebSocketFrameReceivedNotification",
                                {"requestId", "timestamp", "response"},
                                {})
webSocketFrameSent == Event("WebSocketFrameSentNotification",
                            {"requestId", "timestamp", "response"},
                            {})
webSocketHandshakeResponseReceived == Event("WebSocketHandshakeResponseReceivedNotification",
                                            {"requestId", "timestamp", "response"},
                                            {})
webSocketWillSendHandshakeRequest == Event("WebSocketWillSendHandshakeRequestNotification",
                                           {"requestId", "timestamp", "wallTime",
                                            "request"},
                                           {})

------------------------------------------------------------------------------
(* The tables of the domain *)
Types == [ResourceTiming |-> ResourceTiming, Request |-> Request,
          SignedCertificateTimestamp |-> SignedCertificateTimestamp,
          SecurityDetails |-> SecurityDetails, Response |-> Response,
          WebSocketRequest |-> WebSocketRequest, WebSocketResponse |-> WebSocketResponse,
          WebSocketFrame |-> WebSocketFrame, Initiator |-> Initiator, Cookie |-> Cookie,
          CookieParam |-> CookieParam, AuthChallenge |-> AuthChallenge,
          AuthChallengeResponse |-> AuthChallengeResponse,
          RequestPattern |-> RequestPattern,
          DataReceivedNotification |-> DataReceivedNotification,
          EventSourceMessageReceivedNotification |-> EventSourceMessageReceivedNotification,
          LoadingFailedNotification |-> LoadingFailedNotification,
          LoadingFinishedNotification |-> LoadingFinishedNotification,
          RequestInterceptedNotification |-> RequestInterceptedNotification,
          RequestServedFromCacheNotification |-> RequestServedFromCacheNotification,
          RequestWillBeSentNotification |-> RequestWillBeSentNotification,
          ResourceChangedPriorityNotification |-> ResourceChangedPriorityNotification,
          ResponseReceivedNotification |-> ResponseReceivedNotification,
          WebSocketClosedNotification |-> WebSocketClosedNotification,
          WebSocketCreatedNotification |-> WebSocketCreatedNotification,
          WebSocketFrameErrorNotification |-> WebSocketFrameErrorNotification,
          WebSocketFrameReceivedNotification |-> WebSocketFrameReceivedNotification,
          WebSocketFrameSentNotification |-> WebSocketFrameSentNotification,
          WebSocketHandshakeResponseReceivedNotification |-> WebSocketHandshakeResponseReceivedNotification,
          WebSocketWillSendHandshakeRequestNotification |-> WebSocketWillSendHandshakeRequestNotification]
Builders == [ResourceTiming |-> ResourceTimingBuilder, Request |-> RequestBuilder,
             SignedCertificateTimestamp |-> SignedCertificateTimestampBuilder,
             SecurityDetails |-> SecurityDetailsBuilder, Response |-> ResponseBuilder,
             WebSocketRequest |-> WebSocketRequestBuilder,
             WebSocketResponse |-> WebSocketResponseBuilder,
             WebSocketFrame |-> WebSocketFrameBuilder, Initiator |-> InitiatorBuilder,
             Cookie |-> CookieBuilder, CookieParam |-> CookieParamBuilder,
             AuthChallenge |-> AuthChallengeBuilder,
             AuthChallengeResponse |-> AuthChallengeResponseBuilder,
             RequestPattern |-> RequestPatternBuilder,
             DataReceivedNotification |-> DataReceivedNotificationBuilder,
             EventSourceMessageReceivedNotification |-> EventSourceMessageReceivedNotificationBuilder,
             LoadingFailedNotification |-> LoadingFailedNotificationBuilder,
             LoadingFinishedNotification |-> LoadingFinishedNotificationBuilder,
             RequestInterceptedNotification |-> RequestInterceptedNotificationBuilder,
             RequestServedFromCacheNotification |-> RequestServedFromCacheNotificationBuilder,
             RequestWillBeSentNotification |-> RequestWillBeSentNotificationBuilder,
             ResourceChangedPriorityNotification |-> ResourceChangedPriorityNotificationBuilder,
             ResponseReceivedNotification |-> ResponseReceivedNotificationBuilder,
             WebSocketClosedNotification |-> WebSocketClosedNotificationBuilder,
             WebSocketCreatedNotification |-> WebSocketCreatedNotificationBuilder,
             WebSocketFrameErrorNotification |-> WebSocketFrameErrorNotificationBuilder,
             WebSocketFrameReceivedNotification |-> WebSocketFrameReceivedNotificationBuilder,
             WebSocketFrameSentNotification |-> WebSocketFrameSentNotificationBuilder,
             WebSocketHandshakeResponseReceivedNotification |-> WebSocketHandshakeResponseReceivedNotificationBuilder,
             WebSocketWillSendHandshakeRequestNotification |-> WebSocketWillSendHandshakeRequestNotificationBuilder]
Commands == [canClearBrowserCache |-> canClearBrowserCache,
             canClearBrowserCookies |-> canClearBrowserCookies,
             canEmulateNetworkConditions |-> canEmulateNetworkConditions,
             clearBrowserCache |-> clearBrowserCache,
             clearBrowserCookies |-> clearBrowserCookies,
             continueInterceptedRequest |-> continueInterceptedRequest,
             deleteCookies |-> deleteCookies, disable |-> disable,
             emulateNetworkConditions |-> emulateNetworkConditions, enable |-> enable,
             getAllCookies |-> getAllCookies, getCertificate |-> getCertificate,
             getCookies |-> getCookies, getResponseBody |-> getResponseBody,
             getRequestPostData |-> getRequestPostData,
             getResponseBodyForInterception |-> getResponseBodyForInterception,
             replayXHR |-> replayXHR, searchInResponseBody |-> searchInResponseBody,
             setBlockedURLs |-> setBlockedURLs,
             setBypassServiceWorker |-> setBypassServiceWorker,
             setCacheDisabled |-> setCacheDisabled, setCookie |-> setCookie,
             setCookies |-> setCookies,
             setDataSizeLimitsForTest |-> setDataSizeLimitsForTest,
             setExtraHTTPHeaders |-> setExtraHTTPHeaders,
             setRequestInterception |-> setRequestInterception,
             setUserAgentOverride |-> setUserAgentOverride]
Events == [dataReceived |-> dataReceived,
           eventSourceMessageReceived |-> eventSourceMessageReceived,
           loadingFailed |-> loadingFailed, loadingFinished |-> loadingFinished,
           requestIntercepted |-> requestIntercepted,
           requestServedFromCache |-> requestServedFromCache,
           requestWillBeSent |-> requestWillBeSent,
           resourceChangedPriority |-> resourceChangedPriority,
           responseReceived |-> responseReceived, webSocketClosed |-> webSocketClosed,
           webSocketCreated |-> webSocketCreated,
           webSocketFrameError |-> webSocketFrameError,
           webSocketFrameReceived |-> webSocketFrameReceived,
           webSocketFrameSent |-> webSocketFrameSent,
           webSocketHandshakeResponseReceived |-> webSocketHandshakeResponseReceived,
           webSocketWillSendHandshakeRequest |-> webSocketWillSendHandshakeRequest]
==============================================================================
