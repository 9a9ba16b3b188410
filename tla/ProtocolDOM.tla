---------------------------- MODULE ProtocolDOM ----------------------------
(*****************************************************************************)
(* The DOM domain of the debugging protocol: nodes, referred to by the page   *)
(* and overlay domains. No agent of the session serves its commands. A type   *)
(* is the fields its fromValue reads and its toValue writes, in their order;  *)
(* its builder is the fields whose setters build() demands; a command is the  *)
(* parameters its handler reads and the results it writes; a notification is  *)
(* the fields of the message that the front end object sends.                 *)
(*****************************************************************************)
EXTENDS WireTypes

(* Types *)
BackendNode == <<Req("nodeType", Int32), Req("nodeName", Str), Req("backendNodeId", Int32)>>
Node == <<Req("nodeId", Int32), Opt("parentId", Int32), Req("backendNodeId", Int32),
          Req("nodeType", Int32), Req("nodeName", Str), Req("localName", Str),
          Req("nodeValue", Str), Opt("childNodeCount", Int32),
          Opt("children", ArrayOf(Ref("DOM", "Node"))), Opt("attributes", ArrayOf(Str)),
          Opt("documentURL", Str), Opt("baseURL", Str), Opt("publicId", Str),
          Opt("systemId", Str), Opt("internalSubset", Str), Opt("xmlVersion", Str),
          Opt("name", Str), Opt("value", Str), Opt("pseudoType", Str),
          Opt("shadowRootType", Str), Opt("frameId", Str),
          Opt("contentDocument", Ref("DOM", "Node")),
          Opt("shadowRoots", ArrayOf(Ref("DOM", "Node"))),
          Opt("templateContent", Ref("DOM", "Node")),
          Opt("pseudoElements", ArrayOf(Ref("DOM", "Node"))),
          Opt("importedDocument", Ref("DOM", "Node")),
          Opt("distributedNodes", ArrayOf(Ref("DOM", "BackendNode"))), Opt("isSVG", Bool)>>
RGBA == <<Req("r", Int32), Req("g", Int32), Req("b", Int32), Opt("a", Num)>>
BoxModel == <<Req("content", ArrayOf(Num)), Req("padding", ArrayOf(Num)),
              Req("border", ArrayOf(Num)), Req("margin", ArrayOf(Num)), Req("width", Int32),
              Req("height", Int32), Opt("shapeOutside", Ref("DOM", "ShapeOutsideInfo"))>>
ShapeOutsideInfo == <<Req("bounds", ArrayOf(Num)), Req("shape", ArrayOf(AnyValue)),
                      Req("marginShape", ArrayOf(AnyValue))>>
Rect == <<Req("x", Num), Req("y", Num), Req("width", Num), Req("height", Num)>>

(* Builders of the types *)
BackendNodeBuilder == {"nodeType", "nodeName", "backendNodeId"}
NodeBuilder == {"nodeId", "backendNodeId", "nodeType", "nodeName", "localName", "nodeValue"}
RGBABuilder == {"r", "g", "b"}
BoxModelBuilder == {"content", "padding", "border", "margin", "width", "height"}
ShapeOutsideInfoBuilder == {"bounds", "shape", "marginShape"}
RectBuilder == {"x", "y", "width", "height"}

(* Commands: parameters and results *)
collectClassNamesFromSubtree == Sync(<<Req("nodeId", Int32)>>,
                                     <<Req("classNames", ArrayOf(Str))>>)
copyTo == Sync(<<Req("nodeId", Int32), Req("targetNodeId", Int32),
                 Opt("insertBeforeNodeId", Int32)>>,
               <<Req("nodeId", Int32)>>)
describeNode == Sync(<<Opt("nodeId", Int32), Opt("backendNodeId", Int32),
                       Opt("objectId", Str), Opt("depth", Int32), Opt("pierce", Bool)>>,
                     <<Req("node", Ref("DOM", "Node"))>>)
disable == Sync(<<>>, <<>>)
discardSearchResults == Sync(<<Req("searchId", Str)>>, <<>>)
enable == Sync(<<>>, <<>>)
focus == Sync(<<Opt("nodeId", Int32), Opt("backendNodeId", Int32), Opt("objectId", Str)>>,
              <<>>)
getAttributes == Sync(<<Req("nodeId", Int32)>>, <<Req("attributes", ArrayOf(Str))>>)
getBoxModel == Sync(<<Opt("nodeId", Int32), Opt("backendNodeId", Int32),
                      Opt("objectId", Str)>>,
                    <<Req("model", Ref("DOM", "BoxModel"))>>)
getDocument == Sync(<<Opt("depth", Int32), Opt("pierce", Bool)>>,
                    <<Req("root", Ref("DOM", "Node"))>>)
getFlattenedDocument == Sync(<<Opt("depth", Int32), Opt("pierce", Bool)>>,
                             <<Req("nodes", ArrayOf(Ref("DOM", "Node")))>>)
getNodeForLocation == Sync(<<Req("x", Int32), Req("y", Int32),
                             Opt("includeUserAgentShadowDOM", Bool)>>,
                           <<Req("nodeId", Int32)>>)
getOuterHTML == Sync(<<Opt("nodeId", Int32), Opt("backendNodeId", Int32),
                       Opt("objectId", Str)>>,
                     <<Req("outerHTML", Str)>>)
getRelayoutBoundary == Sync(<<Req("nodeId", Int32)>>, <<Req("nodeId", Int32)>>)
getSearchResults == Sync(<<Req("searchId", Str), Req("fromIndex", Int32),
                           Req("toIndex", Int32)>>,
                         <<Req("nodeIds", ArrayOf(Int32))>>)
markUndoableState == Sync(<<>>, <<>>)
moveTo == Sync(<<Req("nodeId", Int32), Req("targetNodeId", Int32),
                 Opt("insertBeforeNodeId", Int32)>>,
               <<Req("nodeId", Int32)>>)
performSearch == Sync(<<Req("query", Str), Opt("includeUserAgentShadowDOM", Bool)>>,
                      <<Req("searchId", Str), Req("resultCount", Int32)>>)
pushNodeByPathToFrontend == Sync(<<Req("path", Str)>>, <<Req("nodeId", Int32)>>)
pushNodesByBackendIdsToFrontend == Sync(<<Req("backendNodeIds", ArrayOf(Int32))>>,
                                        <<Req("nodeIds", ArrayOf(Int32))>>)
querySelector == Sync(<<Req("nodeId", Int32), Req("selector", Str)>>,
                      <<Req("nodeId", Int32)>>)
querySelectorAll == Sync(<<Req("nodeId", Int32), Req("selector", Str)>>,
                         <<Req("nodeIds", ArrayOf(Int32))>>)
redo == Sync(<<>>, <<>>)
removeAttribute == Sync(<<Req("nodeId", Int32), Req("name", Str)>>, <<>>)
removeNode == Sync(<<Req("nodeId", Int32)>>, <<>>)
requestChildNodes == Sync(<<Req("nodeId", Int32), Opt("depth", Int32),
                            Opt("pierce", Bool)>>,
                          <<>>)
requestNode == Sync(<<Req("objectId", Str)>>, <<Req("nodeId", Int32)>>)
resolveNode == Sync(<<Opt("nodeId", Int32), Opt("backendNodeId", Int32),
                      Opt("objectGroup", Str)>>,
                    <<Req("object", Ref("Runtime", "RemoteObject"))>>)
setAttributeValue == Sync(<<Req("nodeId", Int32), Req("name", Str), Req("value", Str)>>,
                          <<>>)
setAttributesAsText == Sync(<<Req("nodeId", Int32), Req("text", Str), Opt("name", Str)>>,
                            <<>>)
setFileInputFiles == Sync(<<Req("files", ArrayOf(Str)), Opt("nodeId", Int32),
                            Opt("backendNodeId", Int32), Opt("objectId", Str)>>,
                          <<>>)
setInspectedNode == Sync(<<Req("nodeId", Int32)>>, <<>>)
setNodeName == Sync(<<Req("nodeId", Int32), Req("name", Str)>>, <<Req("nodeId", Int32)>>)
setNodeValue == Sync(<<Req("nodeId", Int32), Req("value", Str)>>, <<>>)
setOuterHTML == Sync(<<Req("nodeId", Int32), Req("outerHTML", Str)>>, <<>>)
undo == Sync(<<>>, <<>>)
getFrameOwner == Sync(<<Req("frameId", Str)>>, <<Req("nodeId", Int32)>>)

(* Notifications: the message, its builder and what the front end object sets *)
AttributeModifiedNotification == <<Req("nodeId", Int32), Req("name", Str),
                                   Req("value", Str)>>
AttributeRemovedNotification == <<Req("nodeId", Int32), Req("name", Str)>>
CharacterDataModifiedNotification == <<Req("nodeId", Int32), Req("characterData", Str)>>
ChildNodeCountUpdatedNotification == <<Req("nodeId", Int32), Req("childNodeCount", Int32)>>
ChildNodeInsertedNotification == <<Req("parentNodeId", Int32), Req("previousNodeId", Int32),
                                   Req("node", Ref("DOM", "Node"))>>
ChildNodeRemovedNotification == <<Req("parentNodeId", Int32), Req("nodeId", Int32)>>
DistributedNodesUpdatedNotification == <<Req("insertionPointId", Int32),
                                         Req("distributedNodes", ArrayOf(Ref("DOM", "BackendNode")))>>
InlineStyleInvalidatedNotification == <<Req("nodeIds", ArrayOf(Int32))>>
PseudoElementAddedNotification == <<Req("parentId", Int32),
                                    Req("pseudoElement", Ref("DOM", "Node"))>>
PseudoElementRemovedNotification == <<Req("parentId", Int32),
                                      Req("pseudoElementId", Int32)>>
SetChildNodesNotification == <<Req("parentId", Int32),
                               Req("nodes", ArrayOf(Ref("DOM", "Node")))>>
ShadowRootPoppedNotification == <<Req("hostId", Int32), Req("rootId", Int32)>>
ShadowRootPushedNotification == <<Req("hostId", Int32), Req("root", Ref("DOM", "Node"))>>
AttributeModifiedNotificationBuilder == {"nodeId", "name", "value"}
AttributeRemovedNotificationBuilder == {"nodeId", "name"}
CharacterDataModifiedNotificationBuilder == {"nodeId", "characterData"}
ChildNodeCountUpdatedNotificationBuilder == {"nodeId", "childNodeCount"}
ChildNodeInsertedNotificationBuilder == {"parentNodeId", "previousNodeId", "node"}
ChildNodeRemovedNotificationBuilder == {"parentNodeId", "nodeId"}
DistributedNodesUpdatedNotificationBuilder == {"insertionPointId", "distributedNodes"}
InlineStyleInvalidatedNotificationBuilder == {"nodeIds"}
PseudoElementAddedNotificationBuilder == {"parentId", "pseudoElement"}
PseudoElementRemovedNotificationBuilder == {"parentId", "pseudoElementId"}
SetChildNodesNotificationBuilder == {"parentId", "nodes"}
ShadowRootPoppedNotificationBuilder == {"hostId", "rootId"}
ShadowRootPushedNotificationBuilder == {"hostId", "root"}
attributeModified == Event("AttributeModifiedNotification", {"nodeId", "name", "value"}, {})
attributeRemoved == Event("AttributeRemovedNotification", {"nodeId", "name"}, {})
characterDataModified == Event("CharacterDataModifiedNotification",
                               {"nodeId", "characterData"},
                               {})
childNodeCountUpdated == Event("ChildNodeCountUpdatedNotification",
                               {"nodeId", "childNodeCount"},
                               {})
childNodeInserted == Event("ChildNodeInsertedNotification",
                           {"parentNodeId", "previousNodeId", "node"},
                           {})
childNodeRemoved == Event("ChildNodeRemovedNotification", {"parentNodeId", "nodeId"}, {})
distributedNodesUpdated == Event("DistributedNodesUpdatedNotification",
                                 {"insertionPointId", "distributedNodes"},
                                 {})
documentUpdated == EmptyEvent
inlineStyleInvalidated == Event("InlineStyleInvalidatedNotification", {"nodeIds"}, {})
pseudoElementAdded == Event("PseudoElementAddedNotification",
                            {"parentId", "pseudoElement"},
                            {})
pseudoElementRemoved == Event("PseudoElementRemovedNotification",
                              {"parentId", "pseudoElementId"},
                              {})
setChildNodes == Event("SetChildNodesNotification", {"parentId", "nodes"}, {})
shadowRootPopped == Event("ShadowRootPoppedNotification", {"hostId", "rootId"}, {})
shadowRootPushed == Event("ShadowRootPushedNotification", {"hostId", "root"}, {})

------------------------------------------------------------------------------
(* The tables of the domain *)
Types == [BackendNode |-> BackendNode, Node |-> Node, RGBA |-> RGBA, BoxModel |-> BoxModel,
          ShapeOutsideInfo |-> ShapeOutsideInfo, Rect |-> Rect,
          AttributeModifiedNotification |-> AttributeModifiedNotification,
          AttributeRemovedNotification |-> AttributeRemovedNotification,
          CharacterDataModifiedNotification |-> CharacterDataModifiedNotification,
          ChildNodeCountUpdatedNotification |-> ChildNodeCountUpdatedNotification,
          ChildNodeInsertedNotification |-> ChildNodeInsertedNotification,
          ChildNodeRemovedNotification |-> ChildNodeRemovedNotification,
          DistributedNodesUpdatedNotification |-> DistributedNodesUpdatedNotification,
          InlineStyleInvalidatedNotification |-> InlineStyleInvalidatedNotification,
          PseudoElementAddedNotification |-> PseudoElementAddedNotification,
          PseudoElementRemovedNotification |-> PseudoElementRemovedNotification,
          SetChildNodesNotification |-> SetChildNodesNotification,
          ShadowRootPoppedNotification |-> ShadowRootPoppedNotification,
          ShadowRootPushedNotification |-> ShadowRootPushedNotification]
Builders == [BackendNode |-> BackendNodeBuilder, Node |-> NodeBuilder, RGBA |-> RGBABuilder,
             BoxModel |-> BoxModelBuilder, ShapeOutsideInfo |-> ShapeOutsideInfoBuilder,
             Rect |-> RectBuilder,
             AttributeModifiedNotification |-> AttributeModifiedNotificationBuilder,
             AttributeRemovedNotification |-> AttributeRemovedNotificationBuilder,
             CharacterDataModifiedNotification |-> CharacterDataModifiedNotificationBuilder,
             ChildNodeCountUpdatedNotification |-> ChildNodeCountUpdatedNotificationBuilder,
             ChildNodeInsertedNotification |-> ChildNodeInsertedNotificationBuilder,
             ChildNodeRemovedNotification |-> ChildNodeRemovedNotificationBuilder,
             DistributedNodesUpdatedNotification |-> DistributedNodesUpdatedNotificationBuilder,
             InlineStyleInvalidatedNotification |-> InlineStyleInvalidatedNotificationBuilder,
             PseudoElementAddedNotification |-> PseudoElementAddedNotificationBuilder,
             PseudoElementRemovedNotification |-> PseudoElementRemovedNotificationBuilder,
             SetChildNodesNotification |-> SetChildNodesNotificationBuilder,
             ShadowRootPoppedNotification |-> ShadowRootPoppedNotificationBuilder,
             ShadowRootPushedNotification |-> ShadowRootPushedNotificationBuilder]
Commands == [collectClassNamesFromSubtree |-> collectClassNamesFromSubtree,
             copyTo |-> copyTo, describeNode |-> describeNode, disable |-> disable,
             discardSearchResults |-> discardSearchResults, enable |-> enable,
             focus |-> focus, getAttributes |-> getAttributes, getBoxModel |-> getBoxModel,
             getDocument |-> getDocument, getFlattenedDocument |-> getFlattenedDocument,
             getNodeForLocation |-> getNodeForLocation, getOuterHTML |-> getOuterHTML,
             getRelayoutBoundary |-> getRelayoutBoundary,
             getSearchResults |-> getSearchResults, markUndoableState |-> markUndoableState,
             moveTo |-> moveTo, performSearch |-> performSearch,
             pushNodeByPathToFrontend |-> pushNodeByPathToFrontend,
             pushNodesByBackendIdsToFrontend |-> pushNodesByBackendIdsToFrontend,
             querySelector |-> querySelector, querySelectorAll |-> querySelectorAll,
             redo |-> redo, removeAttribute |-> removeAttribute, removeNode |-> removeNode,
             requestChildNodes |-> requestChildNodes, requestNode |-> requestNode,
             resolveNode |-> resolveNode, setAttributeValue |-> setAttributeValue,
             setAttributesAsText |-> setAttributesAsText,
             setFileInputFiles |-> setFileInputFiles, setInspectedNode |-> setInspectedNode,
             setNodeName |-> setNodeName, setNodeValue |-> setNodeValue,
             setOuterHTML |-> setOuterHTML, undo |-> undo, getFrameOwner |-> getFrameOwner]
Events == [attributeModified |-> attributeModified, attributeRemoved |-> attributeRemoved,
           characterDataModified |-> characterDataModified,
           childNodeCountUpdated |-> childNodeCountUpdated,
           childNodeInserted |-> childNodeInserted, childNodeRemoved |-> childNodeRemoved,
           distributedNodesUpdated |-> distributedNodesUpdated,
           documentUpdated |-> documentUpdated,
           inlineStyleInvalidated |-> inlineStyleInvalidated,
           pseudoElementAdded |-> pseudoElementAdded,
           pseudoElementRemoved |-> pseudoElementRemoved, setChildNodes |-> setChildNodes,
           shadowRootPopped |-> shadowRootPopped, shadowRootPushed |-> shadowRootPushed]
==============================================================================
