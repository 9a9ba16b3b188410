-------------------------- MODULE ProtocolConsole --------------------------
(*****************************************************************************)
(* The Console domain of the debugging protocol: the console messages kept    *)
(* for a late front end. The session wires its commands to an agent. A type   *)
(* is the fields its fromValue reads and its toValue writes, in their order;  *)
(* its builder is the fields whose setters build() demands; a command is the  *)
(* parameters its handler reads and the results it writes; a notification is  *)
(* the fields of the message that the front end object sends.                 *)
(*****************************************************************************)
EXTENDS WireTypes

(* Types *)
ConsoleMessage == <<Req("source", Str), Req("level", Str), Req("text", Str),
                    Opt("url", Str), Opt("line", Int32), Opt("column", Int32)>>

(* Builders of the types *)
ConsoleMessageBuilder == {"source", "level", "text"}

(* Commands: parameters and results *)
clearMessages == Sync(<<>>, <<>>)
disable == Sync(<<>>, <<>>)
enable == Sync(<<>>, <<>>)

(* Notifications: the message, its builder and what the front end object sets *)
MessageAddedNotification == <<Req("message", Ref("Console", "ConsoleMessage"))>>
MessageAddedNotificationBuilder == {"message"}
messageAdded == Event("MessageAddedNotification", {"message"}, {})

------------------------------------------------------------------------------
(* The tables of the domain *)
Types == [ConsoleMessage |-> ConsoleMessage,
          MessageAddedNotification |-> MessageAddedNotification]
Builders == [ConsoleMessage |-> ConsoleMessageBuilder,
             MessageAddedNotification |-> MessageAddedNotificationBuilder]
Commands == [clearMessages |-> clearMessages, disable |-> disable, enable |-> enable]
Events == [messageAdded |-> messageAdded]
==============================================================================
