--------------------------- MODULE ProtocolSchema ---------------------------
(*****************************************************************************)
(* The Schema domain of the debugging protocol: the list of domains. The      *)
(* session wires its commands to an agent. A type is the fields its fromValue *)
(* reads and its toValue writes, in their order; its builder is the fields    *)
(* whose setters build() demands; a command is the parameters its handler     *)
(* reads and the results it writes; a notification is the fields of the       *)
(* message that the front end object sends.                                   *)
(*****************************************************************************)
EXTENDS WireTypes

(* Types *)
Domain == <<Req("name", Str), Req("version", Str)>>

(* Builders of the types *)
DomainBuilder == {"name", "version"}

(* Commands: parameters and results *)
getDomains == Sync(<<>>, <<Req("domains", ArrayOf(Ref("Schema", "Domain")))>>)

------------------------------------------------------------------------------
(* The tables of the domain *)
Types == [Domain |-> Domain]
Builders == [Domain |-> DomainBuilder]
Commands == [getDomains |-> getDomains]
Events == EmptyTable
==============================================================================
