------------------------------ MODULE WireTypes ------------------------------
(****************************************************************************)
(* The vocabulary in which the domains of the debugging protocol are        *)
(* written down: the kinds of value that ValueConversions knows, the fields *)
(* of an object, and what a command and a notification consist of.          *)
(****************************************************************************)

(* Kinds of value *)
Str == [kind |-> "string"]
Int32 == [kind |-> "int"]
Num == [kind |-> "double"]
Bool == [kind |-> "bool"]
AnyValue == [kind |-> "any"]
Dict == [kind |-> "dictionary"]
ArrayOf(item) == [kind |-> "array", item |-> item]
Ref(domain, name) == [kind |-> "ref", domain |-> domain, name |-> name]

(* A field that must be there, and one held in a Maybe. *)
Req(name, type) == [name |-> name, type |-> type, opt |-> FALSE]
Opt(name, type) == [name |-> name, type |-> type, opt |-> TRUE]

(* A handler that answers when it returns, and one that hands the backend a callback. *)
Sync(params, results) == [async |-> FALSE, params |-> params, results |-> results]
Async(params, results) == [async |-> TRUE, params |-> params, results |-> results]

(* A notification: its message, the fields set while building it, and those set when given. *)
Event(message, always, given) == [message |-> message, always |-> always, given |-> given]
EmptyEvent == Event("", {}, {})

EmptyTable == [name \in {} |-> <<>>]
==============================================================================
