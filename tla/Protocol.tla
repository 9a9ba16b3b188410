------------------------------ MODULE Protocol ------------------------------
(****************************************************************************)
(* The debugging protocol as the inspector speaks it: the conversions of    *)
(* Protocol.h between typed objects and JSON values, over the tables of the *)
(* domains, with the errors they collect on the way. A typed object is a    *)
(* function from the names of the fields it has to their contents, an array *)
(* the record of its items.                                                 *)
(****************************************************************************)
EXTENDS JsonText, WireTypes, TLC

RuntimeDomain == INSTANCE ProtocolRuntime
DebuggerDomain == INSTANCE ProtocolDebugger
ProfilerDomain == INSTANCE ProtocolProfiler
HeapProfilerDomain == INSTANCE ProtocolHeapProfiler
ConsoleDomain == INSTANCE ProtocolConsole
SchemaDomain == INSTANCE ProtocolSchema
PageDomain == INSTANCE ProtocolPage
OverlayDomain == INSTANCE ProtocolOverlay
DOMDomain == INSTANCE ProtocolDOM
NetworkDomain == INSTANCE ProtocolNetwork

TypesOf == [Runtime |-> RuntimeDomain!Types, Debugger |-> DebuggerDomain!Types,
            Profiler |-> ProfilerDomain!Types, HeapProfiler |-> HeapProfilerDomain!Types,
            Console |-> ConsoleDomain!Types, Schema |-> SchemaDomain!Types,
            Page |-> PageDomain!Types, Overlay |-> OverlayDomain!Types,
            DOM |-> DOMDomain!Types, Network |-> NetworkDomain!Types]
BuildersOf == [Runtime |-> RuntimeDomain!Builders, Debugger |-> DebuggerDomain!Builders,
               Profiler |-> ProfilerDomain!Builders, HeapProfiler |-> HeapProfilerDomain!Builders,
               Console |-> ConsoleDomain!Builders, Schema |-> SchemaDomain!Builders,
               Page |-> PageDomain!Builders, Overlay |-> OverlayDomain!Builders,
               DOM |-> DOMDomain!Builders, Network |-> NetworkDomain!Builders]
CommandsOf == [Runtime |-> RuntimeDomain!Commands, Debugger |-> DebuggerDomain!Commands,
               Profiler |-> ProfilerDomain!Commands, HeapProfiler |-> HeapProfilerDomain!Commands,
               Console |-> ConsoleDomain!Commands, Schema |-> SchemaDomain!Commands,
               Page |-> PageDomain!Commands, Overlay |-> OverlayDomain!Commands,
               DOM |-> DOMDomain!Commands, Network |-> NetworkDomain!Commands]
EventsOf == [Runtime |-> RuntimeDomain!Events, Debugger |-> DebuggerDomain!Events,
             Profiler |-> ProfilerDomain!Events, HeapProfiler |-> HeapProfilerDomain!Events,
             Console |-> ConsoleDomain!Events, Schema |-> SchemaDomain!Events,
             Page |-> PageDomain!Events, Overlay |-> OverlayDomain!Events,
             DOM |-> DOMDomain!Events, Network |-> NetworkDomain!Events]

Domains == DOMAIN TypesOf

(* The domains whose commands the session wires to an agent. *)
Wired == {"Runtime", "Debugger", "Profiler", "HeapProfiler", "Console", "Schema", "Page", "Overlay"}

----------------------------------------------------------------------------
(* ErrorSupport: the name of the field being read, and what was wrong with those read. *)

NoErrors == [path |-> <<>>, errors |-> <<>>]
Push(es) == [es EXCEPT !.path = Append(@, "")]
SetName(es, name) == [es EXCEPT !.path[Len(es.path)] = name]
Pop(es) == [es EXCEPT !.path = Front(@)]
AddError(es, what) == [es EXCEPT !.errors = Append(@, [path |-> es.path, what |-> what])]
HasErrors(es) == es.errors # <<>>

Converted(object, es) == [object |-> object, es |-> es]
NullObject == <<>>   \* whatever stands where a conversion failed: nobody reads it

----------------------------------------------------------------------------
(* ValueConversions<T>::fromValue, by the kind of T. *)

Expected == [string |-> "string value expected", int |-> "integer value expected",
             double |-> "double value expected", bool |-> "boolean value expected",
             any |-> "value expected", dictionary |-> "object expected",
             array |-> "array expected", ref |-> "object expected"]

(* The JSON values that asString, asInteger, asDouble, asBoolean and the casts accept. *)
Accepts(kind, value) ==
    CASE kind = "double" -> value.t \in {"int", "double"}
      [] kind = "any" -> value.t # "absent"
      [] kind \in {"dictionary", "ref"} -> value.t = "object"
      [] OTHER -> value.t = kind

FieldsOf(type) == TypesOf[type.domain][type.name]

RECURSIVE FromValue(_, _, _)

(* The fields of an object in turn; one held in a Maybe is read only when it is there. *)
ReadFields(fields, object, es) ==
    FoldLeft(LAMBDA got, f :
                 LET value == Get(object, f.name)
                     item == FromValue(f.type, value, SetName(got.es, f.name))
                 IN IF f.opt /\ value = Absent THEN got
                    ELSE Converted(got.object @@ (f.name :> item.object), item.es),
             Converted(<<>>, es), fields)

ReadItems(type, values, es) ==
    FoldLeft(LAMBDA got, i :
                 LET item == FromValue(type, values[i], SetName(got.es, ToString(i - 1)))
                 IN Converted([items |-> Append(got.object.items, item.object)], item.es),
             Converted([items |-> <<>>], es), [i \in DOMAIN values |-> i])

FinishWithoutPop(got) ==
    Converted(IF HasErrors(got.es) THEN NullObject ELSE got.object, got.es)

(* What was read of an object or an array counts only if nothing was wrong so far. *)
Finish(got) ==
    LET es == Pop(got.es) IN Converted(IF HasErrors(es) THEN NullObject ELSE got.object, es)

(* asDouble widens an int. *)
AsDouble(value) == IF value.t = "int" THEN JDouble(CHOOSE d \in DOMAIN Whole : Whole[d] = value.int) ELSE value

(* A required dictionary that is missing is only reported here; the code goes on to dereference the
   null (Protocol.h:489). No parameter of a wired command is one. *)
FromValue(type, value, es) ==
    CASE ~Accepts(type.kind, value) -> Converted(NullObject, AddError(es, Expected[type.kind]))
      [] type.kind = "array" -> Finish(ReadItems(type.item, value.items, Push(es)))
      [] type.kind = "ref" -> Finish(ReadFields(FieldsOf(type), value, Push(es)))
      [] type.kind = "double" -> Converted(AsDouble(value), es)
      [] OTHER -> Converted(value, es)

RECURSIVE ToValueRequiredOnly(_, _)
ToValueRequiredOnly(type, object) ==
    CASE type.kind = "array" ->
           JArray([i \in DOMAIN object.items |-> ToValueRequiredOnly(type.item, object.items[i])])
      [] type.kind = "ref" ->
           LET required == SelectSeq(FieldsOf(type), LAMBDA f : ~f.opt)
           IN JObject([i \in DOMAIN required |->
                         Entry(required[i].name,
                               ToValueRequiredOnly(required[i].type, object[required[i].name]))])
      [] OTHER -> object

(* ValueConversions<T>::toValue: the fields an object has, in the order of its type. *)
RECURSIVE ToValue(_, _)

ToValue(type, object) ==
    CASE type.kind = "array" -> JArray([i \in DOMAIN object.items |-> ToValue(type.item, object.items[i])])
      [] type.kind = "ref" ->
           JObject(FoldLeft(LAMBDA entries, f :
                                IF f.name \in DOMAIN object
                                THEN Append(entries, Entry(f.name, ToValue(f.type, object[f.name])))
                                ELSE entries,
                            <<>>, FieldsOf(type)))
      [] OTHER -> object

Clone(type, object) == FromValue(type, ToValue(type, object), NoErrors).object

(* A handler's parameters: "params" that is no object is like one without entries. *)
Prepare(command, params) ==
    LET object == IF params.t = "object" THEN params ELSE JObject(<<>>)
    IN IF command.params = <<>> THEN Converted(<<>>, NoErrors)
       ELSE Finish(ReadFields(command.params, object, Push(NoErrors)))
==============================================================================
