-------------------------- MODULE ProtocolExchange --------------------------
(****************************************************************************)
(* One message of the debugging protocol on its way: an object made with a  *)
(* builder or by a front end object, or the parameters of a command with    *)
(* something wrong in them, becomes the value of an exchange of texts, and  *)
(* what is read of that is converted back. Exchanges of other values and    *)
(* texts go on as they do by themselves.                                    *)
(****************************************************************************)
EXTENDS Protocol, JsonExchange

CONSTANTS GivenDoubles,  \* the doubles that objects are made with
          Nestings       \* how deep the values are that scripts return by value

ASSUME GivenDoublesAssumption == GivenDoubles \subseteq Doubles

VARIABLES job,  \* the message
          got   \* what the receiver made of it
allVars == <<stage, made, text, value, job, got>>

----------------------------------------------------------------------------
(* The messages. *)

BuilderOf(type) == BuildersOf[type.domain][type.name]
MaybesOf(type) == {f.name : f \in {g \in ToSet(FieldsOf(type)) : g.opt}}

(* Content for a type; an object inside has what its builder demands, and arrays have two
   items down to a depth, so that a type with a list of its own kind comes to an end. *)
RECURSIVE ContentDown(_, _, _)
ContentDown(type, number, depth) ==
    CASE type.kind = "string" -> JString("text")
      [] type.kind = "int" -> JInt(7)
      [] type.kind = "double" -> JDouble(number)
      [] type.kind = "bool" -> JBool(TRUE)
      [] type.kind = "any" -> JArray(<<JNull, JString("text")>>)
      [] type.kind = "dictionary" -> JObject(<<Entry("key", JInt(7))>>)
      [] type.kind = "array" ->
           [items |-> IF depth = 0 THEN <<>>
                      ELSE [i \in 1..2 |-> ContentDown(type.item, number, depth - 1)]]
      [] type.kind = "ref" ->
           LET has(f) == f.name \in BuilderOf(type)
           IN [n \in {f.name : f \in {g \in ToSet(FieldsOf(type)) : has(g)}} |->
                 ContentDown((CHOOSE f \in ToSet(FieldsOf(type)) : f.name = n).type, number, depth)]
Content(type, number) == ContentDown(type, number, 2)

Object(type, names, number) ==
    [n \in names |-> Content((CHOOSE f \in ToSet(FieldsOf(type)) : f.name = n).type, number)]

AllTypes == UNION {{Ref(d, n) : n \in DOMAIN TypesOf[d]} : d \in Domains}

(* What a builder makes, with one, all or none of the fields it leaves optional. *)
BuiltObjects ==
    UNION {{[kind |-> "object", type |-> t,
             object |-> Object(t, BuilderOf(t) \cup given, number)] :
               given \in {{}, MaybesOf(t)} \cup {{n} : n \in MaybesOf(t)}, number \in GivenDoubles} :
           t \in AllTypes}

(* What the front end objects send, with and without what they are given. *)
SentEvents ==
    UNION {UNION {LET event == EventsOf[d][n] IN
                  IF event.message = "" THEN {}
                  ELSE {[kind |-> "object", type |-> Ref(d, event.message),
                         object |-> Object(Ref(d, event.message), names, number)] :
                          names \in {event.always, event.always \cup event.given},
                          number \in GivenDoubles} :
                  n \in DOMAIN EventsOf[d]} : d \in Domains}

Nested(k) == FoldLeft(LAMBDA inner, i : JArray(<<inner>>), JString("text"), [i \in 1..k |-> i])

ReturnedValues ==
    {[kind |-> "object", type |-> Ref("Runtime", "RemoteObject"),
      object |-> [type |-> JString("text"), value |-> Nested(k)]] : k \in Nestings}

(* Parameters: right, without a field, or with something that no field accepts but Any. *)
RightParams(command) ==
    [i \in DOMAIN command.params |->
       Entry(command.params[i].name,
             ToValue(command.params[i].type, Content(command.params[i].type, "half")))]

Wrong == {JNull, JArray(<<JObject(<<>>), JNull>>), JObject(<<Entry("value", JNull)>>)}

Requests ==
    UNION {UNION {LET c == CommandsOf[d][n] IN
                  {[kind |-> "request", command |-> c, params |-> p] :
                     p \in {Absent, JNull, JObject(<<>>), JObject(RightParams(c))}
                           \cup {JObject(RemoveAt(RightParams(c), i)) : i \in DOMAIN c.params}
                           \cup {JObject([RightParams(c) EXCEPT ![i].value = w]) :
                                   i \in DOMAIN c.params, w \in Wrong}
                           \cup {JObject([i \in DOMAIN c.params |-> Entry(c.params[i].name, w)]) :
                                   w \in Wrong}} :
                  n \in DOMAIN CommandsOf[d]} : d \in Wired}

Messages == BuiltObjects \cup SentEvents \cup ReturnedValues \cup Requests
NoMessage == [kind |-> "none"]

(* What is written for a message. *)
ValueOf(message) ==
    IF message.kind = "object" THEN ToValue(message.type, message.object)
    ELSE JObject(IF message.params = Absent THEN <<>> ELSE <<Entry("params", message.params)>>)

ASSUME MessagesAreValues == {ValueOf(m) : m \in Messages} \subseteq Values[MaxNesting]

----------------------------------------------------------------------------
ProtocolInit ==
    /\ got = Absent
    /\ \/ job = NoMessage /\ Init
       \/ job \in Messages /\ stage = "made" /\ made = ValueOf(job) /\ text = <<>> /\ value = Absent

Convert ==
    /\ stage = "parsed"
    /\ job # NoMessage
    /\ value # Absent
    /\ got = Absent
    /\ got' = IF job.kind = "object" THEN FromValue(job.type, value, NoErrors)
              ELSE Prepare(job.command, Get(value, "params"))
    /\ UNCHANGED <<stage, made, text, value, job>>

ProtocolNext == \/ Next /\ UNCHANGED <<job, got>>
                \/ Convert
ProtocolSpec == ProtocolInit /\ [][ProtocolNext]_allVars

----------------------------------------------------------------------------
(* Paths of what is wrong, said without the reader: by the fields an object ought to have. *)

RECURSIVE Faults(_, _)
Under(name, paths) == {<<name>> \o p : p \in paths}
FaultsOfFields(fields, object) ==
    UNION {Under(f.name, Faults(f.type, Get(object, f.name))) :
             f \in {g \in ToSet(fields) : ~g.opt \/ g.name \in Keys(object)}}
Faults(type, v) ==
    CASE ~Accepts(type.kind, v) -> {<<>>}
      [] type.kind = "array" ->
           UNION {Under(ToString(i - 1), Faults(type.item, v.items[i])) : i \in DOMAIN v.items}
      [] type.kind = "ref" -> FaultsOfFields(FieldsOf(type), v)
      [] OTHER -> {}

(* Paths of the numbers that JSON has no text for. *)
RECURSIVE Unwritable(_, _)
Unwritable(type, object) ==
    CASE type.kind = "double" -> IF object.double \in NonFinite THEN {<<>>} ELSE {}
      [] type.kind = "array" ->
           UNION {Under(ToString(i - 1), Unwritable(type.item, object.items[i])) :
                    i \in DOMAIN object.items}
      [] type.kind = "ref" ->
           UNION {Under(f.name, Unwritable(f.type, object[f.name])) :
                    f \in {g \in ToSet(FieldsOf(type)) : g.name \in DOMAIN object}}
      [] OTHER -> {}

ErrorPaths(es) == {es.errors[i].path : i \in DOMAIN es.errors}

(* A clone made by writing an object into values and reading them has every field of it:
   clone() ignores the errors of fromValue. *)
CloneIsEqual ==
    stage = "made" /\ job.kind = "object" => Clone(job.type, job.object) = job.object

(* A message that a builder or a front end object made reads back as it was, and where it
   does not the errors name the numbers that writeJSON turned into null and nothing else. *)
SurvivesTheWire ==
    got # Absent /\ job.kind = "object" =>
        /\ ErrorPaths(got.es) = Unwritable(job.type, job.object)
        /\ ~HasErrors(got.es) => got.object = job.object

(* The InvalidParams reply names every wrong or missing parameter once, by its whole path,
   and a request with nothing wrong gets none. *)
FaultsAreNamed ==
    got # Absent /\ job.kind = "request" =>
        /\ ErrorPaths(got.es) = FaultsOfFields(job.command.params,
                                               IF job.params.t = "object" THEN job.params ELSE JObject(<<>>))
        /\ Cardinality(ErrorPaths(got.es)) = Len(got.es.errors)
==============================================================================
