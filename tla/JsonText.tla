------------------------------ MODULE JsonText ------------------------------
(****************************************************************************)
(* The JSON of the debugging protocol: the tree of values of Protocol.cpp,  *)
(* the text that writeJSON makes of it and the parser that reads it back.   *)
(* A text is a sequence of tokens: white space, comments and the escapes of *)
(* strings are below that grain.                                            *)
(****************************************************************************)
EXTENDS Integers, SequencesExt

CONSTANTS StackLimit,  \* how deep the parser follows nested values
          MaxNesting   \* how deep the values are nested that are ever written

ASSUME StackLimitAssumption == StackLimit \in Nat
ASSUME MaxNestingAssumption == MaxNesting \in Nat /\ MaxNesting >= StackLimit

JNull == [t |-> "null"]
JBool(b) == [t |-> "bool", bool |-> b]
JInt(n) == [t |-> "int", int |-> n]
JDouble(d) == [t |-> "double", double |-> d]
JString(s) == [t |-> "string", string |-> s]
JArray(items) == [t |-> "array", items |-> items]
JObject(entries) == [t |-> "object", entries |-> entries]
Absent == [t |-> "absent"]   \* what a null pointer to a value stands for

Entry(key, value) == [key |-> key, value |-> value]

(* Doubles are told apart by whether they have a text and are whole. *)
NonFinite == {"nan", "infinity"}
Whole == [seven |-> 7]
Doubles == NonFinite \cup DOMAIN Whole \cup {"half"}

(* DictionaryValue: the entries in the order in which their keys were first set. *)
Keys(object) == {e.key : e \in ToSet(object.entries)}

Get(object, key) ==
    IF key \in Keys(object)
    THEN (CHOOSE e \in ToSet(object.entries) : e.key = key).value
    ELSE Absent

SetValue(object, key, value) ==
    IF key \in Keys(object)
    THEN JObject([i \in DOMAIN object.entries |->
                    IF object.entries[i].key = key THEN Entry(key, value) ELSE object.entries[i]])
    ELSE JObject(Append(object.entries, Entry(key, value)))

PushValue(array, value) == JArray(Append(array.items, value))

(* The values: scalars, and lists of values nested one level less; the keys of an object differ. *)
Scalars == {JNull} \cup [t : {"bool"}, bool : BOOLEAN] \cup [t : {"int"}, int : Int]
             \cup [t : {"double"}, double : Doubles] \cup [t : {"string"}, string : STRING]
Arrays(inner) == [t : {"array"}, items : Seq(inner)]
Objects(inner) ==
    {o \in [t : {"object"}, entries : Seq([key : STRING, value : inner])] :
        \A i, j \in DOMAIN o.entries : o.entries[i].key = o.entries[j].key => i = j}

ValuesOver(inner) == Scalars \cup Arrays(inner) \cup Objects(inner)

Values[d \in Nat] == ValuesOver(IF d = 0 THEN {} ELSE Values[d - 1])

----------------------------------------------------------------------------
(* Writing *)

Token(name) == <<[tok |-> name]>>
StringToken(s) == <<[tok |-> "StringLiteral", string |-> s]>>
NumberToken(n) == <<[tok |-> "Number", number |-> n]>>

(* The first n of a list's texts, with a separator before each but the first. *)
Separator(n) == IF n > 1 THEN Token("ListSeparator") ELSE <<>>

Joined(texts) ==
    LET joined[n \in Nat] ==
          IF n = 0 THEN <<>>
          ELSE joined[n - 1] \o Separator(n) \o texts[n]
    IN joined
Separated(texts) == Joined(texts)[Len(texts)]

(* The texts of what is in an array and in an object, and of a value, given those of the values
   nested in it. *)
ItemTexts(items, inner) == [i \in DOMAIN items |-> inner[items[i]]]
EntryTexts(entries, inner) ==
    [i \in DOMAIN entries |-> StringToken(entries[i].key) \o Token("ObjectPairSeparator") \o inner[entries[i].value]]

TextOf(value, inner) ==
    CASE value.t = "null" -> Token("NullToken")
      [] value.t = "bool" -> Token(IF value.bool THEN "BoolTrue" ELSE "BoolFalse")
      [] value.t = "int" -> NumberToken(value)
      [] value.t = "double" -> IF value.double \in NonFinite THEN Token("NullToken") ELSE NumberToken(value)
      [] value.t = "string" -> StringToken(value.string)
      [] value.t = "array" -> Token("ArrayBegin") \o Separated(ItemTexts(value.items, inner)) \o Token("ArrayEnd")
      [] value.t = "object" -> Token("ObjectBegin") \o Separated(EntryTexts(value.entries, inner)) \o Token("ObjectEnd")

Written[d \in Nat] ==
    [value \in Values[d] |-> TextOf(value, IF d = 0 THEN <<>> ELSE Written[d - 1])]

WriteJSON(value) == Written[MaxNesting][value]

----------------------------------------------------------------------------
(* Reading: the parser goes from position to position in the text. Refused has no value. *)

Read(value, next) == [value |-> value, next |-> next]
Refused == Read(Absent, 0)

Tok(text, at) == IF at \in DOMAIN text THEN text[at].tok ELSE "InvalidToken"

(* A number that is an int in value becomes one, however it was written; any other stays a
   double, an infinity too. *)
Number(n) == IF n.t = "double" /\ n.double \in DOMAIN Whole THEN JInt(Whole[n.double]) ELSE n

TooDeepBelowLimit(depth) == depth >= StackLimit

TooDeep(depth) == depth > StackLimit

AfterSeparatorOrEnd(text, at, closing) == Tok(text, at) = "ListSeparator"

(* A separator must be followed by another item. *)
AnotherFollows(text, at, closing) == Tok(text, at) = "ListSeparator" /\ Tok(text, at + 1) # closing

(* The next item of an array and the next entry of an object, given what is read at each position
   one level down; a key that comes twice keeps its place and takes the later value. *)
Item(inner, was) ==
    LET item == inner[was.next]
    IN IF item.value = Absent THEN Refused ELSE Read(PushValue(was.value, item.value), item.next)

KeyAt(text, at) == Tok(text, at) = "StringLiteral" /\ Tok(text, at + 1) = "ObjectPairSeparator"

KeyedItem(text, inner, was) ==
    LET item == inner[was.next + 2]
    IN IF ~KeyAt(text, was.next) \/ item.value = Absent THEN Refused
       ELSE Read(SetValue(was.value, text[was.next].string, item.value), item.next)

Part(text, inner, closing, was) ==
    IF closing = "ArrayEnd" THEN Item(inner, was) ELSE KeyedItem(text, inner, was)

(* One pass of the loop over a list, from what the passes before it left. *)
Pass(text, inner, closing, was) ==
    LET part == Part(text, inner, closing, was)
    IN CASE Tok(text, part.next) = closing -> part
         [] AnotherFollows(text, part.next, closing) -> Read(part.value, part.next + 1)
         [] OTHER -> Refused

Ended(text, closing, so) == so.value = Absent \/ Tok(text, so.next) = closing

Passes(text, inner, closing, start) ==
    LET after[k \in Nat] ==
          IF k = 0 THEN start
          ELSE LET was == after[k - 1]
               IN IF Ended(text, closing, was) THEN was ELSE Pass(text, inner, closing, was)
    IN after

BuildList(text, inner, closing, start) ==
    LET after == Passes(text, inner, closing, start)
        end == after[CHOOSE k \in 0..Len(text) : Ended(text, closing, after[k])]
    IN IF end.value = Absent THEN Refused ELSE Read(end.value, end.next + 1)

(* The value at a position, given what is read at each position one level down. *)
BuildValue(text, inner, depth, at) ==
    IF TooDeep(depth) THEN Refused
    ELSE CASE Tok(text, at) = "NullToken" -> Read(JNull, at + 1)
           [] Tok(text, at) = "BoolTrue" -> Read(JBool(TRUE), at + 1)
           [] Tok(text, at) = "BoolFalse" -> Read(JBool(FALSE), at + 1)
           [] Tok(text, at) = "Number" -> Read(Number(text[at].number), at + 1)
           [] Tok(text, at) = "StringLiteral" -> Read(JString(text[at].string), at + 1)
           [] Tok(text, at) = "ArrayBegin" -> BuildList(text, inner, "ArrayEnd", Read(JArray(<<>>), at + 1))
           [] Tok(text, at) = "ObjectBegin" -> BuildList(text, inner, "ObjectEnd", Read(JObject(<<>>), at + 1))
           [] OTHER -> Refused

(* What is read at each position with n levels left before the limit. *)
Builder(text) ==
    LET build[n \in Nat] ==
          [at \in 1..(Len(text) + 1) |->
             BuildValue(text, IF n = 0 THEN <<>> ELSE build[n - 1], StackLimit + 1 - n, at)]
    IN build

ParseJSON(text) ==
    LET r == Builder(text)[StackLimit + 1][1]
    IN IF r.next = Len(text) + 1 THEN r.value ELSE Absent
==============================================================================
