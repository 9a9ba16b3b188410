---------------------------- MODULE JsonExchange ----------------------------
(****************************************************************************)
(* One text of the debugging protocol on its way: a value that this side    *)
(* wrote, or whatever a front end sent, goes through the parser.            *)
(****************************************************************************)
EXTENDS JsonText

CONSTANTS Made,     \* the values that are written
          Received  \* the texts that a front end may send

(* The tokens of a text. toDouble refuses only what is not a number: digits that stand for more
   than a double can hold are a token of an infinity. *)
Numbers == [t : {"int"}, int : Int] \cup [t : {"double"}, double : Doubles \ {"nan"}]
Tokens == [tok : {"NullToken", "BoolTrue", "BoolFalse", "ArrayBegin", "ArrayEnd", "ObjectBegin", "ObjectEnd", "ListSeparator", "ObjectPairSeparator"}]
            \cup [tok : {"StringLiteral"}, string : STRING] \cup [tok : {"Number"}, number : Numbers]

ASSUME MadeAssumption == Made \subseteq Values[MaxNesting]
ASSUME ReceivedAssumption == Received \subseteq Seq(Tokens)

VARIABLES stage, made, text, value
vars == <<stage, made, text, value>>

Init == /\ value = Absent
        /\ \/ stage = "made" /\ made \in Made /\ text = <<>>
           \/ stage = "written" /\ made = Absent /\ text \in Received

Write == /\ stage = "made"
         /\ stage' = "written"
         /\ text' = WriteJSON(made)
         /\ UNCHANGED <<made, value>>

Parse == /\ stage = "written"
         /\ stage' = "parsed"
         /\ value' = ParseJSON(text)
         /\ UNCHANGED <<made, text>>

Next == Write \/ Parse
Spec == Init /\ [][Next]_vars

----------------------------------------------------------------------------
(* What is read of a value that was written: a number without a text comes back as null, a whole
   double as an int. *)
ReadOf(v, inner) ==
    CASE v.t = "double" -> IF v.double \in NonFinite THEN JNull ELSE Number(v)
      [] v.t = "array" -> JArray([i \in DOMAIN v.items |-> inner[v.items[i]]])
      [] v.t = "object" ->
           JObject([i \in DOMAIN v.entries |-> Entry(v.entries[i].key, inner[v.entries[i].value])])
      [] OTHER -> v

AsRead[d \in Nat] == [v \in Values[d] |-> ReadOf(v, IF d = 0 THEN <<>> ELSE AsRead[d - 1])]

(* No key comes twice, whole numbers are written without a fraction, none is too large. *)
KeysOnce(txt) ==
    \A i, j \in DOMAIN txt :
        KeyAt(txt, i) /\ KeyAt(txt, j) /\ txt[i].string = txt[j].string => i = j
NormalNumbers(txt) == \A i \in DOMAIN txt : txt[i].tok = "Number" => Number(txt[i].number) = txt[i].number
Infinite(n) == n.t = "double" /\ n.double \in NonFinite
FiniteNumbers(txt) == \A i \in DOMAIN txt : txt[i].tok = "Number" => ~Infinite(txt[i].number)

(* A text that this side wrote is read as the value it was made of, but for its numbers, unless
   something in the value is nested deeper than the parser follows; then nothing is read. *)
ReadableWithinLimit ==
    stage = "parsed" /\ made # Absent =>
        value = IF made \in Values[StackLimit] THEN AsRead[MaxNesting][made] ELSE Absent

(* The parser accepts of a front end's texts only those the writer itself would produce: no
   trailing or missing separator, nothing after the value; but it also takes a key that comes
   twice, a whole number with a fraction and a number too large for a double. Of the first two,
   and of any text without such a number, what is read is read again from what the writer makes
   of it; an infinity is written as null and lost. *)
AcceptedIsCanonical ==
    stage = "parsed" /\ made = Absent /\ value # Absent =>
        /\ ParseJSON(WriteJSON(value)) = AsRead[MaxNesting][value]
        /\ FiniteNumbers(text) => ParseJSON(WriteJSON(value)) = value
        /\ KeysOnce(text) /\ NormalNumbers(text) /\ FiniteNumbers(text) => WriteJSON(value) = text
==============================================================================
