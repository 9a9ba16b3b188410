----------------------------- MODULE MCProtocol -----------------------------
(* Every type, event and command of the tables, and the values and texts below. *)
EXTENDS ProtocolExchange

MCGivenDoubles == {"half", "seven", "nan"}
MCNestings == 5..9

(* Values: every kind in lists of up to two, lists of lists, and lists inside arrays and objects by
   turns, to both sides of the limit. *)
Leaves == {JNull, JBool(TRUE), JBool(FALSE), JInt(7), JDouble("nan"), JDouble("infinity"), JDouble("seven"), JDouble("half"),
           JString("text")}
ListsOf(S) ==
    {JArray(items) : items \in UNION {[1..n -> S] : n \in 0..2}}
      \cup {JObject(<<Entry("text", v)>>) : v \in S}
      \cup {JObject(<<Entry("text", v), Entry("other", w)>>) : v \in S, w \in S}
Few == {JNull, JDouble("seven")}
Inside(v, k) ==
    FoldLeft(LAMBDA inner, i : IF i % 2 = 0 THEN JArray(<<JNull, inner>>)
                               ELSE JObject(<<Entry("text", inner), Entry("other", JNull)>>),
             v, [i \in 1..k |-> i])
MCMade ==
    Leaves \cup ListsOf(Leaves) \cup ListsOf(Few \cup ListsOf(Few))
      \cup {Inside(v, k) : v \in Few \cup ListsOf(Few), k \in 5..8}

(* Texts: whatever can be made of few tokens, longer ones of an object with two entries, brackets to
   both sides of the limit, and lists of numbers. *)
MCAlphabet ==
    {[tok |-> k] : k \in {"ArrayBegin", "ArrayEnd", "ObjectBegin", "ObjectEnd", "ListSeparator",
                          "ObjectPairSeparator", "NullToken"}}
      \cup {[tok |-> "StringLiteral", string |-> "text"], [tok |-> "Number", number |-> JDouble("seven")]}
Braces == Token("ObjectBegin") \o Token("ObjectEnd")
Brackets == Token("ArrayBegin") \o Token("ArrayEnd")
Key(k) == StringToken(k) \o Token("ObjectPairSeparator")
TwoEntries ==
    {Token("ObjectBegin") \o Key(k) \o a \o Token("ListSeparator") \o b \o c :
       k \in {"text", "other"},
       a \in {Token("NullToken"), Brackets, NumberToken(JDouble("half")), NumberToken(JDouble("infinity"))},
       b \in UNION {{Key(l) \o Token("NullToken"), Key(l) \o Braces, StringToken(l), Key(l)} :
                      l \in {"text", "other"}},
       c \in {Token("ObjectEnd"), Token("ListSeparator") \o Token("ObjectEnd"),
              Token("ObjectEnd") \o Token("ObjectEnd"), <<>>}}
Bracketed ==
    {[i \in 1..k |-> Token("ArrayBegin")[1]] \o inner \o [i \in 1..n |-> Token("ArrayEnd")[1]] :
       inner \in {Token("NullToken"), Braces, <<>>}, k \in 6..9, n \in 6..9}
AnyNumber == {NumberToken(n) : n \in {JInt(7), JDouble("seven"), JDouble("half"), JDouble("infinity")}}
NumberLists ==
    AnyNumber \cup {Token("ArrayBegin") \o m \o Token("ListSeparator") \o n \o Token("ArrayEnd") :
                     m \in AnyNumber, n \in AnyNumber}
MCReceived == UNION {[1..n -> MCAlphabet] : n \in 0..5} \cup TwoEntries \cup Bracketed \cup NumberLists
==============================================================================
