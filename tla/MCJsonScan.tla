----------------------------- MODULE MCJsonScan -----------------------------
(* JsonScan on objects of up to two members, the second or both of which may  *)
(* be objects, up to three deep.                                             *)
EXTENDS JsonScan

MCString(k, s) == [key |-> k, type |-> "string", chars |-> s, child |-> <<>>]
MCInt(k, s) == [key |-> k, type |-> "int", chars |-> s, child |-> <<>>]
MCChild(k, d) == [key |-> k, type |-> "child", chars |-> <<>>, child |-> d]

MCKeys == {<<"a">>, <<"b", "1">>}
MCSimple(k) ==
  {MCString(k, s) : s \in {<<>>, <<"1">>, <<"a", ":", "5">>, <<",">>}}
    \cup {MCInt(k, n) : n \in {<<"7">>, <<"-", "2">>, <<"9", "9">>, <<"1", "0", "0">>}}

\* Objects of at most two members with values of V, in either order.
MCObjects(V(_)) ==
  {<<>>} \cup {<<m>> : m \in UNION {V(k) : k \in MCKeys}}
    \cup UNION {{<<m, n>> : m \in V(k), n \in V(l)} : <<k, l>> \in {p \in MCKeys \X MCKeys : p[1] # p[2]}}

MCFlat == MCObjects(MCSimple)

\* A child, alone or beside a simple value or another child.
MCDocs ==
  LET k == <<"a">>
      l == <<"b", "1">>
      few == {<<>>, <<MCInt(l, <<"7">>)>>, <<MCString(k, <<"1">>), MCInt(l, <<"-", "2">>)>>}
  IN  MCFlat
      \cup {<<MCString(k, s)>> : s \in {<<"}">>, <<"{", "a">>}}
      \cup {<<MCChild(k, d)>> : d \in MCFlat}
      \cup {<<MCChild(k, d), m>> : d \in MCFlat, m \in MCSimple(l)}
      \cup {<<MCChild(k, <<MCChild(l, d)>> \o rest), MCChild(l, e)>> :
              d \in MCFlat, rest \in {<<>>, <<MCInt(k, <<"7">>)>>}, e \in few}
=============================================================================
