-------------------------- MODULE MC_HessianCodec --------------------------
(***************************************************************************)
(* The codec at the boundaries of every form.                              *)
(***************************************************************************)
EXTENDS HessianRequest

T(go, java, fields, kinds) == [go |-> go, java |-> java, fields |-> fields, kinds |-> kinds]

\* The Java class of the third has the Go name of the second; those of the
\* fourth, an enum, are the same.
MCTypes ==
  <<T(10, 20, <<5, 6, 7>>, <<"string", "int", "long">>),
    T(11, 21, <<5, 6>>, <<"list", "map">>),
    T(12, 11, <<5, 6, 7>>, <<"double", "date", "object">>),
    T(15, 15, <<4>>, <<"enum">>),
    T(16, 25, <<5, 6>>, <<"enum", "bool">>)>>

Of(k, ns) == {Leaf(k, n) : n \in ns}
B == Leaf("bool", 1)
S == Leaf("string", 1)
I(n) == Leaf("int", n)
L(s) == Node("list", 0, s)
M(s) == Node("map", 0, s)
O(t, s) == Node("object", t, s)

Around(ns) == UNION {{n - 1, n, -n, -n - 1} : n \in ns}
Numbers ==
  Of("int", Around({1, 16, 48, 2048, 262144}) \cup {MaxInt, -MaxInt - 1})
    \cup Of("long", Around({1, 8, 16, 2048, 262144}) \cup {MaxInt, -MaxInt - 1})
    \cup Of("double", {0, 1, 2, 3, -1, -2, 254, 256, -256, -258, 65534, 65536, -65536, -65538})
    \cup Of("date", {-60000, 0, 60, 60000})
    \cup Of("bool", {0, 1})
Texts(ns) == Of("string", ns) \cup Of("binary", ns)

Lists == {L(<<>>), L(<<I(1)>>), L(<<Null>>), L([x \in 1 .. 8 |-> B]),
          M(<<>>), M(<<S, I(2)>>), M(<<S, Null>>)}

Enums == {O(5, <<e, B>>) : e \in {Null, Leaf("enum", 3)}}
Objects ==
  Enums \cup {Leaf("enum", 3), L(<<O(5, <<Null, B>>), O(5, <<Null, B>>)>>)}
    \cup {O(1, <<S, i, Leaf("long", 9)>>) : i \in {I(7), I(-7), Null}}
    \cup {O(1, <<S, I(7), Null>>), O(1, <<Null, I(7), Null>>)}
    \cup {O(2, <<L(<<B>>), m>>) : m \in {Null, M(<<S, B>>), M(<<S, Null>>)}}
    \cup {O(2, <<l, Null>>) : l \in {L(<<>>), L(<<Null>>), Null}}
    \cup {O(3, <<Leaf("double", 1), Leaf("date", 0), o>>) : o \in {Null, O(5, <<Null, B>>)}}

\* Values that share a part: only the other end writes references.
Shared ==
  {L(<<L(<<B>>), Leaf("ref", 2)>>), O(2, <<Leaf("ref", 1), Null>>)}
    \cup {L(<<O(2, <<Null, M(<<S, B>>)>>), Leaf("ref", n)>>) : n \in {1, 2, 3}}

MCArguments ==
  {<<>>}
    \cup {<<v>> : v \in Numbers \cup Texts({0, 1, 15, 16, 31, 32, 1023, 1024, 4096, 4097})
                    \cup Lists \cup Objects
                    \cup {Null, Leaf("byte", 1), Leaf("uint", 1), Leaf("int8", 1),
                          Leaf("pointer", 1), L(<<Leaf("byte", 1)>>)}}
    \cup {<<O(5, <<Null, B>>), v>> : v \in {I(1), O(5, <<Null, B>>)}}

\* The registries that at most two registrations make.
RECURSIVE Made(_)
Made(n) ==
  IF n = 0 THEN {NoPOJO}
  ELSE Made(n - 1) \cup {Registered(t, p) : t \in DOMAIN Types, p \in Made(n - 1)}
MCRegistries == Made(MaxClasses)

\* Values without objects do not depend on the registry; those with objects of
\* two types are answered when two are registered.
Nested == {O(3, <<Leaf("double", 1), Leaf("date", 0), O(5, <<Null, B>>)>>)} \cup Enums
MCAnswers(p) ==
  CASE Len(p.list) = 0 -> Numbers \cup Lists \cup Objects \cup Shared \cup {Null}
                            \cup Texts({0, 1, 15, 16, 31, 32, 1023, 1024, 4060, 4100})
    [] Len(p.list) = 1 -> Objects \cup Shared
    [] OTHER           -> Nested
=============================================================================
