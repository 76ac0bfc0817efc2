----------------------------- MODULE MCAbceJson -----------------------------
(* Instances of AbceJson for TLC. *)
EXTENDS AbceJson

N(neg, dig, exp) == [neg |-> neg, dig |-> dig, exp |-> exp]
Strings == {<<>>, <<"x", "quote", "esc">>, <<"LF", "CTL">>, <<"u2", "cont">>}
Integers_ == {N(FALSE, <<>>, 0), N(TRUE, <<"1">>, 1), N(FALSE, <<"1">>, 19), N(FALSE, <<"1", "0", "1">>, 2)}
Doubles == {N(TRUE, <<>>, 0), N(FALSE, <<"1">>, 0), N(FALSE, <<"1">>, 3), N(TRUE, <<"1", "1">>, 0),
            N(FALSE, <<"1", "1">>, -3), N(FALSE, <<"1", "1">>, -8), N(FALSE, <<"1">>, 20), Infinite}
Atoms == {Nil, Bool(TRUE), Bool(FALSE), [t |-> "fun"]} \cup {Str(s) : s \in Strings}
         \cup {Num(TRUE, n) : n \in Integers_} \cup {Num(FALSE, n) : n \in Doubles}

ArrayOf(s) == [t |-> "array", items |-> s]
DictOf(f) == [t |-> "dict", items |-> f]
KeyA == <<"x">>
KeyB == <<"quote">>
Containers(items) ==
  {ArrayOf(<<>>), DictOf(<<>>)} \cup {ArrayOf(<<a>>) : a \in items} \cup {DictOf(KeyA :> a) : a \in items}
  \cup {ArrayOf(<<a, b>>) : a \in items, b \in items}
  \cup {DictOf((KeyA :> a) @@ (KeyB :> b)) : a \in items, b \in items}
Few == {Nil, Num(TRUE, N(FALSE, <<"1">>, 0))}
Flat == {ArrayOf(<<>>), DictOf(<<>>), ArrayOf(<<Nil>>), DictOf(KeyA :> Nil)}
Nested == Containers(Flat)
Deep == Containers(Flat \cup Few) \cup {ArrayOf(<<c>>) : c \in Nested} \cup {DictOf(KeyA :> c) : c \in Nested}
        \cup {ArrayOf(<<DictOf(KeyA :> c)>>) : c \in Flat} \cup {ArrayOf(<<ArrayOf(<<c>>)>>) : c \in {ArrayOf(<<a>>) : a \in Flat}}
SomeValues == Atoms \cup {ArrayOf(<<a>>) : a \in Atoms} \cup {DictOf(KeyB :> a) : a \in Atoms}
              \cup Containers(Few) \cup Deep
=============================================================================
