---------------------------- MODULE MCAdmission ----------------------------
(***************************************************************************)
(* Admission on a small instance for TLC: a coordinator whose key changes, *)
(* a hash of two symbols, bodies that combine a few values at each key.    *)
(***************************************************************************)
EXTENDS Admission

CONSTANTS k1, k2

OneSubmitter == {"s1"}
TwoKeys == {k1, k2}
NoList == {}
Nitro == {<<"aws-nitro">>}

Text(s) == [kind |-> "text", value |-> s]
Bytes(s) == [kind |-> "bytes", value |-> s]

SomeSymbols == {"a", "b", "c", "d", "s1", "s2", "aws-nitro", "key_rotation"} \cup TwoKeys

Pairs == {[key |-> k, job |-> <<"a">>, hash |-> <<"b", "c">>] : k \in TwoKeys}

(* The signed pair and the other split of the same concatenation, a key    *)
(* event, and for each type the values it wants and one it does not.       *)
SomeBodies ==
    [peeked : Types \cup {Nil}, type : Types,
     fields : {<<f1, f2, f3, f4, f5>> :
                 f1 \in {Text(<<"a">>), Text(<<"a", "b">>), Text(<<"key_rotation">>)},
                 f2 \in {Nil, Text(<<"aws-nitro">>), Bytes(<<"b", "c">>), Bytes(<<"c">>)},
                 f3 \in {Nil, Text(<<"d">>), Bytes(Sig(k1, <<"a", "b", "c">>)), Bytes(Sig(k2, <<"a", "b", "c">>))},
                 f4 \in {Nil, Text(<<"s1">>), Text(<<"s2">>)},
                 f5 \in {Nil, Text(<<"s1">>)}}]
=============================================================================
