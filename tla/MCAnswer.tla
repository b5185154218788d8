------------------------------- MODULE MCAnswer -------------------------------
(* Bytes of two bits; a table of five that a place below three points to. *)
EXTENDS Answer, Bitwise

MCByteXor(a, b) == a ^^ b
MCSecret == [k \in 0 .. 4 |-> <<1, 3, 0, 2, 1>>[k + 1]]
MCPlainText == [k \in 0 .. 1 |-> <<2, 3>>[k + 1]]
MCMinVersion == <<2, 1, 1>>
MCMainVersions == {<<0, 1>>, <<0, 2>>, <<0, 3>>, <<2, 0>>}
MCRandomNums == {<<0, 0>>, <<0, 1>>, <<0, 2>>, <<0, 3>>, <<1, 0>>, <<3, 3>>}
MCFields == {[k \in 0 .. 1 |-> f[k + 1]] : f \in {<<0, 0>>, <<1, 2>>, <<3, 1>>}}
MCInterfaces == [1 .. 2 -> {<<"1">>, <<"2">>, <<"1", "2">>, <<"2", "2", "1">>}]
MCCpuLines == [1 .. 4 -> {<<"1">>, <<"2", "1", "2">>}]
MCMemFiles == [1 .. 5 -> {<<"1">>, <<"1", "2">>, <<"2", "1", "2">>}]
=============================================================================
