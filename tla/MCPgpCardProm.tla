--------------------------- MODULE MCPgpCardProm ---------------------------
(* Files for model checking PgpCardProm: images that end inside a word, on *)
(* a word, at the end of a buffer and behind it, and files with each kind  *)
(* of error.                                                               *)
EXTENDS PgpCardProm

Rec(type, addr, bytes) ==
    [start |-> TRUE, type |-> type, addr |-> addr, bytes |-> bytes,
     sum |-> (SumMod - ((Len(bytes) + addr + type + Total(bytes)) % SumMod)) % SumMod]
End        == Rec(EOF, 0, <<>>)
Ext        == Rec(ELA, 0, <<0, 0>>)
Bytes(n)   == [i \in 1 .. n |-> IF i % 3 = 0 THEN 1 ELSE 0]
File(ls)   == [lines |-> ls, newline |-> TRUE]
Image(n)   == File(<<Ext, Rec(DATA, 0, Bytes(LineMax)), Rec(DATA, LineMax, Bytes(n)), End>>)

MCGood == <<Image(2 * BUF - LineMax), Image(2 * BUF + 3 - LineMax), Image(2 * BUF + 4 - LineMax),
            File(<<Rec(DATA, 0, Bytes(5)), End>>), File(<<End>>)>>
Bad(l) == File(<<Rec(DATA, 0, Bytes(4)), l, End>>)
MCBad  == <<Bad([End EXCEPT !.start = FALSE]), Bad([End EXCEPT !.sum = 0]), Bad(Rec(DATA, 0, <<>>)),
            Bad([Rec(DATA, 0, <<1>>) EXCEPT !.sum = 0]), Bad(Rec(DATA, 0, Bytes(LineMax + 1))),
            Bad(Rec(ELA, 1, <<0, 0>>)), Bad(Rec(ELA, 0, <<0>>)), Bad(Rec(2, 0, <<>>)),
            File(<<Rec(DATA, 0, Bytes(4))>>),
            [lines |-> <<Rec(DATA, 0, Bytes(4))>>, newline |-> FALSE]>>
MCFiles  == MCGood \o MCBad
=============================================================================
