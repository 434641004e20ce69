----------------------------- MODULE MCPlatform -----------------------------
(* Platform for TLC: the values of its constants that are no simple sets.   *)
EXTENDS Platform

qup_write(addr, len) == [rd |-> FALSE, addr |-> addr, len |-> len]
qup_read(addr, len) == [rd |-> TRUE, addr |-> addr, len |-> len]

\* Writes below, at and above the block and the FIFO, alone, in front of a read of
\* the same device or of another, and of a second write.
Lists == {<<qup_write(1, n)>> : n \in {1, 2, 5, 6, 7, 13, 14, 15, 29, 30}}
         \cup {<<qup_read(1, n)>> : n \in {1, 2, 257}}
         \cup {<<qup_write(1, n), qup_read(1, k)>> : n \in {1, 2, 5, 6, 13, 14, 15}, k \in {1, 5, 257}}
         \cup {<<qup_write(1, n), qup_read(2, 1)>> : n \in {1, 2, 5, 6, 15, 16}}
         \cup {<<qup_write(1, n), qup_write(a, k)>> : n \in {1, 2, 6}, a \in {1, 2}, k \in {2, 15}}
         \cup {<<qup_write(1, n), qup_read(1, 1), qup_write(1, 2), qup_read(2, 1)>> : n \in {1, 2}}

\* Two blocks of commands with one in common.
CommandBlocks == <<{<<"67">>, <<"67", "[">>}, {<<"67">>}>>

\* The argument of %s that module Printf calls NoText.
Null == <<"NULL">>

\* The text of a field, its argument, and what it should print; see PrintsWhole for
\* the fields 05d, #6x and .3x.
Field(fmt_text, num, txt, out) == [text |-> <<"%">> \o fmt_text, n |-> num, s |-> txt, prints |-> out]
FieldSet == {
    [text |-> <<"d">>, n |-> 0, s |-> <<>>, prints |-> <<"d">>],
    Field(<<"%">>, 0, <<>>, <<"%">>),
    Field(<<"q">>, 0, <<>>, <<"%", "q">>),
    Field(<<"c">>, 0, <<"k">>, <<"k">>),
    Field(<<"s">>, 0, <<>>, <<>>),
    Field(<<"s">>, 0, Null, <<"<", "n", "u", "l", "l", ">">>),
    Field(<<"3", "s">>, 0, <<"o", "k">>, <<" ", "o", "k">>),
    Field(<<"-", "3", "s">>, 0, <<"o", "k">>, <<"o", "k", " ">>),
    Field(<<"d">>, 0, <<>>, <<"0">>),
    Field(<<"3", "d">>, -12, <<>>, <<"-", "1", "2">>),
    Field(<<"0", "5", "d">>, -12, <<>>, <<"0", "0", "-", "1", "2">>),
    Field(<<"+", "i">>, 10, <<>>, <<"+", "1", "0">>),
    Field(<<"h", "d">>, 65535, <<>>, <<"-", "1">>),
    Field(<<"h", "h", "d">>, 254, <<>>, <<"-", "2">>),
    Field(<<"l", "h", "D">>, 65537, <<>>, <<"6", "5", "5", "3", "7">>),
    Field(<<"h", "u">>, 65537, <<>>, <<"1">>),
    Field(<<"l", "l", "U">>, 107, <<>>, <<"1", "0", "7">>),
    Field(<<"-", "0", "4", "z", "u">>, 107, <<>>, <<"1", "0", "7", " ">>),
    Field(<<"0", "4", "x">>, 255, <<>>, <<"0", "0", "f", "f">>),
    Field(<<"#", "6", "x">>, 26, <<>>, <<"0", "x", " ", " ", " ", " ", "1", "a">>),
    Field(<<".", "3", "x">>, 10, <<>>, <<" ", " ", "a">>),
    Field(<<"#", "X">>, 171, <<>>, <<"0", "X", "A", "B">>),
    Field(<<"p">>, 16, <<>>, <<"0", "x", "1", "0">>),
    Field(<<"n">>, 0, <<>>, <<>>) }
Unfinished == Field(<<"0", "4">>, 0, <<>>, <<>>)
FormatSet == {<<f>> : f \in FieldSet} \cup (FieldSet \X (FieldSet \cup {Unfinished}))

CountedLengths == 0 .. 3

DeviceStrings == <<"manufacturer", "product">>

=============================================================================
