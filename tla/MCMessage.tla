------------------------------- MODULE MCMessage --------------------------------
(* A corpus of five entries: the text, three formulas, one of them without     *)
(* parameters, and a retired one; texts of two cells and a body of ten, so     *)
(* that two formulas just fit beside a text and the third is one cell too much.*)
EXTENDS Message

Uint(n)    == [type |-> "uint", size |-> n, count |-> 0]
Bytes(n)   == [type |-> "bytes", size |-> n, count |-> 0]
Enum(c)    == [type |-> "enum", size |-> 1, count |-> c]
Point(n)   == [type |-> "point", size |-> n, count |-> 0]

MCText    == [id |-> 1, slug |-> "ham-metin", status |-> "active",
              params |-> <<Uint(1), Bytes(2)>>, forbids |-> {0, 3, 4, 5, 6}]
MCSmall   == [id |-> 2, slug |-> "small", status |-> "active",
              params |-> <<Enum(3)>>, forbids |-> {}]
MCLarge   == [id |-> 3, slug |-> "large", status |-> "active",
              params |-> <<Point(2)>>, forbids |-> {0}]
MCEmpty   == [id |-> 5, slug |-> "empty", status |-> "active",
              params |-> <<>>, forbids |-> {}]
MCRetired == [id |-> 4, slug |-> "retired", status |-> "retired",
              params |-> <<Uint(2), Bytes(1)>>, forbids |-> {}]
MCCorpus  == {MCText, MCSmall, MCLarge, MCEmpty, MCRetired}

Record(id, values) == [id |-> id, values |-> values]
MCRecords == {Record(1, <<2, <<4, 0>>>>), Record(1, <<0, <<1, 1>>>>),
              Record(1, <<1, <<6, 0>>>>),
              Record(2, <<3>>), Record(2, <<4>>),
              Record(3, <<13>>), Record(3, <<0>>),
              Record(4, <<7, <<1>>>>), Record(5, <<>>), Record(6, <<1>>)}
MCTexts   == {<<>>, <<4>>, <<3, 0>>, <<1, 1, 1>>}
=================================================================================
