-------------------------- MODULE MCCompressedRead --------------------------
EXTENDS CompressedRead

CONSTANTS r1, r2

Sym(c) == [sym |-> c, back |-> 0, len |-> 1]
Back(d, n) == [sym |-> "", back |-> d, len |-> n]
Sub(tokens) == [kind |-> "packed", tokens |-> tokens]

PlainSub == [kind |-> "plain", tokens |-> <<>>]
Damaged == [kind |-> "damaged", tokens |-> <<>>]
Same == Sub(<<Sym("a"), Back(1, 5)>>)
Copy == Sub(<<Sym("a"), Sym("b"), Sym("b"), Back(3, 3)>>)
Overlap == Sub(<<Sym("a"), Sym("b"), Back(2, 3)>>)
TooLong == Sub(<<Sym("a"), Back(1, 6)>>)
TooFar == Sub(<<Sym("a"), Back(2, 3)>>)
NoStart == Sub(<<Back(1, 3)>>)

Hole == [kind |-> "hole", subs |-> <<>>]
Raw == [kind |-> "raw", subs |-> <<>>]
Packed(subs) == [kind |-> "packed", subs |-> subs]

MCReaders == {r1, r2}
FirstBlocks ==
  {Hole, Raw} \cup
  {Packed(s) : s \in {<<Same, Overlap>>, <<PlainSub, Copy>>, <<Overlap>>, <<TooLong, Same>>,
                      <<Same, NoStart>>, <<TooFar, PlainSub>>, <<Damaged, Same>>, <<Copy, Damaged>>}}
LastBlocks == {Hole, Raw, Packed(<<Overlap, Same>>)}
MCFiles ==
  [size : {8}, init : {8}, blocks : {<<b>> : b \in FirstBlocks}] \cup
  [size : {8}, init : {4}, blocks : {<<Raw>>, <<Packed(<<PlainSub, Copy>>)>>}] \cup
  [size : {20}, init : {15}, blocks : {Packed(<<Overlap, Copy>>)} \X LastBlocks]
=============================================================================
