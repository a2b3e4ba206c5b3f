------------------------------ MODULE MCPacket ------------------------------
(* Frames of the formats the program uses, with bytes of four values.      *)
EXTENDS OrderInserts, Blocks

MCClientFormats ==
  {<<"i", "0", "i", "l">>, <<"s", "s", "s">>, <<"i", "i", "0", "0", "l", "l">>,
   <<"i", "i", "i", "0", "0", "0", "i", "i", "i", "0", "s">>,
   <<"V", "i", "0", "r", "0", "s">>}
MCServerFormats ==
  {<<"i", "i", "O">>, <<"i", "s", "s", "Q", "l">>, <<"i", "s", "i", "a", "l", "-", "-", "p">>,
   <<"i", "B", "6", "i">>, <<"R", "S", "r">>, <<"-", "s", "s", "i", "i", "l">>}
MCStrings == {<<>>, <<1>>, <<1, 2, 3, 1>>}
MCRaw == {<<>>, <<0, 0, 0, 1>>, <<0, 0, 0, 1, 1, 2, 3, 0>>}
MCDescriptions == {<<a>> : a \in ArgTypes} \cup {<<a, b>> : a, b \in ArgTypes}
MCBuildWords ==
  {<<>>, <<0, 0>>, <<1, 2, 0, 0>>, <<1, 2, 3, 1, Minus1>>, <<1, 2, 3, 0, 5, 6, 0>>}

AnySpec ==
  (Init \/ OrderInit \/ InsertInit \/ BlockInit)
    /\ [][Next \/ OrderNext \/ InsertNext \/ ReceiveBlock]_vars
=============================================================================
