-------------------------- MODULE MCBridgeMessages --------------------------
(* Small instances of BridgeMessages for TLC.                                *)
EXTENDS BridgeMessages

(* The epoch itself, followed for a hundred and thirty years through the     *)
(* leap year 2000 and the common year 2100, and the first day a four-digit   *)
(* year can name, whose January belongs to the era before year 0.            *)
MCStarts == {Epoch, FirstDay}

MCYears == 0..1 \cup 1970..2101

(* The first and the last second of a day.                                   *)
MCTimes == {[hour |-> 0, minute |-> 0, second |-> 0],
            [hour |-> 23, minute |-> 59, second |-> 59]}

(* No digits, fewer than three, and the seven that ToString("O") writes.     *)
MCFractions == {<<>>, <<0, 7>>, <<9, 9, 9, 9, 9, 9, 9>>}

MCZones == {[sign |-> 1, hour |-> 0, minute |-> 0],
            [sign |-> -1, hour |-> 5, minute |-> 30],
            [sign |-> 1, hour |-> 14, minute |-> 0]}

MCMessageDates == {[year |-> 2000, month |-> 2, day |-> 29]}

MCReading == [value : {NoValue, 5}, min : {NoValue, 4}, max : {NoValue, 6},
              hidden : BOOLEAN]
MCFull == [value |-> 5, min |-> 4, max |-> 6, hidden |-> TRUE]
MCBare == [value |-> NoValue, min |-> 4, max |-> NoValue, hidden |-> FALSE]

(* Hardware side by side and hardware in hardware, with any readings; none   *)
(* at all; and three levels, a part without sensors in the middle.           *)
MCTree(parent, sensors) ==
    [sensors |-> sensors,
     parts |-> [h \in 0..Len(parent) |->
                   SelectSeq([i \in DOMAIN parent |-> i], LAMBDA i : parent[i] = h)]]

MCAltered == {MCTree(<<0, 1>>, <<<<MCFull, MCBare>>, <<MCFull>>>>), MCTree(<<>>, <<>>)}
MCMachines ==
    {MCTree(p, <<<<a>>, <<b>>>>) : p \in {<<0, 0>>, <<0, 1>>}, a, b \in MCReading}
    \cup {MCTree(<<0, 1, 2, 0>>, <<<<a>>, <<>>, <<b, a>>, <<b>>>>) : a, b \in {MCFull, MCBare}}
    \cup MCAltered

MCOddities == {Null, Num(1001), Num(-1002), Str(<<"other">>), Bool(TRUE), Bool(FALSE), Arr(<<>>), Arr(<<Null>>),
               Obj(<<>>)} \cup {Str(<<t>>) : t \in {"hello", "catalog_snapshot",
                                                "sample_batch", "heartbeat"}}
=============================================================================
