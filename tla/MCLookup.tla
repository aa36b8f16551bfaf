------------------------------ MODULE MCLookup ------------------------------
(***************************************************************************)
(* Lookup on a chain of three blocks and a transaction that spends another *)
(* twice.  Besides, in the first state, before any lookup, the functions   *)
(* of Derivations are called with every argument of MCCalls.               *)
(***************************************************************************)
EXTENDS Lookup, Derivations

MCTxs == {"c0", "c1", "c2", "t", "u"}
MCInputs == [x \in MCTxs |->
                CASE x = "t" -> << <<"c0", 0>> >>
                  [] x = "u" -> << <<"t", 0>>, <<"c0", 1>>, <<"t", 1>> >>
                  [] OTHER -> <<>>]
MCBlocks == {"b0", "b1", "b2"}
MCBlockTxs == [b \in MCBlocks |-> CASE b = "b0" -> <<"c0">>
                                    [] b = "b1" -> <<"c1", "t">>
                                    [] b = "b2" -> <<"c2", "t", "u">>]
Query(by, id, height, from) ==
    [by |-> by, id |-> id, height |-> height, from |-> from]
MCQueries == {Query("tx", "t", 0, 0), Query("tx", "u", 0, 0),
              Query("block", "b1", 0, 0), Query("block", "b2", 0, 2),
              Query("block", "t", 0, 0), Query("search", "b2", 0, 0),
              Query("search", "t", 0, 0), Query("search", None, 1, 0)}

MCBandMins == <<300, 100>>
MCFloors == [slow |-> 110, standard |-> 300, urgent |-> 200]
MCOutputs == [addr : {"a", "b", NoAddr}, sats : {1, 4}]
MCSnapshots == UNION {[ts -> [rate : {0, 100, 104, 196, 300, 500}, vsize : {1, 2, 3}]] :
                          ts \in {{}, {1}, {1, 2}}}
               \cup [1..3 -> [rate : {100, 304, 500}, vsize : {1, 2}]]
MCHistories == {h \in SeqOf([sent : {0, 3, 9}, recv : {0, 2, 9}, fee : {1},
                             known : BOOLEAN], 2) :
                   \A i \in DOMAIN h : h[i].sent + h[i].recv > 0}
MCCalls ==
    [fn : {"tx"}, outs : SeqOf(MCOutputs, 3), from : SUBSET {"a", "b"}]
    \cup [fn : {"codes"}, codes : SeqOf({"x", "y", "z", NoCode}, 5)]
    \cup [fn : {"address"}, history : MCHistories]
    \cup [fn : {"pages"}, total : 0..6, approximate : BOOLEAN, limit : 1..3]
    \cup [fn : {"height"}, height : 0..12, interval : 1..4, initial : {50, 5}]
    \cup [fn : {"snapshot"}, snapshot : MCSnapshots]

MCInit == Init /\ call = NoCall
MCNext ==
    \/ call = NoCall /\ Next /\ UNCHANGED call
    \/ Init /\ (Call \/ Return) /\ UNCHANGED vars
MCSpec == MCInit /\ [][MCNext]_<<vars, call>>
=============================================================================
