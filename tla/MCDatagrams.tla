------------------------------ MODULE MCDatagrams ------------------------------
(* Instances of Datagrams.  In a header one field at most is 1, so that no *)
(* two fields can be exchanged unnoticed; payloads have 0, 1 or 2 cells, so*)
(* a packet of one message has 8, 9 or 10.                                 *)
EXTENDS Datagrams

Headers == {<<0, 0, 0, 0>>, <<1, 0, 0, 0>>, <<0, 1, 0, 0>>, <<0, 0, 1, 0>>, <<0, 0, 0, 1>>}

ShortMessages ==
    {[type |-> type, chain |-> h[1], client |-> h[2], nonce |-> h[3], node |-> h[4], data |-> data] :
        type \in SEND..READY, h \in Headers, data \in {<<>>, <<3>>, <<3, 0>>}}
=============================================================================
