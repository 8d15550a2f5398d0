-------------------------------- MODULE MCJson --------------------------------
(* The library's trees and its strings, one or the other.                  *)
EXTENDS CJsonTree, CJsonString

Raw(b, u) == [bytes |-> b, units |-> u]
U(h) == <<92, 117>> \o h

MCPiece == {
    Raw(<<65>>, <<65>>), Raw(<<Quote>>, <<>>), Raw(<<195, 169>>, <<233>>),
    Raw(<<92, 34>>, <<34>>), Raw(<<92, 92>>, <<92>>), Raw(<<92, 110>>, <<10>>),
    Raw(<<92, 120>>, <<-1>>),                           \* \x
    Raw(U(<<48, 48, 49, 102>>), <<31>>),                \* \u001f
    Raw(U(<<48, 48, 69, 57>>), <<233>>),                \* \u00E9
    Raw(U(<<50, 48, 97, 99>>), <<8364>>),               \* \u20ac
    Raw(U(<<100, 56, 51, 68>>), <<55357>>),             \* \ud83D
    Raw(U(<<68, 69, 48, 48>>), <<56832>>),              \* \uDE00
    Raw(U(<<48, 48, 48, 103>>), <<0>>)}                 \* \u000g, taken for \u0000

JsonInit == Init /\ StringInit

JsonSpec == /\ JsonInit
            /\ [][\/ pieces = <<>> /\ Next /\ UNCHANGED pieces
                  \/ DOMAIN heap = {} /\ StringNext /\ UNCHANGED heap]_<<heap, pieces>>
=============================================================================
