---------------------------- MODULE MCDspMessages ----------------------------
(* The strings are named, and have the length they have in the program; an *)
(* identifier of 63 control characters prints as 378.                      *)
EXTENDS DspMessages

MCWidth == [s \in {""} |-> 0]
    @@ [s \in {"@context"} |-> 8] @@ [s \in {"@type"} |-> 5] @@ [s \in {"@id"} |-> 3]
    @@ [s \in {"context.json"} |-> 43]
    @@ [s \in {"dataset-1"} |-> 38] @@ [s \in {"agreement-1"} |-> 63]
    @@ [s \in {"provider-1"} |-> 32] @@ [s \in {"title"} |-> 27]
    @@ [s \in {"dct:title"} |-> 9] @@ [s \in {"dcat:dataset", "dcat:Dataset", "dcat:Catalog"} |-> 12]
    @@ [s \in {"odrl:Agreement"} |-> 14] @@ [s \in {"dspace:agreement"} |-> 16]
    @@ [s \in {"dspace:processId"} |-> 16] @@ [s \in {"dspace:eventType"} |-> 16]
    @@ [s \in {"dspace:dataset"} |-> 14] @@ [s \in {"dspace:offer"} |-> 12]
    @@ [s \in {"dspace:endpointUrl", "dspace:dataAddress"} |-> 18]
    @@ [s \in {"dspace:code"} |-> 11] @@ [s \in {"dspace:reason"} |-> 13]
    @@ [s \in {"FAILED"} |-> 6] @@ [s \in {"transfer failed"} |-> 15]
    @@ [s \in {"dspace:ContractNegotiationEventMessage"} |-> 38]
    @@ [s \in {"dspace:CatalogRequestMessage"} |-> 28] @@ [s \in {"dspace:TransferStartMessage"} |-> 27]
    @@ [s \in {"dspace:ContractOfferMessage"} |-> 27]
    @@ [s \in {"dspace:ContractAgreementMessage"} |-> 31]
    @@ [s \in {"dspace:TransferRequestMessage"} |-> 29]
    @@ [s \in {"dspace:TransferCompletionMessage"} |-> 32] @@ [s \in {"dspace:Error"} |-> 12]
    @@ [s \in NegState |-> 17]
    @@ [s \in {"p1"} |-> 36] @@ [s \in {"escaped"} |-> 378] @@ [s \in {"long"} |-> 64]

MCPids == {"p1", "escaped"}
MCLong == {"long"}

(* A body of an object: its members in order, each <<name, value>>; the    *)
(* first of a name counts.                                                 *)
Value(v) == IF v = "object" THEN <<"{", "@type", ":", "p1", "}">>
            ELSE IF v = "list" THEN <<"[", "p1", ",", "lit", "]">> ELSE <<v>>

Doc(members) ==
    LET each == [n \in DOMAIN members |-> <<members[n][1], ":">> \o Value(members[n][2])]
        text == FoldLeft(LAMBDA t, m : IF t = <<>> THEN m ELSE t \o <<",">> \o m, <<>>, each)
        first(name) == CHOOSE n \in DOMAIN members :
                          /\ members[n][1] = name
                          /\ \A m \in DOMAIN members : members[m][1] = name => n <= m
        names == {members[n][1] : n \in DOMAIN members}
    IN [text |-> <<"{">> \o text \o <<"}">>, parses |-> TRUE,
        members |-> [name \in names |-> members[first(name)][2]]]

Ctx == <<"@context", "context.json">>
Type(t) == <<"@type", t>>
Pid(p) == <<"dspace:processId", p>>
Dataset(d) == <<"dspace:dataset", d>>
TransferRequest == "dspace:TransferRequestMessage"

Transfer == <<Ctx, Type(TransferRequest), Pid("p1"), Dataset("dataset-1")>>

Objects ==
    {Doc(m) : m \in {
        <<>>, Transfer, Reverse(Transfer),
        [Transfer EXCEPT ![3] = Pid("escaped")], [Transfer EXCEPT ![3] = Pid("long")],
        [Transfer EXCEPT ![3] = Pid("")], [Transfer EXCEPT ![3] = Pid("object")],
        [Transfer EXCEPT ![4] = Dataset("object")], [Transfer EXCEPT ![4] = Dataset("list")],
        [Transfer EXCEPT ![1] = <<"@context", "">>], [Transfer EXCEPT ![1] = <<"@context", "lit">>],
        [Transfer EXCEPT ![2] = Type("lit")],
        Tail(Transfer), <<Ctx>> \o Tail(Tail(Transfer)), Front(Transfer),
        <<Pid("long")>> \o Transfer, Transfer \o <<Pid("long")>>,
        <<Ctx, Type("dspace:CatalogRequestMessage")>>,
        <<Ctx, Type("dspace:CatalogRequestMessage"), Pid("p1")>>,
        <<Ctx, Type("dspace:ContractOfferMessage"), Pid("p1"), <<"dspace:offer", "object">>>>,
        <<Ctx, Type("dspace:ContractOfferMessage"), Pid("p1"), <<"dspace:offer", "p1">>>>,
        <<Ctx, Type("dspace:ContractAgreementMessage"), Pid("p1"), <<"dspace:agreement", "object">>>>}}

(* httpd_req_recv may hand over the first part of a body, and what follows *)
(* the value is not looked at.                                             *)
Broken(text) == [text |-> text, parses |-> FALSE]
Whole == Doc(Transfer)
Nested == Doc(<<Ctx, <<"dspace:offer", "list">>>>)
Others ==
    {Broken(SubSeq(Whole.text, 1, n)) : n \in 1..(Len(Whole.text) - 1)}
    \cup {Broken(SubSeq(Nested.text, 1, n)) : n \in 7..(Len(Nested.text) - 1)}
    \cup {Broken(t) : t \in {<<"bad">>, <<"}">>, <<"[", "[", "[", "p1", "]", "]", "]">>,
                             <<"{", "@type", ":", "p1", ",", "}">>, <<"[", "p1", "}">>}}
    \cup {[Whole EXCEPT !.text = @ \o <<"bad">>], Nested}
    \cup {[text |-> t, parses |-> TRUE, members |-> [name \in {} |-> ""]] :
             t \in {<<"p1">>, <<"lit">>, <<"[", "]">>, <<"[", "@type", ",", "[", "lit", "]", "]">>}}

MCBodies == Objects \cup Others
=============================================================================
