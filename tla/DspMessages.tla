----------------------------- MODULE DspMessages -----------------------------
(***************************************************************************)
(* What the HTTP handlers do with JSON: dsp_msg checks the body of a       *)
(* request, dsp_json takes the process id out of it, dsp_build makes the   *)
(* answer, all of them over the heap of cJSON, where any allocation may    *)
(* fail.  The server task runs one handler at a time; validators and       *)
(* builders no handler uses are called alone, as the unit tests do.  What  *)
(* the tables answer is DspNeg's and DspXfer's business: here they accept  *)
(* or refuse.                                                              *)
(***************************************************************************)
EXTENDS CJsonText

CONSTANTS
    Bodies,       \* the texts that arrive, with what they mean
    Pids,         \* the identifiers the tables hold
    Long          \* strings of DSP_NEG_PID_LEN characters or more

ASSUME MessagesAssumption == \A b \in Bodies : b.text \in Seq(Symbols)

VARIABLES
    call,     \* the handler or library function that runs
    at,       \* how far it is
    verdict,  \* dsp_msg_err_t of the validator, "none" before it answers
    made,     \* the handler has changed a table
    plan,     \* the message being built: [kind, pid, state]
    step,     \* the next step of its builder
    sub,      \* the builder's second local: an object or array not yet attached
    resp,     \* the handler's answer buffer, as tokens
    rc,       \* dsp_build_err_t
    answer    \* what the handler sends: [ok, text]

msgVars == <<call, at, verdict, made, plan, step, sub, resp, rc, answer>>
vars == <<textVars, msgVars>>

NoBody == [text |-> <<>>, parses |-> FALSE]
NoPlan == [kind |-> "none", pid |-> "", state |-> ""]
NoAnswer == [ok |-> FALSE, text |-> <<>>]
Unwritten == <<"bad">>  \* char resp[N] before anything is stored in it

NegState == {"dspace:REQUESTED", "dspace:OFFERED", "dspace:AGREED", "dspace:VERIFIED",
             "dspace:FINALIZED", "dspace:TERMINATED"}

(* The validators: the type they expect, the fields they require.          *)
Required == [
    catalog_request  |-> [type |-> "dspace:CatalogRequestMessage", strings |-> {}, objects |-> {}],
    transfer_request |-> [type |-> "dspace:TransferRequestMessage",
                          strings |-> {"dspace:processId", "dspace:dataset"}, objects |-> {}],
    offer            |-> [type |-> "dspace:ContractOfferMessage",
                          strings |-> {"dspace:processId"}, objects |-> {"dspace:offer"}],
    agreement        |-> [type |-> "dspace:ContractAgreementMessage",
                          strings |-> {"dspace:processId"}, objects |-> {"dspace:agreement"}]]

Validator == [offers |-> "catalog_request", request |-> "catalog_request", start |-> "transfer_request",
              validate_offer |-> "offer", validate_agreement |-> "agreement"]

Posting == DOMAIN Validator \cup {"terminate"}
Reading == {"catalog", "agree", "negGet", "complete", "xferGet", "build_agreement"}

(* The answer buffer of a handler.                                         *)
Capacity(c) == IF c \in {"catalog", "request"} THEN 512 ELSE 1024
-----------------------------------------------------------------------------
(* dsp_msg and dsp_json_get_string *)

IsString(h, i) == i # Nil /\ h[i].type = "string"
HasString(h, o, name) == LET i == ObjectItem(h, o, name) IN IsString(h, i) /\ h[i].str # ""
HasObject(h, o, name) == LET i == ObjectItem(h, o, name) IN i # Nil /\ h[i].type = "object"

CheckCommon_AnyType(h, o, type) ==
    IF o = Nil THEN "PARSE"
    ELSE IF ~HasString(h, o, "@context") THEN "MISSING_CONTEXT"
    ELSE IF ~HasString(h, o, "@type") THEN "WRONG_TYPE" ELSE "OK"
CheckCommon(h, o, type) ==
    LET t == ObjectItem(h, o, "@type") IN
    IF o = Nil THEN "PARSE"
    ELSE IF ~HasString(h, o, "@context") THEN "MISSING_CONTEXT"
    ELSE IF ~IsString(h, t) \/ h[t].str # type THEN "WRONG_TYPE" ELSE "OK"

Validated(h, o, must) ==
    LET common == CheckCommon(h, o, must.type) IN
    IF common # "OK" THEN common
    ELSE IF /\ \A name \in must.strings : HasString(h, o, name)
            /\ \A name \in must.objects : HasObject(h, o, name)
    THEN "OK" ELSE "MISSING_FIELD"

(* The string of a field, "" when it is none or does not fit.              *)
GetString(h, o, name) ==
    LET i == ObjectItem(h, o, name)
    IN IF IsString(h, i) /\ h[i].str \notin Long THEN h[i].str ELSE ""
-----------------------------------------------------------------------------
(* dsp_build: the steps of each builder *)

Stamp(type) == << <<"root", "@context", "context.json">>, <<"root", "@type", type>> >>

Steps(p) ==
    CASE p.kind = "catalog" ->
           << <<"new", "root">>, <<"new", "sub">>, <<"sub", "@type", "dcat:Dataset">>,
              <<"sub", "@id", "dataset-1">>, <<"array">> >>
           \o Stamp("dcat:Catalog") \o << <<"root", "dct:title", "title">>, <<"attach", "dcat:dataset">> >>
      [] p.kind = "agreement" ->
           << <<"new", "root">>, <<"new", "sub">>, <<"sub", "@type", "odrl:Agreement">>,
              <<"sub", "@id", "agreement-1">> >>
           \o Stamp("dspace:ContractAgreementMessage")
           \o << <<"root", "dspace:processId", p.pid>>, <<"attach", "dspace:agreement">> >>
      [] p.kind = "event" ->
           << <<"new", "root">> >> \o Stamp("dspace:ContractNegotiationEventMessage")
           \o << <<"root", "dspace:processId", p.pid>>, <<"root", "dspace:eventType", p.state>> >>
      [] p.kind = "start" ->
           << <<"new", "root">>, <<"new", "sub">>, <<"sub", "dspace:endpointUrl", "provider-1">> >>
           \o Stamp("dspace:TransferStartMessage")
           \o << <<"root", "dspace:processId", p.pid>>, <<"attach", "dspace:dataAddress">> >>
      [] p.kind = "completion" ->
           << <<"new", "root">> >> \o Stamp("dspace:TransferCompletionMessage")
           \o << <<"root", "dspace:processId", p.pid>> >>
      [] p.kind = "error" ->
           << <<"new", "root">> >> \o Stamp("dspace:Error")
           \o << <<"root", "dspace:code", "FAILED">>, <<"root", "dspace:reason", "transfer failed">> >>

(* dsp_json_add_string: replaces a member of that name.                    *)
AddString(h, o, key, val) ==
    LET old == ObjectItem(h, o, key)
        freed == IF old = Nil THEN h ELSE Delete(Detach(h, o, old), old)
        new == Fresh(freed)
    IN AddToObject([WithItem(freed, "string") EXCEPT ![new].str = val], o, key, new)

(* What a step that succeeds leaves.                                       *)
Built(s) ==
    CASE s = <<"new", "root">> ->
           [heap |-> WithItem(heap, "object"), root |-> Fresh(heap), sub |-> sub]
      [] s = <<"new", "sub">> ->
           [heap |-> WithItem(heap, "object"), root |-> root, sub |-> Fresh(heap)]
      [] s = <<"array">> ->
           [heap |-> AddToArray(WithItem(heap, "array"), Fresh(heap), sub),
            root |-> root, sub |-> Fresh(heap)]
      [] s[1] = "attach" ->
           [heap |-> AddToObject(heap, root, s[2], sub), root |-> root, sub |-> Nil]
      [] OTHER ->
           [heap |-> AddString(heap, IF s[1] = "root" THEN root ELSE sub, s[2], s[3]),
            root |-> root, sub |-> sub]

Reply(ok, text) == at' = "answered" /\ answer' = [ok |-> ok, text |-> text]
Refuse == Reply(FALSE, <<>>)

BuildStep ==
    /\ at = "build" /\ step <= Len(Steps(plan)) /\ ~Full(heap)
    /\ LET b == Built(Steps(plan)[step]) IN
         heap' = b.heap /\ root' = b.root /\ sub' = b.sub
    /\ step' = step + 1
    /\ UNCHANGED <<body, pos, stack, pc, buf, piece, starved,
                   call, at, verdict, made, plan, resp, rc, answer>>

(* An allocation of the step fails: the builder deletes its locals and     *)
(* leaves the buffer alone.                                                *)
BuildFails_OneLocal ==
    /\ at = "build" /\ step <= Len(Steps(plan))
    /\ heap' = Delete(heap, root) /\ root' = Nil /\ sub' = Nil
    /\ rc' = "ALLOC" /\ at' = "answer" /\ starved' = TRUE
    /\ UNCHANGED <<body, pos, stack, pc, buf, piece, call, verdict, made, plan, step, resp, answer>>
BuildFails ==
    /\ at = "build" /\ step <= Len(Steps(plan))
    /\ heap' = Delete(Delete(heap, sub), root) /\ root' = Nil /\ sub' = Nil
    /\ rc' = "ALLOC" /\ at' = "answer" /\ starved' = TRUE
    /\ UNCHANGED <<body, pos, stack, pc, buf, piece, call, verdict, made, plan, step, resp, answer>>

(* finalise: dsp_json_print empties the buffer, prints, and copies what    *)
(* fits; the tree is deleted whatever happened.                            *)
PrintAnswer ==
    /\ at = "build" /\ step > Len(Steps(plan))
    /\ resp' = <<>> /\ at' = "print" /\ Goto("print")
    /\ UNCHANGED <<heap, body, pos, stack, root, buf, piece, starved,
                   call, verdict, made, plan, step, sub, rc, answer>>

Length(text) == FoldLeft(LAMBDA n, t : n + Advance(t), 0, text)

Finalise ==
    /\ at = "print" /\ pc \in {"printed", "unprinted"}
    /\ LET text == Text(heap, root) IN
       IF pc = "printed" /\ Length(text) < Capacity(call)
       THEN resp' = text /\ rc' = "OK"
       ELSE rc' = "BUF_TOO_SMALL" /\ UNCHANGED resp
    /\ heap' = Delete(heap, root) /\ root' = Nil
    /\ at' = "answer" /\ Goto("rest")
    /\ UNCHANGED <<body, pos, stack, buf, piece, starved, call, verdict, made, plan, step, sub, answer>>

(* The catalog handlers look at the result, the others send the buffer.    *)
Answer_Always ==
    /\ at = "answer" /\ Reply(TRUE, resp)
    /\ UNCHANGED <<textVars, call, verdict, made, plan, step, sub, resp, rc>>
Answer ==
    /\ at = "answer"
    /\ IF call \in {"catalog", "request"} /\ rc # "OK" THEN Refuse ELSE Reply(TRUE, resp)
    /\ UNCHANGED <<textVars, call, verdict, made, plan, step, sub, resp, rc>>
-----------------------------------------------------------------------------
(* The handlers *)

(* The message a handler answers with, for the identifier p.               *)
Plans(c, p) ==
    LET of(kind, states) == [kind : {kind}, pid : {p}, state : states] IN
    CASE c \in {"catalog", "request"} -> {[NoPlan EXCEPT !.kind = "catalog"]}
      [] c = "offers"    -> of("event", {"dspace:OFFERED"})
      [] c = "agree"     -> of("event", {"dspace:AGREED"})
      [] c = "terminate" -> of("event", {"dspace:TERMINATED"})
      [] c = "negGet"    -> of("event", NegState)
      [] c = "start"     -> of("start", {""})
      [] c = "complete"  -> of("completion", {""})
      [] c = "xferGet"   -> of("start", {""}) \cup of("completion", {""}) \cup of("error", {""})
      [] c = "build_agreement" -> of("agreement", {""})

Build(c, p) == at' = "build" /\ step' = 1 /\ plan' \in Plans(c, p)

(* A request with a body is read and parsed, an empty one refused.         *)
Request(c, b) ==
    /\ at = "idle" /\ c \in Posting
    /\ call' = c /\ body' = b /\ resp' = Unwritten
    /\ IF b.text = <<>> THEN Refuse /\ UNCHANGED pc
       ELSE /\ at' = IF c = "terminate" THEN "extract" ELSE "validate"
            /\ Goto("parse") /\ UNCHANGED answer
    /\ UNCHANGED <<heap, pos, stack, root, buf, piece, starved, verdict, made, plan, step, sub, rc>>

(* A request that names its entry in the path: the tables refuse it or     *)
(* the answer is built.                                                    *)
Lookup(c, p) ==
    /\ at = "idle" /\ c \in Reading
    /\ call' = c /\ resp' = Unwritten
    /\ \/ Build(c, p) /\ made' = (c \in {"agree", "complete"}) /\ UNCHANGED answer
       \/ c \in {"agree", "negGet", "complete", "xferGet"} /\ Refuse /\ UNCHANGED <<made, plan, step>>
    /\ UNCHANGED <<textVars, verdict, sub, rc>>

Parsing == at \in {"validate", "extract"} /\ Parse /\ UNCHANGED msgVars
PrintingAnswer == at = "print" /\ Printing /\ UNCHANGED msgVars

DropTree == heap' = Delete(heap, root) /\ root' = Nil /\ pos' = 0

(* A validator answers and deletes its tree; the handler goes on or        *)
(* refuses.                                                                *)
Checked(v) == DropTree /\ verdict' = v

Validate ==
    /\ at = "validate" /\ pc \in {"parsed", "refused"}
    /\ LET v == Validated(heap, root, Required[Validator[call]]) IN
       /\ Checked(v)
       /\ \/ /\ \/ call = "offers" /\ v # "OK"
                \/ call = "start" /\ v = "OK"
             /\ at' = "extract" /\ Goto("parse") /\ UNCHANGED <<plan, step, answer>>
          \/ /\ call = "request" /\ v = "OK"
             /\ Build(call, "") /\ Goto("rest") /\ UNCHANGED answer
          \/ /\ \/ call = "offers" /\ v = "OK"
                \/ call \in {"start", "request"} /\ v # "OK"
                \/ call \in {"validate_offer", "validate_agreement"}
             /\ Reply(call \in {"validate_offer", "validate_agreement"} /\ v = "OK", <<>>)
             /\ Goto("rest") /\ UNCHANGED <<plan, step>>
    /\ UNCHANGED <<body, stack, buf, piece, starved, call, made, sub, resp, rc>>

(* The process id is taken from a second tree; the tables take it or       *)
(* refuse.                                                                 *)
Extract_Unchecked ==
    /\ at = "extract" /\ pc \in {"parsed", "refused"}
    /\ LET p == IF root = Nil THEN "" ELSE GetString(heap, root, "dspace:processId") IN
       \/ Build(call, p) /\ made' = TRUE /\ UNCHANGED answer
       \/ Refuse /\ UNCHANGED <<made, plan, step>>
    /\ DropTree /\ Goto("rest")
    /\ UNCHANGED <<body, stack, buf, piece, starved, call, verdict, sub, resp, rc>>
Extract ==
    /\ at = "extract" /\ pc \in {"parsed", "refused"}
    /\ LET p == IF root = Nil THEN "" ELSE GetString(heap, root, "dspace:processId") IN
       \/ p # "" /\ Build(call, p) /\ made' = TRUE /\ UNCHANGED answer
       \/ Refuse /\ UNCHANGED <<made, plan, step>>
    /\ DropTree /\ Goto("rest")
    /\ UNCHANGED <<body, stack, buf, piece, starved, call, verdict, sub, resp, rc>>

Init ==
    /\ heap = <<>> /\ body = NoBody /\ pos = 0 /\ stack = <<>> /\ pc = "rest" /\ root = Nil
    /\ buf = NoBuf /\ piece = 0 /\ starved = FALSE
    /\ call = "none" /\ at = "idle" /\ verdict = "none" /\ made = FALSE /\ plan = NoPlan
    /\ step = 0 /\ sub = Nil /\ resp = <<>> /\ rc = "none" /\ answer = NoAnswer

(* The server turns to the next request.                                   *)
Return ==
    /\ at = "answered"
    /\ body' = NoBody /\ pos' = 0 /\ stack' = <<>> /\ pc' = "rest"
    /\ piece' = 0 /\ starved' = FALSE
    /\ call' = "none" /\ at' = "idle" /\ verdict' = "none" /\ made' = FALSE /\ plan' = NoPlan
    /\ step' = 0 /\ sub' = Nil /\ resp' = <<>> /\ rc' = "none" /\ answer' = NoAnswer
    /\ UNCHANGED <<heap, root, buf>>

Work == \/ Parsing \/ Validate \/ Extract \/ BuildStep \/ BuildFails
        \/ PrintAnswer \/ PrintingAnswer \/ Finalise \/ Answer \/ Return

Next == \/ \E c \in Posting, b \in Bodies \cup {NoBody} : Request(c, b)
        \/ \E c \in Reading, p \in Pids : Lookup(c, p)
        \/ Work

Spec == Init /\ [][Next]_vars
-----------------------------------------------------------------------------
(* Reference definitions: what a body says, what a message looks like. *)

Means(b, name) == IF name \in DOMAIN b.members THEN b.members[name] ELSE "absent"
Says(b, name) == Means(b, name) \in Strings \ {""}

Expected(b, must) ==
    CASE ~b.parses -> "PARSE"
      [] b.parses /\ ~Says(b, "@context") -> "MISSING_CONTEXT"
      [] b.parses /\ Says(b, "@context") /\ Means(b, "@type") # must.type -> "WRONG_TYPE"
      [] OTHER -> IF /\ \A name \in must.strings : Says(b, name)
                     /\ \A name \in must.objects : Means(b, name) = "object"
                  THEN "OK" ELSE "MISSING_FIELD"

Member(k, value) == <<k, ":">> \o value
Object(type, rest) ==
    <<"{">> \o Member("@context", <<"context.json">>) \o <<",">> \o Member("@type", <<type>>)
    \o FoldLeft(LAMBDA text, m : text \o <<",">> \o m, <<>>, rest) \o <<"}">>

Message(p) ==
    LET id == Member("dspace:processId", <<p.pid>>)
        part(type, name) == <<"{">> \o Member("@type", <<type>>) \o <<",">> \o Member("@id", <<name>>) \o <<"}">>
    IN CASE p.kind = "catalog" ->
              Object("dcat:Catalog",
                     <<Member("dct:title", <<"title">>),
                       Member("dcat:dataset", <<"[">> \o part("dcat:Dataset", "dataset-1") \o <<"]">>)>>)
         [] p.kind = "agreement" ->
              Object("dspace:ContractAgreementMessage",
                     <<id, Member("dspace:agreement", part("odrl:Agreement", "agreement-1"))>>)
         [] p.kind = "event" ->
              Object("dspace:ContractNegotiationEventMessage", <<id, Member("dspace:eventType", <<p.state>>)>>)
         [] p.kind = "start" ->
              Object("dspace:TransferStartMessage",
                     <<id, Member("dspace:dataAddress",
                                  <<"{">> \o Member("dspace:endpointUrl", <<"provider-1">>) \o <<"}">>)>>)
         [] p.kind = "completion" -> Object("dspace:TransferCompletionMessage", <<id>>)
         [] p.kind = "error" ->
              Object("dspace:Error", <<Member("dspace:code", <<"FAILED">>),
                                       Member("dspace:reason", <<"transfer failed">>)>>)
-----------------------------------------------------------------------------

(* Whatever the body and whichever allocation fails, no item that is left  *)
(* points to one that was freed, and a handler that has answered leaves no *)
(* item and no buffer behind.                                              *)
NothingLeaks == NoDangling(heap) /\ (at \in {"idle", "answered"} => heap = <<>> /\ buf = NoBuf)

(* The tree cJSON_Parse returns prints back as the tokens it consumed, and *)
(* the lists in it are closed.                                             *)
PrintsBack == pc = "parsed" =>
    /\ Text(heap, root) = SubSeq(body.text, 1, pos)
    /\ \A i \in DOMAIN heap : Closed(heap, Children(heap, i))

(* A validator says of a body what the body is; short of memory it says    *)
(* that it does not parse, and never that it is valid when it is not.      *)
VerdictExact == verdict # "none" =>
    \/ verdict = Expected(body, Required[Validator[call]])
    \/ starved /\ verdict = "PARSE"

(* A table changes only for a request that carries what the handler needs, *)
(* and never for one that is answered with an error.                       *)
AcceptedValid == made =>
    /\ call = "start" => Expected(body, Required.transfer_request) = "OK"
    /\ call \in {"offers", "start", "terminate"} =>
           body.parses /\ Says(body, "dspace:processId") /\ plan.pid = body.members["dspace:processId"]
    /\ at = "answered" => answer.ok

(* When no allocation fails every answer that reports success carries the  *)
(* whole message, so each fits its buffer; those of the catalog do so even *)
(* when one fails.                                                         *)
AnswerWhole == at = "answered" /\ answer.ok /\ plan # NoPlan
               /\ (call \in {"catalog", "request"} \/ ~starved) => answer.text = Message(plan)

(* What is written, a terminating 0 included, stays within the print       *)
(* buffer ensure made room in.                                             *)
BufferFits == [][PrintPiece /\ buf' # NoBuf =>
                   buf.off + Written(Text(heap, root)[piece]) <= buf'.len]_vars
=============================================================================
