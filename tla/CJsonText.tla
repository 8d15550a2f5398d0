------------------------------ MODULE CJsonText ------------------------------
(***************************************************************************)
(* cJSON_Parse and cJSON_PrintUnformatted, the recursion of parse_value    *)
(* unrolled into a stack.  A text is a sequence of tokens: the six         *)
(* punctuation marks, strings, "lit" for null, true, false and numbers,    *)
(* and "bad" for what begins no token or an unfinished one.  Any           *)
(* allocation may fail; starved remembers that one did.                    *)
(***************************************************************************)
EXTENDS CJson

CONSTANTS
    NestingLimit, \* CJSON_NESTING_LIMIT
    BufSize,      \* default_buffer_size of print
    Width         \* the strings, each with the characters it prints with

Strings == DOMAIN Width
Marks == {"[", "]", "{", "}", ",", ":"}
Symbols == Strings \cup Marks \cup {"lit", "bad"}

ASSUME TextAssumption == /\ NestingLimit \in Nat \ {0}
                         /\ BufSize \in Nat \ {0} /\ Width \in [DOMAIN Width -> Nat]
                         /\ Strings \cap (Marks \cup {"lit", "bad", "end", NoStr}) = {}

VARIABLES
    heap,
    body,   \* the text being parsed, and what it is
    pos,    \* tokens consumed
    stack,  \* the arrays and objects being parsed: [item, open, head, cur]
    pc,
    root,   \* the item cJSON_ParseWithLengthOpts returns
    buf,    \* the print buffer: [len, off], len = 0 when there is none
    piece,  \* the next token of the tree to print
    starved

textVars == <<heap, body, pos, stack, pc, root, buf, piece, starved>>

NoBuf == [len |-> 0, off |-> 0]

Token == IF pos < Len(body.text) THEN body.text[pos + 1] ELSE "end"
Top == Last(stack)
Close(open) == IF open = "[" THEN "]" ELSE "}"

(* The item whose value comes next.                                        *)
Target == IF stack = <<>> THEN root ELSE Top.cur

Goto(p) == pc' = p
Consume == pos' = pos + 1
Starve(p) == Goto(p) /\ starved' = TRUE
-----------------------------------------------------------------------------
(* Parsing *)

ParseStart ==
    /\ pc = "parse"
    /\ \/ /\ ~Full(heap)
          /\ heap' = WithItem(heap, "invalid") /\ root' = Fresh(heap)
          /\ Goto("value") /\ UNCHANGED starved
       \/ Starve("refused") /\ UNCHANGED <<heap, root>>
    /\ pos' = 0 /\ stack' = <<>>
    /\ UNCHANGED <<body, buf, piece>>

(* parse_value of a value that is not a list; parse_string and             *)
(* parse_number allocate.                                                  *)
ParseLeaf ==
    /\ pc = "value" /\ Token \in Strings \cup {"lit"}
    /\ \/ /\ heap' = IF Token = "lit" THEN [heap EXCEPT ![Target].type = "lit"]
                     ELSE [heap EXCEPT ![Target].type = "string", ![Target].str = Token]
          /\ Consume /\ Goto("after") /\ UNCHANGED starved
       \/ Starve("fail") /\ UNCHANGED <<heap, pos>>
    /\ UNCHANGED <<body, stack, root, buf, piece>>

(* The opening bracket of parse_array and parse_object.                    *)
ParseOpen ==
    /\ pc = "value" /\ Token \in {"[", "{"}
    /\ IF Len(stack) >= NestingLimit THEN Goto("fail") /\ UNCHANGED <<pos, stack>>
       ELSE /\ stack' = Append(stack, [item |-> Target, open |-> Token, head |-> Nil, cur |-> Nil])
            /\ Consume /\ Goto("first")
    /\ UNCHANGED <<heap, body, root, buf, piece, starved>>

ParseNothing ==
    /\ pc = "value" /\ Token \notin Strings \cup {"lit", "[", "{"}
    /\ Goto("fail")
    /\ UNCHANGED <<heap, body, pos, stack, root, buf, piece, starved>>

(* The list ends: its first element learns the last, and its item gets it. *)
CloseList_NoTail(h, f) == [h EXCEPT ![f.item].type = IF f.open = "[" THEN "array" ELSE "object",
                                    ![f.item].child = f.head]
CloseList(h, f) ==
    LET tailed == IF f.head = Nil THEN h ELSE [h EXCEPT ![f.head].prev = f.cur]
    IN [tailed EXCEPT ![f.item].type = IF f.open = "[" THEN "array" ELSE "object",
                      ![f.item].child = f.head]

ParseClose ==
    /\ pc \in {"first", "after"} /\ stack # <<>> /\ Token = Close(Top.open)
    /\ heap' = CloseList(heap, Top)
    /\ stack' = Front(stack)
    /\ Consume /\ Goto("after")
    /\ UNCHANGED <<body, root, buf, piece, starved>>

(* The next element is linked before its value is parsed.                  *)
ParseElement ==
    /\ \/ pc = "first" /\ Token # Close(Top.open) /\ UNCHANGED pos
       \/ pc = "after" /\ stack # <<>> /\ Token = "," /\ Consume
    /\ \/ /\ ~Full(heap)
          /\ LET new == Fresh(heap)
                 h == WithItem(heap, "invalid") IN
             /\ heap' = IF Top.head = Nil THEN h
                        ELSE [h EXCEPT ![Top.cur].next = new, ![new].prev = Top.cur]
             /\ stack' = [stack EXCEPT ![Len(stack)].cur = new,
                                       ![Len(stack)].head = IF @ = Nil THEN new ELSE @]
          /\ Goto(IF Top.open = "[" THEN "value" ELSE "name") /\ UNCHANGED starved
       \/ Starve("fail") /\ UNCHANGED <<heap, stack>>
    /\ UNCHANGED <<body, root, buf, piece>>

(* The name of a member, and the colon after it.                           *)
ParseName ==
    /\ pc = "name" /\ Token \in Strings
    /\ \/ /\ heap' = [heap EXCEPT ![Top.cur].name = Token]
          /\ Consume /\ Goto("colon") /\ UNCHANGED starved
       \/ Starve("fail") /\ UNCHANGED <<heap, pos>>
    /\ UNCHANGED <<body, stack, root, buf, piece>>

ParseColon ==
    /\ pc = "colon"
    /\ IF Token = ":" THEN Consume /\ Goto("value") ELSE Goto("fail") /\ UNCHANGED pos
    /\ UNCHANGED <<heap, body, stack, root, buf, piece, starved>>

ParseUnexpected ==
    /\ pc = "after" /\ stack # <<>> /\ Token \notin {",", Close(Top.open)}
    /\ Goto("fail")
    /\ UNCHANGED <<heap, body, pos, stack, root, buf, piece, starved>>

ParseNoName ==
    /\ pc = "name" /\ Token \notin Strings
    /\ Goto("fail")
    /\ UNCHANGED <<heap, body, pos, stack, root, buf, piece, starved>>

(* The value of the root is complete; what follows it is not looked at.    *)
ParseDone ==
    /\ pc = "after" /\ stack = <<>>
    /\ Goto("parsed")
    /\ UNCHANGED <<heap, body, pos, stack, root, buf, piece, starved>>

(* A failure deletes the unfinished list of each level, then the root.     *)
ParseFail ==
    /\ pc = "fail"
    /\ IF stack # <<>>
       THEN /\ heap' = IF Top.head = Nil THEN heap ELSE Delete(heap, Top.head)
            /\ stack' = Front(stack)
            /\ UNCHANGED <<pc, root>>
       ELSE /\ heap' = Delete(heap, root) /\ root' = Nil
            /\ Goto("refused")
            /\ UNCHANGED stack
    /\ UNCHANGED <<body, pos, buf, piece, starved>>

Parse == \/ ParseStart \/ ParseLeaf \/ ParseOpen \/ ParseNothing \/ ParseClose \/ ParseElement
         \/ ParseName \/ ParseNoName \/ ParseColon \/ ParseUnexpected \/ ParseDone \/ ParseFail
-----------------------------------------------------------------------------
(* Printing *)

(* The tokens print_value writes for item i of heap h.                     *)
Text(h, i) ==
    LET member(j) == IF h[j].name = NoStr THEN <<>> ELSE <<h[j].name, ":">>
        comma(j) == IF h[j].next = Nil THEN <<>> ELSE <<",">>
        value(j, inner) == CASE h[j].type = "string" -> <<h[j].str>>
                             [] h[j].type = "lit" -> <<"lit">>
                             [] h[j].type = "array" -> <<"[">> \o inner \o <<"]">>
                             [] h[j].type = "object" -> <<"{">> \o inner \o <<"}">>
        list[j \in Item \cup {Nil}] ==
            IF j \notin DOMAIN h THEN <<>>
            ELSE member(j) \o value(j, list[h[j].child]) \o comma(j) \o list[h[j].next]
    IN value(i, list[h[i].child])

Advance(t) == IF t \in Strings THEN Width[t] + 2 ELSE IF t = "lit" THEN 4 ELSE 1
Needed(t) == IF t \in {"[", ":"} THEN 1 ELSE Advance(t) + 1

(* What is written with it: the terminating 0 too, except after "[", "{"   *)
(* and ":".                                                                *)
Written(t) == IF t \in {"[", "{", ":"} THEN 1 ELSE Advance(t) + 1

(* ensure: room for what is needed after the offset, doubling.             *)
Ensured_FromStart(b, needed) == IF needed + 1 <= b.len THEN b.len ELSE (needed + 1) * 2
Ensured(b, needed) ==
    LET total == needed + b.off + 1 IN IF total <= b.len THEN b.len ELSE total * 2

PrintStart ==
    /\ pc = "print"
    /\ \/ buf' = [len |-> BufSize, off |-> 0] /\ piece' = 1 /\ Goto("piece") /\ UNCHANGED starved
       \/ Starve("unprinted") /\ UNCHANGED <<buf, piece>>
    /\ UNCHANGED <<heap, body, pos, stack, root>>

PrintPiece ==
    /\ pc = "piece" /\ piece <= Len(Text(heap, root))
    /\ LET t == Text(heap, root)[piece]
           len == Ensured(buf, Needed(t)) IN
       \/ /\ buf' = [len |-> len, off |-> buf.off + Advance(t)]
          /\ piece' = piece + 1
          /\ UNCHANGED <<pc, starved>>
       \/ /\ len # buf.len                      \* realloc fails: the buffer is freed
          /\ buf' = NoBuf /\ Starve("unprinted") /\ UNCHANGED piece
    /\ UNCHANGED <<heap, body, pos, stack, root>>

(* The text is moved to a block of its size; the caller copies and frees   *)
(* it.                                                                     *)
PrintDone ==
    /\ pc = "piece" /\ piece > Len(Text(heap, root))
    /\ buf' = NoBuf
    /\ \/ Goto("printed") /\ UNCHANGED starved
       \/ Starve("unprinted")
    /\ UNCHANGED <<heap, body, pos, stack, root, piece>>

Printing == PrintStart \/ PrintPiece \/ PrintDone
=============================================================================
