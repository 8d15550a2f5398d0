------------------------------- MODULE DspHttp -------------------------------
(***************************************************************************)
(* The HTTP server of the node as the DSP handlers see it                  *)
(* (components/dsp_http): whether it runs, and the request that its single *)
(* task is working on.  esp_http_server serves every connection from one   *)
(* task, so one handler runs at a time; what may run between two steps of  *)
(* a handler is code of other tasks.                                       *)
(*                                                                         *)
(* A handler that writes a slot table in several stores is split into one  *)
(* action per store (httpd.pc); a handler with a single store, or none, is *)
(* one action.  Process identifiers are model values: what the text of an  *)
(* identifier does is captured by UriId.                                   *)
(***************************************************************************)
EXTENDS Naturals

CONSTANTS
    Pid,    \* process identifiers that consumers use (at most 63 characters)
    NoPid,  \* the empty string: no identifier in the body, the path or a slot
    UriId   \* UriId[p]: what extract_neg_id/extract_xfer_id read back from a
            \* path that holds p.  Identifiers without "/" give p itself; others
            \* are cut at their first "/" and may name another negotiation.

ASSUME PidAssumption == /\ NoPid \notin Pid
                        /\ UriId \in [Pid -> Pid \cup {NoPid}]

VARIABLES
    server, \* "off", "on", or "stopping" (httpd_stop waits for the server task)
    httpd,  \* the server task: program counter, identifier and slot it works on
    told    \* history: every <<identifier, state>> a consumer was told by a 2xx
            \* answer since the last loss of state the code documents

PidOrNone == Pid \cup {NoPid}

Idle == [pc |-> "idle", pid |-> NoPid, slot |-> 0]

(* What a request must find to be given to a handler: the server accepts   *)
(* connections and its task has finished the request before.               *)
Ready == server = "on" /\ httpd = Idle

At(pc) == httpd.pc = pc

(* The handler goes on at pc with the slot and identifier it holds.        *)
Goto(pc) == httpd' = [httpd EXCEPT !.pc = pc]

(* The handler answers 2xx with the state s of identifier p and returns.   *)
Tell(p, s) == /\ httpd' = Idle
              /\ told' = told \cup {<<p, s>>}

(***************************************************************************)
(* dsp_http_start and dsp_http_stop                                        *)
(***************************************************************************)

(* Starting a running server is refused (ESP_ERR_INVALID_STATE); a failing *)
(* httpd_start leaves it off, which every caller treats as non-fatal.      *)
HttpStart == /\ server = "off"
             /\ server' = "on"
             /\ UNCHANGED <<httpd, told>>

(* httpd_stop posts a shutdown to the server task, which takes no further  *)
(* request, and blocks its caller until that task has ended.               *)
HttpStopRequest == /\ server = "on"
                   /\ server' = "stopping"
                   /\ UNCHANGED <<httpd, told>>

HttpStopped == /\ server = "stopping"
               /\ httpd = Idle
               /\ server' = "off"
               /\ UNCHANGED <<httpd, told>>
=============================================================================
