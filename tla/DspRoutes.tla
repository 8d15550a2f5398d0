------------------------------ MODULE DspRoutes ------------------------------
(***************************************************************************)
(* The route table of the HTTP server (components/dsp_http) over the       *)
(* registrations of esp_http_server.  The table outlives the server: its   *)
(* routes are applied again by every start.  A route is named after its    *)
(* handler; what its URI template matches is Covers.  The server refuses a *)
(* route whose template is already matched by a registered one of the same *)
(* method, and gives a request to the first registered route that matches. *)
(***************************************************************************)
EXTENDS Naturals, Sequences, SequencesExt, FiniteSets

CONSTANTS
    MaxRoutes,        \* DSP_HTTP_MAX_ROUTES
    MaxFailures,      \* bound: registrations that run out of memory
    TerminateEnabled, \* CONFIG_DSP_ENABLE_NEGOTIATE_TERMINATE
    RequestEnabled    \* CONFIG_DSP_ENABLE_CATALOG_REQUEST

ASSUME RoutesAssumption == /\ MaxRoutes \in Nat \ {0} /\ MaxFailures \in Nat
                           /\ TerminateEnabled \in BOOLEAN /\ RequestEnabled \in BOOLEAN

VARIABLES
    s_routes,   \* the slots: a route, or NoRoute when not used
    registered, \* the routes the server knows, in order
    server,     \* s_server: "off", "on", or "stopping" (httpd_stop waits)
    s_http,     \* dsp_http's s_running
    serving,    \* the handler that works on a request, NoRoute
    failures    \* registrations that ran out of memory since boot

routeVars == <<s_routes, registered, server, s_http, serving, failures>>

NoRoute == "none"
Route == {"catalog", "request", "offers", "agree", "terminate", "negGet",
          "start", "complete", "xferGet"}

(* The endpoints the template of a route matches: the trailing wildcards   *)
(* of POST /negotiations/<any> and POST /transfers/<any> match more than   *)
(* their own.                                                              *)
Covers(r) == CASE r = "agree"    -> {"offers", "agree", "terminate"}
               [] r = "complete" -> {"start", "complete"}
               [] OTHER          -> {r}

Matching(e) == {i \in DOMAIN registered : e \in Covers(registered[i])}

(* The handler a request for endpoint e is given to.                       *)
Dispatch(e) == IF Matching(e) = {} THEN NoRoute
               ELSE registered[CHOOSE i \in Matching(e) : \A j \in Matching(e) : i <= j]

RoutesInit == /\ s_routes = [i \in 1..MaxRoutes |-> NoRoute]
              /\ registered = <<>>
              /\ server = "off" /\ s_http = FALSE
              /\ serving = NoRoute /\ failures = 0
-----------------------------------------------------------------------------
(* httpd_register_uri_handler on the running server                        *)

Refused(r) == Matching(r) # {} \/ Len(registered) = MaxRoutes

Applies(r) == /\ ~Refused(r)
              /\ registered' = Append(registered, r)
              /\ UNCHANGED failures

NotApplied(r) == /\ UNCHANGED registered
                 /\ \/ Refused(r) /\ UNCHANGED failures
                    \/ /\ ~Refused(r) /\ failures < MaxFailures   \* out of memory
                       /\ failures' = failures + 1

(* dsp_http_register_handler: the route takes the first free slot, and     *)
(* gives it back when the running server does not take it.                 *)
Free == {i \in 1..MaxRoutes : s_routes[i] = NoRoute}
FirstFree == CHOOSE i \in Free : \A j \in Free : i <= j

RegisterOk(r) == /\ Free # {}
                 /\ s_routes' = [s_routes EXCEPT ![FirstFree] = r]
                 /\ IF s_http THEN Applies(r) ELSE UNCHANGED <<registered, failures>>

RegisterFails(r) == /\ IF Free # {} THEN s_http /\ NotApplied(r)
                                    ELSE UNCHANGED <<registered, failures>>
                    /\ UNCHANGED s_routes

(* dsp_http_start applies the slot i; a route that is not taken is logged. *)
ApplySlot(i) == IF s_routes[i] = NoRoute THEN UNCHANGED <<registered, failures>>
                ELSE Applies(s_routes[i]) \/ NotApplied(s_routes[i])

(* The task of the server: one request at a time.                          *)
Request == /\ server = "on" /\ serving = NoRoute
           /\ \E e \in Route : serving' = Dispatch(e) /\ serving' # NoRoute
           /\ UNCHANGED <<s_routes, registered, server, s_http, failures>>

Respond == /\ serving # NoRoute
           /\ serving' = NoRoute
           /\ UNCHANGED <<s_routes, registered, server, s_http, failures>>

(* dsp_http_stop: nothing to do unless it runs; httpd_stop takes no more   *)
(* requests and blocks its caller until the one being served is answered.  *)
StopNeeded == s_http /\ server # "off"

HttpStopAsk == /\ StopNeeded /\ server = "on"
               /\ server' = "stopping"
               /\ UNCHANGED <<s_routes, registered, s_http, serving, failures>>

HttpStopDone == /\ server = "stopping" /\ serving = NoRoute
                /\ server' = "off" /\ registered' = <<>> /\ s_http' = FALSE
                /\ UNCHANGED <<s_routes, serving, failures>>
=============================================================================
