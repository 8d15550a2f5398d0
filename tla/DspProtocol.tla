----------------------------- MODULE DspProtocol -----------------------------
(***************************************************************************)
(* The life of the protocol stack (components/dsp_protocol): the caller of *)
(* dsp_protocol_start and dsp_protocol_stop, the task on Core 0 that sets  *)
(* the modules up, and the task of the HTTP server, which serves as soon   *)
(* as it is started.  Of the modules only what start and stop do to them   *)
(* is kept: the certificate of dsp_identity, the parts of the TLS context, *)
(* the s_initialized flags of catalog, negotiation and transfer, and the   *)
(* routes they register.                                                   *)
(***************************************************************************)
EXTENDS DspRoutes

CONSTANTS
    MaxStarts,     \* bound: dsp_protocol_start calls
    StopsWhenReady \* dsp_protocol_stop is not called while the task initialises
                   \* and a start not while a task lives.  Nothing ensures it.

ASSUME ProtocolAssumption == MaxStarts \in Nat /\ StopsWhenReady \in BOOLEAN

VARIABLES
    ctl,           \* program counter of the caller of start and stop
    starts,        \* calls of dsp_protocol_start since boot
    task,          \* program counter of the protocol task, "none" without one
    plan,          \* the registrations it has still to make, group by group
    s_provisioned, \* dsp_identity: the parsed certificate is held
    tls,           \* the parts of s_tls_ctx that hold memory
    tlsReady,      \* s_tls_ctx.initialized
    unfreed,       \* history: a ticket setup has failed and left memory
    modules,       \* the modules whose s_initialized is set
    s_sh, s_running, s_task_handle,
    core0_ready    \* sh->core0_ready

stackVars == <<s_provisioned, tls, tlsReady, unfreed, modules>>
flagVars == <<s_sh, s_running, s_task_handle, core0_ready>>
protocolVars == <<routeVars, ctl, starts, task, plan, stackVars, flagVars>>

TlsParts == <<"rng", "cert", "key", "conf", "ticket">>
Module == {"catalog", "neg", "xfer"}

ModuleOf(r) == CASE r \in {"catalog", "request"} -> "catalog"
                 [] r \in {"offers", "agree", "terminate", "negGet"} -> "neg"
                 [] OTHER -> "xfer"

If(enabled, r) == IF enabled THEN <<r>> ELSE <<>>

(* What the modules register: a group stops at its first failure.          *)
NegRoutes_WildcardFirst == <<"agree", "offers", "negGet">>
NegRoutes == <<"offers", "agree">> \o If(TerminateEnabled, "terminate") \o <<"negGet">>
Groups == <<<<"catalog">>>> \o If(RequestEnabled, <<"request">>)
          \o <<NegRoutes, <<"start", "complete", "xferGet">>>>
Endpoint == UNION {ToSet(Groups[g]) : g \in DOMAIN Groups}

ProtocolInit ==
    /\ RoutesInit
    /\ ctl = "idle" /\ starts = 0
    /\ task = "none" /\ plan = <<>>
    /\ s_provisioned = FALSE /\ tls = {} /\ tlsReady = FALSE /\ unfreed = FALSE /\ modules = {}
    /\ s_sh = FALSE /\ s_running = FALSE /\ s_task_handle = FALSE /\ core0_ready = 0

Initialising == task \notin {"none", "loop"}
-----------------------------------------------------------------------------
(* protocol_init, on the protocol task *)

IdentityInit ==
    /\ task = "identity"
    /\ task' = "tls"
    /\ s_provisioned' = TRUE
    /\ UNCHANGED <<routeVars, ctl, starts, plan, tls, tlsReady, unfreed, modules, flagVars>>

(* No certificate or key is embedded, or the certificate does not parse:   *)
(* dsp_identity holds nothing and the task exits.                          *)
IdentityFails ==
    /\ task = "identity"
    /\ task' = "none"
    /\ s_task_handle' = FALSE
    /\ UNCHANGED <<routeVars, ctl, starts, plan, stackVars, s_sh, s_running, core0_ready>>

(* dsp_tls_server_deinit frees the session tickets of an initialised       *)
(* context only.                                                           *)
AfterFree_Cleared(parts, ready) == parts \ {"rng", "cert", "key", "conf"}
AfterFree(parts, ready) == IF ready THEN {} ELSE parts \ {"rng", "cert", "key", "conf"}

(* dsp_tls_server_init takes its parts in order; a part that fails may     *)
(* hold memory, and frees the context.  The stack goes on without it.      *)
Parts(n) == {TlsParts[i] : i \in 1..n}

TlsServerInit ==
    /\ task = "tls"
    /\ task' = "catalog"
    /\ \/ tls' = Parts(Len(TlsParts)) /\ tlsReady' = TRUE
       \/ \E n \in 1..Len(TlsParts) :
             /\ tls' \in {AfterFree(Parts(n), FALSE), AfterFree(Parts(n - 1), FALSE)}
             /\ tlsReady' = FALSE
    /\ unfreed' = (unfreed \/ (~tlsReady' /\ tls' # {}))
    /\ UNCHANGED <<routeVars, ctl, starts, plan, s_provisioned, modules, flagVars>>

(* dsp_catalog_init, dsp_neg_init and dsp_xfer_init cannot fail.           *)

ModuleInit(m, next) ==
    /\ task = m
    /\ task' = next
    /\ modules' = modules \cup {m}
    /\ UNCHANGED <<routeVars, ctl, starts, plan, s_provisioned, tls, tlsReady, unfreed, flagVars>>

(* dsp_http_start refuses to start twice; without a server the stack goes  *)
(* on and only fills the route table.                                      *)
HttpStartFails ==
    /\ task = "http"
    /\ task' = "register" /\ plan' = Groups
    /\ UNCHANGED <<routeVars, ctl, starts, stackVars, flagVars>>

HttpStart ==
    /\ task = "http" /\ ~s_http
    /\ server' = "on"
    /\ task' = "apply" /\ plan' = [i \in 1..MaxRoutes |-> i]
    /\ UNCHANGED <<s_routes, registered, s_http, serving, failures, ctl, starts, stackVars, flagVars>>

HttpApply_NoFlag ==
    /\ task = "apply"
    /\ IF plan = <<>>
       THEN /\ task' = "register" /\ plan' = Groups
            /\ UNCHANGED <<registered, failures>>
       ELSE /\ ApplySlot(Head(plan))
            /\ plan' = Tail(plan)
            /\ UNCHANGED task
    /\ UNCHANGED <<s_routes, server, s_http, serving, ctl, starts, stackVars, flagVars>>

HttpApply ==
    /\ task = "apply"
    /\ IF plan = <<>>
       THEN /\ s_http' = TRUE
            /\ task' = "register" /\ plan' = Groups
            /\ UNCHANGED <<registered, failures>>
       ELSE /\ ApplySlot(Head(plan))
            /\ plan' = Tail(plan)
            /\ UNCHANGED <<task, s_http>>
    /\ UNCHANGED <<s_routes, server, serving, ctl, starts, stackVars, flagVars>>

(* The next route of the group, or the next group after a failure.         *)
RegisterNext ==
    /\ task = "register" /\ plan # <<>>
    /\ \/ /\ RegisterOk(Head(Head(plan)))
          /\ plan' = IF Len(Head(plan)) = 1 THEN Tail(plan)
                     ELSE <<Tail(Head(plan))>> \o Tail(plan)
       \/ /\ RegisterFails(Head(Head(plan)))
          /\ plan' = Tail(plan)
    /\ UNCHANGED <<server, s_http, serving, ctl, starts, task, stackVars, flagVars>>

SignalReady ==
    /\ task = "register" /\ plan = <<>>
    /\ task' = "running"
    /\ core0_ready' = 1
    /\ UNCHANGED <<routeVars, ctl, starts, plan, stackVars, s_sh, s_running, s_task_handle>>

SetRunning ==
    /\ task = "running"
    /\ task' = "loop"
    /\ s_running' = TRUE
    /\ UNCHANGED <<routeVars, ctl, starts, plan, stackVars, s_sh, s_task_handle, core0_ready>>

TaskStep == \/ IdentityInit \/ IdentityFails \/ TlsServerInit
            \/ ModuleInit("catalog", "neg") \/ ModuleInit("neg", "xfer") \/ ModuleInit("xfer", "http")
            \/ HttpStartFails \/ HttpStart \/ HttpApply \/ RegisterNext
            \/ SignalReady \/ SetRunning
-----------------------------------------------------------------------------
(* dsp_protocol_start and dsp_protocol_stop *)

StartCall ==
    /\ ctl = "idle" /\ starts < MaxStarts
    /\ StopsWhenReady => task = "none"
    /\ starts' = starts + 1
    /\ \/ /\ s_sh' = TRUE /\ task' = "identity" /\ s_task_handle' = TRUE
       \/ /\ s_sh' = FALSE                       \* out of memory
          /\ UNCHANGED <<task, s_task_handle>>
    /\ UNCHANGED <<routeVars, ctl, plan, stackVars, s_running, core0_ready>>

StopCall ==
    /\ ctl = "idle"
    /\ StopsWhenReady => ~Initialising
    /\ s_running' = FALSE
    /\ ctl' = "http"
    /\ UNCHANGED <<routeVars, starts, task, plan, stackVars, s_sh, s_task_handle, core0_ready>>

StopHttp_NotWaiting ==
    /\ ctl = "http"
    /\ ctl' = "xfer"
    /\ (HttpStopAsk \/ (~StopNeeded /\ UNCHANGED routeVars))
    /\ UNCHANGED <<starts, task, plan, stackVars, flagVars>>

StopHttp ==
    /\ ctl = "http"
    /\ \/ HttpStopAsk /\ UNCHANGED ctl
       \/ HttpStopDone /\ ctl' = "xfer"
       \/ ~StopNeeded /\ ctl' = "xfer" /\ UNCHANGED routeVars
    /\ UNCHANGED <<starts, task, plan, stackVars, flagVars>>

(* dsp_xfer_deinit, dsp_neg_deinit and dsp_catalog_deinit.                 *)
StopModule(m, next) ==
    /\ ctl = m
    /\ ctl' = next
    /\ modules' = modules \ {m}
    /\ UNCHANGED <<routeVars, starts, task, plan, s_provisioned, tls, tlsReady, unfreed, flagVars>>

StopTls ==
    /\ ctl = "tls"
    /\ ctl' = "identity"
    /\ tls' = AfterFree(tls, tlsReady) /\ tlsReady' = FALSE
    /\ UNCHANGED <<routeVars, starts, task, plan, s_provisioned, unfreed, modules, flagVars>>

StopIdentity ==
    /\ ctl = "identity"
    /\ ctl' = "unshare"
    /\ s_provisioned' = FALSE
    /\ UNCHANGED <<routeVars, starts, task, plan, tls, tlsReady, unfreed, modules, flagVars>>

StopUnshare ==
    /\ ctl = "unshare"
    /\ ctl' = "delete"
    /\ s_sh' = FALSE
    /\ core0_ready' = IF s_sh THEN 0 ELSE core0_ready
    /\ UNCHANGED <<routeVars, starts, task, plan, stackVars, s_running, s_task_handle>>

StopDelete ==
    /\ ctl = "delete"
    /\ ctl' = "idle"
    /\ task' = IF s_task_handle THEN "none" ELSE task
    /\ s_task_handle' = FALSE
    /\ UNCHANGED <<routeVars, starts, plan, stackVars, s_sh, s_running, core0_ready>>

Stop == \/ StopHttp
        \/ StopModule("xfer", "neg") \/ StopModule("neg", "catalog") \/ StopModule("catalog", "tls")
        \/ StopTls \/ StopIdentity \/ StopUnshare \/ StopDelete

Serve == (Request \/ Respond) /\ UNCHANGED <<ctl, starts, task, plan, stackVars, flagVars>>
=============================================================================
