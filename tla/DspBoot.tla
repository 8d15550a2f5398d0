------------------------------- MODULE DspBoot -------------------------------
(***************************************************************************)
(* app_main (main/main.c): the shared state, WiFi with its credentials in  *)
(* flash, power management, the protocol task and the acquisition task,    *)
(* and a reset at any point.  After boot a caller may stop and start the   *)
(* protocol stack again.                                                   *)
(***************************************************************************)
EXTENDS DspProtocol

CONSTANT MaxResets  \* bound: resets

ASSUME BootAssumption == MaxResets \in Nat

VARIABLES
    main,      \* program counter of app_main
    objects,   \* what dsp_shared_init has created
    used,      \* the credentials handed to the WiFi driver, until it starts
    app,       \* the acquisition task exists
    nvs,       \* the credentials in flash
    unsaved,   \* the credentials written since the last commit
    stored,    \* history: dsp_wifi_store_credentials returned ESP_OK and the
               \* partition has not been erased since
    failed,    \* history: an allocation, a driver call or a load failed in this boot
    resets

flashVars == <<nvs, unsaved, stored>>
bootVars == <<main, objects, used, app, flashVars, failed, resets>>
vars == <<protocolVars, bootVars>>

Objects == {"ring_buf_mutex", "xfer_notify_q", "data_notify_q"}
Keys == {"ssid", "pass"}

Init == /\ ProtocolInit
        /\ main = "shared" /\ objects = {} /\ used = {} /\ app = FALSE
        /\ nvs = {} /\ unsaved = {} /\ stored = FALSE
        /\ failed = FALSE /\ resets = 0

At(pc) == main = pc
Fails == failed' = TRUE
-----------------------------------------------------------------------------
(* dsp_shared_init creates its objects in order and deletes them all when  *)
(* one cannot be created: app_main returns.                                *)
SharedInit ==
    /\ At("shared")
    /\ \/ objects' = Objects /\ main' = "wifi" /\ UNCHANGED failed
       \/ objects' = {} /\ main' = "ended" /\ Fails
    /\ UNCHANGED <<protocolVars, used, app, flashVars, resets>>

(* nvs_load_credentials needs both keys.                                   *)
Loadable_Ssid(keys) == "ssid" \in keys
Loadable(keys) == keys = Keys

(* dsp_wifi_init on a partition that holds keys: the credentials of the    *)
(* build or of the flash go to the driver; without any WiFi is left out.   *)
(* Which build runs, with or without CONFIG_DSP_WIFI_PROVISION, may change *)
(* with every reset.                                                       *)
WifiUse(keys) ==
    \/ main' = "ssid" /\ used' = Keys /\ UNCHANGED failed
    \/ IF Loadable(keys) THEN main' = "connect" /\ used' = keys /\ UNCHANGED failed
                         ELSE main' = "power" /\ UNCHANGED used /\ Fails

(* A partition without free pages or of another version is erased first.   *)
WifiInit ==
    /\ At("wifi")
    /\ \/ WifiUse(nvs) /\ UNCHANGED <<nvs, stored>>
       \/ nvs' = {} /\ stored' = FALSE /\ WifiUse({})
       \/ main' = "power" /\ Fails /\ UNCHANGED <<used, nvs, stored>>
    /\ UNCHANGED <<protocolVars, objects, app, unsaved, resets>>

(* dsp_wifi_store_credentials: a failure is logged and the boot goes on.   *)
StoreKey(key, pc, next) ==
    /\ At(pc)
    /\ \/ main' = next /\ unsaved' = unsaved \cup {key} /\ UNCHANGED failed
       \/ main' = "connect" /\ UNCHANGED unsaved /\ Fails
    /\ UNCHANGED <<protocolVars, objects, used, app, nvs, stored, resets>>

Commit ==
    /\ At("commit")
    /\ main' = "connect"
    /\ \/ nvs' = nvs \cup unsaved /\ unsaved' = {} /\ stored' = TRUE /\ UNCHANGED failed
       \/ UNCHANGED <<nvs, unsaved, stored>> /\ Fails
    /\ UNCHANGED <<protocolVars, objects, used, app, resets>>

(* dsp_wifi_connect, and the wait for its event or for 30 s.               *)
WifiConnect ==
    /\ At("connect")
    /\ main' = "power" /\ used' = {}
    /\ UNCHANGED <<protocolVars, objects, app, flashVars, failed, resets>>

(* dsp_power_pm_init configures the task watchdog and returns ESP_OK, what  *)
(* fails being logged: nothing here depends on it.                         *)
PowerInit ==
    /\ At("power")
    /\ main' = "protocol"
    /\ UNCHANGED <<protocolVars, objects, used, app, flashVars, failed, resets>>

ProtocolStart ==
    /\ At("protocol")
    /\ StartCall
    /\ IF s_sh' THEN main' = "application" /\ UNCHANGED failed
                ELSE main' = "ended" /\ Fails
    /\ UNCHANGED <<objects, used, app, flashVars, resets>>

ApplicationStart ==
    /\ At("application")
    /\ \/ app' = TRUE /\ main' = "done" /\ UNCHANGED failed
       \/ UNCHANGED app /\ main' = "ended" /\ Fails
    /\ UNCHANGED <<protocolVars, objects, used, flashVars, resets>>

AppMain == \/ SharedInit \/ WifiInit
           \/ StoreKey("ssid", "ssid", "pass") \/ StoreKey("pass", "pass", "commit") \/ Commit
           \/ WifiConnect \/ PowerInit \/ ProtocolStart \/ ApplicationStart

(* The protocol task and the rest of its life.                             *)
Task == TaskStep /\ failed' = (failed \/ IdentityFails \/ HttpStartFails)
                 /\ UNCHANGED <<main, objects, used, app, flashVars, resets>>
Maintain == At("done") /\ (StartCall \/ StopCall) /\ UNCHANGED bootVars
Stopping == Stop /\ UNCHANGED bootVars
Serving == Serve /\ UNCHANGED bootVars

(* Power is lost: what was not committed may or may not be in flash.       *)
Reset ==
    /\ resets < MaxResets
    /\ resets' = resets + 1
    /\ \E kept \in SUBSET unsaved : nvs' = nvs \cup kept
    /\ unsaved' = {}
    /\ s_routes' = [i \in 1..MaxRoutes |-> NoRoute] /\ registered' = <<>>
    /\ server' = "off" /\ s_http' = FALSE /\ serving' = NoRoute /\ failures' = 0
    /\ ctl' = "idle" /\ starts' = 0 /\ task' = "none" /\ plan' = <<>>
    /\ s_provisioned' = FALSE /\ tls' = {} /\ tlsReady' = FALSE /\ unfreed' = FALSE
    /\ modules' = {}
    /\ s_sh' = FALSE /\ s_running' = FALSE /\ s_task_handle' = FALSE /\ core0_ready' = 0
    /\ main' = "shared" /\ objects' = {} /\ used' = {} /\ app' = FALSE
    /\ failed' = FALSE
    /\ UNCHANGED stored

Next == AppMain \/ Task \/ Maintain \/ Stopping \/ Serving \/ Reset

(* Tasks get to run; no call, request or reset has to come.                *)
Spec == /\ Init /\ [][Next]_vars
        /\ WF_vars(AppMain) /\ WF_vars(Task) /\ WF_vars(Stopping)
        /\ WF_vars(Respond /\ Serving)
-----------------------------------------------------------------------------
(* Properties *)

(* A handler never works for a module that is not initialised, at no point *)
(* of a start, a stop or a restart (dsp_protocol.c:82-109, 210: the server *)
(* is started after the modules and stopped before them).                  *)
HandlersReady == serving # NoRoute => ModuleOf(serving) \in modules

(* While the stack runs, a request for an endpoint is given to the handler *)
(* of that endpoint, whichever starts failed before, however full the      *)
(* table is and in whichever order slots came free, unless a registration  *)
(* ran out of memory (dsp_neg.c:443: the exact route takes priority).      *)
EndpointsReached ==
    s_running /\ s_http /\ failures = 0 => \A e \in Endpoint : Dispatch(e) = e

(* Between a stop, or a start that failed, and the next start nothing is   *)
(* held and nothing is served (dsp_protocol.h:62); only session tickets    *)
(* whose setup failed are never freed (dsp_tls.c:204).                     *)
StopReleasesAll ==
    ctl = "idle" /\ task = "none" =>
        /\ server = "off" /\ registered = <<>> /\ ~s_http /\ modules = {}
        /\ ~s_provisioned /\ ~tlsReady /\ tls \subseteq (IF unfreed THEN {"ticket"} ELSE {})
        /\ ~s_running /\ ~s_task_handle /\ core0_ready = 0

(* The WiFi driver is never given half of a pair of credentials, whenever  *)
(* power was lost or a write failed while they were stored, and those that *)
(* were reported stored are found by every later boot, until the partition *)
(* is erased (dsp_wifi.c:204, dsp_wifi.h:161).                             *)
CredentialsKept == used \in {{}, Keys} /\ (stored => nvs = Keys)

(* A start after which nothing fails brings the stack up, at boot as after *)
(* a stop: it serves every endpoint, unless power is lost (main.c:167).    *)
StartServes == \A r \in 0..MaxResets :
    task = "identity" /\ ~failed /\ resets = r
        ~> \/ failed \/ failures > 0 \/ resets # r
           \/ s_running /\ s_http /\ \A e \in Endpoint : Dispatch(e) = e
=============================================================================
