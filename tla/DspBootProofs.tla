---------------------------- MODULE DspBootProofs ----------------------------
(***************************************************************************)
(* Proofs about the node's boot and its protocol stack, for any number of  *)
(* routes, starts, failures and resets: credentials stay whole and, if a   *)
(* stop finds the task's initialisation finished, handlers run only on     *)
(* initialised modules, a stop releases everything and, in a build without *)
(* /terminate, every request reaches the handler of its endpoint.          *)
(***************************************************************************)
EXTENDS DspBoot, SequenceTheorems, TLAPS

-----------------------------------------------------------------------------
(* Credentials.  Between the two writes and the commit, what was written   *)
(* in this boot is not yet safe; a commit that succeeds finds both keys.   *)

FlashInv == /\ nvs \subseteq Keys /\ unsaved \subseteq Keys
            /\ used \in {{}, Keys}
            /\ stored => nvs = Keys
            /\ At("pass") => "ssid" \in unsaved
            /\ At("commit") => unsaved = Keys

LEMMA FlashStep == ASSUME FlashInv, [Next]_vars PROVE FlashInv'
<1> USE DEF FlashInv, At, Keys
<1>1. CASE SharedInit
  BY <1>1 DEF SharedInit, flashVars
<1>2. CASE WifiInit
  <2>1. CASE WifiUse(nvs) /\ UNCHANGED <<nvs, stored>>
    BY <1>2, <2>1 DEF WifiInit, WifiUse, Loadable
  <2>2. CASE nvs' = {} /\ stored' = FALSE /\ WifiUse({})
    <3>1. used' \in {{}, Keys} /\ main' \in {"ssid", "power"}
      BY <2>2 DEF WifiUse, Loadable
    <3> QED
      BY <1>2, <2>2, <3>1 DEF WifiInit
  <2>3. CASE main' = "power" /\ Fails /\ UNCHANGED <<used, nvs, stored>>
    BY <1>2, <2>3 DEF WifiInit
  <2> QED
    BY <1>2, <2>1, <2>2, <2>3 DEF WifiInit
<1>3. CASE StoreKey("ssid", "ssid", "pass")
  BY <1>3 DEF StoreKey
<1>4. CASE StoreKey("pass", "pass", "commit")
  BY <1>4 DEF StoreKey
<1>5. CASE Commit
  <2>1. unsaved = Keys /\ main' = "connect" /\ used' = used
    BY <1>5 DEF Commit
  <2>2. CASE nvs' = nvs \cup unsaved /\ unsaved' = {}
    <3>1. nvs' = Keys
      BY <2>1, <2>2
    <3> QED
      BY <2>1, <2>2, <3>1
  <2>3. CASE UNCHANGED <<nvs, unsaved, stored>>
    BY <2>1, <2>3
  <2> QED
    BY <1>5, <2>2, <2>3 DEF Commit
<1>6. CASE WifiConnect
  BY <1>6 DEF WifiConnect, flashVars
<1>7. CASE PowerInit
  BY <1>7 DEF PowerInit, flashVars
<1>8. CASE ProtocolStart
  BY <1>8 DEF ProtocolStart, flashVars
<1>9. CASE ApplicationStart
  BY <1>9 DEF ApplicationStart, flashVars
<1>10. CASE Task
  BY <1>10 DEF Task, flashVars
<1>11. CASE Maintain \/ Stopping \/ Serving
  <2>1. UNCHANGED bootVars
    BY <1>11 DEF Maintain, Stopping, Serving
  <2> QED
    BY <2>1 DEF bootVars, flashVars
<1>12. CASE Reset
  BY <1>12 DEF Reset
<1>13. CASE UNCHANGED vars
  BY <1>13 DEF vars, bootVars, flashVars
<1> QED
  BY <1>1, <1>2, <1>3, <1>4, <1>5, <1>6, <1>7, <1>8, <1>9, <1>10, <1>11, <1>12, <1>13
  DEF Next, AppMain

(* The WiFi driver never gets half of a pair of credentials, and those     *)
(* reported stored stay in flash (dsp_wifi_store_credentials,              *)
(* nvs_load_credentials), whenever power is lost.                          *)
THEOREM CredentialsStayWhole == Spec => []CredentialsKept
<1>1. Init => FlashInv
  BY DEF Init, FlashInv, At, Keys
<1>2. FlashInv /\ [Next]_vars => FlashInv'
  BY FlashStep
<1>3. FlashInv => CredentialsKept
  BY DEF FlashInv, CredentialsKept
<1> QED
  BY <1>1, <1>2, <1>3, PTL DEF Spec
-----------------------------------------------------------------------------
(* The stack under start and stop.  Once the server answers, every module  *)
(* is initialised, and it is off before the first of them is torn down.    *)

Early == {"none", "identity", "tls", "catalog", "neg", "xfer", "http"}
Teardown == {"xfer", "neg", "catalog", "tls", "identity", "unshare", "delete"}
Settled == {"none", "loop"}

(* The caller and the task take turns.                                     *)
Turns == /\ ctl \in {"idle", "http"} \cup Teardown
         /\ task \in Early \cup {"apply", "register", "running", "loop"}
         /\ ctl # "idle" => task \in Settled
         /\ s_task_handle = (task # "none")

ServerInv == /\ s_http \in BOOLEAN /\ server \in {"off", "on", "stopping"}
             /\ task = "apply" => server = "on"
             /\ s_http => server # "off"
             /\ server # "off" => s_http \/ task = "apply"
             /\ task \in Early \/ ctl \in Teardown => server = "off"
             /\ server = "off" => registered = <<>> /\ serving = NoRoute

(* What the task has initialised, less what a stop has torn down.          *)
Initialised == CASE task \in {"none", "identity", "tls", "catalog"} -> {}
                 [] task = "neg"  -> {"catalog"}
                 [] task = "xfer" -> {"catalog", "neg"}
                 [] OTHER         -> Module
TornDown == CASE ctl \in {"idle", "http", "xfer"} -> {}
              [] ctl = "neg"     -> {"xfer"}
              [] ctl = "catalog" -> {"xfer", "neg"}
              [] OTHER           -> Module

ModulesInv == modules = Initialised \ TornDown

(* The rest of what a stop releases.                                       *)
HoldsInv ==
    /\ {s_provisioned, tlsReady, unfreed, s_sh, s_running} \subseteq BOOLEAN
    /\ core0_ready \in {0, 1}
    /\ ~tlsReady => tls \subseteq (IF unfreed THEN {"ticket"} ELSE {})
    /\ task \in {"none", "identity"} \/ ctl \in {"unshare", "delete"} => ~s_provisioned
    /\ task \in {"none", "identity", "tls"} \/ ctl \in {"identity", "unshare", "delete"} => ~tlsReady
    /\ task # "loop" \/ ctl # "idle" => ~s_running
    /\ task \in Early \cup {"apply", "register"} \/ ctl = "delete" => core0_ready = 0
    /\ task # "none" /\ ctl # "delete" => s_sh

StackInv == Turns /\ ServerInv /\ ModulesInv /\ HoldsInv


(* A step that leaves the stack alone.                                     *)
LEMMA StackStutters == ASSUME StackInv, UNCHANGED protocolVars PROVE StackInv'
  BY DEF StackInv, Turns, ServerInv, ModulesInv, HoldsInv, Initialised, TornDown,
         protocolVars, routeVars, stackVars, flagVars

LEMMA TaskStack == ASSUME StackInv, TaskStep PROVE StackInv'
<1> USE DEF StackInv, Turns, Early, Teardown, Settled, stackVars, flagVars
<1>1. ctl = "idle" /\ ctl' = "idle"
  BY DEF TaskStep, IdentityInit, IdentityFails, TlsServerInit, ModuleInit, HttpStartFails,
         HttpStart, HttpApply, RegisterNext, SignalReady, SetRunning
<1>2. CASE IdentityInit
  <2>1. Turns' /\ ModulesInv'
    BY <1>1, <1>2 DEF IdentityInit, ModulesInv, Initialised, TornDown, Module
  <2>2. ServerInv'
    BY <1>1, <1>2 DEF IdentityInit, ServerInv, routeVars
  <2>3. HoldsInv'
    BY <1>1, <1>2 DEF IdentityInit, HoldsInv
  <2> QED
    BY <2>1, <2>2, <2>3
<1>3. CASE IdentityFails
  <2>1. Turns' /\ ModulesInv'
    BY <1>1, <1>3 DEF IdentityFails, ModulesInv, Initialised, TornDown, Module
  <2>2. ServerInv'
    BY <1>1, <1>3 DEF IdentityFails, ServerInv, routeVars
  <2>3. HoldsInv'
    BY <1>1, <1>3 DEF IdentityFails, HoldsInv
  <2> QED
    BY <2>1, <2>2, <2>3
<1>4. CASE TlsServerInit
  <2>1. Turns' /\ ModulesInv'
    BY <1>1, <1>4 DEF TlsServerInit, ModulesInv, Initialised, TornDown, Module
  <2>2. ServerInv'
    BY <1>1, <1>4 DEF TlsServerInit, ServerInv, routeVars
  <2>3. HoldsInv'
    <3>1. tlsReady' \in BOOLEAN /\ unfreed' = (unfreed \/ (~tlsReady' /\ tls' # {}))
      BY <1>4 DEF TlsServerInit
    <3>2. ~tlsReady' => tls' \subseteq {"ticket"}
      BY <1>4 DEF TlsServerInit, AfterFree, Parts, TlsParts
    <3>3. /\ task = "tls" /\ task' = "catalog"
          /\ UNCHANGED <<s_provisioned, s_sh, s_running, s_task_handle, core0_ready>>
      BY <1>4 DEF TlsServerInit
    <3> QED
      BY <1>1, <3>1, <3>2, <3>3 DEF HoldsInv
  <2> QED
    BY <2>1, <2>2, <2>3
<1>5. CASE ModuleInit("catalog", "neg")
  <2>1. Turns' /\ ModulesInv'
    BY <1>1, <1>5 DEF ModuleInit, ModulesInv, Initialised, TornDown, Module
  <2>2. ServerInv'
    BY <1>1, <1>5 DEF ModuleInit, ServerInv, routeVars
  <2>3. HoldsInv'
    BY <1>1, <1>5 DEF ModuleInit, HoldsInv
  <2> QED
    BY <2>1, <2>2, <2>3
<1>6. CASE ModuleInit("neg", "xfer")
  <2>1. Turns' /\ ModulesInv'
    BY <1>1, <1>6 DEF ModuleInit, ModulesInv, Initialised, TornDown, Module
  <2>2. ServerInv'
    BY <1>1, <1>6 DEF ModuleInit, ServerInv, routeVars
  <2>3. HoldsInv'
    BY <1>1, <1>6 DEF ModuleInit, HoldsInv
  <2> QED
    BY <2>1, <2>2, <2>3
<1>7. CASE ModuleInit("xfer", "http")
  <2>1. Turns' /\ ModulesInv'
    BY <1>1, <1>7 DEF ModuleInit, ModulesInv, Initialised, TornDown, Module
  <2>2. ServerInv'
    BY <1>1, <1>7 DEF ModuleInit, ServerInv, routeVars
  <2>3. HoldsInv'
    BY <1>1, <1>7 DEF ModuleInit, HoldsInv
  <2> QED
    BY <2>1, <2>2, <2>3
<1>8. CASE HttpStartFails
  <2>1. Turns' /\ ModulesInv'
    BY <1>1, <1>8 DEF HttpStartFails, ModulesInv, Initialised, TornDown, Module
  <2>2. ServerInv'
    BY <1>1, <1>8 DEF HttpStartFails, ServerInv, routeVars
  <2>3. HoldsInv'
    BY <1>1, <1>8 DEF HttpStartFails, HoldsInv
  <2> QED
    BY <2>1, <2>2, <2>3
<1>9. CASE HttpStart
  <2>1. Turns' /\ ModulesInv'
    BY <1>1, <1>9 DEF HttpStart, ModulesInv, Initialised, TornDown, Module
  <2>2. ServerInv'
    BY <1>1, <1>9 DEF HttpStart, ServerInv, routeVars
  <2>3. HoldsInv'
    BY <1>1, <1>9 DEF HttpStart, HoldsInv
  <2> QED
    BY <2>1, <2>2, <2>3
<1>10. CASE HttpApply
  <2>1. Turns' /\ ModulesInv'
    BY <1>1, <1>10 DEF HttpApply, ModulesInv, Initialised, TornDown, Module
  <2>2. ServerInv'
    BY <1>1, <1>10 DEF HttpApply, ServerInv, routeVars
  <2>3. HoldsInv'
    BY <1>1, <1>10 DEF HttpApply, HoldsInv
  <2> QED
    BY <2>1, <2>2, <2>3
<1>11. CASE RegisterNext
  <2>1. Turns' /\ ModulesInv'
    BY <1>1, <1>11 DEF RegisterNext, ModulesInv, Initialised, TornDown, Module
  <2>2. ServerInv'
    BY <1>1, <1>11 DEF RegisterNext, RegisterOk, RegisterFails, ServerInv, routeVars
  <2>3. HoldsInv'
    BY <1>1, <1>11 DEF RegisterNext, HoldsInv
  <2> QED
    BY <2>1, <2>2, <2>3
<1>12. CASE SignalReady
  <2>1. Turns' /\ ModulesInv'
    BY <1>1, <1>12 DEF SignalReady, ModulesInv, Initialised, TornDown, Module
  <2>2. ServerInv'
    BY <1>1, <1>12 DEF SignalReady, ServerInv, routeVars
  <2>3. HoldsInv'
    BY <1>1, <1>12 DEF SignalReady, HoldsInv
  <2> QED
    BY <2>1, <2>2, <2>3
<1>13. CASE SetRunning
  <2>1. Turns' /\ ModulesInv'
    BY <1>1, <1>13 DEF SetRunning, ModulesInv, Initialised, TornDown, Module
  <2>2. ServerInv'
    BY <1>1, <1>13 DEF SetRunning, ServerInv, routeVars
  <2>3. HoldsInv'
    BY <1>1, <1>13 DEF SetRunning, HoldsInv
  <2> QED
    BY <2>1, <2>2, <2>3
<1> QED
  BY <1>2, <1>3, <1>4, <1>5, <1>6, <1>7, <1>8, <1>9, <1>10, <1>11, <1>12, <1>13 DEF TaskStep

LEMMA StopStack == ASSUME StackInv, Stop PROVE StackInv'
<1> USE DEF StackInv, Turns, Early, Teardown, Settled, stackVars, flagVars
<1>1. task \in Settled /\ ctl # "idle"
  BY DEF Stop, StopHttp, StopModule, StopTls, StopIdentity, StopUnshare, StopDelete
<1>2. CASE StopHttp
  <2>1. Turns' /\ ModulesInv'
    BY <1>1, <1>2 DEF StopHttp, ModulesInv, Initialised, TornDown, Module
  <2>2. ServerInv'
    <3>0. ctl = "http" /\ ctl' \in {"http", "xfer"} /\ UNCHANGED task
      BY <1>2 DEF StopHttp
    <3>1. CASE HttpStopAsk /\ UNCHANGED ctl
      BY <1>1, <3>0, <3>1 DEF HttpStopAsk, StopNeeded, ServerInv
    <3>2. CASE HttpStopDone
      BY <1>1, <3>0, <3>2 DEF HttpStopDone, ServerInv
    <3>3. CASE ~StopNeeded /\ UNCHANGED routeVars
      <4>1. server = "off"
        BY <1>1, <3>3 DEF StopNeeded, ServerInv
      <4> QED
        BY <1>1, <3>0, <3>3, <4>1 DEF ServerInv, routeVars
    <3> QED
      BY <1>2, <3>1, <3>2, <3>3 DEF StopHttp
  <2>3. HoldsInv'
    BY <1>1, <1>2 DEF StopHttp, HoldsInv
  <2> QED
    BY <2>1, <2>2, <2>3
<1>3. CASE StopModule("xfer", "neg")
  <2>1. Turns' /\ ModulesInv'
    BY <1>1, <1>3 DEF StopModule, ModulesInv, Initialised, TornDown, Module
  <2>2. ServerInv'
    BY <1>1, <1>3 DEF StopModule, ServerInv, routeVars
  <2>3. HoldsInv'
    BY <1>1, <1>3 DEF StopModule, HoldsInv
  <2> QED
    BY <2>1, <2>2, <2>3
<1>4. CASE StopModule("neg", "catalog")
  <2>1. Turns' /\ ModulesInv'
    BY <1>1, <1>4 DEF StopModule, ModulesInv, Initialised, TornDown, Module
  <2>2. ServerInv'
    BY <1>1, <1>4 DEF StopModule, ServerInv, routeVars
  <2>3. HoldsInv'
    BY <1>1, <1>4 DEF StopModule, HoldsInv
  <2> QED
    BY <2>1, <2>2, <2>3
<1>5. CASE StopModule("catalog", "tls")
  <2>1. Turns' /\ ModulesInv'
    BY <1>1, <1>5 DEF StopModule, ModulesInv, Initialised, TornDown, Module
  <2>2. ServerInv'
    BY <1>1, <1>5 DEF StopModule, ServerInv, routeVars
  <2>3. HoldsInv'
    BY <1>1, <1>5 DEF StopModule, HoldsInv
  <2> QED
    BY <2>1, <2>2, <2>3
<1>6. CASE StopTls
  <2>1. Turns' /\ ModulesInv'
    BY <1>1, <1>6 DEF StopTls, ModulesInv, Initialised, TornDown, Module
  <2>2. ServerInv'
    BY <1>1, <1>6 DEF StopTls, ServerInv, routeVars
  <2>3. HoldsInv'
    BY <1>1, <1>6 DEF StopTls, AfterFree, HoldsInv
  <2> QED
    BY <2>1, <2>2, <2>3
<1>7. CASE StopIdentity
  <2>1. Turns' /\ ModulesInv'
    BY <1>1, <1>7 DEF StopIdentity, ModulesInv, Initialised, TornDown, Module
  <2>2. ServerInv'
    BY <1>1, <1>7 DEF StopIdentity, ServerInv, routeVars
  <2>3. HoldsInv'
    BY <1>1, <1>7 DEF StopIdentity, HoldsInv
  <2> QED
    BY <2>1, <2>2, <2>3
<1>8. CASE StopUnshare
  <2>1. Turns' /\ ModulesInv'
    BY <1>1, <1>8 DEF StopUnshare, ModulesInv, Initialised, TornDown, Module
  <2>2. ServerInv'
    BY <1>1, <1>8 DEF StopUnshare, ServerInv, routeVars
  <2>3. HoldsInv'
    BY <1>1, <1>8 DEF StopUnshare, HoldsInv
  <2> QED
    BY <2>1, <2>2, <2>3
<1>9. CASE StopDelete
  <2>1. Turns' /\ ModulesInv'
    BY <1>1, <1>9 DEF StopDelete, ModulesInv, Initialised, TornDown, Module
  <2>2. ServerInv'
    BY <1>1, <1>9 DEF StopDelete, ServerInv, routeVars
  <2>3. HoldsInv'
    BY <1>1, <1>9 DEF StopDelete, HoldsInv
  <2> QED
    BY <2>1, <2>2, <2>3
<1> QED
  BY <1>2, <1>3, <1>4, <1>5, <1>6, <1>7, <1>8, <1>9 DEF Stop

LEMMA CallStack ==
  ASSUME StackInv, StopsWhenReady, StartCall \/ StopCall PROVE StackInv'
<1> USE DEF StackInv, Turns, Early, Teardown, Settled, stackVars, flagVars
<1>1. CASE StartCall
  <2>1. Turns' /\ ModulesInv'
    BY StopsWhenReady, <1>1 DEF StartCall, ModulesInv, Initialised, TornDown, Module
  <2>2. ServerInv'
    BY StopsWhenReady, <1>1 DEF StartCall, ServerInv, routeVars
  <2>3. HoldsInv'
    BY StopsWhenReady, <1>1 DEF StartCall, HoldsInv
  <2> QED
    BY <2>1, <2>2, <2>3
<1>2. CASE StopCall
  <2>1. Turns' /\ ModulesInv'
    BY StopsWhenReady, <1>2 DEF StopCall, Initialising, ModulesInv, Initialised, TornDown, Module
  <2>2. ServerInv'
    BY StopsWhenReady, <1>2 DEF StopCall, Initialising, ServerInv, routeVars
  <2>3. HoldsInv'
    BY StopsWhenReady, <1>2 DEF StopCall, Initialising, HoldsInv
  <2> QED
    BY <2>1, <2>2, <2>3
<1> QED
  BY <1>1, <1>2

LEMMA ServeStack == ASSUME StackInv, Serve PROVE StackInv'
  BY DEF StackInv, Turns, ServerInv, ModulesInv, HoldsInv, Initialised, TornDown,
         Serve, Request, Respond, stackVars, flagVars

LEMMA ResetStack == ASSUME Reset PROVE StackInv'
<1>1. ctl' = "idle" /\ task' = "none" /\ modules' = {}
  BY DEF Reset
<1>2. Turns' /\ ServerInv'
  BY <1>1 DEF Reset, Turns, ServerInv, Early, Teardown, Settled
<1>3. ModulesInv' /\ HoldsInv'
  BY <1>1 DEF Reset, ModulesInv, HoldsInv, Initialised, TornDown, Early
<1> QED
  BY <1>2, <1>3 DEF StackInv

LEMMA StackStep == ASSUME StackInv, StopsWhenReady, [Next]_vars PROVE StackInv'
<1>1. CASE SharedInit \/ WifiInit \/ StoreKey("ssid", "ssid", "pass")
           \/ StoreKey("pass", "pass", "commit") \/ Commit \/ WifiConnect
           \/ PowerInit \/ ApplicationStart
  BY <1>1, StackStutters DEF SharedInit, WifiInit, StoreKey, Commit, WifiConnect, PowerInit,
                             ApplicationStart
<1>2. CASE ProtocolStart \/ Maintain
  BY <1>2, StopsWhenReady, CallStack DEF ProtocolStart, Maintain
<1>3. CASE Task
  BY <1>3, TaskStack DEF Task
<1>4. CASE Stopping
  BY <1>4, StopStack DEF Stopping
<1>5. CASE Serving
  BY <1>5, ServeStack DEF Serving
<1>6. CASE Reset
  BY <1>6, ResetStack
<1>7. CASE UNCHANGED vars
  BY <1>7, StackStutters DEF vars
<1> QED
  BY <1>1, <1>2, <1>3, <1>4, <1>5, <1>6, <1>7 DEF Next, AppMain

LEMMA StackAtBoot == Init => StackInv
<1> SUFFICES ASSUME Init PROVE StackInv
  OBVIOUS
<1>1. ctl = "idle" /\ task = "none" /\ modules = {}
  BY DEF Init, ProtocolInit
<1>2. Turns /\ ServerInv
  BY <1>1 DEF Init, ProtocolInit, RoutesInit, Turns, ServerInv, Early, Teardown, Settled
<1>3. ModulesInv /\ HoldsInv
  BY <1>1 DEF Init, ProtocolInit, ModulesInv, HoldsInv, Initialised, TornDown, Early
<1> QED
  BY <1>2, <1>3 DEF StackInv

(* A handler never works for a module that is not initialised, at no point *)
(* of a start, a stop or a restart (protocol_init, dsp_protocol_stop), if  *)
(* every stop finds the initialisation finished and every start no task.   *)
THEOREM HandlersStayReady == StopsWhenReady => (Spec => []HandlersReady)
<1> SUFFICES ASSUME StopsWhenReady PROVE Spec => []HandlersReady
  OBVIOUS
<1>1. StackInv /\ [Next]_vars => StackInv'
  BY StopsWhenReady, StackStep
<1>2. StackInv => HandlersReady
  <2> SUFFICES ASSUME StackInv, serving # NoRoute PROVE ModuleOf(serving) \in modules
    BY DEF HandlersReady
  <2>1. task \notin Early /\ ctl \in {"idle", "http"}
    BY DEF StackInv, ServerInv, Turns
  <2>2. modules = Module
    BY <2>1 DEF StackInv, ModulesInv, Initialised, TornDown, Early
  <2>3. ModuleOf(serving) \in Module
    BY DEF ModuleOf, Module
  <2> QED
    BY <2>2, <2>3
<1> QED
  BY <1>1, <1>2, StackAtBoot, PTL DEF Spec

(* Between a stop, or a start that failed, and the next start nothing is   *)
(* held and nothing is served (dsp_protocol_stop), but for the tickets a   *)
(* failed setup leaves, if every stop finds the initialisation finished.   *)
THEOREM StopsRelease == StopsWhenReady => (Spec => []StopReleasesAll)
<1> SUFFICES ASSUME StopsWhenReady PROVE Spec => []StopReleasesAll
  OBVIOUS
<1>1. StackInv /\ [Next]_vars => StackInv'
  BY StopsWhenReady, StackStep
<1>2. StackInv => StopReleasesAll
  <2> SUFFICES ASSUME StackInv, ctl = "idle", task = "none" PROVE StopReleasesAll
    BY DEF StopReleasesAll
  <2>1. modules = {}
    BY DEF StackInv, ModulesInv, Initialised, TornDown
  <2>2. server = "off" /\ registered = <<>> /\ ~s_http
    BY DEF StackInv, ServerInv, Early
  <2> QED
    BY <2>1, <2>2 DEF StackInv, HoldsInv, Turns, StopReleasesAll, Early
<1> QED
  BY <1>1, <1>2, StackAtBoot, PTL DEF Spec
-----------------------------------------------------------------------------
(* Which handler a request reaches.  Every pass over the registrations     *)
(* makes them in the same order, a slot that is filled stays filled, and   *)
(* the table is applied in the order of its slots: so the routes the       *)
(* server knows are at any time the first ones of that order, and in that  *)
(* order an exact route comes before the wildcard that covers it.          *)

NegOrder == <<"offers", "agree", "negGet">>
XferOrder == <<"start", "complete", "xferGet">>
Order == IF RequestEnabled
         THEN <<"catalog", "request", "offers", "agree", "negGet", "start", "complete", "xferGet">>
         ELSE <<"catalog", "offers", "agree", "negGet", "start", "complete", "xferGet">>
Routes == Len(Order)

(* What is still to be registered after the first k routes of the order.   *)
LastPlans == <<<<NegOrder, XferOrder>>, <<<<"agree", "negGet">>, XferOrder>>,
               <<<<"negGet">>, XferOrder>>, <<XferOrder>>, <<<<"complete", "xferGet">>>>,
               <<<<"xferGet">>>>, <<>>>>
Rest(k) == IF k = 0 THEN Groups
           ELSE IF RequestEnabled
                THEN IF k = 1 THEN <<<<"request">>, NegOrder, XferOrder>> ELSE LastPlans[k - 1]
                ELSE LastPlans[k]

After(p) == IF Len(Head(p)) = 1 THEN Tail(p) ELSE <<Tail(Head(p))>> \o Tail(p)

(* Joining short tuples.                                                   *)
LEMMA Joined ==
  ASSUME NEW S, NEW s \in Seq(S), NEW t \in Seq(S), NEW u \in Seq(S),
         Len(u) = Len(s) + Len(t),
         \A i \in 1..Len(s) : u[i] = s[i],
         \A i \in 1..Len(t) : u[Len(s) + i] = t[i]
  PROVE  s \o t = u
<1>1. s \o t \in Seq(S) /\ Len(s \o t) = Len(u)
  OBVIOUS
<1>2. ASSUME NEW i \in 1..Len(u) PROVE (s \o t)[i] = u[i]
  <2>1. CASE i <= Len(s)
    BY <2>1
  <2>2. CASE i > Len(s)
    <3>1. i - Len(s) \in 1..Len(t) /\ Len(s) + (i - Len(s)) = i
      BY <2>2
    <3>2. (s \o t)[i] = t[i - Len(s)]
      BY <2>2, <3>1
    <3> QED
      BY <3>1, <3>2
  <2> QED
    BY <2>1, <2>2
<1> QED
  BY <1>1, <1>2, SeqEqual

LEMMA Join11 == ASSUME NEW a, NEW b PROVE <<a>> \o <<b>> = <<a, b>>
<1> DEFINE S == {a, b}  s == <<a>>  t == <<b>>  u == <<a, b>>
<1>1. s \in Seq(S) /\ t \in Seq(S) /\ u \in Seq(S)
  OBVIOUS
<1>2. Len(s) = 1 /\ Len(t) = 1 /\ Len(u) = 2
  OBVIOUS
<1>3. \A i \in 1..1 : u[i] = s[i]
  OBVIOUS
<1>4. \A i \in 1..1 : u[1 + i] = t[i]
  OBVIOUS
<1> HIDE DEF S, s, t, u
<1>5. /\ Len(u) = Len(s) + Len(t)
      /\ \A i \in 1..Len(s) : u[i] = s[i]
      /\ \A i \in 1..Len(t) : u[Len(s) + i] = t[i]
  BY <1>2, <1>3, <1>4
<1>6. s \o t = u
  BY <1>1, <1>5, Joined, Zenon
<1> QED
  BY <1>6 DEF s, t, u
LEMMA Join21 == ASSUME NEW a, NEW b, NEW c PROVE <<a, b>> \o <<c>> = <<a, b, c>>
<1> DEFINE S == {a, b, c}  s == <<a, b>>  t == <<c>>  u == <<a, b, c>>
<1>1. s \in Seq(S) /\ t \in Seq(S) /\ u \in Seq(S)
  OBVIOUS
<1>2. Len(s) = 2 /\ Len(t) = 1 /\ Len(u) = 3
  OBVIOUS
<1>3. \A i \in 1..2 : u[i] = s[i]
  OBVIOUS
<1>4. \A i \in 1..1 : u[2 + i] = t[i]
  OBVIOUS
<1> HIDE DEF S, s, t, u
<1>5. /\ Len(u) = Len(s) + Len(t)
      /\ \A i \in 1..Len(s) : u[i] = s[i]
      /\ \A i \in 1..Len(t) : u[Len(s) + i] = t[i]
  BY <1>2, <1>3, <1>4
<1>6. s \o t = u
  BY <1>1, <1>5, Joined, Zenon
<1> QED
  BY <1>6 DEF s, t, u
LEMMA Join12 == ASSUME NEW a, NEW b, NEW c PROVE <<a>> \o <<b, c>> = <<a, b, c>>
<1> DEFINE S == {a, b, c}  s == <<a>>  t == <<b, c>>  u == <<a, b, c>>
<1>1. s \in Seq(S) /\ t \in Seq(S) /\ u \in Seq(S)
  OBVIOUS
<1>2. Len(s) = 1 /\ Len(t) = 2 /\ Len(u) = 3
  OBVIOUS
<1>3. \A i \in 1..1 : u[i] = s[i]
  OBVIOUS
<1>4. \A i \in 1..2 : u[1 + i] = t[i]
  OBVIOUS
<1> HIDE DEF S, s, t, u
<1>5. /\ Len(u) = Len(s) + Len(t)
      /\ \A i \in 1..Len(s) : u[i] = s[i]
      /\ \A i \in 1..Len(t) : u[Len(s) + i] = t[i]
  BY <1>2, <1>3, <1>4
<1>6. s \o t = u
  BY <1>1, <1>5, Joined, Zenon
<1> QED
  BY <1>6 DEF s, t, u
LEMMA Join22 == ASSUME NEW a, NEW b, NEW c, NEW d PROVE <<a, b>> \o <<c, d>> = <<a, b, c, d>>
<1> DEFINE S == {a, b, c, d}  s == <<a, b>>  t == <<c, d>>  u == <<a, b, c, d>>
<1>1. s \in Seq(S) /\ t \in Seq(S) /\ u \in Seq(S)
  OBVIOUS
<1>2. Len(s) = 2 /\ Len(t) = 2 /\ Len(u) = 4
  OBVIOUS
<1>3. \A i \in 1..2 : u[i] = s[i]
  OBVIOUS
<1>4. \A i \in 1..2 : u[2 + i] = t[i]
  OBVIOUS
<1> HIDE DEF S, s, t, u
<1>5. /\ Len(u) = Len(s) + Len(t)
      /\ \A i \in 1..Len(s) : u[i] = s[i]
      /\ \A i \in 1..Len(t) : u[Len(s) + i] = t[i]
  BY <1>2, <1>3, <1>4
<1>6. s \o t = u
  BY <1>1, <1>5, Joined, Zenon
<1> QED
  BY <1>6 DEF s, t, u

LEMMA GroupsAre ==
  ASSUME ~TerminateEnabled
  PROVE  Groups = IF RequestEnabled
                  THEN <<<<"catalog">>, <<"request">>, NegOrder, XferOrder>>
                  ELSE <<<<"catalog">>, NegOrder, XferOrder>>
<1>1. NegRoutes = NegOrder
  <2>1. If(TerminateEnabled, "terminate") = <<>>
    BY DEF If
  <2>2. <<"offers", "agree">> \o <<>> = <<"offers", "agree">>
    OBVIOUS
  <2>3. <<"offers", "agree">> \o <<"negGet">> = NegOrder
    BY Join21 DEF NegOrder
  <2> QED
    BY <2>1, <2>2, <2>3 DEF NegRoutes
<1>2. CASE RequestEnabled
  <2>1. If(RequestEnabled, <<"request">>) = <<<<"request">>>>
    BY <1>2 DEF If
  <2>2. <<<<"catalog">>>> \o <<<<"request">>>> = <<<<"catalog">>, <<"request">>>>
    BY Join11
  <2>3. <<<<"catalog">>, <<"request">>>> \o <<NegOrder, XferOrder>>
          = <<<<"catalog">>, <<"request">>, NegOrder, XferOrder>>
    BY Join22
  <2> QED
    BY <1>1, <1>2, <2>1, <2>2, <2>3 DEF Groups, XferOrder
<1>3. CASE ~RequestEnabled
  <2>1. If(RequestEnabled, <<"request">>) = <<>>
    BY <1>3 DEF If
  <2>2. <<<<"catalog">>>> \o <<>> = <<<<"catalog">>>>
    OBVIOUS
  <2>3. <<<<"catalog">>>> \o <<NegOrder, XferOrder>> = <<<<"catalog">>, NegOrder, XferOrder>>
    BY Join12
  <2> QED
    BY <1>1, <1>3, <2>1, <2>2, <2>3 DEF Groups, XferOrder
<1> QED
  BY <1>2, <1>3

LEMMA EndpointsAre ==
  ASSUME ~TerminateEnabled
  PROVE  Endpoint = {Order[i] : i \in 1..Routes}
<1>1. \A s : ToSet(s) = {s[i] : i \in DOMAIN s}
  BY DEF ToSet
<1>2. ToSet(<<"catalog">>) = {"catalog"} /\ ToSet(<<"request">>) = {"request"}
  BY <1>1
<1>3. ToSet(NegOrder) = {"offers", "agree", "negGet"}
  BY <1>1 DEF NegOrder
<1>4. ToSet(XferOrder) = {"start", "complete", "xferGet"}
  BY <1>1 DEF XferOrder
<1>5. CASE RequestEnabled
  <2>1. {Order[i] : i \in 1..Routes} = {"catalog", "request", "offers", "agree", "negGet",
                                        "start", "complete", "xferGet"}
    BY <1>5 DEF Order, Routes
  <2>2. Groups = <<<<"catalog">>, <<"request">>, NegOrder, XferOrder>>
    BY <1>5, GroupsAre
  <2>3. Endpoint = ToSet(<<"catalog">>) \cup ToSet(<<"request">>) \cup ToSet(NegOrder) \cup ToSet(XferOrder)
    <3> HIDE DEF NegOrder, XferOrder
    <3>1. DOMAIN Groups = 1..4 /\ Groups[1] = <<"catalog">> /\ Groups[2] = <<"request">>
          /\ Groups[3] = NegOrder /\ Groups[4] = XferOrder
      BY <2>2
    <3>2. 1..4 = {1, 2, 3, 4}
      OBVIOUS
    <3> QED
      BY <3>1, <3>2 DEF Endpoint
  <2> QED
    BY <1>2, <1>3, <1>4, <2>1, <2>3
<1>6. CASE ~RequestEnabled
  <2>1. {Order[i] : i \in 1..Routes} = {"catalog", "offers", "agree", "negGet",
                                        "start", "complete", "xferGet"}
    BY <1>6 DEF Order, Routes
  <2>2. Groups = <<<<"catalog">>, NegOrder, XferOrder>>
    BY <1>6, GroupsAre
  <2>3. Endpoint = ToSet(<<"catalog">>) \cup ToSet(NegOrder) \cup ToSet(XferOrder)
    <3>1. DOMAIN Groups = 1..3 /\ Groups[1] = <<"catalog">>
          /\ Groups[2] = NegOrder /\ Groups[3] = XferOrder
      BY <2>2
    <3>2. 1..3 = {1, 2, 3}
      OBVIOUS
    <3> QED
      BY <3>1, <3>2 DEF Endpoint
  <2> QED
    BY <1>2, <1>3, <1>4, <2>1, <2>3
<1> QED
  BY <1>5, <1>6

(* In the order, no route is covered by one before it.                     *)
LEMMA ExactFirst ==
  /\ Routes \in Nat /\ 1 <= Routes /\ Routes <= 8
  /\ \A i \in 1..Routes : Order[i] \in Route \ {NoRoute} /\ Order[i] \in Covers(Order[i])
  /\ \A i, j \in 1..Routes : i < j => Order[j] \notin Covers(Order[i])
<1>1. CASE RequestEnabled
  BY <1>1 DEF Order, Routes, Covers, Route, NoRoute
<1>2. CASE ~RequestEnabled
  BY <1>2 DEF Order, Routes, Covers, Route, NoRoute
<1> QED
  BY <1>1, <1>2

LEMMA LaterPlans ==
  /\ After(LastPlans[1]) = LastPlans[2] /\ After(LastPlans[2]) = LastPlans[3]
  /\ Head(Head(LastPlans[1])) = "offers" /\ Head(Head(LastPlans[2])) = "agree"
<1>1. /\ LastPlans[1] = <<NegOrder, XferOrder>>
      /\ LastPlans[2] = <<<<"agree", "negGet">>, XferOrder>>
      /\ LastPlans[3] = <<<<"negGet">>, XferOrder>>
  BY DEF LastPlans
<1>2. /\ Len(NegOrder) # 1 /\ Head(NegOrder) = "offers" /\ Tail(NegOrder) = <<"agree", "negGet">>
      /\ Len(<<"agree", "negGet">>) = 2 /\ Head(<<"agree", "negGet">>) = "agree"
      /\ Tail(<<"agree", "negGet">>) = <<"negGet">>
  BY DEF NegOrder
<1>3. \A a, b : Head(<<a, b>>) = a /\ Tail(<<a, b>>) = <<b>>
  OBVIOUS
<1>4. After(LastPlans[1]) = <<<<"agree", "negGet">>>> \o <<XferOrder>>
  <2>1. Head(LastPlans[1]) = NegOrder /\ Tail(LastPlans[1]) = <<XferOrder>>
    BY <1>1, <1>3
  <2> QED
    BY <1>2, <2>1, Zenon DEF After
<1>5. After(LastPlans[2]) = <<<<"negGet">>>> \o <<XferOrder>>
  BY <1>1, <1>2, <1>3 DEF After
<1> QED
  BY <1>1, <1>2, <1>3, <1>4, <1>5, Join11

LEMMA FirstPlan == ASSUME ~TerminateEnabled
                   PROVE  Groups # <<>> /\ Head(Head(Groups)) = "catalog" /\ After(Groups) = Rest(1)
<1>1. /\ \A a, b, c : Head(<<a, b, c>>) = a /\ Tail(<<a, b, c>>) = <<b, c>> /\ <<a, b, c>> # <<>>
      /\ \A a, b, c, d : Head(<<a, b, c, d>>) = a /\ Tail(<<a, b, c, d>>) = <<b, c, d>>
                          /\ <<a, b, c, d>> # <<>>
      /\ \A a : Len(<<a>>) = 1 /\ Head(<<a>>) = a
  OBVIOUS
<1>2. LastPlans[1] = <<NegOrder, XferOrder>>
  BY DEF LastPlans
<1>3. CASE RequestEnabled
  <2>1. Groups = <<<<"catalog">>, <<"request">>, NegOrder, XferOrder>>
    BY <1>3, GroupsAre
  <2>2. Groups # <<>> /\ Head(Groups) = <<"catalog">> /\ Tail(Groups) = <<<<"request">>, NegOrder, XferOrder>>
    BY <2>1
  <2>3. Rest(1) = <<<<"request">>, NegOrder, XferOrder>>
    BY <1>3 DEF Rest
  <2>4. After(Groups) = Tail(Groups)
    BY <1>1, <2>2, Zenon DEF After
  <2> QED
    BY <1>1, <2>2, <2>3, <2>4, Zenon
<1>4. CASE ~RequestEnabled
  <2>1. Groups = <<<<"catalog">>, NegOrder, XferOrder>>
    BY <1>4, GroupsAre
  <2>2. Groups # <<>> /\ Head(Groups) = <<"catalog">> /\ Tail(Groups) = <<NegOrder, XferOrder>>
    BY <1>1, <2>1, ZenonT(30)
  <2>3. Rest(1) = <<NegOrder, XferOrder>>
    BY <1>2, <1>4 DEF Rest
  <2>4. After(Groups) = Tail(Groups)
    BY <1>1, <2>2, Zenon DEF After
  <2> QED
    BY <1>1, <2>2, <2>3, <2>4, Zenon
<1> QED
  BY <1>3, <1>4

LEMMA NextPlan ==
  ASSUME ~TerminateEnabled, NEW k \in 0..(Routes - 1)
  PROVE  Rest(k) # <<>> /\ Head(Head(Rest(k))) = Order[k + 1] /\ After(Rest(k)) = Rest(k + 1)
<1>1. CASE RequestEnabled
  <2>1. Routes = 8
    BY <1>1 DEF Routes, Order
  <2>2. CASE k = 0
    BY <1>1, <2>1, <2>2, FirstPlan DEF Rest, Order
  <2>3. CASE k = 1
    BY <1>1, <2>1, <2>3 DEF Rest, After, Order, LastPlans
  <2>4. CASE k = 2
    <3>1. LastPlans[1] # <<>>
      BY DEF LastPlans
    <3> QED
      BY <1>1, <2>1, <2>4, <3>1, LaterPlans DEF Rest, Order
  <2>5. CASE k = 3
    <3>1. LastPlans[2] # <<>>
      BY DEF LastPlans
    <3> QED
      BY <1>1, <2>1, <2>5, <3>1, LaterPlans DEF Rest, Order
  <2>6. CASE k = 4
    BY <1>1, <2>1, <2>6 DEF Rest, After, Order, LastPlans
  <2>7. CASE k = 5
    BY <1>1, <2>1, <2>7 DEF Rest, After, Order, LastPlans, XferOrder
  <2>8. CASE k = 6
    BY <1>1, <2>1, <2>8 DEF Rest, After, Order, LastPlans
  <2>9. CASE k = 7
    BY <1>1, <2>1, <2>9 DEF Rest, After, Order, LastPlans
  <2> QED
    BY <2>1, <2>2, <2>3, <2>4, <2>5, <2>6, <2>7, <2>8, <2>9
<1>2. CASE ~RequestEnabled
  <2>1. Routes = 7
    BY <1>2 DEF Routes, Order
  <2>2. CASE k = 0
    BY <1>2, <2>1, <2>2, FirstPlan DEF Rest, Order
  <2>4. CASE k = 1
    <3>1. LastPlans[1] # <<>>
      BY DEF LastPlans
    <3> QED
      BY <1>2, <2>1, <2>4, <3>1, LaterPlans DEF Rest, Order
  <2>5. CASE k = 2
    <3>1. LastPlans[2] # <<>>
      BY DEF LastPlans
    <3> QED
      BY <1>2, <2>1, <2>5, <3>1, LaterPlans DEF Rest, Order
  <2>6. CASE k = 3
    BY <1>2, <2>1, <2>6 DEF Rest, After, Order, LastPlans
  <2>7. CASE k = 4
    BY <1>2, <2>1, <2>7 DEF Rest, After, Order, LastPlans, XferOrder
  <2>8. CASE k = 5
    BY <1>2, <2>1, <2>8 DEF Rest, After, Order, LastPlans
  <2>9. CASE k = 6
    BY <1>2, <2>1, <2>9 DEF Rest, After, Order, LastPlans
  <2> QED
    BY <2>1, <2>2, <2>4, <2>5, <2>6, <2>7, <2>8, <2>9
<1> QED
  BY <1>1, <1>2

LEMMA PlanEnds == Rest(Routes) = <<>>
  BY DEF Rest, Routes, Order, LastPlans

(* The groups of routes a plan may hold.                                   *)
Plan == Seq(Seq(Endpoint) \ {<<>>})

LEMMA PlansAre == ASSUME ~TerminateEnabled PROVE Groups \in Plan
<1> DEFINE Group == Seq(Endpoint) \ {<<>>}
<1>1. \A e \in {"offers", "agree", "negGet", "start", "complete", "xferGet", "catalog"} : e \in Endpoint
  BY EndpointsAre DEF Order, Routes
<1>2. NegOrder \in Group /\ XferOrder \in Group /\ <<"catalog">> \in Group
  BY <1>1 DEF NegOrder, XferOrder
<1>3. CASE RequestEnabled
  <2>1. "request" \in Endpoint
    BY <1>3, EndpointsAre DEF Order, Routes
  <2>2. <<"request">> \in Group
    BY <2>1
  <2> HIDE DEF Group
  <2>3. <<<<"catalog">>, <<"request">>, NegOrder, XferOrder>> \in Seq(Group)
    BY <1>2, <2>2
  <2> QED
    BY <1>3, <2>3, GroupsAre DEF Plan, Group
<1>4. CASE ~RequestEnabled
  <2> HIDE DEF Group
  <2>1. <<<<"catalog">>, NegOrder, XferOrder>> \in Seq(Group)
    BY <1>2
  <2> QED
    BY <1>4, <2>1, GroupsAre DEF Plan, Group
<1> QED
  BY <1>3, <1>4

LEMMA PlanGoesOn == ASSUME NEW p \in Plan, p # <<>>
                    PROVE  Head(Head(p)) \in Endpoint /\ Tail(p) \in Plan /\ After(p) \in Plan
<1>1. Head(p) \in Seq(Endpoint) /\ Head(p) # <<>> /\ Tail(p) \in Plan
  BY DEF Plan
<1>2. Head(Head(p)) \in Endpoint /\ Tail(Head(p)) \in Seq(Endpoint)
  BY <1>1
<1>3. CASE Len(Head(p)) = 1
  BY <1>1, <1>2, <1>3 DEF After
<1>4. CASE Len(Head(p)) # 1
  <2>1. Tail(Head(p)) # <<>>
    <3>1. Len(Head(p)) \in Nat /\ Len(Head(p)) # 0
      BY <1>1
    <3>2. Len(Tail(Head(p))) = Len(Head(p)) - 1
      BY <1>1
    <3>3. Len(Tail(Head(p))) # 0
      BY <1>4, <3>1, <3>2
    <3>4. Len(<<>>) = 0
      OBVIOUS
    <3> QED
      BY <3>3, <3>4, Zenon
  <2>2. <<Tail(Head(p))>> \in Plan
    BY <1>2, <2>1 DEF Plan
  <2>3. <<Tail(Head(p))>> \o Tail(p) \in Plan
    BY <1>1, <2>2 DEF Plan
  <2> QED
    BY <1>1, <1>2, <1>4, <2>3 DEF After
<1> QED
  BY <1>3, <1>4

-----------------------------------------------------------------------------
(* The table and the server's list, as long as no registration has run out *)
(* of memory.                                                              *)
Filled(k) == \A i \in 1..MaxRoutes : s_routes[i] = IF i <= k THEN Order[i] ELSE NoRoute
Full == \A i \in 1..MaxRoutes : IF i <= Routes THEN s_routes[i] = Order[i]
                                               ELSE s_routes[i] \in Endpoint \cup {NoRoute}
Registers(n) == /\ registered \in Seq(Endpoint) /\ Len(registered) = n
                /\ \A i \in 1..n : registered[i] = Order[i]

(* The slots the start has been through.                                   *)
Applied == MaxRoutes - Len(plan)
Least(m, n) == IF m <= n THEN m ELSE n

(* The first pass that registers, and all that comes before it; k routes   *)
(* have their slots.                                                       *)
FirstPass(k) ==
    /\ Filled(k)
    /\ task \in Early \cup {"apply", "register"}
    /\ IF task = "register" THEN plan = Rest(k) ELSE k = 0
    /\ s_http \/ task = "apply" => Registers(k)

(* What comes after it: every route has its slot.                          *)
LaterPass ==
    /\ Full
    /\ s_http => Registers(Routes)
    /\ task = "apply" => Registers(Least(Applied, Routes))

(* The first n slots are used and no other.                                *)
Used(n) == \A i \in 1..MaxRoutes : s_routes[i] # NoRoute <=> i <= n

RoutesInv ==
    /\ failures \in Nat
    /\ \E n \in 0..MaxRoutes : Used(n)
    /\ s_routes \in [1..MaxRoutes -> Route \cup {NoRoute}]
    /\ task = "apply" => /\ plan \in Seq(Nat) /\ Len(plan) <= MaxRoutes /\ ~s_http
                         /\ \A i \in 1..Len(plan) : plan[i] = Applied + i
    /\ task = "register" => plan \in Plan
    /\ failures = 0 => LaterPass \/ \E k \in 0..(Routes - 1) : FirstPass(k)

LEMMA NotYet == ASSUME ~TerminateEnabled, NEW k \in 0..(Routes - 1), Registers(k)
                PROVE  Matching(Order[k + 1]) = {}
<1> SUFFICES ASSUME NEW i \in DOMAIN registered, Order[k + 1] \in Covers(registered[i]) PROVE FALSE
  BY DEF Matching
<1>1. i \in 1..k /\ registered[i] = Order[i]
  BY DEF Registers
<1>2. k + 1 \in 1..Routes /\ i \in 1..Routes /\ i < k + 1
  BY <1>1, ExactFirst
<1> QED
  BY <1>1, <1>2, ExactFirst

LEMMA Known == ASSUME ~TerminateEnabled, Registers(Routes), NEW e \in Endpoint
               PROVE  Matching(e) # {} /\ Dispatch(e) = e
<1>1. PICK n \in 1..Routes : e = Order[n]
  BY EndpointsAre
<1>2. DOMAIN registered = 1..Routes /\ \A i \in 1..Routes : registered[i] = Order[i]
  BY ExactFirst DEF Registers
<1>3. n \in Matching(e)
  BY <1>1, <1>2, ExactFirst DEF Matching
<1>4. \A i \in Matching(e) : i \in 1..Routes /\ n <= i
  <2> SUFFICES ASSUME NEW i \in 1..Routes, e \in Covers(Order[i]), i < n PROVE FALSE
    BY <1>1, <1>2, ExactFirst DEF Matching
  <2> QED
    BY <1>1, ExactFirst
<1>5. (CHOOSE i \in Matching(e) : \A j \in Matching(e) : i <= j) = n
  <2>1. \A i \in Matching(e) : (\A j \in Matching(e) : i <= j) => i = n
    BY <1>3, <1>4, ExactFirst
  <2> QED
    BY <1>3, <1>4, <2>1
<1> QED
  BY <1>1, <1>2, <1>3, <1>5 DEF Dispatch

(* A server that knows k routes takes the next one.                        *)
LEMMA Taken == ASSUME ~TerminateEnabled, Routes <= MaxRoutes, NEW k \in 0..(Routes - 1), Registers(k)
               PROVE  /\ ~Refused(Order[k + 1])
                      /\ Applies(Order[k + 1]) => Registers(k + 1)'
<1>1. Matching(Order[k + 1]) = {}
  BY NotYet
<1>2. Len(registered) # MaxRoutes
  BY RoutesAssumption, ExactFirst DEF Registers
<1>3. Order[k + 1] \in Endpoint
  BY EndpointsAre, ExactFirst
<1>4. ASSUME Applies(Order[k + 1]) PROVE Registers(k + 1)'
  <2>1. registered' = Append(registered, Order[k + 1])
    BY <1>4 DEF Applies
  <2>2. k \in Nat /\ registered \in Seq(Endpoint) /\ Len(registered) = k
    BY ExactFirst DEF Registers
  <2>3. registered' \in Seq(Endpoint) /\ Len(registered') = k + 1
    BY <1>3, <2>1, <2>2
  <2>4. ASSUME NEW i \in 1..(k + 1) PROVE registered'[i] = Order[i]
    BY <1>3, <2>1, <2>2 DEF Registers
  <2> QED
    BY <2>3, <2>4 DEF Registers
<1> QED
  BY <1>1, <1>2, <1>4 DEF Refused

LEMMA UsedKept == ASSUME RoutesInv, s_routes' = s_routes PROVE \E n \in 0..MaxRoutes : Used(n)'
<1>1. PICK n \in 0..MaxRoutes : Used(n)
  BY DEF RoutesInv
<1>2. Used(n)'
  BY <1>1 DEF Used
<1> QED
  BY <1>2

(* A step that leaves the routes and the plan alone.                       *)
LEMMA RoutesStutter ==
  ASSUME RoutesInv, UNCHANGED <<s_routes, registered, s_http, failures, task, plan>>
  PROVE  RoutesInv'
<1>1. LaterPass => LaterPass'
  BY DEF LaterPass, Full, Registers, Applied, Least
<1>2. \A k \in 0..(Routes - 1) : FirstPass(k) => FirstPass(k)'
  BY DEF FirstPass, Filled, Registers
<1> QED
  BY <1>1, <1>2, UsedKept DEF RoutesInv, Applied

(* A step of the task away from the registrations.                         *)
LEMMA RoutesKept ==
  ASSUME ~TerminateEnabled, RoutesInv, UNCHANGED <<s_routes, registered, failures>>,
         s_http' = s_http \/ (s_http' = FALSE /\ registered' = <<>>),
         task # "apply", task = "register" => plan = <<>>,
         task' \notin {"apply", "register"}, task \in Early => task' \in Early
  PROVE  RoutesInv'
<1>1. ASSUME LaterPass PROVE LaterPass'
  BY <1>1 DEF LaterPass, Full, Registers
<1>2. ASSUME NEW k \in 0..(Routes - 1), FirstPass(k) PROVE FirstPass(k)'
  <2>1. task # "register"
    BY <1>2, NextPlan DEF FirstPass
  <2> QED
    BY <1>2, <2>1 DEF FirstPass, Filled, Registers
<1> QED
  BY <1>1, <1>2, UsedKept DEF RoutesInv

LEMMA StopDoneRoutes ==
  ASSUME RoutesInv, s_routes' = s_routes, failures' = failures, task' = task, task # "apply",
         plan' = plan, s_http' = FALSE
  PROVE  RoutesInv'
<1>1. LaterPass => LaterPass'
  BY DEF LaterPass, Full
<1>2. \A k \in 0..(Routes - 1) : FirstPass(k) => FirstPass(k)'
  BY DEF FirstPass, Filled
<1> QED
  BY <1>1, <1>2, UsedKept DEF RoutesInv

LEMMA StartFailsRoutes == ASSUME ~TerminateEnabled, RoutesInv, HttpStartFails PROVE RoutesInv'
<1>1. /\ task = "http" /\ task' = "register" /\ plan' = Groups
      /\ UNCHANGED <<s_routes, registered, s_http, failures>>
  BY DEF HttpStartFails, routeVars
<1>2. ASSUME LaterPass PROVE LaterPass'
  BY <1>1, <1>2, PlansAre DEF LaterPass, Full, Registers
<1>3. ASSUME NEW k \in 0..(Routes - 1), FirstPass(k) PROVE FirstPass(k)'
  <2>1. k = 0
    BY <1>1, <1>3 DEF FirstPass
  <2>2. plan' = Rest(k)
    BY <1>1, <2>1 DEF Rest
  <2> QED
    BY <1>1, <1>3, <2>2 DEF FirstPass, Filled, Registers
<1> QED
  BY <1>1, <1>2, <1>3, PlansAre, UsedKept DEF RoutesInv

LEMMA StartRoutes == ASSUME StackInv, RoutesInv, HttpStart PROVE RoutesInv'
<1>1. /\ task = "http" /\ ~s_http /\ task' = "apply" /\ plan' = [i \in 1..MaxRoutes |-> i]
      /\ UNCHANGED <<s_routes, registered, s_http, failures>>
  BY DEF HttpStart
<1>2. registered = <<>>
  BY <1>1 DEF StackInv, ServerInv, Early
<1>3. plan' \in Seq(Nat) /\ Len(plan') = MaxRoutes /\ Applied' = 0
  BY <1>1, RoutesAssumption DEF Applied
<1>4. Registers(0)'
  BY <1>1, <1>2 DEF Registers
<1>5. Least(Applied', Routes) = 0
  BY <1>3, ExactFirst DEF Least
<1>6. ASSUME LaterPass PROVE LaterPass'
  <2>1. Registers(Least(Applied, Routes))'
    BY <1>4, <1>5
  <2> QED
    BY <1>1, <1>6, <2>1 DEF LaterPass, Full
<1>7. ASSUME NEW k \in 0..(Routes - 1), FirstPass(k) PROVE FirstPass(k)'
  BY <1>1, <1>4, <1>7 DEF FirstPass, Filled
<1>8. \A i \in 1..Len(plan') : plan'[i] = Applied' + i
  BY <1>1, <1>3, RoutesAssumption
<1> QED
  BY <1>1, <1>3, <1>6, <1>7, <1>8, RoutesAssumption, UsedKept DEF RoutesInv

LEMMA ApplyRoutes ==
  ASSUME ~TerminateEnabled, Routes <= MaxRoutes, RoutesInv, HttpApply PROVE RoutesInv'
<1>1. task = "apply" /\ ~s_http /\ s_routes' = s_routes
  BY DEF HttpApply, RoutesInv
<1>2. plan \in Seq(Nat) /\ Len(plan) <= MaxRoutes /\ \A i \in 1..Len(plan) : plan[i] = Applied + i
  BY <1>1 DEF RoutesInv
<1>3. CASE plan = <<>>
  <2>1. /\ s_http' = TRUE /\ task' = "register" /\ plan' = Groups
        /\ UNCHANGED <<registered, failures>>
    BY <1>3 DEF HttpApply
  <2>2. Applied = MaxRoutes /\ Least(Applied, Routes) = Routes
    BY <1>3, RoutesAssumption, ExactFirst DEF Applied, Least
  <2>3. ASSUME LaterPass PROVE LaterPass'
    <3>1. Registers(Routes)
      BY <1>1, <2>2, <2>3 DEF LaterPass
    <3> QED
      BY <1>1, <2>1, <2>3, <3>1, PlansAre DEF LaterPass, Full, Registers
  <2>4. ASSUME NEW k \in 0..(Routes - 1), FirstPass(k) PROVE FirstPass(k)'
    <3>1. k = 0
      BY <1>1, <2>4 DEF FirstPass
    <3>2. plan' = Rest(k)
      BY <2>1, <3>1 DEF Rest
    <3> QED
      BY <1>1, <2>1, <2>4, <3>2 DEF FirstPass, Filled, Registers
  <2> QED
    BY <1>1, <2>1, <2>3, <2>4, PlansAre, UsedKept DEF RoutesInv
<1>4. CASE plan # <<>>
  <2>0. PICK m : m = Applied
    OBVIOUS
  <2>1. Head(plan) = m + 1 /\ m \in Nat /\ m + 1 <= MaxRoutes
    BY <1>2, <1>4, <2>0, RoutesAssumption DEF Applied
  <2>2. /\ ApplySlot(m + 1) /\ plan' = Tail(plan) /\ UNCHANGED <<task, s_http>>
    BY <1>4, <2>1 DEF HttpApply
  <2>3. /\ plan' \in Seq(Nat) /\ Len(plan') <= MaxRoutes /\ Applied' = m + 1
        /\ \A i \in 1..Len(plan') : plan'[i] = m + 1 + i
    BY <1>2, <1>4, <2>0, <2>2, RoutesAssumption DEF Applied
  <2>4. failures' \in {failures, failures + 1}
    BY <2>2 DEF ApplySlot, Applies, NotApplied
  <2>5. failures' \in Nat /\ (failures' = 0 => failures = 0)
    BY <2>4 DEF RoutesInv
  <2>6. ASSUME failures' = 0, LaterPass PROVE LaterPass'
    <3>1. Registers(Least(m, Routes))
      BY <1>1, <2>0, <2>6 DEF LaterPass
    <3>2. failures' = failures
      BY <2>4, <2>5, <2>6
    <3>3. CASE m + 1 <= Routes
      <4>1. m \in 0..(Routes - 1) /\ Least(m, Routes) = m /\ Least(m + 1, Routes) = m + 1
        BY <2>1, <3>3, ExactFirst DEF Least
      <4>2. s_routes[m + 1] = Order[m + 1] /\ Order[m + 1] # NoRoute
        BY <2>1, <2>6, <3>3, ExactFirst DEF LaterPass, Full
      <4>3. Registers(m)
        BY <3>1, <4>1
      <4>4. ~Refused(Order[m + 1])
        BY <4>1, <4>3, Taken
      <4>5. Applies(Order[m + 1])
        BY <2>2, <2>6, <3>2, <4>2, <4>4 DEF ApplySlot, NotApplied, RoutesInv
      <4>6. Registers(m + 1)'
        BY <4>1, <4>3, <4>5, Taken
      <4>7. Registers(Least(Applied, Routes))'
        BY <2>3, <4>1, <4>6
      <4> QED
        BY <1>1, <2>2, <2>6, <4>7 DEF LaterPass, Full
    <3>4. CASE m + 1 > Routes
      <4>1. Least(m, Routes) = Routes /\ Least(m + 1, Routes) = Routes
        BY <2>1, <3>4, ExactFirst DEF Least
      <4>2. s_routes[m + 1] \in Endpoint \cup {NoRoute}
        BY <2>1, <2>6, <3>4, ExactFirst DEF LaterPass, Full
      <4>3. Registers(Routes)
        BY <3>1, <4>1
      <4>4. registered' = registered
        <5>1. CASE s_routes[m + 1] = NoRoute
          BY <2>2, <5>1 DEF ApplySlot
        <5>2. CASE s_routes[m + 1] \in Endpoint
          <6>1. Refused(s_routes[m + 1])
            BY <4>3, <5>2, Known DEF Refused
          <6> QED
            BY <2>2, <6>1 DEF ApplySlot, Applies, NotApplied
        <5> QED
          BY <4>2, <5>1, <5>2
      <4>5. Registers(Routes)'
        BY <4>3, <4>4 DEF Registers
      <4>6. Registers(Least(Applied, Routes))'
        BY <2>3, <4>1, <4>5
      <4> QED
        BY <1>1, <2>2, <2>6, <4>6 DEF LaterPass, Full
    <3> QED
      BY <2>1, <3>3, <3>4, ExactFirst
  <2>7. ASSUME NEW k \in 0..(Routes - 1), FirstPass(k) PROVE FirstPass(k)'
    <3>1. k = 0 /\ s_routes[m + 1] = NoRoute
      BY <1>1, <2>1, <2>7, RoutesAssumption DEF FirstPass, Filled
    <3>2. registered' = registered
      BY <2>2, <3>1 DEF ApplySlot
    <3> QED
      BY <1>1, <2>2, <2>7, <3>2 DEF FirstPass, Filled, Registers
  <2> QED
    BY <1>1, <2>2, <2>3, <2>5, <2>6, <2>7, UsedKept DEF RoutesInv
<1> QED
  BY <1>3, <1>4

LEMMA FirstFreeIs == ASSUME NEW n \in Free, \A i \in Free : n <= i PROVE FirstFree = n
<1>1. Free \subseteq Nat
  BY RoutesAssumption DEF Free
<1>2. \A i \in Free : (\A j \in Free : i <= j) => i = n
  BY <1>1
<1> QED
  BY <1>2 DEF FirstFree

LEMMA NextSlot ==
  ASSUME NEW n \in 0..MaxRoutes, Used(n), Free # {}
  PROVE  n + 1 \in 1..MaxRoutes /\ FirstFree = n + 1 /\ s_routes[n + 1] = NoRoute
<1>1. Free = (n + 1)..MaxRoutes
  BY RoutesAssumption DEF Free, Used
<1>2. n + 1 \in 1..MaxRoutes /\ n + 1 \in Free /\ \A i \in Free : n + 1 <= i
  BY <1>1, RoutesAssumption
<1>3. FirstFree = n + 1
  BY <1>2, FirstFreeIs
<1> QED
  BY <1>2, <1>3 DEF Free

LEMMA RegisterRoutes ==
  ASSUME ~TerminateEnabled, Routes <= MaxRoutes, RoutesInv, RegisterNext PROVE RoutesInv'
<1> DEFINE r == Head(Head(plan))
<1>1. task = "register" /\ task' = "register" /\ s_http' = s_http /\ plan # <<>>
  BY DEF RegisterNext
<1>2. \/ RegisterOk(r) /\ plan' = After(plan)
      \/ RegisterFails(r) /\ plan' = Tail(plan)
  BY DEF RegisterNext, After
<1>3. failures \in Nat /\ s_routes \in [1..MaxRoutes -> Route \cup {NoRoute}]
  BY DEF RoutesInv
<1>4. \E n \in 0..MaxRoutes : Used(n)
  BY DEF RoutesInv
<1>5. failures' \in {failures, failures + 1}
  BY <1>2 DEF RegisterOk, RegisterFails, Applies, NotApplied
<1>6. r \in Endpoint /\ plan' \in Plan
  BY <1>1, <1>2, PlanGoesOn DEF RoutesInv
<1>7. ASSUME failures' = 0, NEW k \in 0..(Routes - 1), FirstPass(k)
      PROVE  LaterPass' \/ \E n \in 0..(Routes - 1) : FirstPass(n)'
  <2>1. plan = Rest(k) /\ Filled(k) /\ (s_http => Registers(k))
    BY <1>1, <1>7 DEF FirstPass
  <2>2. r = Order[k + 1] /\ After(plan) = Rest(k + 1)
    BY <2>1, NextPlan
  <2>3. k \in Nat /\ k + 1 \in 1..Routes /\ k + 1 \in 1..MaxRoutes
    BY ExactFirst, RoutesAssumption
  <2>4. r \in Route /\ r # NoRoute
    BY <2>2, <2>3, ExactFirst
  <2>5. Free = (k + 1)..MaxRoutes
    <3>1. \A i \in 1..MaxRoutes : i <= k => s_routes[i] # NoRoute
      BY <2>1, <2>3, ExactFirst DEF Filled
    <3>2. \A i \in 1..MaxRoutes : i > k => s_routes[i] = NoRoute
      BY <2>1, <2>3 DEF Filled
    <3> QED
      BY <2>3, <3>1, <3>2, RoutesAssumption DEF Free
  <2>6. FirstFree = k + 1 /\ Free # {}
    <3>1. k + 1 \in Free /\ \A i \in Free : k + 1 <= i
      BY <2>3, <2>5, RoutesAssumption
    <3> QED
      BY <3>1, FirstFreeIs
  <2>7. RegisterOk(r) /\ plan' = Rest(k + 1)
    <3> SUFFICES ASSUME RegisterFails(r) PROVE FALSE
      BY <1>2, <2>2
    <3>1. s_http /\ NotApplied(r)
      BY <2>6 DEF RegisterFails
    <3>2. ~Refused(r)
      BY <2>1, <2>2, <3>1, Taken
    <3> QED
      BY <1>3, <1>7, <3>1, <3>2 DEF NotApplied
  <2>8. s_routes' = [s_routes EXCEPT ![k + 1] = r]
    BY <2>6, <2>7 DEF RegisterOk
  <2>9. Filled(k + 1)'
    <3> SUFFICES ASSUME NEW i \in 1..MaxRoutes
                 PROVE  s_routes'[i] = IF i <= k + 1 THEN Order[i] ELSE NoRoute
      BY DEF Filled
    <3>1. s_routes[i] = IF i <= k THEN Order[i] ELSE NoRoute
      BY <2>1 DEF Filled
    <3> QED
      BY <1>3, <2>2, <2>3, <2>8, <3>1
  <2>10. s_http => Registers(k + 1)'
    <3> SUFFICES ASSUME s_http PROVE Registers(k + 1)'
      OBVIOUS
    <3>1. Applies(Order[k + 1])
      BY <2>2, <2>7 DEF RegisterOk
    <3> QED
      BY <2>1, <3>1, Taken
  <2>11. CASE k + 1 < Routes
    <3>1. k + 1 \in 0..(Routes - 1)
      BY <2>3, <2>11, ExactFirst
    <3>2. FirstPass(k + 1)'
      BY <1>1, <2>7, <2>9, <2>10 DEF FirstPass
    <3> QED
      BY <3>1, <3>2
  <2>12. CASE k + 1 = Routes
    <3>1. Full'
      BY <2>9, <2>12 DEF Filled, Full
    <3> QED
      BY <1>1, <2>10, <2>12, <3>1 DEF LaterPass
  <2> QED
    BY <2>3, <2>11, <2>12, ExactFirst
<1>8. ASSUME LaterPass PROVE LaterPass'
  <2>1. Full /\ (s_http => Registers(Routes))
    BY <1>1, <1>8 DEF LaterPass
  <2>2. r \in Endpoint
    BY <1>6
  <2>3. CASE RegisterOk(r)
    <3>1. ~s_http
      <4> SUFFICES ASSUME s_http PROVE FALSE
        OBVIOUS
      <4> QED
        BY <2>1, <2>2, <2>3, Known DEF RegisterOk, Applies, Refused
    <3>2. PICK n \in 1..MaxRoutes : /\ s_routes[n] = NoRoute
                                    /\ s_routes' = [s_routes EXCEPT ![n] = r]
      BY <1>4, <2>3, NextSlot DEF RegisterOk
    <3>3. n > Routes
      BY <2>1, <3>2, ExactFirst, RoutesAssumption DEF Full
    <3>4. Full'
      <4> SUFFICES ASSUME NEW i \in 1..MaxRoutes
                   PROVE  IF i <= Routes THEN s_routes'[i] = Order[i]
                                         ELSE s_routes'[i] \in Endpoint \cup {NoRoute}
        BY DEF Full
      <4> QED
        BY <1>3, <2>1, <2>2, <3>2, <3>3, ExactFirst DEF Full
    <3> QED
      BY <1>1, <2>2, <3>1, <3>4 DEF LaterPass
  <2>4. CASE RegisterFails(r)
    <3>1. UNCHANGED <<s_routes, registered>>
      BY <2>4 DEF RegisterFails, NotApplied
    <3> QED
      BY <1>1, <2>1, <2>2, <3>1 DEF LaterPass, Full, Registers
  <2> QED
    BY <1>2, <2>3, <2>4
<1>9. \E n \in 0..MaxRoutes : Used(n)'
  <2>1. CASE RegisterFails(r)
    BY <1>4, <2>1 DEF RegisterFails, Used
  <2>2. CASE RegisterOk(r)
    <3>1. PICK n \in 0..MaxRoutes : Used(n)
      BY <1>4
    <3>2. /\ n + 1 \in 1..MaxRoutes
          /\ s_routes' = [s_routes EXCEPT ![n + 1] = r]
      BY <2>2, <3>1, NextSlot DEF RegisterOk
    <3>3. r # NoRoute
      BY <1>6, EndpointsAre, ExactFirst
    <3> HIDE DEF r
    <3>4. Used(n + 1)'
      BY <1>3, <3>1, <3>2, <3>3, RoutesAssumption DEF Used
    <3> QED
      BY <3>2, <3>4, RoutesAssumption
  <2> QED
    BY <1>2, <2>1, <2>2
<1>10. s_routes' \in [1..MaxRoutes -> Route \cup {NoRoute}]
  <2>1. s_routes' = s_routes \/ \E n \in 1..MaxRoutes : s_routes' = [s_routes EXCEPT ![n] = r]
    BY <1>2, <1>4, NextSlot DEF RegisterOk, RegisterFails
  <2>2. r \in Route
    BY <1>6, EndpointsAre, ExactFirst
  <2> HIDE DEF r
  <2> QED
    BY <1>3, <2>1, <2>2
<1> QED
  BY <1>1, <1>3, <1>4, <1>5, <1>6, <1>7, <1>8, <1>9, <1>10 DEF RoutesInv

LEMMA TaskRoutes ==
  ASSUME ~TerminateEnabled, Routes <= MaxRoutes, StackInv, RoutesInv, TaskStep PROVE RoutesInv'
<1>1. CASE IdentityInit
  BY <1>1, RoutesKept DEF IdentityInit, routeVars, Early
<1>2. CASE IdentityFails
  BY <1>2, RoutesKept DEF IdentityFails, routeVars, Early
<1>3. CASE TlsServerInit
  BY <1>3, RoutesKept DEF TlsServerInit, routeVars, Early
<1>4. CASE \/ ModuleInit("catalog", "neg") \/ ModuleInit("neg", "xfer")
           \/ ModuleInit("xfer", "http")
  BY <1>4, RoutesKept DEF ModuleInit, routeVars, Early
<1>5. CASE HttpStartFails
  BY <1>5, StartFailsRoutes
<1>6. CASE HttpStart
  BY <1>6, StartRoutes
<1>7. CASE HttpApply
  BY <1>7, ApplyRoutes
<1>8. CASE RegisterNext
  BY <1>8, RegisterRoutes
<1>9. CASE SignalReady
  BY <1>9, RoutesKept DEF SignalReady, routeVars, Early
<1>10. CASE SetRunning
  BY <1>10, RoutesKept DEF SetRunning, routeVars, Early
<1> QED
  BY <1>1, <1>2, <1>3, <1>4, <1>5, <1>6, <1>7, <1>8, <1>9, <1>10 DEF TaskStep

LEMMA StopRoutes == ASSUME ~TerminateEnabled, StackInv, RoutesInv, Stop PROVE RoutesInv'
<1>1. task \in {"none", "loop"} /\ ctl # "idle"
  BY DEF StackInv, Turns, Settled, Stop, StopHttp, StopModule, StopTls, StopIdentity,
         StopUnshare, StopDelete
<1>2. CASE StopHttp
  <2>1. UNCHANGED <<task, plan>>
    BY <1>2 DEF StopHttp
  <2>2. CASE HttpStopAsk \/ UNCHANGED routeVars
    BY <2>1, <2>2, RoutesStutter DEF HttpStopAsk, routeVars
  <2>3. CASE HttpStopDone
    BY <1>1, <2>1, <2>3, StopDoneRoutes DEF HttpStopDone
  <2> QED
    BY <1>2, <2>2, <2>3 DEF StopHttp
<1>3. CASE \/ StopModule("xfer", "neg") \/ StopModule("neg", "catalog")
           \/ StopModule("catalog", "tls")
  BY <1>3, RoutesStutter DEF StopModule, routeVars
<1>4. CASE StopTls \/ StopIdentity \/ StopUnshare
  BY <1>4, RoutesStutter DEF StopTls, StopIdentity, StopUnshare, routeVars
<1>5. CASE StopDelete
  <2>1. task' \in {"none", "loop"} /\ (task = "none" => task' = "none")
    BY <1>1, <1>5 DEF StopDelete
  <2> QED
    BY <1>1, <1>5, <2>1, RoutesKept DEF StopDelete, routeVars, Early
<1> QED
  BY <1>2, <1>3, <1>4, <1>5 DEF Stop

LEMMA CallRoutes ==
  ASSUME ~TerminateEnabled, StopsWhenReady, RoutesInv, StartCall \/ StopCall PROVE RoutesInv'
<1>1. CASE StartCall
  <2>1. task = "none" /\ task' \in {"none", "identity"} /\ UNCHANGED routeVars
    BY StopsWhenReady, <1>1 DEF StartCall
  <2> QED
    BY <2>1, RoutesKept DEF routeVars, Early
<1>2. CASE StopCall
  BY <1>2, RoutesStutter DEF StopCall, routeVars
<1> QED
  BY <1>1, <1>2

LEMMA EmptyRoutes ==
  ASSUME s_routes = [i \in 1..MaxRoutes |-> NoRoute], failures = 0, task = "none", ~s_http
  PROVE  RoutesInv
<1>1. FirstPass(0)
  BY DEF FirstPass, Filled, Early
<1>2. Used(0)
  BY DEF Used
<1>3. 0 \in 0..(Routes - 1) /\ 0 \in 0..MaxRoutes
  BY ExactFirst, RoutesAssumption
<1> QED
  BY <1>1, <1>2, <1>3 DEF RoutesInv

LEMMA ResetRoutes == ASSUME Reset PROVE RoutesInv'
<1>1. /\ s_routes' = [i \in 1..MaxRoutes |-> NoRoute] /\ failures' = 0 /\ task' = "none"
      /\ s_http' = FALSE
  BY DEF Reset
<1>2. FirstPass(0)'
  BY <1>1 DEF FirstPass, Filled, Early
<1>3. Used(0)'
  BY <1>1 DEF Used
<1>4. 0 \in 0..(Routes - 1) /\ 0 \in 0..MaxRoutes
  BY ExactFirst, RoutesAssumption
<1> QED
  BY <1>1, <1>2, <1>3, <1>4 DEF RoutesInv

LEMMA RoutesStep ==
  ASSUME ~TerminateEnabled, Routes <= MaxRoutes, StopsWhenReady, StackInv, RoutesInv, [Next]_vars
  PROVE  RoutesInv'
<1> USE DEF protocolVars, routeVars
<1>1. CASE SharedInit \/ WifiInit \/ StoreKey("ssid", "ssid", "pass")
           \/ StoreKey("pass", "pass", "commit") \/ Commit \/ WifiConnect
           \/ PowerInit \/ ApplicationStart
  BY <1>1, RoutesStutter DEF SharedInit, WifiInit, StoreKey, Commit, WifiConnect, PowerInit,
                             ApplicationStart
<1>2. CASE ProtocolStart \/ Maintain
  BY <1>2, StopsWhenReady, CallRoutes DEF ProtocolStart, Maintain
<1>3. CASE Task
  BY <1>3, TaskRoutes DEF Task
<1>4. CASE Stopping
  BY <1>4, StopRoutes DEF Stopping
<1>5. CASE Serving
  BY <1>5, RoutesStutter DEF Serving, Serve, Request, Respond
<1>6. CASE Reset
  BY <1>6, ResetRoutes
<1>7. CASE UNCHANGED vars
  BY <1>7, RoutesStutter DEF vars
<1> QED
  BY <1>1, <1>2, <1>3, <1>4, <1>5, <1>6, <1>7 DEF Next, AppMain

(* While the stack runs, a request for an endpoint is given to the handler *)
(* of that endpoint (the registrations of dsp_catalog, dsp_neg and         *)
(* dsp_xfer, dsp_http_start), whichever starts failed before and however   *)
(* full the table is, unless a registration ran out of memory.  The build  *)
(* leaves /terminate out, the table has a slot for every route, and every  *)
(* stop finds the initialisation finished.                                 *)
THEOREM EndpointsStayReached ==
  ~TerminateEnabled /\ Routes <= MaxRoutes /\ StopsWhenReady => (Spec => []EndpointsReached)
<1> SUFFICES ASSUME ~TerminateEnabled, Routes <= MaxRoutes, StopsWhenReady
             PROVE  Spec => []EndpointsReached
  OBVIOUS
<1> DEFINE Inv == StackInv /\ RoutesInv
<1>1. Init => Inv
  BY StackAtBoot, EmptyRoutes DEF Init, ProtocolInit, RoutesInit
<1>2. Inv /\ [Next]_vars => Inv'
  BY StopsWhenReady, StackStep, RoutesStep
<1>3. Inv => EndpointsReached
  <2> SUFFICES ASSUME StackInv, RoutesInv, s_running, s_http, failures = 0, NEW e \in Endpoint
               PROVE  Dispatch(e) = e
    BY DEF EndpointsReached
  <2>1. task = "loop"
    BY DEF StackInv, HoldsInv
  <2>2. LaterPass
    BY <2>1 DEF RoutesInv, FirstPass, Early
  <2> QED
    BY <2>2, Known DEF LaterPass
<1> QED
  BY <1>1, <1>2, <1>3, PTL DEF Spec
=============================================================================
