----------------------------- MODULE WifiControl -----------------------------
(***************************************************************************)
(* Control of the Wi-Fi station from the host: the requests start, stop,   *)
(* connect, disconnect and set_config of slave_control.c, its handler of   *)
(* the events of the Wi-Fi library, and what rpc_event_callback of the     *)
(* host's rpc_wrap.c makes of them.                                        *)
(*                                                                         *)
(* Requests run in pserial_task, library events in the task of the event   *)
(* loop.  Both send through pserial_task's own queue, so that responses    *)
(* and events reach the host in the order in which that task finds them.   *)
(* The host may restart while the co-processor keeps its link: what it     *)
(* knew is lost, and so is what was on the bus to it.                      *)
(*                                                                         *)
(* pserial_task has the higher priority.  It may interrupt the event task  *)
(* between any two statements, while the event task runs only where        *)
(* pserial_task blocks: in a call of the library or in a put to a full     *)
(* queue.  With TwoCores both run at the same time.                        *)
(*                                                                         *)
(* Only the station interface is modelled, in station mode, and the        *)
(* library (lib, libCfg, evQ) only as this code uses it.  The host's event *)
(* loop is taken to handle a post before the next message of the           *)
(* co-processor.                                                           *)
(*                                                                         *)
(* A definition whose name ends in _<Word> is the definition after it with *)
(* one mistake; Spec does not use it.                                      *)
(***************************************************************************)
EXTENDS Integers, Sequences

CONSTANTS
    Configs,      \* station configurations
    NoConfig,     \* the empty SSID
    Stored,       \* what the flash may hold at the co-processor's boot
    TwoCores,     \* the event task runs beside pserial_task
    ReqQSize,     \* REQ_Q_MAX of protocomm_pserial.c
    MaxActs       \* BOUND: calls of the application, restarts of the host and
                  \* links that the access point refuses or drops, in all

ASSUME ConfigsAssumption == NoConfig \notin Configs /\ Stored \subseteq Configs \cup {NoConfig}
ASSUME BoundsAssumption ==
    TwoCores \in BOOLEAN /\ ReqQSize \in Nat \ {0} /\ MaxActs \in Nat

VARIABLES
    \* host
    app,           \* whether the application waits for a response
    calls, restarts,
    hostStarted,   \* the application's esp_wifi_start has returned
    netifStarted, netifConnected,  \* the static flags of rpc_event_callback
    view,          \* what the events posted to the application tell
    \* bus
    toSlave, toHost,
    \* pserial_task
    reqQ, rpcPc, rpc,
    \* event task
    evPc, ev,
    \* slave_control.c and esp_hosted_coprocessor.c
    newConfigRecvd, newConfig,
    stationConnected, stationConnecting,
    rxcb,          \* wlan_sta_rx_callback is registered
    \* the Wi-Fi library
    lib, libCfg, evQ, drops,
    \* history
    asked,         \* the last configuration whose request was answered
    withheld,      \* the last connect of this link found another configuration
                   \* pending, or none at all in the library, and was not answered
                   \* with a connected event
    overtaken      \* the last connected or disconnected event put to reqQ answers
                   \* a connect, and was put when the link had gone

hostVars == <<app, calls, restarts, hostStarted, netifStarted, netifConnected, view>>
pserial == <<rpcPc, rpc>>
eventTask == <<evPc, ev>>
pending == <<newConfigRecvd, newConfig>>
link == <<stationConnected, withheld>>
history == <<asked, overtaken>>
station == <<link, stationConnecting, rxcb>>
library == <<lib, libCfg, evQ, drops>>
vars == <<hostVars, toSlave, toHost, reqQ, pserial, eventTask, pending, station, library, history>>

Act == calls + restarts + drops < MaxActs

Ops == {"start", "stop", "connect", "disconnect", "set_config"}
Events == {"STA_START", "STA_STOP", "STA_CONNECTED", "STA_DISCONNECTED"}
NoCaller == -1   \* rpc_wifi_connect_async: nobody waits for the response

\* What travels: a request, its response, an event.  `from' stands for the
\* uid that tells a response to a call of before the restart.
Message(kind, what, cfg, from) == [kind |-> kind, what |-> what, cfg |-> cfg, from |-> from]
Event(e) == Message("evt", e, NoConfig, NoCaller)
ConnectRequest(from) == Message("req", "connect", NoConfig, from)
Response(req) == [req EXCEPT !.kind = "rsp"]
NoEvent == "STA_STOP"     \* of an idle event task; any value would do
NoMessage == Event(NoEvent)

Init ==
    /\ app = "idle" /\ calls = 0 /\ restarts = 0
    /\ hostStarted = FALSE /\ netifStarted = FALSE /\ netifConnected = FALSE
    /\ view = "stopped"
    /\ toSlave = << >> /\ toHost = << >>
    /\ reqQ = << >> /\ rpcPc = "idle" /\ rpc = NoMessage
    /\ evPc = "idle" /\ ev = NoEvent
    /\ newConfigRecvd = FALSE /\ newConfig = NoConfig
    /\ stationConnected = FALSE /\ stationConnecting = FALSE /\ rxcb = FALSE
    /\ lib = "stopped" /\ evQ = << >> /\ drops = 0
    /\ libCfg \in Stored
    /\ asked = NoConfig /\ withheld = FALSE /\ overtaken = FALSE

-----------------------------------------------------------------------------
(* The host.                                                                *)

\* A synchronous call of the API: the application waits for the response.
AppCall(op, cfg) ==
    /\ app = "idle" /\ Act
    /\ (op = "set_config") = (cfg # NoConfig)
    /\ app' = "wait" /\ calls' = calls + 1
    /\ hostStarted' = (hostStarted /\ op # "stop")
    /\ toSlave' = Append(toSlave, Message("req", op, cfg, restarts))
    /\ UNCHANGED <<restarts, netifStarted, netifConnected, view, toHost, reqQ, pserial,
                   eventTask, pending, station, library, history>>

\* A reset or a wake-up from deep sleep: the host's RAM is as after a boot.
HostRestart ==
    /\ Act
    /\ restarts' = restarts + 1
    /\ app' = "idle" /\ hostStarted' = FALSE
    /\ netifStarted' = FALSE /\ netifConnected' = FALSE /\ view' = "stopped"
    /\ toHost' = << >>
    /\ UNCHANGED <<calls, toSlave, reqQ, pserial, eventTask, pending, station, library, history>>

HostTake(kind, what) ==
    /\ toHost # << >> /\ Head(toHost).kind = kind /\ Head(toHost).what = what
    /\ toHost' = Tail(toHost)
    /\ UNCHANGED <<calls, restarts, reqQ, pserial, eventTask, pending, station, library, history>>

HostResponse ==
    \E op \in Ops :
        /\ HostTake("rsp", op)
        /\ IF Head(toHost).from = restarts
           THEN app' = "idle" /\ hostStarted' = (hostStarted \/ op = "start")
           ELSE UNCHANGED <<app, hostStarted>>
        /\ UNCHANGED <<netifStarted, netifConnected, view, toSlave>>

\* The netif is up from the post of the connection on.
OnStart ==
    /\ HostTake("evt", "STA_START")
    /\ IF ~netifStarted /\ view # "connected"
       THEN /\ view' = "started"
            /\ toSlave' = Append(toSlave, ConnectRequest(NoCaller))
            /\ netifStarted' = TRUE
       ELSE UNCHANGED <<view, toSlave, netifStarted>>
    /\ UNCHANGED <<app, hostStarted, netifConnected>>

OnStop ==
    /\ HostTake("evt", "STA_STOP")
    /\ netifStarted' = FALSE /\ netifConnected' = FALSE /\ view' = "stopped"
    /\ UNCHANGED <<app, hostStarted, toSlave>>

\* Posts stop, start and connected, one after the other.
OnConnected ==
    /\ HostTake("evt", "STA_CONNECTED")
    /\ IF ~netifConnected /\ netifStarted
       THEN view' = "connected" /\ netifConnected' = TRUE
       ELSE UNCHANGED <<view, netifConnected>>
    /\ UNCHANGED <<app, hostStarted, netifStarted, toSlave>>

OnDisconnected ==
    /\ HostTake("evt", "STA_DISCONNECTED")
    /\ view' = "disconnected" /\ netifConnected' = FALSE
    /\ UNCHANGED <<app, hostStarted, netifStarted, toSlave>>

HostReceive == HostResponse \/ OnStart \/ OnStop \/ OnConnected \/ OnDisconnected

\* recv_task hands a request to pserial_task.  The answer to an event comes
\* long after the two statements the event task executes next.
RecvRequest ==
    /\ toSlave # << >> /\ Len(reqQ) < ReqQSize
    /\ evPc # "open"
    /\ reqQ' = Append(reqQ, Head(toSlave)) /\ toSlave' = Tail(toSlave)
    /\ UNCHANGED <<hostVars, toHost, pserial, eventTask, pending, station, library, history>>

-----------------------------------------------------------------------------
(* The Wi-Fi library.  A call gives its result together with its effect.    *)

Linking == lib \in {"connecting", "connected"}
CanConnect == lib = "idle" /\ libCfg # NoConfig   \* else ESP_ERR_WIFI_...
CanConfigure == lib # "connecting"

EspStart ==
    /\ lib' = IF lib = "stopped" THEN "idle" ELSE lib
    /\ evQ' = IF lib = "stopped" THEN Append(evQ, "STA_START") ELSE evQ
    /\ UNCHANGED <<libCfg, drops>>

EspStop ==
    /\ lib' = "stopped"
    /\ evQ' = evQ \o (IF Linking THEN <<"STA_DISCONNECTED">> ELSE << >>)
                  \o (IF lib # "stopped" THEN <<"STA_STOP">> ELSE << >>)
    /\ UNCHANGED <<libCfg, drops>>

EspConnect ==
    /\ lib' = IF CanConnect THEN "connecting" ELSE lib
    /\ UNCHANGED <<libCfg, evQ, drops>>

EspDisconnect ==
    /\ lib' = IF Linking THEN "idle" ELSE lib
    /\ evQ' = IF Linking THEN Append(evQ, "STA_DISCONNECTED") ELSE evQ
    /\ UNCHANGED <<libCfg, drops>>

EspSetConfig(cfg) ==
    /\ libCfg' = IF CanConfigure THEN cfg ELSE libCfg
    /\ UNCHANGED <<lib, evQ, drops>>

LinkUp ==
    /\ lib = "connecting"
    /\ lib' = "connected" /\ evQ' = Append(evQ, "STA_CONNECTED")
    /\ UNCHANGED <<libCfg, drops, hostVars, toSlave, toHost, reqQ, pserial, eventTask, pending,
                   station, history>>

\* The access point refuses the station or drops it.
LinkDown ==
    /\ Linking /\ Act
    /\ lib' = "idle" /\ evQ' = Append(evQ, "STA_DISCONNECTED") /\ drops' = drops + 1
    /\ UNCHANGED <<libCfg, hostVars, toSlave, toHost, reqQ, pserial, eventTask, pending,
                   station, history>>

-----------------------------------------------------------------------------
(* pserial_task.  rpcPc names the call of the library, or the put to reqQ,  *)
(* that the handler has reached.                                            *)

QueueHasRoom == Len(reqQ) < ReqQSize
PutEvent(e) == QueueHasRoom /\ reqQ' = Append(reqQ, Event(e))

Respond == toHost' = Append(toHost, Response(rpc)) /\ rpcPc' = "idle" /\ rpc' = NoMessage
Continue(pc) == rpcPc' = pc /\ UNCHANGED <<rpc, toHost>>

PserialEvent ==
    /\ rpcPc = "idle" /\ reqQ # << >> /\ Head(reqQ).kind = "evt"
    /\ toHost' = Append(toHost, Head(reqQ)) /\ reqQ' = Tail(reqQ)
    /\ UNCHANGED <<hostVars, toSlave, pserial, eventTask, pending, station, library, history>>

PserialRequest_AnyMessage ==
    /\ rpcPc = "idle" /\ reqQ # << >>
    /\ rpc' = Head(reqQ) /\ rpcPc' = Head(reqQ).what /\ reqQ' = Tail(reqQ)
    /\ UNCHANGED <<hostVars, toSlave, toHost, eventTask, pending, station, library, history>>

PserialRequest ==
    /\ rpcPc = "idle" /\ reqQ # << >> /\ Head(reqQ).kind = "req"
    /\ rpc' = Head(reqQ) /\ rpcPc' = Head(reqQ).what /\ reqQ' = Tail(reqQ)
    /\ UNCHANGED <<hostVars, toSlave, toHost, eventTask, pending, station, library, history>>

\* req_wifi_start: the library is silent when it is started already, so the
\* event is sent again in any case.
StartLib ==
    /\ rpcPc = "start"
    /\ EspStart /\ Continue("startEvent")
    /\ UNCHANGED <<hostVars, toSlave, reqQ, eventTask, pending, station, history>>

StartEvent ==
    /\ rpcPc = "startEvent"
    /\ PutEvent("STA_START") /\ Respond
    /\ UNCHANGED <<hostVars, toSlave, eventTask, pending, station, library, history>>

StopLib ==
    /\ rpcPc = "stop"
    /\ EspStop /\ Respond
    /\ UNCHANGED <<hostVars, toSlave, reqQ, eventTask, pending, station, history>>

DisconnectLib ==
    /\ rpcPc = "disconnect"
    /\ EspDisconnect /\ Respond
    /\ UNCHANGED <<hostVars, toSlave, reqQ, eventTask, pending, station, history>>

\* req_wifi_connect after esp_wifi_get_config.
ConnectCheck ==
    /\ rpcPc = "connect"
    /\ IF libCfg = NoConfig THEN Respond
       ELSE IF newConfigRecvd \/ ~stationConnected THEN Continue("connectLib")
       ELSE Continue("connectAck")
    /\ withheld' = (stationConnected /\ (newConfigRecvd \/ libCfg = NoConfig))
    /\ UNCHANGED <<hostVars, toSlave, reqQ, eventTask, pending, stationConnected,
                   stationConnecting, rxcb, library, history>>

ConnectLib ==
    /\ rpcPc = "connectLib"
    /\ EspConnect /\ Respond
    /\ stationConnecting' = (stationConnecting /\ CanConnect)
    /\ UNCHANGED <<hostVars, toSlave, reqQ, eventTask, pending, link, rxcb, history>>

ConnectAck_Silent ==
    /\ rpcPc = "connectAck"
    /\ Respond
    /\ UNCHANGED <<hostVars, toSlave, reqQ, eventTask, pending, station, library, history>>

\* lkg_sta_connected_event once more, for a host that has forgotten the link.
ConnectAck ==
    /\ rpcPc = "connectAck"
    /\ PutEvent("STA_CONNECTED") /\ Respond
    /\ overtaken' = ~stationConnected
    /\ UNCHANGED <<hostVars, toSlave, eventTask, pending, station, library, asked>>

\* esp_hosted_set_sta_config compares the new configuration with what the library
\* had when it began.
ConfigCheck ==
    /\ rpcPc = "set_config"
    /\ Continue(IF libCfg = NoConfig THEN "provision"
                ELSE IF rpc.cfg = libCfg THEN "same" ELSE "flag")
    /\ UNCHANGED <<hostVars, toSlave, reqQ, eventTask, pending, station, library, history>>

\* A first configuration goes to the library at once.
ConfigProvision ==
    /\ rpcPc = "provision"
    /\ EspSetConfig(rpc.cfg)
    /\ Continue(IF CanConfigure THEN "provisioned" ELSE "flag")
    /\ UNCHANGED <<hostVars, toSlave, reqQ, eventTask, pending, station, history>>

\* The flag is set before the configuration it speaks of is there; for a first
\* configuration it is set twice.
ConfigFlag ==
    /\ rpcPc \in {"provisioned", "flag"}
    /\ newConfigRecvd' = TRUE /\ stationConnecting' = FALSE
    /\ Continue(IF rpcPc = "provisioned" THEN "flag" ELSE "copy")
    /\ UNCHANGED <<hostVars, toSlave, reqQ, eventTask, newConfig, link, rxcb, library, history>>

ConfigCopy ==
    /\ rpcPc = "copy"
    /\ newConfig' = rpc.cfg /\ asked' = rpc.cfg
    /\ Respond
    /\ UNCHANGED <<hostVars, toSlave, reqQ, eventTask, newConfigRecvd, station, library,
                   overtaken>>

ConfigSame ==
    /\ rpcPc = "same"
    /\ newConfigRecvd' = FALSE /\ asked' = rpc.cfg
    /\ Respond
    /\ UNCHANGED <<hostVars, toSlave, reqQ, eventTask, newConfig, station, library, overtaken>>

Pserial ==
    \/ PserialEvent \/ PserialRequest
    \/ StartLib \/ StartEvent \/ StopLib \/ DisconnectLib
    \/ ConnectCheck \/ ConnectLib \/ ConnectAck
    \/ ConfigCheck \/ ConfigProvision \/ ConfigFlag \/ ConfigCopy \/ ConfigSame

-----------------------------------------------------------------------------
(* The event task: event_handler_wifi.                                      *)

\* Between two statements of a handler pserial_task keeps the processor.
PserialRuns ==
    \/ rpcPc \in {"provisioned", "flag", "copy", "same"}
    \/ rpcPc = "connectAck" /\ QueueHasRoom
EventTaskRuns == TwoCores \/ ~PserialRuns

Goto(pc) == evPc' = pc /\ ev' = IF pc = "idle" THEN NoEvent ELSE ev

EventStep(pc) ==
    /\ evPc = pc /\ EventTaskRuns
    /\ UNCHANGED <<hostVars, toSlave, toHost, pserial, asked>>
    /\ overtaken' = (overtaken /\ ~(pc = "send" /\ ev \in {"STA_CONNECTED", "STA_DISCONNECTED"}))

EventTake(e, next) ==
    /\ EventStep("idle")
    /\ evPc' = next /\ ev' = IF next = "idle" THEN NoEvent ELSE e
    /\ evQ # << >> /\ Head(evQ) = e
    /\ evQ' = Tail(evQ)
    /\ UNCHANGED <<reqQ, pending, rxcb, lib, libCfg, drops>>

TakeConnected ==
    /\ EventTake("STA_CONNECTED", IF newConfigRecvd THEN "apply" ELSE "send")
    /\ stationConnecting' = (stationConnecting /\ newConfigRecvd)
    /\ UNCHANGED link

TakeDisconnected ==
    /\ EventTake("STA_DISCONNECTED", "lost")
    /\ stationConnected' = FALSE /\ withheld' = FALSE
    /\ UNCHANGED stationConnecting

LostPending ==
    /\ EventStep("lost")
    /\ Goto(IF newConfigRecvd THEN "apply" ELSE "close")
    /\ UNCHANGED <<reqQ, pending, station, library>>

TakeStart ==
    /\ EventTake("STA_START", IF stationConnecting THEN "idle" ELSE "connect")
    /\ stationConnecting' = TRUE
    /\ UNCHANGED link

TakeStop ==
    /\ EventTake("STA_STOP", "send")
    /\ stationConnecting' = FALSE
    /\ UNCHANGED link

StartConnect ==
    /\ EventStep("connect")
    /\ EspConnect
    /\ Goto("send")
    /\ UNCHANGED <<reqQ, pending, station>>

AfterPending_Silent == "drop"
\* Where the handler goes on after the pending configuration.
AfterPending == IF ev = "STA_CONNECTED" THEN "drop" ELSE "close"

ApplyPending ==
    /\ EventStep("apply")
    /\ EspSetConfig(newConfig)
    /\ Goto(IF CanConfigure THEN "clear" ELSE AfterPending)
    /\ UNCHANGED <<reqQ, pending, station>>

ClearPending ==
    /\ EventStep("clear")
    /\ newConfigRecvd' = FALSE
    /\ Goto(AfterPending)
    /\ UNCHANGED <<reqQ, newConfig, station, library>>

DropLink ==
    /\ EventStep("drop")
    /\ EspDisconnect
    /\ Goto("idle")
    /\ UNCHANGED <<reqQ, pending, station>>

CloseData ==
    /\ EventStep("close")
    /\ rxcb' = FALSE /\ stationConnecting' = FALSE
    /\ Goto("send")
    /\ UNCHANGED <<reqQ, pending, link, library>>

\* send_event_data_to_host waits for room in reqQ.
SendEvent ==
    /\ EventStep("send")
    /\ PutEvent(ev)
    /\ Goto(IF ev = "STA_CONNECTED" THEN "open" ELSE "idle")
    /\ UNCHANGED <<pending, station, library>>

OpenData ==
    /\ EventStep("open")
    /\ rxcb' = TRUE /\ stationConnected' = TRUE
    /\ Goto("idle")
    /\ UNCHANGED <<reqQ, pending, withheld, stationConnecting, library>>

EventTask ==
    \/ TakeConnected \/ TakeDisconnected \/ TakeStart \/ TakeStop
    \/ LostPending \/ StartConnect \/ ApplyPending \/ ClearPending \/ DropLink
    \/ CloseData \/ SendEvent \/ OpenData

-----------------------------------------------------------------------------

AppCalls == \E op \in Ops, cfg \in Configs \cup {NoConfig} : AppCall(op, cfg)

Next ==
    \/ AppCalls \/ HostRestart \/ HostReceive \/ RecvRequest
    \/ LinkUp \/ LinkDown
    \/ Pserial \/ EventTask

Spec == Init /\ [][Next]_vars

-----------------------------------------------------------------------------

Messages == [kind : {"req", "rsp", "evt"}, what : Ops \cup Events,
             cfg : Configs \cup {NoConfig}, from : Int]

TypeOK ==
    /\ app \in {"idle", "wait"} /\ {calls, restarts, drops} \subseteq 0..MaxActs
    /\ {hostStarted, netifStarted, netifConnected} \subseteq BOOLEAN
    /\ view \in {"stopped", "started", "connected", "disconnected"}
    /\ {toSlave, toHost, reqQ} \subseteq Seq(Messages) /\ Len(reqQ) <= ReqQSize
    /\ rpc \in Messages
    /\ rpcPc \in Ops \cup {"idle", "startEvent", "connectLib", "connectAck", "provision",
                        "provisioned", "flag", "copy", "same"}
    /\ evPc \in {"idle", "lost", "connect", "apply", "clear", "drop", "close", "send", "open"}
    /\ ev \in Events
    /\ {newConfigRecvd, stationConnected, stationConnecting, rxcb, withheld,
        overtaken} \subseteq BOOLEAN
    /\ {newConfig, libCfg, asked} \subseteq Configs \cup {NoConfig}
    /\ lib \in {"stopped", "idle", "connecting", "connected"}
    /\ evQ \in Seq(Events)

Quiet ==
    /\ toSlave = << >> /\ toHost = << >> /\ reqQ = << >> /\ evQ = << >>
    /\ rpcPc = "idle" /\ evPc = "idle"

\* Once all that was sent is handled, every call has returned, the host's
\* application knows of the link there is, and the co-processor passes packets
\* exactly when there is one: also after a restart of the host, a stop and start
\* whose events overtake each other, or a link that comes or goes while a connect
\* is answered.  A host that has not started the station is not told, nor one
\* that asked for the link while a changed configuration waited for its end, not
\* even when the configuration has been changed back since, nor one whose connect
\* found no configuration and failed (req_wifi_connect).
SettledAgree ==
    Quiet => /\ app = "idle"
             /\ (lib = "connected") = stationConnected
             /\ rxcb = stationConnected
             /\ hostStarted /\ stationConnected /\ ~withheld => view = "connected"

OnItsWay(e) ==
    \/ evPc # "idle" /\ ev = e
    \/ \E i \in DOMAIN reqQ : reqQ[i] = Event(e)
    \/ \E i \in DOMAIN toHost : toHost[i] = Event(e)

\* The host never takes a link for up whose end the co-processor has seen, unless
\* an event of the link is still on its way: the connected event that answers a
\* connect must not pass the disconnected event (req_wifi_connect tests
\* station_connected, event_handler_wifi clears it, and both then send).  On two
\* cores it can pass; what it does to the host then lasts no longer than until the
\* next event of the link.
HostToldOfLoss ==
    view = "connected" =>
        \/ stationConnected \/ overtaken
        \/ OnItsWay("STA_CONNECTED") \/ OnItsWay("STA_DISCONNECTED")

\* A configuration whose request was answered with success is in the library,
\* or it waits in new_wifi_config to be applied: event_handler_wifi says of the
\* flag "Still not applied new config, so apply it".
ConfigKept ==
    asked # NoConfig => libCfg = asked \/ (newConfigRecvd /\ newConfig = asked)
=============================================================================
