------------------------------ MODULE UsbDevice ------------------------------
(* The standard requests of the USB device and what they change: address,
   configuration, data endpoints, their halt and data toggles.  How a request
   travels is the matter of UsbControl: here the host waits for the answer, and
   a request only starts when the thread is done with the one before.  A bus
   reset may come between any two steps.                                      *)
EXTENDS Naturals, Sequences

CONSTANTS Endpoints,       \* <<direction, number>>, in the order of ConfigureEndpoints
          Configurations,  \* by bConfigurationValue: endpoints, wakeup (attribute)
          Values,          \* the configuration values that the host asks for
          Strings,         \* number of string descriptors
          EndpointCount     \* USB_IN_ENDPOINTS, USB_OUT_ENDPOINTS

VARIABLES dev,   \* members of Device and registers of the core
          pc,    \* the step of the thread
          i,     \* HandleControlSetConfiguration: the endpoint, an index
          live,  \* whether ctrl.state is still that of the request under way
          host   \* what the host asked for, was answered, and believes; history: the
                 \* endpoints whose toggle is apart from what the host believes

vars == <<dev, pc, i, live, host>>

E == {Endpoints[k] : k \in 1..Len(Endpoints)}
None == 0

\* Numbers that the device has no endpoint for.
Strangers == {"in", "out"} \X {0, EndpointCount, EndpointCount + 1}

\* Requests name an endpoint, or what they set or ask for.
Requests == [op : {"setAddress"}, arg : 0..1] \cup [op : {"setConfiguration"}, arg : Values]
            \cup [op : {"setHalt", "clearHalt"}, arg : E \cup Strangers]
            \cup [op : {"setWakeup", "clearWakeup", "getConfiguration", "getStatus"}, arg : {0}]
            \cup [op : {"getString"}, arg : 0..Strings]

Idle == [active |-> FALSE, stall |-> FALSE, toggle |-> 0]

Init == /\ dev = [state |-> "Default", config |-> None, wakeup |-> FALSE, address |-> 0, ep |-> [e \in E |-> Idle]]
        /\ pc = "wait" /\ i = 0 /\ live = FALSE
        /\ host = [stage |-> "idle", req |-> [op |-> "setAddress", arg |-> 1], answer |-> "none", data |-> 0,
                   address |-> 0, config |-> None, halted |-> {}, toggle |-> [e \in E |-> 0], apart |-> {}]

----------------------------------------------------------------------------
(* hw/USB.h: the control register of an endpoint                              *)

\* Mutant: the halt is cleared, and the data toggle is left.
UnstallKeep(x) == [x EXCEPT !.stall = FALSE]
Unstall(x) == [x EXCEPT !.stall = FALSE, !.toggle = 0]

Stall(x, stall) == IF stall = x.stall THEN x ELSE IF stall THEN [x EXCEPT !.stall = TRUE] ELSE Unstall(x)

Deactivate(x) == [x EXCEPT !.active = FALSE, !.stall = FALSE]

\* An OUT endpoint keeps its toggle: SD0PID is written for IN only.
Activate(x, dir) == [active |-> TRUE, stall |-> FALSE, toggle |-> IF dir = "in" THEN 0 ELSE x.toggle]

\* Mutant: an endpoint that the configuration does not have is left as it is.
ConfigureOnly(x, dir, has) == IF has THEN Activate(Deactivate(x), dir) ELSE x
\* Device{In,Out}Endpoint::Configure.
Configure(x, dir, has) ==
    LET off == IF x.active THEN Deactivate(x) ELSE x
    IN  IF has THEN Activate(off, dir) ELSE off

----------------------------------------------------------------------------
(* The host                                                                   *)
Legal(r) ==
    CASE r.op = "setAddress" -> host.config = None
      [] r.op = "setConfiguration" -> host.address # 0
      [] r.op \in {"setHalt", "clearHalt"} ->
           host.config # None /\ r.arg \in Configurations[host.config].endpoints \cup (Strangers \ E)
      [] OTHER -> TRUE

\* A request, if the device is at the address that the host uses.
HostRequest(r) ==
    /\ host.stage = "idle" /\ Legal(r) /\ pc = "wait" /\ dev.address = host.address
    /\ host' = [host EXCEPT !.stage = "pending", !.req = r, !.answer = "none"]
    /\ pc' = r.op /\ live' = TRUE
    /\ UNCHANGED <<dev, i>>

\* Among `them`, the endpoints whose toggle the host starts again at 0 and the
\* device, which `restarts` some, does not.
LeftApart(h, them, restarts) == {e \in them \ restarts : e \in h.apart \/ h.toggle[e] = 1}

\* What the host takes for granted once its request succeeded.
Believed(h, r) ==
    CASE r.op = "setAddress" -> [h EXCEPT !.address = r.arg]
      [] r.op = "setConfiguration" ->
           [h EXCEPT !.config = r.arg, !.halted = {}, !.toggle = [e \in E |-> 0],
                     !.apart = LeftApart(h, E, {e \in E : e[1] = "in"})]
      [] r.op = "setHalt" /\ r.arg \in E -> [h EXCEPT !.halted = @ \cup {r.arg}]
      [] r.op = "clearHalt" /\ r.arg \in E ->
           [h EXCEPT !.halted = @ \ {r.arg}, !.toggle[r.arg] = 0,
                     !.apart = (@ \ {r.arg}) \cup LeftApart(h, {r.arg}, h.halted)]
      [] OTHER -> h

\* A packet of a data endpoint, either way.  One with the wrong toggle is taken
\* for the repetition of the packet before: it is acknowledged and thrown away,
\* and only the side that sent it goes on to the next toggle.
HostTransfer(e) ==
    /\ host.stage = "idle" /\ host.config # None /\ dev.address = host.address
    /\ e \in Configurations[host.config].endpoints \ host.halted
    /\ dev.ep[e].active /\ ~dev.ep[e].stall
    /\ LET agree == dev.ep[e].toggle = host.toggle[e] IN
       /\ dev' = IF agree \/ e[1] = "in" THEN [dev EXCEPT !.ep[e].toggle = 1 - @] ELSE dev
       /\ host' = [host EXCEPT !.toggle[e] = IF agree \/ e[1] = "out" THEN 1 - @ ELSE @, !.apart = @ \ {e}]
    /\ UNCHANGED <<pc, i, live>>

\* IRQHandler on USBRST.  config and remoteWakeupEnabled stay as they are.
BusReset ==
    /\ dev' = [dev EXCEPT !.state = "Default", !.address = 0, !.ep = [e \in E |-> Idle]]
    /\ live' = FALSE
    /\ host' = [host EXCEPT !.stage = "idle", !.answer = "none", !.address = 0, !.config = None, !.halted = {},
                            !.toggle = [e \in E |-> 0], !.apart = {}]
    /\ UNCHANGED <<pc, i>>

----------------------------------------------------------------------------
(* HandleControl                                                              *)

\* ControlSuccess, or ControlStall if the handler had no result; neither of them
\* is for a host that has reset the bus.
Finish(answer, data) ==
    /\ pc' = "wait" /\ live' = FALSE
    /\ host' = IF ~live THEN host
               ELSE LET h == [host EXCEPT !.stage = "idle", !.answer = answer, !.data = data]
                    IN  IF answer = "success" THEN Believed(h, host.req) ELSE h

\* Endpoint 0 has no halt; EndpointCount, one past the last register, is let
\* through to an address that is reserved.
NoFeature(number) == number = 0 \/ number > EndpointCount

HandleControlFeatureEndpoint ==
    LET e == host.req.arg IN
    /\ pc \in {"setHalt", "clearHalt"}
    /\ IF NoFeature(e[2]) THEN Finish("stall", 0) /\ UNCHANGED dev
       ELSE /\ dev' = IF e \in E THEN [dev EXCEPT !.ep[e] = Stall(@, pc = "setHalt")] ELSE dev
            /\ Finish("success", 0)
    /\ UNCHANGED i

HandleControlFeatureDevice ==
    /\ pc \in {"setWakeup", "clearWakeup"}
    /\ IF dev.config # None /\ dev.state = "Configured" /\ Configurations[dev.config].wakeup
       THEN dev' = [dev EXCEPT !.wakeup = (pc = "setWakeup")] /\ Finish("success", 0)
       ELSE Finish("stall", 0) /\ UNCHANGED dev
    /\ UNCHANGED i

HandleControlSetAddress ==
    \/ /\ pc = "setAddress"
       /\ dev' = [dev EXCEPT !.address = host.req.arg]
       /\ pc' = "addressed"
       /\ UNCHANGED <<i, live, host>>
    \/ /\ pc = "addressed"
       /\ dev' = [dev EXCEPT !.state = CASE @ = "Default" /\ host.req.arg # 0 -> "Addressed"
                                         [] @ = "Addressed" /\ host.req.arg = 0 -> "Default"
                                         [] OTHER -> @]
       /\ Finish("success", 0) /\ UNCHANGED i

\* Remote wake-up: whether the configuration has it, not whether it is enabled.
HandleControlGetStatus ==
    /\ pc = "getStatus"
    /\ Finish("success", IF dev.config # None /\ Configurations[dev.config].wakeup THEN 1 ELSE 0)
    /\ UNCHANGED <<dev, i>>

HandleControlGetConfiguration ==
    /\ pc = "getConfiguration"
    /\ Finish("success", dev.config) /\ UNCHANGED <<dev, i>>

\* The strings are walked one by one, up to the empty one that ends them.
HandleControlGetDescriptor ==
    /\ pc = "getString"
    /\ IF host.req.arg < Strings THEN Finish("success", host.req.arg) ELSE Finish("stall", 0)
    /\ UNCHANGED <<dev, i>>

FindConfiguration(value) == value \in DOMAIN Configurations

\* config and remoteWakeupEnabled; state follows in a step of its own.
HandleControlSetConfiguration ==
    LET value == host.req.arg IN
    /\ pc = "setConfiguration"
    /\ CASE value # 0 /\ dev.state \in {"Addressed", "Configured"} /\ FindConfiguration(value) ->
              /\ dev' = [dev EXCEPT !.config = value,
                                    !.wakeup = value \in DOMAIN Configurations /\ Configurations[value].wakeup]
              /\ pc' = "Configured" /\ UNCHANGED <<live, host>>
         [] value # 0 /\ dev.state \in {"Addressed", "Configured"} /\ ~FindConfiguration(value) ->
              Finish("stall", 0) /\ UNCHANGED dev
         [] value = 0 /\ dev.state = "Configured" ->
              dev' = [dev EXCEPT !.config = None] /\ pc' = "Addressed" /\ UNCHANGED <<live, host>>
         [] OTHER -> pc' = "endpoints" /\ UNCHANGED <<dev, live, host>>
    /\ i' = 1

SetState ==
    /\ pc \in {"Configured", "Addressed"}
    /\ dev' = [dev EXCEPT !.state = pc]
    /\ pc' = "endpoints"
    /\ UNCHANGED <<i, live, host>>

ConfigureEndpoints ==
    /\ pc = "endpoints"
    /\ IF i > Len(Endpoints) THEN pc' = "configured" /\ UNCHANGED <<dev, i>>
       ELSE LET e == Endpoints[i]
                has == dev.config \in DOMAIN Configurations /\ e \in Configurations[dev.config].endpoints
            IN  /\ dev' = [dev EXCEPT !.ep[e] = Configure(@, e[1], has)]
                /\ i' = i + 1 /\ UNCHANGED pc
    /\ UNCHANGED <<live, host>>

\* OnConfigured is back.
ConfigurationDone == pc = "configured" /\ Finish("success", 0) /\ UNCHANGED <<dev, i>>

Next == \/ \E r \in Requests : HostRequest(r)
        \/ \E e \in E : HostTransfer(e)
        \/ BusReset
        \/ HandleControlFeatureEndpoint \/ HandleControlFeatureDevice \/ HandleControlSetAddress
        \/ HandleControlGetStatus \/ HandleControlGetConfiguration \/ HandleControlGetDescriptor \/ HandleControlSetConfiguration
        \/ SetState \/ ConfigureEndpoints \/ ConfigurationDone

Spec == Init /\ [][Next]_vars

----------------------------------------------------------------------------
(* The variables have their types.                                            *)
TypeOK == /\ dev.state \in {"Default", "Addressed", "Configured"} /\ dev.address \in 0..1
          /\ dev.config \in DOMAIN Configurations \cup {None} /\ dev.wakeup \in BOOLEAN
          /\ \A e \in E : dev.ep[e].active \in BOOLEAN /\ dev.ep[e].stall \in BOOLEAN /\ dev.ep[e].toggle \in 0..1
          /\ i \in 0..Len(Endpoints) + 1 /\ live \in BOOLEAN

(* A host that was told of a configuration finds its endpoints, no others, and
   the halts that it set, whatever earlier configurations, halts and bus resets
   in the middle of a request have left, and is told of that configuration.   *)
AgreesWithHost ==
    host.config # None /\ host.stage = "idle" =>
      /\ dev.state = "Configured" /\ dev.config = host.config
      /\ {e \in E : dev.ep[e].active} = Configurations[host.config].endpoints
      /\ {e \in Configurations[host.config].endpoints : dev.ep[e].stall} = host.halted
      /\ host.req.op = "getConfiguration" /\ host.answer = "success" => host.data = host.config

(* The data toggles, whatever the host asks for: they differ, so that the next
   packet is lost, exactly for the OUT endpoints that were at DATA1 when the
   host configured the device anew and for those at DATA1 whose halt the host
   cleared without having set it, until that packet or a restart that both
   know of.                                                                   *)
TogglesAgree == host.config # None /\ host.stage = "idle" =>
    \A e \in Configurations[host.config].endpoints :
        dev.ep[e].toggle # host.toggle[e] <=> e \in host.apart

(* No packet is taken for a repeated one: the toggles always agree.  The device
   breaks this: an OUT endpoint keeps its toggle when it is configured
   (USB.h:178-185), an endpoint that is not halted when its halt is cleared
   (USB.h:92, 175).                                                           *)
NoPacketLost == host.config # None /\ host.stage = "idle" =>
    \A e \in Configurations[host.config].endpoints : dev.ep[e].toggle = host.toggle[e]

(* A request that names an endpoint out of range is refused, as the comment at
   Device.cpp:637 says.  The device breaks this: line 636 lets the number
   USB_IN_ENDPOINTS pass.                                                     *)
StrangersRefused == host.req.op \in {"setHalt", "clearHalt"} /\ host.answer = "success" => host.req.arg \in E

(* A host that has configured nothing since its bus reset is told of no
   configuration and finds no data endpoint.  The device breaks this: its reset
   (Device.cpp:179-207) leaves config, and a reset in the middle of a
   SET_CONFIGURATION does not stop it.                                        *)
ForgottenAtReset ==
    host.config = None /\ host.address # 0 /\ host.stage = "idle" =>
      /\ \A e \in E : ~dev.ep[e].active
      /\ host.req.op = "getConfiguration" /\ host.answer = "success" => host.data = None
=============================================================================
