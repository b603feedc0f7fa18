--------------------------- MODULE EndpointsProofs ---------------------------
(***************************************************************************)
(* The data endpoints of the USB device: what host and device agree on     *)
(* after any sequence of standard requests and bus resets, and what        *)
(* SendPacket and ReceivePacket report, whatever the host, the timeouts    *)
(* and the resets.                                                         *)
(***************************************************************************)
EXTENDS MCUsbEndpoints, SequenceTheorems, TLAPS

(* The requests.                                                           *)

Known == DOMAIN RequestConfigurations \cup {0}
Members(v) == RequestConfigurations[v].endpoints

Steps == {"wait", "setAddress", "addressed", "setConfiguration", "Configured", "Addressed", "endpoints",
          "configured", "setHalt", "clearHalt", "setWakeup", "clearWakeup", "getConfiguration", "getStatus",
          "getString"}

\* The steps behind the first one of SET_CONFIGURATION.
Configuring == {"Configured", "Addressed", "endpoints", "configured"}

EndpointState == [active : BOOLEAN, stall : BOOLEAN, toggle : 0..1]

DeviceState == [state : {"Default", "Addressed", "Configured"}, config : Known, wakeup : BOOLEAN,
                address : 0..1, ep : [DV!E -> EndpointState]]

HostData == Known \cup 0..1 \cup 0..Strings

HostState == [stage : {"idle", "pending"}, req : DV!Requests, answer : {"none", "success", "stall"},
              data : HostData, address : 0..1, config : Known,
              halted : SUBSET DV!E, toggle : [DV!E -> 0..1], apart : SUBSET DV!E]

DeviceTypes ==
  /\ dev \in DeviceState /\ asker \in HostState
  /\ pc \in Steps /\ i \in Nat /\ live \in BOOLEAN

\* The request under way, and what was asked of it when it began.  A step that is not live
\* works for a host that has reset the bus since.
RequestInv ==
  /\ live <=> asker.stage = "pending"
  /\ pc = "wait" => ~live
  /\ pc # "wait" /\ ~live => /\ asker.config = 0 /\ asker.address = 0 /\ asker.apart = {}
                            /\ \A e \in DV!E : asker.toggle[e] = 0
  /\ pc \in Configuring => asker.req.op = "setConfiguration"
  /\ pc = "addressed" => asker.req.op = "setAddress"
  /\ pc \notin {"wait", "addressed"} \cup Configuring => asker.req.op = pc
  /\ live /\ pc = "setConfiguration" => asker.address # 0
  /\ live /\ asker.req.op \in {"setHalt", "clearHalt"} =>
       asker.config # 0 /\ (asker.req.arg \in DV!E => asker.req.arg \in Members(asker.config))

\* The toggles of an endpoint differ where `apart` says, and there the host is at 0.
TogglesKnown(e) ==
  /\ dev.ep[e].toggle # asker.toggle[e] <=> e \in asker.apart
  /\ e \in asker.apart => asker.toggle[e] = 0

\* What holds of an endpoint of a device that the host has configured.
EndpointAgrees(e) ==
  /\ dev.ep[e].active <=> e \in Members(asker.config)
  /\ e \in Members(asker.config) => (dev.ep[e].stall <=> e \in asker.halted)
  /\ e \in Members(asker.config) => TogglesKnown(e)

BeliefInv ==
  /\ asker.address # 0 => dev.state # "Default"
  /\ asker.config # 0 /\ pc \notin Configuring =>
       /\ dev.state = "Configured" /\ dev.config = asker.config
       /\ asker.halted \subseteq Members(asker.config)
       /\ \A e \in DV!E : EndpointAgrees(e)
  /\ \A e \in DV!E : e[1] = "out" => TogglesKnown(e)
  /\ /\ asker.config # 0 /\ asker.stage = "idle"
     /\ asker.req.op = "getConfiguration" /\ asker.answer = "success"
     => asker.data = asker.config

\* An endpoint that SET_CONFIGURATION is done with.
EndpointDone(e) ==
  /\ dev.ep[e].active <=> e \in Members(dev.config)
  /\ e \in Members(dev.config) => ~dev.ep[e].stall /\ (e[1] = "in" => dev.ep[e].toggle = 0)

\* How far SET_CONFIGURATION is.
ProgressInv ==
  /\ pc = "Configured" /\ live => dev.config = asker.req.arg
  /\ pc = "Addressed" => asker.req.arg = 0
  /\ pc \in {"Configured", "Addressed"} => i = 1
  /\ pc = "endpoints" => i > 0
  /\ pc \in {"endpoints", "configured"} /\ live /\ asker.req.arg # 0 =>
       /\ dev.state = "Configured" /\ dev.config = asker.req.arg
       /\ \A k \in 1..Len(Endpoints) : k < i => EndpointDone(Endpoints[k])
  /\ pc = "configured" => i > Len(Endpoints)

DeviceInv == DeviceTypes /\ RequestInv /\ BeliefInv /\ ProgressInv
-----------------------------------------------------------------------------
(* The endpoint registers, and the operators that change them.                 *)

LEMMA RequestFacts ==
  ASSUME NEW r \in DV!Requests
  PROVE  /\ r.op \in Steps \ ({"wait", "addressed"} \cup Configuring)
         /\ r.op = "setAddress" => r.arg \in 0..1
         /\ r.op \in {"setHalt", "clearHalt"} => r.arg \in DV!E \cup DV!Strangers
         /\ r.op = "getString" => r.arg \in 0..Strings
BY DEF DV!Requests, Steps, Configuring

LEMMA MembersAreEndpoints ==
  ASSUME NEW v \in Known, v # 0
  PROVE  Members(v) \subseteq DV!E /\ v \in DOMAIN RequestConfigurations
BY DeviceAssumption DEF Known, Members, DV!E

LEMMA EndpointNames == \A k \in 1..Len(Endpoints) : Endpoints[k] \in DV!E
BY DEF DV!E

LEMMA Directions == \A e \in DV!E : e[1] \in {"in", "out"}
<1> TAKE e \in DV!E
<1>1. PICK k \in 1..Len(Endpoints) : e = Endpoints[k]
  BY DEF DV!E
<1>2. Endpoints[k] \in {"in", "out"} \X Nat
  BY <1>1, DeviceAssumption
<1> QED
  BY <1>1, <1>2

LEMMA StallFacts ==
  ASSUME NEW x \in EndpointState, NEW b \in BOOLEAN
  PROVE  /\ DV!Stall(x, b) \in EndpointState
         /\ DV!Stall(x, b).active = x.active /\ DV!Stall(x, b).stall = b
         /\ DV!Stall(x, b).toggle = IF x.stall /\ ~b THEN 0 ELSE x.toggle
<1>1. CASE b = x.stall
  BY <1>1 DEF DV!Stall, EndpointState
<1>2. CASE b # x.stall /\ b
  <2>1. DV!Stall(x, b) = [x EXCEPT !.stall = TRUE] /\ b = TRUE
    BY <1>2 DEF DV!Stall
  <2> QED
    BY <1>2, <2>1 DEF EndpointState
<1>3. CASE b # x.stall /\ ~b
  <2>1. DV!Stall(x, b) = [x EXCEPT !.stall = FALSE, !.toggle = 0]
    BY <1>3 DEF DV!Stall, DV!Unstall
  <2>2. x.stall = TRUE /\ b = FALSE
    BY <1>3 DEF EndpointState
  <2>3. DV!Stall(x, b) \in EndpointState
    <3>1. DV!Stall(x, b) = [active |-> x.active, stall |-> FALSE, toggle |-> 0]
      BY <2>1 DEF EndpointState
    <3>2. x.active \in BOOLEAN /\ FALSE \in BOOLEAN /\ 0 \in 0..1
      BY DEF EndpointState
    <3> QED
      BY <3>1, <3>2 DEF EndpointState
  <2>4. /\ DV!Stall(x, b).active = x.active /\ DV!Stall(x, b).stall = FALSE
        /\ DV!Stall(x, b).toggle = 0
    BY <2>1 DEF EndpointState
  <2> QED
    BY <2>2, <2>3, <2>4
<1> QED
  BY <1>1, <1>2, <1>3

LEMMA ConfigureFacts ==
  ASSUME NEW x \in EndpointState, NEW dir, NEW has \in BOOLEAN
  PROVE  /\ DV!Configure(x, dir, has) \in EndpointState
         /\ DV!Configure(x, dir, has).active = has
         /\ has => ~DV!Configure(x, dir, has).stall
         /\ has /\ dir = "in" => DV!Configure(x, dir, has).toggle = 0
         /\ dir # "in" => DV!Configure(x, dir, has).toggle = x.toggle
<1> DEFINE off == IF x.active THEN DV!Deactivate(x) ELSE x
<1>1. off \in EndpointState /\ ~off.active /\ off.toggle = x.toggle
  BY DEF DV!Deactivate, EndpointState
<1>2. DV!Configure(x, dir, has) = IF has THEN DV!Activate(off, dir) ELSE off
  BY DEF DV!Configure
<1> HIDE DEF off
<1>3. CASE has
  <2> DEFINE t == IF dir = "in" THEN 0 ELSE off.toggle
  <2>1. t \in 0..1 /\ (dir = "in" => t = 0) /\ (dir # "in" => t = x.toggle)
    BY <1>1 DEF EndpointState
  <2>2. DV!Configure(x, dir, has) = [active |-> TRUE, stall |-> FALSE, toggle |-> t]
    BY <1>2, <1>3 DEF DV!Activate
  <2> HIDE DEF t
  <2>3. DV!Configure(x, dir, has) \in EndpointState
    BY <2>1, <2>2 DEF EndpointState
  <2>4. has = TRUE
    BY <1>3
  <2>5. /\ DV!Configure(x, dir, has).active = TRUE /\ DV!Configure(x, dir, has).stall = FALSE
        /\ DV!Configure(x, dir, has).toggle = t
    BY <2>2
  <2> QED
    BY <2>1, <2>3, <2>4, <2>5
<1>4. CASE ~has
  <2>1. DV!Configure(x, dir, has) = off
    BY <1>2, <1>4
  <2>2. off.active = FALSE /\ has = FALSE
    BY <1>1, <1>4 DEF EndpointState
  <2> QED
    BY <1>1, <2>1, <2>2
<1> QED
  BY <1>3, <1>4

LEMMA ChangeEndpoint ==
  ASSUME dev \in DeviceState, NEW e \in DV!E, NEW y \in EndpointState, dev' = [dev EXCEPT !.ep[e] = y]
  PROVE  /\ dev' \in DeviceState
         /\ dev'.state = dev.state /\ dev'.config = dev.config
         /\ dev'.ep[e] = y
         /\ \A f \in DV!E : f # e => dev'.ep[f] = dev.ep[f]
<1>1. dev' = [dev EXCEPT !.ep = [dev.ep EXCEPT ![e] = y]]
  BY DEF DeviceState
<1> DEFINE g == [dev.ep EXCEPT ![e] = y]
<1>2. g \in [DV!E -> EndpointState] /\ g[e] = y /\ \A f \in DV!E : f # e => g[f] = dev.ep[f]
  BY DEF DeviceState
<1> HIDE DEF g
<1>3. dev' = [dev EXCEPT !.ep = g]
  BY <1>1 DEF g
<1> QED
  BY <1>2, <1>3 DEF DeviceState

\* What the host believes behind an answer: nothing new, if it was for a request before a
\* bus reset.
LEMMA FinishFacts ==
  ASSUME DeviceTypes, NEW a \in {"success", "stall"}, NEW d \in HostData, DV!Finish(a, d),
         live /\ a = "success" /\ asker.req.op = "setConfiguration" => asker.req.arg \in Known
  PROVE  /\ pc' = "wait" /\ live' = FALSE /\ asker' \in HostState
         /\ ~live => asker' = asker
         /\ live => /\ asker'.stage = "idle" /\ asker'.req = asker.req
                    /\ asker'.answer = a /\ asker'.data = d
         /\ live /\ ~(a = "success" /\ asker.req.op = "setAddress") => asker'.address = asker.address
         /\ live /\ a = "success" /\ asker.req.op = "setAddress" => asker'.address = asker.req.arg
         /\ live /\ ~(a = "success" /\ asker.req.op = "setConfiguration") => asker'.config = asker.config
         /\ live /\ a = "success" /\ asker.req.op = "setConfiguration" =>
              /\ asker'.config = asker.req.arg /\ asker'.halted = {}
              /\ asker'.toggle = [e \in DV!E |-> 0]
              /\ asker'.apart = {e \in DV!E : e[1] # "in" /\ (e \in asker.apart \/ asker.toggle[e] = 1)}
         /\ live /\ ~(a = "success" /\ (asker.req.op = "setConfiguration"
                                     \/ (asker.req.op \in {"setHalt", "clearHalt"} /\ asker.req.arg \in DV!E))) =>
              asker'.halted = asker.halted
         /\ live /\ ~(a = "success" /\ (asker.req.op = "setConfiguration"
                                     \/ (asker.req.op = "clearHalt" /\ asker.req.arg \in DV!E))) =>
              asker'.toggle = asker.toggle /\ asker'.apart = asker.apart
         /\ live /\ a = "success" /\ asker.req.op = "setHalt" /\ asker.req.arg \in DV!E =>
              asker'.halted = asker.halted \cup {asker.req.arg}
         /\ live /\ a = "success" /\ asker.req.op = "clearHalt" /\ asker.req.arg \in DV!E =>
              /\ asker'.halted = asker.halted \ {asker.req.arg}
              /\ asker'.toggle = [asker.toggle EXCEPT ![asker.req.arg] = 0]
              /\ \A e \in DV!E : e \in asker'.apart <=>
                   IF e # asker.req.arg THEN e \in asker.apart
                   ELSE e \notin asker.halted /\ (e \in asker.apart \/ asker.toggle[e] = 1)
<1> DEFINE h == [asker EXCEPT !.stage = "idle", !.answer = a, !.data = d]
<1>1. /\ pc' = "wait" /\ live' = FALSE
      /\ asker' = IF ~live THEN asker ELSE IF a = "success" THEN DV!Believed(h, asker.req) ELSE h
  BY DEF DV!Finish
<1>2. /\ h \in HostState /\ h.stage = "idle" /\ h.answer = a /\ h.data = d /\ h.req = asker.req
      /\ h.address = asker.address /\ h.config = asker.config /\ h.halted = asker.halted
      /\ h.toggle = asker.toggle /\ h.apart = asker.apart
  BY DEF DeviceTypes, HostState
<1> HIDE DEF h
<1>3. asker.req \in DV!Requests
  BY DEF DeviceTypes, HostState
<1>4. CASE ~live \/ a # "success"
  BY <1>1, <1>2, <1>4 DEF DeviceTypes
<1>5. CASE live /\ a = "success" /\ asker.req.op = "setAddress"
  <2>1. asker' = [h EXCEPT !.address = asker.req.arg]
    BY <1>1, <1>5 DEF DV!Believed
  <2>2. asker.req.arg \in 0..1
    BY <1>3, <1>5, RequestFacts
  <2>3. asker' \in HostState /\ asker'.address = asker.req.arg
    BY <1>2, <2>1, <2>2 DEF HostState
  <2>4. /\ asker'.stage = h.stage /\ asker'.answer = h.answer /\ asker'.data = h.data /\ asker'.req = h.req
        /\ asker'.config = h.config /\ asker'.halted = h.halted /\ asker'.toggle = h.toggle
        /\ asker'.apart = h.apart
    BY <1>2, <2>1 DEF HostState
  <2> QED
    BY <1>1, <1>2, <1>5, <2>3, <2>4
<1>6. CASE live /\ a = "success" /\ asker.req.op = "setConfiguration"
  <2> DEFINE t == [e \in DV!E |-> 0]
             s == {e \in DV!E : e[1] # "in" /\ (e \in asker.apart \/ asker.toggle[e] = 1)}
  <2>1. asker' = [h EXCEPT !.config = asker.req.arg, !.halted = {}, !.toggle = t, !.apart = s]
    <3>1. DV!LeftApart(h, DV!E, {e \in DV!E : e[1] = "in"}) = s
      BY <1>2 DEF DV!LeftApart
    <3>2. asker' = [h EXCEPT !.config = asker.req.arg, !.halted = {}, !.toggle = t,
                             !.apart = DV!LeftApart(h, DV!E, {e \in DV!E : e[1] = "in"})]
      BY <1>1, <1>6 DEF DV!Believed
    <3> QED
      BY <3>1, <3>2
  <2>2. t \in [DV!E -> 0..1] /\ s \in SUBSET DV!E
    OBVIOUS
  <2>3. asker.req.arg \in Known
    BY <1>6
  <2> HIDE DEF t, s
  <2>4. /\ asker' \in HostState /\ asker'.config = asker.req.arg /\ asker'.halted = {} /\ asker'.toggle = t
        /\ asker'.apart = s
    BY <1>2, <2>1, <2>2, <2>3 DEF HostState
  <2>5. /\ asker'.stage = h.stage /\ asker'.answer = h.answer /\ asker'.data = h.data /\ asker'.req = h.req
        /\ asker'.address = h.address
    BY <1>2, <2>1 DEF HostState
  <2> QED
    BY <1>1, <1>2, <1>6, <2>4, <2>5 DEF t, s
<1>7. CASE live /\ a = "success" /\ asker.req.op = "setHalt" /\ asker.req.arg \in DV!E
  <2>1. asker' = [h EXCEPT !.halted = h.halted \cup {asker.req.arg}]
    BY <1>1, <1>7 DEF DV!Believed
  <2>2. h.halted \cup {asker.req.arg} \in SUBSET DV!E
    BY <1>2, <1>7 DEF HostState
  <2>3. asker' \in HostState /\ asker'.halted = h.halted \cup {asker.req.arg}
    BY <1>2, <2>1, <2>2 DEF HostState
  <2>4. /\ asker'.stage = h.stage /\ asker'.answer = h.answer /\ asker'.data = h.data /\ asker'.req = h.req
        /\ asker'.address = h.address /\ asker'.config = h.config /\ asker'.toggle = h.toggle
        /\ asker'.apart = h.apart
    BY <1>2, <2>1 DEF HostState
  <2> QED
    BY <1>1, <1>2, <1>7, <2>3, <2>4
<1>8. CASE live /\ a = "success" /\ asker.req.op = "clearHalt" /\ asker.req.arg \in DV!E
  <2> DEFINE x == asker.req.arg
             t == [h.toggle EXCEPT ![x] = 0]
             s == h.halted \ {x}
             p == (h.apart \ {x}) \cup DV!LeftApart(h, {x}, h.halted)
  <2>1. asker' = [h EXCEPT !.halted = s, !.toggle = t, !.apart = p]
    BY <1>1, <1>2, <1>8 DEF DV!Believed, HostState
  <2>2. s \in SUBSET DV!E /\ t \in [DV!E -> 0..1]
    BY <1>2, <1>8 DEF HostState
  <2>3. p \in SUBSET DV!E
    BY <1>2, <1>8 DEF HostState, DV!LeftApart
  <2>4. \A e \in DV!E : e \in p <=> IF e # x THEN e \in asker.apart
                                  ELSE e \notin asker.halted /\ (e \in asker.apart \/ asker.toggle[e] = 1)
    BY <1>2 DEF DV!LeftApart
  <2> HIDE DEF t, s, p
  <2>5. asker' \in HostState /\ asker'.halted = s /\ asker'.toggle = t /\ asker'.apart = p
    BY <1>2, <2>1, <2>2, <2>3 DEF HostState
  <2>6. /\ asker'.stage = h.stage /\ asker'.answer = h.answer /\ asker'.data = h.data /\ asker'.req = h.req
        /\ asker'.address = h.address /\ asker'.config = h.config
    BY <1>2, <2>1 DEF HostState
  <2> QED
    BY <1>1, <1>2, <1>8, <2>4, <2>5, <2>6 DEF t, s
<1>9. CASE /\ live /\ a = "success"
           /\ asker.req.op \notin {"setAddress", "setConfiguration"}
           /\ asker.req.op \in {"setHalt", "clearHalt"} => asker.req.arg \notin DV!E
  <2>1. asker' = h
    BY <1>1, <1>9 DEF DV!Believed
  <2> QED
    BY <1>1, <1>2, <1>9, <2>1
<1> QED
  BY <1>4, <1>5, <1>6, <1>7, <1>8, <1>9
-----------------------------------------------------------------------------
(* The host and the bus.                                                       *)

LEMMA DeviceInit == DV!Init => DeviceInv
<1> SUFFICES ASSUME DV!Init PROVE DeviceInv
  OBVIOUS
<1> DEFINE idle == [e \in DV!E |-> [active |-> FALSE, stall |-> FALSE, toggle |-> 0]]
           zero == [e \in DV!E |-> 0]
           first == [op |-> "setAddress", arg |-> 1]
<1>1. /\ dev = [state |-> "Default", config |-> 0, wakeup |-> FALSE, address |-> 0, ep |-> idle]
      /\ pc = "wait" /\ i = 0 /\ live = FALSE
      /\ asker = [stage |-> "idle", req |-> first, answer |-> "none", data |-> 0,
                  address |-> 0, config |-> 0, halted |-> {}, toggle |-> zero, apart |-> {}]
  BY DEF DV!Init, DV!None, DV!Idle
<1>2. idle \in [DV!E -> EndpointState] /\ zero \in [DV!E -> 0..1]
  BY DEF EndpointState
<1>3. first \in DV!Requests
  BY DEF DV!Requests
<1>4. \A e \in DV!E : idle[e].toggle = zero[e]
  OBVIOUS
<1> HIDE DEF idle, zero, first
<1>5. 0 \in Known /\ 0 \in HostData /\ 0 \in 0..1
  BY DEF Known, HostData
<1>6. dev \in DeviceState
  BY <1>1, <1>2, <1>5 DEF DeviceState
<1>7. asker \in HostState
  BY <1>1, <1>2, <1>3, <1>5 DEF HostState
<1>8. DeviceTypes
  BY <1>1, <1>6, <1>7 DEF DeviceTypes, Steps
<1>9. RequestInv /\ ProgressInv
  BY <1>1 DEF RequestInv, ProgressInv, Configuring
<1>10. BeliefInv
  BY <1>1, <1>4 DEF BeliefInv, TogglesKnown
<1> QED
  BY <1>8, <1>9, <1>10 DEF DeviceInv

LEMMA DeviceHostRequest ==
  ASSUME DeviceInv, NEW r \in DV!Requests, DV!HostRequest(r)
  PROVE  DeviceInv'
<1>1. /\ asker.stage = "idle" /\ DV!Legal(r) /\ pc = "wait"
      /\ asker' = [asker EXCEPT !.stage = "pending", !.req = r, !.answer = "none"]
      /\ pc' = r.op /\ live' = TRUE /\ dev' = dev /\ i' = i
  BY DEF DV!HostRequest
<1>2. /\ asker' \in HostState /\ asker'.stage = "pending" /\ asker'.req = r /\ asker'.answer = "none"
      /\ asker'.data = asker.data /\ asker'.address = asker.address /\ asker'.config = asker.config
      /\ asker'.halted = asker.halted /\ asker'.toggle = asker.toggle /\ asker'.apart = asker.apart
  BY <1>1 DEF DeviceInv, DeviceTypes, HostState
<1>3. pc' \in Steps /\ pc' \notin {"wait", "addressed"} \cup Configuring
  BY <1>1, RequestFacts
<1>4. DeviceTypes'
  BY <1>1, <1>2, <1>3 DEF DeviceInv, DeviceTypes
<1>5. /\ r.op = "setConfiguration" => asker.address # 0
      /\ r.op \in {"setHalt", "clearHalt"} =>
           asker.config # 0 /\ (r.arg \in DV!E => r.arg \in Members(asker.config))
  BY <1>1 DEF DV!Legal, DV!None, Members
<1>6. RequestInv'
  BY <1>1, <1>2, <1>3, <1>5 DEF RequestInv
<1>7. BeliefInv'
  BY <1>1, <1>2, <1>3 DEF DeviceInv, BeliefInv, EndpointAgrees, TogglesKnown, Configuring
<1>8. ProgressInv'
  BY <1>3 DEF ProgressInv, Configuring
<1> QED
  BY <1>4, <1>6, <1>7, <1>8 DEF DeviceInv

LEMMA DeviceHostTransfer ==
  ASSUME DeviceInv, NEW e \in DV!E, DV!HostTransfer(e)
  PROVE  DeviceInv'
<1> DEFINE agree == dev.ep[e].toggle = asker.toggle[e]
           n == IF agree \/ e[1] = "in" THEN 1 - dev.ep[e].toggle ELSE dev.ep[e].toggle
           m == IF agree \/ e[1] = "out" THEN 1 - asker.toggle[e] ELSE asker.toggle[e]
           y == [dev.ep[e] EXCEPT !.toggle = n]
           t == [asker.toggle EXCEPT ![e] = m]
           s == asker.apart \ {e}
<1>1. /\ asker.stage = "idle" /\ asker.config # 0 /\ e \in Members(asker.config)
      /\ pc' = pc /\ i' = i /\ live' = live
  BY DEF DV!HostTransfer, DV!None, Members
<1>2. dev' = [dev EXCEPT !.ep[e] = y]
  <2>1. CASE agree \/ e[1] = "in"
    <3>1. dev' = [dev EXCEPT !.ep[e].toggle = 1 - @]
      BY <2>1, Zenon DEF DV!HostTransfer
    <3> QED
      BY <2>1, <3>1 DEF DeviceInv, DeviceTypes, DeviceState
  <2>2. CASE ~(agree \/ e[1] = "in")
    <3>1. dev' = dev
      BY <2>2, Zenon DEF DV!HostTransfer
    <3>2. dev.ep[e] \in EndpointState
      BY DEF DeviceInv, DeviceTypes, DeviceState
    <3>3. y = dev.ep[e]
      BY <2>2, <3>2 DEF EndpointState
    <3> HIDE DEF y
    <3> QED
      BY <3>1, <3>3 DEF DeviceInv, DeviceTypes, DeviceState
  <2> QED
    BY <2>1, <2>2
<1>3. asker' = [asker EXCEPT !.toggle = t, !.apart = s]
  <2>1. asker' = [asker EXCEPT !.toggle[e] = IF agree \/ e[1] = "out" THEN 1 - @ ELSE @, !.apart = @ \ {e}]
    BY Zenon DEF DV!HostTransfer
  <2> HIDE DEF agree
  <2> QED
    BY <2>1 DEF DeviceInv, DeviceTypes, HostState
<1>4. /\ dev.ep[e] \in EndpointState /\ asker.toggle[e] \in 0..1 /\ asker.toggle \in [DV!E -> 0..1]
      /\ dev.ep[e].toggle \in 0..1 /\ asker.apart \in SUBSET DV!E /\ e[1] \in {"in", "out"}
  BY Directions DEF DeviceInv, DeviceTypes, DeviceState, HostState, EndpointState
<1>5. n \in 0..1 /\ m \in 0..1 /\ (m = n)
  BY <1>4
<1> HIDE DEF agree, n, m
<1>6. /\ y \in EndpointState /\ y.active = dev.ep[e].active /\ y.stall = dev.ep[e].stall
      /\ y.toggle = n
  BY <1>4, <1>5 DEF EndpointState
<1>7. /\ t \in [DV!E -> 0..1] /\ t[e] = m /\ s \in SUBSET DV!E /\ e \notin s
      /\ \A f \in DV!E : f # e => t[f] = asker.toggle[f] /\ (f \in s <=> f \in asker.apart)
  BY <1>4, <1>5
<1> HIDE DEF y, t, s
<1>8. /\ asker' \in HostState /\ asker'.toggle = t /\ asker'.apart = s
      /\ asker'.stage = asker.stage /\ asker'.req = asker.req /\ asker'.answer = asker.answer
      /\ asker'.data = asker.data /\ asker'.address = asker.address /\ asker'.config = asker.config
      /\ asker'.halted = asker.halted
  BY <1>3, <1>7 DEF DeviceInv, DeviceTypes, HostState
<1>9. /\ dev' \in DeviceState
      /\ dev'.state = dev.state /\ dev'.config = dev.config
      /\ dev'.ep[e] = y
      /\ \A f \in DV!E : f # e => dev'.ep[f] = dev.ep[f]
  BY <1>2, <1>6, ChangeEndpoint DEF DeviceInv, DeviceTypes
<1>10. pc = "wait" /\ ~live
  BY <1>1 DEF DeviceInv, RequestInv
<1>11. \A f \in DV!E : /\ dev'.ep[f].active = dev.ep[f].active /\ dev'.ep[f].stall = dev.ep[f].stall
                       /\ TogglesKnown(f) => TogglesKnown(f)'
  <2> TAKE f \in DV!E
  <2>1. CASE f = e
    <3>1. TogglesKnown(e)'
      BY <1>5, <1>6, <1>7, <1>8, <1>9 DEF TogglesKnown
    <3> QED
      BY <1>6, <1>9, <2>1, <3>1
  <2>2. CASE f # e
    BY <1>7, <1>8, <1>9, <2>2 DEF TogglesKnown
  <2> QED
    BY <2>1, <2>2
<1>12. BeliefInv'
  BY <1>1, <1>8, <1>9, <1>11 DEF DeviceInv, BeliefInv, EndpointAgrees
<1>13. DeviceTypes'
  BY <1>1, <1>8, <1>9 DEF DeviceInv, DeviceTypes
<1>14. RequestInv' /\ ProgressInv'
  BY <1>1, <1>8, <1>10 DEF DeviceInv, RequestInv, ProgressInv, Configuring
<1> QED
  BY <1>12, <1>13, <1>14 DEF DeviceInv

LEMMA DeviceBusReset ==
  ASSUME DeviceInv, DV!BusReset
  PROVE  DeviceInv'
<1> DEFINE idle == [e \in DV!E |-> [active |-> FALSE, stall |-> FALSE, toggle |-> 0]]
           zero == [e \in DV!E |-> 0]
<1>1. /\ dev' = [dev EXCEPT !.state = "Default", !.address = 0, !.ep = idle]
      /\ live' = FALSE /\ pc' = pc /\ i' = i
      /\ asker' = [asker EXCEPT !.stage = "idle", !.answer = "none", !.address = 0, !.config = 0,
                                !.halted = {}, !.toggle = zero, !.apart = {}]
  BY DEF DV!BusReset, DV!None, DV!Idle
<1>2. idle \in [DV!E -> EndpointState] /\ zero \in [DV!E -> 0..1]
  BY DEF EndpointState
<1>4. \A e \in DV!E : idle[e].toggle = zero[e]
  OBVIOUS
<1> HIDE DEF idle, zero
<1>5. 0 \in Known /\ 0 \in 0..1
  BY DEF Known
<1>6. dev' \in DeviceState /\ dev'.ep = idle
  BY <1>1, <1>2, <1>5 DEF DeviceInv, DeviceTypes, DeviceState
<1>7. /\ asker' \in HostState /\ asker'.stage = "idle" /\ asker'.address = 0 /\ asker'.config = 0
      /\ asker'.toggle = zero /\ asker'.apart = {} /\ asker'.req = asker.req
  BY <1>1, <1>2, <1>5 DEF DeviceInv, DeviceTypes, HostState
<1>8. DeviceTypes'
  BY <1>1, <1>6, <1>7 DEF DeviceInv, DeviceTypes
<1>9. RequestInv' /\ ProgressInv'
  BY <1>1, <1>7 DEF DeviceInv, RequestInv, ProgressInv, zero
<1>10. BeliefInv'
  BY <1>4, <1>6, <1>7 DEF BeliefInv, TogglesKnown
<1> QED
  BY <1>8, <1>9, <1>10 DEF DeviceInv
-----------------------------------------------------------------------------
(* HandleControl.                                                              *)

\* A handler that touches no endpoint, and does not answer SET_ADDRESS or SET_CONFIGURATION
\* unless with a stall.
LEMMA QuietHandler ==
  ASSUME DeviceInv, dev' \in DeviceState, dev'.ep = dev.ep, dev'.state = dev.state,
         dev'.config = dev.config, i' \in Nat,
         NEW a \in {"success", "stall"}, NEW d \in HostData, DV!Finish(a, d),
         pc \in Steps \ ({"wait", "addressed", "setAddress", "setHalt", "clearHalt"} \cup Configuring),
         a = "success" => pc # "setConfiguration",
         a = "success" /\ pc = "getConfiguration" => d = dev.config
  PROVE  DeviceInv'
<1>1. asker.req.op = pc
  BY DEF DeviceInv, RequestInv
<1>2. /\ pc' = "wait" /\ live' = FALSE /\ asker' \in HostState
      /\ ~live => asker' = asker
      /\ live => /\ asker'.stage = "idle" /\ asker'.req = asker.req
                 /\ asker'.answer = a /\ asker'.data = d
                 /\ asker'.address = asker.address /\ asker'.config = asker.config
                 /\ asker'.halted = asker.halted /\ asker'.toggle = asker.toggle
                 /\ asker'.apart = asker.apart
  BY <1>1, FinishFacts DEF DeviceInv
<1>3. DeviceTypes'
  BY <1>2 DEF DeviceInv, DeviceTypes, Steps
<1>4. ~live => asker.stage = "idle" /\ asker.config = 0
  BY DEF DeviceInv, RequestInv, DeviceTypes, HostState
<1>5. /\ asker'.stage = "idle" /\ asker'.address = asker.address /\ asker'.config = asker.config
      /\ asker'.halted = asker.halted /\ asker'.toggle = asker.toggle /\ asker'.apart = asker.apart
  BY <1>2, <1>4
<1>6. RequestInv' /\ ProgressInv'
  BY <1>2, <1>5 DEF RequestInv, ProgressInv, Configuring
<1>7. asker'.config # 0 /\ asker'.req.op = "getConfiguration" /\ asker'.answer = "success" =>
        asker'.data = asker'.config
  <2> SUFFICES ASSUME asker'.config # 0, asker'.req.op = "getConfiguration", asker'.answer = "success"
               PROVE  asker'.data = asker'.config
    OBVIOUS
  <2>1. live
    BY <1>2, <1>4
  <2>2. d = dev.config /\ dev.config = asker.config
    BY <1>1, <1>2, <1>5, <2>1 DEF DeviceInv, BeliefInv
  <2> QED
    BY <1>2, <2>1, <2>2
<1>8. BeliefInv'
  BY <1>2, <1>5, <1>7 DEF DeviceInv, BeliefInv, EndpointAgrees, TogglesKnown, Configuring
<1> QED
  BY <1>3, <1>6, <1>8 DEF DeviceInv

LEMMA DeviceQuietHandlers ==
  ASSUME DeviceInv,
         \/ DV!HandleControlFeatureDevice \/ DV!HandleControlGetStatus
         \/ DV!HandleControlGetConfiguration \/ DV!HandleControlGetDescriptor
  PROVE  DeviceInv'
<1>0. DeviceTypes /\ dev \in DeviceState /\ i \in Nat /\ pc \in Steps /\ 0 \in HostData /\ 1 \in HostData
  BY DEF DeviceInv, DeviceTypes, HostData
<1>1. CASE DV!HandleControlFeatureDevice
  <2> DEFINE b == (pc = "setWakeup")
             w == [dev EXCEPT !.wakeup = b]
  <2>1. /\ pc \in {"setWakeup", "clearWakeup"} /\ i' = i
        /\ \/ dev' = w /\ DV!Finish("success", 0)
           \/ dev' = dev /\ DV!Finish("stall", 0)
    <3>1. pc \in {"setWakeup", "clearWakeup"} /\ i' = i
      BY <1>1 DEF DV!HandleControlFeatureDevice
    <3>2. \/ dev' = w /\ DV!Finish("success", 0)
          \/ dev' = dev /\ DV!Finish("stall", 0)
      BY <1>1, Zenon DEF DV!HandleControlFeatureDevice
    <3> QED
      BY <3>1, <3>2
  <2>2. w \in DeviceState /\ w.ep = dev.ep /\ w.state = dev.state /\ w.config = dev.config
    <3>1. b \in BOOLEAN
      OBVIOUS
    <3> HIDE DEF b
    <3> QED
      BY <1>0, <3>1 DEF DeviceState
  <2> HIDE DEF w
  <2>3. /\ pc \in Steps \ ({"wait", "addressed", "setAddress", "setHalt", "clearHalt"} \cup Configuring)
        /\ pc # "setConfiguration" /\ pc # "getConfiguration"
    BY <1>0, <2>1 DEF Configuring
  <2>4. CASE dev' = w /\ DV!Finish("success", 0)
    BY <1>0, <2>1, <2>2, <2>3, <2>4, QuietHandler
  <2>5. CASE dev' = dev /\ DV!Finish("stall", 0)
    BY <1>0, <2>1, <2>3, <2>5, QuietHandler
  <2> QED
    BY <2>1, <2>4, <2>5
<1>2. CASE DV!HandleControlGetStatus
  <2> DEFINE d == IF dev.config # 0 /\ RequestConfigurations[dev.config].wakeup THEN 1 ELSE 0
  <2>1. pc = "getStatus" /\ DV!Finish("success", d) /\ dev' = dev /\ i' = i
    BY <1>2 DEF DV!HandleControlGetStatus, DV!None
  <2>2. d \in HostData
    BY <1>0
  <2> HIDE DEF d
  <2>3. pc \in Steps \ ({"wait", "addressed", "setAddress", "setHalt", "clearHalt"} \cup Configuring)
    BY <1>0, <2>1 DEF Configuring
  <2> QED
    BY <1>0, <2>1, <2>2, <2>3, QuietHandler
<1>3. CASE DV!HandleControlGetConfiguration
  <2>1. pc = "getConfiguration" /\ DV!Finish("success", dev.config) /\ dev' = dev /\ i' = i
    BY <1>3 DEF DV!HandleControlGetConfiguration
  <2>2. dev.config \in HostData
    BY <1>0 DEF DeviceState, HostData
  <2>3. pc \in Steps \ ({"wait", "addressed", "setAddress", "setHalt", "clearHalt"} \cup Configuring)
    BY <1>0, <2>1 DEF Configuring
  <2> QED
    BY <1>0, <2>1, <2>2, <2>3, QuietHandler
<1>4. CASE DV!HandleControlGetDescriptor
  <2>1. /\ pc = "getString" /\ dev' = dev /\ i' = i
        /\ DV!Finish("success", asker.req.arg) \/ DV!Finish("stall", 0)
    BY <1>4 DEF DV!HandleControlGetDescriptor
  <2>2. asker.req.arg \in HostData
    <3>1. asker.req.op = "getString" /\ asker.req \in DV!Requests
      BY <2>1 DEF DeviceInv, RequestInv, Configuring, DeviceTypes, HostState
    <3> QED
      BY <3>1, RequestFacts DEF HostData
  <2>3. pc \in Steps \ ({"wait", "addressed", "setAddress", "setHalt", "clearHalt"} \cup Configuring)
    BY <1>0, <2>1 DEF Configuring
  <2>4. CASE DV!Finish("success", asker.req.arg)
    BY <1>0, <2>1, <2>2, <2>3, <2>4, QuietHandler
  <2>5. CASE DV!Finish("stall", 0)
    BY <1>0, <2>1, <2>3, <2>5, QuietHandler
  <2> QED
    BY <2>1, <2>4, <2>5
<1> QED
  BY <1>1, <1>2, <1>3, <1>4

\* A request that names an endpoint that the device does not have changes nothing.
LEMMA FeatureOfStranger ==
  ASSUME DeviceInv, pc \in {"setHalt", "clearHalt"}, dev' = dev, i' = i,
         NEW a \in {"success", "stall"}, DV!Finish(a, 0), a = "success" => asker.req.arg \notin DV!E
  PROVE  DeviceInv'
<1>1. asker.req.op = pc /\ 0 \in HostData
  BY DEF DeviceInv, RequestInv, Configuring, HostData
<1>2. /\ pc' = "wait" /\ live' = FALSE /\ asker' \in HostState
      /\ ~live => asker' = asker
      /\ live => /\ asker'.stage = "idle" /\ asker'.req = asker.req
                 /\ asker'.address = asker.address /\ asker'.config = asker.config
                 /\ asker'.halted = asker.halted /\ asker'.toggle = asker.toggle
                 /\ asker'.apart = asker.apart
  BY <1>1, FinishFacts DEF DeviceInv
<1>3. DeviceTypes'
  BY <1>2 DEF DeviceInv, DeviceTypes, Steps
<1>4. ~live => asker.stage = "idle" /\ asker.config = 0
  BY DEF DeviceInv, RequestInv, DeviceTypes, HostState
<1>5. asker'.stage = "idle" /\ (asker'.config # 0 => asker'.req.op # "getConfiguration")
  BY <1>1, <1>2, <1>4
<1>6. RequestInv' /\ ProgressInv'
  BY <1>2, <1>5 DEF RequestInv, ProgressInv, Configuring
<1>7. BeliefInv'
  <2>1. /\ asker'.address = asker.address /\ asker'.config = asker.config
        /\ asker'.halted = asker.halted /\ asker'.toggle = asker.toggle /\ asker'.apart = asker.apart
    BY <1>2
  <2> QED
    BY <1>2, <1>5, <2>1 DEF DeviceInv, BeliefInv, EndpointAgrees, TogglesKnown, Configuring
<1> QED
  BY <1>3, <1>6, <1>7 DEF DeviceInv

LEMMA DeviceFeatureEndpoint ==
  ASSUME DeviceInv, DV!HandleControlFeatureEndpoint
  PROVE  DeviceInv'
<1> DEFINE b == (pc = "setHalt")
           x == asker.req.arg
           none == DV!NoFeature(x[2])
<1>1. pc \in {"setHalt", "clearHalt"} /\ i' = i
  BY DEF DV!HandleControlFeatureEndpoint
<1>2. \/ none /\ DV!Finish("stall", 0) /\ dev' = dev
      \/ ~none /\ DV!Finish("success", 0) /\ x \notin DV!E /\ dev' = dev
      \/ ~none /\ DV!Finish("success", 0) /\ x \in DV!E /\ dev' = [dev EXCEPT !.ep[x] = DV!Stall(@, b)]
  BY Zenon DEF DV!HandleControlFeatureEndpoint
<1>3. CASE none /\ DV!Finish("stall", 0) /\ dev' = dev
  BY <1>1, <1>3, FeatureOfStranger
<1>4. CASE ~none /\ DV!Finish("success", 0) /\ x \notin DV!E /\ dev' = dev
  BY <1>1, <1>4, FeatureOfStranger
<1>5. ASSUME DV!Finish("success", 0), x \in DV!E, dev' = [dev EXCEPT !.ep[x] = DV!Stall(@, b)]
      PROVE  DeviceInv'
  <2>1. asker.req.op = pc
    BY <1>1 DEF DeviceInv, RequestInv, Configuring
  <2>2. PICK e \in DV!E : e = asker.req.arg
    BY <1>5
  <2> DEFINE y == DV!Stall(dev.ep[e], b)
  <2>3. dev.ep[e] \in EndpointState /\ b \in BOOLEAN
    BY <2>2 DEF DeviceInv, DeviceTypes, DeviceState
  <2>4. dev' = [dev EXCEPT !.ep[e] = y]
    BY <1>5, <2>2 DEF DeviceInv, DeviceTypes, DeviceState
  <2>5. /\ y \in EndpointState /\ y.active = dev.ep[e].active /\ y.stall = b
        /\ y.toggle = IF dev.ep[e].stall /\ ~b THEN 0 ELSE dev.ep[e].toggle
    BY <2>3, StallFacts
  <2> HIDE DEF y
  <2>6. /\ dev' \in DeviceState /\ dev'.state = dev.state /\ dev'.config = dev.config
        /\ dev'.ep[e] = y /\ \A f \in DV!E : f # e => dev'.ep[f] = dev.ep[f]
    BY <2>2, <2>4, <2>5, ChangeEndpoint DEF DeviceInv, DeviceTypes
  <2>7. 0 \in HostData
    BY DEF HostData
  <2>8. /\ pc' = "wait" /\ live' = FALSE /\ asker' \in HostState
        /\ ~live => asker' = asker
        /\ live => /\ asker'.stage = "idle" /\ asker'.req = asker.req
                   /\ asker'.address = asker.address /\ asker'.config = asker.config
        /\ live /\ pc = "setHalt" => /\ asker'.halted = asker.halted \cup {e}
                                     /\ asker'.toggle = asker.toggle /\ asker'.apart = asker.apart
        /\ live /\ pc = "clearHalt" =>
             /\ asker'.halted = asker.halted \ {e}
             /\ asker'.toggle = [asker.toggle EXCEPT ![e] = 0]
             /\ \A f \in DV!E : f \in asker'.apart <=>
                  IF f # e THEN f \in asker.apart
                  ELSE f \notin asker.halted /\ (f \in asker.apart \/ asker.toggle[f] = 1)
    BY <1>1, <1>5, <2>1, <2>2, <2>7, FinishFacts DEF DeviceInv
  <2>9. DeviceTypes'
    BY <1>1, <2>6, <2>8 DEF DeviceInv, DeviceTypes, Steps
  <2>10. asker'.stage = "idle"
    BY <2>8 DEF DeviceInv, RequestInv, DeviceTypes, HostState
  <2>11. RequestInv' /\ ProgressInv'
    BY <2>8, <2>10 DEF RequestInv, ProgressInv, Configuring
  <2>12. CASE ~live
    <3>1. /\ asker' = asker /\ asker.config = 0 /\ asker.address = 0 /\ asker.apart = {}
          /\ \A f \in DV!E : asker.toggle[f] = 0
      BY <1>1, <2>8, <2>12 DEF DeviceInv, RequestInv
    <3>2. \A f \in DV!E : f[1] = "out" => dev.ep[f].toggle = 0
      BY <3>1 DEF DeviceInv, BeliefInv, TogglesKnown
    <3>3. \A f \in DV!E : f[1] = "out" => dev'.ep[f].toggle = 0
      BY <2>5, <2>6, <3>2
    <3>4. BeliefInv'
      BY <3>1, <3>3 DEF BeliefInv, TogglesKnown
    <3> QED
      BY <2>9, <2>11, <3>4 DEF DeviceInv
  <2>13. CASE live
    <3>1. asker.config # 0 /\ e \in Members(asker.config)
      BY <1>1, <2>1, <2>2, <2>13 DEF DeviceInv, RequestInv
    <3>2. /\ dev.state = "Configured" /\ dev.config = asker.config
          /\ asker.halted \subseteq Members(asker.config)
          /\ \A f \in DV!E : EndpointAgrees(f)
          /\ \A f \in DV!E : f[1] = "out" => TogglesKnown(f)
      BY <1>1, <3>1 DEF DeviceInv, BeliefInv, Configuring
    <3>3. /\ \A f \in DV!E : f # e => /\ f \in asker'.halted <=> f \in asker.halted
                                      /\ asker'.toggle[f] = asker.toggle[f]
                                      /\ f \in asker'.apart <=> f \in asker.apart
          /\ e \in asker'.halted <=> b
          /\ asker'.halted \subseteq Members(asker.config)
      BY <1>1, <2>2, <2>8, <2>13, <3>1, <3>2 DEF DeviceInv, DeviceTypes, HostState
    <3>4. TogglesKnown(e) /\ (dev.ep[e].stall <=> e \in asker.halted)
      BY <2>2, <3>1, <3>2 DEF EndpointAgrees
    <3>5. TogglesKnown(e)'
      <4>1. CASE pc = "setHalt"
        BY <2>5, <2>6, <2>8, <2>13, <3>4, <4>1 DEF TogglesKnown
      <4>2. CASE pc = "clearHalt"
        <5>1. asker'.toggle[e] = 0 /\ asker.toggle[e] \in 0..1 /\ dev.ep[e].toggle \in 0..1
          BY <2>2, <2>3, <2>8, <2>13, <4>2 DEF DeviceInv, DeviceTypes, HostState, EndpointState
        <5>2. e \in asker'.apart <=> e \notin asker.halted /\ (e \in asker.apart \/ asker.toggle[e] = 1)
          BY <2>8, <2>13, <4>2
        <5>3. CASE e \in asker.halted
          BY <2>5, <2>6, <3>4, <4>2, <5>1, <5>2, <5>3 DEF TogglesKnown
        <5>4. CASE e \notin asker.halted
          <6>1. dev'.ep[e].toggle = dev.ep[e].toggle
            BY <2>5, <2>6, <3>4, <4>2, <5>4
          <6>2. dev.ep[e].toggle # 0 <=> e \in asker.apart \/ asker.toggle[e] = 1
            BY <3>4, <5>1 DEF TogglesKnown
          <6> QED
            BY <5>1, <5>2, <5>4, <6>1, <6>2 DEF TogglesKnown
        <5> QED
          BY <5>3, <5>4
      <4> QED
        BY <1>1, <4>1, <4>2
    <3>6. EndpointAgrees(e)'
      BY <2>2, <2>5, <2>6, <2>8, <2>13, <3>1, <3>2, <3>3, <3>5 DEF EndpointAgrees
    <3>7. \A f \in DV!E : f # e => /\ EndpointAgrees(f)'
                                   /\ TogglesKnown(f) => TogglesKnown(f)'
      BY <2>6, <2>8, <2>13, <3>2, <3>3 DEF EndpointAgrees, TogglesKnown
    <3>8. asker'.req.op # "getConfiguration" /\ asker'.address = asker.address /\ asker'.config = asker.config
      BY <1>1, <2>1, <2>8, <2>13
    <3>9. \A f \in DV!E : EndpointAgrees(f)' /\ (f[1] = "out" => TogglesKnown(f)')
      BY <3>2, <3>5, <3>6, <3>7
    <3>10. BeliefInv'
      BY <2>6, <2>10, <3>2, <3>3, <3>8, <3>9 DEF BeliefInv
    <3> QED
      BY <2>9, <2>11, <3>10 DEF DeviceInv
  <2> QED
    BY <2>12, <2>13
<1> QED
  BY <1>2, <1>3, <1>4, <1>5

LEMMA DeviceSetAddress ==
  ASSUME DeviceInv, DV!HandleControlSetAddress
  PROVE  DeviceInv'
<1>0. asker.req \in DV!Requests /\ dev \in DeviceState
  BY DEF DeviceInv, DeviceTypes, HostState
<1>1. CASE pc = "setAddress"
  <2>1. /\ dev' = [dev EXCEPT !.address = asker.req.arg] /\ pc' = "addressed"
        /\ i' = i /\ live' = live /\ asker' = asker
    BY <1>1 DEF DV!HandleControlSetAddress
  <2>2. asker.req.op = "setAddress"
    BY <1>1 DEF DeviceInv, RequestInv, Configuring
  <2>3. asker.req.arg \in 0..1
    BY <1>0, <2>2, RequestFacts
  <2>4. dev' \in DeviceState /\ dev'.state = dev.state /\ dev'.config = dev.config /\ dev'.ep = dev.ep
    BY <1>0, <2>1, <2>3 DEF DeviceState
  <2>5. DeviceTypes' /\ RequestInv' /\ ProgressInv'
    BY <1>1, <2>1, <2>2, <2>4 DEF DeviceInv, DeviceTypes, RequestInv, ProgressInv, Configuring, Steps
  <2>6. BeliefInv'
    BY <1>1, <2>1, <2>2, <2>4 DEF DeviceInv, BeliefInv, EndpointAgrees, TogglesKnown, Configuring
  <2> QED
    BY <2>5, <2>6 DEF DeviceInv
<1>2. CASE pc = "addressed"
  <2> DEFINE s == CASE dev.state = "Default" /\ asker.req.arg # 0 -> "Addressed"
                    [] dev.state = "Addressed" /\ asker.req.arg = 0 -> "Default"
                    [] OTHER -> dev.state
  <2>1. dev' = [dev EXCEPT !.state = s] /\ DV!Finish("success", 0) /\ i' = i
    BY <1>2 DEF DV!HandleControlSetAddress
  <2>2. /\ s \in {"Default", "Addressed", "Configured"}
        /\ asker.req.arg # 0 => s # "Default"
        /\ dev.state = "Configured" => s = "Configured"
    BY <1>0 DEF DeviceState
  <2> HIDE DEF s
  <2>3. dev' \in DeviceState /\ dev'.state = s /\ dev'.config = dev.config /\ dev'.ep = dev.ep
    BY <1>0, <2>1, <2>2 DEF DeviceState
  <2>4. asker.req.op = "setAddress" /\ 0 \in HostData
    BY <1>2 DEF DeviceInv, RequestInv, HostData
  <2>5. /\ pc' = "wait" /\ live' = FALSE /\ asker' \in HostState
        /\ ~live => asker' = asker
        /\ live => /\ asker'.stage = "idle" /\ asker'.req = asker.req /\ asker'.address = asker.req.arg
                   /\ asker'.config = asker.config /\ asker'.halted = asker.halted
                   /\ asker'.toggle = asker.toggle /\ asker'.apart = asker.apart
    BY <2>1, <2>4, FinishFacts DEF DeviceInv
  <2>6. asker'.stage = "idle"
    BY <2>5 DEF DeviceInv, RequestInv, DeviceTypes, HostState
  <2>7. DeviceTypes' /\ RequestInv' /\ ProgressInv'
    BY <2>1, <2>3, <2>5, <2>6 DEF DeviceInv, DeviceTypes, RequestInv, ProgressInv, Configuring, Steps
  <2>8. CASE ~live
    <3>1. asker' = asker /\ asker.config = 0 /\ asker.address = 0
      BY <1>2, <2>5, <2>8 DEF DeviceInv, RequestInv
    <3>2. BeliefInv'
      BY <2>3, <3>1 DEF DeviceInv, BeliefInv, TogglesKnown
    <3> QED
      BY <2>7, <3>2 DEF DeviceInv
  <2>9. CASE live
    <3>1. BeliefInv'
      BY <1>2, <2>2, <2>3, <2>4, <2>5, <2>9 DEF DeviceInv, BeliefInv, EndpointAgrees, TogglesKnown, Configuring
    <3> QED
      BY <2>7, <3>1 DEF DeviceInv
  <2> QED
    BY <2>8, <2>9
<1> QED
  BY <1>1, <1>2 DEF DV!HandleControlSetAddress

LEMMA DeviceSetConfiguration ==
  ASSUME DeviceInv, DV!HandleControlSetConfiguration
  PROVE  DeviceInv'
<1>0. /\ asker.req \in DV!Requests /\ dev \in DeviceState /\ pc = "setConfiguration" /\ i' = 1
      /\ asker.req.op = "setConfiguration"
  BY DEF DeviceInv, DeviceTypes, HostState, RequestInv, Configuring, DV!HandleControlSetConfiguration
<1> DEFINE value == asker.req.arg
           set == dev.state \in {"Addressed", "Configured"}
           found == value \in DOMAIN RequestConfigurations
           w == found /\ RequestConfigurations[value].wakeup
<1>1. \/ /\ value # 0 /\ set /\ found
         /\ dev' = [dev EXCEPT !.config = value, !.wakeup = w] /\ pc' = "Configured"
         /\ live' = live /\ asker' = asker
      \/ value # 0 /\ set /\ ~found /\ DV!Finish("stall", 0) /\ dev' = dev
      \/ /\ value = 0 /\ dev.state = "Configured"
         /\ dev' = [dev EXCEPT !.config = 0] /\ pc' = "Addressed" /\ live' = live /\ asker' = asker
      \/ /\ ~(value # 0 /\ set) /\ pc' = "endpoints" /\ dev' = dev /\ live' = live /\ asker' = asker
  BY Zenon DEF DV!HandleControlSetConfiguration, DV!FindConfiguration, DV!None
<1>2. 0 \in Known /\ 0 \in HostData /\ (found => value \in Known) /\ w \in BOOLEAN
  BY DeviceAssumption DEF Known, HostData
<1> HIDE DEF w
<1>3. ASSUME dev' \in DeviceState, dev'.ep = dev.ep, dev'.state = dev.state,
             pc' \in Configuring, live' = live, asker' = asker
      PROVE  DeviceTypes' /\ RequestInv' /\ BeliefInv'
  <2>1. DeviceTypes'
    BY <1>0, <1>3 DEF DeviceInv, DeviceTypes, Configuring, Steps
  <2>2. RequestInv'
    BY <1>0, <1>3 DEF DeviceInv, RequestInv, Configuring
  <2>3. BeliefInv'
    BY <1>0, <1>3 DEF DeviceInv, BeliefInv, TogglesKnown
  <2> QED
    BY <2>1, <2>2, <2>3
<1>4. CASE /\ value # 0 /\ set /\ found
           /\ dev' = [dev EXCEPT !.config = value, !.wakeup = w] /\ pc' = "Configured"
           /\ live' = live /\ asker' = asker
  <2>1. dev' \in DeviceState /\ dev'.ep = dev.ep /\ dev'.state = dev.state /\ dev'.config = value
    BY <1>0, <1>2, <1>4 DEF DeviceState
  <2>2. DeviceTypes' /\ RequestInv' /\ BeliefInv'
    BY <1>3, <1>4, <2>1 DEF Configuring
  <2>3. ProgressInv'
    BY <1>0, <1>4, <2>1 DEF ProgressInv
  <2> QED
    BY <2>2, <2>3 DEF DeviceInv
<1>5. CASE DV!Finish("stall", 0) /\ dev' = dev
  <2>1. pc \in Steps \ ({"wait", "addressed", "setAddress", "setHalt", "clearHalt"} \cup Configuring)
    BY <1>0 DEF Steps, Configuring
  <2> QED
    BY <1>0, <1>2, <1>5, <2>1, QuietHandler
<1>6. CASE /\ value = 0 /\ dev.state = "Configured"
           /\ dev' = [dev EXCEPT !.config = 0] /\ pc' = "Addressed" /\ live' = live /\ asker' = asker
  <2>1. dev' \in DeviceState /\ dev'.ep = dev.ep /\ dev'.state = dev.state
    BY <1>0, <1>2, <1>6 DEF DeviceState
  <2>2. DeviceTypes' /\ RequestInv' /\ BeliefInv'
    BY <1>3, <1>6, <2>1 DEF Configuring
  <2>3. ProgressInv'
    BY <1>0, <1>6 DEF ProgressInv
  <2> QED
    BY <2>2, <2>3 DEF DeviceInv
<1>7. CASE ~(value # 0 /\ set) /\ pc' = "endpoints" /\ dev' = dev /\ live' = live /\ asker' = asker
  <2>1. DeviceTypes' /\ RequestInv' /\ BeliefInv'
    BY <1>0, <1>3, <1>7 DEF Configuring
  <2>2. live => set
    BY <1>0 DEF DeviceInv, RequestInv, BeliefInv, DeviceState
  <2>3. ProgressInv'
    BY <1>0, <1>7, <2>2 DEF ProgressInv
  <2> QED
    BY <2>1, <2>3 DEF DeviceInv
<1> QED
  BY <1>1, <1>4, <1>5, <1>6, <1>7

LEMMA DeviceSetState ==
  ASSUME DeviceInv, DV!SetState
  PROVE  DeviceInv'
<1>1. /\ pc \in {"Configured", "Addressed"} /\ dev' = [dev EXCEPT !.state = pc] /\ pc' = "endpoints"
      /\ i' = i /\ live' = live /\ asker' = asker
  BY DEF DV!SetState
<1>2. /\ dev' \in DeviceState /\ dev'.ep = dev.ep /\ dev'.state = pc /\ dev'.config = dev.config
  BY <1>1 DEF DeviceInv, DeviceTypes, DeviceState
<1>3. DeviceTypes' /\ RequestInv'
  BY <1>1, <1>2 DEF DeviceInv, DeviceTypes, RequestInv, Configuring, Steps
<1>4. BeliefInv'
  BY <1>1, <1>2 DEF DeviceInv, BeliefInv, TogglesKnown, Configuring
<1>5. ProgressInv'
  BY <1>1, <1>2 DEF DeviceInv, ProgressInv
<1> QED
  BY <1>3, <1>4, <1>5 DEF DeviceInv

LEMMA DeviceConfigureEndpoints ==
  ASSUME DeviceInv, DV!ConfigureEndpoints
  PROVE  DeviceInv'
<1>1. pc = "endpoints" /\ live' = live /\ asker' = asker /\ Len(Endpoints) \in Nat /\ i \in Nat /\ i > 0
  BY DeviceAssumption DEF DV!ConfigureEndpoints, DeviceInv, DeviceTypes, ProgressInv
<1>2. CASE i > Len(Endpoints)
  <2>1. pc' = "configured" /\ dev' = dev /\ i' = i
    BY <1>2 DEF DV!ConfigureEndpoints
  <2>2. DeviceTypes' /\ RequestInv'
    BY <1>1, <2>1 DEF DeviceInv, DeviceTypes, RequestInv, Configuring, Steps
  <2>3. BeliefInv'
    BY <1>1, <2>1 DEF DeviceInv, BeliefInv, TogglesKnown, Configuring
  <2>4. ProgressInv'
    BY <1>1, <1>2, <2>1 DEF DeviceInv, ProgressInv, EndpointDone
  <2> QED
    BY <2>2, <2>3, <2>4 DEF DeviceInv
<1>3. CASE ~(i > Len(Endpoints))
  <2>0. PICK n \in 1..Len(Endpoints) : n = i
    BY <1>1, <1>3
  <2>1. PICK e \in DV!E : e = Endpoints[i]
    BY <2>0, EndpointNames
  <2> DEFINE has == dev.config \in DOMAIN RequestConfigurations /\ e \in Members(dev.config)
             y == DV!Configure(dev.ep[e], e[1], has)
  <2>2. dev' = [dev EXCEPT !.ep[e] = DV!Configure(@, e[1], has)] /\ i' = i + 1 /\ pc' = pc
    BY <1>3, <2>1, Zenon DEF DV!ConfigureEndpoints, Members
  <2>3. has \in BOOLEAN
    OBVIOUS
  <2>4. dev.ep[e] \in EndpointState
    BY DEF DeviceInv, DeviceTypes, DeviceState
  <2>5. /\ y \in EndpointState /\ y.active = has /\ (has => ~y.stall)
        /\ has /\ e[1] = "in" => y.toggle = 0
        /\ e[1] # "in" => y.toggle = dev.ep[e].toggle
    BY <2>3, <2>4, ConfigureFacts
  <2>6. dev' = [dev EXCEPT !.ep[e] = y]
    <3> HIDE DEF has
    <3> QED
      BY <2>2 DEF DeviceInv, DeviceTypes, DeviceState
  <2> HIDE DEF y
  <2>7. /\ dev' \in DeviceState /\ dev'.state = dev.state /\ dev'.config = dev.config
        /\ dev'.ep[e] = y /\ \A f \in DV!E : f # e => dev'.ep[f] = dev.ep[f]
    BY <2>5, <2>6, ChangeEndpoint DEF DeviceInv, DeviceTypes
  <2>8. DeviceTypes' /\ RequestInv'
    BY <1>1, <2>2, <2>7 DEF DeviceInv, DeviceTypes, RequestInv, Configuring
  <2>9. \A f \in DV!E : f[1] = "out" => dev'.ep[f].toggle = dev.ep[f].toggle
    BY <2>5, <2>7
  <2>10. BeliefInv'
    BY <1>1, <2>2, <2>7, <2>9 DEF DeviceInv, BeliefInv, TogglesKnown, Configuring
  <2>11. ASSUME live, asker.req.arg # 0
         PROVE  \A k \in 1..Len(Endpoints) : k < i + 1 => EndpointDone(Endpoints[k])'
    <3>1. dev.config # 0 /\ \A k \in 1..Len(Endpoints) : k < i => EndpointDone(Endpoints[k])
      BY <1>1, <2>11 DEF DeviceInv, ProgressInv
    <3>2. dev.config \in DOMAIN RequestConfigurations
      BY <3>1 DEF DeviceInv, DeviceTypes, DeviceState, Known
    <3>3. EndpointDone(e)'
      BY <2>5, <2>7, <3>2 DEF EndpointDone
    <3> TAKE k \in 1..Len(Endpoints)
    <3>4. Endpoints[k] \in DV!E
      BY EndpointNames
    <3>5. CASE Endpoints[k] = e
      BY <3>3, <3>5
    <3>6. CASE Endpoints[k] # e
      <4>1. k < i + 1 => k < i
        BY <1>1, <2>1, <3>6
      <4>2. k < i => EndpointDone(Endpoints[k])
        BY <3>1
      <4>3. EndpointDone(Endpoints[k]) => EndpointDone(Endpoints[k])'
        BY <2>7, <3>4, <3>6 DEF EndpointDone
      <4> QED
        BY <4>1, <4>2, <4>3
    <3> QED
      BY <3>5, <3>6
  <2>12. ProgressInv'
    BY <1>1, <2>2, <2>7, <2>11 DEF DeviceInv, ProgressInv
  <2> QED
    BY <2>8, <2>10, <2>12 DEF DeviceInv
<1> QED
  BY <1>2, <1>3

LEMMA DeviceConfigurationDone ==
  ASSUME DeviceInv, DV!ConfigurationDone
  PROVE  DeviceInv'
<1>1. pc = "configured" /\ DV!Finish("success", 0) /\ dev' = dev /\ i' = i
  BY DEF DV!ConfigurationDone
<1>2. asker.req.op = "setConfiguration" /\ 0 \in HostData /\ dev.config \in Known /\ 0 \in Known
  BY <1>1 DEF DeviceInv, RequestInv, Configuring, HostData, DeviceTypes, DeviceState, Known
<1>3. live /\ asker.req.arg # 0 =>
        /\ dev.state = "Configured" /\ dev.config = asker.req.arg
        /\ \A e \in DV!E : EndpointDone(e)
  <2> SUFFICES ASSUME live, asker.req.arg # 0
               PROVE  /\ dev.state = "Configured" /\ dev.config = asker.req.arg
                      /\ \A e \in DV!E : EndpointDone(e)
    OBVIOUS
  <2>1. /\ dev.state = "Configured" /\ dev.config = asker.req.arg
        /\ \A k \in 1..Len(Endpoints) : k < i => EndpointDone(Endpoints[k])
        /\ i > Len(Endpoints)
    BY <1>1 DEF DeviceInv, ProgressInv
  <2>2. i \in Nat /\ Len(Endpoints) \in Nat
    BY DeviceAssumption DEF DeviceInv, DeviceTypes
  <2>3. \A k \in 1..Len(Endpoints) : EndpointDone(Endpoints[k])
    BY <2>1, <2>2
  <2>4. \A e \in DV!E : EndpointDone(e)
    BY <2>3 DEF DV!E
  <2> QED
    BY <2>1, <2>4
<1>4. /\ pc' = "wait" /\ live' = FALSE /\ asker' \in HostState
      /\ ~live => asker' = asker
      /\ live => /\ asker'.stage = "idle" /\ asker'.req = asker.req /\ asker'.address = asker.address
                 /\ asker'.config = asker.req.arg /\ asker'.halted = {}
                 /\ asker'.toggle = [e \in DV!E |-> 0]
                 /\ asker'.apart = {e \in DV!E : e[1] # "in" /\ (e \in asker.apart \/ asker.toggle[e] = 1)}
  BY <1>1, <1>2, <1>3, FinishFacts DEF DeviceInv
<1>5. asker'.stage = "idle"
  BY <1>4 DEF DeviceInv, RequestInv, DeviceTypes, HostState
<1>6. DeviceTypes' /\ RequestInv' /\ ProgressInv'
  BY <1>1, <1>4, <1>5 DEF DeviceInv, DeviceTypes, RequestInv, ProgressInv, Configuring, Steps
<1>7. CASE ~live
  <2>1. asker' = asker /\ asker.config = 0
    BY <1>1, <1>4, <1>7 DEF DeviceInv, RequestInv
  <2>2. BeliefInv'
    BY <1>1, <2>1 DEF DeviceInv, BeliefInv, TogglesKnown
  <2> QED
    BY <1>6, <2>2 DEF DeviceInv
<1>8. CASE live
  <2>1. /\ asker'.config = asker.req.arg /\ asker'.halted = {} /\ asker'.address = asker.address
        /\ \A e \in DV!E : asker'.toggle[e] = 0
        /\ asker'.req.op # "getConfiguration"
    BY <1>2, <1>4, <1>8
  <2>2. \A e \in DV!E : e[1] = "out" => TogglesKnown(e)'
    <3> TAKE e \in DV!E
    <3> HAVE e[1] = "out"
    <3>1. TogglesKnown(e) /\ asker.toggle[e] \in 0..1 /\ dev.ep[e].toggle \in 0..1
      BY DEF DeviceInv, BeliefInv, DeviceTypes, HostState, DeviceState, EndpointState
    <3>2. e \in asker'.apart <=> e \in asker.apart \/ asker.toggle[e] = 1
      BY <1>4, <1>8
    <3> QED
      BY <1>1, <2>1, <3>1, <3>2 DEF TogglesKnown
  <2>3. ASSUME asker.req.arg # 0
        PROVE  \A e \in DV!E : EndpointAgrees(e)'
    <3> TAKE e \in DV!E
    <3>1. EndpointDone(e) /\ dev.config = asker'.config
      BY <1>3, <1>8, <2>1, <2>3
    <3>2. e[1] \in {"in", "out"}
      BY Directions
    <3>3. e \in Members(dev.config) => TogglesKnown(e)'
      <4>1. CASE e[1] = "out"
        BY <2>2, <4>1
      <4>2. CASE e[1] = "in"
        <5>1. e \notin asker'.apart
          BY <1>4, <1>8, <4>2
        <5> QED
          BY <1>1, <2>1, <3>1, <4>2, <5>1 DEF EndpointDone, TogglesKnown
      <4> QED
        BY <3>2, <4>1, <4>2
    <3>4. /\ dev'.ep[e].active <=> e \in Members(asker'.config)
          /\ e \in Members(asker'.config) => (dev'.ep[e].stall <=> e \in asker'.halted)
      BY <1>1, <2>1, <3>1 DEF EndpointDone
    <3> QED
      BY <3>1, <3>3, <3>4 DEF EndpointAgrees
  <2>4. BeliefInv'
    BY <1>1, <1>3, <1>8, <2>1, <2>2, <2>3 DEF DeviceInv, BeliefInv
  <2> QED
    BY <1>6, <2>4 DEF DeviceInv
<1> QED
  BY <1>7, <1>8

LEMMA DeviceNext == DeviceInv /\ [DV!Next]_device => DeviceInv'
<1> SUFFICES ASSUME DeviceInv, [DV!Next]_device PROVE DeviceInv'
  OBVIOUS
<1>1. CASE UNCHANGED device
  BY <1>1 DEF device, DeviceInv, DeviceTypes, RequestInv, BeliefInv, EndpointAgrees, TogglesKnown, ProgressInv,
              EndpointDone
<1> QED
  BY <1>1, DeviceHostRequest, DeviceHostTransfer, DeviceBusReset, DeviceQuietHandlers, DeviceFeatureEndpoint,
     DeviceSetAddress, DeviceSetConfiguration, DeviceSetState, DeviceConfigureEndpoints,
     DeviceConfigurationDone DEF DV!Next

\* A step of the one part leaves the other alone.
LEMMA PartSteps ==
  ASSUME [PartsNext]_<<part, vars, device>>
  PROVE  [Next]_vars /\ [DV!Next]_device
BY DEF PartsNext

\* The inductive invariant of the standard requests, for any endpoints and configurations: a step
\* behind a bus reset works for nobody, a host that has configured the device agrees with it
\* except inside SET_CONFIGURATION, and there every endpoint passed has been brought in line.
THEOREM DeviceInvariant == PartsSpec => []DeviceInv
<1>1. PartsInit => DeviceInv
  BY DeviceInit DEF PartsInit
<1>2. DeviceInv /\ [PartsNext]_<<part, vars, device>> => DeviceInv'
  BY DeviceNext, PartSteps
<1> QED
  BY <1>1, <1>2, PTL DEF PartsSpec

\* Host and device agree on configuration, endpoints and halts after any sequence of requests and
\* bus resets (Device.cpp:778-859).
THEOREM HostAndDeviceAgree == PartsSpec => []AgreesWithHost
<1>1. DeviceInv => AgreesWithHost
  <2> SUFFICES ASSUME DeviceInv, asker.config # 0, asker.stage = "idle"
               PROVE  /\ dev.state = "Configured" /\ dev.config = asker.config
                      /\ {e \in DV!E : dev.ep[e].active} = Members(asker.config)
                      /\ {e \in Members(asker.config) : dev.ep[e].stall} = asker.halted
                      /\ asker.req.op = "getConfiguration" /\ asker.answer = "success" =>
                           asker.data = asker.config
    BY DEF AgreesWithHost, DV!AgreesWithHost, DV!None, Members
  <2>1. pc \notin Configuring
    BY DEF DeviceInv, RequestInv, Configuring
  <2>2. /\ dev.state = "Configured" /\ dev.config = asker.config
        /\ asker.halted \subseteq Members(asker.config)
        /\ \A e \in DV!E : EndpointAgrees(e)
        /\ asker.req.op = "getConfiguration" /\ asker.answer = "success" => asker.data = asker.config
    BY <2>1 DEF DeviceInv, BeliefInv
  <2>3. Members(asker.config) \subseteq DV!E
    BY MembersAreEndpoints DEF DeviceInv, DeviceTypes, HostState
  <2>4. {e \in DV!E : dev.ep[e].active} = Members(asker.config)
    BY <2>2, <2>3 DEF EndpointAgrees
  <2>5. {e \in Members(asker.config) : dev.ep[e].stall} = asker.halted
    BY <2>2, <2>3 DEF EndpointAgrees
  <2> QED
    BY <2>2, <2>4, <2>5
<1> QED
  BY <1>1, DeviceInvariant, PTL

\* The data toggles of host and device, for any host: they differ exactly where the host has
\* started a toggle again that USB.h:88-107 and 171-185 leave at DATA1, the OUT endpoints of a new
\* configuration and an endpoint that was not halted, until the packet that this loses, or until
\* the device starts it again as well.
THEOREM HostAndDeviceToggle == PartsSpec => []TogglesAgree
<1>1. DeviceInv => TogglesAgree
  <2> SUFFICES ASSUME DeviceInv, asker.config # 0, asker.stage = "idle", NEW e \in Members(asker.config)
               PROVE  dev.ep[e].toggle # asker.toggle[e] <=> e \in asker.apart
    BY DEF TogglesAgree, DV!TogglesAgree, DV!None, Members
  <2>1. pc \notin Configuring
    BY DEF DeviceInv, RequestInv, Configuring
  <2>2. e \in DV!E
    BY MembersAreEndpoints DEF DeviceInv, DeviceTypes, HostState
  <2> QED
    BY <2>1, <2>2 DEF DeviceInv, BeliefInv, EndpointAgrees, TogglesKnown
<1> QED
  BY <1>1, DeviceInvariant, PTL
-----------------------------------------------------------------------------
(* The transfers.                                                              *)

InState == [pc : {"out", "transmit", "wait", "reset", "disable", "failed"},
            txWords : 0..MaxWords, txPtr : 0..MaxWords, start : 0..MaxWords,
            complete : BOOLEAN, disabled : BOOLEAN, empty : BOOLEAN, epena : BOOLEAN, epdis : BOOLEAN,
            left : 0..MaxWords, xfrc : BOOLEAN, epdisd : BOOLEAN]

OutState == [pc : {"out", "receive", "wait", "reset", "disable", "failed"}, buffer : Nat, complete : BOOLEAN,
             disabled : BOOLEAN, epena : BOOLEAN, epdis : BOOLEAN, xfrc : BOOLEAN, epdisd : BOOLEAN]

LineState == [got : Seq(Nat), given : 0..MaxWords, reported : Int, sent : Seq(Nat), returned : Seq(Nat), skew : {0},
              faults : SUBSET {"timeout", "reset"}]

TransferTypes ==
  /\ in \in InState /\ out \in OutState /\ host \in LineState
  /\ fifo \in Seq(Nat) /\ Len(fifo) <= FifoSize /\ rx \in Seq(Nat \cup {-1})

\* The words on their way are numbered in order, and what is pushed next comes behind them.
WordsInv ==
  /\ in.txPtr + in.txWords <= host.given
  /\ \A j, k \in 1..Len(host.got) : j < k => host.got[j] < host.got[k]
  /\ \A j, k \in 1..Len(fifo) : j < k => fifo[j] < fifo[k]
  /\ \A j \in 1..Len(host.got), k \in 1..Len(fifo) : host.got[j] < fifo[k]
  /\ \A j \in 1..Len(host.got) : host.got[j] <= in.txPtr
  /\ \A k \in 1..Len(fifo) : fifo[k] <= in.txPtr

\* Without timeouts and resets none is missing, and the core has left to send what is in the FIFO
\* and what is not there yet.
FaultlessInv == host.faults = {} =>
  /\ in.txPtr + in.txWords = host.given
  /\ Len(host.got) + Len(fifo) = in.txPtr
  /\ \A j \in 1..Len(host.got) : host.got[j] = j
  /\ \A k \in 1..Len(fifo) : fifo[k] = Len(host.got) + k
  /\ in.pc \in {"out", "transmit", "wait"} /\ ~in.epdis /\ ~in.epdisd /\ ~in.disabled
  /\ in.txWords = 0 => ~in.empty
  /\ in.pc = "out" => in.txWords = 0
  /\ in.pc # "wait" => fifo = <<>> /\ ~in.empty
  /\ in.pc = "wait" => in.left = Len(fifo) + in.txWords /\ (in.epena \/ in.left = 0)
  /\ host.reported = IF in.pc = "out" THEN host.given ELSE in.start

\* How far a transfer is, and what disables an endpoint, without resets.
InInv == "reset" \notin host.faults =>
  /\ in.pc \in {"out", "transmit", "failed"} => ~in.epena /\ ~in.epdis /\ ~in.xfrc /\ ~in.epdisd
  /\ in.pc = "transmit" => ~in.complete
  /\ in.pc = "wait" /\ in.complete => ~in.epena
  /\ in.xfrc => ~in.epena
  /\ in.pc = "disable" => (in.epena <=> in.epdis)
  /\ in.epdis => in.pc = "disable"
  /\ in.epdisd => in.pc = "disable" /\ ~in.epena
  /\ in.disabled => in.pc \in {"disable", "out", "failed"} /\ ~in.epena /\ ~in.epdisd
  /\ in.disabled /\ in.pc = "out" => in.txWords = 0

OutInv == "reset" \notin host.faults =>
  /\ out.pc # "failed"
  /\ rx \in {<<>>, <<-1>>} \cup {<<s, -1>> : s \in Packets}
  /\ rx # <<>> => out.epena /\ ~out.epdis /\ out.pc \in {"wait", "reset"}
  /\ Len(rx) = 2 => ~out.complete
  /\ out.pc \in {"out", "receive"} => ~out.epena /\ ~out.epdis /\ ~out.xfrc /\ ~out.epdisd
  /\ out.pc = "receive" => ~out.complete
  /\ out.complete /\ rx = <<>> => ~out.epena
  /\ out.xfrc => ~out.epena
  /\ out.pc = "disable" => (out.epena <=> out.epdis)
  /\ out.epdis => out.pc = "disable"
  /\ out.epdisd => out.pc = "disable" /\ ~out.epena
  /\ out.disabled => out.pc \in {"disable", "out"} /\ ~out.epena /\ ~out.epdisd

\* What an endpoint that a bus reset has taken out of the configuration may still receive is for
\* no call: the reset has completed the one that waited.
StaleInv ==
  /\ "out" \notin active => out.pc \in {"out", "failed"} \/ out.complete
  /\ "out" \in active /\ out.pc \in {"out", "receive", "wait", "reset"} => ~out.epdis /\ ~out.epdisd
  /\ "out" \in active /\ out.pc \in {"receive", "wait", "reset"} => ~out.disabled
  /\ "out" \in active /\ out.pc = "disable" =>
       /\ out.epdis => ~out.disabled /\ ~out.epdisd
       /\ out.epdisd => ~out.epena
       /\ out.disabled => ~out.epena \/ out.complete
  /\ out.pc = "out" /\ (out.epena \/ rx # <<>>) => out.complete

\* The packet that the host has sent last is on its way or in the buffer of the call.
ReportInv == "reset" \notin host.faults =>
  /\ out.pc \in {"out", "receive"} => host.returned = host.sent
  /\ out.pc \notin {"out", "receive"} =>
       /\ out.complete => host.sent = Append(host.returned, out.buffer)
       /\ ~out.complete /\ rx = <<>> => host.sent = host.returned /\ ~out.xfrc
       /\ ~out.complete => rx # <<-1>>
       /\ \A s \in Packets : rx = <<s, -1>> => host.sent = Append(host.returned, Smaller(s, out.buffer))

TransferInv == TransferTypes /\ WordsInv /\ FaultlessInv /\ InInv /\ OutInv

LEMMA TransferInit == Init => TransferInv /\ ReportInv /\ StaleInv
<1> SUFFICES ASSUME Init PROVE TransferInv /\ ReportInv /\ StaleInv
  OBVIOUS
<1>1. /\ fifo = <<>> /\ rx = <<>> /\ fifo \in Seq(Nat) /\ rx \in Seq(Nat \cup {-1}) /\ Len(fifo) = 0
      /\ host.faults = {} /\ host.got = <<>> /\ host.given = 0 /\ host.reported = 0 /\ host.sent = host.returned
      /\ in.pc = "out" /\ in.txPtr = 0 /\ in.txWords = 0 /\ ~in.empty /\ ~in.epdis /\ ~in.epdisd
      /\ ~in.disabled /\ ~in.epena /\ ~in.xfrc
      /\ out.pc = "out" /\ ~out.epena /\ ~out.epdis /\ ~out.xfrc /\ ~out.epdisd /\ ~out.disabled
  BY DEF Init
<1>2. 0 \in 0..MaxWords /\ 0 \in Nat /\ FALSE \in BOOLEAN /\ Len(fifo) <= FifoSize
  BY <1>1, EndpointAssumption
<1>3. in \in InState /\ out \in OutState
  BY <1>2 DEF Init, InState, OutState
<1>4. host \in LineState
  <2>1. <<>> \in Seq(Nat) /\ {} \in SUBSET {"timeout", "reset"} /\ 0 \in {0}
    OBVIOUS
  <2> QED
    BY <1>2, <2>1 DEF Init, LineState
<1>5. TransferTypes
  BY <1>1, <1>2, <1>3, <1>4 DEF TransferTypes
<1>6. WordsInv /\ FaultlessInv
  BY <1>1 DEF WordsInv, FaultlessInv
<1>7. InInv /\ OutInv /\ ReportInv /\ StaleInv
  BY <1>1 DEF InInv, OutInv, ReportInv, StaleInv
<1> QED
  BY <1>5, <1>6, <1>7 DEF TransferInv

\* The core takes n words out of the FIFO, and the host gets them.
LEMMA MoveWords ==
  ASSUME NEW g \in Seq(Nat), NEW f \in Seq(Nat), NEW n \in 0..Len(f)
  PROVE  LET g2 == g \o SubSeq(f, 1, n)
             f2 == SubSeq(f, n + 1, Len(f))
         IN  /\ g2 \in Seq(Nat) /\ f2 \in Seq(Nat)
             /\ Len(g2) = Len(g) + n /\ Len(f2) = Len(f) - n
             /\ \A k \in 1..Len(g) : g2[k] = g[k]
             /\ \A k \in 1..n : g2[Len(g) + k] = f[k]
             /\ \A k \in 1..Len(f) - n : f2[k] = f[n + k]
<1> DEFINE s == SubSeq(f, 1, n)
           f2 == SubSeq(f, n + 1, Len(f))
<1>0. Len(f) \in Nat /\ Len(g) \in Nat /\ n \in Nat /\ n <= Len(f)
  OBVIOUS
<1>1. s \in Seq(Nat) /\ Len(s) = n /\ \A k \in 1..n : s[k] = f[k]
  <2>1. \A k \in 1..n : f[k] \in Nat
    BY <1>0
  <2> QED
    BY <1>0, <2>1
<1>2. f2 \in Seq(Nat) /\ Len(f2) = Len(f) - n /\ \A k \in 1..Len(f) - n : f2[k] = f[n + k]
  BY <1>0
<1> HIDE DEF s, f2
<1>3. /\ g \o s \in Seq(Nat) /\ Len(g \o s) = Len(g) + n
      /\ \A k \in 1..Len(g) : (g \o s)[k] = g[k]
      /\ \A k \in 1..n : (g \o s)[Len(g) + k] = s[k]
  <2>1. g \o s \in Seq(Nat) /\ Len(g \o s) = Len(g) + n
    BY <1>1, ConcatProperties
  <2>2. \A k \in 1..Len(g) + Len(s) : (g \o s)[k] = IF k <= Len(g) THEN g[k] ELSE s[k - Len(g)]
    BY <1>1, ConcatProperties
  <2>3. \A k \in 1..Len(g) : (g \o s)[k] = g[k]
    BY <1>0, <1>1, <2>2
  <2>4. ASSUME NEW k \in 1..n
        PROVE  (g \o s)[Len(g) + k] = s[k]
    <3>1. Len(g) + k \in 1..Len(g) + Len(s) /\ ~(Len(g) + k <= Len(g)) /\ Len(g) + k - Len(g) = k
      BY <1>0, <1>1
    <3> QED
      BY <2>2, <3>1
  <2> QED
    BY <2>1, <2>3, <2>4
<1> QED
  BY <1>1, <1>2, <1>3 DEF s, f2

\* Steps that move no words: the numbers, and what is to be sent, stay as they are.
LEMMA WordsKept ==
  ASSUME TransferInv, fifo' = fifo, host'.got = host.got, host'.given = host.given,
         in'.txPtr = in.txPtr, in'.txWords = in.txWords
  PROVE  WordsInv'
BY DEF TransferInv, WordsInv

LEMMA BatchFacts ==
  ASSUME TransferTypes
  PROVE  LET n == IF fifo = <<>> THEN Batch ELSE 0
         IN  n \in Nat /\ n <= in.txWords /\ Len(fifo) + n <= FifoSize /\ (fifo # <<>> => n = 0)
<1>1. in.txWords \in Nat /\ FifoSize \in Nat /\ Len(fifo) \in Nat /\ Len(fifo) <= FifoSize
  BY EndpointAssumption DEF TransferTypes, InState
<1>2. Batch \in Nat /\ Batch <= in.txWords /\ Len(fifo) + Batch <= FifoSize
  BY <1>1 DEF Batch, Smaller
<1> HIDE DEF Batch
<1> QED
  BY <1>1, <1>2

LEMMA InHandler ==
  ASSUME TransferInv, HandleInterruptsIn
  PROVE  TransferInv'
<1> DEFINE n == IF fifo = <<>> THEN Batch ELSE 0
           e == in.empty /\ ~(fifo = <<>> /\ in.txWords = n)
           c == in.complete \/ in.xfrc
           d == in.disabled \/ in.epdisd
           w == in.txWords - n
           p == in.txPtr + n
<1>0. TransferTypes /\ WordsInv /\ FaultlessInv /\ InInv /\ OutInv
  BY DEF TransferInv
<1>1. InPending /\ fifo' = fifo \o [k \in 1..n |-> in.txPtr + k]
      /\ out' = out /\ rx' = rx /\ host' = host
  BY DEF HandleInterruptsIn
<1>2. in' = [in EXCEPT !.txPtr = p, !.txWords = w, !.empty = e, !.complete = c, !.disabled = d,
                       !.xfrc = FALSE, !.epdisd = FALSE]
  BY <1>0 DEF HandleInterruptsIn, TransferTypes, InState
<1>3. n \in Nat /\ n <= in.txWords /\ Len(fifo) + n <= FifoSize /\ (fifo # <<>> => n = 0)
  BY <1>0, BatchFacts
<1> HIDE DEF n
<1>4. /\ fifo \in Seq(Nat) /\ Len(fifo) \in Nat /\ in.txPtr \in Nat /\ in.txWords \in Nat
      /\ MaxWords \in Nat /\ host.given \in 0..MaxWords /\ in.txPtr + in.txWords <= host.given
      /\ in.left \in Nat /\ Len(host.got) \in Nat
  BY <1>0, EndpointAssumption DEF TransferTypes, InState, LineState, WordsInv
<1>5. /\ fifo' \in Seq(Nat) /\ Len(fifo') = Len(fifo) + n
      /\ n = 0 => fifo' = fifo
      /\ n # 0 => fifo = <<>> /\ \A k \in 1..Len(fifo') : fifo'[k] = in.txPtr + k
  <2> DEFINE v == [k \in 1..n |-> in.txPtr + k]
  <2>1. v \in Seq(Nat) /\ Len(v) = n /\ \A k \in 1..n : v[k] = in.txPtr + k
    <3>1. \A k \in 1..n : in.txPtr + k \in Nat
      BY <1>4
    <3> QED
      BY <1>3, <3>1
  <2>2. fifo' = fifo \o v
    BY <1>1
  <2> HIDE DEF v
  <2>3. /\ fifo \o v \in Seq(Nat) /\ Len(fifo \o v) = Len(fifo) + n
        /\ n = 0 => fifo \o v = fifo
        /\ n # 0 => fifo = <<>> /\ fifo \o v = v
    <3>1. CASE n = 0
      <4>1. v = <<>>
        BY <2>1, <3>1
      <4>2. fifo \o v = fifo
        BY <1>4, <4>1
      <4> QED
        BY <1>4, <3>1, <4>2
    <3>2. CASE n # 0
      <4>1. fifo = <<>>
        BY <1>3, <3>2
      <4>2. fifo \o v = v
        BY <2>1, <4>1
      <4>3. Len(fifo) + n = n
        BY <1>3, <4>1
      <4> QED
        BY <2>1, <3>2, <4>1, <4>2, <4>3
    <3> QED
      BY <3>1, <3>2
  <2> QED
    BY <2>1, <2>2, <2>3
<1>6. e \in BOOLEAN /\ c \in BOOLEAN /\ d \in BOOLEAN /\ w \in 0..MaxWords /\ p \in 0..MaxWords /\ FALSE \in BOOLEAN
  BY <1>0, <1>3, <1>4 DEF TransferTypes, InState
<1>7. e => in.empty
  OBVIOUS
<1>8. n = in.txWords /\ fifo = <<>> => ~e
  OBVIOUS
<1>9. (c <=> in.complete \/ in.xfrc) /\ (d <=> in.disabled \/ in.epdisd) /\ w + n = in.txWords /\ p = in.txPtr + n
  BY <1>3, <1>4
<1> HIDE DEF e, c, d, w, p
<1>10. in' \in InState
  <2>1. in \in InState
    BY <1>0 DEF TransferTypes
  <2>2. [in EXCEPT !.txPtr = p, !.txWords = w, !.empty = e] \in InState
    BY <1>6, <2>1 DEF InState
  <2>3. PICK x \in InState : x = [in EXCEPT !.txPtr = p, !.txWords = w, !.empty = e]
    BY <2>2
  <2>4. in' = [x EXCEPT !.complete = c, !.disabled = d, !.xfrc = FALSE, !.epdisd = FALSE]
    BY <1>2, <2>1, <2>3 DEF InState
  <2> QED
    BY <1>6, <2>4 DEF InState
<1>11. /\ in'.pc = in.pc /\ in'.start = in.start /\ in'.txPtr = p /\ in'.txWords = w /\ in'.empty = e /\ in'.complete = c
       /\ in'.disabled = d /\ ~in'.xfrc /\ ~in'.epdisd /\ in'.epena = in.epena
       /\ in'.epdis = in.epdis /\ in'.left = in.left
  BY <1>0, <1>2 DEF TransferTypes, InState
<1>12. TransferTypes'
  BY <1>0, <1>1, <1>3, <1>5, <1>10 DEF TransferTypes
<1>13. WordsInv'
  <2>1. CASE n = 0
    <3>1. in'.txPtr = in.txPtr /\ in'.txWords = in.txWords /\ fifo' = fifo
      BY <1>4, <1>5, <1>6, <1>9, <1>11, <2>1
    <3> QED
      BY <1>1, <3>1, WordsKept
  <2>2. CASE n # 0
    <3>1. \A k \in 1..Len(fifo') : fifo'[k] = in.txPtr + k /\ fifo'[k] <= p
      BY <1>3, <1>4, <1>5, <1>9, <2>2
    <3>2. \A j \in 1..Len(host.got) : host.got[j] \in Nat /\ host.got[j] <= in.txPtr /\ host.got[j] <= p
      <4> TAKE j \in 1..Len(host.got)
      <4>0. host.got \in Seq(Nat)
        BY <1>0 DEF TransferTypes, LineState
      <4>1. host.got[j] \in Nat
        BY <4>0
      <4>2. host.got[j] <= in.txPtr
        BY <1>0 DEF WordsInv
      <4> QED
        BY <1>3, <1>4, <1>9, <4>1, <4>2
    <3>3. \A j, k \in 1..Len(fifo') : j < k => fifo'[j] < fifo'[k]
      BY <1>4, <1>5, <3>1
    <3>4. \A j \in 1..Len(host.got), k \in 1..Len(fifo') : host.got[j] < fifo'[k]
      <4> TAKE j \in 1..Len(host.got), k \in 1..Len(fifo')
      <4>1. host.got[j] \in Nat /\ host.got[j] <= in.txPtr /\ fifo'[k] = in.txPtr + k /\ k \in Nat /\ k > 0
        BY <1>5, <3>1, <3>2
      <4> QED
        BY <1>4, <4>1
    <3>5. p + w <= host.given
      BY <1>3, <1>4, <1>6, <1>9
    <3> QED
      BY <1>0, <1>1, <1>11, <3>1, <3>2, <3>3, <3>4, <3>5 DEF WordsInv
  <2> QED
    BY <2>1, <2>2
<1>14. FaultlessInv'
  <2> SUFFICES ASSUME host.faults = {}
               PROVE  FaultlessInv'
    BY <1>1 DEF FaultlessInv
  <2>0. /\ in.txPtr + in.txWords = host.given
        /\ Len(host.got) + Len(fifo) = in.txPtr
        /\ \A j \in 1..Len(host.got) : host.got[j] = j
        /\ \A k \in 1..Len(fifo) : fifo[k] = Len(host.got) + k
        /\ in.pc \in {"out", "transmit", "wait"} /\ ~in.epdis /\ ~in.epdisd /\ ~in.disabled
        /\ in.txWords = 0 => ~in.empty
        /\ in.pc = "out" => in.txWords = 0
        /\ in.pc # "wait" => fifo = <<>> /\ ~in.empty
        /\ in.pc = "wait" => in.left = Len(fifo) + in.txWords /\ (in.epena \/ in.left = 0)
        /\ host.reported = IF in.pc = "out" THEN host.given ELSE in.start
    BY <1>0 DEF FaultlessInv
  <2>1. in.pc = "wait"
    BY <1>0, <1>1, <2>0 DEF InPending, InInv
  <2>2. \A k \in 1..Len(fifo') : fifo'[k] = Len(host.got) + k
    <3>1. CASE n = 0
      BY <1>5, <2>0, <3>1
    <3>2. CASE n # 0
      <4>1. Len(fifo) = 0
        BY <1>5, <3>2
      <4>2. in.txPtr = Len(host.got)
        BY <1>4, <2>0, <4>1
      <4> QED
        BY <1>5, <3>2, <4>2
    <3> QED
      BY <3>1, <3>2
  <2>3. p + w = host.given /\ Len(host.got) + Len(fifo') = p /\ in.left = Len(fifo') + w
    <3>1. w \in Nat /\ p \in Nat /\ n \in Nat /\ Len(fifo') = Len(fifo) + n
      BY <1>3, <1>4, <1>5, <1>6
    <3>2. in.txPtr + in.txWords = host.given /\ Len(host.got) + Len(fifo) = in.txPtr /\ in.left = Len(fifo) + in.txWords
      BY <2>0, <2>1
    <3>0. w + n = in.txWords /\ p = in.txPtr + n
      BY <1>9
    <3>3. p + w = host.given
      <4>1. in.txPtr \in Nat /\ in.txWords \in Nat /\ host.given \in Nat
        BY <1>4
      <4>2. w + n = in.txWords
        BY <3>0
      <4>3. p = in.txPtr + n
        BY <3>0
      <4>4. in.txPtr + in.txWords = host.given
        BY <3>2
      <4> QED
        BY <3>1, <4>1, <4>2, <4>3, <4>4
    <3>4. Len(host.got) + Len(fifo') = p
      <4> DEFINE g == Len(host.got)
                 f == Len(fifo)
                 x == in.txPtr
      <4>1. g \in Nat /\ f \in Nat /\ x \in Nat /\ n \in Nat
        BY <1>4, <3>1
      <4>2. g + f = x
        BY <3>2
      <4>3. Len(host.got) = g /\ Len(fifo') = f + n /\ p = x + n
        BY <3>0, <3>1
      <4> HIDE DEF g, f, x
      <4>4. g + (f + n) = x + n
        BY <4>1, <4>2
      <4> QED
        BY <4>3, <4>4
    <3>5. in.left = Len(fifo') + w
      BY <1>4, <1>9, <3>1, <3>2
    <3> QED
      BY <3>3, <3>4, <3>5
  <2>4. w = 0 => ~e
    <3>1. CASE fifo = <<>>
      BY <1>3, <1>4, <1>6, <1>8, <1>9, <3>1
    <3>2. CASE fifo # <<>>
      BY <1>3, <1>4, <1>6, <1>7, <1>9, <2>0, <3>2
    <3> QED
      BY <3>1, <3>2
  <2> QED
    BY <1>1, <1>9, <1>11, <2>0, <2>1, <2>2, <2>3, <2>4 DEF FaultlessInv
<1>15. InInv' /\ OutInv'
  <2>1. in.txWords = 0 => w = 0
    BY <1>3, <1>4, <1>6, <1>9
  <2>2. OutInv'
    BY <1>0, <1>1 DEF OutInv
  <2>3. InInv'
    BY <1>0, <1>1, <1>9, <1>11, <2>1 DEF InInv
  <2> QED
    BY <2>2, <2>3
<1> QED
  BY <1>12, <1>13, <1>14, <1>15 DEF TransferInv

\* A step that leaves the IN endpoint alone, and one that leaves the OUT endpoint alone.
LEMMA InSideKept ==
  ASSUME TransferInv, in' = in, fifo' = fifo, host'.got = host.got, host'.given = host.given,
         host'.reported = host.reported, host'.faults = host.faults
  PROVE  WordsInv' /\ FaultlessInv' /\ InInv'
<1>1. WordsInv'
  BY WordsKept
<1>2. FaultlessInv' /\ InInv'
  BY DEF TransferInv, FaultlessInv, InInv
<1> QED
  BY <1>1, <1>2

LEMMA OutSideKept ==
  ASSUME out' = out, rx' = rx, host'.sent = host.sent, host'.returned = host.returned,
         "reset" \in host.faults => "reset" \in host'.faults
  PROVE  (OutInv => OutInv') /\ (ReportInv => ReportInv')
BY DEF OutInv, ReportInv

LEMMA Send ==
  ASSUME TransferInv, NEW words \in Sends, SendPacket(words), in.txWords = 0
  PROVE  TransferInv'
<1> DEFINE g == host.given + words
           p == host.given
<1>0. TransferTypes /\ WordsInv /\ FaultlessInv /\ InInv /\ OutInv
  BY DEF TransferInv
<1>1. /\ in.pc = "out" /\ g <= MaxWords
      /\ in' = [in EXCEPT !.pc = "transmit", !.txWords = words, !.txPtr = p, !.start = p, !.complete = FALSE,
                          !.disabled = FALSE]
      /\ host' = [host EXCEPT !.given = g]
      /\ fifo' = fifo /\ out' = out /\ rx' = rx
  BY <1>0 DEF SendPacket, TransferTypes, LineState
<1>2. /\ words \in Nat /\ p \in Nat /\ MaxWords \in Nat /\ p <= MaxWords
      /\ in.txPtr \in Nat /\ in.txWords \in Nat /\ in.txPtr + in.txWords <= p
  BY <1>0, EndpointAssumption DEF TransferTypes, InState, LineState, WordsInv
<1>3. g \in 0..MaxWords /\ p \in 0..MaxWords /\ words \in 0..MaxWords /\ p + words = g /\ in.txPtr <= p
  <2>1. p + words = g
    OBVIOUS
  <2> HIDE DEF g, p
  <2>2. g \in Nat /\ g <= MaxWords /\ words <= g
    BY <1>1, <1>2, <2>1
  <2>3. in.txPtr <= p
    BY <1>2
  <2> QED
    BY <1>2, <2>1, <2>2, <2>3
<1>4. host.given = p
  OBVIOUS
<1> HIDE DEF g, p
<1>5. in' \in InState
  BY <1>0, <1>1, <1>3 DEF TransferTypes, InState
<1>6. host' \in LineState
  BY <1>0, <1>1, <1>3 DEF TransferTypes, LineState
<1>7. /\ in'.pc = "transmit" /\ in'.txWords = words /\ in'.txPtr = p /\ in'.start = p /\ ~in'.complete /\ ~in'.disabled
      /\ in'.empty = in.empty /\ in'.epena = in.epena /\ in'.epdis = in.epdis /\ in'.left = in.left
      /\ in'.xfrc = in.xfrc /\ in'.epdisd = in.epdisd
      /\ host'.given = g /\ host'.got = host.got /\ host'.faults = host.faults
      /\ host'.sent = host.sent /\ host'.returned = host.returned /\ host'.reported = host.reported
  BY <1>0, <1>1 DEF TransferTypes, InState, LineState
<1>8. TransferTypes'
  BY <1>0, <1>1, <1>5, <1>6 DEF TransferTypes
<1>9. WordsInv'
  <2>1. \A j \in 1..Len(host.got) : host.got[j] <= p
    <3> TAKE j \in 1..Len(host.got)
    <3>1. host.got[j] \in Nat /\ host.got[j] <= in.txPtr
      BY <1>0 DEF TransferTypes, LineState, WordsInv
    <3> QED
      BY <1>2, <1>3, <3>1
  <2>2. \A k \in 1..Len(fifo) : fifo[k] <= p
    <3> TAKE k \in 1..Len(fifo)
    <3>1. fifo[k] \in Nat /\ fifo[k] <= in.txPtr
      BY <1>0 DEF TransferTypes, WordsInv
    <3> QED
      BY <1>2, <1>3, <3>1
  <2>3. p + words <= g
    BY <1>3
  <2> QED
    BY <1>0, <1>1, <1>7, <2>1, <2>2, <2>3 DEF WordsInv
<1>10. FaultlessInv'
  <2>1. host.faults = {} => in.txPtr = p
    <3> SUFFICES ASSUME host.faults = {}
                 PROVE  in.txPtr = p
      OBVIOUS
    <3>1. in.txPtr + in.txWords = p /\ in.txWords = 0
      BY <1>0, <1>1, <1>4 DEF FaultlessInv
    <3> QED
      BY <1>2, <3>1
  <2>2. p + words = g
    BY <1>3
  <2> QED
    BY <1>0, <1>1, <1>4, <1>7, <2>1, <2>2 DEF FaultlessInv
<1>11. InInv' /\ OutInv'
  BY <1>0, <1>1, <1>7, OutSideKept DEF InInv
<1> QED
  BY <1>8, <1>9, <1>10, <1>11 DEF TransferInv

\* SendPacket stops at its assertion: a fault has left words of an earlier call.
LEMMA SendFails ==
  ASSUME TransferInv, NEW words \in Sends, SendPacket(words), in.txWords # 0
  PROVE  TransferInv'
<1>0. TransferTypes /\ WordsInv /\ FaultlessInv /\ InInv /\ OutInv
  BY DEF TransferInv
<1>1. /\ in.pc = "out" /\ in' = [in EXCEPT !.pc = "failed"]
      /\ host' = host /\ fifo' = fifo /\ out' = out /\ rx' = rx
  BY DEF SendPacket
<1>2. in' \in InState
  BY <1>0, <1>1 DEF TransferTypes, InState
<1>3. /\ in'.pc = "failed" /\ in'.txWords = in.txWords /\ in'.txPtr = in.txPtr /\ in'.complete = in.complete
      /\ in'.disabled = in.disabled /\ in'.epena = in.epena /\ in'.epdis = in.epdis
      /\ in'.xfrc = in.xfrc /\ in'.epdisd = in.epdisd
  BY <1>0, <1>1 DEF TransferTypes, InState
<1>4. TransferTypes' /\ WordsInv'
  BY <1>0, <1>1, <1>2, <1>3, WordsKept DEF TransferTypes
<1>5. FaultlessInv'
  BY <1>0, <1>1 DEF FaultlessInv
<1>6. InInv' /\ OutInv'
  BY <1>0, <1>1, <1>3, OutSideKept DEF InInv
<1> QED
  BY <1>4, <1>5, <1>6 DEF TransferInv

LEMMA TransmitStep ==
  ASSUME TransferInv, Transmit
  PROVE  TransferInv'
<1> DEFINE e == in.empty \/ in.txWords > 0
<1>0. TransferTypes /\ WordsInv /\ FaultlessInv /\ InInv /\ OutInv
  BY DEF TransferInv
<1>1. /\ in.pc = "transmit"
      /\ in' = [in EXCEPT !.pc = "wait", !.epena = TRUE, !.left = in.txWords, !.empty = e]
      /\ host' = host /\ fifo' = fifo /\ out' = out /\ rx' = rx
  BY <1>0 DEF Transmit, TransferTypes, InState
<1>2. e \in BOOLEAN /\ in.txWords \in 0..MaxWords /\ TRUE \in BOOLEAN
  BY <1>0 DEF TransferTypes, InState
<1>3. in.txWords = 0 /\ ~in.empty => ~e
  BY <1>2
<1> HIDE DEF e
<1>4. in' \in InState
  BY <1>0, <1>1, <1>2 DEF TransferTypes, InState
<1>5. /\ in'.pc = "wait" /\ in'.txWords = in.txWords /\ in'.txPtr = in.txPtr /\ in'.start = in.start
      /\ in'.complete = in.complete
      /\ in'.disabled = in.disabled /\ in'.empty = e /\ in'.epena /\ in'.epdis = in.epdis
      /\ in'.left = in.txWords /\ in'.xfrc = in.xfrc /\ in'.epdisd = in.epdisd
  BY <1>0, <1>1 DEF TransferTypes, InState
<1>6. TransferTypes' /\ WordsInv'
  BY <1>0, <1>1, <1>4, <1>5, WordsKept DEF TransferTypes
<1>7. FaultlessInv'
  <2>1. host.faults = {} => Len(fifo) = 0 /\ Len(fifo) + in.txWords = in.txWords
    BY <1>0, <1>1, <1>2 DEF FaultlessInv
  <2> QED
    BY <1>0, <1>1, <1>3, <1>5, <2>1 DEF FaultlessInv
<1>8. InInv' /\ OutInv'
  BY <1>0, <1>1, <1>5, OutSideKept DEF InInv
<1> QED
  BY <1>6, <1>7, <1>8 DEF TransferInv

LEMMA SendCompletes ==
  ASSUME TransferInv, SendComplete
  PROVE  TransferInv'
<1> DEFINE q == host.reported + Sent
<1>0. TransferTypes /\ WordsInv /\ FaultlessInv /\ InInv /\ OutInv
  BY DEF TransferInv
<1>1. /\ ThreadRuns /\ in.pc = "wait" /\ in.complete /\ in' = [in EXCEPT !.pc = "out"]
      /\ host' = [host EXCEPT !.reported = q] /\ fifo' = fifo /\ out' = out /\ rx' = rx
  BY <1>0 DEF SendComplete, TransferTypes, LineState
<1>2. in' \in InState
  BY <1>0, <1>1 DEF TransferTypes, InState
<1>3. /\ in'.pc = "out" /\ in'.txWords = in.txWords /\ in'.txPtr = in.txPtr /\ in'.complete = in.complete
      /\ in'.disabled = in.disabled /\ in'.empty = in.empty /\ in'.epena = in.epena /\ in'.epdis = in.epdis
      /\ in'.left = in.left /\ in'.xfrc = in.xfrc /\ in'.epdisd = in.epdisd
  BY <1>0, <1>1 DEF TransferTypes, InState
<1>8. /\ q \in Int /\ in.txPtr \in Nat /\ in.start \in Nat /\ in.txWords \in Nat
      /\ q = host.reported + (in.txPtr - in.start)
  BY <1>0, EndpointAssumption DEF TransferTypes, InState, LineState, Sent
<1> HIDE DEF q
<1>9. /\ host' \in LineState /\ host'.reported = q /\ host'.given = host.given /\ host'.got = host.got
      /\ host'.faults = host.faults /\ host'.sent = host.sent /\ host'.returned = host.returned
  BY <1>0, <1>1, <1>8 DEF TransferTypes, LineState
<1>4. TransferTypes' /\ WordsInv'
  BY <1>0, <1>1, <1>2, <1>3, <1>9, WordsKept DEF TransferTypes
<1>5. ~in.xfrc /\ ~in.epdisd /\ (in.empty => fifo # <<>>)
  BY <1>1 DEF ThreadRuns, InPending
<1>6. FaultlessInv'
  <2> SUFFICES ASSUME host.faults = {}
               PROVE  FaultlessInv'
    BY <1>9 DEF FaultlessInv
  <2>1. ~in.epena /\ in.left = 0 /\ in.left = Len(fifo) + in.txWords
    BY <1>0, <1>1 DEF FaultlessInv, InInv
  <2>2. in.txWords = 0 /\ fifo = <<>>
    <3>1. Len(fifo) \in Nat /\ in.txWords \in Nat /\ Len(fifo) + in.txWords = 0
      BY <1>0, <2>1 DEF TransferTypes, InState
    <3>2. Len(fifo) = 0 /\ in.txWords = 0
      BY <3>1
    <3> QED
      BY <1>0, <3>2 DEF TransferTypes
  <2>3. q = host.given
    <3>1. host.reported = in.start /\ in.txPtr + in.txWords = host.given
      BY <1>0, <1>1 DEF FaultlessInv
    <3> QED
      BY <1>8, <2>2, <3>1
  <2> QED
    BY <1>0, <1>1, <1>3, <1>5, <1>9, <2>2, <2>3 DEF FaultlessInv
<1>7. InInv' /\ OutInv'
  BY <1>0, <1>1, <1>3, <1>5, <1>9, OutSideKept DEF InInv
<1> QED
  BY <1>4, <1>6, <1>7 DEF TransferInv

LEMMA SendTimesOut ==
  ASSUME TransferInv, SendTimeout
  PROVE  TransferInv'
<1> DEFINE f == host.faults \cup {"timeout"}
<1>0. TransferTypes /\ WordsInv /\ FaultlessInv /\ InInv /\ OutInv
  BY DEF TransferInv
<1>1. /\ ThreadRuns /\ in.pc = "wait" /\ ~in.complete /\ in' = [in EXCEPT !.pc = "reset"]
      /\ host' = [host EXCEPT !.faults = f]
      /\ fifo' = fifo /\ out' = out /\ rx' = rx
  BY <1>0 DEF SendTimeout, TransferTypes, LineState
<1>2. f \in SUBSET {"timeout", "reset"} /\ f # {} /\ ("reset" \in f <=> "reset" \in host.faults)
  BY <1>0 DEF TransferTypes, LineState
<1> HIDE DEF f
<1>3. in' \in InState /\ host' \in LineState
  BY <1>0, <1>1, <1>2 DEF TransferTypes, InState, LineState
<1>4. /\ in'.pc = "reset" /\ in'.txWords = in.txWords /\ in'.txPtr = in.txPtr /\ in'.complete = in.complete
      /\ in'.disabled = in.disabled /\ in'.empty = in.empty /\ in'.epena = in.epena /\ in'.epdis = in.epdis
      /\ in'.left = in.left /\ in'.xfrc = in.xfrc /\ in'.epdisd = in.epdisd
      /\ host'.given = host.given /\ host'.got = host.got /\ host'.faults = f
      /\ host'.sent = host.sent /\ host'.returned = host.returned
  BY <1>0, <1>1 DEF TransferTypes, InState, LineState
<1>5. TransferTypes' /\ WordsInv'
  BY <1>0, <1>1, <1>3, <1>4, WordsKept DEF TransferTypes
<1>6. FaultlessInv'
  BY <1>2, <1>4 DEF FaultlessInv
<1>7. InInv'
  BY <1>0, <1>1, <1>2, <1>4 DEF InInv
<1>8. OutInv'
  BY <1>0, <1>1, <1>2, <1>4, OutSideKept
<1> QED
  BY <1>5, <1>6, <1>7, <1>8 DEF TransferInv

\* Behind a timeout FaultlessInv says nothing.
LEMMA SendResets ==
  ASSUME TransferInv, SendReset
  PROVE  TransferInv'
<1>0. TransferTypes /\ WordsInv /\ FaultlessInv /\ InInv /\ OutInv
  BY DEF TransferInv
<1>1. /\ ThreadRuns /\ in.pc = "reset" /\ in' = [in EXCEPT !.pc = "disable", !.epdis = in.epena]
      /\ host' = host /\ fifo' = fifo /\ out' = out /\ rx' = rx
  BY DEF SendReset
<1>2. in' \in InState
  <2>1. in.epena \in BOOLEAN
    BY <1>0 DEF TransferTypes, InState
  <2> QED
    BY <1>0, <1>1, <2>1 DEF TransferTypes, InState
<1>3. /\ in'.pc = "disable" /\ in'.txWords = in.txWords /\ in'.txPtr = in.txPtr /\ in'.complete = in.complete
      /\ in'.disabled = in.disabled /\ in'.empty = in.empty /\ in'.epena = in.epena /\ in'.epdis = in.epena
      /\ in'.left = in.left /\ in'.xfrc = in.xfrc /\ in'.epdisd = in.epdisd
  BY <1>0, <1>1 DEF TransferTypes, InState
<1>4. TransferTypes' /\ WordsInv'
  BY <1>0, <1>1, <1>2, <1>3, WordsKept DEF TransferTypes
<1>5. FaultlessInv'
  <2>1. host.faults # {}
    BY <1>0, <1>1 DEF FaultlessInv
  <2> QED
    BY <1>1, <2>1 DEF FaultlessInv
<1>6. InInv' /\ OutInv'
  BY <1>0, <1>1, <1>3, OutSideKept DEF InInv
<1> QED
  BY <1>4, <1>5, <1>6 DEF TransferInv

LEMMA SendGivesUp ==
  ASSUME TransferInv, SendDisabled
  PROVE  TransferInv'
<1> DEFINE q == host.reported + Sent
<1>0. TransferTypes /\ WordsInv /\ FaultlessInv /\ InInv /\ OutInv
  BY DEF TransferInv
<1>1. /\ ThreadRuns /\ in.pc = "disable" /\ in.disabled /\ in' = [in EXCEPT !.pc = "out", !.txWords = 0]
      /\ host' = [host EXCEPT !.reported = q] /\ fifo' = fifo /\ out' = out /\ rx' = rx
  BY <1>0 DEF SendDisabled, Abandoned, TransferTypes, LineState
<1>2. in' \in InState
  <2>1. 0 \in 0..MaxWords
    BY EndpointAssumption
  <2> QED
    BY <1>0, <1>1, <2>1 DEF TransferTypes, InState
<1>3. /\ in'.pc = "out" /\ in'.txWords = 0 /\ in'.txPtr = in.txPtr /\ in'.complete = in.complete
      /\ in'.disabled = in.disabled /\ in'.empty = in.empty /\ in'.epena = in.epena /\ in'.epdis = in.epdis
      /\ in'.left = in.left /\ in'.xfrc = in.xfrc /\ in'.epdisd = in.epdisd
  BY <1>0, <1>1 DEF TransferTypes, InState
<1>9. q \in Int
  BY <1>0, EndpointAssumption DEF TransferTypes, InState, LineState, Sent
<1> HIDE DEF q
<1>10. /\ host' \in LineState /\ host'.given = host.given /\ host'.got = host.got
       /\ host'.faults = host.faults /\ host'.sent = host.sent /\ host'.returned = host.returned
  BY <1>0, <1>1, <1>9 DEF TransferTypes, LineState
<1>4. TransferTypes'
  BY <1>0, <1>1, <1>2, <1>10 DEF TransferTypes
<1>5. WordsInv'
  <2>1. in.txPtr + 0 <= host.given
    <3>1. in.txPtr \in Nat /\ in.txWords \in Nat /\ host.given \in Nat /\ in.txPtr + in.txWords <= host.given
      BY <1>0, EndpointAssumption DEF TransferTypes, InState, LineState, WordsInv
    <3> QED
      BY <3>1
  <2> QED
    BY <1>0, <1>1, <1>3, <1>10, <2>1 DEF WordsInv
<1>6. FaultlessInv'
  <2>1. host.faults # {}
    BY <1>0, <1>1 DEF FaultlessInv
  <2> QED
    BY <1>10, <2>1 DEF FaultlessInv
<1>7. ~in.xfrc /\ ~in.epdisd
  BY <1>1 DEF ThreadRuns, InPending
<1>8. InInv' /\ OutInv'
  BY <1>0, <1>1, <1>3, <1>7, <1>10, OutSideKept DEF InInv
<1> QED
  BY <1>4, <1>5, <1>6, <1>8 DEF TransferInv

LEMMA InIsDisabled ==
  ASSUME TransferInv, InDisabled
  PROVE  TransferInv'
<1>0. TransferTypes /\ WordsInv /\ FaultlessInv /\ InInv /\ OutInv
  BY DEF TransferInv
<1>1. /\ in.epdis /\ in' = [in EXCEPT !.epdis = FALSE, !.epena = FALSE, !.epdisd = TRUE]
      /\ host' = host /\ fifo' = fifo /\ out' = out /\ rx' = rx
  BY DEF InDisabled
<1>2. in' \in InState
  BY <1>0, <1>1 DEF TransferTypes, InState
<1>3. /\ in'.pc = in.pc /\ in'.txWords = in.txWords /\ in'.txPtr = in.txPtr /\ in'.complete = in.complete
      /\ in'.disabled = in.disabled /\ in'.empty = in.empty /\ ~in'.epena /\ ~in'.epdis
      /\ in'.left = in.left /\ in'.xfrc = in.xfrc /\ in'.epdisd
  BY <1>0, <1>1 DEF TransferTypes, InState
<1>4. TransferTypes' /\ WordsInv'
  BY <1>0, <1>1, <1>2, <1>3, WordsKept DEF TransferTypes
<1>5. FaultlessInv'
  <2>1. host.faults # {}
    BY <1>0, <1>1 DEF FaultlessInv
  <2> QED
    BY <1>1, <2>1 DEF FaultlessInv
<1>6. InInv' /\ OutInv'
  BY <1>0, <1>1, <1>3, OutSideKept DEF InInv
<1> QED
  BY <1>4, <1>5, <1>6 DEF TransferInv

\* The core takes n words out of the FIFO: those that the host gets keep their order.
LEMMA HostTakes ==
  ASSUME TransferInv, HostIn
  PROVE  TransferInv'
<1> DEFINE size == Smaller(PacketWords, in.left)
           r == in.left - size
           more == in.left > size
           last == in.left = size
<1>0. TransferTypes /\ WordsInv /\ FaultlessInv /\ InInv /\ OutInv
  BY DEF TransferInv
<1>1. /\ in.epena /\ ~in.epdis /\ size <= Len(fifo)
      /\ fifo' = SubSeq(fifo, size + 1, Len(fifo))
      /\ in' = [in EXCEPT !.left = r, !.epena = more, !.xfrc = last]
      /\ out' = out /\ rx' = rx
  <2>1. in.left \in Nat /\ PacketWords \in Nat /\ Len(fifo) \in Nat
    BY <1>0, EndpointAssumption DEF TransferTypes, InState
  <2>2. size \in Nat
    BY <2>1 DEF Smaller
  <2>3. Len(fifo) >= size
    BY DEF HostIn
  <2> HIDE DEF size
  <2>4. size <= Len(fifo)
    BY <2>1, <2>2, <2>3
  <2>5. /\ in.epena /\ ~in.epdis
        /\ fifo' = SubSeq(fifo, size + 1, Len(fifo))
        /\ in' = [in EXCEPT !.left = r, !.epena = more, !.xfrc = last]
        /\ out' = out /\ rx' = rx
    BY <1>0 DEF HostIn, TransferTypes, InState, size
  <2> QED
    BY <2>4, <2>5
<1>2. host' = [host EXCEPT !.got = host.got \o SubSeq(fifo, 1, size)]
  BY <1>0 DEF HostIn, TransferTypes, LineState
<1>3. /\ size \in Nat /\ in.left \in Nat /\ MaxWords \in Nat /\ in.left <= MaxWords /\ size <= in.left
      /\ Len(fifo) \in Nat /\ Len(host.got) \in Nat /\ fifo \in Seq(Nat) /\ host.got \in Seq(Nat)
      /\ in.txWords \in Nat
  BY <1>0, EndpointAssumption DEF TransferTypes, InState, LineState, Smaller
<1> HIDE DEF size
<1>4. /\ r \in 0..MaxWords /\ more \in BOOLEAN /\ last \in BOOLEAN /\ r + size = in.left
      /\ last => ~more /\ r = 0
      /\ ~more => r = 0
  <2>1. /\ r \in Nat /\ r <= MaxWords /\ r + size = in.left /\ (size = in.left => r = 0)
        /\ (in.left > size => size # in.left) /\ (~(in.left > size) => size = in.left)
    <3>1. PICK a \in Nat, z \in Nat : a = in.left /\ z = size /\ z <= a /\ a <= MaxWords
      BY <1>3
    <3>2. r = a - z
      BY <3>1
    <3> HIDE DEF r, more, last
    <3>3. a - z \in Nat /\ a - z <= a /\ (a - z) + z = a /\ (z = a => a - z = 0) /\ (~(a > z) => z = a)
      BY <3>1
    <3>4. a - z <= MaxWords
      BY <1>3, <3>1, <3>3
    <3> QED
      BY <3>1, <3>2, <3>3, <3>4
  <2> HIDE DEF r
  <2> QED
    BY <1>3, <2>1
<1> HIDE DEF r, more, last
<1>5. /\ host'.got \in Seq(Nat) /\ fifo' \in Seq(Nat)
      /\ Len(host'.got) = Len(host.got) + size /\ Len(fifo') = Len(fifo) - size
      /\ \A k \in 1..Len(host.got) : host'.got[k] = host.got[k]
      /\ \A k \in 1..size : host'.got[Len(host.got) + k] = fifo[k]
      /\ \A k \in 1..Len(fifo) - size : fifo'[k] = fifo[size + k]
  <2>1. PICK g \in Seq(Nat), f \in Seq(Nat), n \in Nat : g = host.got /\ f = fifo /\ n = size
    BY <1>3
  <2>2. n \in 0..Len(f)
    BY <1>1, <1>3, <2>1
  <2> DEFINE g2 == g \o SubSeq(f, 1, n)
             f2 == SubSeq(f, n + 1, Len(f))
  <2>3. /\ g2 \in Seq(Nat) /\ f2 \in Seq(Nat)
        /\ Len(g2) = Len(g) + n /\ Len(f2) = Len(f) - n
        /\ \A k \in 1..Len(g) : g2[k] = g[k]
        /\ \A k \in 1..n : g2[Len(g) + k] = f[k]
        /\ \A k \in 1..Len(f) - n : f2[k] = f[n + k]
    BY <2>2, MoveWords
  <2>4. host'.got = g2 /\ fifo' = f2
    BY <1>0, <1>1, <1>2, <2>1 DEF TransferTypes, LineState
  <2> HIDE DEF g2, f2
  <2> QED
    BY <2>1, <2>3, <2>4
<1>13. PICK l \in Nat, m \in Nat, z \in Nat :
         /\ l = Len(host.got) /\ m = Len(fifo) /\ z = size /\ z <= m
  BY <1>1, <1>3
<1>14. /\ Len(host'.got) = l + z /\ Len(fifo') = m - z
       /\ \A k \in 1..l : host'.got[k] = host.got[k]
       /\ \A k \in 1..z : host'.got[l + k] = fifo[k]
       /\ \A k \in 1..m - z : fifo'[k] = fifo[z + k]
  BY <1>5, <1>13
<1>6. in' \in InState
  BY <1>0, <1>1, <1>4 DEF TransferTypes, InState
<1>7. host' \in LineState
  <2>1. host.got \o SubSeq(fifo, 1, size) \in Seq(Nat)
    BY <1>0, <1>2, <1>5 DEF TransferTypes, LineState
  <2> QED
    BY <1>0, <1>2, <2>1 DEF TransferTypes, LineState
<1>8. /\ in'.pc = in.pc /\ in'.start = in.start /\ in'.txWords = in.txWords /\ in'.txPtr = in.txPtr /\ in'.complete = in.complete
      /\ in'.disabled = in.disabled /\ in'.empty = in.empty /\ in'.epena = more /\ in'.epdis = in.epdis
      /\ in'.left = r /\ in'.xfrc = last /\ in'.epdisd = in.epdisd
      /\ host'.given = host.given /\ host'.faults = host.faults
      /\ host'.sent = host.sent /\ host'.returned = host.returned /\ host'.reported = host.reported
  BY <1>0, <1>1, <1>2 DEF TransferTypes, InState, LineState
<1>9. TransferTypes'
  <2>1. Len(fifo') <= FifoSize
    BY <1>0, <1>1, <1>3, <1>5, EndpointAssumption DEF TransferTypes
  <2> QED
    BY <1>0, <1>1, <1>5, <1>6, <1>7, <2>1 DEF TransferTypes
<1>10. WordsInv'
  <2>1. \A j \in 1..l + z : \/ j \in 1..l /\ host'.got[j] = host.got[j]
                           \/ /\ j > l /\ j - l \in 1..z /\ j - l \in 1..m
                              /\ host'.got[j] = fifo[j - l]
    <3> TAKE j \in 1..l + z
    <3>1. CASE j <= l
      BY <1>13, <1>14, <3>1
    <3>2. CASE j > l
      <4>1. j - l \in 1..z /\ j - l \in 1..m /\ l + (j - l) = j
        BY <1>13, <1>14, <3>2
      <4> QED
        BY <1>14, <3>2, <4>1
    <3> QED
      BY <1>13, <3>1, <3>2
  <2>2. \A k \in 1..m - z : z + k \in 1..m /\ fifo'[k] = fifo[z + k]
    BY <1>13, <1>14
  <2>3. \A j, k \in 1..l + z : j < k => host'.got[j] < host'.got[k]
    <3> TAKE j, k \in 1..l + z
    <3> HAVE j < k
    <3>1. j \in Nat /\ k \in Nat
      OBVIOUS
    <3>2. CASE k \in 1..l /\ host'.got[k] = host.got[k]
      <4>1. j \in 1..l /\ host'.got[j] = host.got[j]
        BY <1>13, <2>1, <3>1, <3>2
      <4> QED
        BY <1>0, <1>13, <3>2, <4>1 DEF WordsInv
    <3>3. CASE k > l /\ k - l \in 1..m /\ host'.got[k] = fifo[k - l]
      <4>1. CASE j \in 1..l /\ host'.got[j] = host.got[j]
        BY <1>0, <1>13, <3>3, <4>1 DEF WordsInv
      <4>2. CASE j > l /\ j - l \in 1..m /\ host'.got[j] = fifo[j - l]
        <5>1. j - l < k - l
          BY <1>13, <3>1
        <5> QED
          BY <1>0, <1>13, <3>3, <4>2, <5>1 DEF WordsInv
      <4> QED
        BY <2>1, <4>1, <4>2
    <3> QED
      BY <2>1, <3>2, <3>3
  <2>4. \A j, k \in 1..m - z : j < k => fifo'[j] < fifo'[k]
    <3> TAKE j, k \in 1..m - z
    <3> HAVE j < k
    <3>1. z + j < z + k
      BY <1>13
    <3> QED
      BY <1>0, <1>13, <2>2, <3>1 DEF WordsInv
  <2>5. \A j \in 1..l + z, k \in 1..m - z : host'.got[j] < fifo'[k]
    <3> TAKE j \in 1..l + z, k \in 1..m - z
    <3>1. CASE j \in 1..l /\ host'.got[j] = host.got[j]
      BY <1>0, <1>13, <2>2, <3>1 DEF WordsInv
    <3>2. CASE j - l \in 1..z /\ j - l \in 1..m /\ host'.got[j] = fifo[j - l]
      <4>1. j - l < z + k
        BY <1>13, <3>2
      <4> QED
        BY <1>0, <1>13, <2>2, <3>2, <4>1 DEF WordsInv
    <3> QED
      BY <2>1, <3>1, <3>2
  <2>6. \A j \in 1..l + z : host'.got[j] <= in.txPtr
    BY <1>0, <1>13, <2>1 DEF WordsInv
  <2>7. \A k \in 1..m - z : fifo'[k] <= in.txPtr
    BY <1>0, <1>13, <2>2 DEF WordsInv
  <2> QED
    BY <1>0, <1>8, <1>14, <2>3, <2>4, <2>5, <2>6, <2>7 DEF WordsInv
<1>11. FaultlessInv'
  <2> SUFFICES ASSUME host.faults = {}
               PROVE  FaultlessInv'
    BY <1>8 DEF FaultlessInv
  <2>1. /\ in.pc = "wait" /\ ~in.epdisd /\ ~in.disabled
        /\ in.txPtr + in.txWords = host.given
        /\ Len(host.got) + Len(fifo) = in.txPtr
        /\ in.txWords = 0 => ~in.empty
        /\ host.reported = in.start
    BY <1>0, <1>1 DEF FaultlessInv, InInv
  <2>2. in.left = Len(fifo) + in.txWords
    BY <1>0, <2>1 DEF FaultlessInv
  <2>3. Len(host'.got) + Len(fifo') = in.txPtr
    <3>1. Len(host'.got) = Len(host.got) + size /\ Len(fifo') = Len(fifo) - size
      BY <1>5
    <3>2. Len(host.got) \in Nat /\ Len(fifo) \in Nat /\ size \in Nat
      BY <1>3
    <3> QED
      BY <2>1, <3>1, <3>2
  <2>4. r = Len(fifo') + in.txWords
    <3>1. Len(fifo') = Len(fifo) - size
      BY <1>5
    <3>2. in.txWords \in Nat /\ Len(fifo) \in Nat /\ size \in Nat /\ r \in Nat
      BY <1>3, <1>4
    <3>3. r + size = in.left
      BY <1>4
    <3> QED
      BY <2>2, <3>1, <3>2, <3>3
  <2>5. \A j \in 1..l + z : host'.got[j] = j
    <3> TAKE j \in 1..l + z
    <3>1. CASE j <= l
      <4>1. j \in 1..l
        BY <1>13, <3>1
      <4> QED
        BY <1>0, <1>13, <1>14, <4>1 DEF FaultlessInv
    <3>2. CASE j > l
      <4>1. j - l \in 1..z /\ j - l \in 1..m /\ l + (j - l) = j
        BY <1>13, <3>2
      <4>2. fifo[j - l] = l + (j - l)
        BY <1>0, <1>13, <4>1 DEF FaultlessInv
      <4> QED
        BY <1>14, <4>1, <4>2
    <3> QED
      BY <1>13, <3>1, <3>2
  <2>6. \A k \in 1..m - z : fifo'[k] = l + z + k
    <3> TAKE k \in 1..m - z
    <3>1. PICK x \in 1..m : x = z + k /\ l + x = l + z + k
      BY <1>13
    <3>2. \A j \in 1..m : fifo[j] = l + j
      BY <1>0, <1>13 DEF FaultlessInv
    <3>3. fifo[x] = l + x
      BY <3>2
    <3>4. fifo'[k] = fifo[x]
      BY <1>14, <3>1
    <3> QED
      BY <3>1, <3>3, <3>4
  <2>7. /\ \A j \in 1..Len(host'.got) : host'.got[j] = j
        /\ \A k \in 1..Len(fifo') : fifo'[k] = Len(host'.got) + k
    BY <1>14, <2>5, <2>6
  <2> QED
    BY <1>1, <1>4, <1>8, <2>1, <2>3, <2>4, <2>7 DEF FaultlessInv
<1>12. InInv' /\ OutInv'
  BY <1>0, <1>1, <1>4, <1>8, OutSideKept DEF InInv
<1> QED
  BY <1>9, <1>10, <1>11, <1>12 DEF TransferInv

\* PacketReceived takes all words of a packet (Device.cpp:294-319), however little of it is wanted.
LEMMA AllWordsTaken ==
  ASSUME NEW s \in Nat, NEW l \in Nat
  PROVE  WordsTaken(s, l) = WordsOf(s)
<1> DEFINE w == WordsOf(s)
           t == l \div 4
<1>1. w \in Int /\ t \in Int
  BY DEF WordsOf
<1> HIDE DEF w, t
<1>2. \A q \in {0, 1} : t + q + (w - t - q) = w
  BY <1>1
<1> QED
  BY <1>2 DEF WordsTaken, w, t

\* What the OUT handlers and the call do to the endpoint; what is reported is exact if no packet
\* of the host is empty.
OutKept == /\ in' = in /\ fifo' = fifo /\ host'.got = host.got /\ host'.given = host.given
           /\ host'.reported = host.reported /\ host'.faults = host.faults

LEMMA OutStep ==
  ASSUME TransferInv, OutKept, host' \in LineState, out' \in OutState, rx' \in Seq(Nat \cup {-1}), OutInv'
  PROVE  TransferInv'
BY InSideKept DEF TransferInv, TransferTypes, OutKept

LEMMA OutHandler ==
  ASSUME TransferInv, HandleInterruptsOut
  PROVE  TransferInv' /\ (ReportInv => ReportInv')
<1> DEFINE c == out.complete \/ out.xfrc
           d == out.disabled \/ out.epdisd
<1>0. TransferTypes /\ OutInv
  BY DEF TransferInv
<1>1. /\ out' = [out EXCEPT !.complete = c, !.disabled = d, !.xfrc = FALSE, !.epdisd = FALSE]
      /\ host' = host /\ rx' = rx /\ OutKept
  BY <1>0 DEF HandleInterruptsOut, TransferTypes, OutState, OutKept
<1>2. c \in BOOLEAN /\ d \in BOOLEAN
  BY <1>0 DEF TransferTypes, OutState
<1>3. (c <=> out.complete \/ out.xfrc) /\ (d <=> out.disabled \/ out.epdisd)
  OBVIOUS
<1> HIDE DEF c, d
<1>4. out' \in OutState
  BY <1>0, <1>1, <1>2 DEF TransferTypes, OutState
<1>5. /\ out'.pc = out.pc /\ out'.buffer = out.buffer /\ out'.complete = c /\ out'.disabled = d
      /\ out'.epena = out.epena /\ out'.epdis = out.epdis /\ ~out'.xfrc /\ ~out'.epdisd
  BY <1>0, <1>1 DEF TransferTypes, OutState
<1>6. OutInv'
  BY <1>0, <1>1, <1>3, <1>5 DEF OutInv
<1>7. ReportInv => ReportInv'
  <2>1. "reset" \notin host.faults /\ out.xfrc => rx = <<>>
    BY <1>0 DEF OutInv
  <2> QED
    BY <1>1, <1>3, <1>5, <2>1 DEF ReportInv
<1> QED
  BY <1>0, <1>1, <1>4, <1>6, <1>7, OutStep DEF TransferTypes

LEMMA OutIsDisabled ==
  ASSUME TransferInv, OutDisabled
  PROVE  TransferInv' /\ (ReportInv => ReportInv')
<1>0. TransferTypes /\ OutInv
  BY DEF TransferInv
<1>1. /\ out.epdis /\ out' = [out EXCEPT !.epdis = FALSE, !.epena = FALSE, !.epdisd = TRUE]
      /\ host' = host /\ rx' = rx /\ OutKept
  BY DEF OutDisabled, OutKept
<1>2. out' \in OutState
  BY <1>0, <1>1 DEF TransferTypes, OutState
<1>3. /\ out'.pc = out.pc /\ out'.buffer = out.buffer /\ out'.complete = out.complete
      /\ out'.disabled = out.disabled /\ ~out'.epena /\ ~out'.epdis /\ out'.xfrc = out.xfrc /\ out'.epdisd
  BY <1>0, <1>1 DEF TransferTypes, OutState
<1>4. OutInv'
  BY <1>0, <1>1, <1>3 DEF OutInv
<1>5. ReportInv => ReportInv'
  BY <1>1, <1>3 DEF ReportInv
<1> QED
  BY <1>0, <1>1, <1>2, <1>4, <1>5, OutStep DEF TransferTypes

LEMMA Receives ==
  ASSUME TransferInv, NEW length \in Buffers, ReceivePacket(length)
  PROVE  TransferInv' /\ (ReportInv => ReportInv')
<1> DEFINE x == IF out.epena THEN "failed" ELSE "receive"
           n == IF out.epena THEN out.buffer ELSE length
           c == out.epena /\ out.complete
           d == out.epena /\ out.disabled
<1>0. TransferTypes /\ OutInv
  BY DEF TransferInv
<1>1. ThreadRuns /\ out.pc = "out" /\ host' = host /\ rx' = rx /\ OutKept
  BY DEF ReceivePacket, OutKept
<1>2. /\ length \in Nat /\ x \in {"receive", "failed"} /\ n \in Nat /\ c \in BOOLEAN /\ d \in BOOLEAN
      /\ ~out.epena => x = "receive" /\ ~c /\ ~d
  BY <1>0, EndpointAssumption DEF TransferTypes, OutState
<1>8. out' = [out EXCEPT !.pc = x, !.buffer = n, !.complete = c, !.disabled = d]
  <2>1. CASE out.epena
    <3>1. x = "failed" /\ n = out.buffer /\ c = out.complete /\ d = out.disabled
      BY <1>0, <2>1 DEF TransferTypes, OutState
    <3> HIDE DEF x, n, c, d
    <3>2. out' = [out EXCEPT !.pc = "failed"]
      BY <2>1 DEF ReceivePacket
    <3> QED
      BY <1>0, <3>1, <3>2 DEF TransferTypes, OutState
  <2>2. CASE ~out.epena
    <3>1. x = "receive" /\ n = length /\ c = FALSE /\ d = FALSE
      BY <2>2
    <3> HIDE DEF x, n, c, d
    <3> QED
      BY <2>2, <3>1 DEF ReceivePacket
  <2> QED
    BY <2>1, <2>2
<1> HIDE DEF x, n, c, d
<1>3. out' \in OutState
  BY <1>0, <1>2, <1>8 DEF TransferTypes, OutState
<1>4. /\ out'.pc = x /\ out'.complete = c /\ out'.disabled = d
      /\ out'.epena = out.epena /\ out'.epdis = out.epdis /\ out'.xfrc = out.xfrc /\ out'.epdisd = out.epdisd
  BY <1>0, <1>8 DEF TransferTypes, OutState
<1>5. rx = <<>>
  BY <1>1 DEF ThreadRuns, OutPending
<1>9. "reset" \notin host.faults => ~out.epena /\ out'.pc = "receive" /\ ~out'.complete /\ ~out'.disabled
  BY <1>0, <1>1, <1>2, <1>4 DEF OutInv
<1>6. OutInv'
  BY <1>0, <1>1, <1>4, <1>5, <1>9 DEF OutInv
<1>7. ReportInv => ReportInv'
  BY <1>1, <1>9 DEF ReportInv
<1> QED
  BY <1>0, <1>1, <1>3, <1>6, <1>7, OutStep DEF TransferTypes

LEMMA ReceiveStarts ==
  ASSUME TransferInv, Receive
  PROVE  TransferInv' /\ (ReportInv => ReportInv')
<1>0. TransferTypes /\ OutInv
  BY DEF TransferInv
<1>1. /\ ThreadRuns /\ out.pc = "receive" /\ out' = [out EXCEPT !.pc = "wait", !.epena = TRUE]
      /\ host' = host /\ rx' = rx /\ OutKept
  BY DEF Receive, OutKept
<1>2. out' \in OutState
  BY <1>0, <1>1 DEF TransferTypes, OutState
<1>3. /\ out'.pc = "wait" /\ out'.buffer = out.buffer /\ out'.complete = out.complete
      /\ out'.disabled = out.disabled /\ out'.epena /\ out'.epdis = out.epdis
      /\ out'.xfrc = out.xfrc /\ out'.epdisd = out.epdisd
  BY <1>0, <1>1 DEF TransferTypes, OutState
<1>4. rx = <<>> /\ ~out.xfrc /\ Len(rx) # 2 /\ \A s \in Packets : rx # <<s, -1>>
  BY <1>1 DEF ThreadRuns, OutPending
<1>5. OutInv'
  BY <1>0, <1>1, <1>3, <1>4 DEF OutInv
<1>6. ReportInv => ReportInv'
  <2> SUFFICES ASSUME ReportInv, "reset" \notin host.faults
               PROVE  ReportInv'
    BY <1>1 DEF ReportInv
  <2>1. host.returned = host.sent /\ ~out.complete
    BY <1>0, <1>1 DEF OutInv, ReportInv
  <2> QED
    BY <1>1, <1>3, <1>4, <2>1 DEF ReportInv
<1> QED
  BY <1>0, <1>1, <1>2, <1>5, <1>6, OutStep DEF TransferTypes

LEMMA ReceiveTimesOut ==
  ASSUME TransferInv, ReceiveTimeout
  PROVE  TransferInv' /\ (ReportInv => ReportInv')
<1>0. TransferTypes /\ OutInv
  BY DEF TransferInv
<1>1. /\ ThreadRuns /\ out.pc = "wait" /\ ~out.complete /\ out' = [out EXCEPT !.pc = "reset"]
      /\ host' = host /\ rx' = rx /\ OutKept
  BY DEF ReceiveTimeout, OutKept
<1>2. out' \in OutState
  BY <1>0, <1>1 DEF TransferTypes, OutState
<1>3. /\ out'.pc = "reset" /\ out'.buffer = out.buffer /\ out'.complete = out.complete
      /\ out'.disabled = out.disabled /\ out'.epena = out.epena /\ out'.epdis = out.epdis
      /\ out'.xfrc = out.xfrc /\ out'.epdisd = out.epdisd
  BY <1>0, <1>1 DEF TransferTypes, OutState
<1>4. OutInv'
  BY <1>0, <1>1, <1>3 DEF OutInv
<1>5. ReportInv => ReportInv'
  BY <1>1, <1>3 DEF ReportInv
<1> QED
  BY <1>0, <1>1, <1>2, <1>4, <1>5, OutStep DEF TransferTypes

LEMMA ReceiveResets ==
  ASSUME TransferInv, ReceiveReset
  PROVE  TransferInv' /\ (ReportInv => ReportInv')
<1>0. TransferTypes /\ OutInv
  BY DEF TransferInv
<1>1. /\ ThreadRuns /\ out.pc = "reset" /\ out' = [out EXCEPT !.pc = "disable", !.epdis = out.epena]
      /\ host' = host /\ rx' = rx /\ OutKept
  BY DEF ReceiveReset, Epdis, OutKept
<1>2. out' \in OutState
  <2>1. out.epena \in BOOLEAN
    BY <1>0 DEF TransferTypes, OutState
  <2> QED
    BY <1>0, <1>1, <2>1 DEF TransferTypes, OutState
<1>3. /\ out'.pc = "disable" /\ out'.buffer = out.buffer /\ out'.complete = out.complete
      /\ out'.disabled = out.disabled /\ out'.epena = out.epena /\ out'.epdis = out.epena
      /\ out'.xfrc = out.xfrc /\ out'.epdisd = out.epdisd
  BY <1>0, <1>1 DEF TransferTypes, OutState
<1>4. rx = <<>>
  BY <1>1 DEF ThreadRuns, OutPending
<1>5. OutInv'
  BY <1>0, <1>1, <1>3, <1>4 DEF OutInv
<1>6. ReportInv => ReportInv'
  BY <1>1, <1>3 DEF ReportInv
<1> QED
  BY <1>0, <1>1, <1>2, <1>5, <1>6, OutStep DEF TransferTypes

LEMMA ReceiveReturns ==
  ASSUME TransferInv, ReceiveReturn
  PROVE  TransferInv' /\ (ReportInv => ReportInv')
<1> DEFINE told == out.complete /\ "reset" \notin host.faults
           b == out.buffer
           log == Append(host.returned, b)
<1>0. TransferTypes /\ OutInv
  BY DEF TransferInv
<1>1. /\ ThreadRuns
      /\ \/ out.pc = "wait" /\ out.complete
         \/ out.pc = "disable" /\ out.disabled
      /\ out' = [out EXCEPT !.pc = "out"]
      /\ rx' = rx /\ fifo' = fifo /\ in' = in
  BY DEF ReceiveReturn
<1>2. host' = IF told THEN [host EXCEPT !.returned = log] ELSE host
  BY <1>0 DEF ReceiveReturn, TransferTypes, LineState
<1>3. log \in Seq(Nat)
  BY <1>0 DEF TransferTypes, LineState, OutState
<1>4. rx = <<>> /\ ~out.xfrc /\ ~out.epdisd
  BY <1>1 DEF ThreadRuns, OutPending
<1>5. told => host'.returned = log
  <2> HIDE DEF log
  <2> QED
    BY <1>0, <1>2 DEF TransferTypes, LineState
<1>6. ~told => host'.returned = host.returned
  BY <1>2
<1>7. host' \in LineState /\ OutKept /\ host'.sent = host.sent
  <2> HIDE DEF log, told
  <2> QED
    BY <1>0, <1>1, <1>2, <1>3 DEF TransferTypes, LineState, OutKept
<1>8. out' \in OutState
  BY <1>0, <1>1 DEF TransferTypes, OutState
<1>9. /\ out'.pc = "out" /\ out'.complete = out.complete
      /\ out'.disabled = out.disabled /\ out'.epena = out.epena /\ out'.epdis = out.epdis
      /\ out'.xfrc = out.xfrc /\ out'.epdisd = out.epdisd
  BY <1>0, <1>1 DEF TransferTypes, OutState
<1>10. OutInv'
  BY <1>0, <1>1, <1>4, <1>7, <1>9 DEF OutInv, OutKept
<1>11. ReportInv => ReportInv'
  <2> SUFFICES ASSUME ReportInv, "reset" \notin host.faults
               PROVE  host'.returned = host.sent
    BY <1>7, <1>9 DEF ReportInv, OutKept
  <2>1. CASE out.complete
    <3>1. host.sent = log
      BY <1>1, <2>1 DEF ReportInv
    <3> QED
      BY <1>5, <2>1, <3>1
  <2>2. CASE ~out.complete
    BY <1>1, <1>4, <1>6, <2>2 DEF ReportInv
  <2> QED
    BY <2>1, <2>2
<1> QED
  BY <1>0, <1>1, <1>7, <1>8, <1>10, <1>11, OutStep DEF TransferTypes

LEMMA SmallerIsNat ==
  ASSUME NEW a \in Nat, NEW b \in Nat
  PROVE  Smaller(a, b) \in Nat /\ Smaller(a, b) = Smaller(b, a)
BY DEF Smaller

LEMMA HostSends ==
  ASSUME TransferInv, NEW size \in Packets, HostOut(size)
  PROVE  TransferInv' /\ (ReportInv => ReportInv')
<1> DEFINE b == Smaller(size, out.buffer)
           log == Append(host.sent, b)
<1>0. TransferTypes /\ OutInv
  BY DEF TransferInv
<1>1. /\ out.epena /\ ~out.epdis /\ rx = <<>> /\ rx' = <<size, -1>>
      /\ host' = [host EXCEPT !.sent = log]
      /\ in' = in /\ fifo' = fifo /\ out' = out
  BY <1>0 DEF HostOut, TransferTypes, LineState
<1>2. size \in Nat /\ log \in Seq(Nat)
  <2>1. size \in Nat /\ out.buffer \in Nat /\ host.sent \in Seq(Nat)
    BY <1>0, EndpointAssumption DEF TransferTypes, OutState, LineState
  <2>2. b \in Nat
    BY <2>1, SmallerIsNat
  <2> HIDE DEF b
  <2> QED
    BY <2>1, <2>2
<1>3. rx' \in Seq(Nat \cup {-1}) /\ rx' # <<>> /\ rx' # <<-1>> /\ Len(rx') = 2
      /\ \A s \in Packets : rx' = <<s, -1>> => s = size
  BY <1>1, <1>2
<1> HIDE DEF log
<1>4. host' \in LineState /\ OutKept /\ host'.sent = log /\ host'.returned = host.returned
  BY <1>0, <1>1, <1>2 DEF TransferTypes, LineState, OutKept
<1>5. OutInv'
  <2> SUFFICES ASSUME "reset" \notin host.faults
               PROVE  OutInv'
    BY <1>4 DEF OutInv, OutKept
  <2>1. ~out.complete /\ out.pc \in {"wait", "reset"}
    BY <1>0, <1>1 DEF OutInv, TransferTypes, OutState
  <2> QED
    BY <1>0, <1>1, <1>3, <1>4, <2>1 DEF OutInv, OutKept
<1>6. ReportInv => ReportInv'
  <2> SUFFICES ASSUME ReportInv, "reset" \notin host.faults
               PROVE  ReportInv'
    BY <1>4 DEF ReportInv, OutKept
  <2>1. ~out.complete /\ out.pc \notin {"out", "receive"}
    BY <1>0, <1>1 DEF OutInv
  <2>2. host.sent = host.returned
    BY <1>1, <2>1 DEF ReportInv
  <2>3. host'.sent = Append(host'.returned, Smaller(size, out.buffer))
    BY <1>4, <2>2 DEF log
  <2> QED
    BY <1>1, <1>3, <1>4, <2>1, <2>3 DEF ReportInv
<1> QED
  BY <1>0, <1>1, <1>3, <1>4, <1>5, <1>6, OutStep DEF TransferTypes

\* An entry of the receive FIFO.  Behind a bus reset the entries are not in step with a call.
LEMMA EntryRead ==
  ASSUME TransferInv, PacketReceived
  PROVE  TransferInv' /\ (0 \notin Packets /\ ReportInv => ReportInv')
<1>0. TransferTypes /\ OutInv
  BY DEF TransferInv
<1>1. rx # <<>> /\ rx' = Tail(rx) /\ in' = in /\ fifo' = fifo
  BY DEF PacketReceived
<1>2. Head(rx) \in Nat \cup {-1} /\ rx' \in Seq(Nat \cup {-1})
  BY <1>0, <1>1 DEF TransferTypes
<1>3. "reset" \notin host.faults =>
        /\ out.epena /\ ~out.epdis /\ out.pc \in {"wait", "reset"} /\ ~out.disabled /\ ~out.epdisd
        /\ \/ rx = <<-1>>
           \/ \E s \in Packets : rx = <<s, -1>> /\ ~out.complete
  <2> SUFFICES ASSUME "reset" \notin host.faults
               PROVE  /\ out.epena /\ ~out.epdis /\ out.pc \in {"wait", "reset"} /\ ~out.disabled /\ ~out.epdisd
                      /\ \/ rx = <<-1>>
                         \/ \E s \in Packets : rx = <<s, -1>> /\ ~out.complete
    OBVIOUS
  <2>1. out.epena /\ ~out.epdis /\ out.pc \in {"wait", "reset"} /\ ~out.disabled /\ ~out.epdisd
    BY <1>0, <1>1 DEF OutInv
  <2>2. rx = <<-1>> \/ \E s \in Packets : rx = <<s, -1>>
    BY <1>0, <1>1 DEF OutInv
  <2>3. \A s \in Packets : rx = <<s, -1>> => ~out.complete
    BY <1>0 DEF OutInv
  <2> QED
    BY <2>1, <2>2, <2>3
<1>7. "reset" \notin host.faults =>
        \/ Head(rx) = -1 /\ rx = <<-1>> /\ rx' = <<>>
        \/ /\ Head(rx) \in Packets /\ Head(rx) # -1 /\ rx = <<Head(rx), -1>> /\ rx' = <<-1>>
           /\ Len(rx') = 1 /\ ~out.complete
  <2>1. CASE rx = <<-1>>
    BY <1>1, <2>1
  <2>2. ASSUME NEW s \in Packets, rx = <<s, -1>>, ~out.complete
        PROVE  /\ Head(rx) \in Packets /\ Head(rx) # -1 /\ rx = <<Head(rx), -1>> /\ rx' = <<-1>>
               /\ Len(rx') = 1 /\ ~out.complete
    <3>1. s \in Nat /\ Head(rx) = s
      BY <2>2, EndpointAssumption
    <3>2. Tail(<<s, -1>>) = <<-1>> /\ Len(<<-1>>) = 1
      OBVIOUS
    <3> QED
      BY <1>1, <2>2, <3>1, <3>2
  <2> QED
    BY <1>3, <2>1, <2>2
<1>4. CASE Head(rx) = -1
  <2>1. out' = [out EXCEPT !.epena = FALSE, !.xfrc = TRUE] /\ host' = host /\ OutKept
    BY <1>1, <1>4 DEF PacketReceived, OutKept
  <2>2. out' \in OutState
    BY <1>0, <2>1 DEF TransferTypes, OutState
  <2>3. /\ out'.pc = out.pc /\ out'.buffer = out.buffer /\ out'.complete = out.complete
        /\ out'.disabled = out.disabled /\ ~out'.epena /\ out'.epdis = out.epdis
        /\ out'.xfrc /\ out'.epdisd = out.epdisd
    BY <1>0, <2>1 DEF TransferTypes, OutState
  <2>4. "reset" \notin host.faults => rx = <<-1>> /\ rx' = <<>>
    BY <1>4, <1>7
  <2>5. OutInv'
    BY <1>3, <2>1, <2>3, <2>4 DEF OutInv
  <2>6. ReportInv => ReportInv'
    BY <1>3, <2>1, <2>3, <2>4 DEF ReportInv
  <2> QED
    BY <1>0, <1>2, <2>1, <2>2, <2>5, <2>6, OutStep DEF TransferTypes
<1>5. CASE Head(rx) = 0
  <2>1. out' = out /\ host' = host /\ OutKept
    BY <1>1, <1>5 DEF PacketReceived, OutKept
  <2>2. "reset" \notin host.faults => rx = <<0, -1>> /\ rx' = <<-1>> /\ ~out.complete
    BY <1>5, <1>7
  <2>3. OutInv'
    BY <1>0, <1>3, <2>1, <2>2 DEF OutInv
  <2>4. 0 \notin Packets /\ ReportInv => ReportInv'
    <3>1. 0 \notin Packets => "reset" \in host.faults
      BY <1>5, <1>7
    <3> QED
      BY <2>1, <3>1 DEF ReportInv
  <2> QED
    BY <1>0, <1>2, <2>1, <2>3, <2>4, OutStep DEF TransferTypes
<1>8. CASE Head(rx) # -1 /\ Head(rx) # 0 /\ out.complete
  <2>0. Head(rx) \in Nat /\ Head(rx) > 0
    BY <1>2, <1>8
  <2>1. out' = [out EXCEPT !.pc = "failed"] /\ host' = host /\ OutKept
    BY <1>1, <1>8, <2>0 DEF PacketReceived, OutKept
  <2>2. out' \in OutState
    BY <1>0, <2>1 DEF TransferTypes, OutState
  <2>3. "reset" \in host.faults
    BY <1>7, <1>8
  <2>4. OutInv' /\ ReportInv'
    BY <2>1, <2>3 DEF OutInv, ReportInv
  <2> QED
    BY <1>0, <1>2, <2>1, <2>2, <2>4, OutStep DEF TransferTypes
<1>6. CASE Head(rx) # -1 /\ Head(rx) # 0 /\ ~out.complete
  <2> DEFINE l == Left(out.buffer, Head(rx))
             k == host.skew + WordsOf(Head(rx)) - WordsTaken(Head(rx), out.buffer)
  <2>1. Head(rx) \in Nat /\ out.buffer \in Nat
    BY <1>0, <1>2, <1>6 DEF TransferTypes, OutState
  <2>2. /\ out' = [out EXCEPT !.buffer = l, !.complete = TRUE]
        /\ host' = [host EXCEPT !.skew = k]
    BY <1>0, <1>1, <1>6, Zenon DEF PacketReceived
  <2>3. l \in Nat /\ l = Smaller(Head(rx), out.buffer)
    BY <2>1, SmallerIsNat DEF Left
  <2>4. k \in {0}
    <3>1. host.skew = 0
      BY <1>0 DEF TransferTypes, LineState
    <3>2. WordsTaken(Head(rx), out.buffer) = WordsOf(Head(rx)) /\ WordsOf(Head(rx)) \in Int
      BY <2>1, AllWordsTaken DEF WordsOf
    <3> QED
      BY <3>1, <3>2
  <2> HIDE DEF l, k
  <2>5. out' \in OutState /\ host' \in LineState /\ OutKept
        /\ host'.sent = host.sent /\ host'.returned = host.returned
    BY <1>0, <1>1, <2>2, <2>3, <2>4 DEF TransferTypes, OutState, LineState, OutKept
  <2>6. /\ out'.pc = out.pc /\ out'.buffer = l /\ out'.complete
        /\ out'.disabled = out.disabled /\ out'.epena = out.epena /\ out'.epdis = out.epdis
        /\ out'.xfrc = out.xfrc /\ out'.epdisd = out.epdisd
    BY <1>0, <2>2 DEF TransferTypes, OutState
  <2>7. "reset" \notin host.faults =>
          /\ rx' = <<-1>> /\ rx' # <<>> /\ Len(rx') # 2
          /\ Head(rx) \in Packets /\ rx = <<Head(rx), -1>> /\ ~out.complete
          /\ \A s \in Packets : rx' # <<s, -1>>
    BY <1>6, <1>7
  <2>8. OutInv'
    BY <1>0, <1>3, <2>5, <2>6, <2>7 DEF OutInv, OutKept
  <2>9. ReportInv => ReportInv'
    <3> SUFFICES ASSUME ReportInv, "reset" \notin host.faults
                 PROVE  ReportInv'
      BY <2>5 DEF ReportInv, OutKept
    <3>1. host.sent = Append(host.returned, Smaller(Head(rx), out.buffer))
      BY <1>3, <2>7 DEF ReportInv
    <3> QED
      BY <1>3, <2>3, <2>5, <2>6, <2>7, <3>1 DEF ReportInv
  <2> QED
    BY <1>2, <2>5, <2>8, <2>9, OutStep
<1> QED
  BY <1>4, <1>5, <1>6, <1>8

\* A bus reset leaves the types and the order of the words, and is a fault.
LEMMA ResetTransfers ==
  ASSUME TransferInv, BusReset
  PROVE  TransferInv' /\ (ReportInv => ReportInv')
<1> DEFINE f == host.faults \cup {"reset"}
           a == in.epena
           b == out.epena
<1>0. TransferTypes /\ WordsInv
  BY DEF TransferInv
<1>1. /\ in' = [in EXCEPT !.complete = TRUE, !.disabled = TRUE, !.epdis = a, !.xfrc = FALSE, !.epdisd = FALSE]
      /\ out' = [out EXCEPT !.complete = TRUE, !.disabled = TRUE, !.epdis = b, !.xfrc = FALSE, !.epdisd = FALSE]
      /\ host' = [host EXCEPT !.faults = f]
      /\ fifo' = fifo /\ rx' = rx
  BY <1>0 DEF BusReset, TransferTypes, LineState
<1>2. a \in BOOLEAN /\ b \in BOOLEAN /\ f \in SUBSET {"timeout", "reset"} /\ "reset" \in f /\ f # {}
  BY <1>0 DEF TransferTypes, InState, OutState, LineState
<1> HIDE DEF a, b, f
<1>3. in' \in InState /\ out' \in OutState /\ host' \in LineState
  <2>1. in' \in InState
    BY <1>0, <1>1, <1>2 DEF TransferTypes, InState
  <2>2. out' \in OutState
    BY <1>0, <1>1, <1>2 DEF TransferTypes, OutState
  <2> QED
    BY <1>0, <1>1, <1>2, <2>1, <2>2 DEF TransferTypes, LineState
<1>4. /\ in'.txPtr = in.txPtr /\ in'.txWords = in.txWords
      /\ host'.got = host.got /\ host'.given = host.given /\ "reset" \in host'.faults /\ host'.faults # {}
  BY <1>0, <1>1, <1>2 DEF TransferTypes, InState, LineState
<1>5. TransferTypes' /\ WordsInv'
  BY <1>0, <1>1, <1>3, <1>4, WordsKept DEF TransferTypes
<1>6. FaultlessInv' /\ InInv' /\ OutInv' /\ ReportInv'
  BY <1>4 DEF FaultlessInv, InInv, OutInv, ReportInv
<1> QED
  BY <1>5, <1>6 DEF TransferInv

LEMMA NoTransfer ==
  ASSUME TransferInv, in' = in, fifo' = fifo, out' = out, rx' = rx, host' = host
  PROVE  TransferInv' /\ (ReportInv => ReportInv')
<1>1. TransferTypes' /\ OutInv' /\ (ReportInv => ReportInv')
  BY DEF TransferInv, TransferTypes, OutInv, ReportInv
<1> QED
  BY <1>1, InSideKept DEF TransferInv

\* The steps of the IN endpoint.
InSteps == \/ Transmit \/ SendComplete \/ SendReset \/ SendDisabled \/ SendTimeout
           \/ HandleInterruptsIn \/ HostIn \/ InDisabled \/ \E words \in Sends : SendPacket(words)

LEMMA InStepsKeep ==
  ASSUME TransferInv, InSteps
  PROVE  TransferInv' /\ (ReportInv => ReportInv')
<1>1. TransferInv'
  BY InHandler, Send, SendFails, TransmitStep, SendCompletes, SendTimesOut, SendResets, SendGivesUp, InIsDisabled,
     HostTakes DEF InSteps
<1>2. /\ out' = out /\ rx' = rx /\ host'.sent = host.sent /\ host'.returned = host.returned
      /\ "reset" \in host.faults => "reset" \in host'.faults
  <2>1. host \in LineState
    BY DEF TransferInv, TransferTypes
  <2>2. CASE SendTimeout
    <3> DEFINE f == host.faults \cup {"timeout"}
    <3>1. host' = [host EXCEPT !.faults = f] /\ out' = out /\ rx' = rx
      BY <2>1, <2>2 DEF SendTimeout, LineState
    <3>2. "reset" \in host.faults => "reset" \in f
      OBVIOUS
    <3> HIDE DEF f
    <3> QED
      BY <2>1, <3>1, <3>2 DEF LineState
  <2>3. CASE HostIn
    <3>1. PICK g : host' = [host EXCEPT !.got = g]
      BY <2>1, <2>3 DEF HostIn, LineState
    <3>2. out' = out /\ rx' = rx
      BY <2>3 DEF HostIn
    <3> QED
      BY <2>1, <3>1, <3>2 DEF LineState
  <2>4. ASSUME NEW words \in Sends, SendPacket(words)
        PROVE  /\ out' = out /\ rx' = rx /\ host'.sent = host.sent /\ host'.returned = host.returned
               /\ "reset" \in host.faults => "reset" \in host'.faults
    <3>1. \/ host' = host
          \/ \E g : host' = [host EXCEPT !.given = g]
      BY <2>1, <2>4 DEF SendPacket, LineState
    <3>2. out' = out /\ rx' = rx
      BY <2>4 DEF SendPacket
    <3> QED
      BY <2>1, <3>1, <3>2 DEF LineState
  <2>6. CASE SendComplete \/ SendDisabled
    <3>1. PICK g : host' = [host EXCEPT !.reported = g]
      BY <2>1, <2>6 DEF SendComplete, SendDisabled, LineState
    <3>2. out' = out /\ rx' = rx
      BY <2>6 DEF SendComplete, SendDisabled
    <3> QED
      BY <2>1, <3>1, <3>2 DEF LineState
  <2>5. CASE Transmit \/ SendReset \/ HandleInterruptsIn \/ InDisabled
    <3>1. out' = out /\ rx' = rx /\ host' = host
      BY <2>5 DEF Transmit, SendReset, HandleInterruptsIn, InDisabled
    <3> QED
      BY <3>1
  <2> QED
    BY <2>2, <2>3, <2>4, <2>5, <2>6 DEF InSteps
<1> QED
  BY <1>1, <1>2, OutSideKept

LEMMA TransferNext ==
  ASSUME TransferInv, [Next]_vars
  PROVE  TransferInv' /\ (0 \notin Packets /\ ReportInv => ReportInv')
<1>1. CASE InSteps
  BY <1>1, InStepsKeep
<1>2. CASE HandleInterruptsOut \/ PacketReceived \/ OutDisabled
  BY <1>2, OutHandler, EntryRead, OutIsDisabled
<1>3. CASE Receive \/ ReceiveReset \/ ReceiveReturn \/ ReceiveTimeout
  BY <1>3, ReceiveStarts, ReceiveResets, ReceiveReturns, ReceiveTimesOut
<1>4. ASSUME NEW length \in Buffers, ReceivePacket(length)
      PROVE  TransferInv' /\ (ReportInv => ReportInv')
  BY <1>4, Receives
<1>5. ASSUME NEW size \in Packets, HostOut(size)
      PROVE  TransferInv' /\ (ReportInv => ReportInv')
  BY <1>5, HostSends
<1>6. CASE BusReset
  BY <1>6, ResetTransfers
<1>7. CASE Configure \/ UNCHANGED vars
  <2>1. in' = in /\ fifo' = fifo /\ out' = out /\ rx' = rx /\ host' = host
    BY <1>7 DEF Configure, vars
  <2> QED
    BY <2>1, NoTransfer
<1> QED
  BY <1>1, <1>2, <1>3, <1>4, <1>5, <1>6, <1>7 DEF Next, Thread, Interrupts, Timeouts, InSteps

LEMMA StaleNext ==
  ASSUME TransferTypes, StaleInv, [Next]_vars
  PROVE  StaleInv'
<1>0. out \in OutState
  BY DEF TransferTypes
<1>1. CASE out' = out /\ rx' = rx /\ active' = active
  BY <1>1 DEF StaleInv
<1>2. CASE HandleInterruptsOut
  <2>1. /\ out'.pc = out.pc /\ out'.epena = out.epena /\ out'.epdis = out.epdis
        /\ ~out'.epdisd /\ (out'.complete <=> out.complete \/ out.xfrc)
        /\ (out'.disabled <=> out.disabled \/ out.epdisd) /\ rx' = rx /\ active' = active
    BY <1>0, <1>2 DEF HandleInterruptsOut, OutState
  <2> QED
    BY <2>1 DEF StaleInv
<1>3. CASE PacketReceived
  <2>1. rx # <<>> /\ active' = active
    BY <1>3 DEF PacketReceived
  <2>2. /\ out'.epena => out.epena
        /\ out.complete => out'.complete
        /\ out'.epdis = out.epdis /\ out'.epdisd = out.epdisd /\ out'.disabled = out.disabled
        /\ out'.pc \in {out.pc, "failed"}
    <3>1. \/ out' = [out EXCEPT !.epena = FALSE, !.xfrc = TRUE]
          \/ out' = out
          \/ out' = [out EXCEPT !.pc = "failed"]
          \/ out' = [out EXCEPT !.buffer = Left(out.buffer, Head(rx)), !.complete = TRUE]
      BY <1>0, <1>3, Zenon DEF PacketReceived
    <3> QED
      BY <1>0, <3>1 DEF OutState
  <2> QED
    BY <2>1, <2>2 DEF StaleInv
<1>4. ASSUME NEW length \in Buffers, ReceivePacket(length)
      PROVE  StaleInv'
  <2>1. /\ "out" \in active /\ out.pc = "out" /\ active' = active /\ rx' = rx
        /\ out' = IF out.epena THEN [out EXCEPT !.pc = "failed"]
                  ELSE [out EXCEPT !.pc = "receive", !.buffer = length, !.complete = FALSE, !.disabled = FALSE]
    BY <1>4 DEF ReceivePacket
  <2>2. /\ out'.pc = "failed" \/ (out'.pc = "receive" /\ ~out'.disabled)
        /\ out'.epdis = out.epdis /\ out'.epdisd = out.epdisd
    BY <1>0, <2>1 DEF OutState
  <2> QED
    BY <2>1, <2>2 DEF StaleInv
<1>5. CASE Receive \/ ReceiveTimeout
  <2>1. /\ out.pc \in {"receive", "wait"} /\ out'.pc \in {"wait", "reset"} /\ active' = active
        /\ out'.complete = out.complete /\ out'.disabled = out.disabled
        /\ out'.epdis = out.epdis /\ out'.epdisd = out.epdisd
    BY <1>0, <1>5 DEF Receive, ReceiveTimeout, OutState
  <2> QED
    BY <2>1 DEF StaleInv
<1>6. CASE ReceiveReset
  <2>1. /\ out.pc = "reset" /\ out'.pc = "disable" /\ active' = active
        /\ out'.complete = out.complete /\ out'.disabled = out.disabled /\ out'.epdisd = out.epdisd
    BY <1>0, <1>6 DEF ReceiveReset, OutState
  <2> QED
    BY <2>1 DEF StaleInv
<1>7. CASE ReceiveReturn
  <2>1. /\ (out.pc = "wait" /\ out.complete) \/ (out.pc = "disable" /\ out.disabled)
        /\ out' = [out EXCEPT !.pc = "out"] /\ rx = <<>> /\ rx' = rx /\ ~out.epdisd /\ active' = active
    BY <1>7 DEF ReceiveReturn, ThreadRuns, OutPending
  <2>2. /\ out'.pc = "out" /\ out'.complete = out.complete /\ out'.disabled = out.disabled
        /\ out'.epena = out.epena /\ out'.epdis = out.epdis /\ out'.epdisd = out.epdisd
    BY <1>0, <2>1 DEF OutState
  <2> QED
    BY <2>1, <2>2 DEF StaleInv
<1>8. ASSUME NEW size \in Packets, HostOut(size)
      PROVE  StaleInv'
  <2>1. out' = out /\ out.epena /\ active' = active
    BY <1>8 DEF HostOut
  <2> QED
    BY <2>1 DEF StaleInv
<1>9. CASE OutDisabled
  <2>1. /\ out.epdis /\ out'.pc = out.pc /\ out'.complete = out.complete /\ out'.disabled = out.disabled
        /\ ~out'.epena /\ ~out'.epdis /\ rx' = rx /\ active' = active
    BY <1>0, <1>9 DEF OutDisabled, OutState
  <2> QED
    BY <2>1 DEF StaleInv
<1>10. CASE BusReset
  <2>1. out'.complete /\ active' = {}
    BY <1>0, <1>10 DEF BusReset, OutState
  <2> QED
    BY <2>1 DEF StaleInv
<1>11. CASE Configure
  <2>1. out' = out /\ rx' = rx /\ out.pc = "out" /\ ~out.epdis /\ ~out.epdisd
    BY <1>11 DEF Configure, ThreadRuns, OutPending
  <2> QED
    BY <2>1 DEF StaleInv
<1>12. CASE InSteps \/ UNCHANGED vars
  <2>1. out' = out /\ rx' = rx /\ active' = active
    BY <1>12 DEF InSteps, Transmit, SendComplete, SendReset, SendDisabled, SendTimeout, HandleInterruptsIn,
                 HostIn, InDisabled, SendPacket, vars
  <2> QED
    BY <1>1, <2>1
<1> QED
  BY <1>2, <1>3, <1>4, <1>5, <1>6, <1>7, <1>8, <1>9, <1>10, <1>11, <1>12
  DEF Next, Thread, Interrupts, Timeouts, InSteps

\* The inductive invariant of the transfers, for packets, buffers and FIFOs of any size, with
\* timeouts and bus resets at any time: the words on their way are in order, and how far a call
\* is says what the endpoint may do.
THEOREM TransferInvariant == PartsSpec => []TransferInv
<1>1. PartsInit => TransferInv
  BY TransferInit DEF PartsInit
<1>2. TransferInv /\ [PartsNext]_<<part, vars, device>> => TransferInv'
  BY TransferNext, PartSteps
<1> QED
  BY <1>1, <1>2, PTL DEF PartsSpec

\* The variables of the endpoints keep their types; the FIFO never holds more than it can
\* (DeviceEndpoints.cpp:37-62).
THEOREM EndpointTypes == PartsSpec => []TypeOK
<1>1. TransferInv => TypeOK
  BY DEF TransferInv, TransferTypes, InState, OutState, LineState, TypeOK
<1> QED
  BY <1>1, TransferInvariant, PTL

\* Outside the calls the handlers touch no buffer, with timeouts, late packets and bus resets at
\* any time; the assertions of DeviceEndpoints.cpp:46, 132 and 150 fail behind a fault only, and
\* what a reset leaves in the receive FIFO finds the last one before the buffer.
THEOREM BuffersAreReturned == PartsSpec => []CallOwnsBuffer
<1>1. PartsInit => TransferInv /\ StaleInv
  BY TransferInit DEF PartsInit
<1>2. TransferInv /\ StaleInv /\ [PartsNext]_<<part, vars, device>> => TransferInv' /\ StaleInv'
  BY TransferNext, StaleNext, PartSteps DEF TransferInv
<1>3. TransferInv /\ StaleInv => CallOwnsBuffer
  <2> SUFFICES ASSUME TransferInv, StaleInv
               PROVE  CallOwnsBuffer
    OBVIOUS
  <2>1. in.pc = "failed" => host.faults # {}
    BY DEF TransferInv, FaultlessInv
  <2>2. /\ out.pc = "failed" => "reset" \in host.faults
        /\ out.pc = "out" /\ (out.epena \/ rx # <<>>) => "reset" \in host.faults
    BY DEF TransferInv, OutInv
  <2>3. in.pc = "out" /\ "reset" \notin host.faults /\ (in.disabled \/ host.faults = {}) =>
          in.txWords = 0 /\ ~in.epena
    BY DEF TransferInv, FaultlessInv, InInv
  <2>4. out.pc = "out" /\ rx # <<>> => out.complete
    BY DEF StaleInv
  <2> QED
    BY <2>1, <2>2, <2>3, <2>4 DEF CallOwnsBuffer
<1> QED
  BY <1>1, <1>2, <1>3, PTL DEF PartsSpec

\* Words and packets arrive once, in order and with their length, unless the host sends a packet
\* without data: that one (Device.cpp:287) is reported with the length of the whole buffer.
THEOREM TransfersAreExact ==
  ASSUME 0 \notin Packets
  PROVE  PartsSpec => []PacketsExact
<1>1. PartsInit => TransferInv /\ ReportInv
  BY TransferInit DEF PartsInit
<1>2. TransferInv /\ ReportInv /\ [PartsNext]_<<part, vars, device>> => TransferInv' /\ ReportInv'
  BY TransferNext, PartSteps
<1>3. TransferInv /\ ReportInv => PacketsExact
  <2> SUFFICES ASSUME TransferInv, ReportInv
               PROVE  PacketsExact
    OBVIOUS
  <2>1. ASSUME in.pc = "out", host.faults = {}
        PROVE  host.got = [k \in 1..host.given |-> k] /\ host.reported = host.given
    <3>1. /\ in.txPtr + in.txWords = host.given /\ Len(host.got) + Len(fifo) = in.txPtr
          /\ in.txWords = 0 /\ fifo = <<>>
          /\ \A j \in 1..Len(host.got) : host.got[j] = j
          /\ host.reported = host.given
      BY <2>1 DEF TransferInv, FaultlessInv
    <3>2. host.got \in Seq(Nat) /\ Len(host.got) \in Nat /\ in.txPtr \in Nat
      BY EndpointAssumption DEF TransferInv, TransferTypes, InState, LineState
    <3>3. Len(host.got) = host.given
      BY <3>1, <3>2
    <3> QED
      BY <3>1, <3>2, <3>3
  <2>2. \A j, k \in 1..Len(host.got) : j < k => host.got[j] < host.got[k]
    BY DEF TransferInv, WordsInv
  <2>3. out.pc = "out" /\ "reset" \notin host.faults => host.returned = host.sent
    BY DEF ReportInv
  <2>4. host.skew = 0
    BY DEF TransferInv, TransferTypes, LineState
  <2> QED
    BY <2>1, <2>2, <2>3, <2>4 DEF PacketsExact
<1> QED
  BY <1>1, <1>2, <1>3, PTL DEF PartsSpec
=============================================================================
