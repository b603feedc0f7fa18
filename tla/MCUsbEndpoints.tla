--------------------------- MODULE MCUsbEndpoints ---------------------------
(* The data endpoints in one instance: their transfers (UsbEndpoint) or the
   requests that configure them (UsbDevice), which share no variable; a
   behaviour exercises one of these parts.                                    *)
EXTENDS UsbEndpoint

CONSTANTS Parts, Endpoints, RequestConfigurations, Values, Strings, EndpointCount

ASSUME DeviceAssumption ==
    /\ Endpoints \in Seq({"in", "out"} \X Nat)
    /\ 0 \notin DOMAIN RequestConfigurations
    /\ \A v \in DOMAIN RequestConfigurations :
         /\ RequestConfigurations[v].endpoints \subseteq {Endpoints[k] : k \in 1..Len(Endpoints)}
         /\ RequestConfigurations[v].wakeup \in BOOLEAN
    /\ Strings \in Nat /\ EndpointCount \in Nat

VARIABLES part, dev, pc, i, live, asker

device == <<dev, pc, i, live, asker>>

DV == INSTANCE UsbDevice WITH Configurations <- RequestConfigurations, host <- asker

\* Two configurations that share one of two IN endpoints; the first of them has
\* the OUT endpoint as well, and the remote wake-up.
MCEndpoints == <<<<"in", 1>>, <<"in", 2>>, <<"out", 1>>>>
MCConfigurations == [v \in {1, 3} |->
    IF v = 1 THEN [endpoints |-> {<<"in", 1>>, <<"out", 1>>}, wakeup |-> TRUE]
    ELSE [endpoints |-> {<<"in", 1>>, <<"in", 2>>}, wakeup |-> FALSE]]

PartsInit == part \in Parts /\ Init /\ DV!Init

PartsNext == /\ UNCHANGED part
             /\ \/ part = "transfers" /\ Next /\ UNCHANGED device
                \/ part = "requests" /\ DV!Next /\ UNCHANGED vars

\* The fairness of UsbEndpoint; the requests need none.
PartsSpec ==
    /\ PartsInit /\ [][PartsNext]_<<part, vars, device>>
    /\ WF_vars(Interrupts) /\ WF_vars(InDisabled) /\ WF_vars(OutDisabled)
    /\ SF_vars(Transmit \/ SendComplete \/ SendReset \/ SendDisabled) /\ SF_vars(SendTimeout)
    /\ SF_vars(Receive \/ ReceiveReset \/ ReceiveReturn) /\ SF_vars(ReceiveTimeout)

(* Device.cpp:778-859: host and device agree on configuration and halts.      *)
AgreesWithHost == DV!AgreesWithHost
(* USB.h:88-107, 171-185: where they agree on the data toggles, and where not. *)
TogglesAgree == DV!TogglesAgree
(* USB.h:88-107, 171-185: they always do, so that no packet is lost.          *)
NoPacketLost == DV!NoPacketLost
(* Device.cpp:636: a number out of range is refused.                          *)
StrangersRefused == DV!StrangersRefused
(* Device.cpp:179-207: nothing is left of a configuration behind a reset.     *)
ForgottenAtReset == DV!ForgottenAtReset
=============================================================================
