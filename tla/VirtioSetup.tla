----------------------------- MODULE VirtioSetup -----------------------------
(***************************************************************************)
(* VirtioNet::new up to the first buffer, over the registers of VirtioMMIO:*)
(* reset, the status handshake, feature negotiation and the three queues.  *)
(* The device is the host's; it may have been left in any state by whoever *)
(* used it before, and it may refuse the features the driver accepts.      *)
(***************************************************************************)
EXTENDS Integers

CONSTANTS
  Offers    \* the sets of features a device may offer

(* 0x3001AEA3.  VIRTIO_F_VERSION_1 is not in it.                           *)
DriverFeatures ==
  {"CSUM", "GUEST_CSUM", "MAC", "GUEST_TSO4", "GUEST_ECN", "GUEST_UFO",
   "HOST_TSO4", "HOST_ECN", "MRG_RXBUF", "STATUS", "INDIRECT_DESC", "EVENT_IDX"}

Queues == 0..2  \* receive, transmit, control

VARIABLES
  pc,        \* where the driver is
  is_net,    \* DeviceID is 1
  offered,   \* DeviceFeatures
  features,  \* DriverFeatures as written by set_enabled_features
  status,    \* the bits of Status
  active     \* the queues whose QueueReady is 1

setupVars == <<is_net, offered, features, status, active>>

SetupInit ==
  /\ pc = "reset"
  /\ is_net \in BOOLEAN
  /\ offered \in Offers
  /\ features = {}
  /\ status \in {{}, {"ACKNOWLEDGE", "DRIVER", "FEATURES_OK", "DRIVER_OK"}}
  /\ active = IF status = {} THEN {} ELSE Queues

(* Another kind of device is left alone: new returns None.                 *)
NotNet ==
  /\ pc = "reset" /\ ~ is_net
  /\ pc' = "none"
  /\ UNCHANGED setupVars

(* Mutant: the device is acknowledged without a reset.                     *)
Reset_Skipped ==
  /\ pc = "reset" /\ is_net
  /\ pc' = "acknowledge"
  /\ UNCHANGED setupVars

(* set_status(0): the device forgets the handshake and its queues.         *)
Reset ==
  /\ pc = "reset" /\ is_net
  /\ status' = {}
  /\ active' = {}
  /\ pc' = "acknowledge"
  /\ UNCHANGED <<is_net, offered, features>>

Acknowledge ==
  /\ pc = "acknowledge"
  /\ status' = status \cup {"ACKNOWLEDGE", "DRIVER"}
  /\ pc' = "negotiate"
  /\ UNCHANGED <<is_net, offered, features, active>>

Negotiate ==
  /\ pc = "negotiate"
  /\ features' = offered \cap DriverFeatures
  /\ pc' = "features_ok"
  /\ UNCHANGED <<is_net, offered, status, active>>

(* The bit is written and read back; a device that refuses has cleared it. *)
FeaturesOk ==
  /\ pc = "features_ok"
  /\ \/ status' = status \cup {"FEATURES_OK"} /\ pc' = "rx_queue"
     \/ UNCHANGED status /\ pc' = "panic"
  /\ UNCHANGED <<is_net, offered, features, active>>

QueueStep == <<"rx_queue", "tx_queue", "ctrl_queue", "first_fill">>

(* The closure setup_queue: select_queue asserts that the queue is not in  *)
(* use, activate_queue takes the selected one into use.                    *)
SetupQueue(q) ==
  /\ pc = QueueStep[q + 1]
  /\ IF q \in active
     THEN pc' = "panic" /\ UNCHANGED active
     ELSE /\ active' = active \cup {q}
          /\ pc' = QueueStep[q + 2]
  /\ UNCHANGED <<is_net, offered, features, status>>

Setup ==
  \/ NotNet \/ Reset \/ Acknowledge \/ Negotiate \/ FeaturesOk
  \/ \E q \in Queues : SetupQueue(q)
=============================================================================
