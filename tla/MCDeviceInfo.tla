---------------------------- MODULE MCDeviceInfo ----------------------------
(* An instance of DeviceInfo for TLC. *)
EXTENDS DeviceInfo

MCIdentities ==
  {[device |-> "recorder", serial |-> "s1"], [device |-> "monitor", serial |-> Dummy],
   [device |-> "", serial |-> "s2"], [device |-> "monitor", serial |-> "bad"]}
=============================================================================
