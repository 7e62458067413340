--------------------------- MODULE MCModuleBridge ---------------------------
(* The way of a capability on a small instance: an NFC carrier that        *)
(* conflicts with another of its kind, a module that declares an           *)
(* impossible combination, and an EEPROM that cannot be read.              *)
EXTENDS ModuleBridge

CONSTANTS carrier, impossible, mute

MCParse ==
  [c \in Contents |->
    CASE c = carrier -> [ok |-> TRUE, id |-> 1, caps |-> {"nfc", "irq", "unknown"}]
      [] c = impossible -> [ok |-> TRUE, id |-> 2, caps |-> {"nfc", "spi"}]
      [] OTHER -> [ok |-> FALSE, id |-> 0, caps |-> {}]]

(* No two of these contents collide.                                       *)
MCHash == [c \in Contents |-> c]

MCProviders == {{"nfc"}}
=============================================================================
