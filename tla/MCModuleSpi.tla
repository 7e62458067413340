---------------------------- MODULE MCModuleSpi ----------------------------
(* Drivers on a small instance: an NFC carrier that conflicts with another *)
(* of its kind and wires no chip select, and an SPI module.                *)
EXTENDS ModuleSpi, TLC

CONSTANTS carrier, lab

MCParse ==
  [c \in Contents |->
    IF c = carrier THEN [ok |-> TRUE, id |-> 1, caps |-> {"nfc", "irq"}]
                   ELSE [ok |-> TRUE, id |-> 2, caps |-> {"spi", "irq"}]]

(* The two contents do not collide.                                        *)
MCHash == [c \in Contents |-> c]

MCProviders == {{"nfc"}}

(* The drivers are alike.                                                  *)
MCSymmetry == Permutations(Drivers)
=============================================================================
