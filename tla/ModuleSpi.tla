----------------------------- MODULE ModuleSpi -----------------------------
(***************************************************************************)
(* The SPI devices of stark_module_spi.c on top of the leases of           *)
(* ModuleCore.  A driver is a task of its own: between the lease check of  *)
(* a call and the bus call that follows it, every other task may run.      *)
(***************************************************************************)
EXTENDS ModuleCore

VARIABLES
  driverPc,   \* the step of a call each driver stands at
  handle,     \* the slot whose device the driver uses, 0 for none
  devices     \* s_devs: the lease of each slot's device, NoLease without one

spiVars == <<driverPc, handle, devices>>
spiAllVars == <<vars, spiVars>>

SpiInit ==
  /\ Init
  /\ driverPc = [d \in Drivers |-> "idle"]
  /\ handle = [d \in Drivers |-> 0]
  /\ devices = [s \in Slots |-> NoLease]

DriverStep(d, from, to) ==
  /\ driverPc[d] = from
  /\ driverPc' = [driverPc EXCEPT ![d] = to]
  /\ UNCHANGED vars

(* Slip: a device is added without a claim on the chip select.               *)
AttachPinsSlip(d) ==
  /\ DriverStep(d, "idle", "check")
  /\ handle[d] = 0
  /\ LeaseValid(lease[d])
  /\ UNCHANGED <<handle, devices>>

(* stark_module_lease_pins(): the lease is valid and has a chip select.    *)
AttachPins(d) ==
  /\ DriverStep(d, "idle", "check")
  /\ handle[d] = 0
  /\ LeaseValid(lease[d])
  /\ "spi" \in table[lease[d].slot].claimed
  /\ UNCHANGED <<handle, devices>>

AttachCheck(d) ==
  /\ DriverStep(d, "check", IF devices[lease[d].slot] = NoLease THEN "add" ELSE "idle")
  /\ UNCHANGED <<handle, devices>>

AttachAdd(d) ==
  /\ DriverStep(d, "add", "idle")
  /\ handle' = [handle EXCEPT ![d] = lease[d].slot]
  /\ devices' = [devices EXCEPT ![lease[d].slot] = lease[d]]

(* spi_bus_add_device() fails: no device.                                  *)
AttachFails(d) ==
  /\ DriverStep(d, "add", "idle")
  /\ devices' = [devices EXCEPT ![lease[d].slot] = NoLease]
  /\ UNCHANGED handle

XferCheck(d) ==
  /\ DriverStep(d, "idle", "transmit")
  /\ handle[d] # 0
  /\ LeaseValid(devices[handle[d]])
  /\ UNCHANGED <<handle, devices>>

Transmit(d) ==
  /\ DriverStep(d, "transmit", "idle")
  /\ UNCHANGED <<handle, devices>>

Detach(d) ==
  /\ DriverStep(d, "idle", "idle")
  /\ handle[d] # 0
  /\ handle' = [handle EXCEPT ![d] = 0]
  /\ devices' = [devices EXCEPT ![handle[d]] = NoLease]

SpiNext ==
  \/ /\ \/ \E s \in Slots, c \in Contents \cup {None} : Fit(s, c)
        \/ BusCalls \/ Apply \/ RecomputeRound \/ EndRound
        \/ DriversWord
        \/ \E d \in Drivers :
             /\ driverPc[d] = "idle"
             /\ \/ \E s \in Slots, lines \in (SUBSET Lines) \ {{}} : Claim(d, s, lines)
                \/ Release(d)
     /\ UNCHANGED spiVars
  \/ \E d \in Drivers :
       \/ AttachPins(d) \/ AttachCheck(d) \/ AttachAdd(d) \/ AttachFails(d)
       \/ XferCheck(d) \/ Transmit(d) \/ Detach(d)

SpiSpec == SpiInit /\ [][SpiNext]_spiAllVars

-----------------------------------------------------------------------------
(* Properties.                                                             *)

(* Every variable has its type.                                            *)
SpiTypeOK ==
  /\ ModulesTypeOK
  /\ driverPc \in [Drivers -> {"idle", "check", "add", "transmit"}]
  /\ handle \in [Drivers -> Slots \cup {0}]
  /\ devices \in [Slots -> Lease]

(* A device outlives its lease until its owner detaches it.  If its lease  *)
(* passes the check of stark_module_spi_xfer(), the slot still holds the   *)
(* module the device was added for, and its chip select is still claimed   *)
(* by the driver that claimed it then, however often the slot was claimed  *)
(* in between and whichever attach came last.                              *)
LiveDeviceIsOnItsModule ==
  \A s \in Slots : LeaseValid(devices[s]) =>
    /\ devices[s].slot = s
    /\ table[s].entry = devices[s].on
    /\ "spi" \in table[s].claimed
    /\ \E d \in Drivers : lease[d] = devices[s] /\ table[s].owner = d

(* A device whose lease went stale never comes back to life: only an       *)
(* attach makes it usable again.                                           *)
StaleDevicesStayStale ==
  [][\A s \in Slots :
       devices'[s] = devices[s] /\ ~LeaseValid(devices[s]) => ~LeaseValid(devices[s])']_spiAllVars

(* "A removal or replacement changes the slot's generation, so every old   *)
(* lease, and every SPI transfer on it, returns STARK_ERR_STATE and        *)
(* nothing reaches the bus": a device transmits only on a live lease.      *)
StaleLeaseTransfersNothing ==
  [][\A d \in Drivers :
       driverPc[d] = "transmit" /\ driverPc'[d] = "idle" => LeaseValid(devices[handle[d]])]_spiAllVars
=============================================================================
