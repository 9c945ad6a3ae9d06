--------------------------- MODULE MCLicensingTwo ---------------------------
(* Two instances of Licensing that share nothing: the one of MCLicensing, and an  *)
(* installation whose license server is down for as long as the cadence bridges.  *)
(* Which of the two a behavior is about, machine says.                            *)
EXTENDS MCLicensing

VARIABLES machine, outKey, outLease, outController, outRequest, outLicensor

Outage == INSTANCE Licensing WITH
  licenseKey <- outKey, lease <- outLease, controller <- outController,
  request <- outRequest, licensor <- outLicensor,
  Server <- {p1}, Admin <- {b1}, HostOf <- [a \in {b1} |-> p1],
  Life <- 4, Grace <- 2, Interval <- 2, Retry <- 1, Recheck <- 1,
  MaxOutage <- 2, MinCalm <- 2, Ops <- {"activate"}, Faults <- {"outage"}

outVars == <<outKey, outLease, outController, outRequest, outLicensor>>
bothVars == <<vars, outVars, machine>>

BothInit == Init /\ Outage!Init /\ machine \in {"requests", "outage"}
BothNext ==
  \/ machine = "requests" /\ Next /\ UNCHANGED <<outVars, machine>>
  \/ machine = "outage" /\ Outage!Next /\ UNCHANGED <<vars, machine>>
BothSpec == BothInit /\ [][BothNext]_bothVars /\ (machine = "requests" => Fairness)

\* A good key, a server process that stays up, and outages of at most MaxOutage: the
\* paid limits are never lost ("An outage ... never interrupts a running server").
PaidThroughOutages == Outage!OutagesAreBridged /\ Outage!PaidLimitsStay
=============================================================================
