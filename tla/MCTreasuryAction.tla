-------------------------- MODULE MCTreasuryAction --------------------------
(***************************************************************************)
(* Instances of TreasuryAction for TLC: an ineligible venue to empty, a    *)
(* live and a simulated venue to fill, an operator and an admin.           *)
(***************************************************************************)
EXTENDS TreasuryAction, TLC

CONSTANTS operator, admin

MCRoleOf == [s \in Sessions |-> IF s = admin THEN "admin" ELSE "operator"]

Usd(n) == n * Cent

Config(id, tier, apr, allocation, capacity) ==
  [id |-> id, tier |-> tier, apr |-> apr, healthy |-> TRUE, capacity |-> Usd(capacity),
   allocation |-> Usd(allocation), withdrawable |-> Usd(allocation)]

MCVenueConfig == <<Config("old", "delayed", 1, 3, 0),
                   Config("live", "same_day", 7, 0, 20),
                   Config("sim", "instant", 5, 0, 20)>>

Connector(mode) == [mode |-> mode, allocates |-> TRUE, reduces |-> TRUE, executes |-> TRUE,
                    approved |-> mode = "live", eligible |-> mode = "live"]

MCCapabilities == [v \in {"old", "live", "sim"} |->
                     Connector(IF v = "live" THEN "live" ELSE "simulated")]

MCPolicy == [minReserve |-> Usd(4), reserveFloorPct |-> 10, minIdle |-> Usd(4),
             maxPctPerVenue |-> 40, minDeployable |-> Usd(1), eligible |-> {"live", "sim"}]

MCMode == [execution |-> "live", liveEnabled |-> TRUE]

MCLiquidity == Usd(10)
=============================================================================
