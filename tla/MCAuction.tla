------------------------------ MODULE MCAuction ------------------------------
(* Two LRP instances, one of which needs neither memory nor disk, and two  *)
(* tasks, on a cell with little memory and more disk than State's integers *)
(* can hold.                                                               *)
EXTENDS Auction, TLC

CONSTANTS i1, i2, t1, t2

MCItem      == {i1, i2, t1, t2}
MCTask      == {t1, t2}
MCMemory    == (i1 :> 2) @@ (i2 :> 0) @@ (t1 :> 1) @@ (t2 :> 1)
MCDisk      == (i1 :> 0) @@ (i2 :> 0) @@ (t1 :> 2) @@ (t2 :> 1)
MCRootFS    == (i1 :> [scheme |-> "preloaded", opaque |-> "s1"])
               @@ (i2 :> [scheme |-> "docker", opaque |-> "busybox"])
               @@ (t1 :> [scheme |-> "preloaded+layer", opaque |-> "s2"])
               @@ (t2 :> [scheme |-> "preloaded", opaque |-> "s1"])
MCTags      == (i1 :> {}) @@ (i2 :> {"ssd"}) @@ (t1 :> {}) @@ (t2 :> {})
MCDrivers   == (i1 :> {"nfs"}) @@ (i2 :> {}) @@ (t1 :> {}) @@ (t2 :> {})
MCStackSets == {{"s1", "s2"}, {"s1"}}
MCArbitrary == {"docker"}
MCOptional  == {"ssd"}
MCCellDrivers == {"nfs"}
=============================================================================
