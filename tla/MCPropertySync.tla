--------------------------- MODULE MCPropertySync ---------------------------
EXTENDS PropertySync, TLC

Trait(permission, update, write, sync, values) ==
  [permission |-> permission, update |-> update, write |-> write, sync |-> sync,
   primitive |-> TRUE, minDelta |-> 0, values |-> values, start |-> 0]

\* A number that the cloud sets and the sketch takes over on its own, and a switch.
SafeTraits ==
  <<Trait("Write", "OnChange", "Manual", "cloud", {0}),
    Trait("ReadWrite", "OnChange", "Auto", "auto", {0, 1})>>

SafeSizes == <<0 :> 3 @@ 1 :> 3, 0 :> 2 @@ 1 :> 3>>

\* A constant published on demand, a pair of numbers, and a text published in
\* intervals, which is too long for any message.
LiveTraits ==
  <<Trait("Read", "OnDemand", "Auto", "none", {0}),
    Trait("ReadWrite", "OnChange", "Auto", "cloud", {0, 1}),
    Trait("Read", "TimeInterval", "Auto", "none", {0})>>

LiveSizes == <<0 :> 3 @@ 1 :> 3, 0 :> 2 @@ 1 :> 3, 0 :> 6 @@ 1 :> 6>>

\* A switch, and a pair of long texts.
LongTraits ==
  <<Trait("ReadWrite", "OnChange", "Auto", "cloud", {0, 1}),
    Trait("Read", "OnChange", "Auto", "none", {0})>>

LongSizes == <<0 :> 2 @@ 1 :> 2, 0 :> 6 @@ 1 :> 6>>
=============================================================================
