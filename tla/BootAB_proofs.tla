--------------------------- MODULE BootAB_proofs ---------------------------
(***************************************************************************)
(* Proofs about the A/B boot flags, for every MaxVer, BootLimit and MaxCnt. *)
(***************************************************************************)
EXTENDS BootAB, TLAPS

(* The slots and their exchange. *)
LEMMA OtherSlot ==
    ASSUME NEW s \in Slots
    PROVE  Other(s) \in Slots /\ Other(s) # s /\ Other(Other(s)) = s
BY DEF Slots, Other

LEMMA SelectSlot == Select \in Slots
BY DEF Select, Slots

-----------------------------------------------------------------------------
(* Types.  Versions stay natural numbers because Download requires a        *)
(* version above 1 and nothing lowers it until set_valid subtracts one.    *)
TInv ==
    /\ TypeOK
    /\ pc \in {"download", "clear", "enable", "valid"} => ver[cur] > 1

(* Erasing flags and switching rollback keep the flags well typed. *)
LEMMA ClearType ==
    ASSUME TypeOK, NEW S, Clear(S)
    PROVE  /\ ver' \in [Slots -> 0 .. MaxVer] /\ rb' \in [Slots -> {"blank", "on", "off"}]
           /\ fin' \in [Slots -> BOOLEAN] /\ cnt' \in [Slots -> 0 .. MaxCnt]
<1>1. ver' \in [Slots -> 0 .. MaxVer]
  BY BootAssumption DEF TypeOK, Clear, BootAssumption
<1>2. rb' \in [Slots -> {"blank", "on", "off"}]
  BY DEF TypeOK, Clear
<1>3. fin' \in [Slots -> BOOLEAN]
  BY Zenon DEF TypeOK, Clear
<1>4. cnt' \in [Slots -> 0 .. MaxCnt]
  BY BootAssumption DEF TypeOK, Clear, BootAssumption
<1>5. QED
  BY <1>1, <1>2, <1>3, <1>4

LEMMA SwitchType ==
    ASSUME TypeOK, NEW s \in Slots, FallbackEnable(s) \/ FallbackDisable(s)
    PROVE  rb' \in [Slots -> {"blank", "on", "off"}] /\ UNCHANGED <<ver, fin, cnt>>
BY DEF TypeOK, FallbackEnable, FallbackDisable

LEMMA SetValidType ==
    ASSUME TypeOK, NEW s \in Slots, NEW c \in BOOLEAN, ver[Other(s)] > 1, SetValid(s, c)
    PROVE  /\ ver' \in [Slots -> 0 .. MaxVer] /\ rb' \in [Slots -> {"blank", "on", "off"}]
           /\ fin' \in [Slots -> BOOLEAN] /\ cnt' \in [Slots -> 0 .. MaxCnt]
<1>1. ver[Other(s)] \in 0 .. MaxVer
  BY OtherSlot DEF TypeOK
<1>2. ver[Other(s)] - 1 \in 0 .. MaxVer
  BY <1>1, BootAssumption DEF BootAssumption
<1>3. QED
  BY <1>2 DEF TypeOK, SetValid

(* Every step keeps the types. *)
LEMMA TypeStep == TInv /\ [Next]_vars => TInv'
<1> SUFFICES ASSUME TInv, [Next]_vars PROVE TInv'
  OBVIOUS
<1> USE DEF TInv
<1>0. cur \in Slots /\ Other(cur) \in Slots /\ Other(Other(cur)) = cur /\ Other(cur) # cur
  BY OtherSlot DEF TypeOK
<1>1. CASE BootSelect
  <2>1. CASE NoneValid /\ Clear(Slots) /\ UNCHANGED <<pc, cur>>
    BY <1>1, <2>1, ClearType DEF BootSelect, TypeOK
  <2>2. CASE cur' = Select /\ pc' = "fallback" /\ UNCHANGED flags
    BY <1>1, <2>2, SelectSlot DEF BootSelect, TypeOK, flags
  <2>3. QED
    BY <1>1, <2>1, <2>2 DEF BootSelect
<1>2. CASE RollBack
  BY <1>0, <1>2, BootAssumption DEF RollBack, TypeOK, BootAssumption
<1>3. CASE BootCurrent
  <2>1. cnt' \in [Slots -> 0 .. MaxCnt]
    BY <1>0, <1>3, BootAssumption DEF BootCurrent, TypeOK, Counted, BootAssumption
  <2>2. QED
    BY <1>3, <2>1 DEF BootCurrent, TypeOK
<1>4. CASE StartApp
  <2>1. CASE NoneValid /\ Clear(Slots) /\ cur' = "a"
    BY <1>4, <2>1, ClearType DEF StartApp, TypeOK, Slots
  <2>2. CASE cur' = Select /\ UNCHANGED flags
    BY <1>4, <2>2, SelectSlot DEF StartApp, TypeOK, flags
  <2>3. QED
    BY <1>4, <2>1, <2>2 DEF StartApp
<1>5. CASE Watchdog
  BY <1>5 DEF Watchdog, TypeOK
<1>6. CASE FinishClear
  BY <1>6, ClearType DEF FinishClear, TypeOK
<1>7. ASSUME NEW f \in Fallback, FinishSwitch(f) PROVE TInv'
  BY <1>0, <1>7, SwitchType DEF FinishSwitch, TypeOK
<1>8. CASE Download
  BY <1>0, <1>8 DEF Download, TypeOK
<1>9. ASSUME NEW q \in {"good", "bad", "partial"}, DownloadEnds(q) PROVE TInv'
  BY <1>0, <1>9 DEF DownloadEnds, TypeOK
<1>10. CASE EndClear
  <2>1. ver'[cur] = ver[cur]
    BY <1>0, <1>10 DEF EndClear, Clear
  <2>2. QED
    BY <1>10, <2>1, ClearType DEF EndClear, TypeOK
<1>11. CASE EndEnable
  BY <1>0, <1>11, SwitchType DEF EndEnable, TypeOK
<1>12. CASE EndValid
  BY <1>0, <1>12, SetValidType DEF EndValid, TypeOK
<1>13. CASE SoftReset
  BY <1>13 DEF SoftReset, TypeOK
<1>14. CASE HardReset
  <2>1. CASE pc = "valid" /\ SetValid(Other(cur), FALSE)
    BY <1>0, <1>14, <2>1, SetValidType DEF HardReset, TypeOK
  <2>2. CASE UNCHANGED flags
    BY <1>14, <2>2 DEF HardReset, TypeOK, flags
  <2>3. QED
    BY <1>14, <2>1, <2>2 DEF HardReset
<1>15. CASE UNCHANGED vars
  BY <1>15 DEF vars, TypeOK
<1>16. QED
  BY <1>1, <1>2, <1>3, <1>4, <1>5, <1>6, <1>7, <1>8, <1>9, <1>10, <1>11, <1>12, <1>13, <1>14, <1>15
     DEF Next, Boot, App

LEMMA TypeInit == Init => TInv
BY BootAssumption DEF Init, TInv, TypeOK, Slots, BootAssumption

(* The flags of bootab.c always hold values of their layout. *)
THEOREM TypeCorrect == Spec => []TypeOK
<1>1. Spec => []TInv
  BY TypeInit, TypeStep, PTL DEF Spec
<1>2. TInv => TypeOK
  BY DEF TInv
<1>3. QED
  BY <1>1, <1>2, PTL

-----------------------------------------------------------------------------
(* The counter of a slot never passes the limit, whatever the calls.       *)
LEMMA CountStep == TypeOK /\ CountBounded /\ [Next]_vars => CountBounded'
<1> SUFFICES ASSUME TypeOK, CountBounded, [Next]_vars, NEW s \in Slots
             PROVE  cnt'[s] <= BootLimit
  BY DEF CountBounded
<1>0. cnt[s] <= BootLimit /\ cnt[s] \in Nat /\ 0 <= BootLimit /\ cnt \in [Slots -> 0 .. MaxCnt]
  BY BootAssumption DEF CountBounded, TypeOK, BootAssumption
<1>1. CASE \E S \in {Slots, {Other(cur)}} : Clear(S)
  BY <1>0, <1>1 DEF Clear
<1>2. CASE BootCurrent
  <2>1. cur \in Slots /\ cnt[cur] \in Nat /\ BootLimit \in Nat
    BY BootAssumption DEF TypeOK, BootAssumption
  <2>2. rb[cur] = "on" => cnt[cur] < BootLimit
    BY <1>2, <2>1 DEF BootCurrent, Exhausted
  <2>3. QED
    BY <1>0, <1>2, <2>1, <2>2 DEF BootCurrent, TypeOK
<1>3. CASE UNCHANGED cnt
  BY <1>0, <1>3
<1>4. QED
  BY <1>1, <1>2, <1>3 DEF Next, vars, flags, Boot, App, BootSelect, RollBack, StartApp, Watchdog,
     FinishClear, FinishSwitch, Download, DownloadEnds, EndClear, EndEnable, EndValid, SoftReset,
     HardReset, FallbackEnable, FallbackDisable, SetValid

(* bootab_set_bootcount never runs into its own saturation test: a slot    *)
(* with rollback on is counted at most BOOT_LIMIT times.                   *)
THEOREM CountsBounded == Spec => []CountBounded
<1>1. Init => CountBounded
  BY BootAssumption DEF Init, CountBounded, Slots, BootAssumption
<1>2. QED
  BY <1>1, TypeCorrect, CountStep, PTL DEF Spec

-----------------------------------------------------------------------------
(* The system stays bootable, under the way of calling that its callers    *)
(* follow: otaab_finish(0), before any restart of a working application.   *)
LEMMA Inductive ==
    ASSUME Fallback = {0}, EarlyReset = FALSE, BootLimit >= 2, IInv, [Next]_vars
    PROVE  IInv'
<1> USE DEF IInv
<1>0. TypeOK'
  BY TypeStep DEF TInv, Phase
<1>h. PICK h \in Slots : Home(h) /\ (Aside(h) \/ OnTrial(h))
  OBVIOUS
<1> USE <1>h, BootAssumption
    DEF Phase, Home, Aside, OnTrial, Erased, Fresh, Upgrading, Valid, Select, NoneValid,
        flags, TypeOK, Slots, Other, BootAssumption
<1>1. CASE BootSelect
  BY <1>0, <1>1 DEF BootSelect
<1>2. CASE RollBack
  BY <1>0, <1>2 DEF RollBack, Exhausted
<1>3. CASE BootCurrent
  BY <1>0, <1>3 DEF BootCurrent, Counted, Exhausted
<1>4. CASE StartApp
  BY <1>0, <1>4 DEF StartApp
<1>5. CASE Watchdog
  BY <1>0, <1>5 DEF Watchdog
<1>6. CASE FinishClear
  <2>1. Home(cur)
    BY <1>6 DEF FinishClear
  <2>3. /\ ver'[cur] = ver[cur] /\ rb'[cur] = rb[cur] /\ fin'[cur] = fin[cur] /\ cnt'[cur] = cnt[cur]
        /\ ver'[Other(cur)] = MaxVer /\ rb'[Other(cur)] = "blank"
        /\ ~fin'[Other(cur)] /\ cnt'[Other(cur)] = 0
    BY <1>6 DEF FinishClear, Clear
  <2>4. cur' = cur /\ run' = run /\ img' = img /\ reason' = reason /\ pc = "app" /\ pc' = "finish"
    BY <1>6 DEF FinishClear
  <2>5. Home(cur)' /\ Erased(Other(cur))' /\ Aside(cur)'
    BY <2>1, <2>3, <2>4
  <2>6. Phase'
    BY <2>4, <2>5
  <2>7. QED
    BY <1>0, <2>4, <2>5, <2>6
<1>7. ASSUME NEW f \in Fallback, FinishSwitch(f) PROVE IInv'
  BY <1>0, <1>7 DEF FinishSwitch, FallbackDisable
<1>8. CASE Download
  BY <1>0, <1>8 DEF Download
<1>9. ASSUME NEW q \in {"good", "bad", "partial"}, DownloadEnds(q) PROVE IInv'
  BY <1>0, <1>9 DEF DownloadEnds
<1>10. CASE EndClear
  BY <1>0, <1>10 DEF EndClear, Clear
<1>11. CASE EndEnable
  BY <1>0, <1>11 DEF EndEnable, FallbackEnable
<1>12. CASE EndValid
  BY <1>0, <1>12 DEF EndValid, SetValid
<1>13. CASE SoftReset
  BY <1>0, <1>13 DEF SoftReset
<1>14. CASE HardReset
  BY <1>0, <1>14 DEF HardReset, SetValid
<1>15. CASE UNCHANGED vars
  BY <1>15 DEF vars
<1>16. QED
  BY <1>1, <1>2, <1>3, <1>4, <1>5, <1>6, <1>7, <1>8, <1>9, <1>10, <1>11, <1>12, <1>13, <1>14, <1>15
     DEF Next, Boot, App

LEMMA InductiveInit == Init => IInv
BY BootAssumption
   DEF Init, IInv, Phase, Home, Aside, Erased, Fresh, Upgrading, Valid, Select,
       TypeOK, Slots, Other, BootAssumption

(* What the invariant says about the three properties. *)
LEMMA InductiveImplies == ASSUME IInv PROVE Bootable /\ RunsCurrent /\ NeverPartial
<1>h. PICK h \in Slots : Home(h) /\ (Aside(h) \/ OnTrial(h))
  BY DEF IInv
<1>1. Bootable
  BY <1>h, BootAssumption
     DEF IInv, TypeOK, Bootable, Home, Aside, OnTrial, Valid, NoneValid, Select, Slots, Other,
         BootAssumption
<1>2. RunsCurrent
  BY DEF IInv, RunsCurrent, Phase, Upgrading
<1>3. NeverPartial
  BY <1>h, BootAssumption
     DEF IInv, TypeOK, NeverPartial, Phase, Home, Aside, OnTrial, Valid, Select, Slots, Other,
         BootAssumption
<1>4. QED
  BY <1>1, <1>2, <1>3

(* Called that way, the invariant holds throughout: at every step of        *)
(* bootab.c one slot is home, with a working image and valid flags, and the *)
(* other one is set aside (erased, not valid) or on trial with the lower    *)
(* version and rollback on, as otaab_upgrade_end leaves it.                 *)
THEOREM InvariantHolds ==
    ASSUME Fallback = {0}, EarlyReset = FALSE, BootLimit >= 2
    PROVE  Spec => []IInv
BY InductiveInit, Inductive, PTL DEF Spec

(* A reset at any moment finds a slot to boot, or to roll back to, that    *)
(* holds a working image.                                                  *)
THEOREM AlwaysBootable ==
    ASSUME Fallback = {0}, EarlyReset = FALSE, BootLimit >= 2
    PROVE  Spec => []Bootable
BY InvariantHolds, InductiveImplies, PTL

(* A half-written image is never started, however upgrades are cut short.  *)
THEOREM NeverStartsPartial ==
    ASSUME Fallback = {0}, EarlyReset = FALSE, BootLimit >= 2
    PROVE  Spec => []NeverPartial
BY InvariantHolds, InductiveImplies, PTL

(* An upgrade never overwrites the slot the application runs from.          *)
THEOREM NeverOverwritesItself ==
    ASSUME Fallback = {0}, EarlyReset = FALSE, BootLimit >= 2
    PROVE  Spec => []RunsCurrent
BY InvariantHolds, InductiveImplies, PTL

(* Between otaab_finish and the end of an upgrade the running slot is home  *)
(* and the other one erased; only a reset leads to the boot loader, and the *)
(* flags it may leave half-programmed lack the finish mark.                *)
LEMMA ResetKeepsSlot ==
    ASSUME IInv, [Next]_vars, pc \in Upgrading \ {"finish"}, pc' = "boot"
    PROVE  Select' = cur
<1>1. /\ cur \in Slots /\ Valid(cur)
      /\ ver[cur] = MaxVer => cur = "a"
      /\ Erased(Other(cur)) /\ ver[cur] \in 0 .. MaxVer
      /\ pc = "valid" => ver[cur] > 1
  BY DEF IInv, TypeOK, Phase, Home
<1>2. SoftReset \/ HardReset
  BY DEF Upgrading, Next, Boot, App, BootSelect, RollBack, BootCurrent, StartApp, Watchdog,
         FinishClear, FinishSwitch, Download, DownloadEnds, EndClear, EndEnable, EndValid, vars
<1>3. CASE UNCHANGED flags
  BY <1>1, <1>3, BootAssumption DEF flags, Select, Valid, Erased, Slots, Other, BootAssumption
<1>4. CASE pc = "valid" /\ SetValid(Other(cur), FALSE)
  <2>1. /\ ver'[cur] = ver[cur] /\ fin'[cur] = fin[cur]
        /\ ver'[Other(cur)] = ver[cur] - 1 /\ fin'[Other(cur)] = FALSE
    BY <1>1, <1>4 DEF IInv, TypeOK, SetValid, Slots, Other
  <2>2. Valid(cur)' /\ ~Valid(Other(cur))'
    <3>1. pc' = "boot" /\ cur' = cur
      BY <1>2 DEF SoftReset, HardReset
    <3>2. QED
      BY <1>1, <1>4, <2>1, <3>1, BootAssumption DEF Valid, BootAssumption
  <2>3. QED
    BY <1>1, <1>2, <2>2 DEF Select, Slots, Other, SoftReset, HardReset
<1>5. QED
  BY <1>2, <1>3, <1>4 DEF SoftReset, HardReset, flags

(* Wherever a reset interrupts an upgrade, the slot that runs is the slot   *)
(* that is booted next.                                                    *)
THEOREM UpgradeKeepsSlot ==
    ASSUME Fallback = {0}, EarlyReset = FALSE, BootLimit >= 2
    PROVE  Spec => StaysFinished
<1>1. IInv /\ [Next]_vars => [(pc \in Upgrading \ {"finish"} /\ pc' = "boot") => Select' = cur]_vars
  BY ResetKeepsSlot
<1>2. QED
  BY <1>1, InvariantHolds, PTL DEF Spec, StaysFinished

=============================================================================
