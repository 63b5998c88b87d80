------------------------------- MODULE BootAB -------------------------------
(***************************************************************************)
(* The A/B boot flags of components/bootab: bootab.c keeps, per slot, an   *)
(* activation version (the smaller one wins), a rollback switch, a finish  *)
(* mark and a boot counter in the envab partition; ota_ab.c drives them    *)
(* from the application.  The boot loader, the images and the resets are   *)
(* outside the repository and modelled from how this code uses them.       *)
(* A step is one flash operation; a reset may come before every step.      *)
(***************************************************************************)
EXTENDS Integers

CONSTANTS
    MaxVer,         \* B_MAX_VER, the value of an erased activation version
    BootLimit,      \* BOOT_LIMIT
    MaxCnt,         \* MAX_BOOT_CNT_RE
    Fallback,       \* the arguments otaab_finish is called with: a subset of {0, 1}
    EarlyReset      \* TRUE: a working application may restart before otaab_finish is done

ASSUME BootAssumption ==
    /\ MaxVer \in Nat /\ MaxVer > 1
    /\ BootLimit \in Nat /\ MaxCnt \in Nat /\ BootLimit <= MaxCnt
    /\ Fallback \subseteq {0, 1} /\ EarlyReset \in BOOLEAN

VARIABLES
    ver,            \* active_ver, 0 is invalid
    rb,             \* rb_flag: "blank" (erased), "on" (0xFFFF0000), "off" (0)
    fin,            \* finish = B_FINISH_FLAG
    cnt,            \* number of cleared words of bootab_bc
    img,            \* the image in the slot: "good", "bad" or "partial"
    cur,            \* g_cur_slot of the running program
    run,            \* the slot the running program was booted from
    reason,         \* boot reason: "soft" (SOFT, WDT) or "hard"
    pc

vars  == <<ver, rb, fin, cnt, img, cur, run, reason, pc>>
flags == <<ver, rb, fin, cnt>>

Slots == {"a", "b"}
Other(s) == IF s = "a" THEN "b" ELSE "a"

-----------------------------------------------------------------------------
(* check_ab_valid and bootab_get_current_ab.                               *)
Valid(s) == ver[s] = MaxVer \/ (fin[s] /\ ver[s] # 0)

Select ==
    IF Valid("a") /\ Valid("b") THEN IF ver["a"] <= ver["b"] THEN "a" ELSE "b"
    ELSE IF Valid("a") THEN "a" ELSE "b"

NoneValid == ~Valid("a") /\ ~Valid("b")

(* bootab_clear_flags: the sector of the slot is erased. *)
Clear(S) ==
    /\ ver' = [s \in Slots |-> IF s \in S THEN MaxVer ELSE ver[s]]
    /\ rb'  = [s \in Slots |-> IF s \in S THEN "blank" ELSE rb[s]]
    /\ fin' = [s \in Slots |-> IF s \in S THEN FALSE ELSE fin[s]]
    /\ cnt' = [s \in Slots |-> IF s \in S THEN 0 ELSE cnt[s]]

(* Mutants: the larger version wins; rollback is left off; the finish mark  *)
(* is programmed before the rest.                                          *)
SetValid_Above(s, complete) ==
    /\ ver' = [ver EXCEPT ![s] = ver[Other(s)] + 1]
    /\ rb'  = [rb EXCEPT ![s] = "on"]
    /\ fin' = [fin EXCEPT ![s] = complete]
    /\ cnt' = cnt

SetValid_NoRollback(s, complete) ==
    /\ ver' = [ver EXCEPT ![s] = ver[Other(s)] - 1]
    /\ fin' = [fin EXCEPT ![s] = complete]
    /\ UNCHANGED <<rb, cnt>>

SetValid_FinishFirst(s, complete) ==
    /\ ver' = [ver EXCEPT ![s] = ver[Other(s)] - 1]
    /\ rb'  = [rb EXCEPT ![s] = "on"]
    /\ fin' = [fin EXCEPT ![s] = TRUE]
    /\ cnt' = cnt

(* bootab_set_valid: version one below the other slot's, rollback on, and   *)
(* the finish mark, which is programmed last.                              *)
SetValid(s, complete) ==
    /\ ver' = [ver EXCEPT ![s] = ver[Other(s)] - 1]
    /\ rb'  = [rb EXCEPT ![s] = "on"]
    /\ fin' = [fin EXCEPT ![s] = complete]
    /\ cnt' = cnt

(* bootab_set_fallback_enable: not on an erased slot, and a switch that is *)
(* off cannot be programmed on again.                                      *)
FallbackEnable(s) ==
    /\ rb' = IF rb[s] = "blank" /\ ver[s] # MaxVer THEN [rb EXCEPT ![s] = "on"] ELSE rb
    /\ UNCHANGED <<ver, fin, cnt>>

(* Mutant: rollback stays on. *)
FallbackDisable_Not(s) == UNCHANGED <<ver, rb, fin, cnt>>

FallbackDisable(s) ==
    /\ rb' = IF rb[s] = "on" THEN [rb EXCEPT ![s] = "off"] ELSE rb
    /\ UNCHANGED <<ver, fin, cnt>>

-----------------------------------------------------------------------------
(* Boot loader: bootab_init, then bootab_fallback, then the image starts.  *)
BootSelect ==
    /\ pc = "boot"
    /\ \/ /\ NoneValid
          /\ Clear(Slots)
          /\ UNCHANGED <<pc, cur>>
       \/ /\ ~NoneValid
          /\ cur' = Select /\ pc' = "fallback"
          /\ UNCHANGED flags
    /\ UNCHANGED <<img, run, reason>>

(* Mutants: watchdog resets are not counted; one boot too many is allowed;  *)
(* the slot that is given up stays valid.                                  *)
Counted_NotSoft(s) == reason = "hard" /\ cnt[s] < MaxCnt

Exhausted_Late(s) == rb[s] = "on" /\ cnt[s] > BootLimit

RollBack_StaysValid ==
    /\ pc = "fallback"
    /\ rb[cur] = "on" /\ cnt[cur] >= BootLimit
    /\ run' = Other(cur)
    /\ pc' = "start"
    /\ UNCHANGED <<ver, rb, fin, cnt, img, cur, reason>>

(* bootab_set_bootcount counts soft and watchdog resets only. *)
Counted(s) == reason = "soft" /\ cnt[s] < MaxCnt

(* bootab_fallback gives a slot up when its boots are used up. *)
Exhausted(s) == rb[s] = "on" /\ cnt[s] >= BootLimit

RollBack ==
    /\ pc = "fallback"
    /\ Exhausted(cur)
    /\ ver' = [ver EXCEPT ![cur] = 0]
    /\ run' = Other(cur)
    /\ pc' = "start"
    /\ UNCHANGED <<rb, fin, cnt, img, cur, reason>>

BootCurrent ==
    /\ pc = "fallback"
    /\ ~Exhausted(cur)
    /\ cnt' = IF rb[cur] = "on" /\ Counted(cur) THEN [cnt EXCEPT ![cur] = @ + 1] ELSE cnt
    /\ run' = cur
    /\ pc' = "start"
    /\ UNCHANGED <<ver, rb, fin, img, cur, reason>>

(* The image starts and the application initialises bootab again. *)
StartApp ==
    /\ pc = "start" /\ img[run] = "good"
    /\ pc' = "app"
    /\ \/ /\ NoneValid
          /\ Clear(Slots)
          /\ cur' = "a"
       \/ /\ ~NoneValid
          /\ cur' = Select
          /\ UNCHANGED flags
    /\ UNCHANGED <<img, run, reason>>

(* It does not start: the watchdog resets the chip. *)
Watchdog ==
    /\ pc = "start" /\ img[run] # "good"
    /\ pc' = "boot" /\ reason' = "soft"
    /\ UNCHANGED <<ver, rb, fin, cnt, img, cur, run>>

-----------------------------------------------------------------------------
(* otaab_finish: clear the other slot's flags, then the rollback switch.   *)
FinishClear ==
    /\ pc = "app"
    /\ Clear({Other(cur)})
    /\ pc' = "finish"
    /\ UNCHANGED <<img, cur, run, reason>>

FinishSwitch(f) ==
    /\ pc = "finish"
    /\ IF f = 1 THEN FallbackEnable(cur) ELSE FallbackDisable(cur)
    /\ pc' = "ready"
    /\ UNCHANGED <<img, cur, run, reason>>

(* otaab_upgrade_slice: the images of the next slot are overwritten, slice *)
(* by slice; the whole has been verified, or a slice failed.               *)
Download ==
    /\ pc = "ready"
    /\ ver[cur] > 1         \* 2^32 - 2 upgrades
    /\ img' = [img EXCEPT ![Other(cur)] = "partial"]
    /\ pc' = "download"
    /\ UNCHANGED <<ver, rb, fin, cnt, cur, run, reason>>

(* Mutant: a slice that failed does not stop the upgrade. *)
DownloadEnds_Unchecked(q) ==
    /\ pc = "download"
    /\ img' = [img EXCEPT ![Other(cur)] = q]
    /\ pc' = "clear"
    /\ UNCHANGED <<ver, rb, fin, cnt, cur, run, reason>>

DownloadEnds(q) ==
    /\ pc = "download"
    /\ img' = [img EXCEPT ![Other(cur)] = q]
    /\ pc' = IF q = "partial" THEN "ready" ELSE "clear"
    /\ UNCHANGED <<ver, rb, fin, cnt, cur, run, reason>>

(* otaab_upgrade_end. *)
EndClear ==
    /\ pc = "clear"
    /\ Clear({Other(cur)})
    /\ pc' = "enable"
    /\ UNCHANGED <<img, cur, run, reason>>

EndEnable ==
    /\ pc = "enable"
    /\ FallbackEnable(Other(cur))
    /\ pc' = "valid"
    /\ UNCHANGED <<img, cur, run, reason>>

EndValid ==
    /\ pc = "valid"
    /\ SetValid(Other(cur), TRUE)
    /\ pc' = "done"
    /\ UNCHANGED <<img, cur, run, reason>>

-----------------------------------------------------------------------------
(* Resets: the application restarts, or power fails anywhere, also while   *)
(* the flags are being programmed.                                         *)
SoftReset ==
    /\ \/ pc \in {"ready", "download", "clear", "enable", "valid", "done"}
       \/ EarlyReset /\ pc \in {"app", "finish"}
    /\ pc' = "boot" /\ reason' = "soft"
    /\ UNCHANGED <<ver, rb, fin, cnt, img, cur, run>>

HardReset ==
    /\ pc' = "boot" /\ reason' = "hard"
    /\ \/ pc = "valid" /\ SetValid(Other(cur), FALSE)
       \/ UNCHANGED flags
    /\ UNCHANGED <<img, cur, run>>

Init ==
    /\ ver = [s \in Slots |-> MaxVer] /\ rb = [s \in Slots |-> "blank"]
    /\ fin = [s \in Slots |-> FALSE] /\ cnt = [s \in Slots |-> 0]
    /\ img \in {i \in [Slots -> {"good", "bad", "partial"}] : i["a"] = "good"}
    /\ cur = "a" /\ run = "a" /\ reason = "hard" /\ pc = "boot"

Boot == BootSelect \/ RollBack \/ BootCurrent \/ StartApp \/ Watchdog

App ==
    \/ FinishClear \/ \E f \in Fallback : FinishSwitch(f)
    \/ Download \/ \E q \in {"good", "bad", "partial"} : DownloadEnds(q)
    \/ EndClear \/ EndEnable \/ EndValid

Next == Boot \/ App \/ SoftReset \/ HardReset

(* The boot loader runs on and the watchdog fires; nothing else is due. *)
Spec == Init /\ [][Next]_vars /\ WF_vars(Boot)

-----------------------------------------------------------------------------
(* The flags are values the flash layout can hold. *)
TypeOK ==
    /\ ver \in [Slots -> 0 .. MaxVer] /\ rb \in [Slots -> {"blank", "on", "off"}]
    /\ fin \in [Slots -> BOOLEAN] /\ cnt \in [Slots -> 0 .. MaxCnt]
    /\ img \in [Slots -> {"good", "bad", "partial"}]
    /\ cur \in Slots /\ run \in Slots /\ reason \in {"soft", "hard"}
    /\ pc \in {"boot", "fallback", "start", "app", "finish", "ready", "download",
               "clear", "enable", "valid", "done"}

(* Whatever happens next, a reset now leads to a working image: the slot   *)
(* the flags select holds one, or it rolls back to a valid slot that does. *)
Bootable ==
    /\ ~NoneValid
    /\ \/ img[Select] = "good"
       \/ rb[Select] = "on" /\ Valid(Other(Select)) /\ img[Other(Select)] = "good"

(* An application never rewrites the slot it runs from, and the slot it    *)
(* believes to run from is the one it was booted from.                     *)
RunsCurrent == pc \in {"app", "finish", "ready", "download", "clear", "enable", "valid", "done"} => cur = run

(* A half-written image is never started. *)
NeverPartial == pc = "start" => img[run] # "partial"

(* otaab_finish has begun, the upgrade is not marked valid yet. *)
Upgrading == {"finish", "ready", "download", "clear", "enable", "valid"}

(* A slot that otaab_finish has settled keeps being booted, wherever a      *)
(* reset interrupts the next upgrade (its slices, the clearing of the      *)
(* flags, the program of the flags), until that upgrade is marked valid.   *)
StaysFinished ==
    [][(pc \in Upgrading \ {"finish"} /\ pc' = "boot") => Select' = cur]_vars

(* Rollback: however bad the image that was installed, the watchdog resets *)
(* end in a working application, unless the power is cycled meanwhile.     *)
Recovers == (pc = "boot" /\ reason = "soft") ~> (pc = "app" \/ reason = "hard")

(* The boot counter is spent long before its words are: the saturation     *)
(* test of bootab_set_bootcount never decides, and a slot with rollback on *)
(* is counted at most BootLimit times.                                     *)
CountBounded == \A s \in Slots : cnt[s] <= BootLimit

-----------------------------------------------------------------------------
(* The inductive invariant behind Bootable, RunsCurrent and NeverPartial    *)
(* when otaab_finish(0) is the only call and working applications are not   *)
(* restarted before it: one slot is home, the other one is either out of   *)
(* the way or an upgrade on trial.                                         *)
Erased(s) == ver[s] = MaxVer /\ rb[s] = "blank" /\ ~fin[s] /\ cnt[s] = 0

(* A working image on trial has been counted once at most. *)
Fresh(s) == cnt[s] = 0 \/ (cnt[s] = 1 /\ ~(reason = "soft" /\ pc \in {"boot", "fallback"}))

Home(h) ==
    /\ img[h] = "good" /\ Valid(h)
    /\ ver[h] = MaxVer => h = "a"
    /\ rb[h] = "on" => Fresh(h)

Aside(h) == ver[Other(h)] = MaxVer \/ ~Valid(Other(h))

OnTrial(h) ==
    /\ rb[h] # "on"
    /\ Valid(Other(h)) /\ ver[Other(h)] < ver[h]
    /\ rb[Other(h)] = "on"
    /\ img[Other(h)] # "partial"
    /\ img[Other(h)] = "good" => Fresh(Other(h))

Phase ==
    /\ pc = "fallback" => cur = Select
    /\ pc = "start" => run = Select
    /\ pc = "app" => cur = Select
    /\ pc \in Upgrading \cup {"app", "done"} => cur = run /\ img[cur] = "good"
    /\ pc \in Upgrading => Erased(Other(cur)) /\ Home(cur)
    /\ pc \in Upgrading \ {"finish"} => rb[cur] # "on"
    /\ pc \in {"download", "clear", "enable", "valid"} => ver[cur] > 1
    /\ pc \in {"clear", "enable", "valid"} => img[Other(cur)] # "partial"
    /\ pc = "done" => Home(cur) /\ OnTrial(cur) /\ cnt[Other(cur)] = 0

IInv ==
    /\ TypeOK
    /\ Phase
    /\ \E h \in Slots : Home(h) /\ (Aside(h) \/ OnTrial(h))

=============================================================================
