----------------------------- MODULE KVAbstract -----------------------------
(***************************************************************************)
(* What the key-value component promises its clients: a dictionary whose   *)
(* updates are atomic even when the power fails in the middle of one, with *)
(* factory (read-only) values that show through when a key is deleted and  *)
(* that a reset restores.                                                  *)
(***************************************************************************)

CONSTANTS
    Keys,       \* the keys clients use
    Vals,       \* the values clients store
    NoVal,      \* "key does not exist"
    Factory,    \* [Keys -> Vals \cup {NoVal}]: the values shipped read-only
    Text        \* [Keys -> Vals \cup {NoVal}]: the text the image holds for them, taken as a value

VARIABLES
    store,      \* [Keys -> Vals \cup {NoVal}]: what aos_kv_get returns
    op,         \* the call in progress
    res         \* result of the last call, "none" after a power loss

vars == <<store, op, res>>

NoOp      == [kind |-> "none"]
SetOp(k, v)  == [kind |-> "set", key |-> k, val |-> v]
DoneOp(k, v) == [kind |-> "stored", key |-> k, val |-> v]
DelOp(k)  == [kind |-> "del", key |-> k]
ResetOp   == [kind |-> "reset"]

Init ==
    /\ store = Factory
    /\ op = NoOp
    /\ res = "none"

Put(k, v) == [store EXCEPT ![k] = v]

(* A set is announced, may take effect once, and succeeds only if it did. *)
SetStart(k, v) ==
    /\ op = NoOp
    /\ op' = SetOp(k, v)
    /\ UNCHANGED <<store, res>>

SetTakesEffect(k, v) ==
    /\ op = SetOp(k, v)
    /\ store' = Put(k, v)
    /\ \/ op' = DoneOp(k, v) /\ res' = res
       \/ op' = NoOp /\ res' = "ok"

SetSucceeds(k, v) ==
    /\ op = DoneOp(k, v)
    /\ op' = NoOp
    /\ res' = "ok"
    /\ UNCHANGED store

SetFails(k, v) ==
    /\ op \in {NoOp, SetOp(k, v)}
    /\ op' = NoOp
    /\ res' = "fail"
    /\ UNCHANGED store

(* Storing the value a key already has changes nothing and succeeds. *)
SetSame(k, v) ==
    /\ op \in {NoOp, SetOp(k, v)}
    /\ store[k] = v
    /\ op' = NoOp
    /\ res' = "ok"
    /\ UNCHANGED store

(* The exception: a key at its factory value, set to the text this value   *)
(* has in the image, keeps the factory value, and the call succeeds.       *)
SetText(k, v) ==
    /\ op \in {NoOp, SetOp(k, v)}
    /\ store[k] = Factory[k] /\ v = Text[k]
    /\ op' = NoOp
    /\ res' = "ok"
    /\ UNCHANGED store

DelStart(k) ==
    /\ op = NoOp
    /\ op' = DelOp(k)
    /\ UNCHANGED <<store, res>>

DelTakesEffect(k) ==
    /\ op = DelOp(k)
    /\ store' = Put(k, Factory[k])
    /\ op' = NoOp
    /\ res' = "ok"

DelMissing(k) ==
    /\ op = NoOp
    /\ store[k] = NoVal
    /\ op' = NoOp
    /\ res' = "fail"
    /\ UNCHANGED store

(* A reset drops the keys one after the other; it ends with all of them     *)
(* back at their factory values.                                           *)
ResetStart ==
    /\ op = NoOp
    /\ op' = ResetOp
    /\ UNCHANGED <<store, res>>

ResetKey(k) ==
    /\ op = ResetOp
    /\ store' = Put(k, Factory[k])
    /\ UNCHANGED <<op, res>>

ResetEnd ==
    /\ op = ResetOp
    /\ store = Factory
    /\ op' = NoOp
    /\ res' = "ok"
    /\ UNCHANGED store

(* Power loss: the call in progress has happened or it has not. *)
PowerLoss ==
    /\ op' = NoOp
    /\ res' = "none"
    /\ \/ store' = store
       \/ \E k \in Keys, v \in Vals : op = SetOp(k, v) /\ store' = Put(k, v)
       \/ \E k \in Keys : op \in {DelOp(k), ResetOp} /\ store' = Put(k, Factory[k])

Next ==
    \/ \E k \in Keys, v \in Vals :
          \/ SetStart(k, v)
          \/ SetTakesEffect(k, v)
          \/ SetSucceeds(k, v)
          \/ SetFails(k, v)
          \/ SetSame(k, v)
          \/ SetText(k, v)
    \/ \E k \in Keys : DelStart(k) \/ DelTakesEffect(k) \/ DelMissing(k)
    \/ ResetStart
    \/ \E k \in Keys : ResetKey(k)
    \/ ResetEnd
    \/ PowerLoss

Spec == Init /\ [][Next]_vars

=============================================================================
