----------------------------- MODULE Dictionary -----------------------------
(***************************************************************************)
(* What a hashish handle promises to the threads that share it: a map from *)
(* keys to data pointers on which hi_insert, hi_get, hi_remove and the     *)
(* snapshot of one bucket take effect at one instant between their call    *)
(* and their return.  No lock, chain or counter appears here; ListTable is *)
(* shown to implement this module.                                         *)
(***************************************************************************)

CONSTANTS
    Thread,   \* the threads that share the handle
    Key,      \* the keys
    Data,     \* the data pointers a caller may store
    None,     \* no data: the key is absent
    Bucket,   \* the buckets
    Home      \* the bucket each key hashes to, a function [Key -> Bucket]

VARIABLES
    dict,     \* dict[k]: the data stored under k, or None
    call,     \* call[t]: the call t makes or made last
    stage,    \* stage[t]: "idle", "called" (no effect yet) or "done"
    reply     \* reply[t]: what the last call of t returned, or NoReply

vars == <<dict, call, stage, reply>>

NoReply == [code |-> "NONE", data |-> None, content |-> {}]

Call ==
    [op: {"insert"}, key: Key, data: Data, bucket: Bucket]
      \cup [op: {"get", "remove"}, key: Key, data: {None}, bucket: Bucket]
      \cup [op: {"to_array"}, key: {None}, data: {None}, bucket: Bucket]

NoCall == [op |-> "none", key |-> None, data |-> None, bucket |-> None]

Contents(b) == {<<k, dict[k]>> : k \in {x \in Key : Home[x] = b /\ dict[x] # None}}

Init ==
    /\ dict = [k \in Key |-> None]
    /\ call = [t \in Thread |-> NoCall]
    /\ stage = [t \in Thread |-> "idle"]
    /\ reply = [t \in Thread |-> NoReply]

Begin(t) ==
    /\ stage[t] = "idle"
    /\ \E c \in Call : call' = [call EXCEPT ![t] = c]
    /\ stage' = [stage EXCEPT ![t] = "called"]
    /\ reply' = [reply EXCEPT ![t] = NoReply]
    /\ UNCHANGED dict

Answer(t, code, data, content) ==
    /\ stage' = [stage EXCEPT ![t] = "done"]
    /\ reply' = [reply EXCEPT ![t] = [code |-> code, data |-> data, content |-> content]]
    /\ UNCHANGED call

Called(t, op) == stage[t] = "called" /\ call[t].op = op

\* Out of memory: the call fails and has no effect.
Fail(t) ==
    /\ Called(t, "insert") \/ Called(t, "to_array")
    /\ Answer(t, "SYSTEM", None, {})
    /\ UNCHANGED dict

Insert(t) ==
    LET k == call[t].key IN
    /\ Called(t, "insert")
    /\ \/ /\ dict[k] = None
          /\ dict' = [dict EXCEPT ![k] = call[t].data]
          /\ Answer(t, "SUCCESS", None, {})
       \/ /\ dict[k] # None
          /\ Answer(t, "DUPKEY", None, {})
          /\ UNCHANGED dict

Get(t) ==
    LET k == call[t].key IN
    /\ Called(t, "get")
    /\ IF dict[k] = None THEN Answer(t, "NOKEY", None, {})
                         ELSE Answer(t, "SUCCESS", dict[k], {})
    /\ UNCHANGED dict

Remove(t) ==
    LET k == call[t].key IN
    /\ Called(t, "remove")
    /\ IF dict[k] = None THEN Answer(t, "NOKEY", None, {})
                         ELSE Answer(t, "SUCCESS", dict[k], {})
    /\ dict' = [dict EXCEPT ![k] = None]

ToArray(t) ==
    LET c == Contents(call[t].bucket) IN
    /\ Called(t, "to_array")
    /\ IF c = {} THEN Answer(t, "NODATA", None, {})
                 ELSE Answer(t, "SUCCESS", None, c)
    /\ UNCHANGED dict

End(t) ==
    /\ stage[t] = "done"
    /\ stage' = [stage EXCEPT ![t] = "idle"]
    /\ UNCHANGED <<dict, call, reply>>

Effect(t) == Fail(t) \/ Insert(t) \/ Get(t) \/ Remove(t) \/ ToArray(t)

Next == \E t \in Thread : Begin(t) \/ Effect(t) \/ End(t)

\* Every call takes effect and returns.
Fairness == \A t \in Thread : WF_vars(Effect(t)) /\ WF_vars(End(t))

\* What the calls do, without the promise that they return.
Safety == Init /\ [][Next]_vars

Spec == Safety /\ Fairness
=============================================================================
