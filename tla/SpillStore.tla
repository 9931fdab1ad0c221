----------------------------- MODULE SpillStore -----------------------------
(***************************************************************************)
(* The tensors an audit keeps outside the model: gradient partials of the  *)
(* cross-replica fold, AdamW moments and the fp32 master, each in a file   *)
(* with a sidecar digest (_save_verified and _load_verified of             *)
(* src/src/pretrain/cli/audit_replay.py).  A digest is the value it is     *)
(* taken of, so a file is sound when payload and sidecar are equal.        *)
(***************************************************************************)
EXTENDS Integers, Sequences

CONSTANT SpillVerify   \* PRETRAIN_AUDIT_SPILL_VERIFY

ASSUME SpillStoreAssumption == SpillVerify \in BOOLEAN

EmptyStore == << >>

\* The payload, then the sidecar taken from the value in memory; no sidecar
\* is written when verification is off.
Saved(store, name, value) ==
    [n \in DOMAIN store \cup {name} |->
        IF n = name THEN [payload |-> value,
                          sidecar |-> IF SpillVerify THEN {value} ELSE {}]
                    ELSE store[n]]

\* A file without a sidecar loads unchecked.
IntactWhenPresent(store, name) == name \in DOMAIN store
Intact(store, name) ==
    ~SpillVerify \/ store[name].sidecar = {}
        \/ store[name].payload \in store[name].sidecar

Loaded(store, name) == store[name].payload

Unlinked(store, names) == [n \in DOMAIN store \ names |-> store[n]]

\* A file changes between write and read.
Rotted(store, name, value) == [store EXCEPT ![name].payload = value]
=============================================================================
