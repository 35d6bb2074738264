-------------------------------- MODULE Config -------------------------------
(***************************************************************************)
(* internal/config, and what main.go and the clients make of a vacuum's    *)
(* entry: which environments Load accepts, the name, the store key and the *)
(* backend of each vacuum, and the robot each backend then finds for it.   *)
(*                                                                         *)
(* Values are abstract: trimmed, and folded where the code ignores case.   *)
(***************************************************************************)
EXTENDS Naturals

CONSTANT DefaultName    \* the i-th entry's name if it has none, "vacuum-i"

Unset    == ""
NoDevice == "no device"

Backends == {"roborock", "xiaomi", "local"}

-----------------------------------------------------------------------------
(* Load                                                                    *)

normalizeBackend(b) == IF b = "cloud" THEN "roborock" ELSE b

Control(env) ==
    IF env.control = Unset THEN "roborock" ELSE normalizeBackend(env.control)

\* ROBOROCK_i_HOST, _TOKEN, _NAME, _DID and _BACKEND.
Blank(e) == {e.host, e.token, e.name, e.did, e.backend} = {Unset}

\* The scan ends at the first gap.
Scanned(env) ==
    {i \in DOMAIN env.entries : \A j \in 1 .. i : ~Blank(env.entries[j])}

BackendOf(env, e) ==
    LET own == normalizeBackend(e.backend) IN
    IF own # Unset THEN own
    ELSE IF Control(env) = "mixed" THEN "roborock" ELSE Control(env)

Complete(e, backend) ==
    /\ backend \in Backends
    /\ backend = "local" => e.host # Unset /\ e.token # Unset
    /\ backend = "xiaomi" => {e.host, e.token, e.did, e.name} # {Unset}
    /\ backend = "roborock" => {e.host, e.did, e.name} # {Unset}

NameOf(env, i) ==
    IF env.entries[i].name = Unset THEN DefaultName[i] ELSE env.entries[i].name

HostOf(env, i) ==
    LET e == env.entries[i] IN
    IF e.host # Unset THEN e.host
    ELSE IF e.did # Unset THEN e.did
    ELSE IF BackendOf(env, e) = "roborock" THEN NameOf(env, i) ELSE Unset

VacuumConfig(env, i) ==
    [host |-> HostOf(env, i), token |-> env.entries[i].token, name |-> NameOf(env, i),
     did |-> env.entries[i].did, backend |-> BackendOf(env, env.entries[i])]

\* Mutant: two vacuums may have the same host.
LoadsMutant(env) ==
    /\ Scanned(env) # {}
    /\ Control(env) \in Backends \cup {"mixed"}
    /\ \A i \in Scanned(env) : Complete(env.entries[i], BackendOf(env, env.entries[i]))

Loads(env) ==
    /\ Scanned(env) # {}
    /\ Control(env) \in Backends \cup {"mixed"}
    /\ \A i \in Scanned(env) : Complete(env.entries[i], BackendOf(env, env.entries[i]))
    /\ \A i, j \in Scanned(env) : HostOf(env, i) = HostOf(env, j) => i = j

Uses(env, backend) ==
    {i \in Scanned(env) : BackendOf(env, env.entries[i]) = backend}

-----------------------------------------------------------------------------
(* The robot a vacuum's entry stands for.                                  *)

First(list, hits) ==
    IF hits = {} THEN NoDevice
    ELSE list[CHOOSE k \in hits : \A l \in hits : k <= l].did

\* A DID must be there; else the first device with the address, the token, or,
\* if the entry has neither, the name.
matchCloudDevice(v, list) ==
    First(list, {k \in DOMAIN list :
        LET d == list[k] IN
        IF v.did # Unset THEN d.did = v.did
        ELSE \/ v.host # Unset /\ d.localIP = v.host
             \/ v.token # Unset /\ d.token = v.token
             \/ v.host = Unset /\ v.token = Unset /\ d.name = v.name})

\* What main.go hands to the helper; its third choice, the host, is never
\* reached, since every vacuum has a name.
Selector(v) == IF v.did # Unset THEN v.did ELSE v.name

\* Of the helper: the first device with that DUID or name.
select_device(selector, list) ==
    First(list, {k \in DOMAIN list : selector \in {list[k].did, list[k].name}})

\* Vacuum.Host(): the key of the vacuum's record in the store.
StoreKey(v, list) ==
    IF v.host # Unset THEN v.host ELSE matchCloudDevice(v, list)
=============================================================================
