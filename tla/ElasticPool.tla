----------------------------- MODULE ElasticPool -----------------------------
(***************************************************************************)
(* The elastic inference pool: servers come and go behind a DNS name; a    *)
(* sync loop adds, removes and checks them, and every policy update has    *)
(* all of them load the new LoRA adapter.  Both hold one lock and run the  *)
(* same routine per server, the loop for one server at a time, the update  *)
(* for all at once.  Rollouts are sent to the servers marked ready, read   *)
(* without the lock.  A look-up of the name may fail and a living server   *)
(* may fail a health check: both make the pool drop servers that live.     *)
(***************************************************************************)
EXTENDS Integers, FiniteSets

CONSTANTS
    Ips,            \* addresses the servers can have
    MaxStep,        \* bound: policy updates
    MaxFaults,      \* bound: deaths, failed look-ups and failed checks, all together
    QuickRestarts   \* a server may be back before the pool has seen it gone

ASSUME ElasticPoolAssumption ==
    /\ MaxStep \in Nat /\ MaxFaults \in Nat /\ QuickRestarts \in BOOLEAN

VARIABLES
    alive,      \* servers that answer
    adapter,    \* the step of the adapter a server has loaded; 0 is the base model
    dns,        \* addresses the name resolves to
    faults,     \* history: deaths, failed look-ups and failed checks so far
    status,     \* _servers[ip].status; "none" is an unknown server
    desired,    \* _desired.step; 0 before the first update
    lock,       \* who holds _lock
    stage,      \* which loop of sync() is running
    seen,       \* discovered_ips of this sync()
    todo,       \* servers the loop has still to look at
    pc          \* where _sync_server_adapter is for each server

servers  == <<alive, adapter, dns, faults>>
round    == <<lock, stage, seen, todo>>
poolVars == <<servers, status, desired, round, pc>>

Known == {ip \in Ips : status[ip] # "none"}
Quiet == \A ip \in Ips : pc[ip] = "idle"

PoolInit ==
    /\ alive = {} /\ adapter = [ip \in Ips |-> 0] /\ dns = {} /\ faults = 0
    /\ status = [ip \in Ips |-> "none"] /\ desired = 0
    /\ lock = "free" /\ stage = "add" /\ seen = {} /\ todo = {}
    /\ pc = [ip \in Ips |-> "idle"]

-----------------------------------------------------------------------------
(* The servers and the name service. *)

Start(ip) ==
    /\ ip \notin alive
    /\ status[ip] = "none" \/ QuickRestarts
    /\ alive' = alive \cup {ip}
    /\ adapter' = [adapter EXCEPT ![ip] = 0]
    /\ UNCHANGED <<dns, faults>>

Fault == faults < MaxFaults /\ faults' = faults + 1

Die(ip) ==
    /\ ip \in alive /\ Fault
    /\ alive' = alive \ {ip}
    /\ UNCHANGED <<adapter, dns>>

Publish(ip)  == ip \in alive \ dns /\ dns' = dns \cup {ip} /\ UNCHANGED <<alive, adapter, faults>>
Withdraw(ip) == ip \in dns \ alive /\ dns' = dns \ {ip} /\ UNCHANGED <<alive, adapter, faults>>

Environment ==
    /\ \E ip \in Ips : Start(ip) \/ Die(ip) \/ Publish(ip) \/ Withdraw(ip)
    /\ UNCHANGED <<status, desired, round, pc>>

-----------------------------------------------------------------------------
(* _sync_server_adapter: ask what is loaded, load what is wanted, ask again. *)

\* Mutant: any adapter will do.
MatchesAny(loaded) == desired = 0 \/ loaded > 0
(* _adapter_matches_desired *)
Matches(loaded) == desired = 0 \/ loaded = desired

(* _get_loaded_adapter: a query that fails finds no adapter. *)
Answers(ip) == IF ip \in alive THEN {adapter[ip]} ELSE {}
Loaded(ip)  == {0} \cup Answers(ip)

Query(ip, loaded) ==
    /\ pc[ip] = "query"
    /\ status' = [status EXCEPT ![ip] = IF Matches(loaded) THEN "ready" ELSE "syncing"]
    /\ pc' = [pc EXCEPT ![ip] = IF Matches(loaded) THEN "idle" ELSE "load"]
    /\ UNCHANGED <<servers, desired, round>>

LoadAdapter(ip) ==
    /\ pc[ip] = "load" /\ ip \in alive
    /\ adapter' = [adapter EXCEPT ![ip] = desired]
    /\ pc' = [pc EXCEPT ![ip] = "verify"]
    /\ UNCHANGED <<alive, dns, faults, status, desired, round>>

(* load_lora_adapter raises, after its retries; the server may have loaded. *)
LoadFails(ip) ==
    /\ pc[ip] = "load"
    /\ adapter' \in {adapter} \cup (IF ip \in alive THEN {[adapter EXCEPT ![ip] = desired]} ELSE {})
    /\ status' = [status EXCEPT ![ip] = "unhealthy"]
    /\ pc' = [pc EXCEPT ![ip] = "idle"]
    /\ UNCHANGED <<alive, dns, faults, desired, round>>

Verify(ip, loaded) ==
    /\ pc[ip] = "verify"
    /\ status' = [status EXCEPT ![ip] = IF Matches(loaded) THEN "ready" ELSE "unhealthy"]
    /\ pc' = [pc EXCEPT ![ip] = "idle"]
    /\ UNCHANGED <<servers, desired, round>>

SyncServerAdapter(ip) ==
    \/ \E loaded \in Loaded(ip) : Query(ip, loaded) \/ Verify(ip, loaded)
    \/ LoadAdapter(ip) \/ LoadFails(ip)

-----------------------------------------------------------------------------
(* sync: new servers, vanished servers, then the health of every server. *)

\* Mutant: the servers are not awaited one by one.
Gathered == TRUE
(* The loops of sync await one server before the next. *)
InTurn == Quiet

(* discover_server_ips: a look-up that fails finds no server at all. *)
SyncBegin ==
    /\ lock = "free"
    /\ lock' = "sync" /\ stage' = "add"
    /\ \/ seen' = dns /\ UNCHANGED faults
       \/ seen' = {} /\ Fault
    /\ todo' = seen' \ Known
    /\ UNCHANGED <<alive, adapter, dns, status, desired, pc>>

(* _check_server_health *)
Healthy(ip) == ip \in alive /\ UNCHANGED faults
Unhealthy(ip) == IF ip \in alive THEN Fault ELSE UNCHANGED faults

(* _add_server *)
AddServer(ip) ==
    /\ lock = "sync" /\ stage = "add" /\ InTurn /\ ip \in todo
    /\ todo' = todo \ {ip}
    /\ \/ /\ Healthy(ip)
          /\ status' = [status EXCEPT ![ip] = "discovering"]
          /\ pc' = [pc EXCEPT ![ip] = "query"]
       \/ Unhealthy(ip) /\ UNCHANGED <<status, pc>>
    /\ UNCHANGED <<alive, adapter, dns, desired, lock, stage, seen>>

RemoveServer(ip) ==
    /\ lock = "sync" /\ stage = "remove" /\ ip \in todo
    /\ todo' = todo \ {ip}
    /\ status' = [status EXCEPT ![ip] = "none"]
    /\ UNCHANGED <<servers, desired, lock, stage, seen, pc>>

\* Mutant: a server is synchronised only when it is new.
OnlyNew(ip) == status[ip] = "discovering"
NeedsSync(ip) == status[ip] # "ready"

CheckServer(ip) ==
    /\ lock = "sync" /\ stage = "check" /\ InTurn /\ ip \in todo
    /\ todo' = todo \ {ip}
    /\ \/ /\ Healthy(ip)
          /\ pc' = IF NeedsSync(ip) THEN [pc EXCEPT ![ip] = "query"] ELSE pc
          /\ UNCHANGED status
       \/ /\ Unhealthy(ip)
          /\ status' = [status EXCEPT ![ip] = "none"]
          /\ UNCHANGED pc
    /\ UNCHANGED <<alive, adapter, dns, desired, lock, stage, seen>>

NextStage ==
    /\ lock = "sync" /\ Quiet /\ todo = {}
    /\ \/ stage = "add" /\ stage' = "remove" /\ todo' = Known \ seen /\ UNCHANGED lock
       \/ stage = "remove" /\ stage' = "check" /\ todo' = Known /\ UNCHANGED lock
       \/ stage = "check" /\ lock' = "free" /\ UNCHANGED <<stage, todo>>
    /\ UNCHANGED <<servers, status, desired, seen, pc>>

Sync == SyncBegin \/ NextStage
        \/ \E ip \in Ips : AddServer(ip) \/ RemoveServer(ip) \/ CheckServer(ip)

-----------------------------------------------------------------------------
(* sync_weights, called by the weight watcher for the next policy. *)

UpdateBegin ==
    /\ lock = "free" /\ desired < MaxStep
    /\ lock' = "update" /\ desired' = desired + 1
    /\ pc' = [ip \in Ips |-> IF ip \in Known THEN "query" ELSE pc[ip]]
    /\ UNCHANGED <<servers, status, stage, seen, todo>>

UpdateEnd ==
    /\ lock = "update" /\ Quiet
    /\ lock' = "free"
    /\ UNCHANGED <<servers, status, desired, stage, seen, todo, pc>>

PoolNext == \/ Environment \/ Sync \/ UpdateBegin \/ UpdateEnd
            \/ \E ip \in Ips : SyncServerAdapter(ip)

PoolSpec == PoolInit /\ [][PoolNext]_poolVars

(* The sync loop and the watcher run on; a server that is asked again and  *)
(* again answers some of the times, and a load repeated works in the end.  *)
(* Nothing is assumed of servers starting, dying or being published, nor   *)
(* of look-ups and health checks, except that they fail finitely often.    *)
FairPoolSpec ==
    /\ PoolSpec /\ WF_poolVars(Sync) /\ WF_poolVars(UpdateEnd)
    /\ \A ip \in Ips :
          /\ WF_poolVars(SyncServerAdapter(ip))
          /\ SF_poolVars(LoadAdapter(ip))
          /\ SF_poolVars(\E loaded \in Answers(ip) : Query(ip, loaded) \/ Verify(ip, loaded))

-----------------------------------------------------------------------------
(* Every variable has the shape the code gives it, and the lock does its   *)
(* work: only its holder has servers in the middle of a synchronisation,   *)
(* the loop one at a time (elastic.py:417-445, 487-495).                   *)
PoolTypeOK ==
    /\ alive \subseteq Ips /\ dns \subseteq Ips /\ faults \in 0 .. MaxFaults
    /\ adapter \in [Ips -> 0 .. MaxStep] /\ desired \in 0 .. MaxStep
    /\ status \in [Ips -> {"none", "discovering", "syncing", "ready", "unhealthy"}]
    /\ lock \in {"free", "sync", "update"} /\ stage \in {"add", "remove", "check"}
    /\ seen \subseteq Ips /\ todo \subseteq Ips
    /\ pc \in [Ips -> {"idle", "query", "load", "verify"}]
    /\ lock = "free" => Quiet
    /\ lock = "sync" => Cardinality({ip \in Ips : pc[ip] # "idle"}) <= 1

(* ready_urls *)
Exposed == {ip \in Ips : status[ip] = "ready"}

(* A server rollouts are sent to has the adapter of the current policy, as *)
(* long as it lives; while an update is going on it may still have the one *)
(* before, but no older one and no other, whatever fails, joins, or is     *)
(* dropped while it lives and misses updates (elastic.py:6, "only exposes  *)
(* ready servers to workers").                                             *)
ExposedAreCurrent ==
    \A ip \in Exposed \cap alive :
        adapter[ip] = desired \/ (pc[ip] = "query" /\ adapter[ip] = desired - 1)

(* When servers stop coming and going, exactly those that are alive and    *)
(* published end up exposed, however many loads, queries, look-ups and     *)
(* checks failed before: no status is a dead end.                          *)
PoolConverges == <>[](Exposed = alive \cap dns)
=============================================================================
