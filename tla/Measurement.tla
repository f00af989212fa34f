------------------------------ MODULE Measurement ------------------------------
(***************************************************************************)
(* Measurement profiles (sentinel/onchain_live_sources.py): discovery      *)
(* events are taken from the raw-event stream by two processes that are    *)
(* one consumer of one group, the live feature worker and the bridge.  A   *)
(* discovery makes a profile with the addresses of its token, kept in the  *)
(* memory of the process and, for its time to live, in Redis.  Before each *)
(* sync the live worker makes a live source of every profile it knows; the *)
(* bridge only registers, and starts each poll with an empty registry.     *)
(***************************************************************************)
EXTENDS Integers, Sequences

CONSTANTS
    Tokens,             \* chain and symbol, the key of a profile
    Count,              \* events read at a time
    TTL,                \* resolution_ttl_seconds
    MaxTime,            \* bound: seconds
    MaxEntries,         \* bound: entries of the stream
    MaxFaults           \* bound: errors of Redis and deaths

VARIABLES
    now,
    stream,             \* of each entry: its token, NoToken if it is no discovery
    read,               \* entries delivered to the group
    keys,               \* measurement:profile:<token> in Redis: when registered, Never
    \* of each process
    pc, batch,
    loaded,             \* its registry has looked into Redis
    profiles,           \* its registry: when each token was registered, Never
    \* the live worker
    sources,            \* tokens it has live sources for
    faults

redis  == <<stream, read, keys>>
memory == <<loaded, profiles>>
vars   == <<now, redis, pc, batch, memory, sources, faults>>

Processes == {"live", "bridge"}
NoToken   == "none"
Never     == -1
Nothing   == [t \in Tokens |-> Never]

Init ==
    /\ now = 0
    /\ stream = <<>>
    /\ read = 0
    /\ keys = Nothing
    /\ pc = [p \in Processes |-> "idle"]
    /\ batch = [p \in Processes |-> <<>>]
    /\ loaded = [p \in Processes |-> FALSE]
    /\ profiles = [p \in Processes |-> Nothing]
    /\ sources = {}
    /\ faults = 0

Goto(p, step) == pc' = [pc EXCEPT ![p] = step]

-----------------------------------------------------------------------------
(* The world outside. *)

Publish ==
    /\ Len(stream) < MaxEntries
    /\ \E t \in Tokens \cup {NoToken} : stream' = Append(stream, t)
    /\ UNCHANGED <<now, read, keys, pc, batch, memory, sources, faults>>

\* Redis drops a key when its time to live is over.
Tick ==
    /\ now < MaxTime
    /\ now' = now + 1
    /\ keys' = [t \in Tokens |->
         IF keys[t] # Never /\ now' - keys[t] >= TTL THEN Never ELSE keys[t]]
    /\ UNCHANGED <<stream, read, pc, batch, memory, sources, faults>>

-----------------------------------------------------------------------------
(* The registry. *)

Stale(at) == at # Never /\ now - at > TTL

\* _lazy_load_from_redis: once in the life of a registry.
Known(p) ==
    IF loaded[p]
      THEN profiles[p]
      ELSE [t \in Tokens |->
              IF profiles[p][t] = Never /\ ~Stale(keys[t]) THEN keys[t] ELSE profiles[p][t]]

Fresh(p) == [t \in Tokens |-> IF Stale(Known(p)[t]) THEN Never ELSE Known(p)[t]]

\* get and active_profiles: a stale profile is removed, its key in Redis too, whatever the
\* key holds by now.
Look(p, S) ==
    /\ loaded' = [loaded EXCEPT ![p] = TRUE]
    /\ profiles' = [profiles EXCEPT ![p] =
         [t \in Tokens |-> IF t \in S THEN Fresh(p)[t] ELSE Known(p)[t]]]
    /\ keys' = [t \in Tokens |-> IF t \in S /\ Stale(Known(p)[t]) THEN Never ELSE keys[t]]

-----------------------------------------------------------------------------
(* consume_discovery_events_for_measurement. *)

\* The registry of the bridge is new in every poll.
Read(p) ==
    /\ pc[p] = "idle"
    /\ \E n \in 0 .. Count :
         /\ read + n <= Len(stream)
         /\ batch' = [batch EXCEPT ![p] = SubSeq(stream, read + 1, read + n)]
         /\ read' = read + n
    /\ IF p = "bridge"
         THEN /\ loaded' = [loaded EXCEPT ![p] = FALSE]
              /\ profiles' = [profiles EXCEPT ![p] = Nothing]
         ELSE UNCHANGED memory
    /\ Goto(p, "event")
    /\ UNCHANGED <<now, stream, keys, sources, faults>>

Token(p) == Head(batch[p])
NextEvent(p) == batch' = [batch EXCEPT ![p] = Tail(@)]

PassOver(p) ==
    /\ pc[p] = "event"
    /\ batch[p] # <<>>
    /\ Token(p) = NoToken
    /\ NextEvent(p)
    /\ UNCHANGED <<now, redis, pc, memory, sources, faults>>

\* Is there a profile of the token already?
Lookup(p) ==
    /\ pc[p] = "event"
    /\ batch[p] # <<>>
    /\ Token(p) # NoToken
    /\ Look(p, {Token(p)})
    /\ IF Fresh(p)[Token(p)] # Never
         THEN NextEvent(p) /\ UNCHANGED pc
         ELSE Goto(p, "resolve") /\ UNCHANGED batch
    /\ UNCHANGED <<now, stream, read, sources, faults>>

\* DexScreener knows no pair, or does not answer: the event is acknowledged all the same.
Unresolved(p) ==
    /\ pc[p] = "resolve"
    /\ NextEvent(p)
    /\ Goto(p, "event")
    /\ UNCHANGED <<now, redis, memory, sources, faults>>

Register(p) ==
    /\ pc[p] = "resolve"
    /\ profiles' = [profiles EXCEPT ![p][Token(p)] = now]
    /\ keys' = [keys EXCEPT ![Token(p)] = now]
    /\ NextEvent(p)
    /\ Goto(p, "event")
    /\ UNCHANGED <<now, stream, read, loaded, sources, faults>>

-----------------------------------------------------------------------------
(* What follows the events. *)

\* The bridge sleeps, and polls again.
EndPoll ==
    /\ pc["bridge"] = "event"
    /\ batch["bridge"] = <<>>
    /\ Goto("bridge", "idle")
    /\ UNCHANGED <<now, redis, batch, memory, sources, faults>>

\* build_live_sources: a source for each active profile with the addresses it needs.
BuildSources ==
    /\ pc["live"] = "event"
    /\ batch["live"] = <<>>
    /\ Look("live", Tokens)
    /\ sources' = {t \in Tokens : Fresh("live")[t] # Never}
    /\ Goto("live", "sync")
    /\ UNCHANGED <<now, stream, read, batch, faults>>

\* All sources have been polled (see FeatureSync).
EndSync ==
    /\ pc["live"] = "sync"
    /\ Goto("live", "idle")
    /\ UNCHANGED <<now, redis, batch, memory, sources, faults>>

-----------------------------------------------------------------------------
(* Errors and deaths. *)

\* Redis fails in a lookup: the registry counts as loaded from then on, the event is
\* acknowledged.
LookupFails(p) ==
    /\ pc[p] = "event"
    /\ batch[p] # <<>>
    /\ loaded' = [loaded EXCEPT ![p] = TRUE]
    /\ NextEvent(p)
    /\ UNCHANGED <<now, redis, pc, profiles, sources>>

\* SETEX fails: the profile is in memory only, the event is acknowledged.
RegisterFails(p) ==
    /\ pc[p] = "resolve"
    /\ profiles' = [profiles EXCEPT ![p][Token(p)] = now]
    /\ NextEvent(p)
    /\ Goto(p, "event")
    /\ UNCHANGED <<now, redis, loaded, sources>>

\* Neither loop catches what is raised outside an event.
Die(p) ==
    /\ pc[p] # "idle"
    /\ Goto(p, "idle")
    /\ batch' = [batch EXCEPT ![p] = <<>>]
    /\ loaded' = [loaded EXCEPT ![p] = FALSE]
    /\ profiles' = [profiles EXCEPT ![p] = Nothing]
    /\ UNCHANGED <<now, redis, sources>>

Fault ==
    /\ faults < MaxFaults
    /\ faults' = faults + 1
    /\ \E p \in Processes : LookupFails(p) \/ RegisterFails(p) \/ Die(p)

Next ==
    \/ Publish \/ Tick
    \/ \E p \in Processes : Read(p) \/ PassOver(p) \/ Lookup(p) \/ Unresolved(p) \/ Register(p)
    \/ EndPoll \/ BuildSources \/ EndSync
    \/ Fault

Spec == Init /\ [][Next]_vars

-----------------------------------------------------------------------------

\* sentinel/onchain_live_sources.py:715: profiles are persisted "so they survive worker
\* restarts and are shared across workers".  Whatever profile is in Redis when the live
\* worker makes its sources has a source, as long as no fault has happened.
ProfilesAreShared ==
    [][BuildSources /\ faults = 0 => {t \in Tokens : keys[t] # Never} \subseteq sources']_vars
================================================================================
