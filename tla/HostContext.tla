---------------------------- MODULE HostContext -----------------------------
(* The services and the connections of a host: BNHostContext                *)
(* (nhostctxt.cpp) and its managed twin HostContext.cs.  Every call looks   *)
(* its entry up under one lock and changes the table under another one, so  *)
(* calls for one key can overlap.                                           *)
EXTENDS Integers, Sequences, FiniteSets

CONSTANTS
  Callers,
  Cookies,     \* of services: 1, 2, ...
  Keys,        \* of client connections
  MaxCalls     \* bound: how many calls are made

VARIABLES
  platform,    \* "native" or "managed"
  context,     \* the contexts created so far: of a cookie or key, primary, out
  mapServer,   \* m_mapServer: the context of a cookie, or 0
  mapMapping,  \* m_mapServerMapping: the primary's cookie of a cookie, or 0
  mapClient,   \* m_mapClient: the context of a key, or 0
  changes,     \* changes of the server tables, which end an enumeration
  call,        \* the call a caller is in, and its locals
  clashed,     \* history: the cookies and keys two calls have had at a time
  calls        \* how many calls have been made

tables == <<context, mapServer, mapMapping, mapClient, changes>>
vars   == <<platform, tables, call, clashed, calls>>

None == 0

(* Cookies and keys are told apart here: services and clients have tables   *)
(* of their own.                                                            *)
ConstantsAllowed ==
  /\ Cookies \subseteq Nat \ {None} /\ Keys \subseteq Nat \ {None}
  /\ Cookies \cap Keys = {}

Idle == [op |-> "none", at |-> "idle", of |-> None, ref |-> None,
         primary |-> FALSE, psc |-> None, list |-> {}, seen |-> 0]

Init ==
  /\ platform \in {"native", "managed"}
  /\ context = << >>
  /\ mapServer = [c \in Cookies |-> None]
  /\ mapMapping = [c \in Cookies |-> None]
  /\ mapClient = [k \in Keys |-> None]
  /\ changes = 0
  /\ call = [t \in Callers |-> Idle]
  /\ clashed = {} /\ calls = 0

At(t, step) == call[t].at = step
Of(t)       == call[t].of
Go(t, step) == call' = [call EXCEPT ![t].at = step]
Services    == {c \in Cookies : mapServer[c] # None}

(* The end of a call, or of one of the removals of RemoveAllServers().      *)
Return(t) ==
  call' = [call EXCEPT ![t] = IF @.op = "RemoveAllServers"
                              THEN [@ EXCEPT !.at = "next", !.of = None]
                              ELSE Idle]

(* A caller comes to a cookie or key that others may have at the time.      *)
Claim(t, of) ==
  LET others == {Of(u) : u \in {u \in Callers \ {t} : ~At(u, "idle")}}
  IN clashed' = clashed \cup ({of} \cap others)

Begin(t, op, of, ref, primary) ==
  /\ At(t, "idle")
  /\ calls < MaxCalls /\ calls' = calls + 1
  /\ call' = [call EXCEPT ![t] = [Idle EXCEPT !.op = op, !.of = of,
       !.at = IF op = "RemoveAllServers" THEN "list" ELSE "find",
       !.ref = ref, !.primary = primary]]
  /\ Claim(t, of)
  /\ UNCHANGED <<platform, tables>>

(* GetServerContext() and GetClientContext()                                *)
Stored(of) == IF of \in Keys THEN mapClient[of] ELSE mapServer[of]

Find(t) ==
  LET found == Stored(Of(t))
  IN /\ At(t, "find")
     /\ IF (found = None) = (call[t].op \in {"AddServer", "AddClient"})
        THEN call' = [call EXCEPT ![t].psc = found, ![t].at = call[t].op]
        ELSE Return(t)
     /\ UNCHANGED tables

Create(t) ==
  context' = Append(context, [of |-> Of(t), primary |-> call[t].primary,
                              out |-> FALSE])

(* A service that names no primary is mapped to itself.                     *)
AddServer(t) ==
  /\ At(t, "AddServer")
  /\ Create(t)
  /\ mapServer' = [mapServer EXCEPT ![Of(t)] = Len(context) + 1]
  /\ mapMapping' = [mapMapping EXCEPT ![Of(t)] =
                      IF call[t].ref = None THEN Of(t) ELSE call[t].ref]
  /\ changes' = changes + 1
  /\ Return(t)
  /\ UNCHANGED mapClient

(* RemoveServer() under m_csServer: whether the context found before is     *)
(* that of a primary decides; the context is handed to the caller, which    *)
(* drops it if it is the native RemoveAllServers().                         *)
RemovableMistake(t) == ~context[call[t].psc].primary \/
                         \A c \in Cookies \ {Of(t)} : mapMapping[c] # Of(t)
Removable(t) == ~context[call[t].psc].primary \/
                  \A c \in Cookies : mapMapping[c] # Of(t)

EraseMistake(t) ==
  /\ mapServer' = [mapServer EXCEPT ![Of(t)] = None]
  /\ mapMapping' = [mapMapping EXCEPT ![Of(t)] = None]
  /\ changes' = changes + 1
  /\ UNCHANGED context

Erase(t) ==
  /\ mapServer' = [mapServer EXCEPT ![Of(t)] = None]
  /\ mapMapping' = [mapMapping EXCEPT ![Of(t)] = None]
  /\ changes' = changes + 1
  /\ context' = [context EXCEPT ![call[t].psc].out = TRUE]

RemoveServer(t) ==
  /\ At(t, "RemoveServer") \/ At(t, "RemoveAllServers")
  /\ IF Removable(t) THEN Erase(t)
     ELSE UNCHANGED <<context, mapServer, mapMapping, changes>>
  /\ Return(t)
  /\ UNCHANGED mapClient

-----------------------------------------------------------------------------
(* RemoveAllServers() removes the services it has listed one by one; the    *)
(* managed one lists them while it removes them, which ends with an         *)
(* exception after the first change of the table.                           *)
List(t) ==
  /\ At(t, "list")
  /\ call' = [call EXCEPT ![t].list = Services, ![t].seen = changes,
                          ![t].at = "next"]
  /\ UNCHANGED tables

RemoveNext(t) ==
  /\ At(t, "next")
  /\ \/ /\ platform = "native" \/ call[t].seen = changes
        /\ \E c \in call[t].list :
             /\ call' = [call EXCEPT ![t].of = c, ![t].list = @ \ {c},
                                     ![t].at = "find"]
             /\ Claim(t, c)
     \/ /\ call[t].list = {} \/ (platform = "managed" /\ call[t].seen # changes)
        /\ call' = [call EXCEPT ![t] = Idle]
        /\ UNCHANGED clashed
  /\ UNCHANGED <<platform, tables, calls>>

-----------------------------------------------------------------------------
AddClient(t) ==
  /\ At(t, "AddClient")
  /\ Create(t)
  /\ mapClient' = [mapClient EXCEPT ![Of(t)] = Len(context) + 1]
  /\ Return(t)
  /\ UNCHANGED <<mapServer, mapMapping, changes>>

(* The native RemoveClient() deletes the context it has found.              *)
RemoveClient(t) ==
  /\ At(t, "RemoveClient")
  /\ mapClient' = [mapClient EXCEPT ![Of(t)] = None]
  /\ context' = [context EXCEPT ![call[t].psc].out = TRUE]
  /\ Return(t)
  /\ UNCHANGED <<mapServer, mapMapping, changes>>

Step(t) ==
  /\ \/ Find(t) \/ AddServer(t) \/ RemoveServer(t) \/ List(t)
     \/ AddClient(t) \/ RemoveClient(t)
  /\ UNCHANGED <<platform, clashed, calls>>

Next ==
  \E t \in Callers :
    \/ Step(t) \/ RemoveNext(t)
    \/ \E c \in Cookies, ref \in Cookies \cup {None}, primary \in BOOLEAN :
         Begin(t, "AddServer", c, ref, primary)
    \/ \E c \in Cookies : Begin(t, "RemoveServer", c, None, FALSE)
    \/ Begin(t, "RemoveAllServers", None, None, FALSE)
    \/ \E k \in Keys : \E op \in {"AddClient", "RemoveClient"} :
         Begin(t, op, k, None, FALSE)

Spec == Init /\ [][Next]_vars

-----------------------------------------------------------------------------
(* Every context is stored under its key or was handed out, or deleted, by  *)
(* the call that removed it, unless two calls have had the key at a time:   *)
(* then AddServer() overwrites the other one's context, which is lost.      *)
Kept(o) ==
  \/ context[o].of \in clashed
  \/ context[o].out <=> Stored(context[o].of) # o

ContextsKept == \A o \in DOMAIN context : Kept(o)

(* A primary service leaves the table only when no service is mapped to it, *)
(* which is never as long as its own entry is: every service that it serves *)
(* finds it through GetPrimaryCookie().  (When two calls have had its       *)
(* cookie at a time, RemoveServer() may have asked an older context.)       *)
PrimaryStays ==
  [][\A c \in Services \ clashed :
       context[mapServer[c]].primary /\ (\E d \in Cookies : mapMapping[d] = c)
         => mapServer'[c] = mapServer[c]]_vars
============================================================================
