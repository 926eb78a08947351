----------------------------- MODULE SparkSession -----------------------------
(***************************************************************************)
(* Databases, connections and the sessions they use on the Spark server:   *)
(* database.SetOptions and Open (driver/spark/database.go), connection.    *)
(* Close (driver/spark/connection.go), Dial, the requests and Close of     *)
(* Client (internal/sparkconnect/client.go).                               *)
(*                                                                         *)
(* A database points at a Config; Open hands the same pointer to the       *)
(* client, which copies the session id and reads the rest for every        *)
(* request.  The server keys its sessions by user and session id (base.    *)
(* proto: "user_context.user_id and session+id both identify a unique      *)
(* remote spark session").  Requests travel: they arrive late, after the   *)
(* client has given up on them, or never.                                  *)
(*                                                                         *)
(* Of a Config, `user` stands for all that is read per request (user id,   *)
(* token, headers, user agent) and `session` says whether it pins a        *)
(* session id.  An own session id, a fresh UUID, is the client's name.     *)
(***************************************************************************)
EXTENDS Integers, Sequences

CONSTANTS
    Clients,      \* connections of the database, by name
    Users,        \* user ids
    Pinned,       \* the session id a connection string may pin
    MaxConfigs,   \* bound: connection strings parsed
    MaxSets,      \* bound: calls of SetOptions
    MaxOps,       \* bound: operations sent
    MaxRestarts   \* bound: restarts of the server

ASSUME SessionBounds == {MaxConfigs, MaxSets, MaxOps, MaxRestarts} \subseteq Nat
ASSUME PinnedIsNoClient == Pinned \notin Clients

VARIABLES
    configs,     \* the Configs allocated so far, a sequence
    dbCfg,       \* database.cfg: the number of one, or 0
    sets,        \* calls of SetOptions so far
    phase,       \* of each client: "none", "dialing", "open", "closing", "closed"
    cfgOf,       \* Client.cfg
    sessionID,   \* Client.sessionID
    serverSessionID,  \* Client.serverSessionID: an instance, or 0
    op,          \* the client's operation: "none", "sent", "running", "ok",
                 \* "failed", "released" (its session is gone), "adrift" (sent,
                 \* but nobody waits for it any more)
    opKey,       \* the session key in its request
    ops,         \* operations sent so far
    release,     \* the client's ReleaseSession: "none", "sent", "done", "lost"
    releaseKey,  \* the session key in that request
    answered,    \* Close had the answer before it closed the channel
    raced,       \* an operation was outstanding during Close
    overlaid,    \* SetOptions wrote to the client's Config after Dial
    instance,    \* the server: live session of each key, or 0
    tombstones,  \* the server: keys released for good
    instances,   \* the server: sessions made so far
    restarts     \* restarts so far

dbVars     == <<configs, dbCfg, sets, overlaid>>
clientVars == <<phase, cfgOf, sessionID, serverSessionID>>
opVars     == <<op, opKey, ops>>
closeVars  == <<release, releaseKey, answered, raced>>
serverVars == <<instance, tombstones, instances, restarts>>
vars == <<dbVars, clientVars, opVars, closeVars, serverVars>>

SessionIDs == Clients \cup {Pinned}
Keys   == Users \X SessionIDs
NoKey  == <<>>
Keep   == "keep"    \* an option that is not given

\* What identifies the session in a request the client makes now.
Key(c) == <<configs[cfgOf[c]].user, sessionID[c]>>

Outstanding(c) == op[c] \in {"sent", "running"}

Init ==
    /\ configs = <<>> /\ dbCfg = 0 /\ sets = 0
    /\ phase = [c \in Clients |-> "none"]
    /\ cfgOf = [c \in Clients |-> 0]
    /\ sessionID = [c \in Clients |-> c]
    /\ serverSessionID = [c \in Clients |-> 0]
    /\ op = [c \in Clients |-> "none"] /\ opKey = [c \in Clients |-> NoKey]
    /\ ops = 0
    /\ release = [c \in Clients |-> "none"]
    /\ releaseKey = [c \in Clients |-> NoKey]
    /\ answered = {} /\ raced = {} /\ overlaid = {}
    /\ instance = [k \in Keys |-> 0] /\ tombstones = {} /\ instances = 0
    /\ restarts = 0

-----------------------------------------------------------------------------
(* The database.                                                           *)

\* Mutant: the new values are written over the old Config.
SetOptionsInPlace == \E u \in Users, s \in {"own", "pin"} :
    /\ sets < MaxSets /\ Len(configs) < MaxConfigs
    /\ sets' = sets + 1
    /\ configs' = IF dbCfg = 0 THEN <<[user |-> u, session |-> s]>>
                  ELSE [configs EXCEPT ![dbCfg] = [user |-> u, session |-> s]]
    /\ dbCfg' = 1
    /\ UNCHANGED <<overlaid, clientVars, opVars, closeVars, serverVars>>

\* With a connection string: a new Config, given to the database if no option
\* is bad; the open connections keep the old one.
SetOptionsURI == \E u \in Users, s \in {"own", "pin"}, bad \in BOOLEAN :
    /\ sets < MaxSets /\ Len(configs) < MaxConfigs
    /\ sets' = sets + 1
    /\ IF bad THEN UNCHANGED <<configs, dbCfg>>
       ELSE /\ configs' = Append(configs, [user |-> u, session |-> s])
            /\ dbCfg' = Len(configs')
    /\ UNCHANGED <<overlaid, clientVars, opVars, closeVars, serverVars>>

\* Without one: the options are written, in the random order of a map, into
\* the Config that the open connections share; a bad one stops that half-way.
SetOptionsOverlay == \E u \in Users \cup {Keep}, s \in {"pin", Keep} :
    /\ sets < MaxSets /\ dbCfg # 0
    /\ sets' = sets + 1
    /\ configs' = [configs EXCEPT
           ![dbCfg].user    = IF u = Keep THEN @ ELSE u,
           ![dbCfg].session = IF s = Keep THEN @ ELSE s]
    /\ overlaid' = IF configs' = configs THEN overlaid
                   ELSE overlaid \cup {c \in Clients : cfgOf[c] = dbCfg}
    /\ UNCHANGED <<dbCfg, clientVars, opVars, closeVars, serverVars>>

-----------------------------------------------------------------------------
(* Open, Dial and the requests of a client.                                *)

\* Open reads the pointer under the mutex ...
Open(c) ==
    /\ phase[c] = "none" /\ dbCfg # 0
    /\ phase' = [phase EXCEPT ![c] = "dialing"]
    /\ cfgOf' = [cfgOf EXCEPT ![c] = dbCfg]
    /\ UNCHANGED <<sessionID, serverSessionID, dbVars, opVars, closeVars,
                   serverVars>>

\* Mutant: every client is given the same id.
DialSameID(c) ==
    /\ phase[c] = "dialing"
    /\ phase' = [phase EXCEPT ![c] = "open"]
    /\ sessionID' = [sessionID EXCEPT ![c] = Pinned]
    /\ overlaid' = overlaid \ {c}
    /\ UNCHANGED <<configs, dbCfg, sets, cfgOf, serverSessionID, opVars,
                   closeVars, serverVars>>

\* ... and Dial what it points at, outside.
Dial(c) ==
    /\ phase[c] = "dialing"
    /\ phase' = [phase EXCEPT ![c] = "open"]
    /\ sessionID' = [sessionID EXCEPT
           ![c] = IF configs[cfgOf[c]].session = "pin" THEN Pinned ELSE c]
    /\ overlaid' = overlaid \ {c}
    /\ UNCHANGED <<configs, dbCfg, sets, cfgOf, serverSessionID, opVars,
                   closeVars, serverVars>>

\* Any request: no method of Client looks at `closed`, so one may still be
\* sent by another goroutine while Close waits for its answer.
SendOp(c) ==
    /\ phase[c] \in {"open", "closing"} /\ ops < MaxOps
    /\ op[c] \in {"none", "ok", "failed", "released"}
    /\ ops' = ops + 1
    /\ op' = [op EXCEPT ![c] = "sent"]
    /\ opKey' = [opKey EXCEPT ![c] = Key(c)]
    /\ raced' = IF phase[c] = "closing" THEN raced \cup {c} ELSE raced
    /\ UNCHANGED <<release, releaseKey, answered, dbVars, clientVars,
                   serverVars>>

\* The server finds the session of a request, or makes it; a request nobody
\* waits for has the same effect.
ServerOp(c) ==
    /\ op[c] \in {"sent", "adrift"}
    /\ IF opKey[c] \in tombstones
       THEN /\ op' = [op EXCEPT ![c] = IF @ = "sent" THEN "released" ELSE "failed"]
            /\ UNCHANGED <<instance, instances>>
       ELSE /\ op' = [op EXCEPT ![c] = IF @ = "sent" THEN "running" ELSE "failed"]
            /\ IF instance[opKey[c]] = 0
               THEN /\ instances' = instances + 1
                    /\ instance' = [instance EXCEPT ![opKey[c]] = instances']
               ELSE UNCHANGED <<instance, instances>>
    /\ UNCHANGED <<opKey, ops, tombstones, restarts, dbVars, clientVars,
                   closeVars>>

\* The last response arrives; rememberServerSession notes where it is from.
EndOp(c) ==
    /\ op[c] = "running"
    /\ op' = [op EXCEPT ![c] = "ok"]
    /\ serverSessionID' = [serverSessionID EXCEPT ![c] = instance[opKey[c]]]
    /\ UNCHANGED <<opKey, ops, phase, cfgOf, sessionID, dbVars, closeVars,
                   serverVars>>

\* The caller's context ends or the transport breaks.
GiveUp(c) ==
    /\ Outstanding(c)
    /\ op' = [op EXCEPT ![c] = IF @ = "sent" THEN "adrift" ELSE "failed"]
    /\ UNCHANGED <<opKey, ops, dbVars, clientVars, closeVars, serverVars>>

-----------------------------------------------------------------------------
(* Close.                                                                  *)

\* Mutant: the request has no user context, so the default user's.
CloseForgetsUser(c) ==
    /\ phase[c] = "open"
    /\ phase' = [phase EXCEPT ![c] = "closing"]
    /\ release' = [release EXCEPT ![c] = "sent"]
    /\ releaseKey' = [releaseKey EXCEPT
           ![c] = <<CHOOSE u \in Users : TRUE, sessionID[c]>>]
    /\ raced' = IF op[c] \in {"sent", "running", "adrift"}
                THEN raced \cup {c} ELSE raced
    /\ UNCHANGED <<answered, cfgOf, sessionID, serverSessionID, dbVars, opVars,
                   serverVars>>

\* The `closed` flag lets one call through; it sends ReleaseSession.
Close(c) ==
    /\ phase[c] = "open"
    /\ phase' = [phase EXCEPT ![c] = "closing"]
    /\ release' = [release EXCEPT ![c] = "sent"]
    /\ releaseKey' = [releaseKey EXCEPT ![c] = Key(c)]
    /\ raced' = IF op[c] \in {"sent", "running", "adrift"}
                THEN raced \cup {c} ELSE raced
    /\ UNCHANGED <<answered, cfgOf, sessionID, serverSessionID, dbVars, opVars,
                   serverVars>>

\* "All the executions in the session will be released", and later requests
\* fail; "If the session didn't exist [...] this is a noop" (base.proto).
ServerRelease(c) ==
    /\ release[c] = "sent"
    /\ release' = [release EXCEPT ![c] = "done"]
    /\ IF instance[releaseKey[c]] = 0
       THEN UNCHANGED <<instance, tombstones, op>>
       ELSE /\ instance' = [instance EXCEPT ![releaseKey[c]] = 0]
            /\ tombstones' = tombstones \cup {releaseKey[c]}
            /\ op' = [d \in Clients |->
                   IF op[d] = "running" /\ opKey[d] = releaseKey[c]
                   THEN "released" ELSE op[d]]
    /\ UNCHANGED <<opKey, ops, releaseKey, answered, raced, instances, restarts,
                   dbVars, clientVars>>

LoseRelease(c) ==
    /\ release[c] = "sent"
    /\ release' = [release EXCEPT ![c] = "lost"]
    /\ UNCHANGED <<releaseKey, answered, raced, dbVars, clientVars, opVars,
                   serverVars>>

\* With the answer, or five seconds after the request: the channel closes and
\* takes the client's operation with it.
CloseChannel(c) ==
    /\ phase[c] = "closing"
    /\ phase' = [phase EXCEPT ![c] = "closed"]
    /\ answered' = IF release[c] = "done" THEN answered \cup {c} ELSE answered
    /\ op' = [op EXCEPT ![c] = IF @ = "sent" THEN "adrift"
                               ELSE IF @ = "running" THEN "failed" ELSE @]
    /\ UNCHANGED <<opKey, ops, release, releaseKey, raced, cfgOf, sessionID,
                   serverSessionID, dbVars, serverVars>>

\* The server restarts: sessions, tombstones and operations are gone.
Restart ==
    /\ restarts < MaxRestarts
    /\ restarts' = restarts + 1
    /\ instance' = [k \in Keys |-> 0]
    /\ tombstones' = {}
    /\ op' = [c \in Clients |-> IF op[c] = "running" THEN "failed" ELSE op[c]]
    /\ UNCHANGED <<opKey, ops, instances, dbVars, clientVars, closeVars>>

-----------------------------------------------------------------------------

Next ==
    \/ SetOptionsURI \/ SetOptionsOverlay \/ Restart
    \/ \E c \in Clients :
          \/ Open(c) \/ Dial(c) \/ SendOp(c) \/ ServerOp(c) \/ EndOp(c)
          \/ GiveUp(c) \/ Close(c) \/ ServerRelease(c) \/ LoseRelease(c)
          \/ CloseChannel(c)

\* Only the five-second timer of Close is relied on: the server may never
\* answer anything.
Fairness == \A c \in Clients : WF_vars(CloseChannel(c))

Spec == Init /\ [][Next]_vars /\ Fairness
-----------------------------------------------------------------------------
(* Properties.                                                             *)

TypeOK ==
    /\ configs \in Seq([user : Users, session : {"own", "pin"}])
    /\ Len(configs) <= MaxConfigs /\ dbCfg \in 0..Len(configs)
    /\ sets \in 0..MaxSets /\ overlaid \subseteq Clients
    /\ phase \in [Clients -> {"none", "dialing", "open", "closing", "closed"}]
    /\ cfgOf \in [Clients -> 0..Len(configs)]
    /\ sessionID \in [Clients -> SessionIDs]
    /\ serverSessionID \in [Clients -> 0..instances]
    /\ op \in [Clients -> {"none", "sent", "running", "ok", "failed",
                           "released", "adrift"}]
    /\ opKey \in [Clients -> Keys \cup {NoKey}] /\ ops \in 0..MaxOps
    /\ release \in [Clients -> {"none", "sent", "done", "lost"}]
    /\ releaseKey \in [Clients -> Keys \cup {NoKey}]
    /\ answered \subseteq Clients /\ raced \subseteq Clients
    /\ instance \in [Keys -> 0..instances] /\ tombstones \subseteq Keys
    /\ instances \in 0..MaxOps /\ restarts \in 0..MaxRestarts

\* The server has no session left with the id that was made up for c.
NothingLeft(c) == \A u \in Users : instance[<<u, c>>] = 0

\* A connection that made up its own session leaves none behind at the server
\* once Close has had its answer, wherever its earlier operations ended; an
\* operation that races with Close, or options written over its Config, are
\* the only ways out.
ReleasesItsSession ==
    \A c \in answered \ (raced \cup overlaid) :
        sessionID[c] = c => NothingLeft(c)

\* Connections that did not ask for a shared session do not feel each other's
\* Close: an operation loses its session only when its own connection closes.
Isolation ==
    \A c \in Clients :
        op[c] = "released" /\ configs[cfgOf[c]].session = "own"
            => phase[c] # "open"

\* "Supplying a `session_id` reuses an existing session, so temporary views
\* and session configuration persist across connections" (docs/
\* architecture.md): an open connection does not lose a pinned session
\* because another one was closed.
PinnedSessionPersists == \A c \in Clients : op[c] = "released" => phase[c] # "open"

\* Giving the database a new connection string leaves its open connections as
\* they are: who they are changes only by options written without one.
IdentityKept ==
    [][\A c \in Clients :
          phase[c] = "open" /\ phase'[c] = "open" /\ c \notin overlaid'
              => Key(c)' = Key(c)]_vars

=============================================================================
