-------------------------- MODULE SparkSessionProofs --------------------------
(***************************************************************************)
(* Proofs about SparkSession, for any clients, users and bounds: what a    *)
(* new connection string leaves alone, that a Close is not felt by         *)
(* connections with a session of their own, and that it leaves nothing of  *)
(* its own at the server.                                                  *)
(***************************************************************************)
EXTENDS SparkSession, TLAPS

Config == [user : Users, session : {"own", "pin"}]
Phases == {"none", "dialing", "open", "closing", "closed"}
Dialled(c) == phase[c] \in {"open", "closing", "closed"}

Typed ==
    /\ configs \in Seq(Config) /\ dbCfg \in 0..Len(configs)
    /\ overlaid \subseteq Clients /\ answered \subseteq Clients
    /\ phase \in [Clients -> Phases]
    /\ cfgOf \in [Clients -> 0..Len(configs)]
    /\ sessionID \in [Clients -> SessionIDs]
    /\ op \in [Clients -> {"none", "sent", "running", "ok", "failed",
                           "released", "adrift"}]
    /\ opKey \in [Clients -> Keys \cup {NoKey}]
    /\ release \in [Clients -> {"none", "sent", "done", "lost"}]
    /\ releaseKey \in [Clients -> Keys \cup {NoKey}]
    /\ instances \in Nat
    /\ instance \in [Keys -> Nat] /\ tombstones \subseteq Keys

\* Where a client is in its life, and whose id its requests carry.
ClientOK(c) ==
    /\ phase[c] = "none" => cfgOf[c] = 0
    /\ phase[c] # "none" => cfgOf[c] # 0
    /\ ~Dialled(c) => sessionID[c] = c /\ op[c] = "none"
    /\ sessionID[c] \in {c, Pinned}
    /\ Dialled(c) /\ configs[cfgOf[c]].session = "own" => sessionID[c] = c
    /\ op[c] # "none" => opKey[c] \in Keys /\ opKey[c][2] = sessionID[c]
    /\ op[c] # "none" /\ c \notin overlaid => opKey[c] = Key(c)
    /\ release[c] = "none" <=> phase[c] \in {"none", "dialing", "open"}
    /\ release[c] # "none" => releaseKey[c] \in Keys /\ releaseKey[c][2] = sessionID[c]
    /\ release[c] # "none" /\ c \notin overlaid => releaseKey[c] = Key(c)
    /\ op[c] = "released" /\ phase[c] = "open" => sessionID[c] # c
    /\ release[c] # "none" /\ c \notin raced => op[c] \notin {"sent", "running", "adrift"}
    /\ c \in answered => release[c] = "done"

\* What the server has of the id that was made up for a client.
ServerOK(c) ==
    /\ \A k \in tombstones : k[2] = c => release[c] # "none"
    /\ \A u \in Users : instance[<<u, c>>] # 0 =>
           /\ op[c] # "none" /\ sessionID[c] = c
           /\ c \notin overlaid => <<u, c>> = Key(c)
           /\ c \notin overlaid /\ c \notin raced => release[c] # "done"

IInv == Typed /\ (\A c \in Clients : ClientOK(c)) /\ (\A c \in Clients : ServerOK(c))

-----------------------------------------------------------------------------

LEMMA InitIInv == Init => IInv
<1> SUFFICES ASSUME Init PROVE IInv
  OBVIOUS
<1>1. Typed
  BY DEF Init, Typed, SessionIDs, Phases
<1>2. ASSUME NEW c \in Clients PROVE ClientOK(c)
  BY DEF Init, ClientOK, Dialled
<1>3. ASSUME NEW c \in Clients PROVE ServerOK(c)
  BY DEF Init, ServerOK, Keys, SessionIDs
<1> QED
  BY <1>1, <1>2, <1>3 DEF IInv

\* Steps that leave everything alone that the invariant is about.
LEMMA QuietKeeps ==
  ASSUME IInv,
         UNCHANGED <<configs, dbCfg, overlaid, phase, cfgOf, sessionID, op, opKey,
                     closeVars, instances, instance, tombstones>>
  PROVE  IInv'
<1>1. Typed'
  BY DEF IInv, Typed, closeVars
<1>2. ASSUME NEW c \in Clients PROVE ClientOK(c)'
  BY DEF IInv, ClientOK, Dialled, Key, closeVars
<1>3. ASSUME NEW c \in Clients PROVE ServerOK(c)'
  BY DEF IInv, ServerOK, Key, closeVars
<1> QED
  BY <1>1, <1>2, <1>3 DEF IInv

LEMMA URIKeeps == ASSUME IInv, SetOptionsURI PROVE IInv'
<1>1. PICK u \in Users, s \in {"own", "pin"}, bad \in BOOLEAN :
        /\ IF bad THEN UNCHANGED <<configs, dbCfg>>
           ELSE /\ configs' = Append(configs, [user |-> u, session |-> s])
                /\ dbCfg' = Len(configs')
        /\ UNCHANGED <<overlaid, clientVars, opVars, closeVars, serverVars>>
  BY DEF SetOptionsURI
<1>2. CASE configs' = configs /\ dbCfg' = dbCfg
  BY <1>1, <1>2, QuietKeeps DEF clientVars, opVars, serverVars
<1>3. CASE /\ configs' = Append(configs, [user |-> u, session |-> s])
           /\ dbCfg' = Len(configs')
  <2>1. [user |-> u, session |-> s] \in Config
    BY DEF Config
  <2>2. /\ configs' \in Seq(Config) /\ Len(configs') = Len(configs) + 1
        /\ \A i \in 1..Len(configs) : configs'[i] = configs[i]
    BY <1>3, <2>1 DEF IInv, Typed
  <2>3. Typed'
    BY <1>1, <1>3, <2>2
       DEF IInv, Typed, clientVars, opVars, closeVars, serverVars
  <2>4. \A c \in Clients : cfgOf[c] # 0 => configs'[cfgOf'[c]] = configs[cfgOf[c]]
    BY <1>1, <2>2 DEF IInv, Typed, clientVars
  <2>5. ASSUME NEW c \in Clients PROVE ClientOK(c)' /\ ServerOK(c)'
    <3>1. ClientOK(c) /\ ServerOK(c)
      BY DEF IInv
    <3>2. cfgOf[c] = 0 => phase[c] = "none" /\ op[c] = "none" /\ release[c] = "none"
      BY <3>1 DEF ClientOK, Dialled
    <3>3. cfgOf[c] # 0 => Key(c)' = Key(c)
      BY <1>1, <2>4 DEF Key, clientVars
    <3>4. ClientOK(c)'
      BY <1>1, <2>4, <3>1, <3>2, <3>3
         DEF ClientOK, Dialled, clientVars, opVars, closeVars, serverVars
    <3>5. ServerOK(c)'
      BY <1>1, <3>1, <3>2, <3>3 DEF ServerOK, clientVars, opVars, closeVars, serverVars
    <3> QED
      BY <3>4, <3>5
  <2> QED
    BY <2>3, <2>5 DEF IInv
<1> QED
  BY <1>1, <1>2, <1>3

\* Options without a connection string turn "own" into "pin", never back, and
\* name every client they may have changed.
LEMMA OverlayKeeps == ASSUME IInv, SetOptionsOverlay PROVE IInv'
<1>1. PICK u \in Users \cup {Keep}, s \in {"pin", Keep} :
        /\ dbCfg # 0
        /\ configs' = [configs EXCEPT
               ![dbCfg].user    = IF u = Keep THEN @ ELSE u,
               ![dbCfg].session = IF s = Keep THEN @ ELSE s]
        /\ overlaid' = IF configs' = configs THEN overlaid
                       ELSE overlaid \cup {c \in Clients : cfgOf[c] = dbCfg}
        /\ UNCHANGED <<dbCfg, clientVars, opVars, closeVars, serverVars>>
  BY DEF SetOptionsOverlay
<1>2. dbCfg \in 1..Len(configs) /\ configs[dbCfg] \in Config
  BY <1>1 DEF IInv, Typed
<1>3. /\ configs' \in Seq(Config) /\ Len(configs') = Len(configs)
      /\ \A i \in 1..Len(configs) : i # dbCfg => configs'[i] = configs[i]
      /\ \A i \in 1..Len(configs) :
             configs'[i].session = "own" => configs[i].session = "own"
  BY <1>1, <1>2 DEF IInv, Typed, Config
<1>4. Typed'
  BY <1>1, <1>3 DEF IInv, Typed, clientVars, opVars, closeVars, serverVars
<1>5. ASSUME NEW c \in Clients PROVE ClientOK(c)' /\ ServerOK(c)'
  <2>1. ClientOK(c) /\ ServerOK(c) /\ cfgOf[c] \in 0..Len(configs)
    BY DEF IInv, Typed
  <2>2. cfgOf[c] = 0 => phase[c] = "none" /\ op[c] = "none" /\ release[c] = "none"
    BY <2>1 DEF ClientOK, Dialled
  <2>3. cfgOf[c] # 0 /\ c \notin overlaid' => Key(c)' = Key(c) /\ c \notin overlaid
    <3>1. cfgOf' = cfgOf /\ sessionID' = sessionID
      BY <1>1 DEF clientVars
    <3>2. CASE configs' = configs
      BY <1>1, <3>1, <3>2 DEF Key
    <3>3. CASE cfgOf[c] # dbCfg
      BY <1>1, <1>3, <2>1, <3>1, <3>3 DEF Key
    <3>4. CASE configs' # configs /\ cfgOf[c] = dbCfg
      <4>1. c \in overlaid'
        BY <1>1, <3>4
      <4> QED
        BY <4>1
    <3> QED
      BY <3>2, <3>3, <3>4
  <2>4. cfgOf[c] # 0 => (configs'[cfgOf[c]].session = "own" =>
                            configs[cfgOf[c]].session = "own")
    BY <1>3, <2>1
  <2>5. cfgOf[c] = 0 /\ c \notin overlaid' => c \notin overlaid
    BY <1>1
  <2>6. ClientOK(c)'
    BY <1>1, <2>1, <2>2, <2>3, <2>4, <2>5
       DEF ClientOK, Dialled, clientVars, opVars, closeVars, serverVars
  <2>7. ServerOK(c)'
    BY <1>1, <2>1, <2>2, <2>3, <2>5
       DEF ServerOK, clientVars, opVars, closeVars, serverVars
  <2> QED
    BY <2>6, <2>7
<1> QED
  BY <1>4, <1>5 DEF IInv

LEMMA OpenKeeps == ASSUME IInv, NEW c \in Clients, Open(c) PROVE IInv'
<1>1. /\ phase[c] = "none" /\ dbCfg # 0
      /\ phase' = [phase EXCEPT ![c] = "dialing"]
      /\ cfgOf' = [cfgOf EXCEPT ![c] = dbCfg]
      /\ UNCHANGED <<sessionID, dbVars, opVars, closeVars, serverVars>>
  BY DEF Open
<1>2. Typed'
  BY <1>1 DEF IInv, Typed, dbVars, opVars, closeVars, serverVars, Phases
<1>3. ASSUME NEW d \in Clients PROVE ClientOK(d)' /\ ServerOK(d)'
  <2>1. ClientOK(d) /\ ServerOK(d) /\ phase \in [Clients -> Phases]
        /\ cfgOf \in [Clients -> 0..Len(configs)]
    BY DEF IInv, Typed
  <2>2. d = c => op[d] = "none" /\ release[d] = "none"
    BY <1>1, <2>1 DEF ClientOK, Dialled
  <2>3. d # c => Key(d)' = Key(d)
    BY <1>1, <2>1 DEF Key, dbVars
  <2>4. ClientOK(d)'
    BY <1>1, <2>1, <2>2, <2>3 DEF ClientOK, Dialled, dbVars, opVars, closeVars, serverVars
  <2>5. ServerOK(d)'
    BY <1>1, <2>1, <2>2, <2>3 DEF ServerOK, dbVars, opVars, closeVars, serverVars
  <2> QED
    BY <2>4, <2>5
<1> QED
  BY <1>2, <1>3 DEF IInv

LEMMA DialKeeps == ASSUME IInv, NEW c \in Clients, Dial(c) PROVE IInv'
<1>1. /\ phase[c] = "dialing"
      /\ phase' = [phase EXCEPT ![c] = "open"]
      /\ sessionID' = [sessionID EXCEPT
           ![c] = IF configs[cfgOf[c]].session = "pin" THEN Pinned ELSE c]
      /\ overlaid' = overlaid \ {c}
      /\ UNCHANGED <<configs, dbCfg, cfgOf, opVars, closeVars, serverVars>>
  BY DEF Dial
<1>2. Typed'
  BY <1>1 DEF IInv, Typed, opVars, closeVars, serverVars, SessionIDs, Phases
<1>3. ASSUME NEW d \in Clients PROVE ClientOK(d)' /\ ServerOK(d)'
  <2>1. /\ ClientOK(d) /\ ServerOK(d) /\ phase \in [Clients -> Phases]
        /\ sessionID \in [Clients -> SessionIDs]
    BY DEF IInv, Typed
  <2>2. d = c => op[d] = "none" /\ release[d] = "none"
    BY <1>1, <2>1 DEF ClientOK, Dialled
  <2>3. d # c => Key(d)' = Key(d)
    BY <1>1, <2>1 DEF Key
  <2>4. d # c => phase'[d] = phase[d] /\ sessionID'[d] = sessionID[d]
                 /\ (d \in overlaid' <=> d \in overlaid)
    BY <1>1, <2>1
  <2>5. d = c => phase'[d] = "open" /\ sessionID'[d] \in {c, Pinned}
                 /\ (configs[cfgOf[c]].session = "own" => sessionID'[d] = c)
    BY <1>1, <2>1
  <2>6. ClientOK(d)'
    BY <1>1, <2>1, <2>2, <2>3, <2>4, <2>5 DEF ClientOK, Dialled, opVars, closeVars, serverVars
  <2>7. ServerOK(d)'
    BY <1>1, <2>1, <2>2, <2>3, <2>4 DEF ServerOK, opVars, closeVars, serverVars
  <2> QED
    BY <2>6, <2>7
<1> QED
  BY <1>2, <1>3 DEF IInv

\* A step of client c that leaves the Configs, the server and the other
\* clients alone, and c's own place in its life.
LEMMA OwnStep ==
  ASSUME IInv, NEW c \in Clients,
         UNCHANGED <<configs, dbCfg, overlaid, cfgOf, sessionID, instances,
                     instance, tombstones>>,
         Typed', ClientOK(c)', ServerOK(c)',
         \A d \in Clients \ {c} :
             /\ phase'[d] = phase[d] /\ op'[d] = op[d] /\ opKey'[d] = opKey[d]
             /\ release'[d] = release[d] /\ releaseKey'[d] = releaseKey[d]
             /\ (d \in raced' <=> d \in raced) /\ (d \in answered' <=> d \in answered)
  PROVE  IInv'
<1>1. ASSUME NEW d \in Clients PROVE ClientOK(d)' /\ ServerOK(d)'
  <2>1. CASE d # c
    <3>1. ClientOK(d) /\ ServerOK(d)
      BY DEF IInv
    <3>2. ClientOK(d)'
      BY <2>1, <3>1 DEF ClientOK, Dialled, Key
    <3>3. ServerOK(d)'
      BY <2>1, <3>1 DEF ServerOK, Key
    <3> QED
      BY <3>2, <3>3
  <2> QED
    BY <2>1
<1> QED
  BY <1>1 DEF IInv

LEMMA KeyIsKey ==
  ASSUME IInv, NEW c \in Clients, Dialled(c)
  PROVE  Key(c) \in Keys /\ Key(c)[2] = sessionID[c]
<1>1. cfgOf[c] \in 1..Len(configs) /\ sessionID[c] \in SessionIDs
  BY DEF IInv, Typed, ClientOK, Dialled
<1>2. configs[cfgOf[c]] \in Config
  BY <1>1 DEF IInv, Typed
<1>3. configs[cfgOf[c]].user \in Users
  BY <1>2 DEF Config
<1> QED
  BY <1>1, <1>3 DEF Key, Keys

LEMMA SendOpKeeps == ASSUME IInv, NEW c \in Clients, SendOp(c) PROVE IInv'
<1>1. /\ phase[c] \in {"open", "closing"}
      /\ op[c] \in {"none", "ok", "failed", "released"}
      /\ op' = [op EXCEPT ![c] = "sent"]
      /\ opKey' = [opKey EXCEPT ![c] = Key(c)]
      /\ raced' = IF phase[c] = "closing" THEN raced \cup {c} ELSE raced
      /\ UNCHANGED <<release, releaseKey, answered, dbVars, clientVars, serverVars>>
  BY DEF SendOp
<1>2. ClientOK(c) /\ ServerOK(c)
  BY DEF IInv
<1>3. Key(c) \in Keys /\ Key(c)[2] = sessionID[c] /\ Key(c)' = Key(c)
  <2>1. Key(c)' = Key(c)
    BY <1>1 DEF Key, dbVars, clientVars
  <2> QED
    BY <1>1, <2>1, KeyIsKey DEF Dialled
<1>4. Typed'
  BY <1>1, <1>3 DEF IInv, Typed, dbVars, clientVars, serverVars
<1>5. op'[c] = "sent" /\ opKey'[c] = Key(c)
  BY <1>1 DEF IInv, Typed
<1>6. ClientOK(c)'
  BY <1>1, <1>2, <1>3, <1>5 DEF ClientOK, Dialled, dbVars, clientVars
<1>7. ServerOK(c)'
  BY <1>1, <1>2, <1>3, <1>5 DEF ServerOK, ClientOK, dbVars, clientVars, serverVars
<1>8. \A d \in Clients \ {c} : op'[d] = op[d] /\ opKey'[d] = opKey[d]
                                /\ (d \in raced' <=> d \in raced)
  BY <1>1 DEF IInv, Typed
<1> QED
  BY <1>1, <1>4, <1>6, <1>7, <1>8, OwnStep DEF dbVars, clientVars, serverVars

\* The states of an operation that is over or runs, as EndOp and GiveUp leave it.
LEMMA OpEnds ==
  ASSUME IInv, NEW c \in Clients, NEW o \in {"ok", "failed", "adrift"},
         op[c] \in {"sent", "running"}, o = "adrift" => op[c] = "sent",
         op' = [op EXCEPT ![c] = o],
         UNCHANGED <<opKey, phase, cfgOf, sessionID, dbVars, closeVars, serverVars>>
  PROVE  IInv'
<1>1. ClientOK(c) /\ ServerOK(c)
  BY DEF IInv
<1>2. Typed'
  BY DEF IInv, Typed, dbVars, closeVars, serverVars
<1>3. op'[c] = o /\ \A d \in Clients \ {c} : op'[d] = op[d]
  BY DEF IInv, Typed
<1>4. Key(c)' = Key(c)
  BY DEF Key, dbVars
<1>5. ClientOK(c)'
  BY <1>1, <1>3, <1>4 DEF ClientOK, Dialled, dbVars, closeVars
<1>6. ServerOK(c)'
  BY <1>1, <1>3, <1>4 DEF ServerOK, dbVars, closeVars, serverVars
<1> QED
  BY <1>2, <1>3, <1>5, <1>6, OwnStep DEF dbVars, closeVars, serverVars

LEMMA EndOpKeeps == ASSUME IInv, NEW c \in Clients, EndOp(c) PROVE IInv'
  BY OpEnds DEF EndOp

LEMMA GiveUpKeeps == ASSUME IInv, NEW c \in Clients, GiveUp(c) PROVE IInv'
<1> DEFINE o == IF op[c] = "sent" THEN "adrift" ELSE "failed"
<1>1. o \in {"ok", "failed", "adrift"} /\ (o = "adrift" => op[c] = "sent")
  OBVIOUS
<1>2. op[c] \in {"sent", "running"} /\ op' = [op EXCEPT ![c] = o]
      /\ UNCHANGED <<opKey, phase, cfgOf, sessionID, dbVars, closeVars, serverVars>>
  BY DEF GiveUp, Outstanding, clientVars
<1> HIDE DEF o
<1> QED
  BY <1>1, <1>2, OpEnds

LEMMA CloseKeeps == ASSUME IInv, NEW c \in Clients, Close(c) PROVE IInv'
<1>1. /\ phase[c] = "open"
      /\ phase' = [phase EXCEPT ![c] = "closing"]
      /\ release' = [release EXCEPT ![c] = "sent"]
      /\ releaseKey' = [releaseKey EXCEPT ![c] = Key(c)]
      /\ raced' = IF op[c] \in {"sent", "running", "adrift"}
                  THEN raced \cup {c} ELSE raced
      /\ UNCHANGED <<answered, cfgOf, sessionID, dbVars, opVars, serverVars>>
  BY DEF Close
<1>2. ClientOK(c) /\ ServerOK(c)
  BY DEF IInv
<1>3. Key(c) \in Keys /\ Key(c)[2] = sessionID[c] /\ Key(c)' = Key(c)
  <2>1. Key(c)' = Key(c)
    BY <1>1 DEF Key, dbVars
  <2> QED
    BY <1>1, <2>1, KeyIsKey DEF Dialled
<1>4. Typed'
  BY <1>1, <1>3 DEF IInv, Typed, dbVars, opVars, serverVars, Phases
<1>5. phase'[c] = "closing" /\ release'[c] = "sent" /\ releaseKey'[c] = Key(c)
  BY <1>1 DEF IInv, Typed
<1>6. ClientOK(c)'
  BY <1>1, <1>2, <1>3, <1>5 DEF ClientOK, Dialled, dbVars, opVars
<1>7. ServerOK(c)'
  BY <1>1, <1>2, <1>3, <1>5 DEF ServerOK, dbVars, opVars, serverVars
<1>8. \A d \in Clients \ {c} :
         /\ phase'[d] = phase[d] /\ release'[d] = release[d]
         /\ releaseKey'[d] = releaseKey[d] /\ (d \in raced' <=> d \in raced)
  BY <1>1 DEF IInv, Typed
<1> QED
  BY <1>1, <1>4, <1>6, <1>7, <1>8, OwnStep DEF dbVars, opVars, serverVars

LEMMA LoseReleaseKeeps == ASSUME IInv, NEW c \in Clients, LoseRelease(c) PROVE IInv'
<1>1. /\ release[c] = "sent" /\ release' = [release EXCEPT ![c] = "lost"]
      /\ UNCHANGED <<releaseKey, answered, raced, dbVars, clientVars, opVars, serverVars>>
  BY DEF LoseRelease
<1>2. ClientOK(c) /\ ServerOK(c)
  BY DEF IInv
<1>3. Typed'
  BY <1>1 DEF IInv, Typed, dbVars, clientVars, opVars, serverVars
<1>4. release'[c] = "lost" /\ \A d \in Clients \ {c} : release'[d] = release[d]
  BY <1>1 DEF IInv, Typed
<1>5. Key(c)' = Key(c)
  BY <1>1 DEF Key, dbVars, clientVars
<1>6. ClientOK(c)'
  BY <1>1, <1>2, <1>4, <1>5 DEF ClientOK, Dialled, dbVars, clientVars, opVars
<1>7. ServerOK(c)'
  BY <1>1, <1>2, <1>4, <1>5 DEF ServerOK, dbVars, clientVars, opVars, serverVars
<1> QED
  BY <1>1, <1>3, <1>4, <1>6, <1>7, OwnStep DEF dbVars, clientVars, opVars, serverVars

LEMMA CloseChannelKeeps == ASSUME IInv, NEW c \in Clients, CloseChannel(c) PROVE IInv'
<1> DEFINE o == IF op[c] = "sent" THEN "adrift"
                ELSE IF op[c] = "running" THEN "failed" ELSE op[c]
<1>1. /\ phase[c] = "closing"
      /\ phase' = [phase EXCEPT ![c] = "closed"]
      /\ answered' = IF release[c] = "done" THEN answered \cup {c} ELSE answered
      /\ op' = [op EXCEPT ![c] = o]
      /\ UNCHANGED <<opKey, release, releaseKey, raced, cfgOf, sessionID, dbVars, serverVars>>
  BY DEF CloseChannel
<1>2. ClientOK(c) /\ ServerOK(c)
  BY DEF IInv
<1>3. /\ o \in {"none", "sent", "running", "ok", "failed", "released", "adrift"}
      /\ o = "none" <=> op[c] = "none"
      /\ o \in {"sent", "running", "adrift"} => op[c] \in {"sent", "adrift"}
  BY DEF IInv, Typed
<1> HIDE DEF o
<1>4. Typed'
  BY <1>1, <1>3 DEF IInv, Typed, dbVars, serverVars, Phases
<1>5. phase'[c] = "closed" /\ op'[c] = o
  BY <1>1 DEF IInv, Typed
<1>6. Key(c)' = Key(c)
  BY <1>1 DEF Key, dbVars
<1>7. ClientOK(c)'
  BY <1>1, <1>2, <1>3, <1>5, <1>6 DEF ClientOK, Dialled, dbVars
<1>8. ServerOK(c)'
  BY <1>1, <1>2, <1>3, <1>5, <1>6 DEF ServerOK, dbVars, serverVars
<1>9. \A d \in Clients \ {c} : /\ phase'[d] = phase[d] /\ op'[d] = op[d]
                                /\ (d \in answered' <=> d \in answered)
  BY <1>1 DEF IInv, Typed
<1> QED
  BY <1>1, <1>4, <1>7, <1>8, <1>9, OwnStep DEF dbVars, serverVars

-----------------------------------------------------------------------------
(* The server.                                                             *)

\* A request names the session its client has: of all clients, only d can
\* name the id that was made up for d.
LEMMA OnlyOwnID ==
  ASSUME IInv, NEW c \in Clients, NEW d \in Clients, c # d
  PROVE  /\ op[c] # "none" => opKey[c] \in Keys /\ opKey[c][2] # d
         /\ release[c] # "none" => releaseKey[c] \in Keys /\ releaseKey[c][2] # d
  BY PinnedIsNoClient DEF IInv, ClientOK

LEMMA ServerOpKeeps == ASSUME IInv, NEW c \in Clients, ServerOp(c) PROVE IInv'
<1> DEFINE k == opKey[c]
<1>1. op[c] \in {"sent", "adrift"} /\ k \in Keys /\ ClientOK(c) /\ ServerOK(c)
  BY DEF ServerOp, IInv, ClientOK
<1>2. PICK o \in {"running", "released", "failed"} :
        /\ op' = [op EXCEPT ![c] = o]
        /\ o = "released" => k \in tombstones
        /\ o = "running" => op[c] = "sent"
  <2>1. CASE k \in tombstones
    BY <2>1 DEF ServerOp
  <2>2. CASE k \notin tombstones
    BY <2>2 DEF ServerOp
  <2> QED
    BY <2>1, <2>2
<1>3. /\ UNCHANGED <<opKey, tombstones, dbVars, clientVars, closeVars>>
      /\ instances' \in Nat
      /\ instance' \in [Keys -> Nat]
      /\ \A j \in Keys : j # k => instance'[j] = instance[j]
  <2>1. CASE k \in tombstones \/ instance[k] # 0
    BY <2>1, <1>1 DEF ServerOp, IInv, Typed
  <2>2. CASE k \notin tombstones /\ instance[k] = 0
    <3>1. instances' = instances + 1 /\ instance' = [instance EXCEPT ![k] = instances']
      BY <2>2 DEF ServerOp
    <3> QED
      BY <3>1, <1>1 DEF ServerOp, IInv, Typed
  <2> QED
    BY <2>1, <2>2
<1>4. Typed'
  BY <1>2, <1>3 DEF IInv, Typed, dbVars, clientVars, closeVars
<1>5. op'[c] = o /\ \A d \in Clients \ {c} : op'[d] = op[d]
  BY <1>2 DEF IInv, Typed
<1>6. ASSUME NEW d \in Clients PROVE Key(d)' = Key(d) /\ ClientOK(d) /\ ServerOK(d)
  BY <1>3 DEF Key, dbVars, clientVars, IInv
<1>7. ASSUME NEW d \in Clients PROVE ClientOK(d)'
  <2>1. CASE d # c
    BY <2>1, <1>3, <1>5, <1>6 DEF ClientOK, Dialled, dbVars, clientVars, closeVars
  <2>2. CASE d = c
    <3>1. o = "released" /\ sessionID[c] = c => release[c] # "none"
      BY <1>1, <1>2 DEF ClientOK, ServerOK
    <3> QED
      BY <2>2, <3>1, <1>1, <1>2, <1>3, <1>5, <1>6
         DEF ClientOK, Dialled, dbVars, clientVars, closeVars
  <2> QED
    BY <2>1, <2>2
<1>8. ASSUME NEW d \in Clients PROVE ServerOK(d)'
  <2>1. CASE d # c
    <3>1. \A u \in Users : <<u, d>> # k
      BY <1>1, <2>1, OnlyOwnID
    <3>2. \A u \in Users : instance'[<<u, d>>] = instance[<<u, d>>]
      BY <1>3, <3>1 DEF Keys, SessionIDs
    <3> QED
      BY <2>1, <3>2, <1>3, <1>5, <1>6 DEF ServerOK, dbVars, clientVars, closeVars
  <2>2. CASE d = c
    <3>1. op[c] # "none" /\ op'[c] # "none"
      BY <1>1, <1>5
    <3>2. release[c] # "none" => c \in raced
      BY <1>1 DEF ClientOK
    <3>3. ASSUME NEW u \in Users, instance'[<<u, c>>] # 0
          PROVE  /\ sessionID[c] = c
                 /\ c \notin overlaid => <<u, c>> = Key(c)
      <4>1. CASE <<u, c>> = k
        BY <1>1, <4>1, PinnedIsNoClient DEF ClientOK
      <4>2. CASE <<u, c>> # k
        BY <1>1, <1>3, <3>3, <4>2 DEF ServerOK, Keys, SessionIDs
      <4> QED
        BY <4>1, <4>2
    <3> QED
      BY <2>2, <3>1, <3>2, <3>3, <1>1, <1>3, <1>6
         DEF ServerOK, dbVars, clientVars, closeVars
  <2> QED
    BY <2>1, <2>2
<1> QED
  BY <1>4, <1>7, <1>8 DEF IInv

LEMMA ServerReleaseKeeps == ASSUME IInv, NEW c \in Clients, ServerRelease(c) PROVE IInv'
<1> DEFINE k == releaseKey[c]
<1>1. /\ release[c] = "sent" /\ release' = [release EXCEPT ![c] = "done"]
      /\ k \in Keys /\ ClientOK(c) /\ ServerOK(c)
      /\ UNCHANGED <<opKey, releaseKey, answered, raced, instances, dbVars, clientVars>>
  BY DEF ServerRelease, IInv, ClientOK
<1>2. /\ instance' \in [Keys -> Nat] /\ instance'[k] = 0
      /\ \A j \in Keys : j # k => instance'[j] = instance[j]
      /\ tombstones' \subseteq tombstones \cup {k}
  BY <1>1 DEF ServerRelease, IInv, Typed
<1>3. ASSUME NEW d \in Clients
      PROVE  op'[d] = op[d] \/ (op[d] = "running" /\ op'[d] = "released" /\ opKey[d] = k)
  BY DEF ServerRelease
<1>4. op' \in [Clients -> {"none", "sent", "running", "ok", "failed", "released", "adrift"}]
  BY DEF ServerRelease, IInv, Typed
<1>5. release'[c] = "done" /\ \A d \in Clients \ {c} : release'[d] = release[d]
  BY <1>1 DEF IInv, Typed
<1>6. Typed'
  BY <1>1, <1>2, <1>4 DEF IInv, Typed, dbVars, clientVars
<1>7. ASSUME NEW d \in Clients PROVE Key(d)' = Key(d) /\ ClientOK(d) /\ ServerOK(d)
  BY <1>1 DEF Key, dbVars, clientVars, IInv
<1>8. ASSUME NEW d \in Clients PROVE ClientOK(d)'
  <2>1. op'[d] = "released" /\ op[d] # "released" /\ sessionID[d] = d => d = c
    BY <1>1, <1>3, <1>7, OnlyOwnID DEF ClientOK
  <2>2. release[c] # "none" /\ phase[c] # "open"
    BY <1>1 DEF ClientOK
  <2>3. op'[d] = "none" <=> op[d] = "none"
    BY <1>3
  <2>4. op'[d] \in {"sent", "running", "adrift"} => op'[d] = op[d]
    BY <1>3
  <2> QED
    BY <2>1, <2>2, <2>3, <2>4, <1>1, <1>5, <1>7 DEF ClientOK, Dialled, dbVars, clientVars
<1>9. ASSUME NEW d \in Clients PROVE ServerOK(d)'
  <2>1. op'[d] = "none" <=> op[d] = "none"
    BY <1>3
  <2>2. \A u \in Users : instance'[<<u, d>>] # 0 =>
           instance[<<u, d>>] # 0 /\ <<u, d>> # k
    BY <1>2 DEF Keys, SessionIDs
  <2>3. \A j \in tombstones' : j[2] = d => release'[d] # "none"
    BY <1>1, <1>2, <1>5, <1>7, OnlyOwnID DEF ServerOK
  <2>4. \A u \in Users : instance'[<<u, d>>] # 0 =>
           (d \notin overlaid /\ d \notin raced => release'[d] # "done")
    <3>1. CASE d = c
      BY <3>1, <2>2, <1>1 DEF ClientOK, ServerOK
    <3>2. CASE d # c
      BY <3>2, <2>2, <1>5, <1>7 DEF ServerOK
    <3> QED
      BY <3>1, <3>2
  <2> QED
    BY <2>1, <2>2, <2>3, <2>4, <1>1, <1>7 DEF ServerOK, dbVars, clientVars
<1> QED
  BY <1>6, <1>8, <1>9 DEF IInv

LEMMA RestartKeeps == ASSUME IInv, Restart PROVE IInv'
<1>1. /\ instance' = [k \in Keys |-> 0] /\ tombstones' = {}
      /\ op' = [c \in Clients |-> IF op[c] = "running" THEN "failed" ELSE op[c]]
      /\ UNCHANGED <<opKey, instances, dbVars, clientVars, closeVars>>
  BY DEF Restart
<1>2. Typed'
  BY <1>1 DEF IInv, Typed, dbVars, clientVars, closeVars
<1>3. ASSUME NEW c \in Clients PROVE ClientOK(c)' /\ ServerOK(c)'
  <2>1. Key(c)' = Key(c) /\ ClientOK(c)
    BY <1>1 DEF Key, dbVars, clientVars, IInv
  <2>2. op'[c] = IF op[c] = "running" THEN "failed" ELSE op[c]
    BY <1>1
  <2>3. ClientOK(c)'
    BY <1>1, <2>1, <2>2 DEF ClientOK, Dialled, dbVars, clientVars, closeVars
  <2>4. ServerOK(c)'
    BY <1>1 DEF ServerOK, Keys, SessionIDs
  <2> QED
    BY <2>3, <2>4
<1> QED
  BY <1>2, <1>3 DEF IInv

-----------------------------------------------------------------------------
(* The theorems.                                                           *)

LEMMA NextIInv == ASSUME IInv, [Next]_vars PROVE IInv'
<1>1. CASE SetOptionsURI \/ SetOptionsOverlay \/ Restart
  BY <1>1, URIKeeps, OverlayKeeps, RestartKeeps
<1>2. ASSUME NEW c \in Clients, Open(c) \/ Dial(c) \/ SendOp(c) \/ ServerOp(c)
      PROVE  IInv'
  BY <1>2, OpenKeeps, DialKeeps, SendOpKeeps, ServerOpKeeps
<1>3. ASSUME NEW c \in Clients, \/ EndOp(c) \/ GiveUp(c) \/ Close(c)
                               \/ ServerRelease(c) \/ LoseRelease(c) \/ CloseChannel(c)
      PROVE  IInv'
  BY <1>3, EndOpKeeps, GiveUpKeeps, CloseKeeps, ServerReleaseKeeps, LoseReleaseKeeps,
     CloseChannelKeeps
<1>4. CASE UNCHANGED vars
  BY <1>4, QuietKeeps DEF vars, dbVars, clientVars, opVars, serverVars
<1> QED
  BY <1>1, <1>2, <1>3, <1>4 DEF Next

LEMMA InvHolds == Spec => []IInv
<1>1. Init => IInv
  BY InitIInv
<1>2. IInv /\ [Next]_vars => IInv'
  BY NextIInv
<1> QED
  BY <1>1, <1>2, PTL DEF Spec

\* A connection with a session of its own does not lose it to another one's
\* Close, whatever requests are late and whatever options are written.
THEOREM OwnSessionsAreIsolated == Spec => []Isolation
<1>1. IInv => Isolation
  BY DEF IInv, ClientOK, Isolation, Dialled
<1> QED
  BY <1>1, InvHolds, PTL

\* When Close has had its answer, the server keeps no session with the id the
\* connection made up for itself, if no operation raced with Close and no
\* options were written over its Config.
THEOREM CloseLeavesNothing == Spec => []ReleasesItsSession
<1>1. IInv => ReleasesItsSession
  <2> SUFFICES ASSUME IInv, NEW c \in answered \ (raced \cup overlaid), NEW u \in Users
               PROVE  instance[<<u, c>>] = 0
    BY DEF ReleasesItsSession, NothingLeft
  <2>1. c \in Clients
    BY DEF IInv, Typed
  <2> QED
    BY <2>1 DEF IInv, ClientOK, ServerOK
<1> QED
  BY <1>1, InvHolds, PTL

\* A new connection string leaves the identity of open connections alone.
THEOREM OpenConnectionsKeepIdentity == Spec => IdentityKept
<1> DEFINE A == \A c \in Clients :
          phase[c] = "open" /\ phase'[c] = "open" /\ c \notin overlaid'
              => Key(c)' = Key(c)
<1>1. ASSUME IInv, [Next]_vars PROVE A
  <2> SUFFICES ASSUME NEW c \in Clients, phase[c] = "open", phase'[c] = "open",
                      c \notin overlaid'
               PROVE  Key(c)' = Key(c)
    OBVIOUS
  <2>1. cfgOf[c] \in 1..Len(configs)
    BY <1>1 DEF IInv, Typed, ClientOK
  <2>2. cfgOf'[c] = cfgOf[c] /\ sessionID'[c] = sessionID[c]
    <3>1. ASSUME NEW d \in Clients, Open(d) \/ Dial(d)
          PROVE  d # c /\ cfgOf'[c] = cfgOf[c] /\ sessionID'[c] = sessionID[c]
      BY <1>1, <3>1 DEF Open, Dial, IInv, Typed
    <3>2. CASE SetOptionsURI \/ SetOptionsOverlay \/ Restart \/ UNCHANGED vars
      BY <3>2 DEF SetOptionsURI, SetOptionsOverlay, Restart, vars, clientVars
    <3>3. ASSUME NEW d \in Clients,
                 \/ SendOp(d) \/ ServerOp(d) \/ EndOp(d) \/ GiveUp(d) \/ Close(d)
                 \/ ServerRelease(d) \/ LoseRelease(d) \/ CloseChannel(d)
          PROVE  UNCHANGED <<cfgOf, sessionID>>
      BY <3>3 DEF SendOp, ServerOp, EndOp, GiveUp, Close, ServerRelease, LoseRelease,
                  CloseChannel, clientVars
    <3> QED
      BY <1>1, <3>1, <3>2, <3>3 DEF Next
  <2>3. configs'[cfgOf[c]] = configs[cfgOf[c]]
    <3>1. CASE SetOptionsURI
      BY <1>1, <2>1, <3>1 DEF SetOptionsURI, IInv, Typed
    <3>2. CASE SetOptionsOverlay
      <4>1. configs' = configs \/ cfgOf[c] # dbCfg
        BY <3>2 DEF SetOptionsOverlay
      <4> QED
        BY <1>1, <2>1, <3>2, <4>1 DEF SetOptionsOverlay, IInv, Typed
    <3>3. CASE Restart \/ UNCHANGED vars
      BY <3>3 DEF Restart, vars, dbVars
    <3>4. ASSUME NEW d \in Clients,
                 \/ Open(d) \/ Dial(d) \/ SendOp(d) \/ ServerOp(d) \/ EndOp(d)
                 \/ GiveUp(d) \/ Close(d) \/ ServerRelease(d) \/ LoseRelease(d)
                 \/ CloseChannel(d)
          PROVE  UNCHANGED configs
      BY <3>4 DEF Open, Dial, SendOp, ServerOp, EndOp, GiveUp, Close, ServerRelease,
                  LoseRelease, CloseChannel, dbVars
    <3> QED
      BY <1>1, <3>1, <3>2, <3>3, <3>4 DEF Next
  <2> QED
    BY <2>2, <2>3 DEF Key
<1> QED
  BY <1>1, InvHolds, PTL DEF Spec, IdentityKept

=============================================================================
