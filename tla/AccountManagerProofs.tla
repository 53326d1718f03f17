------------------------- MODULE AccountManagerProofs -------------------------
(***************************************************************************)
(* What the file, the map of clients and the clients say of the accounts   *)
(* goes together: for any accounts, any number of clients and any order of *)
(* requests, watchers, commands, stops and starts.                         *)
(***************************************************************************)
EXTENDS AccountManager, FiniteSetTheorems, TLAPS

Kinds == {"idle", "add", "edit", "delete", "reload", "start"}
Steps == {"load", "create", "save", "wait", "restore", "stop"}

Ops == [kind : Kinds, step : Steps, old : Accounts \cup Names \cup {None},
        account : Accounts \cup {None}, config : SUBSET Accounts,
        todo : (SUBSET Accounts) \cup (SUBSET Names), client : Clients \cup {None}]

(* A client, with the account it was made for. *)
Record(n) == [name |-> n, port |-> client[map[n]].port]

(* Distinct names: what Valid says of a finite set. *)
Distinct(config) == \A a, b \in config : a.name = b.name => a = b

(* A request knows its account, and has checked the file it will write. *)
OpOK ==
    /\ op \in Ops
    /\ op.kind = "idle" => op = Idle
    /\ op.kind \in {"add", "edit"} => op.account \in Accounts
    /\ op.kind \in {"add", "edit", "delete", "reload"} => op.config \in Configs
    /\ op.kind = "edit" => op.old \in Accounts
    /\ op.kind = "delete" => op.old \in Names
    /\ op.kind = "start" => op.step = "create"
    /\ op.kind = "reload" => op.step \in {"stop", "create"}

(* A client is in the map under one name, and it knows whether it is. *)
MapOK ==
    /\ \A n \in Names : Running(n) => "map" \in client[map[n]].holders
    /\ \A n, m \in Names : Running(n) /\ map[n] = map[m] => n = m
    /\ \A c \in Clients : "map" \in client[c].holders => \E n \in Names : map[n] = c

(* A service that is down holds nothing. *)
DownOK == ~up => /\ map = NoClients /\ op = Idle /\ waiting = None
                 /\ \A c \in Clients : client[c] = Unborn

(* The account a request adds does not run, and the one an edit replaces    *)
(* does not until its replacement does.                                     *)
OpMapOK ==
    /\ op.kind = "add" => map[op.account.name] = None
    /\ op.kind = "add" /\ op.step = "create" => op.client = None
    /\ op.kind = "add" /\ op.step = "save" =>
          /\ op.client \in Clients
          /\ client[op.client].holders = {"request"}
          /\ client[op.client].port = op.account.port
    /\ op.kind = "edit" /\ op.step \in {"wait", "create", "restore"} =>
          map[op.old.name] = None

(* The file a request loaded is still the one it is about to replace. *)
LoadedOK ==
    /\ waiting # None => op = Idle /\ file = waiting
    /\ op.kind = "add" => op.config = file \cup {op.account}
    /\ op.kind = "edit" => /\ op.old \in file /\ op.account \notin file \ {op.old}
                           /\ op.config = (file \ {op.old}) \cup {op.account}
    /\ op.kind = "delete" => op.config = {a \in file : a.name # op.old}
    /\ op.kind \in {"reload", "start"} => op.config = file
    /\ op.kind \in {"reload", "start"} /\ op.step = "create" => op.todo \subseteq file

(* The accounts that may run at this point of a request. *)
Kept ==
    CASE op.kind = "edit" /\ op.step # "save" -> file \ {op.old}
      [] op.kind = "edit" /\ op.step = "save" -> op.config
      [] op.kind \in {"reload", "start"} /\ op.step = "create" -> op.config \ op.todo
      [] OTHER -> file

RunningOK ==
    waiting = None /\ ~(op.kind = "reload" /\ op.step = "stop") =>
        \A n \in RunningNames : Record(n) \in Kept

(* A reload stops every client of the map before it clears the map. *)
StoppedOK ==
    op.kind = "reload" /\ op.step = "stop" =>
        \A n \in RunningNames : n \in op.todo \/ ~client[map[n]].active

Settled == ~overlapped => LoadedOK /\ RunningOK /\ StoppedOK

ClientRecords == [port : Ports, active : BOOLEAN, holders : SUBSET Holders]
Maps == [Names -> Clients \cup {None}]
States == [Clients -> ClientRecords]

IInv == /\ up \in BOOLEAN /\ overlapped \in BOOLEAN
        /\ file \in Configs /\ waiting \in Configs \cup {None}
        /\ map \in Maps /\ client \in States
        /\ OpOK /\ MapOK /\ DownOK /\ OpMapOK
        /\ NoStrays /\ Settled

-----------------------------------------------------------------------------
(* Names *)

LEMMA AccountType ==
    \A a \in Accounts : a = [name |-> a.name, port |-> a.port] /\ a.name \in Names /\ a.port \in Ports
  BY AccountAssumption DEF Names, Ports

(* Counting the names of a configuration tells whether they are distinct. *)
LEMMA ValidIsDistinct ==
    ASSUME NEW config \in SUBSET Accounts
    PROVE  Valid(config) <=> config # {} /\ Distinct(config)
  <1> DEFINE f == [a \in config |-> a.name]
  <1>1. IsFiniteSet(config)
    BY AccountAssumption, FS_Subset
  <1>2. f \in Surjection(config, NamesIn(config))
    BY DEF Surjection, NamesIn
  <1>3. Cardinality(NamesIn(config)) = Cardinality(config) <=> f \in Injection(config, NamesIn(config))
    BY <1>1, <1>2, FS_Surjection
  <1>4. f \in Injection(config, NamesIn(config)) <=> Distinct(config)
    BY DEF Injection, IsInjective, Distinct, NamesIn
  <1> QED
    BY <1>3, <1>4 DEF Valid

(* Replacing an account by one that is not there keeps their number, and    *)
(* only that does.                                                          *)
LEMMA Replaced ==
    ASSUME NEW S \in SUBSET Accounts, NEW old \in S, NEW a,
           Cardinality((S \ {old}) \cup {a}) = Cardinality(S)
    PROVE  a \notin S \ {old}
  <1>1. IsFiniteSet(S)
    BY AccountAssumption, FS_Subset
  <1>2. IsFiniteSet(S \ {old}) /\ Cardinality(S \ {old}) = Cardinality(S) - 1
    BY <1>1, FS_RemoveElement
  <1>3. Cardinality((S \ {old}) \cup {a}) =
           IF a \in S \ {old} THEN Cardinality(S \ {old}) ELSE Cardinality(S \ {old}) + 1
    BY <1>2, FS_AddElement
  <1>4. Cardinality(S) \in Nat
    BY <1>1, FS_CardinalityType
  <1> QED
    BY <1>2, <1>3, <1>4

-----------------------------------------------------------------------------
(* Clients and the map *)

LEMMA UnbornType == Unborn \in ClientRecords /\ Unborn.holders = {} /\ ~Unborn.active
  BY DEF Unborn, ClientRecords, Ports, Holders

LEMMA CreatedType ==
    ASSUME NEW a \in Accounts, NEW holders \in SUBSET Holders
    PROVE  /\ Created(a, holders) \in ClientRecords
           /\ Created(a, holders).holders = holders /\ Created(a, holders).port = a.port
  BY AccountType DEF Created, ClientRecords

(* A client without one of its holders: as it was, or gone. *)
LEMMA WithoutHolderType ==
    ASSUME NEW k \in ClientRecords, NEW h \in Holders
    PROVE  /\ WithoutHolder(k, h) \in ClientRecords
           /\ WithoutHolder(k, h).holders = k.holders \ {h}
           /\ WithoutHolder(k, h).active => k.active
           /\ k.holders # {h} => /\ WithoutHolder(k, h).port = k.port
                                 /\ WithoutHolder(k, h).active = k.active
  <1>1. CASE k.holders = {h}
    BY <1>1, UnbornType DEF WithoutHolder
  <1>2. CASE k.holders # {h}
    <2> DEFINE r == [k EXCEPT !.holders = @ \ {h}]
    <2>1. WithoutHolder(k, h) = r
      BY <1>2 DEF WithoutHolder
    <2>2. r \in ClientRecords /\ r.holders = k.holders \ {h} /\ r.port = k.port /\ r.active = k.active
      BY DEF ClientRecords
    <2> QED
      BY <2>1, <2>2
  <1> QED
    BY <1>1, <1>2

LEMMA DeactivatedType ==
    ASSUME NEW k \in ClientRecords
    PROVE  /\ Deactivated(k) \in ClientRecords /\ Deactivated(k).holders = k.holders
           /\ Deactivated(k).port = k.port /\ ~Deactivated(k).active
  BY DEF Deactivated, ClientRecords

LEMMA NoneIsNoClient == None \notin Clients /\ None \notin Names
  BY AccountAssumption DEF Clients

LEMMA FreshIsUnused ==
    ASSUME Unused # {}, MapOK, map \in Maps
    PROVE  /\ Fresh \in Clients /\ client[Fresh].holders = {} /\ Fresh # None
           /\ \A n \in Names : map[n] # Fresh
  <1>1. Fresh \in Unused
    BY DEF Fresh
  <1>2. Fresh \in Clients /\ client[Fresh].holders = {}
    BY <1>1 DEF Unused, Alive
  <1> QED
    BY <1>2, NoneIsNoClient DEF MapOK, Running

(* After a step, who runs ran before, for the same account and as active as *)
(* before, except for those of `new`.                                       *)
Same(n) == /\ Running(n) /\ Record(n)' = Record(n)
           /\ client'[map'[n]].active => client[map[n]].active

Remaps(new) ==
    /\ map' \in Maps /\ client' \in States /\ MapOK'
    /\ \A n \in Names : Running(n)' => Same(n) \/ \E a \in new : n = a.name /\ Record(n)' = a

(* A step that moves no client in or out of the map. *)
LEMMA Stay ==
    ASSUME map \in Maps, MapOK, map' = map, client' \in States,
           \A c \in Clients : ("map" \in client'[c].holders) = ("map" \in client[c].holders),
           \A c \in Clients : "map" \in client[c].holders =>
               /\ client'[c].port = client[c].port
               /\ client'[c].active => client[c].active
    PROVE  Remaps({})
  <1>1. \A n \in Names : Running(n) => map[n] \in Clients
    BY DEF Maps, Running
  <1>2. MapOK'
    BY <1>1 DEF MapOK, Running
  <1>3. \A n \in Names : Running(n)' => Same(n)
    BY <1>1 DEF MapOK, Running, Same, Record
  <1> QED
    BY <1>2, <1>3 DEF Remaps

(* The client of n is taken out of the map. *)
LEMMA Take ==
    ASSUME map \in Maps, client \in States, MapOK,
           NEW n \in Names, Running(n), RemoveFromMap(n),
           client' \in States, "map" \notin client'[map[n]].holders,
           \A c \in Clients : c # map[n] => client'[c] = client[c]
    PROVE  Remaps({}) /\ map'[n] = None
  <1>1. /\ map' \in Maps /\ map'[n] = None
        /\ \A m \in Names : m # n => map'[m] = map[m]
    BY DEF RemoveFromMap, Maps
  <1>2. \A m \in Names : Running(m)' => /\ m # n /\ Running(m) /\ map'[m] = map[m]
                                        /\ map[m] # map[n] /\ map[m] \in Clients
    BY <1>1 DEF Running, MapOK, Maps
  <1>3. MapOK'
    <2>1. \A m \in Names : Running(m)' => "map" \in client'[map'[m]].holders
      BY <1>2 DEF MapOK
    <2>2. \A m, l \in Names : Running(m)' /\ map'[m] = map'[l] => m = l
      BY <1>1, <1>2 DEF MapOK, Running
    <2>3. ASSUME NEW c \in Clients, "map" \in client'[c].holders
          PROVE  \E m \in Names : map'[m] = c
      <3>1. c # map[n] /\ "map" \in client[c].holders
        BY <2>3
      <3> QED
        BY <1>1, <3>1 DEF MapOK
    <2> QED
      BY <2>1, <2>2, <2>3 DEF MapOK, Running
  <1>4. \A m \in Names : Running(m)' => Same(m)
    BY <1>2 DEF Same, Record
  <1> QED
    BY <1>1, <1>3, <1>4 DEF Remaps

(* The map is cleared. *)
LEMMA Clear ==
    ASSUME map' = NoClients, client' \in States,
           \A c \in Clients : "map" \notin client'[c].holders
    PROVE  Remaps({}) /\ \A n \in Names : ~Running(n)'
  <1>1. map' \in Maps /\ \A n \in Names : ~Running(n)'
    BY DEF Maps, NoClients, Running
  <1>2. MapOK'
    BY <1>1 DEF MapOK, NoClients, Running
  <1> QED
    BY <1>1, <1>2 DEF Remaps

(* Client c comes to stand for the account a. *)
LEMMA Put ==
    ASSUME map \in Maps, client \in States, MapOK,
           NEW a \in Accounts, NEW c \in Clients, "map" \notin client[c].holders,
           map' = [map EXCEPT ![a.name] = c], client' \in States,
           "map" \in client'[c].holders, client'[c].port = a.port,
           \A d \in Clients : d # c => \/ d = map[a.name] /\ "map" \notin client'[d].holders
                                       \/ d # map[a.name] /\ client'[d] = client[d]
    PROVE  Remaps({a}) /\ map'[a.name] = c
  <1>1. /\ a.name \in Names /\ a = [name |-> a.name, port |-> a.port]
        /\ None \notin Clients
    BY AccountType, NoneIsNoClient
  <1>2. /\ map' \in Maps /\ map'[a.name] = c
        /\ \A m \in Names : m # a.name => map'[m] = map[m]
    BY <1>1 DEF Maps
  <1>3. \A m \in Names : Running(m) => map[m] \in Clients /\ map[m] # c
    BY DEF Running, MapOK, Maps
  <1>4. ASSUME NEW m \in Names, m # a.name, Running(m)
        PROVE  map[m] # map[a.name] /\ client'[map[m]] = client[map[m]]
    BY <1>1, <1>3, <1>4 DEF MapOK
  <1>5. MapOK'
    <2>1. \A m \in Names : Running(m)' => "map" \in client'[map'[m]].holders
      <3> SUFFICES ASSUME NEW m \in Names, Running(m)'
                   PROVE  "map" \in client'[map'[m]].holders
        OBVIOUS
      <3>1. CASE m = a.name
        BY <1>2, <3>1
      <3>2. CASE m # a.name
        <4>1. Running(m) /\ map'[m] = map[m]
          BY <1>2, <3>2 DEF Running
        <4> QED
          BY <1>4, <3>2, <4>1 DEF MapOK
      <3> QED
        BY <3>1, <3>2
    <2>2. ASSUME NEW m \in Names, NEW l \in Names, Running(m)', map'[m] = map'[l]
          PROVE  m = l
      <3>1. CASE m = a.name \/ l = a.name
        BY <1>1, <1>2, <1>3, <2>2, <3>1 DEF Running
      <3>2. CASE m # a.name /\ l # a.name
        BY <1>2, <2>2, <3>2 DEF MapOK, Running
      <3> QED
        BY <3>1, <3>2
    <2>3. ASSUME NEW d \in Clients, "map" \in client'[d].holders
          PROVE  \E m \in Names : map'[m] = d
      <3>1. CASE d = c
        BY <1>1, <1>2, <3>1
      <3>2. CASE d # c
        <4>1. d # map[a.name] /\ "map" \in client[d].holders
          BY <2>3, <3>2
        <4>2. PICK m \in Names : map[m] = d
          BY <4>1 DEF MapOK
        <4> QED
          BY <1>2, <4>1, <4>2
      <3> QED
        BY <3>1, <3>2
    <2> QED
      BY <2>1, <2>2, <2>3 DEF MapOK, Running
  <1>6. ASSUME NEW m \in Names, Running(m)'
        PROVE  Same(m) \/ \E b \in {a} : m = b.name /\ Record(m)' = b
    <2>1. CASE m = a.name
      BY <1>1, <1>2, <2>1 DEF Record
    <2>2. CASE m # a.name
      <3>1. Running(m) /\ map'[m] = map[m]
        BY <1>2, <1>6, <2>2 DEF Running
      <3> QED
        BY <1>4, <2>2, <3>1 DEF Same, Record
    <2> QED
      BY <2>1, <2>2
  <1> QED
    BY <1>2, <1>5, <1>6 DEF Remaps

(* A new client is inserted. *)
LEMMA Inserting ==
    ASSUME map \in Maps, client \in States, MapOK, Unused # {},
           NEW a \in Accounts, NEW holders \in SUBSET Holders, Insert(a, holders)
    PROVE  /\ Remaps({a}) /\ map'[a.name] = Fresh /\ Fresh \in Clients
           /\ "map" \in client'[Fresh].holders
           /\ ~Running(a.name) => \A c \in Clients : c # Fresh => client'[c] = client[c]
  <1>1. /\ Fresh \in Clients /\ client[Fresh].holders = {}
        /\ \A n \in Names : map[n] # Fresh
    BY FreshIsUnused
  <1>2. a.name \in Names /\ None \notin Clients
    BY AccountType, NoneIsNoClient
  <1>3. "map" \in Holders /\ {"map"} \cup holders \in SUBSET Holders
    BY DEF Holders
  <1>4. /\ client'[Fresh] = Created(a, {"map"} \cup holders)
        /\ \A c \in Clients : c # Fresh =>
              client'[c] = IF Running(a.name) /\ map[a.name] = c
                           THEN WithoutHolder(client[c], "map") ELSE client[c]
    <2> DEFINE new == Created(a, {"map"} \cup holders)
               less(c) == WithoutHolder(client[c], "map")
    <2> HIDE DEF new, less
    <2>1. client' = [c \in Clients |->
                       CASE c = Fresh -> new
                         [] Running(a.name) /\ map[a.name] = c -> less(c)
                         [] OTHER -> client[c]]
      BY DEF Insert, new, less
    <2>2. client'[Fresh] = new
      BY <1>1, <1>2, <2>1
    <2>3. \A c \in Clients : c # Fresh =>
              client'[c] = IF Running(a.name) /\ map[a.name] = c THEN less(c) ELSE client[c]
      BY <2>1
    <2> QED
      BY <2>2, <2>3 DEF new, less
  <1>5. DOMAIN client' = Clients /\ client' = [c \in Clients |-> client'[c]]
    BY DEF Insert
  <1>6. /\ client'[Fresh] \in ClientRecords /\ client'[Fresh].port = a.port
        /\ "map" \in client'[Fresh].holders
    BY <1>3, <1>4, CreatedType
  <1>7. ASSUME NEW c \in Clients, c # Fresh
        PROVE  /\ client'[c] \in ClientRecords
               /\ \/ c = map[a.name] /\ "map" \notin client'[c].holders
                  \/ c # map[a.name] /\ client'[c] = client[c]
    <2>1. client[c] \in ClientRecords
      BY DEF States
    <2>2. CASE Running(a.name) /\ map[a.name] = c
      <3>1. client'[c] = WithoutHolder(client[c], "map")
        BY <1>4, <1>7, <2>2
      <3> QED
        BY <1>3, <2>1, <2>2, <3>1, WithoutHolderType
    <2>3. CASE ~(Running(a.name) /\ map[a.name] = c)
      <3>1. c # map[a.name]
        BY <1>2, <2>3 DEF Running
      <3>2. client'[c] = client[c]
        BY <1>4, <1>7, <2>3
      <3> QED
        BY <2>1, <3>1, <3>2
    <2> QED
      BY <2>2, <2>3
  <1>8. client' \in States
    BY <1>5, <1>6, <1>7 DEF States
  <1>9. Remaps({a}) /\ map'[a.name] = Fresh
    <2>1. map' = [map EXCEPT ![a.name] = Fresh] /\ "map" \notin client[Fresh].holders
      BY <1>1 DEF Insert
    <2>2. \A d \in Clients : d # Fresh => \/ d = map[a.name] /\ "map" \notin client'[d].holders
                                          \/ d # map[a.name] /\ client'[d] = client[d]
      BY <1>7
    <2> QED
      BY <1>1, <1>6, <1>8, <2>1, <2>2, Put
  <1> QED
    BY <1>1, <1>4, <1>6, <1>9

-----------------------------------------------------------------------------
(* The request under way *)

LEMMA NothingMoves ==
    ASSUME map \in Maps, client \in States, MapOK, map' = map, client' = client
    PROVE  Remaps({})
  BY Stay

(* Whoever may run after a step ran before, or is new. *)
LEMMA StillKept ==
    ASSUME NEW new, Remaps(new), \A n \in RunningNames : Record(n) \in Kept,
           Kept \subseteq Kept', new \subseteq Kept'
    PROVE  \A n \in RunningNames' : Record(n)' \in Kept'
  <1> SUFFICES ASSUME NEW n \in Names, Running(n)' PROVE Record(n)' \in Kept'
    BY DEF RunningNames, Running
  <1>1. CASE Same(n)
    BY <1>1 DEF Same, RunningNames
  <1>2. CASE \E a \in new : n = a.name /\ Record(n)' = a
    BY <1>2
  <1> QED
    BY <1>1, <1>2 DEF Remaps

LEMMA IdleType ==
    Idle \in Ops /\ Idle.kind = "idle" /\ Idle.step = "load" /\ Idle.todo = {} /\ Idle.config = {}
  BY DEF Idle, Ops, Kinds, Steps

LEMMA LockType ==
    ASSUME NEW kind \in Kinds \ {"idle"}, NEW step \in Steps,
           NEW old \in Accounts \cup Names \cup {None}, NEW a \in Accounts \cup {None},
           NEW config \in SUBSET Accounts, NEW c \in Clients \cup {None},
           op \in Ops, overlapped \in BOOLEAN, Lock(kind, step, old, a, config, c)
    PROVE  /\ up /\ op = Idle /\ op.kind = "idle" /\ ~overlapped /\ config \in Configs
           /\ op' \in Ops /\ op'.kind = kind /\ op'.step = step /\ op'.old = old
           /\ op'.account = a /\ op'.config = config /\ op'.client = c /\ op'.todo = {}
           /\ overlapped' \in BOOLEAN /\ (~overlapped' => waiting = None)
           /\ UNCHANGED <<up, file, waiting>>
  <1>1. /\ up /\ op = Idle /\ ~overlapped /\ Valid(config) /\ UNCHANGED <<up, file, waiting>>
        /\ overlapped' \in BOOLEAN /\ (~overlapped' => waiting = None)
    BY DEF Lock
  <1>2. op' = [kind |-> kind, step |-> step, old |-> old, account |-> a,
               config |-> config, todo |-> {}, client |-> c]
    BY DEF Lock, Idle
  <1> QED
    BY <1>1, <1>2, IdleType DEF Ops, Configs

LEMMA ProceedType ==
    ASSUME op \in Ops, NEW step \in Steps, Proceed(step)
    PROVE  /\ op' \in Ops /\ op'.kind = op.kind /\ op'.step = step /\ op'.old = op.old
           /\ op'.account = op.account /\ op'.config = op.config /\ op'.todo = op.todo
           /\ op'.client = op.client
  BY DEF Proceed, Ops

LEMMA TodoType ==
    ASSUME op \in Ops, NEW todo \in (SUBSET Accounts) \cup (SUBSET Names),
           op' = [op EXCEPT !.todo = todo]
    PROVE  /\ op' \in Ops /\ op'.kind = op.kind /\ op'.step = op.step /\ op'.old = op.old
           /\ op'.account = op.account /\ op'.config = op.config /\ op'.todo = todo
           /\ op'.client = op.client
  BY DEF Ops

-----------------------------------------------------------------------------
(* The holders that come and go beside the requests *)

LEMMA Holding ==
    ASSUME IInv, NEW c \in Clients, NEW k \in ClientRecords,
           UNCHANGED <<up, file, map, op, waiting, overlapped>>,
           client' = [client EXCEPT ![c] = k],
           client[c].holders \notin {{}, {"request"}},
           ("map" \in k.holders) = ("map" \in client[c].holders),
           "map" \in k.holders => k.port = client[c].port,
           k.active => client[c].active
    PROVE  IInv'
  <1>1. /\ client' \in States /\ client'[c] = k
        /\ \A d \in Clients : d # c => client'[d] = client[d]
    BY DEF IInv, States
  <1>2. Remaps({})
    <2>1. \A d \in Clients : ("map" \in client'[d].holders) = ("map" \in client[d].holders)
      BY <1>1
    <2>2. \A d \in Clients : "map" \in client[d].holders =>
               /\ client'[d].port = client[d].port
               /\ client'[d].active => client[d].active
      BY <1>1
    <2> QED
      BY <1>1, <2>1, <2>2, Stay DEF IInv
  <1>3. OpOK' /\ LoadedOK' = LoadedOK /\ Kept' = Kept
    BY DEF IInv, OpOK, LoadedOK, Kept
  <1>4. DownOK'
    BY UnbornType DEF IInv, DownOK
  <1>5. OpMapOK'
    BY <1>1 DEF IInv, OpMapOK
  <1>6. NoStrays'
    BY <1>1 DEF IInv, NoStrays, Alive
  <1>7. RunningOK => RunningOK'
    BY <1>2, <1>3, StillKept DEF RunningOK
  <1>8. StoppedOK => StoppedOK'
    BY <1>2 DEF StoppedOK, Remaps, Same, RunningNames, Running
  <1> QED
    BY <1>1, <1>2, <1>3, <1>4, <1>5, <1>6, <1>7, <1>8 DEF IInv, Settled, Remaps

LEMMA BorrowKeeps == ASSUME IInv, NEW c \in Clients, Borrow(c) PROVE IInv'
  <1> DEFINE k == [client[c] EXCEPT !.holders = @ \cup {"borrower"}]
  <1>1. client[c] \in ClientRecords /\ ("map" \in client[c].holders \/ "calls" \in client[c].holders)
    BY DEF IInv, States, Borrow
  <1>2. /\ k \in ClientRecords /\ k.port = client[c].port /\ k.active = client[c].active
        /\ k.holders = client[c].holders \cup {"borrower"}
    BY <1>1 DEF ClientRecords, Holders
  <1>3. client' = [client EXCEPT ![c] = k] /\ UNCHANGED <<up, file, map, op, waiting, overlapped>>
    BY DEF Borrow
  <1> HIDE DEF k
  <1>4. client[c].holders \notin {{}, {"request"}}
    BY <1>1
  <1>5. ("map" \in k.holders) = ("map" \in client[c].holders)
    BY <1>2
  <1> QED
    BY <1>1, <1>2, <1>3, <1>4, <1>5, Holding

LEMMA ReleaseKeeps ==
    ASSUME IInv, NEW c \in Clients, NEW h \in Watchers \cup {"borrower"},
           h \in client[c].holders, client' = [client EXCEPT ![c] = WithoutHolder(@, h)],
           UNCHANGED <<up, file, map, op, waiting, overlapped>>
    PROVE  IInv'
  <1>1. client[c] \in ClientRecords /\ h \in Holders \ {"map", "request"}
    BY DEF IInv, States, Watchers, Holders
  <1> DEFINE k == WithoutHolder(client[c], h)
  <1>2. /\ k \in ClientRecords /\ k.holders = client[c].holders \ {h}
        /\ k.active => client[c].active
        /\ "map" \in k.holders => k.port = client[c].port
    BY <1>1, WithoutHolderType
  <1>3. client' = [client EXCEPT ![c] = k]
    OBVIOUS
  <1> HIDE DEF k
  <1>4. client[c].holders \notin {{}, {"request"}}
    BY <1>1
  <1>5. ("map" \in k.holders) = ("map" \in client[c].holders)
    BY <1>1, <1>2
  <1> QED
    BY <1>2, <1>3, <1>4, <1>5, Holding

-----------------------------------------------------------------------------
(* Adding *)

(* Between requests, who runs is in the file, unless a PUT waits. *)
LEMMA IdleKept ==
    ASSUME IInv, op = Idle, ~overlapped, waiting = None
    PROVE  \A n \in RunningNames : Record(n) \in file
  BY IdleType DEF IInv, Settled, RunningOK, Kept

(* A request that has taken the mutex and loaded the file. *)
LEMMA Locking ==
    ASSUME IInv, op = Idle, up, ~overlapped, UNCHANGED <<up, file, waiting>>,
           op'.kind \in {"add", "edit", "delete"}, overlapped' \in BOOLEAN,
           Remaps({}), OpOK', OpMapOK',
           \A c \in Clients : client'[c].active /\ Alive(c)' =>
               /\ client[c].active /\ Alive(c)
               /\ ("map" \in client'[c].holders) = ("map" \in client[c].holders),
           ~overlapped' => waiting = None /\ LoadedOK' /\ \A n \in RunningNames' : Record(n)' \in Kept'
    PROVE  IInv'
  <1>1. NoStrays'
    BY IdleType DEF IInv, NoStrays
  <1>2. DownOK'
    BY DEF DownOK
  <1>3. ~overlapped' => RunningOK' /\ StoppedOK'
    BY DEF RunningOK, StoppedOK
  <1> QED
    BY <1>1, <1>2, <1>3 DEF IInv, Settled, Remaps

(* A request that gives the mutex back. *)
LEMMA Unlocking ==
    ASSUME IInv, up, op.kind # "idle", op' = Idle, UNCHANGED <<up, waiting>>,
           overlapped' \in BOOLEAN, ~overlapped' => ~overlapped, file' \in Configs,
           NEW new, Remaps(new), NoStrays',
           ~overlapped' => \A n \in RunningNames' : Record(n)' \in file'
    PROVE  IInv'
  <1>1. /\ op' \in Ops /\ op'.kind = "idle" /\ op' = Idle
        /\ ~overlapped => waiting = None
    BY IdleType DEF IInv, Settled, LoadedOK
  <1>2. OpOK' /\ OpMapOK' /\ DownOK' /\ Kept' = file'
    BY <1>1 DEF OpOK, OpMapOK, DownOK, Kept
  <1>3. ~overlapped' => LoadedOK' /\ RunningOK' /\ StoppedOK'
    BY <1>1, <1>2 DEF LoadedOK, RunningOK, StoppedOK
  <1> QED
    BY <1>2, <1>3 DEF IInv, Settled, Remaps

(* While a request is under way and nothing overlaps it, who runs is kept. *)
LEMMA BusyKept ==
    ASSUME IInv, op.kind # "idle", ~(op.kind = "reload" /\ op.step = "stop"), ~overlapped
    PROVE  waiting = None /\ LoadedOK /\ \A n \in RunningNames : Record(n) \in Kept
  BY IdleType DEF IInv, Settled, LoadedOK, RunningOK

LEMMA AddLoadKeeps == ASSUME IInv, NEW a \in Accounts, AddLoad(a) PROVE IInv'
  <1>1. file \cup {a} \in SUBSET Accounts /\ map \in Maps /\ client \in States /\ MapOK
    BY DEF IInv, Configs
  <1>2. Lock("add", "create", None, a, file \cup {a}, None) /\ UNCHANGED <<map, client>>
        /\ ~Running(a.name)
    BY DEF AddLoad
  <1>3. /\ up /\ op = Idle /\ op.kind = "idle" /\ ~overlapped /\ file \cup {a} \in Configs
        /\ op' \in Ops /\ op'.kind = "add" /\ op'.step = "create" /\ op'.client = None
        /\ op'.account = a /\ op'.config = file \cup {a}
        /\ overlapped' \in BOOLEAN /\ (~overlapped' => waiting = None)
        /\ UNCHANGED <<up, file, waiting>>
    <2>1. "add" \in Kinds \ {"idle"} /\ "create" \in Steps /\ op \in Ops /\ overlapped \in BOOLEAN
      BY DEF Kinds, Steps, IInv, OpOK
    <2> QED
      BY <1>1, <1>2, <2>1, LockType
  <1>4. Remaps({})
    BY <1>1, <1>2, NothingMoves
  <1>5. OpOK'
    BY <1>3 DEF OpOK
  <1>6. OpMapOK'
    BY <1>2, <1>3 DEF OpMapOK, Running
  <1>7. (~overlapped' => LoadedOK') /\ Kept' = file
    BY <1>3 DEF LoadedOK, Kept
  <1>8. ~overlapped' => \A n \in RunningNames' : Record(n)' \in Kept'
    BY <1>2, <1>3, <1>7, IdleKept DEF RunningNames, Running, Record
  <1> QED
    BY <1>2, <1>3, <1>4, <1>5, <1>6, <1>7, <1>8, Locking DEF Alive

LEMMA AddCreateKeeps == ASSUME IInv, AddCreate PROVE IInv'
  <1>1. /\ map \in Maps /\ client \in States /\ MapOK /\ op \in Ops /\ op.kind = "add" /\ up
        /\ op.account \in Accounts /\ op.config \in Configs /\ map[op.account.name] = None
        /\ op.step = "create" /\ UNCHANGED <<up, file, map, waiting, overlapped>>
    BY DEF IInv, AddCreate, At, OpOK, OpMapOK
  <1>2. CASE CanBind(op.account)
    <2>1. /\ Unused # {} /\ client' = [client EXCEPT ![Fresh] = Created(op.account, {"request"})]
          /\ op' = [op EXCEPT !.step = "save", !.client = Fresh]
      BY <1>2 DEF AddCreate
    <2>2. /\ Fresh \in Clients /\ client[Fresh].holders = {}
          /\ \A n \in Names : map[n] # Fresh
      BY <1>1, <2>1, FreshIsUnused
    <2>3. /\ op' \in Ops /\ op'.kind = "add" /\ op'.step = "save" /\ op'.account = op.account
          /\ op'.config = op.config /\ op'.client = Fresh
      BY <1>1, <2>1, <2>2 DEF Ops, Steps
    <2>4. /\ client' \in States
          /\ client'[Fresh].holders = {"request"} /\ client'[Fresh].port = op.account.port
          /\ \A c \in Clients : c # Fresh => client'[c] = client[c]
      <3>1. {"request"} \in SUBSET Holders
        BY DEF Holders
      <3> QED
        BY <1>1, <2>1, <2>2, <3>1, CreatedType DEF States
    <2>5. Remaps({})
      <3>1. \A c \in Clients : ("map" \in client'[c].holders) = ("map" \in client[c].holders)
        BY <2>2, <2>4
      <3>2. \A c \in Clients : "map" \in client[c].holders => client'[c] = client[c]
        BY <2>2, <2>4
      <3> QED
        BY <1>1, <2>4, <3>1, <3>2, Stay
    <2>6. OpOK' /\ OpMapOK' /\ DownOK'
      BY <1>1, <2>2, <2>3, <2>4 DEF OpOK, OpMapOK, DownOK
    <2>7. NoStrays'
      <3> SUFFICES ASSUME ~overlapped, NEW c \in Clients, c # Fresh, client'[c].holders # {},
                          client'[c].active
                   PROVE  "map" \in client'[c].holders
        BY <1>1, <2>3 DEF NoStrays, Alive
      <3>1. "map" \in client[c].holders \/ op.client = c
        BY <1>1, <2>4 DEF IInv, NoStrays, Alive
      <3>2. op.client # c
        BY <1>1, NoneIsNoClient DEF IInv, OpMapOK
      <3> QED
        BY <2>4, <3>1, <3>2
    <2>8. LoadedOK => LoadedOK'
      BY <1>1, <2>3, IdleType DEF LoadedOK
    <2>9. Kept' = file /\ Kept = file
      BY <1>1, <2>3 DEF Kept
    <2>10. RunningOK => RunningOK'
      BY <1>1, <2>5, <2>9, StillKept DEF RunningOK
    <2>11. StoppedOK'
      BY <2>3 DEF StoppedOK
    <2> QED
      BY <1>1, <2>5, <2>6, <2>7, <2>8, <2>10, <2>11 DEF IInv, Settled, Remaps
  <1>3. CASE ~CanBind(op.account)
    <2>1. op' = Idle /\ client' = client
      BY <1>3 DEF AddCreate, Unlock
    <2>2. Remaps({})
      BY <1>1, <2>1, NothingMoves
    <2>3. NoStrays'
      <3> SUFFICES ASSUME ~overlapped, NEW c \in Clients, client[c].holders # {}, client[c].active
                   PROVE  "map" \in client[c].holders
        BY <1>1, <2>1 DEF NoStrays, Alive
      <3>1. op.client \notin Clients
        BY <1>1, NoneIsNoClient DEF IInv, OpMapOK
      <3> QED
        BY <3>1 DEF IInv, NoStrays, Alive
    <2>4. ~overlapped => \A n \in RunningNames' : Record(n)' \in file'
      <3>1. Kept = file
        BY <1>1 DEF Kept
      <3> QED
        BY <1>1, <2>1, <3>1, BusyKept DEF RunningNames, Running, Record
    <2> QED
      BY <1>1, <2>1, <2>2, <2>3, <2>4, Unlocking DEF IInv
  <1> QED
    BY <1>2, <1>3

LEMMA AddSaveKeeps == ASSUME IInv, AddSave PROVE IInv'
  <1>1. /\ map \in Maps /\ client \in States /\ MapOK /\ op \in Ops /\ op.kind = "add" /\ up
        /\ op.account \in Accounts /\ op.config \in Configs /\ map[op.account.name] = None
        /\ op.client \in Clients /\ client[op.client].holders = {"request"}
        /\ client[op.client].port = op.account.port
        /\ op.step = "save" /\ op' = Idle /\ UNCHANGED <<up, waiting, overlapped>>
    BY DEF IInv, AddSave, At, OpOK, OpMapOK, Unlock
  <1>2. Kept = file /\ (~overlapped => op.config = file \cup {op.account})
    BY <1>1, BusyKept DEF Kept, LoadedOK
  <1>3. CASE /\ file' = op.config
             /\ map' = [map EXCEPT ![op.account.name] = op.client]
             /\ client' = [client EXCEPT ![op.client].holders = {"map"} \cup Watchers]
    <2> DEFINE k == [client[op.client] EXCEPT !.holders = {"map"} \cup Watchers]
    <2>1. k \in ClientRecords /\ "map" \in k.holders /\ k.port = op.account.port
      BY <1>1 DEF States, ClientRecords, Holders, Watchers
    <2>2. client' = [client EXCEPT ![op.client] = k]
      BY <1>3
    <2> HIDE DEF k
    <2>3. /\ client' \in States /\ client'[op.client] = k
          /\ \A d \in Clients : d # op.client => client'[d] = client[d]
      BY <1>1, <2>1, <2>2 DEF States
    <2>4. /\ "map" \notin client[op.client].holders
          /\ "map" \in client'[op.client].holders /\ client'[op.client].port = op.account.port
          /\ \A d \in Clients : d # op.client =>
                \/ d = map[op.account.name] /\ "map" \notin client'[d].holders
                \/ d # map[op.account.name] /\ client'[d] = client[d]
      BY <1>1, <2>1, <2>3, NoneIsNoClient
    <2>5. Remaps({op.account})
      BY <1>1, <1>3, <2>3, <2>4, Put
    <2>6. NoStrays'
      BY <1>1, <2>1, <2>3 DEF IInv, NoStrays, Alive
    <2>7. ~overlapped => \A n \in RunningNames' : Record(n)' \in file'
      <3>1. Kept' = file'
        BY <1>1, IdleType DEF Kept
      <3> QED
        BY <1>1, <1>2, <1>3, <2>5, <3>1, BusyKept, StillKept
    <2> QED
      BY <1>1, <1>3, <2>5, <2>6, <2>7, Unlocking DEF IInv
  <1>4. CASE client' = [client EXCEPT ![op.client] = Unborn] /\ UNCHANGED <<file, map>>
    <2>1. /\ client' \in States /\ client'[op.client] = Unborn
          /\ \A d \in Clients : d # op.client => client'[d] = client[d]
      BY <1>1, <1>4, UnbornType DEF States
    <2>2. Remaps({})
      <3>1. \A c \in Clients : ("map" \in client'[c].holders) = ("map" \in client[c].holders)
        BY <1>1, <2>1, UnbornType
      <3>2. \A c \in Clients : "map" \in client[c].holders => client'[c] = client[c]
        BY <1>1, <2>1
      <3> QED
        BY <1>1, <1>4, <2>1, <3>1, <3>2, Stay
    <2>3. NoStrays'
      BY <1>1, <2>1, UnbornType DEF IInv, NoStrays, Alive
    <2>4. ~overlapped => \A n \in RunningNames' : Record(n)' \in file'
      <3>1. Kept' = file'
        BY <1>1, IdleType DEF Kept
      <3> QED
        BY <1>1, <1>2, <1>4, <2>2, <3>1, BusyKept, StillKept
    <2> QED
      BY <1>1, <1>4, <2>2, <2>3, <2>4, Unlocking DEF IInv
  <1> QED
    BY <1>3, <1>4 DEF AddSave

-----------------------------------------------------------------------------
(* Editing *)

(* A request that goes on to another step. *)
LEMMA Proceeding ==
    ASSUME IInv, up, UNCHANGED <<up, file, waiting, overlapped>>, OpOK', OpMapOK', NoStrays',
           op.kind # "idle", NEW new, Remaps(new),
           ~overlapped => /\ waiting = None => LoadedOK'
                          /\ StoppedOK'
                          /\ \/ op'.kind = "reload" /\ op'.step = "stop"
                             \/ \A n \in RunningNames' : Record(n)' \in Kept'
    PROVE  IInv'
  <1>1. ~overlapped => waiting = None
    BY IdleType DEF IInv, Settled, LoadedOK
  <1>2. DownOK'
    BY DEF DownOK
  <1>3. ~overlapped => RunningOK'
    BY DEF RunningOK
  <1> QED
    BY <1>1, <1>2, <1>3 DEF IInv, Settled, Remaps

LEMMA EditLoadKeeps == ASSUME IInv, NEW n \in Names, NEW a \in Accounts, EditLoad(n, a) PROVE IInv'
  <1>1. PICK old \in file :
           /\ old.name = n
           /\ Cardinality((file \ {old}) \cup {a}) = Cardinality(file)
           /\ IF Running(n)
              THEN /\ Lock("edit", "wait", old, a, (file \ {old}) \cup {a}, map[n])
                   /\ RemoveFromMap(n)
                   /\ client' = [client EXCEPT ![map[n]] = HandedOver(@)]
              ELSE /\ Lock("edit", "create", old, a, (file \ {old}) \cup {a}, None)
                   /\ UNCHANGED <<map, client>>
    BY DEF EditLoad
  <1> DEFINE config == (file \ {old}) \cup {a}
  <1>2. /\ file \in SUBSET Accounts /\ old \in Accounts /\ config \in SUBSET Accounts
        /\ map \in Maps /\ client \in States /\ MapOK /\ op \in Ops /\ overlapped \in BOOLEAN
        /\ "edit" \in Kinds \ {"idle"} /\ {"wait", "create"} \subseteq Steps
        /\ map[n] \in Clients \cup {None}
    BY DEF IInv, Configs, OpOK, Kinds, Steps, Maps
  <1>3. a \notin file \ {old}
    BY <1>1, <1>2, Replaced
  <1> DEFINE Loaded(step, c) ==
               /\ up /\ op = Idle /\ op.kind = "idle" /\ ~overlapped /\ config \in Configs
               /\ op' \in Ops /\ op'.kind = "edit" /\ op'.step = step /\ op'.old = old
               /\ op'.account = a /\ op'.config = config /\ op'.client = c
               /\ overlapped' \in BOOLEAN /\ (~overlapped' => waiting = None)
               /\ UNCHANGED <<up, file, waiting>>
  <1>4. ASSUME NEW step \in {"wait", "create"}, NEW c \in Clients \cup {None}, Loaded(step, c),
               Remaps({}), map'[n] = None,
               \A d \in Clients : client'[d].active /\ Alive(d)' =>
                   /\ client[d].active /\ Alive(d)
                   /\ ("map" \in client'[d].holders) = ("map" \in client[d].holders)
        PROVE  IInv'
    <2>1. OpOK' /\ OpMapOK'
      BY <1>1, <1>2, <1>4 DEF OpOK, OpMapOK
    <2>2. (~overlapped' => LoadedOK') /\ Kept' = file \ {old}
      BY <1>3, <1>4 DEF LoadedOK, Kept
    <2>3. ASSUME ~overlapped', NEW m \in Names, Running(m)' PROVE Record(m)' \in Kept'
      <3>1. Same(m)
        BY <1>4, <2>3 DEF Remaps
      <3>2. Record(m)' = Record(m) /\ Record(m) \in file
        BY <1>4, <2>3, <3>1, IdleKept DEF Same, RunningNames
      <3>3. m # n /\ Record(m).name = m
        BY <1>4, <2>3 DEF Running, Record
      <3> QED
        BY <1>1, <2>2, <3>2, <3>3
    <2>4. ~overlapped' => \A m \in RunningNames' : Record(m)' \in Kept'
      BY <2>3 DEF RunningNames, Running
    <2> HIDE DEF config
    <2> QED
      BY <1>4, <2>1, <2>2, <2>4, Locking
  <1>5. CASE Running(n)
    <2>1. Loaded("wait", map[n])
      <3>1. Lock("edit", "wait", old, a, config, map[n])
        BY <1>1, <1>5
      <3> HIDE DEF config
      <3> QED
        BY <1>2, <3>1, LockType
    <2>2. map[n] \in Clients
      BY <1>2, <1>5 DEF Running
    <2> DEFINE k == HandedOver(client[map[n]])
    <2>3. client' = [client EXCEPT ![map[n]] = k]
      BY <1>1, <1>5
    <2>4. Deactivated(client[map[n]]) \in ClientRecords /\ ~Deactivated(client[map[n]]).active
      BY <1>2, <2>2, DeactivatedType DEF States
    <2>5. k \in ClientRecords /\ "map" \notin k.holders /\ ~k.active
      BY <2>4 DEF HandedOver, ClientRecords, Holders
    <2> HIDE DEF k
    <2>6. /\ client' \in States /\ client'[map[n]] = k
          /\ \A d \in Clients : d # map[n] => client'[d] = client[d]
      BY <1>2, <2>2, <2>3, <2>5 DEF States
    <2>7. Remaps({}) /\ map'[n] = None
      BY <1>1, <1>2, <1>5, <2>5, <2>6, Take
    <2>8. \A d \in Clients : client'[d].active /\ Alive(d)' =>
                   /\ client[d].active /\ Alive(d)
                   /\ ("map" \in client'[d].holders) = ("map" \in client[d].holders)
      BY <2>5, <2>6 DEF Alive
    <2> HIDE DEF Loaded
    <2> QED
      BY <1>2, <1>4, <2>1, <2>7, <2>8
  <1>6. CASE ~Running(n)
    <2>1. Loaded("create", None) /\ UNCHANGED <<map, client>>
      <3>1. Lock("edit", "create", old, a, config, None) /\ UNCHANGED <<map, client>>
        BY <1>1, <1>6
      <3> HIDE DEF config
      <3> QED
        BY <1>2, <3>1, LockType
    <2>2. Remaps({}) /\ map'[n] = None
      BY <1>2, <1>6, <2>1, NothingMoves DEF Running
    <2>3. \A d \in Clients : client'[d].active /\ Alive(d)' =>
                   /\ client[d].active /\ Alive(d)
                   /\ ("map" \in client'[d].holders) = ("map" \in client[d].holders)
      BY <2>1 DEF Alive
    <2> HIDE DEF Loaded
    <2> QED
      BY <1>4, <2>1, <2>2, <2>3
  <1> QED
    BY <1>5, <1>6

LEMMA EditWaitKeeps == ASSUME IInv, EditWait PROVE IInv'
  <1>1. /\ map \in Maps /\ client \in States /\ MapOK /\ op \in Ops /\ op.kind = "edit" /\ up
        /\ op.step = "wait" /\ UNCHANGED <<up, file, map, waiting, overlapped>>
        /\ "create" \in Steps /\ "request" \in Holders \ {"map"}
    BY DEF IInv, EditWait, At, OpOK, Steps, Holders
  <1>2. /\ op' \in Ops /\ op'.kind = "edit" /\ op'.step = "create" /\ op'.old = op.old
        /\ op'.account = op.account /\ op'.config = op.config /\ op'.client = op.client
    BY <1>1, ProceedType DEF EditWait
  <1>3. /\ client' \in States
        /\ \A c \in Clients : /\ client'[c].holders \in {client[c].holders, client[c].holders \ {"request"}}
                              /\ client'[c].active => client[c].active
                              /\ "map" \in client[c].holders => client'[c].port = client[c].port
    <2>1. client' = [client EXCEPT ![op.client] = WithoutHolder(client[op.client], "request")]
      BY DEF EditWait
    <2>2. CASE op.client \in Clients
      <3> DEFINE k == WithoutHolder(client[op.client], "request")
      <3>1. /\ k \in ClientRecords /\ k.holders = client[op.client].holders \ {"request"}
            /\ k.active => client[op.client].active
            /\ "map" \in client[op.client].holders => k.port = client[op.client].port
        BY <1>1, <2>2, WithoutHolderType DEF States
      <3>2. client' = [client EXCEPT ![op.client] = k]
        BY <2>1
      <3> HIDE DEF k
      <3> QED
        BY <1>1, <2>2, <3>1, <3>2 DEF States
    <2>3. CASE op.client \notin Clients
      BY <1>1, <2>1, <2>3 DEF States
    <2> QED
      BY <2>2, <2>3
  <1>4. \A c \in Clients : ("map" \in client'[c].holders) = ("map" \in client[c].holders)
    BY <1>3
  <1>5. Remaps({})
    BY <1>1, <1>3, <1>4, Stay
  <1>6. OpOK' /\ OpMapOK'
    BY <1>1, <1>2 DEF IInv, OpOK, OpMapOK
  <1>7. NoStrays'
    BY <1>1, <1>2, <1>3 DEF IInv, NoStrays, Alive
  <1>8. ~overlapped => LoadedOK' /\ Kept' = Kept
    BY <1>1, <1>2, BusyKept DEF LoadedOK, Kept
  <1>9. ~overlapped => \A n \in RunningNames' : Record(n)' \in Kept'
    BY <1>1, <1>5, <1>8, BusyKept, StillKept
  <1>10. StoppedOK'
    BY <1>2 DEF StoppedOK
  <1> QED
    BY <1>1, <1>5, <1>6, <1>7, <1>8, <1>9, <1>10, Proceeding

(* While nothing overlaps an edit, no client runs for its new account. *)
LEMMA EditedIsFree ==
    ASSUME IInv, op.kind = "edit", op.step # "save", ~overlapped
    PROVE  ~Running(op.account.name)
  <1> SUFFICES ASSUME Running(op.account.name) PROVE FALSE
    OBVIOUS
  <1>1. /\ op.account \in Accounts /\ op.config \in Configs
        /\ op.account \notin file \ {op.old} /\ op.config = (file \ {op.old}) \cup {op.account}
        /\ Kept = file \ {op.old} /\ \A n \in RunningNames : Record(n) \in Kept
    BY BusyKept DEF IInv, OpOK, LoadedOK, Kept
  <1>2. Record(op.account.name) \in file \ {op.old}
    BY <1>1, AccountType DEF RunningNames
  <1>3. Distinct(op.config)
    BY <1>1, ValidIsDistinct DEF Configs
  <1>4. Record(op.account.name) = op.account
    BY <1>1, <1>2, <1>3 DEF Distinct, Record
  <1> QED
    BY <1>1, <1>2, <1>4

LEMMA EditCreateKeeps == ASSUME IInv, EditCreate PROVE IInv'
  <1>1. /\ map \in Maps /\ client \in States /\ MapOK /\ op \in Ops /\ op.kind = "edit" /\ up
        /\ op.account \in Accounts /\ op.config \in Configs
        /\ op.step = "create" /\ UNCHANGED <<up, file, waiting, overlapped>>
        /\ {"save", "restore"} \subseteq Steps /\ Watchers \in SUBSET Holders
    BY DEF IInv, EditCreate, At, OpOK, Steps, Watchers, Holders
  <1>2. Kept = file \ {op.old}
    BY <1>1 DEF Kept
  <1>3. CASE CanBind(op.account)
    <2>1. Unused # {} /\ Insert(op.account, Watchers) /\ Proceed("save")
      BY <1>3 DEF EditCreate
    <2>2. /\ op' \in Ops /\ op'.kind = "edit" /\ op'.step = "save" /\ op'.old = op.old
          /\ op'.account = op.account /\ op'.config = op.config
      BY <1>1, <2>1, ProceedType
    <2>3. /\ Remaps({op.account}) /\ Fresh \in Clients /\ "map" \in client'[Fresh].holders
          /\ ~Running(op.account.name) => \A c \in Clients : c # Fresh => client'[c] = client[c]
      BY <1>1, <2>1, Inserting
    <2>4. OpOK' /\ OpMapOK' /\ StoppedOK'
      BY <1>1, <2>2 DEF IInv, OpOK, OpMapOK, StoppedOK
    <2>5. NoStrays'
      BY <1>1, <2>2, <2>3, EditedIsFree DEF IInv, NoStrays, Alive
    <2>6. ~overlapped => LoadedOK' /\ Kept' = op.config /\ op.config = Kept \cup {op.account}
      BY <1>1, <1>2, <2>2, BusyKept DEF LoadedOK, Kept
    <2>7. ~overlapped => \A n \in RunningNames' : Record(n)' \in Kept'
      BY <1>1, <2>3, <2>6, BusyKept, StillKept
    <2> QED
      BY <1>1, <2>3, <2>4, <2>5, <2>6, <2>7, Proceeding
  <1>4. CASE ~CanBind(op.account)
    <2>1. Proceed("restore") /\ UNCHANGED <<map, client>>
      BY <1>4 DEF EditCreate
    <2>2. /\ op' \in Ops /\ op'.kind = "edit" /\ op'.step = "restore" /\ op'.old = op.old
          /\ op'.account = op.account /\ op'.config = op.config
      BY <1>1, <2>1, ProceedType
    <2>3. Remaps({})
      BY <1>1, <2>1, NothingMoves
    <2>4. OpOK' /\ OpMapOK' /\ StoppedOK'
      BY <1>1, <2>1, <2>2 DEF IInv, OpOK, OpMapOK, StoppedOK
    <2>5. NoStrays'
      BY <1>1, <2>1, <2>2 DEF IInv, NoStrays, Alive
    <2>6. ~overlapped => LoadedOK' /\ Kept' = Kept
      BY <1>1, <1>2, <2>2, BusyKept DEF LoadedOK, Kept
    <2>7. ~overlapped => \A n \in RunningNames' : Record(n)' \in Kept'
      BY <1>1, <2>3, <2>6, BusyKept, StillKept
    <2> QED
      BY <1>1, <2>3, <2>4, <2>5, <2>6, <2>7, Proceeding
  <1> QED
    BY <1>3, <1>4

LEMMA EditRestoreKeeps == ASSUME IInv, EditRestore PROVE IInv'
  <1>1. /\ map \in Maps /\ client \in States /\ MapOK /\ op \in Ops /\ op.kind = "edit" /\ up
        /\ op.old \in Accounts /\ ~Running(op.old.name)
        /\ op.step = "restore" /\ op' = Idle /\ UNCHANGED <<up, file, waiting, overlapped>>
        /\ Watchers \in SUBSET Holders
    BY DEF IInv, EditRestore, At, OpOK, OpMapOK, Running, Unlock, Watchers, Holders
  <1>2. Kept = file \ {op.old} /\ Kept' = file /\ (~overlapped => op.old \in file)
    BY <1>1, IdleType, BusyKept DEF Kept, LoadedOK
  <1>3. CASE CanBind(op.old)
    <2>1. Unused # {} /\ Insert(op.old, Watchers)
      BY <1>3 DEF EditRestore
    <2>2. /\ Remaps({op.old}) /\ Fresh \in Clients /\ "map" \in client'[Fresh].holders
          /\ \A c \in Clients : c # Fresh => client'[c] = client[c]
      BY <1>1, <2>1, Inserting
    <2>3. NoStrays'
      BY <1>1, <2>2 DEF IInv, NoStrays, Alive
    <2>4. ~overlapped => \A n \in RunningNames' : Record(n)' \in Kept'
      BY <1>1, <1>2, <2>2, BusyKept, StillKept
    <2> QED
      BY <1>1, <1>2, <2>2, <2>3, <2>4, Unlocking DEF IInv
  <1>4. CASE ~CanBind(op.old)
    <2>1. UNCHANGED <<map, client>>
      BY <1>4 DEF EditRestore
    <2>2. Remaps({})
      BY <1>1, <2>1, NothingMoves
    <2>3. NoStrays'
      BY <1>1, <2>1 DEF IInv, NoStrays, Alive
    <2>4. ~overlapped => \A n \in RunningNames' : Record(n)' \in Kept'
      BY <1>1, <1>2, <2>2, BusyKept, StillKept
    <2> QED
      BY <1>1, <1>2, <2>2, <2>3, <2>4, Unlocking DEF IInv
  <1> QED
    BY <1>3, <1>4

LEMMA EditSaveKeeps == ASSUME IInv, EditSave PROVE IInv'
  <1>1. /\ map \in Maps /\ client \in States /\ MapOK /\ op \in Ops /\ op.kind = "edit" /\ up
        /\ op.config \in Configs
        /\ op.step = "save" /\ op' = Idle /\ UNCHANGED <<up, map, client, waiting>>
        /\ \/ file' = op.config /\ overlapped' = overlapped
           \/ file' = file /\ overlapped' = TRUE
    BY DEF IInv, EditSave, At, OpOK, Unlock
  <1>2. Remaps({})
    BY <1>1, NothingMoves
  <1>3. NoStrays'
    BY <1>1 DEF IInv, NoStrays, Alive
  <1>4. ~overlapped' => \A n \in RunningNames' : Record(n)' \in file'
    <2>1. ~overlapped' => Kept = file' /\ Kept' = file'
      BY <1>1, IdleType DEF Kept
    <2> QED
      BY <1>1, <1>2, <2>1, BusyKept, StillKept
  <1>5. file' \in Configs
    BY <1>1 DEF IInv
  <1>6. overlapped' \in BOOLEAN /\ (~overlapped' => ~overlapped)
    <2>1. CASE overlapped' = overlapped
      BY <2>1 DEF IInv
    <2>2. CASE overlapped' = TRUE
      BY <2>2
    <2> QED
      BY <1>1, <2>1, <2>2
  <1> QED
    BY <1>1, <1>2, <1>3, <1>4, <1>5, <1>6, Unlocking

-----------------------------------------------------------------------------
(* Deleting *)

LEMMA DeleteLoadKeeps == ASSUME IInv, NEW n \in Names, DeleteLoad(n) PROVE IInv'
  <1> DEFINE config == {a \in file : a.name # n}
  <1>1. /\ config \in SUBSET Accounts /\ map \in Maps /\ client \in States /\ MapOK /\ op \in Ops
        /\ overlapped \in BOOLEAN /\ "delete" \in Kinds \ {"idle"} /\ "save" \in Steps
    BY DEF IInv, Configs, OpOK, Kinds, Steps
  <1>2. Lock("delete", "save", n, None, config, None) /\ UNCHANGED <<map, client>>
    BY DEF DeleteLoad
  <1>3. /\ up /\ op = Idle /\ op.kind = "idle" /\ ~overlapped /\ config \in Configs
        /\ op' \in Ops /\ op'.kind = "delete" /\ op'.step = "save" /\ op'.old = n
        /\ op'.config = config
        /\ overlapped' \in BOOLEAN /\ (~overlapped' => waiting = None)
        /\ UNCHANGED <<up, file, waiting>>
    <2> HIDE DEF config
    <2> QED
      BY <1>1, <1>2, LockType
  <1>4. Remaps({})
    BY <1>1, <1>2, NothingMoves
  <1>5. OpOK' /\ OpMapOK'
    BY <1>3 DEF OpOK, OpMapOK
  <1>6. (~overlapped' => LoadedOK') /\ Kept' = file
    BY <1>3 DEF LoadedOK, Kept
  <1>7. ~overlapped' => \A m \in RunningNames' : Record(m)' \in Kept'
    BY <1>2, <1>3, <1>6, IdleKept DEF RunningNames, Running, Record
  <1> HIDE DEF config
  <1> QED
    BY <1>2, <1>3, <1>4, <1>5, <1>6, <1>7, Locking DEF Alive

LEMMA DeleteSaveKeeps == ASSUME IInv, DeleteSave PROVE IInv'
  <1>1. /\ map \in Maps /\ client \in States /\ MapOK /\ op \in Ops /\ op.kind = "delete" /\ up
        /\ op.old \in Names /\ op.config \in Configs
        /\ op.step = "save" /\ op' = Idle /\ UNCHANGED <<up, waiting, overlapped>>
    BY DEF IInv, DeleteSave, At, OpOK, Unlock
  <1>2. Kept = file /\ Kept' = file'
    BY <1>1, IdleType DEF Kept
  <1>3. CASE UNCHANGED <<file, map, client>>
    <2>1. Remaps({})
      BY <1>1, <1>3, NothingMoves
    <2>2. NoStrays'
      BY <1>1, <1>3 DEF IInv, NoStrays, Alive
    <2>3. ~overlapped => \A n \in RunningNames' : Record(n)' \in file'
      BY <1>1, <1>2, <1>3, <2>1, BusyKept, StillKept
    <2> QED
      BY <1>1, <1>3, <2>1, <2>2, <2>3, Unlocking DEF IInv
  <1>4. ASSUME file' = op.config, Remaps({}), map'[op.old] = None, NoStrays'
        PROVE  IInv'
    <2>1. ASSUME ~overlapped, NEW n \in Names, Running(n)' PROVE Record(n)' \in file'
      <3>1. Same(n) /\ n # op.old
        BY <1>4, <2>1 DEF Remaps, Running
      <3>2. Record(n)' = Record(n) /\ Record(n) \in file /\ Record(n).name = n
        BY <1>1, <1>2, <2>1, <3>1, BusyKept DEF Same, RunningNames, Record
      <3>3. op.config = {a \in file : a.name # op.old}
        BY <1>1, <2>1, BusyKept DEF LoadedOK
      <3> QED
        BY <1>4, <3>1, <3>2, <3>3
    <2>2. ~overlapped => \A n \in RunningNames' : Record(n)' \in file'
      BY <2>1 DEF RunningNames, Running
    <2> QED
      BY <1>1, <1>4, <2>2, Unlocking DEF IInv
  <1>5. CASE file' = op.config /\ ~Running(op.old) /\ UNCHANGED <<map, client>>
    <2>1. Remaps({}) /\ map'[op.old] = None
      BY <1>1, <1>5, NothingMoves DEF Running
    <2>2. NoStrays'
      BY <1>1, <1>5 DEF IInv, NoStrays, Alive
    <2> QED
      BY <1>4, <1>5, <2>1, <2>2
  <1>6. CASE /\ file' = op.config /\ Running(op.old) /\ RemoveFromMap(op.old)
             /\ client' = [client EXCEPT ![map[op.old]] = WithoutHolder(Deactivated(@), "map")]
    <2> DEFINE c == map[op.old]
               k == WithoutHolder(Deactivated(client[c]), "map")
    <2>1. c \in Clients /\ Deactivated(client[c]) \in ClientRecords /\ ~Deactivated(client[c]).active
      BY <1>1, <1>6, DeactivatedType DEF Running, Maps, States
    <2>2. k \in ClientRecords /\ "map" \notin k.holders /\ ~k.active
      <3>1. "map" \in Holders
        BY DEF Holders
      <3> QED
        BY <2>1, <3>1, WithoutHolderType
    <2>3. client' = [client EXCEPT ![c] = k]
      BY <1>6
    <2> HIDE DEF c, k
    <2>4. /\ client' \in States /\ client'[c] = k
          /\ \A d \in Clients : d # c => client'[d] = client[d]
      BY <1>1, <2>1, <2>2, <2>3 DEF States
    <2>5. Remaps({}) /\ map'[op.old] = None
      BY <1>1, <1>6, <2>2, <2>4, Take DEF c
    <2>6. NoStrays'
      BY <1>1, <2>2, <2>4 DEF IInv, NoStrays, Alive
    <2> QED
      BY <1>4, <1>6, <2>5, <2>6
  <1> QED
    BY <1>3, <1>5, <1>6 DEF DeleteSave

-----------------------------------------------------------------------------
(* Reloading *)

LEMMA PutSaveKeeps == ASSUME IInv, NEW config \in Submitted, PutSave(config) PROVE IInv'
  <1>1. /\ map \in Maps /\ client \in States /\ MapOK /\ op \in Ops /\ up
        /\ config \in Configs /\ config # None /\ file' = config /\ waiting' = config /\ ~overlapped
        /\ overlapped' = (overlapped \/ op # Idle) /\ UNCHANGED <<up, map, client, op>>
    BY AccountAssumption DEF IInv, PutSave, OpOK, Configs
  <1>2. Remaps({})
    BY <1>1, NothingMoves
  <1>3. OpOK' /\ OpMapOK' /\ DownOK'
    BY <1>1 DEF IInv, OpOK, OpMapOK, DownOK
  <1>4. NoStrays'
    BY <1>1 DEF IInv, NoStrays, Alive
  <1>5. overlapped' \in BOOLEAN /\ (~overlapped' => op = Idle)
    BY <1>1
  <1>6. ~overlapped' => LoadedOK' /\ RunningOK' /\ StoppedOK'
    BY <1>1, <1>5, IdleType DEF LoadedOK, RunningOK, StoppedOK
  <1> QED
    BY <1>1, <1>2, <1>3, <1>4, <1>5, <1>6 DEF IInv, Settled, Remaps

LEMMA ReloadLockKeeps == ASSUME IInv, ReloadLock PROVE IInv'
  <1>1. /\ map \in Maps /\ client \in States /\ MapOK /\ up /\ op = Idle /\ waiting \in Configs
        /\ waiting' = None /\ UNCHANGED <<up, file, map, client, overlapped>>
        /\ RunningNames \in SUBSET Names /\ waiting \in SUBSET Accounts
    BY DEF IInv, ReloadLock, RunningNames, Configs
  <1>2. op' = [kind |-> "reload", step |-> "stop", old |-> None, account |-> None,
               config |-> waiting, todo |-> RunningNames, client |-> None]
    BY DEF ReloadLock, Idle
  <1>3. /\ op' \in Ops /\ op'.kind = "reload" /\ op'.step = "stop" /\ op'.config = waiting
        /\ op'.todo = RunningNames
    BY <1>1, <1>2 DEF Ops, Kinds, Steps
  <1>4. Remaps({})
    BY <1>1, NothingMoves
  <1>5. OpOK' /\ OpMapOK' /\ DownOK'
    BY <1>1, <1>3 DEF OpOK, OpMapOK, DownOK
  <1>6. NoStrays'
    BY <1>1, <1>3, IdleType DEF IInv, NoStrays, Alive
  <1>7. LoadedOK => LoadedOK'
    <2>1. waiting # None
      BY DEF ReloadLock
    <2> QED
      BY <1>1, <1>3, <2>1 DEF LoadedOK
  <1>8. RunningOK' /\ StoppedOK'
    BY <1>1, <1>3 DEF RunningOK, StoppedOK, RunningNames, Running
  <1> QED
    BY <1>1, <1>4, <1>5, <1>6, <1>7, <1>8 DEF IInv, Settled, Remaps

LEMMA ReloadStopKeeps == ASSUME IInv, NEW n \in Names, ReloadStop(n) PROVE IInv'
  <1>1. /\ map \in Maps /\ client \in States /\ MapOK /\ op \in Ops /\ op.kind = "reload" /\ up
        /\ op.step = "stop" /\ UNCHANGED <<up, file, map, waiting, overlapped>>
        /\ op.todo \ {n} \in (SUBSET Accounts) \cup (SUBSET Names)
        /\ op.config \in Configs
    BY DEF IInv, ReloadStop, At, OpOK, Ops
  <1>2. /\ op' \in Ops /\ op'.kind = "reload" /\ op'.step = "stop" /\ op'.config = op.config
        /\ op'.todo = op.todo \ {n}
    BY <1>1, TodoType DEF ReloadStop
  <1>3. /\ client' \in States
        /\ \A c \in Clients : /\ client'[c].holders = client[c].holders
                              /\ client'[c].port = client[c].port
                              /\ client'[c].active => client[c].active /\ c # map[n]
    <2> DEFINE k == Deactivated(client[map[n]])
    <2>1. client' = [client EXCEPT ![map[n]] = k]
      BY DEF ReloadStop
    <2>2. CASE map[n] \in Clients
      <3>1. /\ k \in ClientRecords /\ k.holders = client[map[n]].holders
            /\ k.port = client[map[n]].port /\ ~k.active
        BY <1>1, <2>2, DeactivatedType DEF States
      <3> HIDE DEF k
      <3> QED
        BY <1>1, <2>1, <2>2, <3>1 DEF States
    <2>3. CASE map[n] \notin Clients
      BY <1>1, <2>1, <2>3 DEF States
    <2> QED
      BY <2>2, <2>3
  <1>4. Remaps({})
    BY <1>1, <1>3, Stay
  <1>5. OpOK' /\ OpMapOK'
    BY <1>1, <1>2 DEF OpOK, OpMapOK
  <1>6. NoStrays'
    BY <1>1, <1>2, <1>3 DEF IInv, NoStrays, Alive
  <1>7. LoadedOK => (waiting = None => LoadedOK')
    BY <1>1, <1>2 DEF LoadedOK
  <1>8. StoppedOK => StoppedOK'
    <2>1. ASSUME StoppedOK, NEW m \in Names, Running(m)
          PROVE  m \in op.todo \ {n} \/ ~client'[map[m]].active
      <3>1. map[m] \in Clients /\ (m \in op.todo \/ ~client[map[m]].active)
        BY <1>1, <2>1 DEF Maps, Running, StoppedOK, RunningNames
      <3> QED
        BY <1>3, <3>1
    <2> QED
      BY <1>1, <1>2, <2>1 DEF StoppedOK, RunningNames, Running
  <1>9. op.kind # "idle"
    BY <1>1
  <1> QED
    BY <1>1, <1>2, <1>4, <1>5, <1>6, <1>7, <1>8, <1>9, Proceeding DEF IInv, Settled

LEMMA ReloadClearKeeps == ASSUME IInv, ReloadClear PROVE IInv'
  <1>1. /\ map \in Maps /\ client \in States /\ MapOK /\ op \in Ops /\ op.kind = "reload" /\ up
        /\ op.step = "stop" /\ op.todo = {} /\ UNCHANGED <<up, file, waiting, overlapped>>
        /\ op.config \in Configs /\ op.config \in SUBSET Accounts /\ map' = NoClients
    BY DEF IInv, ReloadClear, At, OpOK, Ops
  <1>2. /\ op' \in Ops /\ op'.kind = "reload" /\ op'.step = "create" /\ op'.config = op.config
        /\ op'.todo = op.config
    BY <1>1 DEF ReloadClear, Ops, Steps
  <1>3. \A c \in Clients : client'[c] = IF "map" \in client[c].holders
                                        THEN WithoutHolder(client[c], "map") ELSE client[c]
    BY DEF ReloadClear
  <1>4. ASSUME NEW c \in Clients
        PROVE  /\ client'[c] \in ClientRecords /\ client'[c].holders = client[c].holders \ {"map"}
               /\ client'[c].active => client[c].active
    <2>1. client[c] \in ClientRecords /\ "map" \in Holders
      BY <1>1 DEF States, Holders
    <2> QED
      BY <1>3, <2>1, WithoutHolderType
  <1>5. client' \in States
    <2>1. client' = [c \in Clients |-> client'[c]]
      BY DEF ReloadClear
    <2> QED
      BY <1>4, <2>1 DEF States
  <1>6. Remaps({}) /\ \A n \in Names : ~Running(n)'
    BY <1>1, <1>4, <1>5, Clear
  <1>7. OpOK' /\ OpMapOK' /\ StoppedOK'
    BY <1>1, <1>2 DEF OpOK, OpMapOK, StoppedOK
  <1>8. NoStrays'
    <2> SUFFICES ASSUME ~overlapped, NEW c \in Clients, client[c].active, client[c].holders # {}
                 PROVE  FALSE
      BY <1>1, <1>2, <1>4 DEF NoStrays, Alive
    <2>1. "map" \in client[c].holders
      BY <1>1 DEF IInv, NoStrays, Alive
    <2>2. PICK n \in Names : map[n] = c
      BY <1>1, <2>1 DEF MapOK
    <2>3. Running(n)
      BY <2>2, NoneIsNoClient DEF Running
    <2> QED
      BY <1>1, <2>2, <2>3 DEF IInv, Settled, StoppedOK, RunningNames
  <1>9. LoadedOK => (waiting = None => LoadedOK')
    BY <1>1, <1>2 DEF LoadedOK
  <1>10. \A n \in RunningNames' : Record(n)' \in Kept'
    BY <1>6 DEF RunningNames, Running
  <1>11. op.kind # "idle"
    BY <1>1
  <1> QED
    BY <1>1, <1>6, <1>7, <1>8, <1>9, <1>10, <1>11, Proceeding DEF IInv, Settled

(* Creating the accounts of a configuration one after the other. *)
LEMMA Creating ==
    ASSUME IInv, up, op.kind \in {"reload", "start"}, op.step = "create",
           NEW a \in op.todo, NEW holders \in SUBSET Holders,
           IF CanBind(a) THEN Unused # {} /\ Insert(a, holders) ELSE UNCHANGED <<map, client>>,
           UNCHANGED <<up, file, waiting, overlapped>>,
           \/ op' = Idle /\ op.todo = {a}
           \/ op' = [op EXCEPT !.todo = @ \ {a}],
           a \in Accounts
    PROVE  IInv'
  <1>1. /\ map \in Maps /\ client \in States /\ MapOK /\ op \in Ops /\ file \in Configs
        /\ op.todo \ {a} \in (SUBSET Accounts) \cup (SUBSET Names)
    BY DEF IInv, OpOK, Ops
  <1>2. ~overlapped => /\ Kept = file \ op.todo /\ op.config = file /\ op.todo \subseteq file
                       /\ \A n \in RunningNames : Record(n) \in Kept
    BY BusyKept DEF LoadedOK, Kept
  <1>3. ~overlapped => ~Running(a.name)
    <2> SUFFICES ASSUME ~overlapped, Running(a.name) PROVE FALSE
      OBVIOUS
    <2>1. Record(a.name) \in file \ op.todo
      BY <1>2, AccountType DEF RunningNames
    <2>2. Distinct(file)
      BY <1>1, ValidIsDistinct DEF Configs
    <2> QED
      BY <1>2, <2>1, <2>2 DEF Distinct, Record
  <1>4. PICK new \in {{}, {a}} :
           /\ Remaps(new)
           /\ ~overlapped => \A c \in Clients : client'[c] = client[c] \/ "map" \in client'[c].holders
    <2>1. CASE CanBind(a)
      <3>1. Unused # {} /\ Insert(a, holders)
        BY <2>1
      <3>2. Remaps({a}) /\ "map" \in client'[Fresh].holders
        BY <1>1, <3>1, Inserting
      <3>3. ~overlapped => \A c \in Clients : client'[c] = client[c] \/ "map" \in client'[c].holders
        BY <1>1, <1>3, <3>1, <3>2, Inserting
      <3> QED
        BY <3>2, <3>3
    <2>2. CASE ~CanBind(a)
      <3>1. map' = map /\ client' = client
        BY <2>2
      <3> QED
        BY <1>1, <3>1, NothingMoves
    <2> QED
      BY <2>1, <2>2
  <1>5. CASE op' = Idle /\ op.todo = {a}
    <2>1. NoStrays'
      BY <1>4 DEF IInv, NoStrays, Alive
    <2>2. Kept' = file
      BY <1>5, IdleType DEF Kept
    <2>3. ~overlapped => \A n \in RunningNames' : Record(n)' \in Kept'
      BY <1>2, <1>4, <2>2, StillKept
    <2> QED
      BY <1>1, <1>4, <1>5, <2>1, <2>2, <2>3, Unlocking DEF IInv
  <1>6. CASE op' = [op EXCEPT !.todo = @ \ {a}]
    <2>1. /\ op' \in Ops /\ op'.kind = op.kind /\ op'.step = op.step /\ op'.config = op.config
          /\ op'.todo = op.todo \ {a}
      BY <1>1, <1>6, TodoType
    <2>2. OpOK' /\ OpMapOK' /\ StoppedOK'
      BY <2>1 DEF IInv, OpOK, OpMapOK, StoppedOK
    <2>3. NoStrays'
      BY <1>4, <2>1 DEF IInv, NoStrays, Alive
    <2>4. ~overlapped => /\ waiting = None => LoadedOK'
                         /\ Kept' = file \ (op.todo \ {a})
      BY <1>2, <2>1 DEF LoadedOK, Kept
    <2>5. ~overlapped => \A n \in RunningNames' : Record(n)' \in Kept'
      BY <1>2, <1>4, <2>4, StillKept
    <2>6. op.kind # "idle"
      OBVIOUS
    <2> QED
      BY <1>4, <2>2, <2>3, <2>4, <2>5, <2>6, Proceeding
  <1> QED
    BY <1>5, <1>6

LEMMA ReloadCreateKeeps == ASSUME IInv, NEW a \in Accounts, ReloadCreate(a) PROVE IInv'
  <1> DEFINE holders == IF a.name \in AutoAnswer THEN Watchers ELSE {"registration"}
  <1>1. holders \in SUBSET Holders
    BY DEF Watchers, Holders
  <1>2. /\ up /\ op.kind = "reload" /\ op.step = "create" /\ a \in op.todo
        /\ IF CanBind(a) THEN Unused # {} /\ Insert(a, holders) ELSE UNCHANGED <<map, client>>
        /\ \/ op' = Idle /\ op.todo = {a}
           \/ op' = [op EXCEPT !.todo = @ \ {a}]
        /\ UNCHANGED <<up, file, waiting, overlapped>>
    BY DEF ReloadCreate, At
  <1> HIDE DEF holders
  <1> QED
    BY <1>1, <1>2, Creating

-----------------------------------------------------------------------------
(* Starting and stopping *)

LEMMA StartKeeps == ASSUME IInv, Start PROVE IInv'
  <1>1. /\ ~up /\ map = NoClients /\ (\A c \in Clients : client[c] = Unborn) /\ waiting = None
        /\ map \in Maps /\ client \in States /\ MapOK /\ file \in SUBSET Accounts
        /\ up' = TRUE /\ overlapped' = FALSE /\ UNCHANGED <<file, map, client, waiting>>
    BY DEF IInv, Start, DownOK, Configs
  <1>2. op' = [kind |-> "start", step |-> "create", old |-> None, account |-> None,
               config |-> file, todo |-> file, client |-> None]
    BY DEF Start, Idle
  <1>3. /\ op' \in Ops /\ op'.kind = "start" /\ op'.step = "create" /\ op'.config = file
        /\ op'.todo = file
    BY <1>1, <1>2 DEF Ops, Kinds, Steps
  <1>4. Remaps({})
    BY <1>1, NothingMoves
  <1>5. OpOK' /\ OpMapOK' /\ DownOK'
    BY <1>1, <1>3 DEF OpOK, OpMapOK, DownOK
  <1>6. NoStrays'
    BY <1>1, UnbornType DEF NoStrays, Alive
  <1>7. LoadedOK' /\ RunningOK' /\ StoppedOK'
    BY <1>1, <1>3 DEF LoadedOK, RunningOK, StoppedOK, RunningNames, Running, NoClients
  <1> QED
    BY <1>1, <1>4, <1>5, <1>6, <1>7 DEF IInv, Settled, Remaps

LEMMA StartCreateKeeps == ASSUME IInv, NEW a \in Accounts, StartCreate(a) PROVE IInv'
  <1>1. /\ up /\ op.kind = "start" /\ op.step = "create" /\ a \in op.todo
        /\ IF CanBind(a) THEN Unused # {} /\ Insert(a, {}) ELSE UNCHANGED <<map, client>>
        /\ op' = [op EXCEPT !.todo = @ \ {a}]
        /\ UNCHANGED <<up, file, waiting, overlapped>> /\ {} \in SUBSET Holders
    BY DEF StartCreate, At
  <1> QED
    BY <1>1, Creating

LEMMA StartRunKeeps == ASSUME IInv, StartRun PROVE IInv'
  <1>1. /\ map \in Maps /\ client \in States /\ MapOK /\ op.kind = "start" /\ up /\ op' = Idle
        /\ op.step = "create" /\ op.todo = {} /\ UNCHANGED <<up, file, map, waiting, overlapped>>
    BY DEF IInv, StartRun, At, Unlock
  <1>2. \A c \in Clients : client'[c] = IF Alive(c)
                    THEN [client[c] EXCEPT !.holders = @ \cup Watchers] ELSE client[c]
    BY DEF StartRun
  <1>3. ASSUME NEW c \in Clients
        PROVE  /\ client'[c] \in ClientRecords /\ client'[c].port = client[c].port
               /\ client'[c].active = client[c].active
               /\ ("map" \in client'[c].holders) = ("map" \in client[c].holders)
               /\ client'[c].holders # {} => client[c].holders # {}
    <2>1. client[c] \in ClientRecords /\ Watchers \subseteq Holders \ {"map"}
      BY <1>1 DEF States, Watchers, Holders
    <2>2. CASE Alive(c)
      <3> DEFINE k == [client[c] EXCEPT !.holders = @ \cup Watchers]
      <3>1. /\ k \in ClientRecords /\ k.port = client[c].port /\ k.active = client[c].active
            /\ k.holders = client[c].holders \cup Watchers
        BY <2>1 DEF ClientRecords
      <3>2. client'[c] = k /\ client[c].holders # {}
        BY <1>2, <2>2 DEF Alive
      <3> HIDE DEF k
      <3> QED
        BY <2>1, <3>1, <3>2
    <2>3. CASE ~Alive(c)
      BY <1>2, <2>1, <2>3
    <2> QED
      BY <2>2, <2>3
  <1>4. client' \in States
    <2>1. client' = [c \in Clients |-> client'[c]]
      BY DEF StartRun
    <2> QED
      BY <1>3, <2>1 DEF States
  <1>5. Remaps({})
    BY <1>1, <1>3, <1>4, Stay
  <1>6. NoStrays'
    BY <1>1, <1>3 DEF IInv, NoStrays, Alive
  <1>7. ~overlapped => \A n \in RunningNames' : Record(n)' \in file'
    <2>1. ~overlapped => Kept = file /\ Kept' = file'
      BY <1>1, IdleType, BusyKept DEF Kept, LoadedOK
    <2> QED
      BY <1>1, <1>5, <2>1, BusyKept, StillKept
  <1> QED
    BY <1>1, <1>5, <1>6, <1>7, Unlocking DEF IInv

LEMMA StopKeeps == ASSUME IInv, Stop PROVE IInv'
  <1>1. /\ up' = FALSE /\ map' = NoClients /\ client' = [c \in Clients |-> Unborn]
        /\ op' = Idle /\ waiting' = None /\ UNCHANGED <<file, overlapped>>
    BY DEF Stop
  <1>2. client' \in States /\ \A c \in Clients : client'[c] = Unborn
    BY <1>1, UnbornType DEF States
  <1>3. Remaps({}) /\ \A n \in Names : ~Running(n)'
    BY <1>1, <1>2, UnbornType, Clear
  <1>4. OpOK' /\ OpMapOK' /\ DownOK'
    BY <1>1, <1>2, IdleType DEF OpOK, OpMapOK, DownOK
  <1>5. NoStrays'
    BY <1>2, UnbornType DEF NoStrays, Alive
  <1>6. LoadedOK' /\ RunningOK' /\ StoppedOK'
    BY <1>1, <1>3, IdleType DEF LoadedOK, RunningOK, StoppedOK, RunningNames, Running
  <1> QED
    BY <1>1, <1>3, <1>4, <1>5, <1>6 DEF IInv, Settled, Remaps

-----------------------------------------------------------------------------
LEMMA InitIInv == Init => IInv
  <1> SUFFICES ASSUME Init PROVE IInv
    OBVIOUS
  <1>1. /\ ~up /\ up \in BOOLEAN /\ ~overlapped /\ overlapped \in BOOLEAN /\ file \in Configs
        /\ waiting = None /\ op = Idle /\ map \in Maps /\ client \in States
        /\ \A c \in Clients : client[c] = Unborn
        /\ \A n \in Names : map[n] = None
        /\ map = NoClients
    BY UnbornType DEF Init, NoClients, Maps, States
  <1>2. OpOK /\ OpMapOK /\ DownOK
    BY <1>1, IdleType DEF OpOK, OpMapOK, DownOK
  <1>3. MapOK /\ NoStrays
    BY <1>1, UnbornType DEF MapOK, NoStrays, Running, Alive
  <1>4. LoadedOK /\ RunningOK /\ StoppedOK
    BY <1>1, IdleType DEF LoadedOK, RunningOK, StoppedOK, RunningNames, Running
  <1> QED
    BY <1>1, <1>2, <1>3, <1>4 DEF IInv, Settled

LEMMA StepIInv == IInv /\ [Next]_vars => IInv'
  <1> SUFFICES ASSUME IInv, [Next]_vars PROVE IInv'
    OBVIOUS
  <1>1. CASE Start \/ Stop
    BY <1>1, StartKeeps, StopKeeps
  <1>2. ASSUME NEW a \in Accounts, AddLoad(a) \/ ReloadCreate(a) \/ StartCreate(a) PROVE IInv'
    BY <1>2, AddLoadKeeps, ReloadCreateKeeps, StartCreateKeeps
  <1>3. ASSUME NEW n \in Names, NEW a \in Accounts, EditLoad(n, a) PROVE IInv'
    BY <1>3, EditLoadKeeps
  <1>4. ASSUME NEW n \in Names, DeleteLoad(n) \/ ReloadStop(n) PROVE IInv'
    BY <1>4, DeleteLoadKeeps, ReloadStopKeeps
  <1>5. ASSUME NEW config \in Submitted, PutSave(config) PROVE IInv'
    BY <1>5, PutSaveKeeps
  <1>6. CASE ReloadLock \/ ReloadClear \/ StartRun
    BY <1>6, ReloadLockKeeps, ReloadClearKeeps, StartRunKeeps
  <1>7. CASE AddCreate \/ AddSave \/ EditWait \/ EditCreate \/ EditRestore \/ EditSave \/ DeleteSave
    BY <1>7, AddCreateKeeps, AddSaveKeeps, EditWaitKeeps, EditCreateKeeps, EditRestoreKeeps,
       EditSaveKeeps, DeleteSaveKeeps
  <1>8. ASSUME NEW c \in Clients, Borrow(c) PROVE IInv'
    BY <1>8, BorrowKeeps
  <1>9. ASSUME NEW c \in Clients, Return(c) PROVE IInv'
    BY <1>9, ReleaseKeeps DEF Return
  <1>10. ASSUME NEW c \in Clients, NEW w \in Watchers, WatcherExits(c, w) PROVE IInv'
    BY <1>10, ReleaseKeeps DEF WatcherExits
  <1>11. CASE UNCHANGED vars
    BY <1>11, NothingMoves DEF vars, IInv, OpOK, MapOK, DownOK, OpMapOK, NoStrays, Settled,
       LoadedOK, RunningOK, StoppedOK, Kept, Running, RunningNames, Record, Alive
  <1> QED
    BY <1>1, <1>2, <1>3, <1>4, <1>5, <1>6, <1>7, <1>8, <1>9, <1>10, <1>11 DEF Next, LockHolder

LEMMA Invariant == Spec => []IInv
  BY InitIInv, StepIInv, PTL DEF Spec

(* The configuration always loads; between two requests that no PUT ran     *)
(* into, what runs is what it says; and no client answers or registers for  *)
(* an account that the service does not know any more.                      *)
THEOREM AccountsAreConsistent == Spec => []Consistent
  <1>1. IInv => Consistent
    <2> SUFFICES ASSUME IInv PROVE Consistent
      OBVIOUS
    <2>1. TypeOK
      BY DEF IInv, TypeOK, Configs, Maps, States, ClientRecords, OpOK, Ops, Kinds, MapOK,
             RunningNames
    <2>2. FileLoads
      BY DEF IInv, FileLoads, Configs
    <2>3. RunningIsSaved
      BY IdleKept DEF RunningIsSaved, Record
    <2> QED
      BY <2>1, <2>2, <2>3 DEF IInv, Consistent
  <1> QED
    BY <1>1, Invariant, PTL
===============================================================================
