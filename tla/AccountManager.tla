---------------------------- MODULE AccountManager ----------------------------
(***************************************************************************)
(* Which accounts run: the service's map of clients                        *)
(* (src/service.rs, src/service/managed_client.rs), the configuration file *)
(* (src/config.rs), and the requests of the dashboard that change both     *)
(* while commands, watchers and session refreshers still hold the clients  *)
(* they replace (src/service/web_handlers/accounts.rs,                     *)
(* config_handlers.rs, src/service/commands_server.rs).                    *)
(*                                                                         *)
(* A client lives, and with it its SIP port stays bound, until the last    *)
(* Arc to it is dropped: `client[c].holders` is the set of those Arcs.     *)
(* `op` is the request that holds the mutex of the map; PUT /api/config    *)
(* writes the file without it and only then waits for it (`waiting`).      *)
(***************************************************************************)
EXTENDS Naturals, FiniteSets

CONSTANTS
    Accounts,     \* the accounts users may configure: a name and a UDP port
    AnyPort,      \* sip_port = 0: the system picks a free one
    Broken,       \* accounts no client can be created for: a port another
                  \* program holds, a server that does not resolve or answer
    Submitted,    \* the configurations PUT may bring
    AutoAnswer,   \* the accounts with auto_answer
    MaxClients,   \* bound: clients alive at once
    None

Names == {a.name : a \in Accounts}
Ports == {a.port : a \in Accounts} \cup {AnyPort}

ASSUME AccountAssumption ==
    /\ Accounts = {[name |-> a.name, port |-> a.port] : a \in Accounts}
    /\ IsFiniteSet(Accounts)
    /\ Broken \subseteq Accounts /\ Submitted \subseteq SUBSET Accounts
    /\ None \notin Names \cup Submitted
    /\ MaxClients \in Nat \ {0} /\ None \notin 1 .. MaxClients

VARIABLES
    up,          \* the service runs
    file,        \* the accounts of the configuration file
    map,         \* the client of each account that has one, behind a mutex
    client,      \* the clients alive
    op,          \* the request that holds the map's mutex
    waiting,     \* the configuration a PUT has saved and not yet reloaded
    overlapped   \* ghost: a PUT's save fell into another request, or vice
                 \* versa, or a save failed behind a client already replaced

vars == <<up, file, map, client, op, waiting, overlapped>>

Clients == 1 .. MaxClients
Holders == {"map", "request", "calls", "registration", "borrower"}
Unborn == [port |-> AnyPort, active |-> FALSE, holders |-> {}]
Idle == [kind |-> "idle", step |-> "load", old |-> None, account |-> None,
         config |-> {}, todo |-> {}, client |-> None]
NoClients == [n \in Names |-> None]

Running(n) == map[n] # None
RunningNames == {n \in Names : Running(n)}
Alive(c) == client[c].holders # {}
NamesIn(config) == {a.name : a \in config}

\* Config::validate: at least one account, no name twice.
Valid(config) == config # {} /\ Cardinality(NamesIn(config)) = Cardinality(config)
Configs == {config \in SUBSET Accounts : Valid(config)}

\* Everything has its type; what the map names is alive and knows it.
TypeOK ==
    /\ up \in BOOLEAN /\ overlapped \in BOOLEAN
    /\ file \subseteq Accounts
    /\ map \in [Names -> Clients \cup {None}]
    /\ client \in [Clients -> [port : Ports, active : BOOLEAN,
                               holders : SUBSET Holders]]
    /\ \A n \in RunningNames : "map" \in client[map[n]].holders
    /\ op.kind \in {"idle", "add", "edit", "delete", "reload", "start"}
    /\ waiting \in Configs \cup {None}

Init ==
    /\ up = FALSE
    /\ file \in Configs
    /\ map = NoClients
    /\ client = [c \in Clients |-> Unborn]
    /\ op = Idle
    /\ waiting = None
    /\ overlapped = FALSE

(***************************************************************************)
(* Clients: create_managed_client binds the account's port, which fails    *)
(* while anything alive still holds it; dropping the last Arc releases it. *)
(***************************************************************************)
CanBind(a) ==
    /\ a \notin Broken
    /\ a.port # AnyPort => \A c \in Clients : Alive(c) => client[c].port # a.port

Unused == {c \in Clients : ~Alive(c)}
Fresh == CHOOSE c \in Unused : TRUE

Created(a, holders) == [port |-> a.port, active |-> TRUE, holders |-> holders]
WithoutHolder(k, h) ==
    IF k.holders = {h} THEN Unborn ELSE [k EXCEPT !.holders = @ \ {h}]
\* Mutant: `active` stays true.
LeftActive(k) == k
Deactivated(k) == [k EXCEPT !.active = FALSE]

\* spawn_watchers_for_client hands an Arc to each of the two watchers.
Watchers == {"calls", "registration"}

\* HashMap::insert: a client already there under the name is dropped from it.
Insert(a, holders) ==
    /\ map' = [map EXCEPT ![a.name] = Fresh]
    /\ client' = [c \in Clients |->
                    CASE c = Fresh -> Created(a, {"map"} \cup holders)
                      [] Running(a.name) /\ map[a.name] = c -> WithoutHolder(client[c], "map")
                      [] OTHER -> client[c]]

RemoveFromMap(n) == map' = [map EXCEPT ![n] = None]

(***************************************************************************)
(* A request that changes accounts takes the mutex, loads the file and     *)
(* validates the result before it touches anything.                        *)
(***************************************************************************)
Lock(kind, step, old, a, config, c) ==
    /\ up /\ op = Idle
    /\ ~overlapped    \* bound: an overlap is followed to its end, not beyond
    /\ Valid(config)
    /\ op' = [Idle EXCEPT !.kind = kind, !.step = step, !.old = old,
                          !.account = a, !.config = config, !.client = c]
    /\ overlapped' = (overlapped \/ waiting # None)
    /\ UNCHANGED <<up, file, waiting>>

At(kind, step) == up /\ op.kind = kind /\ op.step = step
Unlock == op' = Idle
Proceed(step) == op' = [op EXCEPT !.step = step]

\* add_account
AddLoad(a) ==
    /\ ~Running(a.name) /\ a.name \notin NamesIn(file)
    /\ Lock("add", "create", None, a, file \cup {a}, None)
    /\ UNCHANGED <<map, client>>

AddCreate ==
    /\ At("add", "create")
    /\ IF CanBind(op.account)
       THEN /\ Unused # {}
            /\ client' = [client EXCEPT ![Fresh] = Created(op.account, {"request"})]
            /\ op' = [op EXCEPT !.step = "save", !.client = Fresh]
       ELSE Unlock /\ UNCHANGED client
    /\ UNCHANGED <<up, file, map, waiting, overlapped>>

AddSave ==
    /\ At("add", "save")
    /\ \/ /\ file' = op.config
          /\ map' = [map EXCEPT ![op.account.name] = op.client]
          /\ client' = [client EXCEPT ![op.client].holders = {"map"} \cup Watchers]
       \/ /\ client' = [client EXCEPT ![op.client] = Unborn]    \* the save fails
          /\ UNCHANGED <<file, map>>
    /\ Unlock
    /\ UNCHANGED <<up, waiting, overlapped>>

\* The map's Arc becomes the request's.
HandedOver(k) ==
    [Deactivated(k) EXCEPT !.holders = (@ \ {"map"}) \cup {"request"}]

\* edit_account stops the old client and waits, for a while, to be its last
\* holder; an account that does not run has nothing to wait for.
EditLoad(n, a) ==
    \E old \in file :
        /\ old.name = n
        /\ LET config == (file \ {old}) \cup {a}
           IN /\ Cardinality(config) = Cardinality(file)    \* no other account is a
              /\ IF Running(n)
                 THEN /\ Lock("edit", "wait", old, a, config, map[n])
                      /\ RemoveFromMap(n)
                      /\ client' = [client EXCEPT ![map[n]] = HandedOver(@)]
                 ELSE /\ Lock("edit", "create", old, a, config, None)
                      /\ UNCHANGED <<map, client>>

\* Mutant: no bound on the retries.
EditWaitForEver ==
    /\ At("edit", "wait")
    /\ client[op.client].holders = {"request"}
    /\ client' = [client EXCEPT ![op.client] = WithoutHolder(@, "request")]
    /\ Proceed("create")
    /\ UNCHANGED <<up, file, map, waiting, overlapped>>

EditWait ==
    /\ At("edit", "wait")
    /\ client' = [client EXCEPT ![op.client] = WithoutHolder(@, "request")]
    /\ Proceed("create")
    /\ UNCHANGED <<up, file, map, waiting, overlapped>>

EditCreate ==
    /\ At("edit", "create")
    /\ IF CanBind(op.account)
       THEN Unused # {} /\ Insert(op.account, Watchers) /\ Proceed("save")
       ELSE Proceed("restore") /\ UNCHANGED <<map, client>>
    /\ UNCHANGED <<up, file, waiting, overlapped>>

\* The previous account is put back, if its own port is free again by now.
EditRestore ==
    /\ At("edit", "restore")
    /\ IF CanBind(op.old)
       THEN Unused # {} /\ Insert(op.old, Watchers)
       ELSE UNCHANGED <<map, client>>
    /\ Unlock
    /\ UNCHANGED <<up, file, waiting, overlapped>>

\* The new client already runs when its account is written.
EditSave ==
    /\ At("edit", "save")
    /\ \/ file' = op.config /\ UNCHANGED overlapped
       \/ overlapped' = TRUE /\ UNCHANGED file
    /\ Unlock
    /\ UNCHANGED <<up, map, client, waiting>>

\* delete_account saves first, then drops the client without waiting for it.
DeleteLoad(n) ==
    /\ n \in NamesIn(file)
    /\ Lock("delete", "save", n, None, {a \in file : a.name # n}, None)
    /\ UNCHANGED <<map, client>>

DeleteSave ==
    /\ At("delete", "save")
    /\ \/ /\ file' = op.config
          /\ IF Running(op.old)
             THEN /\ client' = [client EXCEPT ![map[op.old]] =
                                    WithoutHolder(Deactivated(@), "map")]
                  /\ RemoveFromMap(op.old)
             ELSE UNCHANGED <<map, client>>
       \/ UNCHANGED <<file, map, client>>
    /\ Unlock
    /\ UNCHANGED <<up, waiting, overlapped>>

(***************************************************************************)
(* PUT /api/config saves before it asks for the mutex; reload_all_clients  *)
(* then stops every client, one after the other, drops them all and starts *)
(* the accounts of its own configuration, not of the file.  It does not    *)
(* wait for the old clients' other holders.                                *)
(***************************************************************************)
PutSave(config) ==
    /\ up /\ op.kind # "start"    \* the dashboard is not served yet
    /\ Valid(config)
    /\ waiting = None /\ ~overlapped    \* bound: one PUT at a time
    /\ file' = config
    /\ waiting' = config
    /\ overlapped' = (overlapped \/ op # Idle)
    /\ UNCHANGED <<up, map, client, op>>

ReloadLock ==
    /\ up /\ op = Idle /\ waiting # None
    /\ op' = [Idle EXCEPT !.kind = "reload", !.step = "stop",
                          !.config = waiting, !.todo = RunningNames]
    /\ waiting' = None
    /\ UNCHANGED <<up, file, map, client, overlapped>>

\* The client is deactivated; its REGISTER with Expires 0 may take a while.
ReloadStop(n) ==
    /\ At("reload", "stop") /\ n \in op.todo
    /\ client' = [client EXCEPT ![map[n]] = Deactivated(@)]
    /\ op' = [op EXCEPT !.todo = @ \ {n}]
    /\ UNCHANGED <<up, file, map, waiting, overlapped>>

ReloadClear ==
    /\ At("reload", "stop") /\ op.todo = {}
    /\ map' = NoClients
    /\ client' = [c \in Clients |-> IF "map" \in client[c].holders
                                    THEN WithoutHolder(client[c], "map") ELSE client[c]]
    /\ op' = [op EXCEPT !.step = "create", !.todo = op.config]
    /\ UNCHANGED <<up, file, waiting, overlapped>>

\* An account that cannot bind its port is left out.  The call watcher is
\* spawned for accounts that answer automatically only.
ReloadCreate(a) ==
    /\ At("reload", "create") /\ a \in op.todo
    /\ IF CanBind(a)
       THEN /\ Unused # {}
            /\ Insert(a, IF a.name \in AutoAnswer THEN Watchers ELSE {"registration"})
       ELSE UNCHANGED <<map, client>>
    /\ op' = IF op.todo = {a} THEN Idle ELSE [op EXCEPT !.todo = @ \ {a}]
    /\ UNCHANGED <<up, file, waiting, overlapped>>

(***************************************************************************)
(* Service::new creates the clients of the file, leaving out those that    *)
(* fail; run spawns their watchers before it serves anyone.  The process   *)
(* may end at any time, on "shutdown" or by a crash.                       *)
(***************************************************************************)
Start ==
    /\ ~up
    /\ up' = TRUE
    /\ op' = [Idle EXCEPT !.kind = "start", !.step = "create",
                          !.config = file, !.todo = file]
    /\ overlapped' = FALSE
    /\ UNCHANGED <<file, map, client, waiting>>

StartCreate(a) ==
    /\ At("start", "create") /\ a \in op.todo
    /\ IF CanBind(a) THEN Unused # {} /\ Insert(a, {}) ELSE UNCHANGED <<map, client>>
    /\ op' = [op EXCEPT !.todo = @ \ {a}]
    /\ UNCHANGED <<up, file, waiting, overlapped>>

StartRun ==
    /\ At("start", "create") /\ op.todo = {}
    /\ client' = [c \in Clients |-> IF Alive(c)
                    THEN [client[c] EXCEPT !.holders = @ \cup Watchers] ELSE client[c]]
    /\ Unlock
    /\ UNCHANGED <<up, file, map, waiting, overlapped>>

Stop ==
    /\ up
    /\ up' = FALSE
    /\ map' = NoClients
    /\ client' = [c \in Clients |-> Unborn]
    /\ op' = Idle
    /\ waiting' = None
    /\ UNCHANGED <<file, overlapped>>

(***************************************************************************)
(* The other holders.  A command clones the Arcs under the mutex and keeps *)
(* them until its answer is sent; a session refresher and the task of an   *)
(* IVR session keep one as long as they run.  Watchers look at `active`    *)
(* between two waits.                                                      *)
(***************************************************************************)
Borrow(c) ==
    /\ \/ op = Idle /\ "map" \in client[c].holders    \* a command
       \/ "calls" \in client[c].holders               \* what the call watcher spawns
    /\ \A d \in Clients : "borrower" \notin client[d].holders    \* bound: one at a time
    /\ client' = [client EXCEPT ![c].holders = @ \cup {"borrower"}]
    /\ UNCHANGED <<up, file, map, op, waiting, overlapped>>

Return(c) ==
    /\ "borrower" \in client[c].holders
    /\ client' = [client EXCEPT ![c] = WithoutHolder(@, "borrower")]
    /\ UNCHANGED <<up, file, map, op, waiting, overlapped>>

WatcherExits(c, w) ==
    /\ w \in client[c].holders /\ ~client[c].active
    /\ client' = [client EXCEPT ![c] = WithoutHolder(@, w)]
    /\ UNCHANGED <<up, file, map, op, waiting, overlapped>>

LockHolder ==
    \/ AddCreate \/ AddSave
    \/ EditWait \/ EditCreate \/ EditRestore \/ EditSave
    \/ DeleteSave
    \/ \E n \in Names : ReloadStop(n)
    \/ ReloadClear
    \/ \E a \in Accounts : ReloadCreate(a) \/ StartCreate(a)
    \/ StartRun

Next ==
    \/ Start \/ Stop
    \/ \E a \in Accounts : AddLoad(a)
    \/ \E n \in Names, a \in Accounts : EditLoad(n, a)
    \/ \E n \in Names : DeleteLoad(n)
    \/ \E config \in Submitted : PutSave(config)
    \/ ReloadLock
    \/ LockHolder
    \/ \E c \in Clients : Borrow(c) \/ Return(c)
    \/ \E c \in Clients, w \in Watchers : WatcherExits(c, w)

Spec == Init /\ [][Next]_vars

(***************************************************************************)
(* A request that holds the mutex goes on, and a watcher of a deactivated  *)
(* client looks at the flag again: none of their waits is unbounded.  A    *)
(* call, and the refresher or the session that lives with it, may last for *)
(* ever.                                                                   *)
(***************************************************************************)
FairSpec ==
    /\ Spec
    /\ WF_vars(LockHolder)
    /\ WF_vars(ReloadLock)
    /\ \A c \in Clients, w \in Watchers : WF_vars(WatcherExits(c, w))

-----------------------------------------------------------------------------
\* The file always loads at the next start: whatever the requests do, in
\* whatever order, it names at least one account and none twice.
FileLoads == Valid(file)

\* Between two requests, what runs is what the file says: the next start
\* brings back the same accounts, on the same ports.
RunningIsSaved ==
    up /\ op = Idle /\ waiting = None /\ ~overlapped =>
        \A n \in RunningNames : [name |-> n, port |-> client[map[n]].port] \in file

\* No client goes on answering and registering for an account the service no
\* longer knows: one that is active is in the map.
NoStrays ==
    ~overlapped => \A c \in Clients : Alive(c) /\ client[c].active =>
        \/ "map" \in client[c].holders
        \/ op.kind = "add" /\ op.client = c

\* What the file, the map and the clients say of the accounts goes together.
Consistent == TypeOK /\ FileLoads /\ RunningIsSaved /\ NoStrays

\* Every request gives the mutex of the map back, whoever else holds the
\* clients it waits for.
MutexIsReleased == op # Idle ~> op = Idle

\* A client that was deleted, edited away or reloaded lets go of its port,
\* unless a command, a refresher or an IVR session is still at work on it.
PortIsReleased ==
    \A c \in Clients :
        Alive(c) /\ ~client[c].active ~>
            ~Alive(c) \/ client[c].active \/ "borrower" \in client[c].holders

\* What a request or a client holds is given back.
Released == MutexIsReleased /\ PortIsReleased

\* After PUT /api/config has reloaded, every account of the new configuration
\* that can run does, with both of its watchers.
ReloadMatchesStartup ==
    [][op.kind = "reload" /\ op' = Idle /\ up' =>
        \A a \in op.config \ Broken :
            map'[a.name] # None /\ Watchers \subseteq client'[map'[a.name]].holders]_vars
=============================================================================
