---------------------------- MODULE LoginLimiter ----------------------------
(***************************************************************************)
(* The limit on dashboard logins (service/web_server.rs) as the handler of *)
(* /api/login uses it (web_handlers/auth.rs): a request asks whether its   *)
(* address may log in, compares the password, and records the outcome. The *)
(* table is locked for each of the two calls and not in between, so that   *)
(* requests of several threads overlap. Time is counted in steps.          *)
(***************************************************************************)
EXTENDS Naturals, FiniteSets, Functions

CONSTANTS Addresses,
          Requests,      \* the requests that are handled at a time
          MaxFailures,   \* LOGIN_MAX_FAILURES
          Lockout,       \* LOGIN_LOCKOUT
          MaxTracked,    \* LOGIN_MAX_TRACKED
          EndOfTime,     \* bounds the clock
          NoOne

ASSUME LoginAssumption ==
    /\ IsFiniteSet(Requests)
    /\ NoOne \notin Addresses
    /\ MaxFailures \in Nat \ {0} /\ Lockout \in Nat /\ MaxTracked \in Nat
    /\ EndOfTime \in Nat \ {0}

VARIABLES now,
          attempts,      \* of the tracked addresses: failures, locked_until
          comparing,     \* the address of each request that was let in
          locked,        \* until when an address has been locked, 0: it is not
          guesses,       \* its wrong ones since it logged in or served a lock
          forgotten      \* addresses whose guesses a full table has dropped

loginVars == <<now, attempts, comparing, locked, guesses, forgotten>>

LoginTypeOK ==
    /\ now \in 1 .. EndOfTime
    /\ DOMAIN attempts \subseteq Addresses
    /\ \A ip \in DOMAIN attempts : attempts[ip].until \in 0 .. EndOfTime + Lockout
    /\ comparing \in [Requests -> Addresses \cup {NoOne}]
    /\ guesses \in [Addresses -> Nat] /\ forgotten \subseteq Addresses

LoginInit ==
    /\ now = 1
    /\ attempts = <<>>
    /\ comparing = [r \in Requests |-> NoOne]
    /\ locked = [ip \in Addresses |-> 0]
    /\ guesses = [ip \in Addresses |-> 0] /\ forgotten = {}

Forget(ip) == Restrict(attempts, DOMAIN attempts \ {ip})

(* Addresses that logged in, or served a lock, start afresh. *)
Forgive(ips) ==
    /\ guesses' = [ip \in Addresses |-> IF ip \in ips THEN 0 ELSE guesses[ip]]
    /\ forgotten' = forgotten \ ips

(* allowed: not while locked; a lock that was served is forgotten. *)
Ask(r, ip) ==
    /\ comparing[r] = NoOne
    /\ IF ip \notin DOMAIN attempts \/ attempts[ip].until = 0
       THEN UNCHANGED <<attempts, guesses, forgotten>>
       ELSE now >= attempts[ip].until /\ attempts' = Forget(ip) /\ Forgive({ip})
    /\ comparing' = [comparing EXCEPT ![r] = ip]
    /\ UNCHANGED <<now, locked>>

(* record_success *)
Right(r) ==
    LET ip == comparing[r]
    IN  /\ ip # NoOne
        /\ attempts' = Forget(ip) /\ Forgive({ip})
        /\ locked' = [locked EXCEPT ![ip] = 0]
        /\ comparing' = [comparing EXCEPT ![r] = NoOne]
        /\ UNCHANGED now

(* Mutated: a full table starts afresh. *)
MakeRoomForAll(ip) ==
    IF Cardinality(DOMAIN attempts) >= MaxTracked /\ ip \notin DOMAIN attempts
    THEN {} ELSE DOMAIN attempts

(* A table that is full keeps, for a new address, only the locked ones. *)
MakeRoom(ip) ==
    IF Cardinality(DOMAIN attempts) >= MaxTracked /\ ip \notin DOMAIN attempts
    THEN {a \in DOMAIN attempts : attempts[a].until > now}
    ELSE DOMAIN attempts

(* What the limit should count, whatever the table does: one more guess of  *)
(* the address; a dropped lock that was served starts afresh; and a dropped *)
(* count of an address that is not locked is lost, no longer followed here. *)
Guess(ip) ==
    LET dropped == DOMAIN attempts \ DOMAIN attempts'
        lost == {a \in dropped : attempts[a].until = 0}
        served == {a \in dropped : attempts[a].until \in 1 .. now}
    IN  /\ guesses' = [a \in Addresses |->
                          IF a \in served THEN 0
                          ELSE IF a = ip /\ ip \notin forgotten THEN guesses[a] + 1
                          ELSE guesses[a]]
        /\ forgotten' = (forgotten \cup lost) \ served

(* record_failure *)
Wrong(r) ==
    LET ip == comparing[r]
        failures == IF ip \in DOMAIN attempts THEN attempts[ip].failures + 1 ELSE 1
        until == IF failures >= MaxFailures THEN now + Lockout ELSE 0
    IN  /\ ip # NoOne
        /\ attempts' = [a \in MakeRoom(ip) \cup {ip} |->
                           IF a = ip THEN [failures |-> failures, until |-> until]
                           ELSE attempts[a]]
        /\ Guess(ip)
        /\ locked' = [locked EXCEPT ![ip] = until]
        /\ comparing' = [comparing EXCEPT ![r] = NoOne]
        /\ UNCHANGED now

Tick ==
    /\ now < EndOfTime
    /\ now' = now + 1
    /\ UNCHANGED <<attempts, comparing, locked, guesses, forgotten>>

LoginNext ==
    \/ Tick
    \/ \E r \in Requests : Right(r) \/ Wrong(r) \/ \E ip \in Addresses : Ask(r, ip)

LoginSpec == LoginInit /\ [][LoginNext]_loginVars

-----------------------------------------------------------------------------
(* However requests overlap and the table fills up, a lock holds as long as *)
(* it was set for, unless a request let in before it logs in.               *)
LocksAreKept ==
    \A ip \in Addresses : now < locked[ip] =>
        ip \in DOMAIN attempts /\ attempts[ip].until = locked[ip]

(* An address never guesses further than the limit without a login or a     *)
(* lock that was served, but for the requests that were let in while the    *)
(* one that reached it was compared. The exception is record_failure's: a   *)
(* table full of addresses drops the counts of those that are not locked,   *)
(* and they have all their guesses again.                                   *)
GuessesAreLimited ==
    \A ip \in Addresses \ forgotten :
        guesses[ip] <= MaxFailures + Cardinality(Requests) - 1

(* Locks hold, and guesses are limited where the table did not forget them, *)
(* for every overlap of requests.                                           *)
LoginIsLimited == LoginTypeOK /\ LocksAreKept /\ GuessesAreLimited
=============================================================================
