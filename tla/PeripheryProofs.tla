--------------------------- MODULE PeripheryProofs ---------------------------
(***************************************************************************)
(* The parts around the calls keep their promises for any number of        *)
(* addresses and logins, threads and lines, keys and packets.              *)
(***************************************************************************)
EXTENDS Periphery, FiniteSetTheorems, SequenceTheorems, WellFoundedInduction, TLAPS

(***************************************************************************)
(* A buffer that keeps the end of a sequence.                              *)
(***************************************************************************)
IsEndOf(s, t) ==
    /\ s \in Seq(Nat) /\ t \in Seq(Nat)
    /\ Len(s) <= Len(t)
    /\ \A i \in 1 .. Len(s) : s[i] = t[Len(t) - Len(s) + i]

(* Both grow at the end, with or without room made at the front. *)
LEMMA EndGrows ==
    ASSUME NEW s, NEW t, NEW x \in Nat, IsEndOf(s, t)
    PROVE  /\ IsEndOf(Append(s, x), Append(t, x))
           /\ s # <<>> => IsEndOf(Append(Tail(s), x), Append(t, x))
  <1>1. s \in Seq(Nat) /\ t \in Seq(Nat) /\ Len(s) <= Len(t)
    BY DEF IsEndOf
  <1>2. PICK a \in Nat, b \in Nat : a = Len(s) /\ b = Len(t) /\ a <= b
    BY <1>1
  <1>3. /\ Append(t, x) \in Seq(Nat) /\ Len(Append(t, x)) = b + 1
        /\ \A i \in 1 .. b : Append(t, x)[i] = t[i]
        /\ Append(t, x)[b + 1] = x
    BY <1>1, <1>2, AppendProperties
  <1>4. \A i \in 1 .. a : s[i] = t[b - a + i]
    BY <1>2 DEF IsEndOf
  <1>5. ASSUME NEW r \in Seq(Nat), NEW n \in Nat, n <= a, Len(r) = n,
               \A i \in 1 .. n : r[i] = s[a - n + i]
        PROVE  IsEndOf(Append(r, x), Append(t, x))
    <2>0. n <= a /\ a <= b
      BY <1>2, <1>5
    <2>1. /\ Append(r, x) \in Seq(Nat) /\ Len(Append(r, x)) = n + 1
          /\ \A i \in 1 .. n : Append(r, x)[i] = r[i]
          /\ Append(r, x)[n + 1] = x
      BY <1>5, AppendProperties
    <2>2. ASSUME NEW i \in 1 .. n + 1
          PROVE  Append(r, x)[i] = Append(t, x)[(b + 1) - (n + 1) + i]
      <3>1. (b + 1) - (n + 1) + i = b - n + i
        OBVIOUS
      <3>2. CASE i = n + 1
        <4>1. b - n + i = b + 1
          BY <3>2
        <4> QED
          BY <3>1, <3>2, <4>1, <1>3, <2>1
      <3>3. CASE i \in 1 .. n
        <4>1. a - n + i \in 1 .. a /\ b - n + i \in 1 .. b /\ b - a + (a - n + i) = b - n + i
          BY <2>0, <3>3
        <4>2. s[a - n + i] = t[b - n + i]
          BY <4>1, <1>4
        <4>3. r[i] = s[a - n + i] /\ Append(r, x)[i] = r[i]
          BY <3>3, <1>5, <2>1
        <4>4. Append(t, x)[b - n + i] = t[b - n + i]
          BY <4>1, <1>3
        <4> QED
          BY <3>1, <4>2, <4>3, <4>4
      <3>4. i = n + 1 \/ i \in 1 .. n
        OBVIOUS
      <3> QED
        BY <3>2, <3>3, <3>4
    <2>3. n + 1 <= b + 1
      BY <2>0
    <2> QED
      BY <1>3, <2>1, <2>2, <2>3 DEF IsEndOf
  <1>6. IsEndOf(Append(s, x), Append(t, x))
    <2>1. \A i \in 1 .. a : a - a + i = i
      OBVIOUS
    <2>2. \A i \in 1 .. a : s[i] = s[a - a + i]
      BY <2>1
    <2>3. Len(s) = a /\ a <= a
      BY <1>2
    <2> QED
      BY <1>1, <1>5, <2>2, <2>3
  <1>7. ASSUME s # <<>> PROVE IsEndOf(Append(Tail(s), x), Append(t, x))
    <2>1. /\ Tail(s) \in Seq(Nat) /\ Len(Tail(s)) = a - 1 /\ a - 1 \in Nat
          /\ \A i \in 1 .. a - 1 : Tail(s)[i] = s[i + 1]
      BY <1>1, <1>2, <1>7, HeadTailProperties
    <2>2. \A i \in 1 .. a - 1 : Tail(s)[i] = s[a - (a - 1) + i]
      <3>1. \A i \in 1 .. a - 1 : a - (a - 1) + i = i + 1
        OBVIOUS
      <3> QED
        BY <2>1, <3>1
    <2>3. a - 1 <= a
      OBVIOUS
    <2> QED
      BY <1>5, <2>1, <2>2, <2>3
  <1> QED
    BY <1>6, <1>7

(* Such a buffer is what SubSeq cuts from the end. *)
LEMMA EndIsSubSeq ==
    ASSUME NEW s, NEW t, IsEndOf(s, t)
    PROVE  s = SubSeq(t, Len(t) - Len(s) + 1, Len(t))
  <1>1. s \in Seq(Nat) /\ t \in Seq(Nat) /\ Len(s) <= Len(t)
    BY DEF IsEndOf
  <1>2. PICK a \in Nat, b \in Nat : a = Len(s) /\ b = Len(t) /\ a <= b
    BY <1>1
  <1> DEFINE e == SubSeq(t, b - a + 1, b)
  <1>3. /\ e \in Seq(Nat) /\ Len(e) = a
        /\ \A i \in 1 .. a : e[i] = t[b - a + i]
    <2>1. \A i \in b - a + 1 .. b : t[i] \in Nat
      BY <1>1, <1>2
    <2>2. /\ b - a + 1 \in Int /\ b \in Int /\ b - (b - a + 1) + 1 = a
          /\ b - a + 1 <= b \/ a = 0
          /\ \A i \in 1 .. a : b - a + 1 + i - 1 = b - a + i
      BY <1>2
    <2>3. /\ e \in Seq(Nat)
          /\ Len(e) = IF b - a + 1 <= b THEN b - (b - a + 1) + 1 ELSE 0
          /\ \A i \in 1 .. b - (b - a + 1) + 1 : e[i] = t[b - a + 1 + i - 1]
      BY <2>1, <2>2, SubSeqProperties
    <2> QED
      BY <2>2, <2>3
  <1>4. \A i \in 1 .. a : s[i] = t[b - a + i]
    BY <1>2 DEF IsEndOf
  <1> HIDE DEF e
  <1>5. s = e
    BY <1>1, <1>2, <1>3, <1>4, SeqEqual
  <1> QED
    BY <1>2, <1>5 DEF e

(***************************************************************************)
(* The login limiter.                                                      *)
(***************************************************************************)

(* The requests of an address that were let in and are being compared. *)
Inside(ip) == {r \in Requests : comparing[r] = ip}

(* The table counts the guesses of the addresses it did not forget. *)
Counted ==
    \A ip \in Addresses \ forgotten :
        guesses[ip] = IF ip \in DOMAIN attempts THEN attempts[ip].failures ELSE 0

(* Each of them may still fail once; and an address that is not locked has  *)
(* not reached the limit. Together they bound what overlapping requests     *)
(* can get out of one address.                                              *)
LoginInv ==
    /\ LoginTypeOK
    /\ attempts \in [DOMAIN attempts -> [failures : Nat, until : Nat]]
    /\ locked \in [Addresses -> Nat]
    /\ LocksAreKept
    /\ \A ip \in DOMAIN attempts :
          /\ attempts[ip].until = 0 => attempts[ip].failures < MaxFailures
          /\ attempts[ip].failures + Cardinality(Inside(ip))
                <= MaxFailures + Cardinality(Requests) - 1
    /\ Counted

(* No address has more requests inside than there are. *)
LEMMA InsideBounded ==
    \A ip : IsFiniteSet(Inside(ip)) /\ Cardinality(Inside(ip)) \in 0 .. Cardinality(Requests)
  <1> USE LoginAssumption
  <1> TAKE ip
  <1>1. Inside(ip) \subseteq Requests
    BY DEF Inside
  <1>2. IsFiniteSet(Inside(ip)) /\ Cardinality(Inside(ip)) <= Cardinality(Requests)
    BY <1>1, FS_Subset
  <1> QED
    BY <1>2, FS_CardinalityType

(* A request that is let in joins those of its address, at most one more;   *)
(* one that is done leaves them.                                            *)
LEMMA InsideAfterAsk ==
    ASSUME LoginTypeOK, NEW r \in Requests, NEW ip \in Addresses, comparing[r] = NoOne,
           comparing' = [comparing EXCEPT ![r] = ip]
    PROVE  \A a \in Addresses \ {ip} : Inside(a)' = Inside(a)
  BY LoginAssumption DEF Inside, LoginTypeOK

(* The request leaves those of its address, and of no other. *)
LEMMA InsideAfterAnswer ==
    ASSUME LoginTypeOK, NEW r \in Requests, NEW ip, comparing[r] = ip, ip # NoOne,
           comparing' = [comparing EXCEPT ![r] = NoOne]
    PROVE  /\ \A a \in Addresses \ {ip} : Inside(a)' = Inside(a)
           /\ Cardinality(Inside(ip)') = Cardinality(Inside(ip)) - 1
  <1> USE LoginAssumption DEF LoginTypeOK
  <1>1. ip \in Addresses
    OBVIOUS
  <1>2. Inside(ip)' = Inside(ip) \ {r} /\ r \in Inside(ip)
    BY <1>1 DEF Inside
  <1>3. Cardinality(Inside(ip) \ {r}) = Cardinality(Inside(ip)) - 1
    BY <1>2, InsideBounded, FS_RemoveElement
  <1>4. \A a \in Addresses \ {ip} : Inside(a)' = Inside(a)
    BY <1>1 DEF Inside
  <1> QED
    BY <1>2, <1>3, <1>4

(* A lock that was served, or a login that succeeded, leaves the others as   *)
(* they were.                                                               *)
LEMMA ForgottenIsOne ==
    ASSUME LoginInv, NEW ip \in Addresses, attempts' = Forget(ip)
    PROVE  /\ DOMAIN attempts' = DOMAIN attempts \ {ip}
           /\ \A a \in DOMAIN attempts' : attempts'[a] = attempts[a]
           /\ attempts' \in [DOMAIN attempts' -> [failures : Nat, until : Nat]]
  BY DEF LoginInv, Forget, Restrict

(* It starts its count again. *)
LEMMA ForgivenIsOne ==
    ASSUME LoginInv, NEW ip \in Addresses, attempts' = Forget(ip), Forgive({ip})
    PROVE  guesses' \in [Addresses -> Nat] /\ forgotten' \subseteq Addresses /\ Counted'
  <1>1. /\ guesses' = [a \in Addresses |-> IF a \in {ip} THEN 0 ELSE guesses[a]]
        /\ forgotten' = forgotten \ {ip}
    BY DEF Forgive
  <1>2. guesses \in [Addresses -> Nat] /\ forgotten \subseteq Addresses
    BY DEF LoginInv, LoginTypeOK
  <1>3. /\ DOMAIN attempts' = DOMAIN attempts \ {ip}
        /\ \A a \in DOMAIN attempts' : attempts'[a] = attempts[a]
    BY ForgottenIsOne
  <1>4. Counted'
    <2> SUFFICES ASSUME NEW a \in Addresses, a \notin forgotten'
                 PROVE  guesses'[a] = IF a \in DOMAIN attempts' THEN attempts'[a].failures ELSE 0
      BY DEF Counted
    <2>1. CASE a = ip
      BY <2>1, <1>1, <1>3
    <2>2. CASE a # ip
      <3>1. guesses'[a] = guesses[a] /\ a \notin forgotten
        BY <2>2, <1>1
      <3>2. guesses[a] = IF a \in DOMAIN attempts THEN attempts[a].failures ELSE 0
        BY <3>1 DEF LoginInv, Counted
      <3> QED
        BY <2>2, <3>1, <3>2, <1>3
    <2> QED
      BY <2>1, <2>2
  <1> QED
    BY <1>1, <1>2, <1>4

(* A guess is counted by the table as well, unless it forgot the address. *)
LEMMA GuessCounted ==
    ASSUME LoginInv, NEW ip \in Addresses, Guess(ip),
           ip \in DOMAIN attempts', DOMAIN attempts' \ {ip} \subseteq DOMAIN attempts,
           attempts'[ip].failures = IF ip \in DOMAIN attempts THEN attempts[ip].failures + 1 ELSE 1,
           \A a \in DOMAIN attempts' \ {ip} : attempts'[a] = attempts[a],
           \A a \in DOMAIN attempts \ DOMAIN attempts' : attempts[a].until <= now
    PROVE  guesses' \in [Addresses -> Nat] /\ forgotten' \subseteq Addresses /\ Counted'
  <1> DEFINE dropped == DOMAIN attempts \ DOMAIN attempts'
             lost == {a \in dropped : attempts[a].until = 0}
             served == {a \in dropped : attempts[a].until \in 1 .. now}
  <1>1. /\ guesses' = [a \in Addresses |->
                         IF a \in served THEN 0
                         ELSE IF a = ip /\ ip \notin forgotten THEN guesses[a] + 1
                         ELSE guesses[a]]
        /\ forgotten' = (forgotten \cup lost) \ served
    BY DEF Guess
  <1>2. /\ guesses \in [Addresses -> Nat] /\ forgotten \subseteq Addresses
        /\ DOMAIN attempts \subseteq Addresses /\ now \in Nat
        /\ \A a \in DOMAIN attempts : attempts[a].until \in Nat
    BY DEF LoginInv, LoginTypeOK
  <1>3. /\ ip \notin dropped
        /\ \A a \in dropped : a \in lost \cup served
    BY <1>2
  <1>4. Counted'
    <2> SUFFICES ASSUME NEW a \in Addresses, a \notin forgotten'
                 PROVE  guesses'[a] = IF a \in DOMAIN attempts' THEN attempts'[a].failures ELSE 0
      BY DEF Counted
    <2>1. CASE a \in dropped
      <3>1. a \in served
        BY <2>1, <1>1, <1>3
      <3>2. guesses'[a] = 0
        BY <3>1, <1>1
      <3> QED
        BY <2>1, <3>2
    <2>2. CASE a \notin dropped
      <3>1. a \notin forgotten /\ a \notin served
        BY <2>2, <1>1
      <3>2. guesses[a] = IF a \in DOMAIN attempts THEN attempts[a].failures ELSE 0
        BY <3>1 DEF LoginInv, Counted
      <3>3. guesses'[a] = IF a = ip THEN guesses[a] + 1 ELSE guesses[a]
        BY <3>1, <1>1
      <3> HIDE DEF dropped, lost, served
      <3>4. CASE a = ip
        BY <3>2, <3>3, <3>4
      <3>5. CASE a # ip
        <4>1. a \in DOMAIN attempts <=> a \in DOMAIN attempts'
          BY <2>2, <3>5 DEF dropped
        <4> QED
          BY <3>2, <3>3, <3>5, <4>1
      <3> QED
        BY <3>4, <3>5
    <2> QED
      BY <2>1, <2>2
  <1>5. guesses' \in [Addresses -> Nat]
    BY <1>1, <1>2
  <1> QED
    BY <1>1, <1>2, <1>4, <1>5

(* The limit is kept by each step of the check. *)
LEMMA LoginStep == LoginInv /\ [LoginNext]_loginVars => LoginInv'
  <1> SUFFICES ASSUME LoginInv, [LoginNext]_loginVars PROVE LoginInv'
    OBVIOUS
  <1> USE LoginAssumption
  <1>r. Cardinality(Requests) \in Nat
    BY FS_CardinalityType
  <1>0. CASE UNCHANGED loginVars
    BY <1>0 DEF LoginInv, LoginTypeOK, LocksAreKept, Inside, Counted, loginVars
  <1>1. CASE Tick
    <2>1. \A ip : Inside(ip)' = Inside(ip)
      BY <1>1 DEF Tick, Inside
    <2> QED
      BY <1>1, <2>1 DEF Tick, LoginInv, LoginTypeOK, LocksAreKept, Counted
  <1>2. ASSUME NEW r \in Requests, NEW ip \in Addresses, Ask(r, ip) PROVE LoginInv'
    <2>1. /\ comparing[r] = NoOne /\ comparing' = [comparing EXCEPT ![r] = ip]
          /\ UNCHANGED <<now, locked>>
      BY <1>2 DEF Ask
    <2>2. \A a \in Addresses \ {ip} : Inside(a)' = Inside(a)
      BY <2>1, InsideAfterAsk DEF LoginInv
    <2>3. comparing' \in [Requests -> Addresses \cup {NoOne}]
      BY <2>1 DEF LoginInv, LoginTypeOK
    <2>4. Cardinality(Inside(ip)') \in 0 .. Cardinality(Requests)
      <3>1. Inside(ip)' \subseteq Requests
        BY DEF Inside
      <3> QED
        BY <3>1, <1>r, FS_Subset, FS_CardinalityType
    <2>5. CASE ip \notin DOMAIN attempts \/ attempts[ip].until = 0
      <3>1. UNCHANGED <<attempts, guesses, forgotten>>
        BY <1>2, <2>5 DEF Ask
      <3>2. ASSUME NEW a \in DOMAIN attempts
            PROVE  attempts[a].failures + Cardinality(Inside(a)')
                      <= MaxFailures + Cardinality(Requests) - 1
        <4>1. CASE a = ip
          BY <4>1, <2>4, <2>5, <1>r DEF LoginInv
        <4>2. CASE a # ip
          BY <4>2, <2>2 DEF LoginInv, LoginTypeOK
        <4> QED
          BY <4>1, <4>2
      <3> QED
        BY <2>1, <2>3, <3>1, <3>2 DEF LoginInv, LoginTypeOK, LocksAreKept, Counted
    <2>6. CASE ip \in DOMAIN attempts /\ attempts[ip].until # 0
      <3>1. now >= attempts[ip].until /\ attempts' = Forget(ip) /\ Forgive({ip})
        BY <1>2, <2>6 DEF Ask
      <3>2. ~ now < locked[ip]
        BY <2>6, <3>1 DEF LoginInv, LoginTypeOK, LocksAreKept
      <3>3. /\ DOMAIN attempts' = DOMAIN attempts \ {ip}
            /\ \A a \in DOMAIN attempts' : attempts'[a] = attempts[a]
            /\ attempts' \in [DOMAIN attempts' -> [failures : Nat, until : Nat]]
        BY <3>1, ForgottenIsOne
      <3>4. LocksAreKept'
        BY <2>1, <3>2, <3>3 DEF LoginInv, LocksAreKept
      <3>7. guesses' \in [Addresses -> Nat] /\ forgotten' \subseteq Addresses /\ Counted'
        BY <3>1, ForgivenIsOne
      <3>5. LoginTypeOK'
        BY <2>1, <2>3, <3>3, <3>7 DEF LoginInv, LoginTypeOK
      <3>6. \A a \in DOMAIN attempts' :
               /\ attempts'[a].until = 0 => attempts'[a].failures < MaxFailures
               /\ attempts'[a].failures + Cardinality(Inside(a)')
                     <= MaxFailures + Cardinality(Requests) - 1
        BY <2>2, <3>3 DEF LoginInv, LoginTypeOK
      <3> QED
        BY <2>1, <3>3, <3>4, <3>5, <3>6, <3>7 DEF LoginInv
    <2> QED
      BY <2>5, <2>6
  <1>3. ASSUME NEW r \in Requests, Right(r) PROVE LoginInv'
    <2> PICK ip : ip = comparing[r]
      OBVIOUS
    <2>1. /\ ip # NoOne /\ attempts' = Forget(ip) /\ Forgive({ip})
          /\ locked' = [locked EXCEPT ![ip] = 0]
          /\ comparing' = [comparing EXCEPT ![r] = NoOne] /\ now' = now
      BY <1>3 DEF Right
    <2>2. ip \in Addresses
      BY <2>1 DEF LoginInv, LoginTypeOK
    <2>3. \A a \in Addresses \ {ip} : Inside(a)' = Inside(a)
      BY <2>1, <2>2, InsideAfterAnswer DEF LoginInv
    <2>4. /\ DOMAIN attempts' = DOMAIN attempts \ {ip}
          /\ \A a \in DOMAIN attempts' : attempts'[a] = attempts[a]
          /\ attempts' \in [DOMAIN attempts' -> [failures : Nat, until : Nat]]
      BY <2>1, <2>2, ForgottenIsOne
    <2>5. LocksAreKept'
      BY <2>1, <2>2, <2>4 DEF LoginInv, LoginTypeOK, LocksAreKept
    <2>8. guesses' \in [Addresses -> Nat] /\ forgotten' \subseteq Addresses /\ Counted'
      BY <2>1, <2>2, ForgivenIsOne
    <2>6. LoginTypeOK'
      BY <2>1, <2>4, <2>8 DEF LoginInv, LoginTypeOK
    <2>7. \A a \in DOMAIN attempts' :
             /\ attempts'[a].until = 0 => attempts'[a].failures < MaxFailures
             /\ attempts'[a].failures + Cardinality(Inside(a)')
                   <= MaxFailures + Cardinality(Requests) - 1
      BY <2>3, <2>4 DEF LoginInv, LoginTypeOK
    <2> QED
      BY <2>1, <2>4, <2>5, <2>6, <2>7, <2>8 DEF LoginInv
  <1>4. ASSUME NEW r \in Requests, Wrong(r) PROVE LoginInv'
    <2> PICK ip : ip = comparing[r]
      OBVIOUS
    <2> DEFINE failures == IF ip \in DOMAIN attempts THEN attempts[ip].failures + 1 ELSE 1
               until == IF failures >= MaxFailures THEN now + Lockout ELSE 0
    <2>1. /\ ip # NoOne
          /\ attempts' = [a \in MakeRoom(ip) \cup {ip} |->
                             IF a = ip THEN [failures |-> failures, until |-> until]
                             ELSE attempts[a]]
          /\ Guess(ip)
          /\ locked' = [locked EXCEPT ![ip] = until]
          /\ comparing' = [comparing EXCEPT ![r] = NoOne] /\ now' = now
      BY <1>4 DEF Wrong
    <2>2. ip \in Addresses
      BY <2>1 DEF LoginInv, LoginTypeOK
    <2>3. /\ failures \in Nat /\ until \in Nat /\ until \in 0 .. EndOfTime + Lockout
          /\ until = 0 => failures < MaxFailures
      BY <2>2 DEF LoginInv, LoginTypeOK
    <2>4. /\ \A a \in Addresses \ {ip} : Inside(a)' = Inside(a)
          /\ Cardinality(Inside(ip)') = Cardinality(Inside(ip)) - 1
      BY <2>1, InsideAfterAnswer DEF LoginInv
    <2>5. Cardinality(Inside(ip)) \in 0 .. Cardinality(Requests)
      BY InsideBounded
    <2>6. failures + Cardinality(Inside(ip)') <= MaxFailures + Cardinality(Requests) - 1
      <3>1. CASE ip \in DOMAIN attempts
        BY <3>1, <2>4, <2>5, <1>r DEF LoginInv
      <3>2. CASE ip \notin DOMAIN attempts
        BY <3>2, <2>4, <2>5, <1>r
      <3> QED
        BY <3>1, <3>2
    <2>7. /\ MakeRoom(ip) \subseteq DOMAIN attempts
          /\ \A a \in DOMAIN attempts : attempts[a].until > now => a \in MakeRoom(ip)
      BY DEF MakeRoom
    <2> HIDE DEF failures, until
    <2>8. /\ DOMAIN attempts' = MakeRoom(ip) \cup {ip}
          /\ attempts'[ip] = [failures |-> failures, until |-> until]
          /\ \A a \in MakeRoom(ip) \ {ip} : attempts'[a] = attempts[a]
      BY <2>1
    <2>9. attempts' \in [DOMAIN attempts' -> [failures : Nat, until : Nat]]
      BY <2>1, <2>3, <2>7 DEF LoginInv
    <2>10. LocksAreKept'
      <3> SUFFICES ASSUME NEW a \in Addresses, now < locked'[a]
                   PROVE  a \in DOMAIN attempts' /\ attempts'[a].until = locked'[a]
        BY <2>1 DEF LocksAreKept
      <3>1. CASE a = ip
        BY <3>1, <2>1, <2>2, <2>8 DEF LoginInv
      <3>2. CASE a # ip
        <4>1. locked'[a] = locked[a]
          BY <3>2, <2>1 DEF LoginInv
        <4>2. a \in DOMAIN attempts /\ attempts[a].until = locked[a]
          BY <4>1 DEF LoginInv, LocksAreKept
        <4>3. attempts[a].until > now
          BY <4>1, <4>2 DEF LoginInv, LoginTypeOK
        <4> QED
          BY <3>2, <4>1, <4>2, <4>3, <2>7, <2>8
      <3> QED
        BY <3>1, <3>2
    <2>14. guesses' \in [Addresses -> Nat] /\ forgotten' \subseteq Addresses /\ Counted'
      <3>1. attempts'[ip].failures = IF ip \in DOMAIN attempts THEN attempts[ip].failures + 1 ELSE 1
        BY <2>8 DEF failures
      <3>2. \A a \in DOMAIN attempts' \ {ip} : a \in DOMAIN attempts /\ attempts'[a] = attempts[a]
        BY <2>7, <2>8
      <3>3. \A a \in DOMAIN attempts \ DOMAIN attempts' : attempts[a].until <= now
        BY <2>7, <2>8 DEF LoginInv, LoginTypeOK
      <3> QED
        BY <2>1, <2>2, <2>8, <3>1, <3>2, <3>3, GuessCounted
    <2>11. LoginTypeOK'
      <3>1. \A a \in DOMAIN attempts' : attempts'[a].until \in 0 .. EndOfTime + Lockout
        BY <2>3, <2>7, <2>8 DEF LoginInv, LoginTypeOK
      <3> QED
        BY <3>1, <2>1, <2>2, <2>7, <2>8, <2>14 DEF LoginInv, LoginTypeOK
    <2>12. ASSUME NEW a \in DOMAIN attempts'
           PROVE /\ attempts'[a].until = 0 => attempts'[a].failures < MaxFailures
                 /\ attempts'[a].failures + Cardinality(Inside(a)')
                       <= MaxFailures + Cardinality(Requests) - 1
      <3>1. CASE a = ip
        <4>1. attempts'[a] = [failures |-> failures, until |-> until]
          BY <3>1, <2>8
        <4> QED
          BY <3>1, <4>1, <2>3, <2>6
      <3>2. CASE a # ip
        BY <3>2, <2>4, <2>7, <2>8 DEF LoginInv, LoginTypeOK
      <3> QED
        BY <3>1, <3>2
    <2>13. locked' \in [Addresses -> Nat]
      BY <2>1, <2>3 DEF LoginInv
    <2> QED
      BY <2>9, <2>10, <2>11, <2>12, <2>13, <2>14 DEF LoginInv
  <1> QED
    BY <1>0, <1>1, <1>2, <1>3, <1>4 DEF LoginNext

(* However requests overlap and the table fills up, a lock holds as long as *)
(* it was set for, unless a request let in before it logs in; and an        *)
(* address that a full table did not forget guesses no further than the     *)
(* limit and the requests that were let in already (LoginAttempts in        *)
(* web_server.rs).                                                          *)
THEOREM LoginsAreLimited == Spec => []LoginIsLimited
  <1>1. Init => LoginInv
    BY LoginAssumption, FS_CardinalityType
    DEF Init, LoginInit, LoginInv, LoginTypeOK, LocksAreKept, Counted
  <1>2. LoginInv /\ [Next]_vars => LoginInv'
    <2>1. [Next]_vars => [LoginNext]_loginVars
      BY DEF Next, Media, Stream, Peers, Login, Logger, Config, PeerRequests, vars
    <2> QED
      BY <2>1, LoginStep
  <1>3. LoginInv => LoginIsLimited
    <2> SUFFICES ASSUME LoginInv, NEW ip \in Addresses, ip \notin forgotten
                 PROVE  guesses[ip] <= MaxFailures + Cardinality(Requests) - 1
      BY DEF LoginInv, LoginIsLimited, GuessesAreLimited
    <2>1. guesses[ip] = IF ip \in DOMAIN attempts THEN attempts[ip].failures ELSE 0
      BY DEF LoginInv, Counted
    <2>2. CASE ip \in DOMAIN attempts
      BY <2>1, <2>2, InsideBounded, FS_CardinalityType, LoginAssumption DEF LoginInv
    <2>3. CASE ip \notin DOMAIN attempts
      BY <2>1, <2>3, FS_CardinalityType, LoginAssumption
    <2> QED
      BY <2>2, <2>3
  <1> QED
    BY <1>1, <1>2, <1>3, PTL DEF Spec

(***************************************************************************)
(* The logger.                                                             *)
(***************************************************************************)

(* What was sent to the syslog server and may have arrived. *)
Wires == arrived \o onTheWire

(* The ring is the end of what was logged, position by position. *)
RingFollows ==
    /\ IsEndOf(ring, logged)
    /\ Len(ring) <= RingSize
    /\ Len(ring) < RingSize => Len(ring) = Len(logged)

(* A line is with the one thread that logged it or was sent once; and the    *)
(* connection that broke has nothing under way, so that the line sent again *)
(* is the only copy.                                                        *)
SentOnce ==
    /\ arrived \in Seq(1 .. lines) /\ onTheWire \in Seq(1 .. lines)
    /\ forwarding \in [Threads -> 0 .. lines]
    /\ \A t, u \in Threads : forwarding[t] = forwarding[u] => t = u \/ forwarding[t] = 0
    /\ \A i, j \in 1 .. Len(Wires) : Wires[i] = Wires[j] => i = j
    /\ \A t \in Threads, i \in 1 .. Len(Wires) : Wires[i] # forwarding[t]

LogInv ==
    /\ lines \in 0 .. MaxLines
    /\ protocol \in {"tcp", "datagram"} /\ stream \in {"none", "up", "broken"}
    /\ stream # "up" => onTheWire = <<>>
    /\ protocol # "tcp" => stream = "none"
    /\ RingFollows
    /\ SentOnce

(* A line is logged and stored. *)
LEMMA RingPushed ==
    ASSUME RingFollows, NEW line \in Nat, ring' = Push(ring, line), logged' = Append(logged, line)
    PROVE  RingFollows'
  <1>1. ring \in Seq(Nat) /\ logged \in Seq(Nat) /\ Len(ring) <= RingSize
    BY DEF RingFollows, IsEndOf
  <1>2. PICK n \in Nat : n = Len(ring) /\ n <= RingSize
    BY <1>1
  <1>3. Len(logged') = Len(logged) + 1
    BY <1>1
  <1>4. PICK more \in Seq(Nat) : more = Append(ring, line) /\ Len(more) = n + 1
    BY <1>1, <1>2, AppendProperties
  <1>5. CASE n < RingSize
    <2>1. ring' = more
      BY <1>4, <1>5, LogAssumption DEF Push
    <2>2. IsEndOf(ring', logged')
      BY <1>4, <2>1, EndGrows DEF RingFollows
    <2>3. n = Len(logged)
      BY <1>2, <1>5 DEF RingFollows
    <2> QED
      BY <1>3, <1>4, <1>5, <2>1, <2>2, <2>3, LogAssumption DEF RingFollows
  <1>6. CASE n = RingSize
    <2>1. ring' = Tail(more)
      BY <1>4, <1>6, LogAssumption DEF Push
    <2>2. ring # <<>> /\ Tail(more) = Append(Tail(ring), line)
      BY <1>1, <1>2, <1>4, <1>6, LogAssumption
    <2>3. IsEndOf(ring', logged')
      BY <2>1, <2>2, EndGrows DEF RingFollows
    <2>4. Len(ring') = n
      BY <1>4, <2>1
    <2> QED
      BY <1>6, <2>3, <2>4, LogAssumption DEF RingFollows
  <1> QED
    BY <1>2, <1>5, <1>6, LogAssumption

(* What was sent changes in three ways: it arrives, it is lost, or the line *)
(* of a thread joins it.                                                    *)
LEMMA WiresMove ==
    ASSUME SentOnce, UNCHANGED <<lines, forwarding>>,
           \/ /\ onTheWire # <<>>
              /\ arrived' = Append(arrived, Head(onTheWire)) /\ onTheWire' = Tail(onTheWire)
           \/ arrived' = arrived \o onTheWire /\ onTheWire' = <<>>
           \/ arrived' = arrived /\ onTheWire' = <<>>
    PROVE  SentOnce'
  <1>1. arrived \in Seq(1 .. lines) /\ onTheWire \in Seq(1 .. lines)
    BY DEF SentOnce
  <1>2. arrived' \in Seq(1 .. lines') /\ onTheWire' \in Seq(1 .. lines')
    <2>1. CASE /\ onTheWire # <<>>
               /\ arrived' = Append(arrived, Head(onTheWire)) /\ onTheWire' = Tail(onTheWire)
      <3>1. Head(onTheWire) \in 1 .. lines /\ Tail(onTheWire) \in Seq(1 .. lines)
        BY <2>1, <1>1, HeadTailProperties
      <3>2. Append(arrived, Head(onTheWire)) \in Seq(1 .. lines)
        BY <3>1, <1>1, AppendProperties
      <3> QED
        BY <2>1, <3>1, <3>2
    <2>2. CASE arrived' = arrived \o onTheWire /\ onTheWire' = <<>>
      BY <2>2, <1>1
    <2>3. CASE arrived' = arrived /\ onTheWire' = <<>>
      BY <2>3, <1>1
    <2> QED
      BY <2>1, <2>2, <2>3
  <1>3. /\ Len(Wires') <= Len(Wires)
        /\ \A i \in 1 .. Len(Wires') : Wires'[i] = Wires[i]
    <2>1. CASE /\ onTheWire # <<>>
               /\ arrived' = Append(arrived, Head(onTheWire)) /\ onTheWire' = Tail(onTheWire)
      <3>1. Wires' = Wires
        BY <2>1, <1>1, HeadTailProperties, ConcatProperties, AppendProperties DEF Wires
      <3> QED
        BY <3>1
    <2>2. CASE arrived' = arrived \o onTheWire /\ onTheWire' = <<>>
      BY <2>2, <1>1, ConcatProperties, ConcatEmptySeq DEF Wires
    <2>3. CASE arrived' = arrived /\ onTheWire' = <<>>
      BY <2>3, <1>1, ConcatProperties, ConcatEmptySeq DEF Wires
    <2> QED
      BY <2>1, <2>2, <2>3
  <1>4. Len(Wires) \in Nat /\ Len(Wires') \in Nat
    BY <1>1, <1>2 DEF Wires
  <1>6. \A i, j \in 1 .. Len(Wires') : Wires'[i] = Wires'[j] => i = j
    BY <1>3, <1>4 DEF SentOnce
  <1>7. \A t \in Threads, i \in 1 .. Len(Wires') : Wires'[i] # forwarding'[t]
    BY <1>3, <1>4 DEF SentOnce
  <1> QED
    BY <1>2, <1>6, <1>7 DEF SentOnce

(* A thread hands its line to the stream or the socket, or drops it. *)
LEMMA WiresGrow ==
    ASSUME SentOnce, NEW t \in Threads, forwarding[t] # 0, lines \in Nat, UNCHANGED lines,
           forwarding' = [forwarding EXCEPT ![t] = 0],
           \/ UNCHANGED <<arrived, onTheWire>>
           \/ arrived' = arrived /\ onTheWire' = Append(onTheWire, forwarding[t])
           \/ /\ onTheWire = <<>> /\ onTheWire' = <<>>
              /\ arrived' = Append(arrived, forwarding[t])
    PROVE  SentOnce'
  <1>1. /\ arrived \in Seq(1 .. lines) /\ onTheWire \in Seq(1 .. lines)
        /\ forwarding \in [Threads -> 0 .. lines] /\ forwarding[t] \in 1 .. lines
    BY DEF SentOnce
  <1>2. /\ arrived' \in Seq(1 .. lines') /\ onTheWire' \in Seq(1 .. lines')
        /\ \/ Wires' = Wires
           \/ Wires' = Append(Wires, forwarding[t])
    <2>1. CASE UNCHANGED <<arrived, onTheWire>>
      BY <2>1, <1>1 DEF Wires
    <2>2. CASE arrived' = arrived /\ onTheWire' = Append(onTheWire, forwarding[t])
      <3>1. onTheWire' \in Seq(1 .. lines)
        BY <2>2, <1>1, AppendProperties
      <3>2. Wires' = Append(Wires, forwarding[t])
        <4>1. onTheWire' = onTheWire \o <<forwarding[t]>>
          BY <2>2, <1>1, AppendIsConcat
        <4>2. arrived \o (onTheWire \o <<forwarding[t]>>) = (arrived \o onTheWire) \o <<forwarding[t]>>
          BY <1>1, ConcatAssociative
        <4>3. Wires \in Seq(1 .. lines)
          BY <1>1 DEF Wires
        <4>4. Append(Wires, forwarding[t]) = Wires \o <<forwarding[t]>>
          BY <1>1, <4>3, AppendIsConcat
        <4> QED
          BY <2>2, <4>1, <4>2, <4>4 DEF Wires
      <3> QED
        BY <2>2, <3>1, <3>2, <1>1
    <2>3. CASE /\ onTheWire = <<>> /\ onTheWire' = <<>>
               /\ arrived' = Append(arrived, forwarding[t])
      <3>1. arrived' \in Seq(1 .. lines)
        BY <2>3, <1>1, AppendProperties
      <3>2. Wires = arrived /\ Wires' = arrived'
        BY <2>3, <3>1, <1>1, ConcatEmptySeq DEF Wires
      <3> QED
        BY <2>3, <3>1, <3>2, <1>1
    <2> QED
      BY <2>1, <2>2, <2>3
  <1>3. Wires \in Seq(1 .. lines) /\ Len(Wires) \in Nat
    BY <1>1 DEF Wires
  <1>4. \A u \in Threads : forwarding'[u] = IF u = t THEN 0 ELSE forwarding[u]
    BY <1>1
  <1>5. \A u \in Threads, i \in 1 .. Len(Wires) :
           Wires[i] \in 1 .. lines /\ Wires[i] # forwarding'[u]
    BY <1>3, <1>4 DEF SentOnce
  <1>6. \A v, u \in Threads : forwarding'[v] = forwarding'[u] => v = u \/ forwarding'[v] = 0
    BY <1>4 DEF SentOnce
  <1>7. /\ forwarding' \in [Threads -> 0 .. lines']
        /\ \A u \in Threads : forwarding'[u] # forwarding[t]
    BY <1>1, <1>4 DEF SentOnce
  <1>8. CASE Wires' = Wires
    BY <1>2, <1>5, <1>6, <1>7, <1>8 DEF SentOnce
  <1>9. CASE Wires' = Append(Wires, forwarding[t])
    <2>1. /\ Len(Wires') = Len(Wires) + 1 /\ Wires'[Len(Wires) + 1] = forwarding[t]
          /\ \A i \in 1 .. Len(Wires) : Wires'[i] = Wires[i]
      BY <1>1, <1>3, <1>9, AppendProperties
    <2>2. \A i \in 1 .. Len(Wires') : i \in 1 .. Len(Wires) \/ i = Len(Wires) + 1
      BY <1>3, <2>1
    <2>3. \A i \in 1 .. Len(Wires) : Wires[i] # forwarding[t]
      BY DEF SentOnce
    <2>4. \A i, j \in 1 .. Len(Wires') : Wires'[i] = Wires'[j] => i = j
      BY <2>1, <2>2, <2>3 DEF SentOnce
    <2>5. \A u \in Threads, i \in 1 .. Len(Wires') : Wires'[i] # forwarding'[u]
      BY <2>1, <2>2, <1>5, <1>7
    <2> QED
      BY <1>2, <1>6, <1>7, <2>4, <2>5 DEF SentOnce
  <1> QED
    BY <1>2, <1>8, <1>9

(* Ring and wires are right after each step of a thread or the stream. *)
LEMMA LogStep == LogInv /\ [LogNext]_logVars => LogInv'
  <1> SUFFICES ASSUME LogInv, [LogNext]_logVars PROVE LogInv'
    OBVIOUS
  <1>0. CASE UNCHANGED logVars
    BY <1>0 DEF LogInv, RingFollows, SentOnce, Wires, logVars
  <1>1. CASE Configure
    <2>1. SentOnce'
      BY <1>1, WiresMove DEF Configure, LogInv
    <2> QED
      BY <1>1, <2>1 DEF Configure, LogInv, RingFollows
  <1>2. CASE Arrive
    <2>1. SentOnce'
      BY <1>2, WiresMove DEF Arrive, LogInv
    <2> QED
      BY <1>2, <2>1 DEF Arrive, LogInv, RingFollows, SentOnce
  <1>3. CASE Break
    <2>1. SentOnce'
      BY <1>3, WiresMove DEF Break, LogInv
    <2> QED
      BY <1>3, <2>1 DEF Break, LogInv, RingFollows
  <1>4. ASSUME NEW t \in Threads, Log(t) PROVE LogInv'
    <2>1. /\ forwarding[t] = 0 /\ lines < MaxLines /\ lines' = lines + 1
          /\ ring' = Push(ring, lines + 1) /\ logged' = Append(logged, lines + 1)
          /\ forwarding' = [forwarding EXCEPT ![t] = lines + 1]
          /\ UNCHANGED <<protocol, stream, onTheWire, arrived>>
      BY <1>4 DEF Log
    <2>2. RingFollows'
      BY <2>1, RingPushed DEF LogInv
    <2>3. /\ arrived' \in Seq(1 .. lines') /\ onTheWire' \in Seq(1 .. lines')
          /\ forwarding' \in [Threads -> 0 .. lines']
      BY <2>1, LogAssumption DEF LogInv, SentOnce
    <2>4. Wires' = Wires /\ \A i \in 1 .. Len(Wires) : Wires[i] \in 1 .. lines
      BY <2>1 DEF LogInv, SentOnce, Wires
    <2>5. \A v, u \in Threads : forwarding'[v] = forwarding'[u] => v = u \/ forwarding'[v] = 0
      BY <2>1, LogAssumption DEF LogInv, SentOnce
    <2>6. \A u \in Threads, i \in 1 .. Len(Wires') : Wires'[i] # forwarding'[u]
      BY <2>1, <2>4, LogAssumption DEF LogInv, SentOnce
    <2>7. SentOnce'
      BY <2>3, <2>4, <2>5, <2>6 DEF LogInv, SentOnce
    <2> QED
      BY <2>1, <2>2, <2>7, LogAssumption DEF LogInv
  <1>5. ASSUME NEW t \in Threads, Forward(t) PROVE LogInv'
    <2>1. /\ forwarding[t] # 0 /\ forwarding' = [forwarding EXCEPT ![t] = 0]
          /\ UNCHANGED <<protocol, lines, ring, logged>>
      BY <1>5 DEF Forward
    <2>2. \/ UNCHANGED <<arrived, onTheWire>>
          \/ arrived' = arrived /\ onTheWire' = Append(onTheWire, forwarding[t])
          \/ /\ onTheWire = <<>> /\ onTheWire' = <<>>
             /\ arrived' = Append(arrived, forwarding[t])
      <3>1. CASE protocol = "tcp"
        <4>1. WriteTcp(forwarding[t]) /\ arrived' = arrived
          BY <1>5, <3>1 DEF Forward
        <4>2. \A line : Append(<<>>, line) = <<line>>
          OBVIOUS
        <4> QED
          BY <4>1, <4>2 DEF WriteTcp, Reconnect, LogInv
      <3>2. CASE protocol # "tcp"
        BY <1>5, <3>2 DEF Forward, LogInv
      <3> QED
        BY <3>1, <3>2
    <2>3. /\ stream' \in {"none", "up", "broken"}
          /\ stream' # "up" => onTheWire' = <<>>
          /\ protocol # "tcp" => stream' = "none"
      BY <1>5 DEF Forward, WriteTcp, Reconnect, LogInv
    <2>4. SentOnce'
      <3>1. SentOnce /\ lines \in Nat /\ lines' = lines
        BY <2>1, LogAssumption DEF LogInv
      <3> QED
        BY <2>1, <2>2, <3>1, WiresGrow
    <2> QED
      BY <2>1, <2>3, <2>4 DEF LogInv, RingFollows
  <1> QED
    BY <1>0, <1>1, <1>2, <1>3, <1>4, <1>5 DEF LogNext

(* The dashboard's ring holds the latest lines, and a line reaches the       *)
(* syslog server at most once, however threads and reconnections interleave *)
(* (service/logger.rs).                                                     *)
THEOREM LinesAreKeptAndSentOnce == Spec => []LogIsFaithful
  <1>1. Init => LogInv
    BY LogAssumption DEF Init, LogInit, LogInv, RingFollows, IsEndOf, SentOnce, Wires
  <1>2. LogInv /\ [Next]_vars => LogInv'
    <2>1. [Next]_vars => [LogNext]_logVars
      BY DEF Next, Media, Stream, Peers, Login, Logger, Config, PeerRequests, vars
    <2> QED
      BY <2>1, LogStep
  <1>3. LogInv => LogIsFaithful
    <2> SUFFICES ASSUME LogInv PROVE LogIsFaithful
      OBVIOUS
    <2>1. LogTypeOK
      BY LogAssumption DEF LogInv, LogTypeOK, RingFollows, IsEndOf, SentOnce
    <2>2. RingIsRecent
      <3>1. ring = SubSeq(logged, Len(logged) - Len(ring) + 1, Len(logged))
        <4>1. IsEndOf(ring, logged)
          BY DEF LogInv, RingFollows
        <4> QED
          BY <4>1, EndIsSubSeq, Zenon
      <3>2. Len(ring) < RingSize => ring = logged
        <4>1. /\ ring \in Seq(Nat) /\ logged \in Seq(Nat)
              /\ \A i \in 1 .. Len(ring) : ring[i] = logged[Len(logged) - Len(ring) + i]
          BY DEF LogInv, RingFollows, IsEndOf
        <4>2. ASSUME Len(ring) < RingSize, NEW i \in 1 .. Len(ring) PROVE ring[i] = logged[i]
          <5>1. Len(ring) = Len(logged) /\ Len(logged) \in Nat
            BY <4>1, <4>2 DEF LogInv, RingFollows
          <5>2. Len(logged) - Len(ring) + i = i
            BY <5>1
          <5> QED
            BY <4>1, <5>2
        <4>3. Len(ring) < RingSize => Len(ring) = Len(logged)
          BY DEF LogInv, RingFollows
        <4> QED
          BY <4>1, <4>2, <4>3, SeqEqual
      <3> QED
        BY <3>1, <3>2 DEF RingIsRecent
    <2>3. NoLineTwice
      BY DEF LogInv, SentOnce, Wires, NoLineTwice
    <2> QED
      BY <2>1, <2>2, <2>3 DEF LogIsFaithful
  <1> QED
    BY <1>1, <1>2, <1>3, PTL DEF Spec

(***************************************************************************)
(* The requests of peers and their cached answers.                         *)
(***************************************************************************)

(* A task that removes an answer wakes up no earlier than Timer J after the *)
(* first answer: it was spawned with all of it to go, and grows older as    *)
(* the answer does.                                                         *)
CacheInv ==
    /\ cache \in [Keys -> Requested!Answers \cup {"none"}]
    /\ removers \in [Keys -> [0 .. TimerJ -> Nat]]
    /\ sinceFirst \in [Keys -> 0 .. TimerJ \cup {None}]
    /\ sinceFinal \in [Keys -> 0 .. TimerJ \cup {None}]
    /\ \A k \in Keys :
          /\ cache[k] # "none" /\ ~Reliable => \E left \in 0 .. TimerJ : removers[k][left] > 0
          /\ \A left \in 0 .. TimerJ :
                removers[k][left] > 0 =>
                   sinceFirst[k] \in 0 .. TimerJ /\ sinceFirst[k] + left >= TimerJ
          /\ sinceFirst[k] \in 0 .. TimerJ - 1 => cache[k] # "none"

CopiesInv ==
    /\ sent \in [Keys -> 0 .. MaxCopies] /\ arriving \in [Keys -> 0 .. MaxCopies]
    /\ \A k \in Keys : arriving[k] <= sent[k]
    /\ queue \in Seq(Keys)
    /\ handling \in Keys \cup {None} /\ ringing \in Keys \cup {None}

(* An answer enters the cache with a task of its own. *)
LEMMA RecordedInTime ==
    ASSUME CacheInv, NEW k \in Keys, NEW answer \in Requested!Answers,
           Requested!Record(k, answer)
    PROVE  CacheInv'
  <1> USE RequestAssumption
  <1>1. /\ cache' = [cache EXCEPT ![k] = answer]
        /\ removers' = Requested!Spawned(k)
        /\ sinceFirst' = [sinceFirst EXCEPT ![k] = IF @ = None THEN 0 ELSE @]
        /\ sinceFinal' = [sinceFinal EXCEPT ![k] = IF answer \in Requested!Finals THEN 0 ELSE @]
    BY DEF Requested!Record
  <1>2. /\ cache' \in [Keys -> Requested!Answers \cup {"none"}]
        /\ sinceFirst' \in [Keys -> 0 .. TimerJ \cup {None}]
        /\ sinceFinal' \in [Keys -> 0 .. TimerJ \cup {None}]
    BY <1>1 DEF CacheInv
  <1>3. /\ removers' \in [Keys -> [0 .. TimerJ -> Nat]]
        /\ \A j \in Keys \ {k} : removers'[j] = removers[j]
        /\ \A left \in 0 .. TimerJ - 1 : removers'[k][left] = removers[k][left]
        /\ ~Reliable => removers'[k][TimerJ] = removers[k][TimerJ] + 1
        /\ Reliable => removers' = removers
    BY <1>1 DEF CacheInv, Requested!Spawned
  <1>4. /\ sinceFirst'[k] = IF sinceFirst[k] = None THEN 0 ELSE sinceFirst[k]
        /\ sinceFirst'[k] \in 0 .. TimerJ
        /\ cache'[k] = answer /\ answer # "none"
        /\ \A j \in Keys \ {k} : sinceFirst'[j] = sinceFirst[j] /\ cache'[j] = cache[j]
    BY <1>1 DEF CacheInv, Requested!Answers, Requested!Finals
  <1>5. ~Reliable => removers'[k][TimerJ] > 0
    BY <1>3 DEF CacheInv
  <1>6. ASSUME NEW left \in 0 .. TimerJ, removers'[k][left] > 0
        PROVE  sinceFirst'[k] + left >= TimerJ
    <2>1. CASE left = TimerJ
      BY <2>1, <1>4
    <2>2. CASE left # TimerJ
      <3>1. removers[k][left] > 0
        BY <1>6, <1>3, <2>2
      <3>2. sinceFirst[k] \in 0 .. TimerJ /\ sinceFirst[k] + left >= TimerJ
        BY <3>1 DEF CacheInv
      <3> QED
        BY <1>4, <3>2
    <2> QED
      BY <2>1, <2>2
  <1>7. ASSUME NEW j \in Keys
        PROVE  /\ cache'[j] # "none" /\ ~Reliable =>
                     \E left \in 0 .. TimerJ : removers'[j][left] > 0
               /\ \A left \in 0 .. TimerJ :
                     removers'[j][left] > 0 =>
                        sinceFirst'[j] \in 0 .. TimerJ /\ sinceFirst'[j] + left >= TimerJ
               /\ sinceFirst'[j] \in 0 .. TimerJ - 1 => cache'[j] # "none"
    <2>1. CASE j = k
      BY <2>1, <1>4, <1>5, <1>6
    <2>2. CASE j # k
      BY <2>2, <1>3, <1>4 DEF CacheInv
    <2> QED
      BY <2>1, <2>2
  <1> QED
    BY <1>2, <1>3, <1>7 DEF CacheInv

(* A task that is due has its answer behind it for Timer J. *)
LEMMA RemovedInTime ==
    ASSUME CacheInv, NEW k \in Keys, Requested!Remove(k)
    PROVE  CacheInv'
  <1> USE RequestAssumption
  <1>1. /\ removers[k][0] > 0
        /\ removers' = [removers EXCEPT ![k][0] = @ - 1]
        /\ cache' = [cache EXCEPT ![k] = "none"]
        /\ UNCHANGED <<sinceFirst, sinceFinal>>
    BY DEF Requested!Remove, Requested!Removed
  <1>2. sinceFirst[k] = TimerJ
    BY <1>1 DEF CacheInv
  <1>3. /\ removers' \in [Keys -> [0 .. TimerJ -> Nat]]
        /\ \A j \in Keys \ {k} : removers'[j] = removers[j]
        /\ \A left \in 0 .. TimerJ : removers'[k][left] <= removers[k][left]
    BY <1>1 DEF CacheInv
  <1>4. /\ cache' \in [Keys -> Requested!Answers \cup {"none"}]
        /\ cache'[k] = "none"
        /\ \A j \in Keys \ {k} : cache'[j] = cache[j]
    BY <1>1 DEF CacheInv
  <1>5. ASSUME NEW j \in Keys
        PROVE  /\ cache'[j] # "none" /\ ~Reliable =>
                     \E left \in 0 .. TimerJ : removers'[j][left] > 0
               /\ \A left \in 0 .. TimerJ :
                     removers'[j][left] > 0 =>
                        sinceFirst'[j] \in 0 .. TimerJ /\ sinceFirst'[j] + left >= TimerJ
               /\ sinceFirst'[j] \in 0 .. TimerJ - 1 => cache'[j] # "none"
    <2>1. CASE j = k
      BY <2>1, <1>1, <1>2, <1>4
    <2>2. CASE j # k
      BY <2>2, <1>1, <1>3, <1>4 DEF CacheInv
    <2> QED
      BY <2>1, <2>2
  <1> QED
    BY <1>1, <1>3, <1>4, <1>5 DEF CacheInv

(* Time passes: every count of the cache moves by one. *)
LEMMA CacheAges ==
    ASSUME CacheInv, Requested!Tick
    PROVE  CacheInv'
  <1> USE RequestAssumption
  <1>1. /\ removers' = [k \in Keys |-> Requested!Aged(removers[k])]
        /\ sinceFirst' = [k \in Keys |-> Requested!Older(sinceFirst[k])]
        /\ sinceFinal' = [k \in Keys |-> Requested!Older(sinceFinal[k])]
        /\ cache' = cache
    BY DEF Requested!Tick
  <1>2. \A n \in 0 .. TimerJ \cup {None} :
           /\ Requested!Older(n) \in 0 .. TimerJ \cup {None}
           /\ n \in 0 .. TimerJ => Requested!Older(n) = IF n = TimerJ THEN n ELSE n + 1
           /\ n = None => Requested!Older(n) = None
    BY DEF Requested!Older
  <1>3. ASSUME NEW k \in Keys, NEW left \in 0 .. TimerJ
        PROVE  removers'[k][left] = (IF left = 0 THEN removers[k][0] ELSE 0)
                                    + (IF left < TimerJ THEN removers[k][left + 1] ELSE 0)
    BY <1>1 DEF Requested!Aged
  <1>4. removers' \in [Keys -> [0 .. TimerJ -> Nat]]
    <2>1. ASSUME NEW k \in Keys PROVE Requested!Aged(removers[k]) \in [0 .. TimerJ -> Nat]
      <3>1. removers[k] \in [0 .. TimerJ -> Nat]
        BY DEF CacheInv
      <3>2. ASSUME NEW left \in 0 .. TimerJ
            PROVE  (IF left = 0 THEN removers[k][0] ELSE 0)
                   + (IF left < TimerJ THEN removers[k][left + 1] ELSE 0) \in Nat
        <4>1. removers[k][0] \in Nat /\ (left < TimerJ => removers[k][left + 1] \in Nat)
          BY <3>1
        <4> QED
          BY <4>1
      <3> QED
        BY <3>2 DEF Requested!Aged
    <2> QED
      BY <1>1, <2>1
  <1>5. ASSUME NEW k \in Keys, cache'[k] # "none", ~Reliable
        PROVE  \E left \in 0 .. TimerJ : removers'[k][left] > 0
    <2>1. PICK left \in 0 .. TimerJ : removers[k][left] > 0
      BY <1>1, <1>5 DEF CacheInv
    <2>2. \A n \in 0 .. TimerJ : removers[k][n] \in Nat
      BY DEF CacheInv
    <2>3. CASE left = 0
      <3>1. removers[k][1] \in Nat /\ removers[k][0] > 0 /\ removers[k][0] \in Nat
        BY <2>1, <2>2, <2>3
      <3>2. removers'[k][0] > 0
        BY <1>3, <3>1
      <3> QED
        BY <3>2
    <2>4. CASE left # 0
      <3>1. left - 1 \in 0 .. TimerJ - 1 /\ (left - 1) + 1 = left
        BY <2>4
      <3>2. removers[k][0] \in Nat /\ removers[k][left] \in Nat
        BY <2>2
      <3>3. removers'[k][left - 1] > 0
        BY <1>3, <2>1, <3>1, <3>2
      <3> QED
        BY <3>1, <3>3
    <2> QED
      BY <2>3, <2>4
  <1>6. ASSUME NEW k \in Keys, NEW left \in 0 .. TimerJ, removers'[k][left] > 0
        PROVE  sinceFirst'[k] \in 0 .. TimerJ /\ sinceFirst'[k] + left >= TimerJ
    <2>1. \A n \in 0 .. TimerJ : removers[k][n] \in Nat
      BY DEF CacheInv
    <2>2. \/ left = 0 /\ removers[k][0] > 0
          \/ left < TimerJ /\ removers[k][left + 1] > 0
      <3>1. removers[k][0] \in Nat /\ (left < TimerJ => removers[k][left + 1] \in Nat)
        BY <2>1
      <3> QED
        BY <1>3, <1>6, <3>1
    <2>3. sinceFirst'[k] = Requested!Older(sinceFirst[k])
      BY <1>1
    <2>4. CASE left = 0 /\ removers[k][0] > 0
      <3>1. sinceFirst[k] \in 0 .. TimerJ /\ sinceFirst[k] + 0 >= TimerJ
        BY <2>4 DEF CacheInv
      <3> QED
        BY <3>1, <1>2, <2>3, <2>4
    <2>5. CASE left < TimerJ /\ removers[k][left + 1] > 0
      <3>1. left + 1 \in 0 .. TimerJ
        BY <2>5
      <3>2. sinceFirst[k] \in 0 .. TimerJ /\ sinceFirst[k] + (left + 1) >= TimerJ
        BY <2>5, <3>1 DEF CacheInv
      <3> QED
        BY <3>2, <1>2, <2>3
    <2> QED
      BY <2>2, <2>4, <2>5
  <1>7. ASSUME NEW k \in Keys, sinceFirst'[k] \in 0 .. TimerJ - 1
        PROVE  cache'[k] # "none"
    <2>1. sinceFirst[k] \in 0 .. TimerJ \cup {None} /\ sinceFirst'[k] = Requested!Older(sinceFirst[k])
      BY <1>1 DEF CacheInv
    <2>2. sinceFirst[k] # None
      <3>1. None \notin 0 .. TimerJ - 1
        BY RequestAssumption
      <3> QED
        BY <1>2, <1>7, <2>1, <3>1
    <2>3. sinceFirst[k] \in 0 .. TimerJ /\ sinceFirst[k] # TimerJ
      BY <1>2, <1>7, <2>1, <2>2
    <2>4. sinceFirst[k] \in 0 .. TimerJ - 1
      BY <2>3
    <2> QED
      BY <1>1, <2>4 DEF CacheInv
  <1>8. /\ sinceFirst' \in [Keys -> 0 .. TimerJ \cup {None}]
        /\ sinceFinal' \in [Keys -> 0 .. TimerJ \cup {None}]
    BY <1>1, <1>2 DEF CacheInv
  <1>9. cache' \in [Keys -> Requested!Answers \cup {"none"}]
    BY <1>1 DEF CacheInv
  <1> QED
    BY <1>4, <1>5, <1>6, <1>7, <1>8, <1>9 DEF CacheInv

(* The cache is right after each step of the peer, the handler or a task. *)
LEMMA RequestStep ==
    CacheInv /\ CopiesInv /\ [Requested!Next]_requestVars => (CacheInv /\ CopiesInv)'
  <1> SUFFICES ASSUME CacheInv, CopiesInv, [Requested!Next]_requestVars
               PROVE  CacheInv' /\ CopiesInv'
    OBVIOUS
  <1> USE RequestAssumption
  <1>a. Requested!Finals \subseteq Requested!Answers /\ "180" \in Requested!Answers
        /\ "200" \in Requested!Answers
    BY DEF Requested!Answers, Requested!Finals
  <1>b. ASSUME UNCHANGED <<cache, removers, sinceFirst, sinceFinal>> PROVE CacheInv'
    BY <1>b DEF CacheInv
  <1>0. CASE UNCHANGED requestVars
    BY <1>0, <1>b DEF requestVars, CopiesInv
  <1>1. ASSUME NEW k \in Keys, Requested!PeerSends(k) PROVE CacheInv' /\ CopiesInv'
    <2>1. UNCHANGED <<cache, removers, sinceFirst, sinceFinal>>
      BY <1>1 DEF Requested!PeerSends, Requested!cacheVars
    <2>2. /\ sent[k] < MaxCopies /\ sent' = [sent EXCEPT ![k] = @ + 1]
          /\ arriving' = [arriving EXCEPT ![k] = @ + 1]
          /\ UNCHANGED <<queue, handling, ringing>>
      <3>1. sent[k] \in Nat /\ sent[k] < IF Reliable THEN 1 ELSE MaxCopies
        BY <1>1 DEF Requested!PeerSends, CopiesInv
      <3>2. sent[k] < MaxCopies
        BY <3>1
      <3> QED
        BY <1>1, <3>2 DEF Requested!PeerSends, Requested!appVars
    <2>3. CopiesInv'
      BY <2>2 DEF CopiesInv
    <2> QED
      BY <2>1, <2>3, <1>b
  <1>2. ASSUME NEW k \in Keys, Requested!Lose(k) \/ Requested!Receive(k)
        PROVE  CacheInv' /\ CopiesInv'
    <2>1. UNCHANGED <<cache, removers, sinceFirst, sinceFinal>>
      BY <1>2 DEF Requested!Lose, Requested!Receive, Requested!cacheVars
    <2>2. /\ arriving[k] > 0 /\ arriving' = [arriving EXCEPT ![k] = @ - 1]
          /\ UNCHANGED <<sent, handling, ringing>>
      BY <1>2 DEF Requested!Lose, Requested!Receive, Requested!appVars
    <2>3. queue' \in Seq(Keys)
      <3>1. queue \in Seq(Keys) /\ Append(queue, k) \in Seq(Keys)
        BY AppendProperties DEF CopiesInv
      <3>2. queue' = queue \/ queue' = Append(queue, k)
        BY <1>2 DEF Requested!Lose, Requested!Receive
      <3> QED
        BY <3>1, <3>2
    <2>4. arriving[k] \in 1 .. MaxCopies /\ sent[k] \in 0 .. MaxCopies /\ arriving[k] <= sent[k]
      BY <2>2 DEF CopiesInv
    <2>5. arriving' \in [Keys -> 0 .. MaxCopies] /\ \A j \in Keys : arriving'[j] <= sent'[j]
      BY <2>2, <2>4 DEF CopiesInv
    <2>6. CopiesInv'
      BY <2>2, <2>3, <2>5 DEF CopiesInv
    <2> QED
      BY <2>1, <2>6, <1>b
  <1>3. ASSUME NEW k \in Keys, Requested!Remove(k) PROVE CacheInv' /\ CopiesInv'
    BY <1>3, RemovedInTime DEF Requested!Remove, Requested!peerVars, Requested!appVars, CopiesInv
  <1>4. CASE Requested!Take
    <2>1. UNCHANGED <<cache, removers, sinceFirst, sinceFinal>>
      BY <1>4 DEF Requested!Take, Requested!cacheVars
    <2>2. Head(queue) \in Keys /\ Tail(queue) \in Seq(Keys)
      BY <1>4, HeadTailProperties DEF Requested!Take, CopiesInv
    <2>3. CopiesInv'
      BY <1>4, <2>2 DEF Requested!Take, Requested!peerVars, CopiesInv
    <2> QED
      BY <2>1, <2>3, <1>b
  <1>5. CASE Requested!Ring
    <2>1. handling \in Keys /\ Requested!Record(handling, "180")
      BY <1>5 DEF Requested!Ring, CopiesInv
    <2> QED
      BY <1>5, <2>1, <1>a, RecordedInTime DEF Requested!Ring, Requested!peerVars, CopiesInv
  <1>6. CASE Requested!AnswerNow
    <2>1. handling \in Keys /\ Requested!Record(handling, "200")
      BY <1>6 DEF Requested!AnswerNow, CopiesInv
    <2> QED
      BY <1>6, <2>1, <1>a, RecordedInTime DEF Requested!AnswerNow, Requested!peerVars, CopiesInv
  <1>7. CASE Requested!SayBusy
    BY <1>7, <1>b DEF Requested!SayBusy, Requested!peerVars, Requested!cacheVars, CopiesInv
  <1>8. ASSUME NEW answer \in Requested!Finals, Requested!UserDecides(answer)
        PROVE  CacheInv' /\ CopiesInv'
    <2>1. ringing \in Keys /\ Requested!Record(ringing, answer)
      BY <1>8 DEF Requested!UserDecides, CopiesInv
    <2> QED
      BY <1>8, <2>1, <1>a, RecordedInTime DEF Requested!UserDecides, Requested!peerVars, CopiesInv
  <1>9. CASE Requested!Tick
    BY <1>9, CacheAges DEF Requested!Tick, Requested!peerVars, Requested!appVars, CopiesInv
  <1> QED
    BY <1>0, <1>1, <1>2, <1>3, <1>4, <1>5, <1>6, <1>7, <1>8, <1>9 DEF Requested!Next

(* From the first answer to a request on, and for Timer J, its repetitions   *)
(* find an answer in the cache, and over UDP each answer has a task that     *)
(* will remove it (record_server_response).                                 *)
THEOREM RepetitionsFindAnswers == Spec => []RepetitionsAreAnswered
  <1> USE RequestAssumption
  <1>1. Init => CacheInv /\ CopiesInv
    BY DEF Init, Requested!Init, CacheInv, CopiesInv
  <1>2. CacheInv /\ CopiesInv /\ [Next]_vars => (CacheInv /\ CopiesInv)'
    <2>1. [Next]_vars => [Requested!Next]_requestVars
      BY DEF Next, Media, Stream, Peers, Login, Logger, Config, PeerRequests, vars
    <2> QED
      BY <2>1, RequestStep
  <1>3. CacheInv /\ CopiesInv => RepetitionsAreAnswered
    BY DEF CacheInv, CopiesInv, RepetitionsAreAnswered, Requested!TypeOK, Requested!CachedForTimerJ
  <1> QED
    BY <1>1, <1>2, <1>3, PTL DEF Spec

(***************************************************************************)
(* The media of a call.                                                    *)
(***************************************************************************)

(* Another source has a key of its own to send and nothing else. *)
Genuine == {p \in Packet : p.from = "stray" => p.key = 0 /\ p.kind = "end"}

IsKeyPacket(p) == p.from = "peer" /\ p.kind # "audio"

(* Key k, begun at time t, comes no later than key l, begun at time u: keys *)
(* and times tell the same story.                                           *)
Before(k, t, l, u) == k <= l /\ (k = l => t = u) /\ (k < l => t < u)

(* Key k, begun at time t, was typed: it is the one being sent or it is past. *)
Typed(k, t) ==
    /\ k \in 1 .. typed
    /\ t \in Nat \ {0}
    /\ step > 0 => Before(k, t, typed, clock)
    /\ step = 0 => t < clock

SendInv ==
    /\ typed \in 0 .. MaxTyped /\ step \in 0 .. 6 /\ clock \in Nat \ {0}
    /\ step > 0 => typed > 0
    /\ peer \in {"none", "peer", "stray"} /\ listening \in BOOLEAN

(* The packets of keys are on their way in the order of the keys. *)
NetInv ==
    /\ net \in Seq(Genuine)
    /\ \A i \in 1 .. Len(net) : IsKeyPacket(net[i]) => Typed(net[i].key, net[i].ts)
    /\ \A i, j \in 1 .. Len(net) :
          i <= j /\ IsKeyPacket(net[i]) /\ IsKeyPacket(net[j]) =>
             Before(net[i].key, net[i].ts, net[j].key, net[j].ts)

(* The key that was heard last is the latest of those heard, and before all *)
(* that are on their way.                                                   *)
HeardLast ==
    LET k == pushed[Len(pushed)]
    IN  /\ Typed(k, lastEvent)
        /\ \A i \in 1 .. Len(net) :
              IsKeyPacket(net[i]) => Before(k, lastEvent, net[i].key, net[i].ts)
        /\ \A i \in 1 .. Len(pushed) : pushed[i] <= k

HeardInv ==
    /\ pushed \in Seq(0 .. MaxTyped)
    /\ lastEvent \in Nat /\ (pushed = <<>> => lastEvent = 0)
    /\ pushed # <<>> => peer # "none"
    /\ \A i \in 1 .. Len(pushed) : pushed[i] = 0 <=> peer = "stray"
    /\ peer = "peer" /\ pushed # <<>> => HeardLast

BufferInv ==
    /\ taken \in 0 .. Len(pushed)
    /\ IsEndOf(digits, pushed)
    /\ Len(digits) = IF Len(pushed) - taken > MaxBuffered THEN MaxBuffered
                     ELSE Len(pushed) - taken

MediaInv == SendInv /\ NetInv /\ HeardInv /\ BufferInv

(* What a packet may say. *)
LEMMA GenuineFields ==
    \A p \in Genuine : /\ p.key \in 0 .. MaxTyped /\ p.ts \in Nat
                       /\ p.from \in {"peer", "stray"} /\ p.kind \in {"audio", "event", "end"}
                       /\ p.from = "stray" => p.key = 0 /\ p.kind = "end"
  BY DEF Genuine, Packet

(* Packets are lost, repeated and accepted: those that are left keep their  *)
(* order.                                                                   *)
LEMMA NetRearranged ==
    ASSUME NetInv, net' \in Seq(Genuine), UNCHANGED <<typed, step, clock>>, NEW f,
           \A i \in 1 .. Len(net') :
              IsKeyPacket(net'[i]) => f[i] \in 1 .. Len(net) /\ net'[i] = net[f[i]],
           \A i, j \in 1 .. Len(net') :
              i <= j /\ IsKeyPacket(net'[i]) /\ IsKeyPacket(net'[j]) => f[i] <= f[j]
    PROVE  /\ NetInv'
           /\ \A i \in 1 .. Len(net') :
                 IsKeyPacket(net'[i]) => \E j \in 1 .. Len(net) : net'[i] = net[j]
  <1>1. ASSUME NEW i \in 1 .. Len(net'), IsKeyPacket(net'[i])
        PROVE  Typed(net'[i].key, net'[i].ts)
    <2>1. PICK m \in 1 .. Len(net) : net'[i] = net[m]
      BY <1>1
    <2>2. Typed(net[m].key, net[m].ts)
      BY <1>1, <2>1 DEF NetInv
    <2> QED
      BY <2>1, <2>2
  <1>2. ASSUME NEW i \in 1 .. Len(net'), NEW j \in 1 .. Len(net'), i <= j,
               IsKeyPacket(net'[i]), IsKeyPacket(net'[j])
        PROVE  Before(net'[i].key, net'[i].ts, net'[j].key, net'[j].ts)
    <2>1. PICK m \in 1 .. Len(net) : m = f[i] /\ net'[i] = net[m]
      BY <1>2
    <2>2. PICK n \in 1 .. Len(net) : n = f[j] /\ net'[j] = net[n]
      BY <1>2
    <2>3. m <= n
      BY <1>2, <2>1, <2>2
    <2>4. IsKeyPacket(net[m]) /\ IsKeyPacket(net[n])
      BY <1>2, <2>1, <2>2
    <2>5. Before(net[m].key, net[m].ts, net[n].key, net[n].ts)
      BY <2>3, <2>4 DEF NetInv
    <2> QED
      BY <2>1, <2>2, <2>5
  <1>3. \A i \in 1 .. Len(net') :
           IsKeyPacket(net'[i]) => \E j \in 1 .. Len(net) : net'[i] = net[j]
    OBVIOUS
  <1> QED
    BY <1>1, <1>2, <1>3 DEF NetInv, Typed

(* The last key heard is still the last, and before all that are under way. *)
LEMMA HeardKept ==
    ASSUME HeardInv, UNCHANGED <<typed, step, clock, peer, lastEvent, pushed>>,
           \A i \in 1 .. Len(net') :
              IsKeyPacket(net'[i]) => \E j \in 1 .. Len(net) : net'[i] = net[j]
    PROVE  HeardInv'
  <1>1. HeardLast => HeardLast'
    BY DEF HeardLast, Typed
  <1> QED
    BY <1>1 DEF HeardInv

(* A packet is lost or received. *)
LEMMA NetShortened ==
    ASSUME NetInv, net # <<>>, net' = Tail(net), UNCHANGED <<typed, step, clock>>
    PROVE  /\ NetInv'
           /\ \A i \in 1 .. Len(net') :
                 IsKeyPacket(net'[i]) => \E j \in 1 .. Len(net) : net'[i] = net[j]
  <1>1. net \in Seq(Genuine)
    BY DEF NetInv
  <1>2. PICK n \in Nat : Len(net) = n + 1
    BY <1>1
  <1>3. /\ net' \in Seq(Genuine) /\ Len(net') = n
        /\ \A i \in 1 .. n : net'[i] = net[i + 1]
    BY <1>1, <1>2, HeadTailProperties
  <1> DEFINE f == [i \in 1 .. n |-> i + 1]
  <1>4. /\ \A i \in 1 .. n : f[i] \in 1 .. n + 1 /\ f[i] = i + 1
        /\ \A i, j \in 1 .. n : i <= j => f[i] <= f[j]
    OBVIOUS
  <1> HIDE DEF f
  <1> QED
    BY <1>2, <1>3, <1>4, NetRearranged

(* A packet is repeated, or another source's comes first. *)
LEMMA NetLengthened ==
    ASSUME NetInv, NEW p \in Genuine, net' = <<p>> \o net, UNCHANGED <<typed, step, clock>>,
           IsKeyPacket(p) => net # <<>> /\ p = Head(net)
    PROVE  /\ NetInv'
           /\ \A i \in 1 .. Len(net') :
                 IsKeyPacket(net'[i]) => \E j \in 1 .. Len(net) : net'[i] = net[j]
  <1>1. net \in Seq(Genuine)
    BY DEF NetInv
  <1>2. PICK n \in Nat : Len(net) = n
    BY <1>1
  <1>3. /\ net' \in Seq(Genuine) /\ Len(net') = n + 1 /\ net'[1] = p
        /\ \A i \in 2 .. n + 1 : net'[i] = net[i - 1]
    <2>1. <<p>> \in Seq(Genuine) /\ Len(<<p>>) = 1 /\ <<p>>[1] = p
      OBVIOUS
    <2>2. /\ net' \in Seq(Genuine) /\ Len(net') = 1 + n
          /\ \A i \in 1 .. 1 + n : net'[i] = IF i <= 1 THEN <<p>>[i] ELSE net[i - 1]
      BY <1>1, <1>2, <2>1, ConcatProperties
    <2> QED
      BY <2>1, <2>2
  <1>4. IsKeyPacket(p) => n > 0 /\ p = net[1]
    BY <1>1, <1>2
  <1> DEFINE f == [i \in 1 .. n + 1 |-> IF i = 1 THEN 1 ELSE i - 1]
  <1>5. /\ f[1] = 1
        /\ \A i \in 2 .. n + 1 : f[i] = i - 1 /\ f[i] \in 1 .. n
        /\ \A i, j \in 1 .. n + 1 : i <= j => f[i] <= f[j]
    OBVIOUS
  <1> HIDE DEF f
  <1>6. ASSUME NEW i \in 1 .. n + 1, IsKeyPacket(net'[i])
        PROVE  f[i] \in 1 .. n /\ net'[i] = net[f[i]]
    <2>1. CASE i = 1
      BY <2>1, <1>3, <1>4, <1>5, <1>6
    <2>2. CASE i \in 2 .. n + 1
      BY <2>2, <1>3, <1>5
    <2>3. i = 1 \/ i \in 2 .. n + 1
      OBVIOUS
    <2> QED
      BY <2>1, <2>2, <2>3
  <1> QED
    BY <1>2, <1>3, <1>5, <1>6, NetRearranged

(* The next key is typed, or the one being sent goes on its way: what was   *)
(* typed before stays so.                                                   *)
LEMMA TypedStays ==
    ASSUME SendInv,
           \/ step = 0 /\ typed' = typed + 1 /\ step' = 1 /\ clock' = clock
           \/ step > 0 /\ typed' = typed /\ step' = step + 1 /\ clock' = clock
           \/ step > 0 /\ typed' = typed /\ step' = 0 /\ clock' = clock + 8
           \/ step = 0 /\ typed' = typed /\ step' = 0 /\ clock' = clock + 1,
           NEW k, NEW t, Typed(k, t)
    PROVE  Typed(k, t)'
  BY DEF SendInv, Typed, Before

(* The network is as it was while the user or the clock moves on. *)
LEMMA NetWaits ==
    ASSUME NetInv, UNCHANGED net, \A k, t : Typed(k, t) => Typed(k, t)'
    PROVE  NetInv'
  BY DEF NetInv

(* What was heard stays so while a key or audio is sent. *)
LEMMA HeardWaits ==
    ASSUME HeardInv, UNCHANGED <<peer, lastEvent, pushed>>,
           \A k, t : Typed(k, t) => Typed(k, t)',
           \A i \in 1 .. Len(net') :
              IsKeyPacket(net'[i]) =>
                 \/ \E j \in 1 .. Len(net) : net'[i] = net[j]
                 \/ \A k, t : Typed(k, t) => Before(k, t, net'[i].key, net'[i].ts)
    PROVE  HeardInv'
  <1>1. HeardLast => HeardLast'
    BY DEF HeardLast
  <1> QED
    BY <1>1 DEF HeardInv

(* A packet that is sent comes after all that are on their way. *)
LEMMA NetSent ==
    ASSUME NetInv, NEW p \in Genuine, net' = Append(net, p),
           \A k, t : Typed(k, t) => Typed(k, t)',
           IsKeyPacket(p) => /\ Typed(p.key, p.ts)
                             /\ \A k, t : Typed(k, t) => Before(k, t, p.key, p.ts)
    PROVE  /\ NetInv'
           /\ \A i \in 1 .. Len(net') :
                 IsKeyPacket(net'[i]) =>
                    \/ \E j \in 1 .. Len(net) : net'[i] = net[j]
                    \/ \A k, t : Typed(k, t) => Before(k, t, net'[i].key, net'[i].ts)
  <1>1. net \in Seq(Genuine)
    BY DEF NetInv
  <1>2. PICK n \in Nat : Len(net) = n
    BY <1>1
  <1>3. /\ net' \in Seq(Genuine) /\ Len(net') = n + 1 /\ net'[n + 1] = p
        /\ \A i \in 1 .. n : net'[i] = net[i]
    BY <1>1, <1>2, AppendProperties
  <1>4. \A i \in 1 .. n + 1 : i \in 1 .. n \/ i = n + 1
    OBVIOUS
  <1>5. ASSUME NEW i \in 1 .. n + 1, IsKeyPacket(net'[i])
        PROVE  Typed(net'[i].key, net'[i].ts)
    <2>1. CASE i = n + 1
      BY <2>1, <1>3, <1>5
    <2>2. CASE i \in 1 .. n
      BY <2>2, <1>2, <1>3, <1>5 DEF NetInv
    <2> QED
      BY <2>1, <2>2, <1>4
  <1>6. ASSUME NEW i \in 1 .. n + 1, NEW j \in 1 .. n + 1, i <= j,
               IsKeyPacket(net'[i]), IsKeyPacket(net'[j])
        PROVE  Before(net'[i].key, net'[i].ts, net'[j].key, net'[j].ts)
    <2>1. Typed(net'[i].key, net'[i].ts)
      BY <1>5, <1>6
    <2>2. CASE j = n + 1
      <3>1. net'[j] = p /\ IsKeyPacket(p)
        BY <2>2, <1>3, <1>6
      <3>2. Before(net'[i].key, net'[i].ts, p.key, p.ts)
        BY <2>1, <3>1
      <3> QED
        BY <3>1, <3>2
    <2>3. CASE j \in 1 .. n
      <3>1. i \in 1 .. n
        BY <2>3, <1>6
      <3> QED
        BY <2>3, <3>1, <1>2, <1>3, <1>6 DEF NetInv
    <2> QED
      BY <2>2, <2>3, <1>4
  <1>7. NetInv'
    BY <1>3, <1>5, <1>6 DEF NetInv, Typed
  <1> QED
    BY <1>2, <1>3, <1>4, <1>7

(* An accepted key enters the buffer, at the cost of the oldest. *)
LEMMA Buffered ==
    ASSUME BufferInv, NEW key \in Nat, digits' = Buffer(key), pushed' = Append(pushed, key),
           taken' = taken
    PROVE  BufferInv'
  <1>0. IsEndOf(digits, pushed)
    BY DEF BufferInv
  <1>1. /\ digits \in Seq(Nat) /\ pushed \in Seq(Nat) /\ IsEndOf(digits, pushed)
        /\ Len(digits) \in Nat /\ Len(pushed) \in Nat
    BY <1>0 DEF IsEndOf
  <1>2. PICK m \in Nat, n \in Nat : m = Len(digits) /\ n = Len(pushed)
    BY <1>1
  <1>a. /\ taken \in 0 .. n
        /\ m = IF n - taken > MaxBuffered THEN MaxBuffered ELSE n - taken
    BY <1>2 DEF BufferInv
  <1>b. MaxBuffered \in Nat \ {0}
    BY MediaAssumption
  <1>3. Len(pushed') = n + 1
    BY <1>1, <1>2
  <1>4. CASE m >= MaxBuffered
    <2>1. m = MaxBuffered
      BY <1>a, <1>b, <1>4
    <2>b. digits # <<>>
      BY <1>1, <1>2, <1>b, <2>1
    <2>c. Tail(digits) \in Seq(Nat) /\ Len(Tail(digits)) = m - 1
      BY <1>1, <1>2, <2>b, HeadTailProperties
    <2>2. digits' = Append(Tail(digits), key)
      BY <1>2, <1>4 DEF Buffer
    <2>3. IsEndOf(digits', pushed')
      BY <1>1, <2>b, <2>2, EndGrows
    <2>4. Len(digits') = m
      BY <2>c, <2>2, AppendProperties
    <2>5. m = IF n + 1 - taken > MaxBuffered THEN MaxBuffered ELSE n + 1 - taken
      BY <1>a, <1>b, <2>1
    <2> QED
      BY <1>a, <1>3, <2>3, <2>4, <2>5 DEF BufferInv
  <1>5. CASE m < MaxBuffered
    <2>1. digits' = Append(digits, key)
      BY <1>2, <1>b, <1>5 DEF Buffer
    <2>2. IsEndOf(digits', pushed')
      BY <1>1, <2>1, EndGrows
    <2>3. Len(digits') = m + 1
      BY <1>1, <1>2, <2>1, AppendProperties
    <2>4. m + 1 = IF n + 1 - taken > MaxBuffered THEN MaxBuffered ELSE n + 1 - taken
      BY <1>a, <1>b, <1>5
    <2> QED
      BY <1>a, <1>3, <2>2, <2>3, <2>4 DEF BufferInv
  <1> QED
    BY <1>b, <1>4, <1>5

(* A key of the peer that is accepted was typed, and after all that were     *)
(* heard: the end packets of the last one all bear its time.                *)
LEMMA AcceptedIsLater ==
    ASSUME NetInv, HeardInv, net # <<>>, Head(net).from = "peer", peer \in {"none", "peer"},
           Accepts(Head(net))
    PROVE  /\ IsKeyPacket(net[1]) /\ Head(net) = net[1]
           /\ Typed(Head(net).key, Head(net).ts)
           /\ \A i \in 1 .. Len(pushed) : pushed[i] < Head(net).key
  <1>1. Head(net) = net[1] /\ 1 \in 1 .. Len(net)
    BY DEF NetInv
  <1>2. IsKeyPacket(net[1])
    BY <1>1 DEF IsKeyPacket, Accepts
  <1>3. Typed(net[1].key, net[1].ts)
    BY <1>1, <1>2 DEF NetInv
  <1>4. ASSUME NEW i \in 1 .. Len(pushed) PROVE pushed[i] < net[1].key
    <2>1. pushed # <<>> /\ pushed \in Seq(0 .. MaxTyped) /\ Len(pushed) \in 1 .. Len(pushed)
      BY <1>4 DEF HeardInv
    <2>2. peer = "peer" /\ HeardLast
      BY <2>1 DEF HeardInv
    <2> DEFINE k == pushed[Len(pushed)]
    <2>3. Before(k, lastEvent, net[1].key, net[1].ts) /\ pushed[i] <= k
      BY <1>1, <1>2, <1>4, <2>2 DEF HeardLast
    <2>4. net[1].ts # lastEvent
      BY <1>1 DEF Accepts
    <2>5. k \in Int /\ pushed[i] \in Int /\ net[1].key \in Int
      BY <1>3, <1>4, <2>1, MediaAssumption DEF Typed
    <2> QED
      BY <2>3, <2>4, <2>5 DEF Before
  <1> QED
    BY <1>1, <1>2, <1>3, <1>4

(* An accepted key is the latest heard. *)
LEMMA HeardOne ==
    ASSUME SendInv, NetInv, HeardInv, net # <<>>, net' = Tail(net),
           UNCHANGED <<typed, step, clock>>,
           peer \in {"none", Head(net).from}, Accepts(Head(net)),
           peer' = Head(net).from, lastEvent' = Head(net).ts,
           pushed' = Append(pushed, Head(net).key)
    PROVE  HeardInv' /\ Head(net).key \in Nat
  <1> DEFINE p == Head(net)
  <1>1. /\ net \in Seq(Genuine) /\ p \in Genuine
        /\ pushed \in Seq(0 .. MaxTyped)
    BY HeadTailProperties DEF NetInv, HeardInv
  <1>2. PICK n \in Nat : n = Len(pushed)
    BY <1>1
  <1>3. /\ p.key \in 0 .. MaxTyped /\ p.ts \in Nat /\ p.from \in {"peer", "stray"}
        /\ p.from = "stray" => p.key = 0
    BY <1>1, GenuineFields
  <1>4. /\ pushed' \in Seq(0 .. MaxTyped) /\ Len(pushed') = n + 1 /\ pushed'[n + 1] = p.key
        /\ \A i \in 1 .. n : pushed'[i] = pushed[i]
        /\ pushed' # <<>>
    BY <1>1, <1>2, <1>3, AppendProperties
  <1>5. p.from = "peer" => /\ IsKeyPacket(net[1]) /\ p = net[1] /\ Typed(p.key, p.ts)
                           /\ \A i \in 1 .. n : pushed[i] < p.key
    BY <1>2, AcceptedIsLater
  <1>6. \A i \in 1 .. n : pushed[i] \in 0 .. MaxTyped /\ (pushed[i] = 0 <=> p.from = "stray")
    <2>1. peer = "none" => n = 0
      BY <1>1, <1>2 DEF HeardInv
    <2>2. \A i \in 1 .. n : pushed[i] \in 0 .. MaxTyped
      <3>1. pushed \in Seq(0 .. MaxTyped)
        BY DEF HeardInv
      <3> QED
        BY <1>2, <3>1, ElementOfSeq
    <2>3. n > 0 => peer = p.from
      BY <2>1
    <2>4. \A i \in 1 .. n : pushed[i] = 0 <=> peer = "stray"
      BY <1>2 DEF HeardInv
    <2> QED
      BY <2>2, <2>3, <2>4
  <1>7. p.key = 0 <=> p.from = "stray"
    BY <1>3, <1>5 DEF Typed
  <1> HIDE DEF p
  <1>8. \A i \in 1 .. n + 1 : i \in 1 .. n \/ i = n + 1
    OBVIOUS
  <1>9. ASSUME NEW i \in 1 .. Len(pushed') PROVE pushed'[i] = 0 <=> peer' = "stray"
    BY <1>4, <1>6, <1>7, <1>8 DEF p
  <1>10. ASSUME peer' = "peer" PROVE HeardLast'
    <2>1. /\ IsKeyPacket(net[1]) /\ p = net[1] /\ Typed(p.key, p.ts)
          /\ \A i \in 1 .. n : pushed[i] < p.key
      BY <1>5, <1>10 DEF p
    <2>2. pushed'[Len(pushed')] = p.key /\ lastEvent' = p.ts
      BY <1>4 DEF p
    <2>3. ASSUME NEW i \in 1 .. Len(net'), IsKeyPacket(net'[i])
          PROVE  Before(p.key, p.ts, net'[i].key, net'[i].ts)
      <3>1. /\ i + 1 \in 1 .. Len(net) /\ net'[i] = net[i + 1]
            /\ 1 \in 1 .. Len(net) /\ 1 <= i + 1
        BY <1>1, <2>3, HeadTailProperties
      <3> QED
        BY <2>1, <2>3, <3>1 DEF NetInv
    <2>4. \A i \in 1 .. Len(pushed') : pushed'[i] <= p.key
      <3>1. ASSUME NEW i \in 1 .. n PROVE pushed'[i] <= p.key
        <4>1. pushed'[i] = pushed[i] /\ pushed[i] < p.key
          BY <1>4, <2>1
        <4>2. pushed[i] \in 0 .. MaxTyped /\ p.key \in 0 .. MaxTyped
          BY <1>3, <1>6 DEF p
        <4>3. pushed[i] <= p.key
          BY <4>1, <4>2
        <4> QED
          BY <4>1, <4>3, Zenon
      <3>2. pushed'[n + 1] <= p.key
        BY <1>3, <1>4, MediaAssumption DEF p
      <3> QED
        BY <1>4, <1>8, <3>1, <3>2
    <2> QED
      BY <2>1, <2>2, <2>3, <2>4 DEF HeardLast, Typed
  <1>11. lastEvent' \in Nat /\ peer' # "none"
    BY <1>3 DEF p
  <1>12. p.key \in Nat
    BY <1>3, MediaAssumption DEF p
  <1> QED
    BY <1>4, <1>9, <1>10, <1>11, <1>12 DEF HeardInv, p

(* A packet that is not accepted changes nothing but the source. *)
LEMMA HeardStill ==
    ASSUME SendInv, NetInv, HeardInv, net # <<>>, NetInv',
           \A i \in 1 .. Len(net') :
              IsKeyPacket(net'[i]) => \E j \in 1 .. Len(net) : net'[i] = net[j],
           UNCHANGED <<typed, step, clock, listening, lastEvent, pushed>>, Latch(Head(net))
    PROVE  SendInv' /\ HeardInv'
  <1>1. Head(net) \in Genuine
    BY HeadTailProperties DEF NetInv
  <1>2. Head(net).from \in {"peer", "stray"}
    BY <1>1, GenuineFields
  <1>3. CASE peer = "none"
    <2>1. pushed = <<>> /\ pushed' = <<>>
      BY <1>3 DEF HeardInv
    <2>2. HeardInv'
      BY <2>1 DEF HeardInv
    <2> QED
      BY <1>2, <1>3, <2>2 DEF SendInv, Latch
  <1>4. CASE peer # "none"
    <2>1. peer' = peer
      BY <1>4 DEF Latch
    <2>2. HeardInv'
      BY <2>1, HeardKept
    <2> QED
      BY <2>1, <2>2 DEF SendInv, Latch
  <1> QED
    BY <1>3, <1>4

(* The invariant of the media, action by action. *)
LEMMA MediaStep == MediaInv /\ [MediaNext]_mediaVars => MediaInv'
  <1> SUFFICES ASSUME MediaInv, [MediaNext]_mediaVars PROVE MediaInv'
    OBVIOUS
  <1> USE MediaAssumption
  <1>m. SendInv /\ NetInv /\ HeardInv /\ BufferInv
    BY DEF MediaInv
  <1>b. ASSUME UNCHANGED <<digits, pushed, taken>> PROVE BufferInv'
    BY <1>b, <1>m DEF BufferInv
  <1>0. CASE UNCHANGED mediaVars
    BY <1>0 DEF mediaVars, MediaInv, SendInv, NetInv, HeardInv, HeardLast, Typed, BufferInv
  <1>1. CASE TypeKey
    <2>1. /\ step = 0 /\ typed < MaxTyped /\ typed' = typed + 1 /\ step' = 1 /\ clock' = clock
          /\ UNCHANGED <<net, peer, lastEvent, listening, digits, pushed, taken>>
      BY <1>1 DEF TypeKey, receiver
    <2>2. \A k, t : Typed(k, t) => Typed(k, t)'
      BY <1>m, <2>1, TypedStays
    <2>3. SendInv'
      BY <1>m, <2>1 DEF SendInv
    <2> QED
      BY <1>m, <1>b, <2>1, <2>2, <2>3, NetWaits, HeardWaits DEF MediaInv
  <1>2. CASE SendKey
    <2> DEFINE p == [kind |-> IF step <= 3 THEN "event" ELSE "end", from |-> "peer",
                     key |-> typed, ts |-> clock]
    <2>1. /\ step > 0 /\ net' = Append(net, p) /\ typed' = typed
          /\ UNCHANGED <<peer, lastEvent, listening, digits, pushed, taken>>
          /\ \/ step < 6 /\ step' = step + 1 /\ clock' = clock
             \/ step = 6 /\ step' = 0 /\ clock' = clock + 8
      BY <1>2, <1>m DEF SendKey, Send, receiver, SendInv
    <2>2. \A k, t : Typed(k, t) => Typed(k, t)'
      BY <1>m, <2>1, TypedStays
    <2>3. p \in Genuine /\ p.key = typed /\ p.ts = clock
      BY <1>m DEF SendInv, Genuine, Packet
    <2>4. Typed(typed, clock) /\ \A k, t : Typed(k, t) => Before(k, t, typed, clock)
      BY <1>m, <2>1 DEF SendInv, Typed, Before
    <2> HIDE DEF p
    <2>5. /\ NetInv'
          /\ \A i \in 1 .. Len(net') :
                IsKeyPacket(net'[i]) =>
                   \/ \E j \in 1 .. Len(net) : net'[i] = net[j]
                   \/ \A k, t : Typed(k, t) => Before(k, t, net'[i].key, net'[i].ts)
      BY <1>m, <2>1, <2>2, <2>3, <2>4, NetSent
    <2>6. HeardInv'
      BY <1>m, <2>1, <2>2, <2>5, HeardWaits
    <2>7. SendInv'
      BY <1>m, <2>1 DEF SendInv
    <2> QED
      BY <1>b, <2>1, <2>5, <2>6, <2>7 DEF MediaInv
  <1>3. CASE SendAudio
    <2> DEFINE p == [kind |-> "audio", from |-> "peer", key |-> 0, ts |-> clock]
    <2>1. /\ step = 0 /\ net' = Append(net, p) /\ typed' = typed /\ step' = 0 /\ clock' = clock + 1
          /\ UNCHANGED <<peer, lastEvent, listening, digits, pushed, taken>>
      BY <1>3 DEF SendAudio, Send, receiver
    <2>2. \A k, t : Typed(k, t) => Typed(k, t)'
      BY <1>m, <2>1, TypedStays
    <2>3. p \in Genuine /\ ~ IsKeyPacket(p)
      BY <1>m DEF SendInv, Genuine, Packet, IsKeyPacket
    <2> HIDE DEF p
    <2>4. /\ NetInv'
          /\ \A i \in 1 .. Len(net') :
                IsKeyPacket(net'[i]) =>
                   \/ \E j \in 1 .. Len(net) : net'[i] = net[j]
                   \/ \A k, t : Typed(k, t) => Before(k, t, net'[i].key, net'[i].ts)
      BY <1>m, <2>1, <2>2, <2>3, NetSent
    <2>5. HeardInv'
      BY <1>m, <2>1, <2>2, <2>4, HeardWaits
    <2>6. SendInv'
      BY <1>m, <2>1 DEF SendInv
    <2> QED
      BY <1>b, <2>1, <2>4, <2>5, <2>6 DEF MediaInv
  <1>4. CASE Lose
    <2>1. /\ net # <<>> /\ net' = Tail(net)
          /\ UNCHANGED <<typed, step, clock, peer, lastEvent, listening, digits, pushed, taken>>
      BY <1>4 DEF Lose, receiver
    <2>2. /\ NetInv'
          /\ \A i \in 1 .. Len(net') :
                IsKeyPacket(net'[i]) => \E j \in 1 .. Len(net) : net'[i] = net[j]
      BY <1>m, <2>1, NetShortened
    <2>3. HeardInv'
      BY <1>m, <2>1, <2>2, HeardKept
    <2> QED
      BY <1>m, <1>b, <2>1, <2>2, <2>3 DEF MediaInv, SendInv
  <1>5. CASE Repeat \/ Stray
    <2>1. UNCHANGED <<typed, step, clock, peer, lastEvent, listening, digits, pushed, taken>>
      BY <1>5 DEF Repeat, Stray, receiver
    <2>2. /\ NetInv'
          /\ \A i \in 1 .. Len(net') :
                IsKeyPacket(net'[i]) => \E j \in 1 .. Len(net) : net'[i] = net[j]
      <3>1. CASE Repeat
        <4> DEFINE q == Head(net)
        <4>1. net # <<>> /\ net' = <<q>> \o net /\ q \in Genuine
          BY <3>1, <1>m, HeadTailProperties DEF Repeat, NetInv
        <4>2. IsKeyPacket(q) => net # <<>> /\ q = Head(net)
          BY <4>1
        <4> HIDE DEF q
        <4> QED
          BY <1>m, <2>1, <4>1, <4>2, NetLengthened
      <3>2. CASE Stray
        <4> DEFINE q == [kind |-> "end", from |-> "stray", key |-> 0, ts |-> 1]
        <4>1. net' = <<q>> \o net /\ q \in Genuine /\ ~ IsKeyPacket(q)
          BY <3>2 DEF Stray, Genuine, Packet, IsKeyPacket
        <4>2. IsKeyPacket(q) => net # <<>> /\ q = Head(net)
          BY <4>1
        <4> HIDE DEF q
        <4> QED
          BY <1>m, <2>1, <4>1, <4>2, NetLengthened
      <3> QED
        BY <1>5, <3>1, <3>2
    <2>3. HeardInv'
      BY <1>m, <2>1, <2>2, HeardKept
    <2> QED
      BY <1>m, <1>b, <2>1, <2>2, <2>3 DEF MediaInv, SendInv
  <1>6. CASE Receive
    <2>1. /\ net # <<>> /\ net' = Tail(net) /\ Latch(Head(net))
          /\ UNCHANGED <<typed, step, clock, listening, taken>>
      BY <1>6 DEF Receive
    <2>2. /\ NetInv'
          /\ \A i \in 1 .. Len(net') :
                IsKeyPacket(net'[i]) => \E j \in 1 .. Len(net) : net'[i] = net[j]
      BY <1>m, <2>1, NetShortened
    <2>3. CASE peer \in {"none", Head(net).from} /\ Accepts(Head(net))
      <3>1. /\ lastEvent' = Head(net).ts /\ digits' = Buffer(Head(net).key)
            /\ pushed' = Append(pushed, Head(net).key) /\ peer' = Head(net).from
        BY <1>6, <2>3 DEF Receive, Latch
      <3>2. HeardInv' /\ Head(net).key \in Nat
        BY <1>m, <2>1, <2>3, <3>1, HeardOne
      <3>3. BufferInv'
        BY <1>m, <2>1, <3>1, <3>2, Buffered
      <3>4. peer' \in {"peer", "stray"}
        <4>1. Head(net) \in Genuine
          BY <1>m, <2>1, HeadTailProperties DEF NetInv
        <4> QED
          BY <3>1, <4>1, GenuineFields
      <3> QED
        BY <1>m, <2>1, <2>2, <3>2, <3>3, <3>4 DEF MediaInv, SendInv
    <2>4. CASE ~ (peer \in {"none", Head(net).from} /\ Accepts(Head(net)))
      <3>1. UNCHANGED <<lastEvent, digits, pushed>>
        BY <1>6, <2>4 DEF Receive
      <3>2. SendInv' /\ HeardInv'
        BY <1>m, <2>1, <2>2, <3>1, HeardStill
      <3> QED
        BY <1>b, <2>1, <2>2, <3>1, <3>2 DEF MediaInv
    <2> QED
      BY <2>3, <2>4
  <1>7. CASE Take
    <2>1. /\ digits' = <<>> /\ taken' = Len(pushed)
          /\ UNCHANGED <<typed, clock, step, net, peer, lastEvent, listening, pushed>>
      BY <1>7 DEF Take
    <2>2. /\ SendInv' /\ NetInv'
          /\ HeardLast => HeardLast'
      BY <1>m, <2>1 DEF SendInv, NetInv, HeardLast, Typed
    <2>3. HeardInv'
      BY <1>m, <2>1, <2>2 DEF HeardInv
    <2>4. BufferInv'
      <3>1. pushed \in Seq(Nat) /\ Len(pushed) \in Nat
        BY <1>m DEF BufferInv, IsEndOf
      <3>2. digits' \in Seq(Nat) /\ Len(digits') = 0
        BY <2>1
      <3> QED
        BY <2>1, <3>1, <3>2 DEF BufferInv, IsEndOf
    <2> QED
      BY <2>2, <2>3, <2>4 DEF MediaInv
  <1>8. CASE Deafen
    <2>1. /\ listening' = FALSE
          /\ UNCHANGED <<typed, clock, step, net, peer, lastEvent, digits, pushed, taken>>
      BY <1>8 DEF Deafen
    <2>2. /\ SendInv' /\ NetInv'
          /\ HeardLast => HeardLast'
      BY <1>m, <2>1 DEF SendInv, NetInv, HeardLast, Typed
    <2>3. HeardInv'
      BY <1>m, <2>1, <2>2 DEF HeardInv
    <2> QED
      BY <1>b, <2>1, <2>2, <2>3 DEF MediaInv
  <1> QED
    BY <1>0, <1>1, <1>2, <1>3, <1>4, <1>5, <1>6, <1>7, <1>8 DEF MediaNext

(* It holds at the start. *)
LEMMA MediaBegins == MediaInit => MediaInv
  <1> SUFFICES ASSUME MediaInit PROVE MediaInv
    OBVIOUS
  <1>1. net = <<>> /\ digits = <<>> /\ pushed = <<>>
    BY DEF MediaInit
  <1>2. NetInv /\ HeardInv
    BY <1>1 DEF MediaInit, NetInv, HeardInv
  <1>3. BufferInv
    BY <1>1, MediaAssumption DEF MediaInit, BufferInv, IsEndOf
  <1> QED
    BY <1>2, <1>3, MediaAssumption DEF MediaInit, MediaInv, SendInv

(* It always holds. *)
LEMMA MediaInvariance == Spec => []MediaInv
  <1>1. Init => MediaInv
    BY MediaBegins DEF Init
  <1>2. MediaInv /\ [Next]_vars => MediaInv'
    <2>1. [Next]_vars => [MediaNext]_mediaVars
      BY DEF Next, Media, Stream, Peers, Login, Logger, Config, PeerRequests, vars
    <2> QED
      BY <2>1, MediaStep
  <1> QED
    BY <1>1, <1>2, PTL DEF Spec

(* The receive loop hears one source for the whole call, and what waits for *)
(* the session are the latest keys it has not taken, as many as there is     *)
(* room for (rtp/receiver.rs).                                              *)
THEOREM OneSourceIsHeard == Spec => []OnlyItsPeersKeys
  <1>1. MediaInv => OnlyItsPeersKeys
    <2> SUFFICES ASSUME MediaInv PROVE OnlyItsPeersKeys
      OBVIOUS
    <2>m. SendInv /\ NetInv /\ HeardInv /\ BufferInv
      BY DEF MediaInv
    <2>1. net \in Seq(Packet)
      <3>1. Genuine \subseteq Packet /\ net \in Seq(Genuine)
        BY <2>m DEF Genuine, NetInv
      <3> QED
        BY <3>1
    <2>2. MediaTypeOK
      <3>1. Len(digits) <= MaxBuffered
        <4>1. Len(pushed) \in Nat
          BY <2>m DEF BufferInv, IsEndOf
        <4> QED
          BY <2>m, <4>1, MediaAssumption DEF BufferInv
      <3> QED
        BY <2>m, <2>1, <3>1 DEF MediaTypeOK, SendInv, HeardInv, BufferInv
    <2>3. OneSpeaker
      BY <2>m DEF HeardInv, OneSpeaker
    <2>4. BufferIsRecent
      <3>1. /\ pushed \in Seq(Nat) /\ digits \in Seq(Nat) /\ IsEndOf(digits, pushed)
        BY <2>m DEF BufferInv, IsEndOf
      <3>2. PICK n \in Nat, m \in Nat, c \in Nat :
               /\ c <= n /\ n = Len(pushed) /\ m = Len(digits) /\ c = taken
               /\ m = IF n - c > MaxBuffered THEN MaxBuffered ELSE n - c
        <4>1. Len(pushed) \in Nat /\ Len(digits) \in Nat
          BY <3>1
        <4> QED
          BY <2>m, <4>1 DEF BufferInv
      <3>3. digits = SubSeq(pushed, n - m + 1, n)
        BY <3>1, <3>2, EndIsSubSeq, Zenon
      <3> DEFINE waiting == SubSeq(pushed, c + 1, n)
      <3>4. /\ waiting \in Seq(Nat) /\ Len(waiting) = n - c
            /\ \A i \in 1 .. n - c : waiting[i] = pushed[c + i]
        <4>1. \A i \in c + 1 .. n : pushed[i] \in Nat
          BY <3>1, <3>2
        <4>2. /\ waiting \in Seq(Nat)
              /\ Len(waiting) = IF c + 1 <= n THEN n - (c + 1) + 1 ELSE 0
              /\ \A i \in 1 .. n - (c + 1) + 1 : waiting[i] = pushed[c + 1 + i - 1]
          BY <4>1, SubSeqProperties
        <4>c. c <= n
          BY <3>2
        <4>3. /\ n - (c + 1) + 1 = n - c /\ (c + 1 <= n \/ n - c = 0)
              /\ \A i \in 1 .. n - c : c + 1 + i - 1 = c + i
          BY <4>c
        <4> QED
          BY <4>2, <4>3
      <3>5. m <= n - c
        BY <3>2, MediaAssumption
      <3>6. IsEndOf(digits, waiting)
        <4>1. ASSUME NEW i \in 1 .. m PROVE digits[i] = waiting[(n - c) - m + i]
          <5>1. digits[i] = pushed[n - m + i]
            BY <3>1, <3>2 DEF IsEndOf
          <5>2. (n - c) - m + i \in 1 .. n - c /\ c + ((n - c) - m + i) = n - m + i
            BY <3>5
          <5> QED
            BY <5>1, <5>2, <3>4
        <4> QED
          BY <3>1, <3>2, <3>4, <3>5, <4>1 DEF IsEndOf
      <3> HIDE DEF waiting
      <3>7. digits = SubSeq(waiting, Len(waiting) - m + 1, Len(waiting))
        BY <3>2, <3>6, EndIsSubSeq, Zenon
      <3>8. m = IF Len(waiting) > MaxBuffered THEN MaxBuffered ELSE Len(waiting)
        BY <3>2, <3>4
      <3>9. waiting = SubSeq(pushed, taken + 1, Len(pushed))
        BY <3>2 DEF waiting
      <3> QED
        BY <3>7, <3>8, <3>9, Zenon DEF BufferIsRecent
    <2> QED
      BY <2>2, <2>3, <2>4 DEF OnlyItsPeersKeys
  <1> QED
    BY <1>1, MediaInvariance, PTL

(* Each key is heard once and in order, whatever the network loses or       *)
(* repeats and whoever else sends: the receive loop implements DigitLine.   *)
THEOREM KeysAreHeardInOrder == Spec => ImplementsDigitLine
  <1>1. Init => Line!LineInit
    BY DEF Init, MediaInit, Line!LineInit
  <1>2. MediaInv /\ [Next]_vars => [Line!Type \/ Line!Hear]_(Line!lineVars)
    <2> SUFFICES ASSUME MediaInv, [MediaNext]_mediaVars
                 PROVE  [Line!Type \/ Line!Hear]_(Line!lineVars)
      BY DEF Next, Media, Stream, Peers, Login, Logger, Config, PeerRequests, vars
    <2>m. SendInv /\ NetInv /\ HeardInv
      BY DEF MediaInv
    <2>1. CASE TypeKey
      BY <2>1 DEF TypeKey, receiver, Line!Type
    <2>2. CASE Receive
      <3>1. net # <<>> /\ Latch(Head(net)) /\ typed' = typed
        BY <2>2 DEF Receive
      <3>2. CASE peer \in {"none", Head(net).from} /\ Accepts(Head(net))
        <4>1. pushed' = Append(pushed, Head(net).key) /\ peer' = Head(net).from
          BY <2>2, <3>2 DEF Receive, Latch
        <4>2. Head(net).from \in {"peer", "stray"}
          <5>1. Head(net) \in Genuine
            BY <2>m, <3>1, HeadTailProperties DEF NetInv
          <5> QED
            BY <5>1, GenuineFields
        <4>3. CASE Head(net).from = "peer"
          <5>1. /\ Head(net).key \in 1 .. typed
                /\ \A i \in 1 .. Len(pushed) : pushed[i] < Head(net).key
            BY <2>m, <3>1, <3>2, <4>3, AcceptedIsLater DEF Typed
          <5>2. DOMAIN pushed = 1 .. Len(pushed)
            BY <2>m DEF HeardInv
          <5>3. peer # "stray" /\ peer' # "stray"
            BY <3>2, <4>1, <4>3
          <5> QED
            BY <3>1, <4>1, <5>1, <5>2, <5>3 DEF Line!Hear
        <4>4. CASE Head(net).from = "stray"
          <5>1. peer = "none" => pushed = <<>>
            BY <2>m DEF HeardInv
          <5> QED
            BY <3>1, <3>2, <4>1, <4>4, <5>1 DEF Line!lineVars
        <4> QED
          BY <4>2, <4>3, <4>4
      <3>3. CASE ~ (peer \in {"none", Head(net).from} /\ Accepts(Head(net)))
        <4>1. pushed' = pushed
          BY <2>2, <3>3 DEF Receive
        <4>2. peer' = peer \/ pushed = <<>>
          BY <2>m, <3>1 DEF Latch, HeardInv
        <4> QED
          BY <3>1, <4>1, <4>2 DEF Line!lineVars
      <3> QED
        BY <3>2, <3>3
    <2>3. CASE UNCHANGED <<typed, peer, pushed>>
      BY <2>3 DEF Line!lineVars
    <2> QED
      BY <2>1, <2>2, <2>3
      DEF MediaNext, SendKey, SendAudio, Lose, Repeat, Stray, Take, Deafen, receiver, mediaVars
  <1> QED
    BY <1>1, <1>2, MediaInvariance, PTL DEF Spec, ImplementsDigitLine, Line!LineSpec

(***************************************************************************)

(* The framing of a stream.                                                *)
(***************************************************************************)
(* A set of numbers has a least one. *)
LEMMA LeastOne ==
    ASSUME NEW T \in SUBSET Nat, T # {}
    PROVE  \E x \in T : \A y \in T : x <= y
  <1> DEFINE R == OpToRel(<, Nat)
  <1>1. IsWellFoundedOn(R, Nat)
    BY NatLessThanWellFounded
  <1>2. \A x \in Nat, y \in Nat : y < x => <<y, x>> \in R
    BY DEF OpToRel
  <1> HIDE DEF R
  <1>3. PICK x \in T : \A y \in T : ~ (<<y, x>> \in R)
    BY <1>1, WFMin
  <1>4. ASSUME NEW y \in T PROVE x <= y
    <2>1. x \in Nat /\ y \in Nat
      OBVIOUS
    <2>2. ~ (<<y, x>> \in R)
      BY <1>3
    <2>3. ~ (y < x)
      BY <1>2, <2>1, <2>2
    <2> QED
      BY <2>1, <2>3
  <1> QED
    BY <1>4

(* What a byte of the stream is. *)
LEMMA ByteFields ==
    ASSUME NEW b \in StreamByte
    PROVE  /\ b[1] \in Nat /\ b[2] \in Nat
           /\ ~IsCrlf(b) => b[1] \in Messages /\ b[2] \in 1 .. Size(b[1]) /\ b = <<b[1], b[2]>>
  <1>1. CASE b = <<0, 0>>
    BY <1>1 DEF IsCrlf
  <1>2. CASE b \in UNION {{<<m, i>> : i \in 1 .. Size(m)} : m \in Messages}
    <2>1. PICK m \in Messages : \E i \in 1 .. Size(m) : b = <<m, i>>
      BY <1>2
    <2>2. PICK i \in 1 .. Size(m) : b = <<m, i>>
      BY <2>1
    <2>3. Size(m) \in Nat
      BY FramingAssumption DEF Size, HeaderSize
    <2> QED
      BY <2>2, <2>3, FramingAssumption DEF Messages
  <1> QED
    BY <1>1, <1>2 DEF StreamByte

(* A message has at least its header, and none of its bytes is a CRLF. *)
LEMMA WholeFields ==
    ASSUME NEW m \in Messages
    PROVE  /\ m \in Nat \ {0} /\ Body[m] \in Nat /\ Size(m) \in Nat /\ Size(m) = 2 + Body[m]
           /\ Whole(m) \in Seq(StreamByte) /\ Len(Whole(m)) = Size(m)
           /\ \A i \in 1 .. Size(m) :
                 Whole(m)[i] = <<m, i>> /\ ~IsCrlf(<<m, i>>) /\ <<m, i>> \in StreamByte
  <1>1. m \in Nat \ {0} /\ Body[m] \in Nat /\ Size(m) \in Nat /\ Size(m) = 2 + Body[m]
    BY FramingAssumption DEF Messages, Size, HeaderSize
  <1>2. \A i \in 1 .. Size(m) : <<m, i>> \in StreamByte
    BY DEF StreamByte
  <1>3. \A i \in 1 .. Size(m) : ~IsCrlf(<<m, i>>)
    BY <1>1 DEF IsCrlf
  <1>4. Whole(m) \in Seq(StreamByte) /\ Len(Whole(m)) = Size(m)
    BY <1>1, <1>2 DEF Whole
  <1> QED
    BY <1>1, <1>2, <1>3, <1>4 DEF Whole

(* The bytes of another message begin elsewhere. *)
LEMMA StartsInOrder ==
    ASSUME NEW s \in Seq(StreamByte), NEW f \in Nat, NEW l \in Nat, InOrder(s, f, l),
           NEW i \in 1 .. Len(s), NEW j \in 1 .. Len(s), ~IsCrlf(s[i]), ~IsCrlf(s[j])
    PROVE  /\ i < j => s[i][1] <= s[j][1]
           /\ i < j /\ s[i][1] = s[j][1] => s[i][2] < s[j][2]
           /\ s[i][1] \in f .. l
  <1>1. s[i] \in StreamByte /\ s[j] \in StreamByte /\ DOMAIN s = 1 .. Len(s)
    BY ElementOfSeq, LenProperties
  <1>2. s[i][1] \in Nat /\ s[j][1] \in Nat /\ s[i][2] \in Nat /\ s[j][2] \in Nat
    BY <1>1, ByteFields
  <1>3. s[i][1] \in f .. l
    BY <1>1 DEF InOrder
  <1>4. ASSUME i < j PROVE WrittenBefore(s[i], s[j])
    <2>1. i \in 1 .. j - 1
      BY <1>4
    <2> QED
      BY <1>1, <2>1 DEF InOrder
  <1> QED
    BY <1>2, <1>3, <1>4 DEF WrittenBefore

(* What is left when the front is cut off, if it is cut between messages. *)
LEMMA FrontGoes ==
    ASSUME NEW s \in Seq(StreamByte), NEW f \in Nat, NEW l \in Nat, InOrder(s, f, l),
           f >= 1, l <= LastMessage,
           NEW d \in 0 .. Len(s), NEW t \in Seq(StreamByte), Len(t) = Len(s) - d,
           \A i \in 1 .. Len(t) : t[i] = s[d + i],
           NEW g \in Nat, f <= g,
           \A i \in 1 .. d : IsCrlf(s[i]) \/ s[i][1] < g,
           \A i \in d + 1 .. Len(s) : IsCrlf(s[i]) \/ s[i][1] >= g
    PROVE  InOrder(t, g, l)
  <1>0. PICK n \in Nat : n = Len(s)
    OBVIOUS
  <1>a. LastMessage \in Nat
    BY FramingAssumption
  <1>1. ASSUME NEW m \in g .. l PROVE \E k \in 0 .. Len(t) : LiesAt(t, m, k)
    <2>1. m \in Messages /\ m \in f .. l /\ m \in Nat /\ m >= g
      BY <1>a DEF Messages
    <2>2. PICK k \in 0 .. n : LiesAt(s, m, k)
      BY <1>0, <2>1 DEF InOrder
    <2>3. /\ Size(m) \in Nat /\ Size(m) >= 2 /\ ~IsCrlf(<<m, 1>>)
      BY <2>1, WholeFields
    <2>4. k + Size(m) <= n /\ \A i \in 1 .. Size(m) : s[k + i] = <<m, i>>
      BY <1>0, <2>2 DEF LiesAt
    <2>5. s[k + 1] = <<m, 1>>
      BY <2>3, <2>4
    <2>6. k >= d
      <3> SUFFICES ASSUME k < d PROVE FALSE
        BY <1>0
      <3>1. k + 1 \in 1 .. d
        BY <1>0
      <3>2. IsCrlf(s[k + 1]) \/ s[k + 1][1] < g
        BY <3>1
      <3> QED
        BY <2>1, <2>3, <2>5, <3>2
    <2>7. PICK e \in Nat, c \in Nat : d + e = k /\ e + c = Len(t) /\ c >= Size(m)
      <3>1. d \in Nat /\ k \in Nat /\ k - d \in Nat /\ d + (k - d) = k
        BY <1>0, <2>6
      <3>2. (k - d) + (n - k) = Len(t) /\ n - k \in Nat /\ n - k >= Size(m)
        BY <1>0, <2>3, <2>4
      <3> QED
        BY <3>1, <3>2
    <2>8. Len(t) \in Nat /\ e \in 0 .. Len(t) /\ e + Size(m) <= Len(t)
      BY <2>3, <2>7
    <2>9. ASSUME NEW i \in 1 .. Size(m) PROVE t[e + i] = <<m, i>>
      <3>1. e + i \in 1 .. Len(t)
        BY <2>3, <2>7, <2>8
      <3>2. t[e + i] = s[d + (e + i)]
        BY <3>1
      <3>3. d + (e + i) = k + i
        BY <2>3, <2>7
      <3> QED
        BY <2>4, <3>2, <3>3
    <2> QED
      BY <2>8, <2>9 DEF LiesAt
  <1>2. \A i \in 1 .. Len(t) : d + i \in 1 .. n /\ d + i \in d + 1 .. n /\ t[i] = s[d + i]
    BY <1>0
  <1>3. ASSUME NEW i \in 1 .. Len(t) PROVE IsCrlf(t[i]) \/ t[i][1] \in g .. l
    <2>1. CASE ~IsCrlf(t[i])
      <3>1. s[d + i][1] \in f .. l
        BY <1>0, <1>2, <2>1, StartsInOrder
      <3>2. s[d + i][1] >= g
        BY <1>0, <1>2, <2>1
      <3> QED
        BY <1>2, <3>1, <3>2
    <2> QED
      BY <2>1
  <1>4. ASSUME NEW j \in 1 .. Len(t), NEW i \in 1 .. j - 1
        PROVE  IsCrlf(t[i]) \/ IsCrlf(t[j]) \/ WrittenBefore(t[i], t[j])
    <2>1. PICK p \in 1 .. n, q \in Nat : q \in 1 .. p - 1 /\ p = d + j /\ q = d + i
      <3>1. d + j \in 1 .. n /\ d + i \in 1 .. (d + j) - 1
        BY <1>2
      <3> QED
        BY <3>1
    <2>2. i \in 1 .. Len(t) /\ p \in DOMAIN s
      BY <1>0, <2>1
    <2>3. IsCrlf(s[q]) \/ IsCrlf(s[p]) \/ WrittenBefore(s[q], s[p])
      BY <2>1, <2>2 DEF InOrder
    <2> QED
      BY <1>2, <2>1, <2>2, <2>3
  <1>5. DOMAIN t = 1 .. Len(t)
    OBVIOUS
  <1> QED
    BY <1>1, <1>3, <1>4, <1>5 DEF InOrder

(* Two sequences put together. *)
LEMMA ConcatFields ==
    ASSUME NEW s \in Seq(StreamByte), NEW t \in Seq(StreamByte)
    PROVE  \E u \in Seq(StreamByte) :
              /\ u = s \o t /\ Len(u) = Len(s) + Len(t)
              /\ \A i \in 1 .. Len(s) : u[i] = s[i]
              /\ \A i \in 1 .. Len(t) : u[Len(s) + i] = t[i]
  <1>0. PICK n \in Nat, z \in Nat : n = Len(s) /\ z = Len(t)
    OBVIOUS
  <1> DEFINE u == s \o t
  <1>1. /\ u \in Seq(StreamByte) /\ Len(u) = Len(s) + Len(t)
        /\ \A i \in 1 .. Len(s) + Len(t) : u[i] = IF i <= Len(s) THEN s[i] ELSE t[i - Len(s)]
    BY ConcatProperties
  <1> HIDE DEF u
  <1>2. Len(s) = n /\ Len(t) = z
    BY <1>0
  <1>3. ASSUME NEW i \in 1 .. z PROVE u[n + i] = t[i]
    <2>1. n + i \in 1 .. n + z /\ ~ (n + i <= n) /\ (n + i) - n = i
      OBVIOUS
    <2> QED
      BY <1>1, <1>2, <2>1
  <1>4. ASSUME NEW i \in 1 .. n PROVE u[i] = s[i]
    <2>1. i \in 1 .. n + z /\ i <= n
      OBVIOUS
    <2> QED
      BY <1>1, <1>2, <2>1
  <1> QED
    BY <1>1, <1>2, <1>3, <1>4 DEF u

(* A message that is written comes after what is on its way. *)
LEMMA StreamGrows ==
    ASSUME NEW s \in Seq(StreamByte), NEW f \in Nat, NEW l \in Nat, InOrder(s, f, l),
           f >= 1, f <= l + 1, l + 1 \in Messages,
           NEW u \in Seq(StreamByte), NEW c \in Nat, Len(u) = c + Size(l + 1),
           \A i \in 1 .. c : IsCrlf(u[i]),
           \A i \in 1 .. Size(l + 1) : u[c + i] = <<l + 1, i>>
    PROVE  InOrder(s \o u, f, l + 1)
  <1> DEFINE t == s \o u
  <1>0. PICK n \in Nat, z \in Nat : n = Len(s) /\ z = Size(l + 1)
    BY WholeFields
  <1>1. /\ t \in Seq(StreamByte) /\ Len(t) = n + (c + z)
        /\ \A i \in 1 .. n : t[i] = s[i]
        /\ \A i \in 1 .. c + z : t[n + i] = u[i]
    <2>1. PICK v \in Seq(StreamByte) :
             /\ v = t /\ Len(v) = Len(s) + Len(u)
             /\ \A i \in 1 .. Len(s) : v[i] = s[i]
             /\ \A i \in 1 .. Len(u) : v[Len(s) + i] = u[i]
      BY ConcatFields
    <2>2. Len(u) = c + z
      BY <1>0
    <2> HIDE DEF t
    <2> QED
      BY <1>0, <2>1, <2>2
  <1> HIDE DEF t
  <1>2. ASSUME NEW i \in 1 .. Len(t)
        PROVE  \/ i \in 1 .. n /\ t[i] = s[i]
               \/ i > n /\ IsCrlf(t[i])
               \/ \E k \in 1 .. z : i = n + (c + k) /\ t[i] = <<l + 1, k>>
    <2>1. CASE i <= n
      BY <1>1, <2>1
    <2>2. CASE i > n /\ i <= n + c
      <3>1. i - n \in 1 .. c + z /\ n + (i - n) = i /\ i - n \in 1 .. c
        BY <2>2
      <3>2. t[i] = u[i - n]
        BY <1>1, <3>1
      <3> QED
        BY <2>2, <3>1, <3>2
    <2>3. CASE i > n + c
      <3>1. PICK k \in 1 .. z : i = n + (c + k)
        <4>1. i - (n + c) \in 1 .. z /\ i = n + (c + (i - (n + c)))
          BY <1>1, <2>3
        <4> QED
          BY <4>1
      <3>2. c + k \in 1 .. c + z
        OBVIOUS
      <3>3. t[i] = u[c + k]
        BY <1>1, <3>1, <3>2
      <3> QED
        BY <1>0, <3>1, <3>3
    <2> QED
      BY <1>1, <2>1, <2>2, <2>3
  <1>3. ASSUME NEW m \in f .. l + 1 PROVE \E k \in 0 .. Len(t) : LiesAt(t, m, k)
    <2>1. CASE m = l + 1
      <3>1. n + c \in 0 .. Len(t) /\ (n + c) + Size(m) <= Len(t)
        BY <1>0, <1>1, <2>1
      <3>2. ASSUME NEW i \in 1 .. Size(m) PROVE t[(n + c) + i] = <<m, i>>
        <4>1. c + i \in 1 .. c + z /\ n + (c + i) = (n + c) + i
          BY <1>0, <2>1
        <4>2. t[n + (c + i)] = u[c + i]
          BY <1>1, <4>1
        <4> QED
          BY <2>1, <4>1, <4>2
      <3> QED
        BY <3>1, <3>2 DEF LiesAt
    <2>2. CASE m \in f .. l
      <3>1. PICK k \in 0 .. n : LiesAt(s, m, k)
        BY <1>0, <2>2 DEF InOrder
      <3>2. Size(m) \in Nat
        <4>1. m \in Messages
          BY <2>2, FramingAssumption DEF Messages
        <4> QED
          BY <4>1, WholeFields
      <3>3. k + Size(m) <= n /\ \A i \in 1 .. Size(m) : s[k + i] = <<m, i>>
        BY <1>0, <3>1 DEF LiesAt
      <3>4. \A i \in 1 .. Size(m) : k + i \in 1 .. n
        BY <3>2, <3>3
      <3>5. \A i \in 1 .. Size(m) : t[k + i] = <<m, i>>
        BY <1>1, <3>3, <3>4
      <3>6. k \in 0 .. Len(t) /\ k + Size(m) <= Len(t)
        BY <1>1, <3>2, <3>3
      <3> QED
        BY <3>5, <3>6 DEF LiesAt
    <2> QED
      BY <2>1, <2>2
  <1>4. DOMAIN s = 1 .. n /\ DOMAIN t = 1 .. Len(t)
    BY <1>0, <1>1
  <1>5. ASSUME NEW i \in 1 .. Len(t) PROVE IsCrlf(t[i]) \/ t[i][1] \in f .. l + 1
    <2>1. CASE i \in 1 .. n /\ t[i] = s[i]
      <3>1. IsCrlf(s[i]) \/ s[i][1] \in f .. l
        BY <1>4, <2>1 DEF InOrder
      <3> QED
        BY <2>1, <3>1
    <2>2. CASE \E k \in 1 .. z : i = n + (c + k) /\ t[i] = <<l + 1, k>>
      <3>1. t[i][1] = l + 1
        BY <2>2
      <3>2. l + 1 \in f .. l + 1
        OBVIOUS
      <3> QED
        BY <3>1, <3>2
    <2> QED
      BY <1>2, <2>1, <2>2
  <1>6. ASSUME NEW j \in 1 .. Len(t), NEW i \in 1 .. j - 1
        PROVE  IsCrlf(t[i]) \/ IsCrlf(t[j]) \/ WrittenBefore(t[i], t[j])
    <2>0. i \in 1 .. Len(t) /\ i < j
      BY <1>1
    <2>1. CASE j \in 1 .. n /\ t[j] = s[j]
      <3>1. i \in 1 .. n /\ t[i] = s[i]
        BY <1>1, <2>1
      <3> QED
        BY <1>4, <2>1, <3>1 DEF InOrder
    <2>2. ASSUME NEW k \in 1 .. z, j = n + (c + k), t[j] = <<l + 1, k>>
          PROVE  IsCrlf(t[i]) \/ IsCrlf(t[j]) \/ WrittenBefore(t[i], t[j])
      <3>1. CASE i \in 1 .. n /\ t[i] = s[i]
        <4>1. IsCrlf(s[i]) \/ s[i][1] \in f .. l
          BY <1>4, <3>1 DEF InOrder
        <4>2. s[i][1] \in f .. l => s[i][1] < l + 1
          OBVIOUS
        <4> QED
          BY <2>2, <3>1, <4>1, <4>2 DEF WrittenBefore
      <3>2. ASSUME NEW h \in 1 .. z, i = n + (c + h), t[i] = <<l + 1, h>>
            PROVE  WrittenBefore(t[i], t[j])
        <4>1. h < k
          BY <2>0, <2>2, <3>2
        <4> QED
          BY <2>2, <3>2, <4>1 DEF WrittenBefore
      <3> QED
        BY <1>2, <2>0, <3>1, <3>2
    <2> QED
      BY <1>2, <2>1, <2>2
  <1> QED
    BY <1>3, <1>4, <1>5, <1>6 DEF InOrder, t

(* The first message that is left is at the front, if no keep-alive is. *)
LEMMA FirstIsWhole ==
    ASSUME NEW s \in Seq(StreamByte), NEW f \in Nat, NEW l \in Nat, InOrder(s, f, l),
           f >= 1, l <= LastMessage, s # <<>>, ~IsCrlf(s[1])
    PROVE  f <= l /\ f \in Messages /\ LiesAt(s, f, 0)
  <1>0. PICK n \in Nat \ {0} : n = Len(s)
    BY EmptySeq
  <1>1. s[1] \in StreamByte /\ s[1][1] \in f .. l
    <2>1. 1 \in 1 .. Len(s)
      BY <1>0
    <2> QED
      BY <2>1, StartsInOrder, ElementOfSeq
  <1>2. f <= l /\ f \in Messages /\ s[1][1] \in Nat /\ s[1][1] >= f /\ s[1][2] \in Nat
    BY <1>1, ByteFields, FramingAssumption DEF Messages
  <1>3. PICK k \in 0 .. n : LiesAt(s, f, k)
    BY <1>0, <1>2 DEF InOrder
  <1>4. Size(f) \in Nat /\ Size(f) >= 2 /\ ~IsCrlf(<<f, 1>>)
    BY <1>2, WholeFields
  <1>5. k + Size(f) <= n /\ s[k + 1] = <<f, 1>>
    BY <1>0, <1>3, <1>4 DEF LiesAt
  <1>6. k = 0
    <2> SUFFICES ASSUME k > 0 PROVE FALSE
      BY <1>0
    <2>1. 1 \in 1 .. Len(s) /\ k + 1 \in 1 .. Len(s) /\ 1 < k + 1
      BY <1>0, <1>4, <1>5
    <2>2. s[1][1] <= s[k + 1][1] /\ (s[1][1] = s[k + 1][1] => s[1][2] < s[k + 1][2])
      BY <1>4, <1>5, <2>1, StartsInOrder
    <2>3. s[k + 1][1] = f /\ s[k + 1][2] = 1
      BY <1>5
    <2>4. s[1][1] = f /\ s[1][2] < 1
      BY <1>2, <2>2, <2>3
    <2>5. s[1][2] >= 1
      <3>1. s[1][2] \in 1 .. Size(f)
        BY <1>1, <2>4, ByteFields
      <3> QED
        BY <1>4, <3>1
    <2> QED
      BY <1>2, <2>4, <2>5
  <1> QED
    BY <1>2, <1>3, <1>6

(* Cutting a sequence before another one follows. *)
LEMMA CutBeforeConcat ==
    ASSUME NEW b \in Seq(StreamByte), NEW w \in Seq(StreamByte), NEW d \in 0 .. Len(b)
    PROVE  /\ SubSeq(b, d + 1, Len(b)) \in Seq(StreamByte)
           /\ Len(SubSeq(b, d + 1, Len(b))) = Len(b) - d
           /\ \A i \in 1 .. Len(b) - d : SubSeq(b, d + 1, Len(b))[i] = b[d + i]
           /\ SubSeq(b, d + 1, Len(b)) \o w \in Seq(StreamByte)
           /\ Len(SubSeq(b, d + 1, Len(b)) \o w) = Len(b \o w) - d
           /\ \A i \in 1 .. Len(b \o w) - d :
                 (SubSeq(b, d + 1, Len(b)) \o w)[i] = (b \o w)[d + i]
  <1> DEFINE c == SubSeq(b, d + 1, Len(b))
  <1>0. PICK n \in Nat, e \in Nat, z \in Nat : n = Len(b) /\ n = d + e /\ z = Len(w)
    <2>1. Len(b) \in Nat /\ Len(w) \in Nat /\ Len(b) - d \in Nat /\ d + (Len(b) - d) = Len(b)
      OBVIOUS
    <2> QED
      BY <2>1
  <1>1. /\ c \in Seq(StreamByte) /\ Len(c) = e
        /\ \A i \in 1 .. e : c[i] = b[d + i]
    <2>1. ASSUME NEW i \in d + 1 .. n PROVE b[i] \in StreamByte
      <3>1. i \in 1 .. Len(b)
        BY <1>0
      <3> QED
        BY <3>1, ElementOfSeq
    <2>2. /\ d + 1 \in Int /\ n \in Int /\ n - (d + 1) + 1 = e /\ (d + 1 <= n \/ e = 0)
          /\ \A i \in 1 .. e : d + 1 + i - 1 = d + i
      BY <1>0
    <2>3. /\ c \in Seq(StreamByte)
          /\ Len(c) = IF d + 1 <= n THEN n - (d + 1) + 1 ELSE 0
          /\ \A i \in 1 .. n - (d + 1) + 1 : c[i] = b[d + 1 + i - 1]
      BY <1>0, <2>1, SubSeqProperties
    <2> QED
      BY <2>2, <2>3
  <1> HIDE DEF c
  <1>2. PICK u \in Seq(StreamByte) :
           /\ u = c \o w /\ Len(u) = e + z
           /\ \A i \in 1 .. e : u[i] = c[i]
           /\ \A i \in 1 .. z : u[e + i] = w[i]
    <2>1. PICK u \in Seq(StreamByte) :
             /\ u = c \o w /\ Len(u) = Len(c) + Len(w)
             /\ \A i \in 1 .. Len(c) : u[i] = c[i]
             /\ \A i \in 1 .. Len(w) : u[Len(c) + i] = w[i]
      BY <1>1, ConcatFields
    <2>2. Len(c) = e /\ Len(w) = z
      BY <1>0, <1>1
    <2> QED
      BY <2>1, <2>2
  <1>3. PICK s \in Seq(StreamByte) :
           /\ s = b \o w /\ Len(s) = n + z
           /\ \A i \in 1 .. n : s[i] = b[i]
           /\ \A i \in 1 .. z : s[n + i] = w[i]
    <2>1. PICK s \in Seq(StreamByte) :
             /\ s = b \o w /\ Len(s) = Len(b) + Len(w)
             /\ \A i \in 1 .. Len(b) : s[i] = b[i]
             /\ \A i \in 1 .. Len(w) : s[Len(b) + i] = w[i]
      BY ConcatFields
    <2>2. Len(b) = n /\ Len(w) = z
      BY <1>0
    <2> QED
      BY <2>1, <2>2
  <1>4. ASSUME NEW i \in 1 .. e + z PROVE u[i] = s[d + i]
    <2>1. CASE i <= e
      <3>1. i \in 1 .. e /\ d + i \in 1 .. n
        BY <1>0, <2>1
      <3> QED
        BY <1>1, <1>2, <1>3, <3>1
    <2>2. CASE i > e
      <3>1. PICK k \in 1 .. z : i = e + k
        <4>1. i - e \in 1 .. z /\ i = e + (i - e)
          BY <1>0, <2>2
        <4> QED
          BY <4>1
      <3>2. d + i = n + k
        BY <1>0, <3>1
      <3> QED
        BY <1>2, <1>3, <3>1, <3>2
    <2> QED
      BY <1>0, <2>1, <2>2
  <1>5. Len(b) - d = e /\ Len(s) - d = e + z
    <2>1. n - d = e /\ (n + z) - d = e + z
      BY <1>0
    <2>2. Len(b) = n /\ Len(s) = n + z
      BY <1>0, <1>3
    <2> QED
      BY <2>1, <2>2
  <1> QED
    BY <1>1, <1>2, <1>3, <1>4, <1>5 DEF c

(* What SkipLeading leaves of a buffer. *)
LEMMA SkippedIsEnd ==
    ASSUME NEW b \in Seq(StreamByte)
    PROVE  \E d \in 0 .. Len(b) :
              /\ SkipLeading(b) = SubSeq(b, d + 1, Len(b))
              /\ \A i \in 1 .. d : IsCrlf(b[i])
              /\ d < Len(b) => ~IsCrlf(b[d + 1])
  <1>0. PICK n \in Nat : n = Len(b) /\ DOMAIN b = 1 .. n
    OBVIOUS
  <1>1. CASE \A i \in DOMAIN b : IsCrlf(b[i])
    <2>1. SkipLeading(b) = <<>>
      BY <1>1 DEF SkipLeading
    <2>2. SubSeq(b, n + 1, Len(b)) = <<>>
      BY <1>0, SubSeqEmpty
    <2> QED
      BY <1>0, <1>1, <2>1, <2>2
  <1>2. CASE ~ \A i \in DOMAIN b : IsCrlf(b[i])
    <2> DEFINE T == {i \in 1 .. n : ~IsCrlf(b[i])}
               AtFront(i) == ~IsCrlf(b[i]) /\ \A j \in 1 .. i - 1 : IsCrlf(b[j])
    <2>1. PICK x \in T : \A y \in T : x <= y
      <3>1. T \in SUBSET Nat /\ T # {}
        BY <1>0, <1>2
      <3> HIDE DEF T
      <3> QED
        BY <3>1, LeastOne
    <2>2. AtFront(x) /\ x \in DOMAIN b
      BY <1>0, <2>1
    <2> DEFINE first == CHOOSE i \in DOMAIN b : AtFront(i)
    <2>3. first \in DOMAIN b /\ AtFront(first)
      <3> HIDE DEF AtFront
      <3> QED
        BY <2>2
    <2>4. SkipLeading(b) = SubSeq(b, first, n)
      BY <1>0, <1>2 DEF SkipLeading
    <2> HIDE DEF first
    <2>5. PICK d \in 0 .. n : first = d + 1 /\ d < n
      <3>1. first \in 1 .. n
        BY <1>0, <2>3
      <3>2. first - 1 \in 0 .. n /\ first = (first - 1) + 1 /\ first - 1 < n
        BY <3>1
      <3> QED
        BY <3>2
    <2>6. d + 1 - 1 = d
      OBVIOUS
    <2> QED
      BY <1>0, <2>3, <2>4, <2>5, <2>6
  <1> QED
    BY <1>1, <1>2

(* The keep-alives at the front go and no message is touched; if anything   *)
(* is left in the buffer, it begins with the next message.                  *)
LEMMA KeepAlivesGo ==
    ASSUME NEW b \in Seq(StreamByte), NEW w \in Seq(StreamByte),
           NEW f \in Nat, NEW l \in Nat, f >= 1, l <= LastMessage, InOrder(b \o w, f, l)
    PROVE  /\ SkipLeading(b) \in Seq(StreamByte)
           /\ SkipLeading(b) \o w \in Seq(StreamByte)
           /\ InOrder(SkipLeading(b) \o w, f, l)
           /\ SkipLeading(b) # <<>> =>
                 /\ f <= l /\ f \in Messages
                 /\ LiesAt(SkipLeading(b) \o w, f, 0)
                 /\ \A i \in 1 .. Size(f) : i <= Len(SkipLeading(b)) => SkipLeading(b)[i] = <<f, i>>
  <1>1. PICK d \in 0 .. Len(b) :
           /\ SkipLeading(b) = SubSeq(b, d + 1, Len(b))
           /\ \A i \in 1 .. d : IsCrlf(b[i])
           /\ d < Len(b) => ~IsCrlf(b[d + 1])
    BY SkippedIsEnd
  <1> DEFINE c == SkipLeading(b)
             s == b \o w
  <1>2. PICK n \in Nat, e \in Nat, z \in Nat : n = Len(b) /\ n = d + e /\ z = Len(w)
    <2>1. Len(b) \in Nat /\ Len(w) \in Nat /\ Len(b) - d \in Nat /\ d + (Len(b) - d) = Len(b)
      OBVIOUS
    <2> QED
      BY <2>1
  <1>3. /\ c \in Seq(StreamByte) /\ Len(c) = Len(b) - d
        /\ \A i \in 1 .. Len(b) - d : c[i] = b[d + i]
        /\ c \o w \in Seq(StreamByte) /\ Len(c \o w) = Len(s) - d
        /\ \A i \in 1 .. Len(s) - d : (c \o w)[i] = s[d + i]
    BY <1>1, CutBeforeConcat
  <1> HIDE DEF c
  <1>4. /\ s \in Seq(StreamByte) /\ Len(s) = n + z
        /\ \A i \in 1 .. n : s[i] = b[i]
    <2>1. PICK v \in Seq(StreamByte) :
             /\ v = s /\ Len(v) = Len(b) + Len(w)
             /\ \A i \in 1 .. Len(b) : v[i] = b[i]
      BY ConcatFields
    <2> HIDE DEF s
    <2> QED
      BY <1>2, <2>1
  <1> HIDE DEF s
  <1>5. InOrder(s, f, l)
    BY DEF s
  <1>6. InOrder(c \o w, f, l)
    <2>1. d \in 0 .. Len(s) /\ Len(s) \in Nat
      BY <1>2, <1>4
    <2>2. ASSUME NEW i \in 1 .. d PROVE IsCrlf(s[i])
      <3>1. i \in 1 .. n
        BY <1>2
      <3>2. s[i] = b[i]
        BY <1>4, <3>1
      <3> QED
        BY <1>1, <3>2
    <2>3. ASSUME NEW i \in d + 1 .. Len(s) PROVE IsCrlf(s[i]) \/ s[i][1] >= f
      <3>1. i \in 1 .. Len(s)
        BY <2>1
      <3>2. DOMAIN s = 1 .. Len(s) /\ s[i] \in StreamByte
        BY <1>4, <3>1, ElementOfSeq
      <3>3. IsCrlf(s[i]) \/ s[i][1] \in f .. l
        BY <1>5, <3>1, <3>2 DEF InOrder
      <3> QED
        BY <3>3
    <2>4. \A i \in 1 .. Len(c \o w) : (c \o w)[i] = s[d + i]
      BY <1>3
    <2>5. f <= f
      OBVIOUS
    <2> QED
      BY <1>3, <1>4, <1>5, <2>1, <2>2, <2>3, <2>4, <2>5, FrontGoes
  <1>7. ASSUME c # <<>>
        PROVE  /\ f <= l /\ f \in Messages
               /\ LiesAt(c \o w, f, 0)
               /\ \A i \in 1 .. Size(f) : i <= Len(c) => c[i] = <<f, i>>
    <2>1. Len(c) = e /\ e >= 1
      <3>1. Len(c) = e
        <4>1. Len(b) - d = e
          BY <1>2
        <4> QED
          BY <1>3, <4>1
      <3>2. Len(c) \in Nat \ {0}
        BY <1>3, <1>7, EmptySeq
      <3> QED
        BY <3>1, <3>2
    <2>2. /\ Len(c \o w) = e + z
          /\ \A i \in 1 .. e : (c \o w)[i] = c[i]
      <3>1. PICK v \in Seq(StreamByte) :
               /\ v = c \o w /\ Len(v) = Len(c) + Len(w)
               /\ \A i \in 1 .. Len(c) : v[i] = c[i]
        BY <1>3, ConcatFields
      <3> QED
        BY <1>2, <2>1, <3>1
    <2>3. c \o w # <<>> /\ ~IsCrlf((c \o w)[1])
      <3>1. 1 \in 1 .. e /\ 1 \in 1 .. Len(b) - d /\ d < Len(b)
        BY <1>2, <2>1
      <3>2. c[1] = b[d + 1]
        BY <1>3, <3>1
      <3>3. Len(c \o w) # 0
        BY <1>2, <2>1, <2>2
      <3> QED
        BY <1>1, <1>3, <2>2, <3>1, <3>2, <3>3, EmptySeq
    <2>4. f <= l /\ f \in Messages /\ LiesAt(c \o w, f, 0)
      BY <1>3, <1>6, <2>3, FirstIsWhole
    <2>5. Size(f) \in Nat
      BY <2>4, WholeFields
    <2>6. ASSUME NEW i \in 1 .. Size(f), i <= Len(c) PROVE c[i] = <<f, i>>
      <3>1. i \in 1 .. e /\ 0 + i = i
        BY <1>2, <2>1, <2>5, <2>6
      <3> QED
        BY <2>2, <2>4, <3>1 DEF LiesAt
    <2> QED
      BY <2>4, <2>6
  <1> QED
    BY <1>3, <1>6, <1>7 DEF c

(* What extract_sip_message finds when the next message is at the front. *)
LEMMA CompleteIsSize ==
    ASSUME NEW b \in Seq(StreamByte), b # <<>>, NEW f \in Messages,
           \A i \in 1 .. Size(f) : i <= Len(b) => b[i] = <<f, i>>
    PROVE  Complete(b) = IF f \in garbled \/ Len(b) < Size(f) THEN 0 ELSE Size(f)
  <1>0. PICK n \in Nat \ {0} : n = Len(b) /\ DOMAIN b = 1 .. n
    BY EmptySeq
  <1>1. /\ f \in Nat \ {0} /\ Body[f] \in Nat /\ Size(f) = 2 + Body[f] /\ Size(f) \in Nat
        /\ \A i \in 1 .. Size(f) : ~IsCrlf(<<f, i>>)
    BY WholeFields
  <1>2. b[1] = <<f, 1>> /\ ~IsCrlf(b[1]) /\ b[1][1] = f /\ b[1][2] = 1
    <2>1. 1 \in 1 .. Size(f) /\ 1 <= Len(b)
      BY <1>0, <1>1
    <2>2. b[1] = <<f, 1>> /\ ~IsCrlf(<<f, 1>>)
      BY <1>1, <2>1
    <2> QED
      BY <2>2
  <1> DEFINE End(i) == IsCrlf(b[i]) \/ b[i][2] = HeaderSize
             FirstEnd(i) == End(i) /\ \A j \in 1 .. i - 1 : ~IsCrlf(b[j]) /\ b[j][2] # HeaderSize
  <1>3. ~End(1)
    BY <1>2 DEF HeaderSize
  <1>4. HeaderEnd(b) = IF \E i \in DOMAIN b : End(i)
                       THEN CHOOSE i \in DOMAIN b : FirstEnd(i) ELSE 0
    BY DEF HeaderEnd
  <1>5. CASE n = 1
    <2>1. HeaderEnd(b) = 0
      BY <1>0, <1>3, <1>4, <1>5
    <2>2. Len(b) < Size(f)
      BY <1>0, <1>1, <1>5
    <2> QED
      BY <2>1, <2>2 DEF Complete
  <1>6. CASE n >= 2
    <2>1. b[2] = <<f, 2>>
      <3>1. 2 \in 1 .. Size(f) /\ 2 <= Len(b)
        BY <1>0, <1>1, <1>6
      <3> QED
        BY <3>1
    <2>2. End(2) /\ 2 \in DOMAIN b
      BY <1>0, <1>6, <2>1 DEF HeaderSize
    <2>3. FirstEnd(2)
      <3>1. \A j \in 1 .. 2 - 1 : j = 1
        OBVIOUS
      <3> QED
        BY <1>3, <2>2, <3>1
    <2>4. ASSUME NEW i \in DOMAIN b, FirstEnd(i) PROVE i = 2
      <3>1. i \in Nat /\ i >= 1 /\ i # 1
        BY <1>0, <1>3, <2>4
      <3>2. ~ (i > 2)
        <4> SUFFICES ASSUME i > 2 PROVE FALSE
          OBVIOUS
        <4>1. 2 \in 1 .. i - 1
          BY <3>1
        <4> QED
          BY <2>2, <2>4, <4>1
      <3> QED
        BY <3>1, <3>2
    <2>5. HeaderEnd(b) = 2
      <3> HIDE DEF End, FirstEnd
      <3> QED
        BY <1>4, <2>2, <2>3, <2>4
    <2>6. ContentLength(b) = Body[f]
      BY <1>2 DEF ContentLength
    <2>7. Complete(b) = IF f \in garbled THEN 0
                        ELSE IF Len(b) >= 2 + Body[f] THEN 2 + Body[f] ELSE 0
      <3>1. HeaderEnd(b) # 0
        BY <2>5
      <3> QED
        BY <1>2, <2>5, <2>6, <3>1 DEF Complete
    <2> QED
      BY <1>0, <1>1, <2>7
  <1>7. n = 1 \/ n >= 2
    OBVIOUS
  <1> QED
    BY <1>5, <1>6, <1>7

(* A message that is complete is cut out whole, and the next one follows. *)
LEMMA MessageIsCut ==
    ASSUME NEW b \in Seq(StreamByte), NEW w \in Seq(StreamByte),
           NEW f \in Nat, NEW l \in Nat, f >= 1, l <= LastMessage,
           b \o w \in Seq(StreamByte), InOrder(b \o w, f, l), f <= l, f \in Messages,
           LiesAt(b \o w, f, 0),
           \A i \in 1 .. Size(f) : i <= Len(b) => b[i] = <<f, i>>, Size(f) <= Len(b)
    PROVE  /\ SubSeq(b, 1, Size(f)) = Whole(f)
           /\ SubSeq(b, Size(f) + 1, Len(b)) \in Seq(StreamByte)
           /\ InOrder(SubSeq(b, Size(f) + 1, Len(b)) \o w, f + 1, l)
  <1>1. PICK z \in Nat \ {0} : z = Size(f)
    BY WholeFields
  <1>2. PICK n \in Nat : n = Len(b) /\ z <= n
    BY <1>1
  <1>3. /\ Whole(f) \in Seq(StreamByte) /\ Len(Whole(f)) = z
        /\ \A i \in 1 .. z : Whole(f)[i] = <<f, i>> /\ ~IsCrlf(<<f, i>>)
    BY <1>1, WholeFields
  <1>4. \A i \in 1 .. z : b[i] = <<f, i>>
    BY <1>1, <1>2
  <1>5. SubSeq(b, 1, z) = Whole(f)
    <2> DEFINE c == SubSeq(b, 1, z)
    <2>1. \A i \in 1 .. z : b[i] \in StreamByte
      <3>1. \A i \in 1 .. z : i \in 1 .. Len(b)
        BY <1>2
      <3> QED
        BY <3>1, ElementOfSeq
    <2>2. /\ c \in Seq(StreamByte)
          /\ Len(c) = IF 1 <= z THEN z - 1 + 1 ELSE 0
          /\ \A i \in 1 .. z - 1 + 1 : c[i] = b[1 + i - 1]
      BY <2>1, SubSeqProperties
    <2>3. z - 1 + 1 = z /\ 1 <= z /\ \A i \in 1 .. z : 1 + i - 1 = i
      OBVIOUS
    <2>4. Len(c) = z /\ \A i \in 1 .. z : c[i] = b[i]
      BY <2>2, <2>3
    <2> HIDE DEF c
    <2>5. Len(c) = Len(Whole(f)) /\ \A i \in 1 .. Len(c) : c[i] = Whole(f)[i]
      BY <1>3, <1>4, <2>4
    <2>6. c = Whole(f)
      BY <1>3, <2>2, <2>5, SeqEqual
    <2> QED
      BY <2>6 DEF c
  <1> DEFINE c == SubSeq(b, z + 1, Len(b))
             s == b \o w
  <1>6. /\ c \in Seq(StreamByte) /\ c \o w \in Seq(StreamByte) /\ Len(c \o w) = Len(s) - z
        /\ \A i \in 1 .. Len(s) - z : (c \o w)[i] = s[z + i]
    <2>1. z \in 0 .. Len(b)
      BY <1>2
    <2> QED
      BY <2>1, CutBeforeConcat
  <1> HIDE DEF c, s
  <1>7. s \in Seq(StreamByte) /\ InOrder(s, f, l) /\ LiesAt(s, f, 0)
    BY DEF s
  <1>8. z <= Len(s) /\ Len(s) \in Nat /\ \A i \in 1 .. z : s[i] = <<f, i>>
    <2>1. \A i \in 1 .. z : 0 + i = i
      OBVIOUS
    <2> QED
      BY <1>1, <1>7, <2>1 DEF LiesAt
  <1>9. InOrder(c \o w, f + 1, l)
    <2>1. z \in 0 .. Len(s) /\ f + 1 \in Nat /\ f <= f + 1
      BY <1>8
    <2>2. \A i \in 1 .. z : IsCrlf(s[i]) \/ s[i][1] < f + 1
      BY <1>8
    <2>3. ASSUME NEW i \in z + 1 .. Len(s) PROVE IsCrlf(s[i]) \/ s[i][1] >= f + 1
      <3> SUFFICES ASSUME ~IsCrlf(s[i]) PROVE s[i][1] >= f + 1
        OBVIOUS
      <3>1. i \in 1 .. Len(s) /\ z \in 1 .. Len(s) /\ z < i /\ s[z] = <<f, z>> /\ ~IsCrlf(s[z])
        <4>1. i \in 1 .. Len(s) /\ z \in 1 .. Len(s) /\ z < i
          BY <1>8
        <4>2. z \in 1 .. z
          OBVIOUS
        <4>3. s[z] = <<f, z>> /\ ~IsCrlf(<<f, z>>)
          BY <1>3, <1>8, <4>2
        <4> QED
          BY <4>1, <4>3
      <3>2. /\ s[z][1] <= s[i][1]
            /\ s[z][1] = s[i][1] => s[z][2] < s[i][2]
        BY <1>7, <3>1, StartsInOrder
      <3>3. s[i][1] \in Nat /\ s[i][2] \in 1 .. Size(s[i][1])
        BY <1>7, <3>1, ElementOfSeq, ByteFields
      <3>4. s[i][1] # f
        <4> SUFFICES ASSUME s[i][1] = f PROVE FALSE
          OBVIOUS
        <4>1. z < s[i][2]
          BY <3>1, <3>2
        <4>2. s[i][2] \in 1 .. z
          BY <1>1, <3>3
        <4> QED
          BY <4>1, <4>2
      <3>5. f <= s[i][1]
        BY <3>1, <3>2
      <3> QED
        BY <3>3, <3>4, <3>5
    <2>4. \A i \in 1 .. Len(c \o w) : (c \o w)[i] = s[z + i]
      BY <1>6
    <2> HIDE DEF s
    <2> QED
      BY <1>6, <1>7, <2>1, <2>2, <2>3, <2>4, FrontGoes
  <1> QED
    BY <1>1, <1>5, <1>6, <1>9 DEF c

(* What has been cut out and what is to come, before the stream has ended. *)
Framing(b, w) ==
    /\ \A i \in 1 .. Len(received) : received[i] = Whole(i)
    /\ Len(received) <= written
    /\ InOrder(b \o w, Len(received) + 1, written)

LEMMA FramingStep == FramingIsFaithful /\ [FramingNext]_streamVars => FramingIsFaithful'
  <1> SUFFICES ASSUME FramingIsFaithful, [FramingNext]_streamVars PROVE FramingIsFaithful'
    OBVIOUS
  <1>t. /\ written \in 0 .. LastMessage /\ garbled \subseteq 1 .. written /\ closed \in BOOLEAN
        /\ wire \in Seq(StreamByte) /\ readBuf \in Seq(StreamByte)
        /\ received \in Seq(Seq(StreamByte) \ {<<>>})
    BY DEF FramingIsFaithful, FramingTypeOK
  <1>l. /\ LastMessage \in Nat /\ written \in Nat /\ written <= LastMessage
        /\ Len(received) \in Nat /\ Len(received) + 1 \in Nat /\ Len(received) + 1 >= 1
    BY <1>t, FramingAssumption
  <1>p. ReceivedAsWritten /\ NothingIsSkipped
    BY DEF FramingIsFaithful
  (* One more message is received. *)
  <1>a. ASSUME NEW p \in Seq(StreamByte) \ {<<>>}
        PROVE  /\ Append(received, p) \in Seq(Seq(StreamByte) \ {<<>>})
               /\ Len(Append(received, p)) = Len(received) + 1
               /\ \A i \in 1 .. Len(received) : Append(received, p)[i] = received[i]
               /\ Append(received, p)[Len(received) + 1] = p
    BY <1>t, AppendProperties
  (* WrittenBefore the end of the stream. *)
  <1>1. CASE Framing(readBuf, wire)
    <2> DEFINE f == Len(received) + 1
               b == SkipLeading(readBuf)
    <2>f. Framing(readBuf, wire)
      BY <1>1
    <2>0. /\ \A i \in 1 .. Len(received) : received[i] = Whole(i)
          /\ Len(received) <= written
          /\ InOrder(readBuf \o wire, f, written)
      BY <2>f DEF Framing
    <2>1. /\ b \in Seq(StreamByte) /\ b \o wire \in Seq(StreamByte)
          /\ InOrder(b \o wire, f, written)
          /\ b # <<>> =>
                /\ f <= written /\ f \in Messages
                /\ LiesAt(b \o wire, f, 0)
                /\ \A i \in 1 .. Size(f) : i <= Len(b) => b[i] = <<f, i>>
      BY <1>t, <1>l, <2>0, KeepAlivesGo
    <2>2. b # <<>> => Complete(b) = IF f \in garbled \/ Len(b) < Size(f) THEN 0 ELSE Size(f)
      BY <2>1, CompleteIsSize
    <2>c. b = <<>> => Complete(b) = 0
      BY DEF Complete
    <2> HIDE DEF b
    (* It is enough that the messages are where they should be. *)
    <2>3. ASSUME FramingTypeOK', received' = received, Len(received) <= written',
                 InOrder((readBuf \o wire)', f, written')
          PROVE  FramingIsFaithful'
      <3>1. ReceivedAsWritten'
        <4>1. DOMAIN received = 1 .. Len(received)
          BY <1>t, LenProperties
        <4> QED
          BY <2>0, <2>3, <4>1 DEF ReceivedAsWritten
      <3>2. NothingIsSkipped'
        BY <2>0, <2>3 DEF NothingIsSkipped
      <3> QED
        BY <2>3, <3>1, <3>2 DEF FramingIsFaithful
    <2>4. CASE PeerWrites
      <3>1. /\ ~closed /\ written < LastMessage /\ written' = written + 1
            /\ garbled' \in {garbled, garbled \cup {written + 1}}
            /\ closed' = closed /\ readBuf' = readBuf /\ received' = received
        BY <2>4 DEF PeerWrites
      <3>2. PICK idle \in {<<>>, KeepAlive, KeepAlive \o KeepAlive} :
               wire' = wire \o (idle \o Whole(written + 1))
        BY <2>4 DEF PeerWrites
      <3>3. /\ written + 1 \in Messages /\ written + 1 \in 0 .. LastMessage
            /\ garbled' \subseteq 1 .. written'
        BY <1>t, <1>l, <3>1 DEF Messages
      <3>4. idle \in Seq(StreamByte) /\ \A i \in 1 .. Len(idle) : IsCrlf(idle[i])
        <4>1. <<0, 0>> \in StreamByte /\ IsCrlf(<<0, 0>>)
          BY DEF StreamByte, IsCrlf
        <4>2. CASE idle = <<>>
          BY <4>2
        <4>3. CASE idle = KeepAlive
          BY <4>1, <4>3 DEF KeepAlive
        <4>4. CASE idle = KeepAlive \o KeepAlive
          <5>1. KeepAlive \in Seq(StreamByte) /\ Len(KeepAlive) = 1 /\ KeepAlive[1] = <<0, 0>>
            BY <4>1 DEF KeepAlive
          <5>2. PICK v \in Seq(StreamByte) :
                   /\ v = KeepAlive \o KeepAlive /\ Len(v) = Len(KeepAlive) + Len(KeepAlive)
                   /\ \A i \in 1 .. Len(KeepAlive) : v[i] = KeepAlive[i]
                   /\ \A i \in 1 .. Len(KeepAlive) : v[Len(KeepAlive) + i] = KeepAlive[i]
            BY <5>1, ConcatFields
          <5>3. Len(v) = 2 /\ v[1] = <<0, 0>> /\ v[2] = <<0, 0>>
            BY <5>1, <5>2
          <5>4. \A i \in 1 .. 2 : i = 1 \/ i = 2
            OBVIOUS
          <5> QED
            BY <4>1, <4>4, <5>2, <5>3, <5>4
        <4> QED
          BY <4>2, <4>3, <4>4
      <3>5. PICK c \in Nat, u \in Seq(StreamByte) :
               /\ c = Len(idle) /\ u = idle \o Whole(written + 1)
               /\ Len(u) = c + Size(written + 1)
               /\ \A i \in 1 .. c : IsCrlf(u[i])
               /\ \A i \in 1 .. Size(written + 1) : u[c + i] = <<written + 1, i>>
        <4>1. /\ Whole(written + 1) \in Seq(StreamByte)
              /\ Len(Whole(written + 1)) = Size(written + 1)
              /\ \A i \in 1 .. Size(written + 1) : Whole(written + 1)[i] = <<written + 1, i>>
          BY <3>3, WholeFields
        <4>2. PICK v \in Seq(StreamByte) :
                 /\ v = idle \o Whole(written + 1)
                 /\ Len(v) = Len(idle) + Len(Whole(written + 1))
                 /\ \A i \in 1 .. Len(idle) : v[i] = idle[i]
                 /\ \A i \in 1 .. Len(Whole(written + 1)) :
                       v[Len(idle) + i] = Whole(written + 1)[i]
          BY <3>4, <4>1, ConcatFields
        <4>3. Len(idle) \in Nat
          BY <3>4
        <4> QED
          BY <3>4, <4>1, <4>2, <4>3
      <3>6. wire' = wire \o u /\ wire \o u \in Seq(StreamByte)
        BY <1>t, <3>2, <3>5, ConcatProperties
      <3>7. readBuf \o (wire \o u) = (readBuf \o wire) \o u /\ readBuf \o wire \in Seq(StreamByte)
        <4>1. readBuf \o wire \in Seq(StreamByte)
          BY <1>t, ConcatProperties
        <4>2. (readBuf \o wire) \o u = readBuf \o (wire \o u)
          <5>1. readBuf \in Seq(StreamByte) /\ wire \in Seq(StreamByte) /\ u \in Seq(StreamByte)
            BY <1>t, <3>5
          <5> QED
            BY <5>1, ConcatAssociative
        <4> QED
          BY <4>1, <4>2, Zenon
      <3>8. InOrder((readBuf \o wire) \o u, f, written + 1)
        <4>1. f >= 1 /\ f <= written + 1 /\ f \in Nat
          BY <1>l, <2>0
        <4> QED
          BY <1>l, <2>0, <3>3, <3>5, <3>7, <4>1, StreamGrows
      <3>9. FramingTypeOK'
        BY <1>t, <3>1, <3>3, <3>6 DEF FramingTypeOK
      <3>10. InOrder((readBuf \o wire)', f, written')
        BY <3>1, <3>6, <3>7, <3>8
      <3>11. Len(received) <= written'
        BY <1>l, <2>0, <3>1
      <3> QED
        BY <2>3, <3>1, <3>9, <3>10, <3>11
    <2>5. CASE Extract
      <3>1. /\ Complete(b) > 0
            /\ received' = Append(received, SubSeq(b, 1, Complete(b)))
            /\ readBuf' = SubSeq(b, Complete(b) + 1, Len(b))
            /\ written' = written /\ garbled' = garbled /\ wire' = wire /\ closed' = closed
        BY <2>5 DEF Extract, b
      <3>2. b # <<>>
        BY <2>c, <3>1
      <3>3. Complete(b) = Size(f) /\ Size(f) <= Len(b)
        <4>1. Size(f) \in Nat /\ Len(b) \in Nat
          BY <2>1, <3>2, WholeFields
        <4> QED
          BY <2>2, <3>1, <3>2, <4>1
      <3>4. /\ SubSeq(b, 1, Size(f)) = Whole(f)
            /\ SubSeq(b, Size(f) + 1, Len(b)) \in Seq(StreamByte)
            /\ InOrder(SubSeq(b, Size(f) + 1, Len(b)) \o wire, f + 1, written)
        BY <1>t, <1>l, <2>1, <3>2, <3>3, MessageIsCut
      <3>5. Whole(f) \in Seq(StreamByte) \ {<<>>}
        <4>1. Whole(f) \in Seq(StreamByte) /\ Len(Whole(f)) = Size(f) /\ Size(f) >= 2
          BY <2>1, <3>2, WholeFields
        <4> QED
          BY <4>1
      <3>6. received' = Append(received, Whole(f)) /\ Len(received') = f
        BY <1>a, <3>1, <3>3, <3>4, <3>5
      <3>7. FramingTypeOK'
        BY <1>t, <1>a, <3>1, <3>3, <3>4, <3>5, <3>6 DEF FramingTypeOK
      <3>8. \A i \in 1 .. f : received'[i] = Whole(i)
        <4>1. \A i \in 1 .. f : i \in 1 .. Len(received) \/ i = f
          BY <1>l
        <4> QED
          BY <1>a, <2>0, <3>5, <3>6, <4>1
      <3>9. ReceivedAsWritten'
        <4>1. DOMAIN received' = 1 .. f
          BY <3>6, <3>7, LenProperties DEF FramingTypeOK
        <4> QED
          BY <3>8, <4>1 DEF ReceivedAsWritten
      <3>10. NothingIsSkipped'
        BY <2>1, <3>1, <3>2, <3>3, <3>4, <3>6, <3>8 DEF NothingIsSkipped
      <3> QED
        BY <3>7, <3>9, <3>10 DEF FramingIsFaithful
    <2>6. CASE ReadMore
      <3>1. /\ written' = written /\ garbled' = garbled /\ closed' = closed
            /\ received' = received
        BY <2>6 DEF ReadMore
      <3>2. PICK n \in 1 .. Len(wire) :
               /\ readBuf' = b \o SubSeq(wire, 1, n)
               /\ wire' = SubSeq(wire, n + 1, Len(wire))
        BY <2>6 DEF ReadMore, b
      <3> DEFINE x == SubSeq(wire, 1, n)
                 y == SubSeq(wire, n + 1, Len(wire))
      <3>3. x \in Seq(StreamByte) /\ y \in Seq(StreamByte)
        <4>1. \A i \in 1 .. Len(wire) : wire[i] \in StreamByte
          BY <1>t, ElementOfSeq
        <4>2. Len(wire) \in Nat /\ n \in Nat /\ n >= 1 /\ n <= Len(wire)
          BY <1>t
        <4>3. /\ \A i \in 1 .. n : wire[i] \in StreamByte
              /\ \A i \in n + 1 .. Len(wire) : wire[i] \in StreamByte
          BY <4>1, <4>2
        <4>4. x \in Seq(StreamByte)
          BY <4>2, <4>3, SubSeqProperties
        <4>5. y \in Seq(StreamByte)
          BY <4>2, <4>3, SubSeqProperties
        <4> QED
          BY <4>4, <4>5
      <3>4. x \o y = wire
        <4>1. /\ 1 \in 1 .. Len(wire) + 1 /\ n \in 1 - 1 .. Len(wire)
              /\ Len(wire) \in n .. Len(wire)
          BY <1>t
        <4>2. x \o y = SubSeq(wire, 1, Len(wire))
          BY <1>t, <4>1, ConcatAdjacentSubSeq
        <4> HIDE DEF x, y
        <4> QED
          BY <1>t, <4>2, SubSeqFull
      <3> HIDE DEF x, y
      <3>5. readBuf' = b \o x /\ wire' = y
        BY <3>2 DEF x, y
      <3>6. (b \o x) \o y = b \o wire /\ b \o x \in Seq(StreamByte)
        <4>1. b \o x \in Seq(StreamByte)
          BY <2>1, <3>3, ConcatProperties
        <4>2. (b \o x) \o y = b \o (x \o y)
          <5>1. b \in Seq(StreamByte)
            BY <2>1
          <5> QED
            BY <3>3, <5>1, ConcatAssociative
        <4> QED
          BY <3>4, <4>1, <4>2, Zenon
      <3>7. InOrder((readBuf \o wire)', f, written')
        BY <2>1, <3>1, <3>5, <3>6
      <3>8. FramingTypeOK'
        BY <1>t, <3>1, <3>3, <3>5, <3>6 DEF FramingTypeOK
      <3> QED
        BY <2>0, <2>3, <3>1, <3>7, <3>8
    <2>7. CASE ReadEnd
      <3>1. /\ Complete(b) = 0 /\ closed /\ b # <<>>
            /\ received' = Append(received, b) /\ readBuf' = <<>>
            /\ written' = written /\ garbled' = garbled /\ wire' = wire /\ closed' = closed
        BY <2>7 DEF ReadEnd, b
      <3>2. b \in Seq(StreamByte) \ {<<>>}
        BY <2>1, <3>1
      <3>3. /\ Len(received') = f /\ received'[f] = b
            /\ \A i \in 1 .. Len(received) : received'[i] = received[i]
            /\ received' \in Seq(Seq(StreamByte) \ {<<>>})
        BY <1>a, <3>1, <3>2
      <3>4. FramingTypeOK'
        BY <1>t, <3>1, <3>3 DEF FramingTypeOK
      <3>5. ASSUME f \notin garbled PROVE IsPrefix(b, Whole(f))
        <4>1. PICK n \in Nat, z \in Nat : n = Len(b) /\ z = Size(f) /\ n < z
          <5>1. Size(f) \in Nat /\ Len(b) \in Nat /\ Size(f) >= 2
            BY <2>1, <3>1, WholeFields
          <5>2. Len(b) < Size(f)
            BY <2>2, <3>1, <3>5, <5>1
          <5> QED
            BY <5>1, <5>2
        <4>2. /\ Whole(f) \in Seq(StreamByte) /\ Len(Whole(f)) = z
              /\ \A i \in 1 .. z : Whole(f)[i] = <<f, i>>
          BY <2>1, <3>1, <4>1, WholeFields
        <4>3. \A i \in 1 .. n : i \in 1 .. z /\ b[i] = Whole(f)[i]
          <5>1. \A i \in 1 .. n : i \in 1 .. z /\ i <= n
            BY <4>1
          <5> QED
            BY <2>1, <3>1, <4>1, <4>2, <5>1
        <4> DEFINE c == SubSeq(Whole(f), 1, n)
        <4>4. /\ c \in Seq(StreamByte) /\ Len(c) = n
              /\ \A i \in 1 .. n : c[i] = Whole(f)[i]
          <5>1. \A i \in 1 .. n : Whole(f)[i] \in StreamByte
            BY <4>2, <4>3, ElementOfSeq
          <5>2. /\ c \in Seq(StreamByte)
                /\ Len(c) = IF 1 <= n THEN n - 1 + 1 ELSE 0
                /\ \A i \in 1 .. n - 1 + 1 : c[i] = Whole(f)[1 + i - 1]
            BY <5>1, SubSeqProperties
          <5>3. /\ n - 1 + 1 = n /\ (1 <= n \/ n = 0)
                /\ \A i \in 1 .. n : 1 + i - 1 = i
            OBVIOUS
          <5> QED
            BY <5>2, <5>3
        <4> HIDE DEF c
        <4>5. b = c
          <5>1. Len(b) = Len(c) /\ \A i \in 1 .. Len(b) : b[i] = c[i]
            BY <4>1, <4>3, <4>4
          <5> QED
            BY <2>1, <4>4, <5>1, SeqEqual
        <4>6. SubSeq(b, 1, Len(b)) = b
          BY <2>1, SubSeqFull
        <4>7. Len(b) <= Len(Whole(f)) /\ SubSeq(Whole(f), 1, Len(b)) = c
          BY <4>1, <4>2 DEF c
        <4> QED
          BY <4>5, <4>6, <4>7 DEF IsPrefix
      <3>6. ReceivedAsWritten'
        <4>1. DOMAIN received' = 1 .. f
          BY <3>3, LenProperties
        <4>2. ASSUME NEW i \in 1 .. f, Readable(i)'
              PROVE  \/ received'[i] = Whole(i)
                     \/ closed' /\ i = Len(received') /\ IsPrefix(received'[i], Whole(i))
          <5>1. CASE i = f
            <6>1. f \notin garbled
              <7>1. f \in 1 .. f
                BY <1>l
              <7> QED
                BY <3>1, <4>2, <5>1, <7>1 DEF Readable
            <6> QED
              BY <3>1, <3>3, <3>5, <5>1, <6>1
          <5>2. CASE i \in 1 .. Len(received)
            BY <2>0, <3>3, <5>2
          <5>3. i = f \/ i \in 1 .. Len(received)
            BY <1>l
          <5> QED
            BY <5>1, <5>2, <5>3
        <4> QED
          BY <4>1, <4>2 DEF ReceivedAsWritten
      <3>7. NothingIsSkipped'
        <4>1. f - 1 = Len(received) /\ f > 0
          BY <1>l
        <4>2. InOrder(received'[f] \o wire', f, written') /\ f <= written'
          BY <2>1, <3>1, <3>3
        <4>3. \A i \in 1 .. f - 1 : received'[i] = Whole(i)
          BY <2>0, <3>3, <4>1
        <4> QED
          BY <3>1, <3>3, <4>1, <4>2, <4>3 DEF NothingIsSkipped
      <3> QED
        BY <3>4, <3>6, <3>7 DEF FramingIsFaithful
    <2>8. CASE PeerCloses
      <3>1. /\ closed' = TRUE /\ written' = written /\ garbled' = garbled /\ wire' = wire
            /\ readBuf' = readBuf /\ received' = received
        BY <2>8 DEF PeerCloses
      <3>2. FramingTypeOK'
        BY <1>t, <3>1 DEF FramingTypeOK
      <3> QED
        BY <2>0, <2>3, <3>1, <3>2
    <2>9. CASE UNCHANGED streamVars
      <3>1. /\ closed' = closed /\ written' = written /\ garbled' = garbled /\ wire' = wire
            /\ readBuf' = readBuf /\ received' = received
        BY <2>9 DEF streamVars
      <3>2. FramingTypeOK'
        BY <1>t, <3>1 DEF FramingTypeOK
      <3> QED
        BY <2>0, <2>3, <3>1, <3>2
    <2> QED
      BY <2>4, <2>5, <2>6, <2>7, <2>8, <2>9 DEF FramingNext
  (* After it nothing is read any more. *)
  <1>2. CASE /\ closed /\ readBuf = <<>> /\ Len(received) > 0
             /\ \A i \in 1 .. Len(received) - 1 : received[i] = Whole(i)
             /\ Len(received) <= written
             /\ InOrder(received[Len(received)] \o wire, Len(received), written)
    <2>1. SkipLeading(readBuf) = <<>>
      <3>1. readBuf = <<>>
        BY <1>2
      <3>2. \A i \in DOMAIN readBuf : IsCrlf(readBuf[i])
        BY <3>1
      <3> QED
        BY <3>2 DEF SkipLeading
    <2>2. Complete(SkipLeading(readBuf)) = 0
      BY <2>1 DEF Complete
    <2>3. closed /\ ~PeerWrites /\ ~Extract /\ ~ReadMore /\ ~ReadEnd /\ ~PeerCloses
      <3>1. closed /\ ~PeerWrites /\ ~ReadMore /\ ~PeerCloses
        BY <1>2 DEF PeerWrites, ReadMore, PeerCloses
      <3>2. ~Extract
        BY <2>2 DEF Extract
      <3>3. ~ReadEnd
        BY <2>1 DEF ReadEnd
      <3> QED
        BY <3>1, <3>2, <3>3
    <2>4. UNCHANGED <<written, garbled, wire, closed, readBuf, received>>
      BY <2>3 DEF FramingNext, streamVars
    <2>5. FramingTypeOK' /\ ReceivedAsWritten' /\ NothingIsSkipped'
      BY <1>p, <1>t, <2>4 DEF FramingTypeOK, ReceivedAsWritten, Readable, NothingIsSkipped
    <2> QED
      BY <2>5 DEF FramingIsFaithful
  <1>3. \/ Framing(readBuf, wire)
        \/ /\ closed /\ readBuf = <<>> /\ Len(received) > 0
           /\ \A i \in 1 .. Len(received) - 1 : received[i] = Whole(i)
           /\ Len(received) <= written
           /\ InOrder(received[Len(received)] \o wire, Len(received), written)
    <2>1. NothingIsSkipped
      BY <1>p
    <2> QED
      BY <2>1, Zenon DEF NothingIsSkipped, Framing
  <1> QED
    BY <1>1, <1>2, <1>3

(* However the bytes arrive, what is handed over are the messages as they   *)
(* were written, and no byte of one is lost (sip/transport.rs,              *)
(* transport/tcp.rs): the invariant is inductive as it stands.              *)
THEOREM MessagesAreCutAsWritten == Spec => []FramingIsFaithful
  <1>1. Init => FramingIsFaithful
    <2> SUFFICES ASSUME FramingInit PROVE FramingIsFaithful
      BY DEF Init
    <2>1. /\ written = 0 /\ garbled = {} /\ wire = <<>> /\ closed = FALSE
          /\ readBuf = <<>> /\ received = <<>>
      BY DEF FramingInit
    <2>2. FramingTypeOK
      <3>1. \A S : <<>> \in Seq(S)
        OBVIOUS
      <3>2. 0 \in 0 .. LastMessage
        BY FramingAssumption
      <3>3. FALSE \in BOOLEAN /\ {} \subseteq 1 .. 0
        OBVIOUS
      <3> QED
        BY <2>1, <3>1, <3>2, <3>3 DEF FramingTypeOK
    <2>3. ReceivedAsWritten
      BY <2>1 DEF ReceivedAsWritten
    <2>4. InOrder(<<>> \o <<>>, 0 + 1, 0)
      <3>1. <<>> \o <<>> = <<>>
        OBVIOUS
      <3>2. DOMAIN <<>> = {} /\ 0 + 1 .. 0 = {}
        OBVIOUS
      <3> QED
        BY <3>1, <3>2 DEF InOrder
    <2>5. NothingIsSkipped
      BY <2>1, <2>4 DEF NothingIsSkipped
    <2> QED
      BY <2>2, <2>3, <2>5 DEF FramingIsFaithful
  <1>2. FramingIsFaithful /\ [Next]_vars => FramingIsFaithful'
    <2>1. [Next]_vars => [FramingNext]_streamVars
      BY DEF Next, Media, Stream, Peers, Login, Logger, Config, PeerRequests, vars
    <2> QED
      BY <2>1, FramingStep
  <1> QED
    BY <1>1, <1>2, PTL DEF Spec
==============================================================================
