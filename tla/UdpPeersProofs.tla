--------------------------- MODULE UdpPeersProofs ---------------------------
(***************************************************************************)
(* Trust in an address is earned and lost as it should be, for any number  *)
(* of addresses and any bound on those that are learned.                   *)
(***************************************************************************)
EXTENDS UdpPeers, FiniteSetTheorems, TLAPS

Distinct(seq) == \A i, j \in 1 .. Len(seq) : seq[i] = seq[j] => i = j

(* The learned addresses are distinct, and have answered. *)
IInv ==
    /\ PeersTypeOK
    /\ Distinct(learned)
    /\ Range(learned) \subseteq answered
    /\ NoStrangerIsHeard

-----------------------------------------------------------------------------
(* A sequence without repetition has as many values as it is long. *)
LEMMA DistinctCardinality ==
    ASSUME NEW S, NEW seq \in Seq(S), Distinct(seq)
    PROVE  Cardinality(Range(seq)) = Len(seq)
  <1>1. Len(seq) \in Nat /\ DOMAIN seq = 1 .. Len(seq)
    OBVIOUS
  <1>2. seq \in [1 .. Len(seq) -> Range(seq)]
    BY <1>1 DEF Range
  <1>3. seq \in Bijection(1 .. Len(seq), Range(seq))
    BY <1>1, <1>2 DEF Bijection, Injection, Surjection, IsInjective, Range, Distinct
  <1>4. IsFiniteSet(1 .. Len(seq)) /\ Cardinality(1 .. Len(seq)) = Len(seq)
    BY <1>1, FS_Interval
  <1> QED
    BY <1>3, <1>4, FS_Bijection DEF ExistsBijection

(* Learning keeps the addresses distinct and few, adds at most the one that *)
(* is learned, and lets others go only when it adds one to a full list.     *)
LEMMA LearnKeeps ==
    ASSUME PeersTypeOK, Distinct(learned), NEW ip \in Hosts
    PROVE  /\ Learn(ip) \in Seq(Hosts) /\ Len(Learn(ip)) <= MaxLearned
           /\ Distinct(Learn(ip))
           /\ Range(Learn(ip)) \subseteq Range(learned) \cup {ip}
           /\ \A other \in Range(learned) \ Range(Learn(ip)) :
                 /\ Len(Learn(ip)) = MaxLearned
                 /\ Last(Learn(ip)) \notin Range(learned)
  <1> USE PeersAssumption
  <1>1. learned \in Seq(Hosts) /\ Len(learned) \in Nat /\ Len(learned) <= MaxLearned
    BY DEF PeersTypeOK
  <1>2. CASE ip = primary \/ ip \in Range(learned)
    BY <1>1, <1>2 DEF Learn
  <1>3. CASE ~(ip = primary \/ ip \in Range(learned))
    <2> DEFINE more == Append(learned, ip)
    <2>1. more \in Seq(Hosts) /\ Len(more) = Len(learned) + 1
      BY <1>1
    <2>2. \A i \in 1 .. Len(more) : more[i] = IF i <= Len(learned) THEN learned[i] ELSE ip
      BY <1>1
    <2>3. \A i \in 1 .. Len(learned) : learned[i] # ip
      BY <1>1, <1>3 DEF Range
    <2>4. Distinct(more)
      BY <1>1, <2>1, <2>2, <2>3 DEF Distinct
    <2>5. CASE Len(more) <= MaxLearned
      <3>1. Learn(ip) = more
        BY <1>1, <1>3, <2>1, <2>5 DEF Learn
      <3>2. Range(more) \subseteq Range(learned) \cup {ip}
        BY <1>1, <2>1, <2>2 DEF Range
      <3>3. Range(learned) \subseteq Range(more)
        <4>1. ASSUME NEW i \in 1 .. Len(learned)
              PROVE  i \in 1 .. Len(more) /\ more[i] = learned[i]
          BY <1>1, <2>1, <2>2
        <4> QED
          BY <1>1, <2>1, <4>1 DEF Range
      <3> QED
        BY <2>1, <2>4, <2>5, <3>1, <3>2, <3>3
    <2>6. CASE Len(more) > MaxLearned
      <3>1. Learn(ip) = Tail(more)
        BY <1>3, <2>6 DEF Learn
      <3>2. Len(learned) = MaxLearned
        BY <1>1, <2>1, <2>6
      <3>3. Tail(more) \in Seq(Hosts) /\ Len(Tail(more)) = MaxLearned
        BY <2>1, <3>2
      <3>4. \A i \in 1 .. MaxLearned :
               Tail(more)[i] = IF i < MaxLearned THEN learned[i + 1] ELSE ip
        BY <2>1, <2>2, <3>2
      <3>5. Distinct(Tail(more))
        BY <1>1, <2>3, <3>2, <3>3, <3>4 DEF Distinct
      <3>6. Range(Tail(more)) \subseteq Range(learned) \cup {ip}
        BY <1>1, <3>2, <3>3, <3>4 DEF Range
      <3>7. ASSUME NEW other \in Range(learned) PROVE Last(Tail(more)) \notin Range(learned)
        <4>1. MaxLearned > 0
          BY <1>1, <3>2, <3>7 DEF Range
        <4> QED
          BY <1>3, <3>3, <3>4, <4>1 DEF Last
      <3> QED
        BY <3>1, <3>3, <3>5, <3>6, <3>7
    <2> QED
      BY <1>1, <2>1, <2>5, <2>6
  <1> QED
    BY <1>2, <1>3

-----------------------------------------------------------------------------
LEMMA Invariance == PeersSpec => []IInv
  <1> USE PeersAssumption
  <1>1. PeersInit => IInv
    BY DEF PeersInit, IInv, PeersTypeOK, Distinct, Range, NoStrangerIsHeard
  <1>2. IInv /\ [PeersNext]_peerVars => IInv'
    <2> SUFFICES ASSUME IInv, [PeersNext]_peerVars PROVE IInv'
      OBVIOUS
    <2> USE DEF IInv, PeersTypeOK, NoStrangerIsHeard
    <2>1. CASE SetPeerFilter
      BY <2>1 DEF SetPeerFilter, Distinct, Range
    <2>2. ASSUME NEW ip \in Hosts, Request(ip) PROVE IInv'
      BY <2>2 DEF Request, IsAllowed
    <2>3. ASSUME NEW ip \in Hosts, NEW matches \in BOOLEAN, Response(ip, matches) PROVE IInv'
      <3>1. CASE matches
        BY <2>3, <3>1, LearnKeeps DEF Response
      <3>2. CASE ~matches
        BY <2>3, <3>2 DEF Response
      <3> QED
        BY <3>1, <3>2
    <2>4. CASE UNCHANGED peerVars
      BY <2>4 DEF peerVars
    <2> QED
      BY <2>1, <2>2, <2>3, <2>4 DEF PeersNext
  <1> QED
    BY <1>1, <1>2, PTL DEF PeersSpec

(* A step makes an address unknown only when the filter is set, or when it  *)
(* adds a new address to a full list.                                       *)
LEMMA OnlyNewcomersDisplace ==
    IInv /\ [PeersNext]_peerVars =>
        \A ip \in Range(learned) \ Range(learned') :
            \/ primary' # primary
            \/ /\ Cardinality(Range(learned')) = MaxLearned
               /\ Last(learned') \notin Range(learned)
  <1> SUFFICES ASSUME IInv, [PeersNext]_peerVars, primary' = primary,
                      NEW other \in Range(learned) \ Range(learned')
               PROVE  /\ Cardinality(Range(learned')) = MaxLearned
                      /\ Last(learned') \notin Range(learned)
    OBVIOUS
  <1>1. learned' # learned
    OBVIOUS
  <1>2. ~SetPeerFilter
    BY PeersAssumption DEF SetPeerFilter
  <1>3. PICK ip \in Hosts : learned' = Learn(ip)
    BY <1>1, <1>2 DEF PeersNext, Request, Response, peerVars
  <1>4. /\ Learn(ip) \in Seq(Hosts) /\ Distinct(Learn(ip))
        /\ Len(Learn(ip)) = MaxLearned
        /\ Last(Learn(ip)) \notin Range(learned)
    BY <1>3, LearnKeeps DEF IInv
  <1> QED
    BY <1>3, <1>4, DistinctCardinality

(* Requests are heard only from the server and from those that have         *)
(* answered, and nobody is forgotten for somebody already known.            *)
THEOREM TrustIsKept == PeersSpec => TrustIsEarned
  <1>1. IInv => PeersTypeOK /\ NoStrangerIsHeard
    BY DEF IInv
  <1> QED
    BY <1>1, Invariance, OnlyNewcomersDisplace, PTL
    DEF TrustIsEarned, ForgottenForNewcomers, PeersSpec
=============================================================================
