------------------------------ MODULE UdpPeers ------------------------------
(***************************************************************************)
(* Whose requests a UDP client takes (sip/transport/udp.rs): the server's, *)
(* and those of a few addresses that have answered a request of its own.   *)
(* The check is made where a datagram is dispatched                        *)
(* (TransactionManager::process_incoming): answers always get that far.    *)
(***************************************************************************)
EXTENDS Naturals, Sequences, FiniteSets, SequencesExt

CONSTANTS Hosts,
          Server,       \* the configured one
          NoAddress,
          MaxLearned    \* MAX_LEARNED_PEERS

ASSUME PeersAssumption ==
    Server \in Hosts /\ NoAddress \notin Hosts /\ MaxLearned \in Nat

VARIABLES primary,      \* NoAddress: no filter yet
          learned,      \* the addresses learned, the oldest first
          answered,     \* those a request of ours has had its answer from
          admitted      \* whose request was admitted last, under a filter

peerVars == <<primary, learned, answered, admitted>>

PeersTypeOK ==
    /\ primary \in {NoAddress, Server}
    /\ learned \in Seq(Hosts) /\ Len(learned) <= MaxLearned
    /\ answered \subseteq Hosts
    /\ admitted \in Hosts \cup {NoAddress}

PeersInit == primary = NoAddress /\ learned = <<>> /\ answered = {} /\ admitted = NoAddress

(* The client is created: its server is trusted, and nobody else. *)
SetPeerFilter ==
    /\ primary = NoAddress
    /\ primary' = Server
    /\ learned' = <<>>
    /\ UNCHANGED <<answered, admitted>>

(* Mutated: an address that is known is learned again. *)
LearnAgain(ip) ==
    IF ip = primary THEN learned
    ELSE LET more == Append(learned, ip)
         IN  IF Len(more) > MaxLearned THEN Tail(more) ELSE more

(* A known address keeps its place; a new one makes the oldest give way. *)
Learn(ip) ==
    IF ip = primary \/ ip \in Range(learned) THEN learned
    ELSE LET more == Append(learned, ip)
         IN  IF Len(more) > MaxLearned THEN Tail(more) ELSE more

(* A response arrives: it is learned from when it answers a request. *)
Response(ip, matches) ==
    /\ IF matches THEN learned' = Learn(ip) /\ answered' = answered \cup {ip}
       ELSE UNCHANGED <<learned, answered>>
    /\ UNCHANGED <<primary, admitted>>

IsAllowed(ip) == primary \in {NoAddress, ip} \/ ip \in Range(learned)

(* A request arrives: it is admitted or dropped. *)
Request(ip) ==
    /\ IsAllowed(ip)
    /\ admitted' = IF primary = NoAddress THEN NoAddress ELSE ip
    /\ UNCHANGED <<primary, learned, answered>>

PeersNext ==
    \/ SetPeerFilter
    \/ \E ip \in Hosts :
          \/ Request(ip)
          \/ \E matches \in BOOLEAN : Response(ip, matches)

PeersSpec == PeersInit /\ [][PeersNext]_peerVars

-----------------------------------------------------------------------------
(* Under the filter only the server's requests are admitted and those of an *)
(* address that has answered one of ours.                                   *)
NoStrangerIsHeard == admitted # NoAddress => admitted \in answered \cup {Server}

(* Nobody is forgotten for somebody already known: an address loses its     *)
(* trust only to a new one, when there are as many others as are kept.      *)
ForgottenForNewcomers ==
    [][\A ip \in Range(learned) \ Range(learned') :
          \/ primary' # primary
          \/ /\ Cardinality(Range(learned')) = MaxLearned
             /\ Last(learned') \notin Range(learned)]_peerVars

(* Trust is earned by an answer and lost to a newcomer only. *)
TrustIsEarned == [](PeersTypeOK /\ NoStrangerIsHeard) /\ ForgottenForNewcomers
=============================================================================
