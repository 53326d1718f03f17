----------------------------- MODULE Periphery ------------------------------
(***************************************************************************)
(* The parts of the program around its calls, side by side: the media of a *)
(* call, the framing of a stream, the peers of a UDP client, the requests  *)
(* of its peers and their cached answers, the dashboard login, the logger, *)
(* the configuration file, and the conversions of sound and text. They     *)
(* share no state, so that what one of them does is the same whatever the  *)
(* others do: in a behaviour of Spec one part is awake and the others stay *)
(* as they began. Every property of a part is a property of every          *)
(* interleaving as well.                                                   *)
(***************************************************************************)
EXTENDS MediaStream, StreamFraming, UdpPeers, LoginLimiter, LogBuffers, ConfigFile,
        Conversions

CONSTANTS Keys, None, Reliable, TimerJ, MaxCopies   \* of ServerTransaction

ASSUME RequestAssumption ==
    None \notin Keys \cup Nat /\ TimerJ \in Nat \ {0} /\ MaxCopies \in Nat \ {0}

VARIABLES awake,   \* the part that moves
          sent, arriving, queue, handling, ringing,
          cache, removers, sinceFirst, sinceFinal   \* of ServerTransaction

Requested == INSTANCE ServerTransaction
requestVars == <<sent, arriving, queue, handling, ringing,
                 cache, removers, sinceFirst, sinceFinal>>

vars == <<awake, mediaVars, streamVars, peerVars, loginVars, logVars, configVars, requestVars,
          input>>

(* A part that sleeps is in one of its initial states, whichever. *)
Init ==
    /\ MediaInit /\ FramingInit /\ PeersInit /\ LoginInit /\ LogInit /\ ConfigInit
    /\ Requested!Init
    /\ awake \in {"media", "stream", "peers", "login", "log", "config", "requests", "conversions"}
    /\ awake # "log" => protocol = "tcp"
    /\ IF awake = "conversions" THEN ConversionsInit ELSE input = [what |-> "nothing"]

Media == awake = "media" /\ MediaNext
             /\ UNCHANGED <<awake, input, streamVars, peerVars, loginVars, logVars, configVars, requestVars>>
Stream == awake = "stream" /\ FramingNext
             /\ UNCHANGED <<awake, input, mediaVars, peerVars, loginVars, logVars, configVars, requestVars>>
Peers == awake = "peers" /\ PeersNext
             /\ UNCHANGED <<awake, input, mediaVars, streamVars, loginVars, logVars, configVars, requestVars>>
Login == awake = "login" /\ LoginNext
             /\ UNCHANGED <<awake, input, mediaVars, streamVars, peerVars, logVars, configVars, requestVars>>
Logger == awake = "log" /\ LogNext
             /\ UNCHANGED <<awake, input, mediaVars, streamVars, peerVars, loginVars, configVars, requestVars>>
Config == awake = "config" /\ ConfigNext
             /\ UNCHANGED <<awake, input, mediaVars, streamVars, peerVars, loginVars, logVars, requestVars>>
PeerRequests == awake = "requests" /\ Requested!Next
                    /\ UNCHANGED <<awake, input, mediaVars, streamVars, peerVars, loginVars, logVars, configVars>>

Next == Media \/ Stream \/ Peers \/ Login \/ Logger \/ Config \/ PeerRequests

Spec == Init /\ [][Next]_vars

(* The tasks that send and receive keep running, the clock advances, and a  *)
(* removal task that is due runs. Nothing is asked of users, of the         *)
(* network's faults, or of the peer.                                        *)
FairSpec ==
    /\ Spec
    /\ WF_mediaVars(awake = "media" /\ SendKey) /\ WF_mediaVars(awake = "media" /\ Receive)
    /\ WF_streamVars(awake = "stream" /\ Extract)
    /\ WF_streamVars(awake = "stream" /\ ReadMore)
    /\ WF_requestVars(awake = "requests" /\ Requested!Tick)
    /\ WF_requestVars(awake = "requests" /\ \E k \in Keys : Requested!Remove(k))

(* A key that is pressed is heard, and a message that is written arrives. *)
StreamsDeliver ==
    /\ awake = "media" => EveryKeyIsHeard
    /\ awake = "stream" => EveryMessageArrives

(* From the first answer to a request on, and for Timer J, its repetitions   *)
(* find an answer, and each answer has a task that will remove it.           *)
RepetitionsAreAnswered == Requested!TypeOK /\ Requested!CachedForTimerJ

(* Over UDP no answer stays cached for ever. *)
AnswersGo == awake = "requests" => Requested!CacheDrains
=============================================================================
