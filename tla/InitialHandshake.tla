-------------------------- MODULE InitialHandshake --------------------------
(***************************************************************************)
(* The handshake that opens a tunnel: run_handshake_initiator of a client, *)
(* run_handshake_responder of the server inside the loop of run_server,    *)
(* the stateless cookie, and the fragments that both sides reassemble.     *)
(*                                                                         *)
(* A message is cut into three parts that stand for the fragments: part 1  *)
(* has the type and the ephemeral keys, part 2 the signature and the       *)
(* cookie, part 3 padding.  Fragments of one direction stay in order and   *)
(* may be lost.  With obfuscation every sealing of a message has a random  *)
(* msg_id of its own; without it the msg_id is the sender's session id:    *)
(* the first one of its process for every client, one per call of          *)
(* run_handshake_responder for the server.                                 *)
(***************************************************************************)
EXTENDS Integers, Sequences, Reassembler

CONSTANTS Clients,   \* connections, in the order of their numbers: one program at a time
          Settings   \* the circumstances that are looked at, see below

(***************************************************************************)
(* A setting: whether obfuscation.handshake is on, the types of message    *)
(* that may lose fragments and how many in all, whether a message may be   *)
(* under way for longer than a timer, HS_MAX_ATTEMPTS (8 in net.rs), and   *)
(* the bounds on socket errors of the server and on cookie time windows.   *)
(***************************************************************************)
ASSUME HandshakeAssumption ==
    /\ Clients \subseteq Nat /\ FRAGS = 3
    /\ \A s \in Settings :
          /\ {s.obf, s.slow} \subseteq BOOLEAN
          /\ s.loss \subseteq {"Init", "Challenge", "Response", "Confirm"}
          /\ s.attempts \in Nat \ {0}
          /\ {s.losses, s.errors, s.windows} \subseteq Nat

None     == 0
NoCookie == [src |-> None, secret |-> 0, bucket |-> 0]

Message(t, c, n, s, ck, sg) ==
    [type |-> t, client |-> c, build |-> n, sess |-> s, cookie |-> ck, signed |-> sg]

VARIABLES
    setting,    \* the setting of this behaviour
    up, down,   \* up[c], down[c]: fragments from and to client c
    client,     \* the initiators
    server,     \* the responder: its phase and what it holds there
    secret,     \* CookieState: which run_handshake_responder call this is
    bucket,     \* the current cookie time window
    made,       \* number of Responses made
    challenges, \* number of CookieChallenges made
    lost, errors,
    verified,   \* history: clients and sessions whose Response the client verified
    accepted    \* history: peers and sessions that run_handshake_responder returned

vars == <<setting, up, down, client, server, secret, bucket, made, challenges, lost, errors,
          verified, accepted>>

Idle   == [pc |-> "idle", attempt |-> 0, init |-> Message("Init", None, 0, None, NoCookie, None),
           partials |-> NoPartials, sess |-> None]
Listen == [pc |-> "listen", peer |-> None, sess |-> None, partials |-> NoPartials,
           waited |-> 0, since |-> {}]

Init ==
    /\ setting \in Settings
    /\ up = [c \in Clients |-> <<>>] /\ down = [c \in Clients |-> <<>>]
    /\ client = [c \in Clients |-> Idle]
    /\ server = Listen
    /\ secret = 1 /\ bucket = 1
    /\ made = 0 /\ challenges = 0 /\ lost = 0 /\ errors = 0
    /\ verified = {} /\ accepted = {}

\* The fragments of message m, as build_handshake_datagrams makes them.
Datagrams(m, session_id) ==
    [i \in 1 .. FRAGS |-> [id |-> IF setting.obf THEN m ELSE session_id, part |-> i, msg |-> m]]

\* What a complete set of parts decodes to.
Decode(parts) == [parts[1] EXCEPT !.cookie = parts[2].cookie, !.signed = parts[2].signed]

Waiting == {c \in Clients : client[c].pc = "waiting"}

\* The fragments of m to client c; the socket of one that no longer waits is closed or unread.
DownWith(c, m) ==
    IF c \in Waiting THEN [down EXCEPT ![c] = @ \o Datagrams(m, secret)] ELSE down

Quiet(c) == up[c] = <<>> /\ down[c] = <<>>

------------------------------------------------------------------------------
(***************************************************************************)
(* The initiator.                                                          *)
(***************************************************************************)

\* run_handshake_initiator begins: start, and the first attempt.
Start(c) ==
    LET m == Message("Init", c, 1, None, NoCookie, None)
    IN /\ client[c].pc = "idle"
       /\ Waiting = {} /\ \A d \in Clients : d < c => client[d].pc # "idle"
       /\ client' = [client EXCEPT ![c] = [Idle EXCEPT !.pc = "waiting", !.attempt = 1,
                                                       !.init = m]]
       /\ up' = [up EXCEPT ![c] = Datagrams(m, 1)]
       /\ UNCHANGED <<setting, down, server, secret, bucket, made, challenges, lost, errors,
                      verified, accepted>>

(***************************************************************************)
(* The next attempt with the Init m and a new Reassembler, or the end      *)
(* after the last one.  rest is what has not been read.                    *)
(***************************************************************************)
NextAttempt(c, m, rest) ==
    IF client[c].attempt < setting.attempts
    THEN /\ down' = [down EXCEPT ![c] = rest]
         /\ client' = [client EXCEPT ![c] = [client[c] EXCEPT !.attempt = @ + 1, !.init = m,
                                                             !.partials = NoPartials]]
         /\ up' = [up EXCEPT ![c] = @ \o Datagrams(m, 1)]
    ELSE /\ client' = [client EXCEPT ![c] = [Idle EXCEPT !.pc = "failed"]]
         /\ down' = [down EXCEPT ![c] = <<>>]
         /\ UNCHANGED up

(***************************************************************************)
(* HS_ATTEMPT_TIMEOUT.  While the responder waits for a Confirm, two or    *)
(* three attempts of 800 ms end in its 2 s.                                *)
(***************************************************************************)
AttemptTimeout(c) ==
    /\ client[c].pc = "waiting"
    /\ setting.slow \/ Quiet(c)
    /\ server.pc = "confirm" => server.waited < 3
    /\ NextAttempt(c, client[c].init, down[c])
    /\ server' = IF server.pc = "confirm" THEN [server EXCEPT !.waited = @ + 1] ELSE server
    /\ UNCHANGED <<setting, secret, bucket, made, challenges, lost, errors, verified,
                   accepted>>

\* finalize: the Response answers this client's Init and its signature covers it.
Finalizes(c, m) == m.type = "Response" /\ m.client = c /\ m.signed = m.sess

(***************************************************************************)
(* The next fragment for client c.  A complete CookieChallenge leads to    *)
(* the next attempt with its cookie, anything else to finalize, which      *)
(* sends the Confirm or fails the handshake.                               *)
(***************************************************************************)
ClientReceive(c) ==
    LET f == Head(down[c])
        r == push_parts(client[c].partials, f.id, f.part, f.msg)
        rest == Tail(down[c])
    IN /\ client[c].pc = "waiting" /\ down[c] # <<>>
       /\ \/ /\ r.out = {}
             /\ down' = [down EXCEPT ![c] = rest]
             /\ client' = [client EXCEPT ![c].partials = r.left]
             /\ UNCHANGED <<up, verified>>
          \/ \E parts \in r.out :
                LET m == Decode(parts)
                IN \/ /\ m.type = "Challenge"
                      /\ NextAttempt(c, Message("Init", c, client[c].attempt + 1, None,
                                                m.cookie, None), rest)
                      /\ UNCHANGED verified
                   \/ /\ m.type # "Challenge" /\ Finalizes(c, m)
                      /\ client' = [client EXCEPT ![c] = [Idle EXCEPT !.pc = "up",
                                                                      !.sess = m.sess]]
                      /\ up' = [up EXCEPT ![c] = @ \o
                                   Datagrams(Message("Confirm", c, 0, None, NoCookie, m.sess), 1)]
                      /\ down' = [down EXCEPT ![c] = <<>>]
                      /\ verified' = verified \cup {<<c, m.sess>>}
                   \/ /\ m.type # "Challenge" /\ ~Finalizes(c, m)
                      /\ client' = [client EXCEPT ![c] = [Idle EXCEPT !.pc = "failed"]]
                      /\ down' = [down EXCEPT ![c] = <<>>]
                      /\ UNCHANGED <<up, verified>>
       /\ UNCHANGED <<setting, server, secret, bucket, made, challenges, lost, errors, accepted>>

\* The program ends, or its tunnel does: Close, or the dead-peer test.
Leave(c) ==
    /\ client[c].pc \in {"waiting", "up"}
    /\ client' = [client EXCEPT ![c] = [Idle EXCEPT !.pc = "gone"]]
    /\ down' = [down EXCEPT ![c] = <<>>]
    /\ UNCHANGED <<setting, up, server, secret, bucket, made, challenges, lost, errors,
                   verified, accepted>>

------------------------------------------------------------------------------
(***************************************************************************)
(* The responder.                                                          *)
(***************************************************************************)

\* Plausible slip: only the current time window is accepted.
ValidCookie_NoGrace(c, ck) == ck = [src |-> c, secret |-> secret, bucket |-> bucket]

\* CookieState::valid: this secret, this source, the current or the previous window.
ValidCookie(c, ck) ==
    \E b \in {bucket, bucket - 1} : ck = [src |-> c, secret |-> secret, bucket |-> b]

\* A complete message m from source c while listening.
Challenge(c, m) ==
    /\ m.type = "Init" /\ ~ValidCookie(c, m.cookie)
    /\ challenges' = challenges + 1
    /\ down' = DownWith(c, Message("Challenge", c, challenges', None,
                                  [src |-> c, secret |-> secret, bucket |-> bucket], None))
    /\ server' = Listen
    /\ UNCHANGED made

Respond(c, m) ==
    /\ m.type = "Init" /\ ValidCookie(c, m.cookie)
    /\ made' = made + 1
    /\ down' = DownWith(c, Message("Response", m.client, 0, made', NoCookie, made'))
    /\ server' = [Listen EXCEPT !.pc = "confirm", !.peer = c, !.sess = made',
                                !.since = Waiting]
    /\ UNCHANGED challenges

Ignore(m) ==
    /\ m.type # "Init"
    /\ server' = Listen
    /\ UNCHANGED <<down, made, challenges>>

\* Phase 1: the next fragment from source c.
ListenReceive(c) ==
    LET f == Head(up[c])
        r == push_parts(server.partials, f.id, f.part, f.msg)
    IN /\ server.pc = "listen" /\ up[c] # <<>>
       /\ up' = [up EXCEPT ![c] = Tail(@)]
       /\ \/ /\ r.out = {}
             /\ server' = [server EXCEPT !.partials = r.left]
             /\ UNCHANGED <<down, made, challenges>>
          \/ \E parts \in r.out :
                \/ Challenge(c, Decode(parts))
                \/ Respond(c, Decode(parts))
                \/ Ignore(Decode(parts))
       /\ UNCHANGED <<setting, client, secret, bucket, lost, errors, verified, accepted>>

\* Plausible slip: the type of the message is taken for its proof.
Confirms_Unsigned(m, s) == m.type = "Confirm"

\* confirm: the initiator's signature over this handshake's transcript.
Confirms(m, s) == m.type = "Confirm" /\ m.signed = s

\* Plausible slip: the source is not compared in phase 2.
FromPeer_Any(c) == TRUE

FromPeer(c) == c = server.peer

Suffixes(q) == {SubSeq(q, k, Len(q)) : k \in 1 .. Len(q) + 1}

(***************************************************************************)
(* run_server calls run_handshake_responder again, on a fresh socket: what *)
(* had reached the old one of the fragments chans is gone.                 *)
(***************************************************************************)
Relisten(chans) ==
    /\ server' = Listen
    /\ secret' = secret + 1
    /\ up' \in {f \in [Clients -> UNION {Suffixes(chans[d]) : d \in Clients}] :
                  \A d \in Clients : f[d] \in Suffixes(chans[d])}

(***************************************************************************)
(* Phase 2: the next fragment from source c.  Other sources are ignored; a *)
(* complete message from the peer ends the phase, in the session or back   *)
(* in phase 1.  With the session the server makes its TUN and runs the     *)
(* tunnel; when there is no TUN it says Close and listens again.           *)
(***************************************************************************)
ConfirmReceive(c) ==
    LET f == Head(up[c])
        r == push_parts(server.partials, f.id, f.part, f.msg)
        rest == [up EXCEPT ![c] = Tail(@)]
    IN /\ server.pc = "confirm" /\ up[c] # <<>>
       /\ \/ /\ ~FromPeer(c)
             /\ up' = rest
             /\ UNCHANGED <<server, secret, accepted>>
          \/ /\ FromPeer(c) /\ r.out = {}
             /\ up' = rest
             /\ server' = [server EXCEPT !.partials = r.left]
             /\ UNCHANGED <<secret, accepted>>
          \/ /\ FromPeer(c)
             /\ \E parts \in r.out :
                  IF Confirms(Decode(parts), server.sess)
                  THEN /\ accepted' = accepted \cup {<<c, server.sess>>}
                       /\ \/ /\ server' = [Listen EXCEPT !.pc = "up", !.peer = c,
                                                         !.sess = server.sess]
                             /\ up' = rest
                             /\ UNCHANGED secret
                          \/ Relisten(rest)
                  ELSE /\ server' = Listen
                       /\ up' = rest
                       /\ UNCHANGED <<secret, accepted>>
       /\ UNCHANGED <<setting, down, client, bucket, made, challenges, lost, errors, verified>>

\* Plausible slip: the Confirm is awaited without a bound, as the Init is.
ConfirmTimeout_Never == FALSE

\* HS_CONFIRM_TIMEOUT: back to phase 1, with the same secret.
ConfirmTimeout ==
    /\ server.pc = "confirm"
    /\ setting.slow \/ Quiet(server.peer)
    /\ server.waited >= 2 \/ server.since \cap Waiting = {}
    /\ server' = Listen
    /\ UNCHANGED <<setting, up, down, client, secret, bucket, made, challenges, lost, errors,
                   verified, accepted>>

\* A socket error ends the call.
SocketError ==
    /\ server.pc \in {"listen", "confirm"}
    /\ errors < setting.errors
    /\ errors' = errors + 1
    /\ Relisten(up)
    /\ UNCHANGED <<setting, down, client, bucket, made, challenges, lost, verified, accepted>>

\* The tunnel loops end: Close, the dead-peer test, or an error of the device.
TunnelEnds ==
    /\ server.pc = "up"
    /\ Relisten(up)
    /\ UNCHANGED <<setting, down, client, bucket, made, challenges, lost, errors, verified,
                   accepted>>

\* The tunnel loops take no part in the handshake of another source.
TunnelReceive(c) ==
    /\ server.pc = "up" /\ up[c] # <<>>
    /\ up' = [up EXCEPT ![c] = Tail(@)]
    /\ UNCHANGED <<setting, down, client, server, secret, bucket, made, challenges, lost, errors,
                   verified, accepted>>

\* prune_old every 10 s: the parts of handshakes that ended, which is later than 6.4 s.
Prune ==
    LET old == {i \in DOMAIN server.partials :
                   \A p \in DOMAIN server.partials[i] :
                       server.partials[i][p].client \notin Waiting}
    IN /\ server.pc = "listen" /\ old # {}
       /\ server' = [server EXCEPT !.partials = Without(@, old)]
       /\ UNCHANGED <<setting, up, down, client, secret, bucket, made, challenges, lost, errors,
                      verified, accepted>>

\* A cookie time window ends; it is longer than a handshake.
NextWindow ==
    /\ bucket <= setting.windows
    /\ bucket' = bucket + 1
    /\ UNCHANGED <<setting, up, down, client, server, secret, made, challenges, lost, errors,
                   verified, accepted>>

\* The network drops the next fragment.
LoseFrom(chan) == /\ chan # <<>> /\ Head(chan).msg.type \in setting.loss
                  /\ lost < setting.losses
                  /\ lost' = lost + 1

Lose(c) ==
    /\ \/ LoseFrom(up[c]) /\ up' = [up EXCEPT ![c] = Tail(@)] /\ UNCHANGED down
       \/ LoseFrom(down[c]) /\ down' = [down EXCEPT ![c] = Tail(@)] /\ UNCHANGED up
    /\ UNCHANGED <<setting, client, server, secret, bucket, made, challenges, errors, verified,
                   accepted>>

ServerStep == \/ ConfirmTimeout
              \/ \E c \in Clients : ListenReceive(c) \/ ConfirmReceive(c) \/ TunnelReceive(c)

ClientStep(c) == ClientReceive(c) \/ AttemptTimeout(c)

Next ==
    \/ \E c \in Clients : Start(c) \/ ClientStep(c) \/ Leave(c) \/ Lose(c)
    \/ ServerStep \/ SocketError \/ TunnelEnds \/ Prune \/ NextWindow

\* Both loops read and time out; nothing makes a client start or leave, or the network lose.
Spec == Init /\ [][Next]_vars /\ WF_vars(ServerStep)
             /\ \A c \in Clients : WF_vars(ClientStep(c))

------------------------------------------------------------------------------
(***************************************************************************)
(* Mutual authentication.  The server only runs a tunnel in a session      *)
(* whose initiator verified the server's Response: spliced, stale and      *)
(* foreign messages never get it there (run_handshake_responder).          *)
(***************************************************************************)
MutuallyVerified == accepted \subseteq verified

(***************************************************************************)
(* The promise of the initiator's Ok: once its fragments have arrived, the *)
(* responder has accepted the session that run_handshake_initiator         *)
(* returned.                                                               *)
(***************************************************************************)
EstablishedAtBoth ==
    \A c \in Clients : client[c].pc = "up" /\ Quiet(c) => <<c, client[c].sess>> \in accepted

\* The timers outlast the round trip, no Confirm is lost, no socket fails.
Calm == /\ setting.obf /\ ~setting.slow
        /\ "Confirm" \notin setting.loss /\ setting.errors = 0

CalmEstablished == Calm => EstablishedAtBoth

(***************************************************************************)
(* HS_MAX_ATTEMPTS is enough: when nothing but the losses of the setting,  *)
(* the cookie round trip, a time window and a half-open handshake that an  *)
(* earlier client left behind stand in the way, no client runs out of      *)
(* attempts, as long as no earlier one got in.                             *)
(***************************************************************************)
GetsIn ==
    Calm => \A c \in Clients :
               client[c].pc = "failed" => \E a \in accepted : a[1] < c

(***************************************************************************)
(* Phase 2 ends whatever the peer does, so that a half-open handshake      *)
(* never keeps the server from listening.                                  *)
(***************************************************************************)
ListensAgain == server.pc = "confirm" ~> server.pc # "confirm"
=============================================================================
