---------------------------- MODULE HandshakeProofs ----------------------------
(***************************************************************************)
(* Proofs about InitialHandshake and the Reassembler: what fragments can   *)
(* be put together, that the server only accepts a session that its        *)
(* initiator has verified, and, when the timers outlast the round trip and *)
(* no Confirm is lost, that it accepts the session of each that is up, and *)
(* that the attempts of every client suffice until one got in.             *)
(***************************************************************************)
EXTENDS InitialHandshake, FiniteSetTheorems, TLAPS

LEMMA ConstantTypes ==
    /\ FRAGS = 3 /\ MAX_PENDING_MSGS \in Nat /\ MAX_PENDING_MSGS > 0 /\ Clients \subseteq Nat
BY HandshakeAssumption, ReassemblerAssumption

-----------------------------------------------------------------------------
(***************************************************************************)
(* Messages, and what is made of those in a set M of them: the fragments   *)
(* on the way, and the parts that a Reassembler holds.                     *)
(***************************************************************************)
Cookies  == [src : Nat, secret : Nat, bucket : Nat]
Messages == [type : {"Init", "Challenge", "Response", "Confirm"}, client : Nat, build : Nat,
             sess : Nat, cookie : Cookies, signed : Nat]
MsgIds   == Messages \cup Nat

Fragments(M) == [id : MsgIds, part : 1 .. FRAGS, msg : M]
Chunks(M)    == UNION {[P -> M] : P \in SUBSET (1 .. FRAGS)}
Partials(M)  == UNION {[D -> Chunks(M)] : D \in SUBSET MsgIds}

LEMMA ChunksIntro ==
    ASSUME NEW M, NEW P \in SUBSET (1 .. FRAGS), NEW f \in [P -> M]
    PROVE  f \in Chunks(M)
BY DEF Chunks

LEMMA ChunksElim ==
    ASSUME NEW M, NEW f \in Chunks(M)
    PROVE  DOMAIN f \subseteq 1 .. FRAGS /\ f \in [DOMAIN f -> M]
BY DEF Chunks

LEMMA PartialsIntro ==
    ASSUME NEW M, NEW D \in SUBSET MsgIds, NEW f \in [D -> Chunks(M)]
    PROVE  f \in Partials(M)
BY DEF Partials

LEMMA PartialsElim ==
    ASSUME NEW M, NEW f \in Partials(M)
    PROVE  DOMAIN f \subseteq MsgIds /\ f \in [DOMAIN f -> Chunks(M)]
BY DEF Partials

LEMMA NoPartialsType == ASSUME NEW M PROVE NoPartials \in Partials(M)
<1>1. NoPartials \in [{} -> Chunks(M)]
  BY DEF NoPartials
<1> QED  BY <1>1, PartialsIntro

\* More messages, more fragments and more partial messages.
LEMMA Monotone ==
    ASSUME NEW M, NEW N, M \subseteq N
    PROVE  /\ Seq(Fragments(M)) \subseteq Seq(Fragments(N))
           /\ Partials(M) \subseteq Partials(N)
<1>1. Fragments(M) \subseteq Fragments(N)
  BY DEF Fragments
<1>2. Chunks(M) \subseteq Chunks(N)
  <2> SUFFICES ASSUME NEW f \in Chunks(M) PROVE f \in Chunks(N)
    OBVIOUS
  <2>1. DOMAIN f \subseteq 1 .. FRAGS /\ f \in [DOMAIN f -> N]
    BY ChunksElim
  <2> QED  BY <2>1, ChunksIntro
<1>3. Partials(M) \subseteq Partials(N)
  <2> SUFFICES ASSUME NEW f \in Partials(M) PROVE f \in Partials(N)
    OBVIOUS
  <2>1. DOMAIN f \subseteq MsgIds /\ f \in [DOMAIN f -> Chunks(N)]
    BY <1>2, PartialsElim
  <2> QED  BY <2>1, PartialsIntro
<1>4. Seq(Fragments(M)) \subseteq Seq(Fragments(N))
  BY <1>1
<1> QED  BY <1>3, <1>4

-----------------------------------------------------------------------------
(***************************************************************************)
(* push_parts keeps to the messages it is given, and what it returns has   *)
(* every part: a Reassembler never makes up a part of a message.           *)
(***************************************************************************)
LEMMA PushParts ==
    ASSUME NEW M, NEW ps \in Partials(M), NEW id \in MsgIds, NEW part \in 1 .. FRAGS,
           NEW chunk \in M
    PROVE  LET r == push_parts(ps, id, part, chunk)
           IN /\ r.left \in Partials(M)
              /\ \A parts \in r.out : parts \in [1 .. FRAGS -> M]
<1> DEFINE old  == IF id \in DOMAIN ps THEN ps[id] ELSE <<>>
           one  == With(old, part, chunk)
           new  == With(ps, id, one)
<1>1. DOMAIN ps \subseteq MsgIds /\ ps \in [DOMAIN ps -> Chunks(M)]
  BY PartialsElim
<1>2. old \in Chunks(M)
  <2>1. CASE id \in DOMAIN ps
    BY <1>1, <2>1
  <2>2. CASE id \notin DOMAIN ps
    <3>1. <<>> \in [{} -> M]
      OBVIOUS
    <3> QED  BY <2>2, <3>1, ChunksIntro
  <2> QED  BY <2>1, <2>2
<1>3. /\ DOMAIN one = {part} \cup DOMAIN old
      /\ one = [k \in {part} \cup DOMAIN old |-> IF k = part THEN chunk ELSE old[k]]
  BY DEF With
<1>4. one \in Chunks(M) /\ DOMAIN one \subseteq 1 .. FRAGS /\ one \in [DOMAIN one -> M]
  <2> HIDE DEF old, one
  <2>1. DOMAIN old \subseteq 1 .. FRAGS /\ old \in [DOMAIN old -> M]
    BY <1>2, ChunksElim
  <2>2. DOMAIN one \subseteq 1 .. FRAGS /\ one \in [DOMAIN one -> M]
    BY <1>3, <2>1
  <2> QED  BY <2>2, ChunksIntro
<1>5. /\ new = [i \in {id} \cup DOMAIN ps |-> IF i = id THEN one ELSE ps[i]]
  <2> HIDE DEF one
  <2> QED  BY DEF With
<1> HIDE DEF old, one
<1>6. new \in Partials(M) /\ new[id] = one /\ DOMAIN new = {id} \cup DOMAIN ps
  <2>1. new \in [{id} \cup DOMAIN ps -> Chunks(M)]
    BY <1>1, <1>4, <1>5
  <2>2. {id} \cup DOMAIN ps \in SUBSET MsgIds
    BY <1>1
  <2> HIDE DEF new
  <2>3. new \in Partials(M)
    BY <2>1, <2>2, PartialsIntro
  <2> QED  BY <1>5, <2>3
<1>7. push_parts(ps, id, part, chunk) =
        IF id \notin DOMAIN ps /\ Cardinality(DOMAIN ps) >= MAX_PENDING_MSGS
        THEN [left |-> ps, out |-> {}]
        ELSE IF Cardinality(DOMAIN new[id]) = FRAGS
             THEN [left |-> Without(new, {id}), out |-> {new[id]}]
             ELSE [left |-> new, out |-> {}]
  BY DEF push_parts, old, one
<1> HIDE DEF new
<1>8. Without(new, {id}) \in Partials(M)
  <2>1. DOMAIN new \subseteq MsgIds /\ new \in [DOMAIN new -> Chunks(M)]
    BY <1>6, PartialsElim
  <2>2. Without(new, {id}) \in [DOMAIN new \ {id} -> Chunks(M)]
    BY <2>1 DEF Without
  <2>3. DOMAIN new \ {id} \in SUBSET MsgIds
    BY <2>1
  <2> QED  BY <2>2, <2>3, PartialsIntro
<1>9. Cardinality(DOMAIN one) = FRAGS => one \in [1 .. FRAGS -> M]
  <2>1. FRAGS \in Nat /\ FRAGS > 0
    BY ConstantTypes
  <2>2. IsFiniteSet(1 .. FRAGS) /\ Cardinality(1 .. FRAGS) = FRAGS
    BY <2>1, FS_Interval
  <2>3. Cardinality(DOMAIN one) = FRAGS => DOMAIN one = 1 .. FRAGS
    BY <1>4, <2>2, FS_Subset
  <2> QED  BY <1>4, <2>3
<1> QED  BY <1>6, <1>7, <1>8, <1>9

\* The parts of a complete message decode to one of its first part's type.
LEMMA DecodeType ==
    ASSUME NEW M \in SUBSET Messages, NEW parts \in [1 .. FRAGS -> M]
    PROVE  /\ parts[1] \in M /\ parts[2] \in M
           /\ Decode(parts) \in Messages
           /\ Decode(parts).signed = parts[2].signed
           /\ Decode(parts).client = parts[1].client
           /\ Decode(parts).type = parts[1].type
           /\ Decode(parts).sess = parts[1].sess
<1>1. 1 \in 1 .. FRAGS /\ 2 \in 1 .. FRAGS
  BY ConstantTypes
<1>2. parts[1] \in M /\ parts[2] \in M
  BY <1>1
<1>3. parts[1] \in Messages /\ parts[2] \in Messages
  BY <1>2
<1> QED  BY <1>2, <1>3 DEF Decode, Messages

\* build_handshake_datagrams makes fragments of the message it is given.
LEMMA DatagramsType ==
    ASSUME NEW M \in SUBSET Messages, NEW m \in M, NEW session_id \in Nat
    PROVE  Datagrams(m, session_id) \in Seq(Fragments(M))
<1>1. FRAGS \in Nat
  BY ConstantTypes
<1>2. \A i \in 1 .. FRAGS :
        [id |-> IF setting.obf THEN m ELSE session_id, part |-> i, msg |-> m] \in Fragments(M)
  BY DEF Fragments, MsgIds
<1> QED  BY <1>1, <1>2 DEF Datagrams

-----------------------------------------------------------------------------
(***************************************************************************)
(* Types, with the provenance that mutual authentication rests on.         *)
(***************************************************************************)
ClientStates ==
    [pc : {"idle", "waiting", "up", "failed", "gone"}, attempt : Nat, init : Messages,
     partials : Partials(Messages), sess : Nat]

ServerStates ==
    [pc : {"listen", "confirm", "up"}, peer : Nat, sess : Nat, partials : Partials(Messages),
     waited : Nat, since : SUBSET Clients]

\* Type invariant.
TypeOK ==
    /\ setting \in Settings
    /\ up \in [Clients -> Seq(Fragments(Messages))]
    /\ down \in [Clients -> Seq(Fragments(Messages))]
    /\ client \in [Clients -> ClientStates]
    /\ server \in ServerStates
    /\ secret \in Nat /\ bucket \in Nat /\ made \in Nat /\ challenges \in Nat
    /\ lost \in Nat /\ errors \in Nat
    /\ verified \subseteq Nat \X Nat /\ accepted \subseteq Nat \X Nat

\* What client c may say: it signs a transcript only once it has verified its Response.
Proven(c) ==
    {m \in Messages : m.client = c /\ (m.signed # None => <<c, m.signed>> \in verified)}

(***************************************************************************)
(* Everything on its way from c is c's own, and so is everything that the  *)
(* server has put together since it answered its peer; the session it      *)
(* waits for is a real one, which no unsigned message matches.             *)
(***************************************************************************)
Provenance ==
    /\ \A c \in Clients : up[c] \in Seq(Fragments(Proven(c)))
    /\ \A c \in Clients : client[c].pc = "waiting" => client[c].init \in Proven(c)
    /\ server.pc = "confirm" =>
          server.sess # None /\ server.partials \in Partials(Proven(server.peer))

IInv == TypeOK /\ Provenance /\ MutuallyVerified

LEMMA MessageType ==
    ASSUME NEW t \in {"Init", "Challenge", "Response", "Confirm"}, NEW c \in Nat, NEW n \in Nat,
           NEW s \in Nat, NEW ck \in Cookies, NEW sg \in Nat
    PROVE  Message(t, c, n, s, ck, sg) \in Messages
BY DEF Message, Messages

LEMMA NoCookieType == NoCookie \in Cookies /\ None \in Nat
BY DEF NoCookie, Cookies, None

LEMMA IdleType == Idle \in ClientStates
<1>1. Message("Init", None, 0, None, NoCookie, None) \in Messages
  BY MessageType, NoCookieType
<1>2. NoPartials \in Partials(Messages)
  BY NoPartialsType
<1> QED  BY <1>1, <1>2, NoCookieType DEF Idle, ClientStates

LEMMA ListenType == Listen \in ServerStates
<1>1. NoPartials \in Partials(Messages)
  BY NoPartialsType
<1> QED  BY <1>1, NoCookieType DEF Listen, ServerStates

\* Proven grows with verified.
LEMMA ProvenGrows ==
    ASSUME verified \subseteq verified', NEW c
    PROVE  Proven(c) \subseteq Proven(c)' /\ Proven(c) \subseteq Messages
BY DEF Proven

LEMMA ProvenKept ==
    ASSUME UNCHANGED verified, NEW c
    PROVE  Proven(c)' = Proven(c) /\ Proven(c) \subseteq Messages
BY DEF Proven

\* An Init of c says nothing that needs a proof.
LEMMA InitProven ==
    ASSUME NEW c \in Clients, NEW n \in Nat, NEW ck \in Cookies
    PROVE  Message("Init", c, n, None, ck, None) \in Proven(c)
<1>1. Message("Init", c, n, None, ck, None) \in Messages
  BY MessageType, NoCookieType, ConstantTypes
<1> QED  BY <1>1 DEF Proven, Message

LEMMA InitIInv == Init => IInv
<1> SUFFICES ASSUME Init PROVE IInv
  OBVIOUS
<1>1. up \in [Clients -> Seq(Fragments(Messages))] /\ down \in [Clients -> Seq(Fragments(Messages))]
  BY DEF Init
<1>2. client \in [Clients -> ClientStates] /\ server \in ServerStates
  BY IdleType, ListenType DEF Init
<1>3. TypeOK
  BY <1>1, <1>2 DEF Init, TypeOK
<1>4. Provenance
  BY DEF Init, Provenance, Listen, Idle
<1> QED  BY <1>3, <1>4 DEF Init, IInv, MutuallyVerified

-----------------------------------------------------------------------------
(***************************************************************************)
(* Frames: what a step leaves alone stays proven.                          *)
(***************************************************************************)
LEMMA Channel ==
    ASSUME NEW S, NEW q \in Seq(S)
    PROVE  /\ q # <<>> => Head(q) \in S /\ Tail(q) \in Seq(S)
           /\ \A r \in Seq(S) : q \o r \in Seq(S)
           /\ Suffixes(q) \subseteq Seq(S)
<1>1. \A k \in 1 .. Len(q) + 1 : SubSeq(q, k, Len(q)) \in Seq(S)
  OBVIOUS
<1>2. Suffixes(q) \subseteq Seq(S)
  BY <1>1 DEF Suffixes
<1>3. q # <<>> => Head(q) \in S /\ Tail(q) \in Seq(S)
  OBVIOUS
<1>4. \A r \in Seq(S) : q \o r \in Seq(S)
  OBVIOUS
<1> QED  BY <1>2, <1>3, <1>4

\* The next fragment of channel q, and the rest.
LEMMA FragmentType ==
    ASSUME NEW M, NEW q \in Seq(Fragments(M)), q # <<>>
    PROVE  /\ Head(q).id \in MsgIds /\ Head(q).part \in 1 .. FRAGS /\ Head(q).msg \in M
           /\ Tail(q) \in Seq(Fragments(M))
<1>1. Head(q) \in Fragments(M) /\ Tail(q) \in Seq(Fragments(M))
  BY Channel
<1> QED  BY <1>1 DEF Fragments

LEMMA UpKept ==
    ASSUME IInv, UNCHANGED <<up>>, verified \subseteq verified'
    PROVE  /\ up' \in [Clients -> Seq(Fragments(Messages))]
           /\ \A c \in Clients : up'[c] \in Seq(Fragments(Proven(c)'))
<1>1. ASSUME NEW c \in Clients PROVE up[c] \in Seq(Fragments(Proven(c)'))
  <2>1. Proven(c) \subseteq Proven(c)'
    BY ProvenGrows
  <2>2. up[c] \in Seq(Fragments(Proven(c)))
    BY DEF IInv, Provenance
  <2> QED  BY <2>1, <2>2, Monotone
<1> QED  BY <1>1 DEF IInv, TypeOK

LEMMA UpChanged ==
    ASSUME IInv, verified \subseteq verified', NEW c \in Clients,
           NEW q \in Seq(Fragments(Proven(c)')), up' = [up EXCEPT ![c] = q]
    PROVE  /\ up' \in [Clients -> Seq(Fragments(Messages))]
           /\ \A d \in Clients : up'[d] \in Seq(Fragments(Proven(d)'))
<1>1. ASSUME NEW d \in Clients PROVE up'[d] \in Seq(Fragments(Proven(d)'))
  <2>1. Proven(d) \subseteq Proven(d)'
    BY ProvenGrows
  <2>2. up[d] \in Seq(Fragments(Proven(d)))
    BY DEF IInv, Provenance
  <2>3. up[d] \in Seq(Fragments(Proven(d)'))
    BY <2>1, <2>2, Monotone
  <2> QED  BY <2>3 DEF IInv, TypeOK
<1>2. q \in Seq(Fragments(Messages))
  <2>1. Proven(c)' \subseteq Messages
    BY DEF Proven, Messages
  <2> QED  BY <2>1, Monotone
<1>3. up' \in [Clients -> Seq(Fragments(Messages))]
  BY <1>2 DEF IInv, TypeOK
<1> QED  BY <1>1, <1>3

LEMMA ServerKept ==
    ASSUME IInv, verified \subseteq verified', server'.pc = server.pc, server'.peer = server.peer,
           server'.sess = server.sess, server'.partials = server.partials
    PROVE  (server.pc = "confirm" =>
               server.sess # None /\ server.partials \in Partials(Proven(server.peer)))'
<1> SUFFICES ASSUME server'.pc = "confirm"
             PROVE  server'.sess # None /\ server'.partials \in Partials(Proven(server.peer)')
  BY DEF None
<1>1. server.sess # None /\ server.partials \in Partials(Proven(server.peer))
  BY DEF IInv, Provenance
<1>2. Proven(server.peer)' = {m \in Messages : m.client = server.peer /\
                                (m.signed # None => <<server.peer, m.signed>> \in verified')}
  BY DEF Proven
<1>3. Proven(server.peer) \subseteq Proven(server.peer)'
  BY <1>2 DEF Proven
<1> QED  BY <1>1, <1>3, Monotone

LEMMA ClientsKept ==
    ASSUME IInv, verified \subseteq verified', UNCHANGED client
    PROVE  \A c \in Clients : client'[c].pc = "waiting" => client'[c].init \in Proven(c)'
BY ProvenGrows DEF IInv, Provenance

LEMMA ClientChanged ==
    ASSUME IInv, verified \subseteq verified', NEW c \in Clients, NEW r \in ClientStates,
           client' = [client EXCEPT ![c] = r],
           r.pc = "waiting" => r.init \in Proven(c)'
    PROVE  /\ client' \in [Clients -> ClientStates]
           /\ \A d \in Clients : client'[d].pc = "waiting" => client'[d].init \in Proven(d)'
BY ProvenGrows DEF IInv, TypeOK, Provenance

-----------------------------------------------------------------------------
(***************************************************************************)
(* The steps of a client.                                                  *)
(***************************************************************************)
LEMMA StartIInv ==
    ASSUME IInv, NEW c \in Clients, Start(c)
    PROVE  IInv'
<1> DEFINE m == Message("Init", c, 1, None, NoCookie, None)
           r == [Idle EXCEPT !.pc = "waiting", !.attempt = 1, !.init = m]
<1>1. /\ client' = [client EXCEPT ![c] = r]
      /\ up' = [up EXCEPT ![c] = Datagrams(m, 1)]
      /\ UNCHANGED <<setting, down, server, secret, bucket, made, challenges, lost, errors,
                     verified, accepted>>
  BY DEF Start
<1>2. Proven(c)' = Proven(c) /\ Proven(c) \subseteq Messages
  BY <1>1, ProvenKept
<1>3. m \in Proven(c) /\ m \in Messages
  BY <1>2, InitProven, NoCookieType
<1> HIDE DEF m
<1>4. r \in ClientStates /\ r.init = m
  BY <1>3, IdleType DEF ClientStates
<1> HIDE DEF r
<1>5. Datagrams(m, 1) \in Seq(Fragments(Proven(c)'))
  BY <1>2, <1>3, DatagramsType
<1>6. /\ up' \in [Clients -> Seq(Fragments(Messages))]
      /\ \A d \in Clients : up'[d] \in Seq(Fragments(Proven(d)'))
  BY <1>1, <1>5, UpChanged
<1>7. /\ client' \in [Clients -> ClientStates]
      /\ \A d \in Clients : client'[d].pc = "waiting" => client'[d].init \in Proven(d)'
  BY <1>1, <1>2, <1>3, <1>4, ClientChanged
<1>8. TypeOK'
  BY <1>1, <1>6, <1>7 DEF IInv, TypeOK
<1>9. Provenance'
  BY <1>1, <1>6, <1>7, ServerKept DEF Provenance
<1> QED  BY <1>1, <1>8, <1>9 DEF IInv, MutuallyVerified

LEMMA NextAttemptEffect ==
    ASSUME IInv, NEW c \in Clients, client[c].pc = "waiting", NEW m \in Proven(c),
           NEW rest \in Seq(Fragments(Messages)), NextAttempt(c, m, rest), UNCHANGED verified
    PROVE  /\ up' \in [Clients -> Seq(Fragments(Messages))]
           /\ down' \in [Clients -> Seq(Fragments(Messages))]
           /\ client' \in [Clients -> ClientStates]
           /\ \A d \in Clients : up'[d] \in Seq(Fragments(Proven(d)'))
           /\ \A d \in Clients : client'[d].pc = "waiting" => client'[d].init \in Proven(d)'
<1>1. Proven(c)' = Proven(c) /\ Proven(c) \subseteq Messages /\ m \in Messages
  BY ProvenKept
<1>2. client[c] \in ClientStates /\ down \in [Clients -> Seq(Fragments(Messages))]
  BY DEF IInv, TypeOK
<1>3. CASE client[c].attempt < setting.attempts
  <2> DEFINE r == [client[c] EXCEPT !.attempt = @ + 1, !.init = m, !.partials = NoPartials]
  <2>1. /\ down' = [down EXCEPT ![c] = rest]
        /\ client' = [client EXCEPT ![c] = r]
        /\ up' = [up EXCEPT ![c] = up[c] \o Datagrams(m, 1)]
    BY <1>3 DEF NextAttempt
  <2>2. r \in ClientStates /\ r.init = m
    <3>1. NoPartials \in Partials(Messages)
      BY NoPartialsType
    <3>2. client[c].attempt + 1 \in Nat
      BY <1>2 DEF ClientStates
    <3> QED  BY <1>1, <1>2, <3>1, <3>2 DEF ClientStates
  <2> HIDE DEF r
  <2>3. up[c] \o Datagrams(m, 1) \in Seq(Fragments(Proven(c)'))
    <3>1. Datagrams(m, 1) \in Seq(Fragments(Proven(c)))
      BY <1>1, DatagramsType
    <3>2. up[c] \in Seq(Fragments(Proven(c)))
      BY DEF IInv, Provenance
    <3> QED  BY <1>1, <3>1, <3>2, Channel
  <2>4. /\ up' \in [Clients -> Seq(Fragments(Messages))]
        /\ \A d \in Clients : up'[d] \in Seq(Fragments(Proven(d)'))
    BY <2>1, <2>3, UpChanged
  <2>5. /\ client' \in [Clients -> ClientStates]
        /\ \A d \in Clients : client'[d].pc = "waiting" => client'[d].init \in Proven(d)'
    BY <1>1, <2>1, <2>2, ClientChanged
  <2>6. down' \in [Clients -> Seq(Fragments(Messages))]
    BY <1>2, <2>1
  <2> QED  BY <2>4, <2>5, <2>6
<1>4. CASE ~(client[c].attempt < setting.attempts)
  <2> DEFINE r == [Idle EXCEPT !.pc = "failed"]
  <2>1. /\ client' = [client EXCEPT ![c] = r] /\ down' = [down EXCEPT ![c] = <<>>] /\ UNCHANGED <<up>>
    BY <1>4 DEF NextAttempt
  <2>2. r \in ClientStates /\ r.pc = "failed"
    BY IdleType DEF ClientStates
  <2> HIDE DEF r
  <2>3. /\ client' \in [Clients -> ClientStates]
        /\ \A d \in Clients : client'[d].pc = "waiting" => client'[d].init \in Proven(d)'
    BY <2>1, <2>2, ClientChanged
  <2>4. down' \in [Clients -> Seq(Fragments(Messages))]
    BY <1>2, <2>1
  <2> QED  BY <2>1, <2>3, <2>4, UpKept
<1> QED  BY <1>3, <1>4

LEMMA AttemptTimeoutIInv ==
    ASSUME IInv, NEW c \in Clients, AttemptTimeout(c)
    PROVE  IInv'
<1>1. /\ client[c].pc = "waiting" /\ NextAttempt(c, client[c].init, down[c])
      /\ server' = IF server.pc = "confirm" THEN [server EXCEPT !.waited = @ + 1] ELSE server
      /\ UNCHANGED <<setting, secret, bucket, made, challenges, lost, errors, verified, accepted>>
  BY DEF AttemptTimeout
<1>2. client[c].init \in Proven(c) /\ down[c] \in Seq(Fragments(Messages))
  BY <1>1 DEF IInv, Provenance, TypeOK
<1>3. /\ up' \in [Clients -> Seq(Fragments(Messages))]
      /\ down' \in [Clients -> Seq(Fragments(Messages))]
      /\ client' \in [Clients -> ClientStates]
      /\ \A d \in Clients : up'[d] \in Seq(Fragments(Proven(d)'))
      /\ \A d \in Clients : client'[d].pc = "waiting" => client'[d].init \in Proven(d)'
  BY <1>1, <1>2, NextAttemptEffect
<1>4. /\ server' \in ServerStates /\ server'.pc = server.pc /\ server'.peer = server.peer
      /\ server'.sess = server.sess /\ server'.partials = server.partials
  <2>1. server \in ServerStates
    BY DEF IInv, TypeOK
  <2>2. server.waited + 1 \in Nat
    BY <2>1 DEF ServerStates
  <2>3. CASE server.pc = "confirm"
    BY <1>1, <2>1, <2>2, <2>3 DEF ServerStates
  <2>4. CASE server.pc # "confirm"
    BY <1>1, <2>1, <2>4
  <2> QED  BY <2>3, <2>4
<1>5. TypeOK'
  BY <1>1, <1>3, <1>4 DEF IInv, TypeOK
<1>6. Provenance'
  <2>1. verified \subseteq verified'
    BY <1>1
  <2>2. (server.pc = "confirm" =>
            server.sess # None /\ server.partials \in Partials(Proven(server.peer)))'
    BY <1>4, <2>1, ServerKept
  <2> QED  BY <1>3, <2>2 DEF Provenance
<1> QED  BY <1>1, <1>5, <1>6 DEF IInv, MutuallyVerified

LEMMA ClientReceiveIInv ==
    ASSUME IInv, NEW c \in Clients, ClientReceive(c)
    PROVE  IInv'
<1> DEFINE f == Head(down[c])
           rest == Tail(down[c])
<1>1. /\ client[c].pc = "waiting" /\ down[c] # <<>>
      /\ UNCHANGED <<setting, server, secret, bucket, made, challenges, lost, errors, accepted>>
  BY DEF ClientReceive
<1>2. /\ f.id \in MsgIds /\ f.part \in 1 .. FRAGS /\ f.msg \in Messages
      /\ rest \in Seq(Fragments(Messages))
  <2>1. down[c] \in Seq(Fragments(Messages))
    BY DEF IInv, TypeOK
  <2> QED  BY <1>1, <2>1, FragmentType
<1>3. client[c] \in ClientStates /\ client[c].partials \in Partials(Messages)
  BY DEF IInv, TypeOK, ClientStates
<1> DEFINE r == push_parts(client[c].partials, f.id, f.part, f.msg)
<1>4. r.left \in Partials(Messages) /\ \A parts \in r.out : parts \in [1 .. FRAGS -> Messages]
  BY <1>2, <1>3, PushParts
<1>5. \/ /\ r.out = {}
         /\ down' = [down EXCEPT ![c] = rest]
         /\ client' = [client EXCEPT ![c].partials = r.left]
         /\ UNCHANGED <<up, verified>>
      \/ \E parts \in r.out :
            \/ /\ NextAttempt(c, Message("Init", c, client[c].attempt + 1, None,
                                         Decode(parts).cookie, None), rest)
               /\ UNCHANGED verified
            \/ /\ Finalizes(c, Decode(parts))
               /\ client' = [client EXCEPT ![c] = [Idle EXCEPT !.pc = "up",
                                                               !.sess = Decode(parts).sess]]
               /\ up' = [up EXCEPT ![c] = @ \o
                            Datagrams(Message("Confirm", c, 0, None, NoCookie,
                                              Decode(parts).sess), 1)]
               /\ down' = [down EXCEPT ![c] = <<>>]
               /\ verified' = verified \cup {<<c, Decode(parts).sess>>}
            \/ /\ client' = [client EXCEPT ![c] = [Idle EXCEPT !.pc = "failed"]]
               /\ down' = [down EXCEPT ![c] = <<>>]
               /\ UNCHANGED <<up, verified>>
  BY DEF ClientReceive
<1> HIDE DEF f, rest, r
<1> DEFINE Goal ==
       /\ up' \in [Clients -> Seq(Fragments(Messages))]
       /\ down' \in [Clients -> Seq(Fragments(Messages))]
       /\ client' \in [Clients -> ClientStates]
       /\ verified \subseteq verified' /\ verified' \subseteq Nat \X Nat
       /\ \A d \in Clients : up'[d] \in Seq(Fragments(Proven(d)'))
       /\ \A d \in Clients : client'[d].pc = "waiting" => client'[d].init \in Proven(d)'
<1>6. down \in [Clients -> Seq(Fragments(Messages))] /\ verified \subseteq Nat \X Nat /\ c \in Nat
  BY ConstantTypes DEF IInv, TypeOK
<1>7. ASSUME r.out = {}, down' = [down EXCEPT ![c] = rest],
             client' = [client EXCEPT ![c].partials = r.left], UNCHANGED <<up, verified>>
      PROVE  Goal
  <2> DEFINE q == [client[c] EXCEPT !.partials = r.left]
  <2>1. client' = [client EXCEPT ![c] = q]
    BY <1>7 DEF IInv, TypeOK
  <2>2. q \in ClientStates /\ q.init = client[c].init /\ q.pc = "waiting"
    BY <1>1, <1>3, <1>4 DEF ClientStates
  <2>3. q.init \in Proven(c)'
    BY <1>1, <1>7, <2>2, ProvenKept DEF IInv, Provenance
  <2> HIDE DEF q
  <2>4. /\ client' \in [Clients -> ClientStates]
        /\ \A d \in Clients : client'[d].pc = "waiting" => client'[d].init \in Proven(d)'
    BY <1>7, <2>1, <2>2, <2>3, ClientChanged
  <2>5. down' \in [Clients -> Seq(Fragments(Messages))]
    BY <1>2, <1>6, <1>7
  <2> QED  BY <1>6, <1>7, <2>4, <2>5, UpKept
<1>8. ASSUME NEW parts \in r.out,
             NextAttempt(c, Message("Init", c, client[c].attempt + 1, None,
                                    Decode(parts).cookie, None), rest),
             UNCHANGED verified
      PROVE  Goal
  <2>1. Decode(parts).cookie \in Cookies
    <3>1. Decode(parts) \in Messages
      BY <1>4, DecodeType
    <3> QED  BY <3>1 DEF Messages
  <2>2. client[c].attempt + 1 \in Nat
    BY <1>3 DEF ClientStates
  <2>3. Message("Init", c, client[c].attempt + 1, None, Decode(parts).cookie, None) \in Proven(c)
    BY <2>1, <2>2, InitProven
  <2> QED  BY <1>1, <1>2, <1>6, <1>8, <2>3, NextAttemptEffect
<1>9. ASSUME NEW parts \in r.out, Finalizes(c, Decode(parts)),
             client' = [client EXCEPT ![c] = [Idle EXCEPT !.pc = "up",
                                                          !.sess = Decode(parts).sess]],
             up' = [up EXCEPT ![c] = @ \o Datagrams(Message("Confirm", c, 0, None, NoCookie,
                                                            Decode(parts).sess), 1)],
             down' = [down EXCEPT ![c] = <<>>],
             verified' = verified \cup {<<c, Decode(parts).sess>>}
      PROVE  Goal
  <2> DEFINE s == Decode(parts).sess
             m == Message("Confirm", c, 0, None, NoCookie, s)
             q == [Idle EXCEPT !.pc = "up", !.sess = s]
  <2>1. s \in Nat
    <3>1. Decode(parts) \in Messages
      BY <1>4, DecodeType
    <3> QED  BY <3>1 DEF Messages
  <2> HIDE DEF s
  <2>2. m \in Messages /\ m.client = c /\ m.signed = s
    BY <1>6, <2>1, MessageType, NoCookieType DEF Message
  <2>3. m \in Proven(c)' /\ Proven(c)' \subseteq Messages
    <3>1. Proven(c)' = {x \in Messages : x.client = c /\ (x.signed # None => <<c, x.signed>> \in verified')}
      BY DEF Proven
    <3> HIDE DEF m
    <3> QED  BY <1>9, <2>2, <3>1 DEF s
  <2> HIDE DEF m
  <2>4. up[c] \o Datagrams(m, 1) \in Seq(Fragments(Proven(c)'))
    <3>1. Datagrams(m, 1) \in Seq(Fragments(Proven(c)'))
      BY <2>3, DatagramsType
    <3>2. up[c] \in Seq(Fragments(Proven(c)'))
      <4>1. Proven(c) \subseteq Proven(c)'
        BY <1>9, ProvenGrows
      <4>2. up[c] \in Seq(Fragments(Proven(c)))
        BY DEF IInv, Provenance
      <4> QED  BY <4>1, <4>2, Monotone
    <3> QED  BY <3>1, <3>2, Channel
  <2>5. up' = [up EXCEPT ![c] = up[c] \o Datagrams(m, 1)]
    BY <1>9 DEF m, s, IInv, TypeOK
  <2>6. /\ up' \in [Clients -> Seq(Fragments(Messages))]
        /\ \A d \in Clients : up'[d] \in Seq(Fragments(Proven(d)'))
    BY <1>9, <2>4, <2>5, UpChanged
  <2>7. q \in ClientStates /\ q.pc = "up"
    BY <2>1, IdleType DEF ClientStates
  <2>8. client' = [client EXCEPT ![c] = q]
    BY <1>9 DEF s
  <2> HIDE DEF q
  <2>9. /\ client' \in [Clients -> ClientStates]
        /\ \A d \in Clients : client'[d].pc = "waiting" => client'[d].init \in Proven(d)'
    BY <1>9, <2>7, <2>8, ClientChanged
  <2>10. verified' \subseteq Nat \X Nat /\ verified \subseteq verified'
    BY <1>6, <1>9, <2>1 DEF s
  <2>11. down' \in [Clients -> Seq(Fragments(Messages))]
    BY <1>6, <1>9
  <2> QED  BY <2>6, <2>9, <2>10, <2>11
<1>10. ASSUME client' = [client EXCEPT ![c] = [Idle EXCEPT !.pc = "failed"]],
              down' = [down EXCEPT ![c] = <<>>], UNCHANGED <<up, verified>>
       PROVE  Goal
  <2> DEFINE q == [Idle EXCEPT !.pc = "failed"]
  <2>1. q \in ClientStates /\ q.pc = "failed"
    BY IdleType DEF ClientStates
  <2>2. client' = [client EXCEPT ![c] = q]
    BY <1>10
  <2> HIDE DEF q
  <2>3. /\ client' \in [Clients -> ClientStates]
        /\ \A d \in Clients : client'[d].pc = "waiting" => client'[d].init \in Proven(d)'
    BY <1>10, <2>1, <2>2, ClientChanged
  <2>4. down' \in [Clients -> Seq(Fragments(Messages))]
    BY <1>6, <1>10
  <2> QED  BY <1>6, <1>10, <2>3, <2>4, UpKept
<1>11. Goal
  <2> HIDE DEF Goal
  <2> QED  BY <1>5, <1>7, <1>8, <1>9, <1>10
<1>12. TypeOK'
  BY <1>1, <1>11 DEF IInv, TypeOK
<1>13. Provenance'
  <2>1. (server.pc = "confirm" =>
            server.sess # None /\ server.partials \in Partials(Proven(server.peer)))'
    BY <1>1, <1>11, ServerKept
  <2> QED  BY <1>11, <2>1 DEF Provenance
<1> QED  BY <1>1, <1>11, <1>12, <1>13 DEF IInv, MutuallyVerified

LEMMA LeaveIInv ==
    ASSUME IInv, NEW c \in Clients, Leave(c)
    PROVE  IInv'
<1> DEFINE q == [Idle EXCEPT !.pc = "gone"]
<1>1. /\ client' = [client EXCEPT ![c] = q] /\ down' = [down EXCEPT ![c] = <<>>]
      /\ UNCHANGED <<setting, up, server, secret, bucket, made, challenges, lost, errors,
                     verified, accepted>>
  BY DEF Leave
<1>2. q \in ClientStates /\ q.pc = "gone"
  BY IdleType DEF ClientStates
<1> HIDE DEF q
<1>3. /\ client' \in [Clients -> ClientStates]
      /\ \A d \in Clients : client'[d].pc = "waiting" => client'[d].init \in Proven(d)'
  BY <1>1, <1>2, ClientChanged
<1>4. down' \in [Clients -> Seq(Fragments(Messages))]
  BY <1>1 DEF IInv, TypeOK
<1>5. TypeOK'
  BY <1>1, <1>3, <1>4 DEF IInv, TypeOK
<1>6. Provenance'
  BY <1>1, <1>3, UpKept, ServerKept DEF Provenance
<1> QED  BY <1>1, <1>5, <1>6 DEF IInv, MutuallyVerified

-----------------------------------------------------------------------------
(***************************************************************************)
(* The steps of the server.                                                *)
(***************************************************************************)

\* The next fragment of c is c's own, and leaves the channel.
LEMMA ServerReads ==
    ASSUME IInv, NEW c \in Clients, up[c] # <<>>, UNCHANGED verified
    PROVE  LET f == Head(up[c])
           IN /\ f.id \in MsgIds /\ f.part \in 1 .. FRAGS
              /\ f.msg \in Proven(c) /\ f.msg \in Messages
              /\ Tail(up[c]) \in Seq(Fragments(Proven(c)'))
<1>1. up[c] \in Seq(Fragments(Proven(c)))
  BY DEF IInv, Provenance
<1>2. /\ Head(up[c]).id \in MsgIds /\ Head(up[c]).part \in 1 .. FRAGS
      /\ Head(up[c]).msg \in Proven(c) /\ Tail(up[c]) \in Seq(Fragments(Proven(c)))
  BY <1>1, FragmentType
<1>3. Proven(c)' = Proven(c) /\ Proven(c) \subseteq Messages
  BY ProvenKept
<1> QED  BY <1>2, <1>3

LEMMA DownWithType ==
    ASSUME IInv, NEW c \in Clients, NEW m \in Messages, down' = DownWith(c, m)
    PROVE  down' \in [Clients -> Seq(Fragments(Messages))]
<1>1. down[c] \in Seq(Fragments(Messages)) /\ down \in [Clients -> Seq(Fragments(Messages))]
  BY DEF IInv, TypeOK
<1>2. Datagrams(m, secret) \in Seq(Fragments(Messages))
  BY DatagramsType DEF IInv, TypeOK
<1>3. down[c] \o Datagrams(m, secret) \in Seq(Fragments(Messages))
  BY <1>1, <1>2, Channel
<1> QED  BY <1>1, <1>3 DEF DownWith

\* What is left when the server listens on a fresh socket.
LEMMA RelistenEffect ==
    ASSUME IInv, NEW chans, \A d \in Clients : chans[d] \in Seq(Fragments(Proven(d))),
           Relisten(chans), UNCHANGED verified
    PROVE  /\ server' = Listen /\ secret' = secret + 1
           /\ up' \in [Clients -> Seq(Fragments(Messages))]
           /\ \A d \in Clients : up'[d] \in Seq(Fragments(Proven(d)'))
<1>1. server' = Listen /\ secret' = secret + 1
  BY DEF Relisten
<1>2. \A d \in Clients : up'[d] \in Suffixes(chans[d])
  BY DEF Relisten
<1>3. ASSUME NEW d \in Clients
      PROVE  up'[d] \in Seq(Fragments(Proven(d)')) /\ up'[d] \in Seq(Fragments(Messages))
  <2>1. Proven(d)' = Proven(d) /\ Proven(d) \subseteq Messages
    BY ProvenKept
  <2>2. up'[d] \in Seq(Fragments(Proven(d)))
    BY <1>2, Channel
  <2> QED  BY <2>1, <2>2, Monotone
<1>4. \E T : up' \in [Clients -> T]
  BY DEF Relisten
<1>5. up' \in [Clients -> Seq(Fragments(Messages))]
  BY <1>3, <1>4
<1> QED  BY <1>1, <1>3, <1>5

LEMMA ListenReceiveIInv ==
    ASSUME IInv, NEW c \in Clients, ListenReceive(c)
    PROVE  IInv'
<1> DEFINE f == Head(up[c])
<1>1. /\ server.pc = "listen" /\ up[c] # <<>>
      /\ up' = [up EXCEPT ![c] = Tail(up[c])]
      /\ UNCHANGED <<setting, client, secret, bucket, lost, errors, verified, accepted>>
  BY DEF ListenReceive
<1>2. /\ f.id \in MsgIds /\ f.part \in 1 .. FRAGS /\ f.msg \in Messages
      /\ Tail(up[c]) \in Seq(Fragments(Proven(c)'))
  BY <1>1, ServerReads
<1>3. server \in ServerStates /\ server.partials \in Partials(Messages)
  BY DEF IInv, TypeOK, ServerStates
<1> DEFINE r == push_parts(server.partials, f.id, f.part, f.msg)
<1>4. r.left \in Partials(Messages) /\ \A parts \in r.out : parts \in [1 .. FRAGS -> Messages]
  BY <1>2, <1>3, PushParts
<1>5. \/ server' = [server EXCEPT !.partials = r.left] /\ UNCHANGED <<down, made, challenges>>
      \/ \E parts \in r.out :
            Challenge(c, Decode(parts)) \/ Respond(c, Decode(parts)) \/ Ignore(Decode(parts))
  BY DEF ListenReceive
<1> HIDE DEF f, r
<1>6. /\ up' \in [Clients -> Seq(Fragments(Messages))]
      /\ \A d \in Clients : up'[d] \in Seq(Fragments(Proven(d)'))
  BY <1>1, <1>2, UpChanged
<1>7. \A d \in Clients : client'[d].pc = "waiting" => client'[d].init \in Proven(d)'
  BY <1>1, ClientsKept
<1> DEFINE Goal ==
       /\ server' \in ServerStates /\ down' \in [Clients -> Seq(Fragments(Messages))]
       /\ made' \in Nat /\ challenges' \in Nat
       /\ server'.pc = "confirm" =>
             server'.sess # None /\ server'.partials = NoPartials
<1>8. /\ down \in [Clients -> Seq(Fragments(Messages))] /\ made \in Nat /\ challenges \in Nat
      /\ secret \in Nat /\ bucket \in Nat /\ c \in Nat
  BY ConstantTypes DEF IInv, TypeOK
<1>9. ASSUME server' = [server EXCEPT !.partials = r.left], UNCHANGED <<down, made, challenges>>
      PROVE  Goal
  BY <1>1, <1>3, <1>4, <1>8, <1>9 DEF ServerStates
<1>10. Listen.pc = "listen" /\ Listen \in ServerStates
  BY ListenType DEF Listen
<1>11. ASSUME NEW m \in Messages, Challenge(c, m) PROVE Goal
  <2> DEFINE ck == [src |-> c, secret |-> secret, bucket |-> bucket]
  <2>1. ck \in Cookies
    BY <1>8 DEF Cookies
  <2>2. /\ challenges' = challenges + 1 /\ server' = Listen /\ UNCHANGED made
        /\ down' = DownWith(c, Message("Challenge", c, challenges', None, ck, None))
    BY <1>11 DEF Challenge
  <2> HIDE DEF ck
  <2>3. challenges' \in Nat
    BY <1>8, <2>2
  <2>4. Message("Challenge", c, challenges', None, ck, None) \in Messages
    BY <1>8, <2>1, <2>3, MessageType, NoCookieType
  <2>5. down' \in [Clients -> Seq(Fragments(Messages))]
    BY <2>2, <2>4, DownWithType
  <2> QED  BY <1>8, <1>10, <2>2, <2>3, <2>5
<1>12. ASSUME NEW m \in Messages, Respond(c, m) PROVE Goal
  <2>1. /\ made' = made + 1 /\ UNCHANGED challenges
        /\ down' = DownWith(c, Message("Response", m.client, 0, made', NoCookie, made'))
        /\ server' = [Listen EXCEPT !.pc = "confirm", !.peer = c, !.sess = made',
                                    !.since = Waiting]
    BY <1>12 DEF Respond
  <2>2. made' \in Nat /\ made' # None
    BY <1>8, <2>1 DEF None
  <2>3. Message("Response", m.client, 0, made', NoCookie, made') \in Messages
    <3>1. m.client \in Nat
      BY DEF Messages
    <3> QED  BY <2>2, <3>1, MessageType, NoCookieType
  <2>4. down' \in [Clients -> Seq(Fragments(Messages))]
    BY <2>1, <2>3, DownWithType
  <2>5. Waiting \in SUBSET Clients
    BY DEF Waiting
  <2>6. server' \in ServerStates
    BY <1>8, <1>10, <2>1, <2>2, <2>5 DEF ServerStates
  <2>7. server'.sess = made' /\ server'.partials = NoPartials
    BY <2>1 DEF Listen
  <2> QED  BY <1>8, <2>1, <2>2, <2>4, <2>6, <2>7
<1>13. ASSUME NEW m \in Messages, Ignore(m) PROVE Goal
  BY <1>8, <1>10, <1>13 DEF Ignore
<1>14. Goal
  <2>1. \A parts \in r.out : Decode(parts) \in Messages
    BY <1>4, DecodeType
  <2> HIDE DEF Goal
  <2> QED  BY <1>5, <1>9, <1>11, <1>12, <1>13, <2>1
<1>15. TypeOK'
  BY <1>1, <1>6, <1>14 DEF IInv, TypeOK
<1>16. Provenance'
  <2>1. server'.pc = "confirm" =>
           server'.sess # None /\ server'.partials \in Partials(Proven(server.peer)')
    BY <1>14, NoPartialsType
  <2> QED  BY <1>6, <1>7, <2>1 DEF Provenance, None
<1> QED  BY <1>1, <1>15, <1>16 DEF IInv, MutuallyVerified

LEMMA ConfirmReceiveIInv ==
    ASSUME IInv, NEW c \in Clients, ConfirmReceive(c)
    PROVE  IInv'
<1> DEFINE f == Head(up[c])
           rest == [up EXCEPT ![c] = Tail(up[c])]
<1>1. /\ server.pc = "confirm" /\ up[c] # <<>>
      /\ UNCHANGED <<setting, down, client, bucket, made, challenges, lost, errors, verified>>
  BY DEF ConfirmReceive
<1>2. /\ f.id \in MsgIds /\ f.part \in 1 .. FRAGS /\ f.msg \in Proven(c)
      /\ Tail(up[c]) \in Seq(Fragments(Proven(c)'))
  BY <1>1, ServerReads
<1>3. /\ server \in ServerStates /\ server.sess # None /\ server.sess \in Nat
      /\ server.partials \in Partials(Proven(server.peer)) /\ secret \in Nat /\ c \in Nat
  BY <1>1, ConstantTypes DEF IInv, TypeOK, Provenance, ServerStates
<1>4. Proven(c)' = Proven(c) /\ Proven(c) \subseteq Messages
  BY <1>1, ProvenKept
<1> DEFINE r == push_parts(server.partials, f.id, f.part, f.msg)
<1>5. c = server.peer => /\ r.left \in Partials(Proven(c))
                         /\ \A parts \in r.out : parts \in [1 .. FRAGS -> Proven(c)]
  BY <1>2, <1>3, PushParts
<1>6. \/ up' = rest /\ UNCHANGED <<server, secret, accepted>>
      \/ /\ c = server.peer
         /\ up' = rest
         /\ server' = [server EXCEPT !.partials = r.left]
         /\ UNCHANGED <<secret, accepted>>
      \/ /\ c = server.peer
         /\ \E parts \in r.out :
              \/ /\ Confirms(Decode(parts), server.sess)
                 /\ accepted' = accepted \cup {<<c, server.sess>>}
                 /\ \/ /\ server' = [Listen EXCEPT !.pc = "up", !.peer = c, !.sess = server.sess]
                       /\ up' = rest
                       /\ UNCHANGED secret
                    \/ Relisten(rest)
              \/ server' = Listen /\ up' = rest /\ UNCHANGED <<secret, accepted>>
  BY DEF ConfirmReceive, FromPeer
<1>7. \A d \in Clients : rest[d] \in Seq(Fragments(Proven(d)))
  BY <1>2, <1>4 DEF IInv, TypeOK, Provenance
<1>8. up' = rest => /\ up' \in [Clients -> Seq(Fragments(Messages))]
                    /\ \A d \in Clients : up'[d] \in Seq(Fragments(Proven(d)'))
  BY <1>1, <1>2, UpChanged
<1>9. Relisten(rest) => /\ up' \in [Clients -> Seq(Fragments(Messages))]
                        /\ \A d \in Clients : up'[d] \in Seq(Fragments(Proven(d)'))
                        /\ server' = Listen /\ secret' = secret + 1
  <2> HIDE DEF rest
  <2> QED  BY <1>1, <1>7, RelistenEffect
<1> HIDE DEF f, r, rest
<1> DEFINE Goal ==
       /\ up' \in [Clients -> Seq(Fragments(Messages))]
       /\ \A d \in Clients : up'[d] \in Seq(Fragments(Proven(d)'))
       /\ server' \in ServerStates /\ secret' \in Nat
       /\ server'.pc = "confirm" =>
             /\ server'.sess # None /\ server'.peer = server.peer
             /\ server'.partials \in Partials(Proven(server.peer))
       /\ accepted' \subseteq accepted \cup (verified \cap (Nat \X Nat))
<1>10. Listen.pc = "listen" /\ Listen \in ServerStates
  BY ListenType DEF Listen
<1>11. ASSUME up' = rest, UNCHANGED <<server, secret, accepted>> PROVE Goal
  BY <1>3, <1>8, <1>11
<1>12. ASSUME c = server.peer, up' = rest, server' = [server EXCEPT !.partials = r.left],
              UNCHANGED <<secret, accepted>>
       PROVE  Goal
  <2>1. r.left \in Partials(Messages)
    BY <1>4, <1>5, <1>12, Monotone
  <2>2. /\ server' \in ServerStates /\ server'.sess = server.sess /\ server'.peer = server.peer
        /\ server'.partials = r.left
    BY <1>3, <1>12, <2>1 DEF ServerStates
  <2> QED  BY <1>3, <1>5, <1>8, <1>12, <2>2
<1>13. ASSUME c = server.peer, NEW parts \in r.out, Confirms(Decode(parts), server.sess),
              accepted' = accepted \cup {<<c, server.sess>>},
              \/ /\ server' = [Listen EXCEPT !.pc = "up", !.peer = c, !.sess = server.sess]
                 /\ up' = rest
                 /\ UNCHANGED secret
              \/ Relisten(rest)
       PROVE  Goal
  \* Its second part is signed, so it is the peer's own and proven.
  <2>1. parts[2] \in Proven(c) /\ parts[2].signed = server.sess
    BY <1>4, <1>5, <1>13, DecodeType DEF Confirms
  <2>2. <<c, server.sess>> \in verified \cap (Nat \X Nat)
    BY <1>3, <2>1 DEF Proven
  <2>3. CASE server' = [Listen EXCEPT !.pc = "up", !.peer = c, !.sess = server.sess]
             /\ up' = rest /\ UNCHANGED secret
    <3>1. server' \in ServerStates /\ server'.pc = "up"
      BY <1>3, <1>10, <2>3 DEF ServerStates
    <3> QED  BY <1>3, <1>8, <1>13, <2>2, <2>3, <3>1
  <2>4. CASE Relisten(rest)
    <3>1. server' \in ServerStates /\ server'.pc = "listen" /\ secret' \in Nat
      BY <1>3, <1>9, <1>10, <2>4
    <3>2. /\ up' \in [Clients -> Seq(Fragments(Messages))]
          /\ \A d \in Clients : up'[d] \in Seq(Fragments(Proven(d)'))
      BY <1>9, <2>4
    <3>3. accepted' \subseteq accepted \cup (verified \cap (Nat \X Nat))
      BY <1>13, <2>2
    <3> QED  BY <3>1, <3>2, <3>3
  <2> QED  BY <1>13, <2>3, <2>4
<1>14. ASSUME server' = Listen, up' = rest, UNCHANGED <<secret, accepted>> PROVE Goal
  BY <1>3, <1>8, <1>10, <1>14
<1>15. Goal
  <2> HIDE DEF Goal
  <2> QED  BY <1>6, <1>11, <1>12, <1>13, <1>14
<1>16. TypeOK'
  BY <1>1, <1>15 DEF IInv, TypeOK
<1>17. Provenance'
  <2>1. ASSUME server'.pc = "confirm"
        PROVE  server'.sess # None /\ server'.partials \in Partials(Proven(server.peer)')
    <3>1. server'.peer = server.peer
      BY <1>15, <2>1
    <3>2. Proven(server.peer)' = Proven(server.peer)
      BY <1>1, <3>1 DEF Proven
    <3> QED  BY <1>15, <2>1, <3>2
  <2>2. \A d \in Clients : client'[d].pc = "waiting" => client'[d].init \in Proven(d)'
    BY <1>1, ClientsKept
  <2> QED  BY <1>15, <2>1, <2>2 DEF Provenance, None
<1>18. MutuallyVerified'
  BY <1>1, <1>15 DEF IInv, MutuallyVerified
<1> QED  BY <1>16, <1>17, <1>18 DEF IInv

\* The server goes back to listening and nothing else of it changes.
LEMMA BackToListen ==
    ASSUME IInv, server' = Listen, UNCHANGED <<setting, client, bucket, made, challenges, lost,
                                               verified, accepted, down>>,
           secret' \in Nat, errors' \in Nat,
           up' \in [Clients -> Seq(Fragments(Messages))],
           \A d \in Clients : up'[d] \in Seq(Fragments(Proven(d)'))
    PROVE  IInv'
<1>1. server' \in ServerStates /\ server'.pc = "listen"
  BY ListenType DEF Listen
<1>2. TypeOK'
  BY <1>1 DEF IInv, TypeOK
<1>3. Provenance'
  BY <1>1, ClientsKept DEF Provenance
<1> QED  BY <1>2, <1>3 DEF IInv, MutuallyVerified

LEMMA ConfirmTimeoutIInv == ASSUME IInv, ConfirmTimeout PROVE IInv'
<1>1. /\ server' = Listen
      /\ UNCHANGED <<setting, up, down, client, secret, bucket, made, challenges, lost, errors,
                     verified, accepted>>
  BY DEF ConfirmTimeout
<1>2. secret' \in Nat /\ errors' \in Nat
  BY <1>1 DEF IInv, TypeOK
<1> QED  BY <1>1, <1>2, UpKept, BackToListen

LEMMA RelistenIInv ==
    ASSUME IInv, SocketError \/ TunnelEnds
    PROVE  IInv'
<1>1. /\ Relisten(up)
      /\ UNCHANGED <<setting, down, client, bucket, made, challenges, lost, verified, accepted>>
      /\ errors' \in {errors, errors + 1}
  BY DEF SocketError, TunnelEnds
<1>2. \A d \in Clients : up[d] \in Seq(Fragments(Proven(d)))
  BY DEF IInv, Provenance
<1>3. /\ server' = Listen /\ secret' = secret + 1
      /\ up' \in [Clients -> Seq(Fragments(Messages))]
      /\ \A d \in Clients : up'[d] \in Seq(Fragments(Proven(d)'))
  BY <1>1, <1>2, RelistenEffect
<1>4. secret' \in Nat /\ errors' \in Nat
  BY <1>1, <1>3 DEF IInv, TypeOK
<1> QED  BY <1>1, <1>3, <1>4, BackToListen

\* A fragment that nobody takes, or that the network drops.
LEMMA DropIInv ==
    ASSUME IInv, NEW c \in Clients, TunnelReceive(c) \/ Lose(c)
    PROVE  IInv'
<1>1. /\ UNCHANGED <<setting, client, server, secret, bucket, made, challenges, errors, verified,
                     accepted>>
      /\ lost' \in {lost, lost + 1}
      /\ \/ up[c] # <<>> /\ up' = [up EXCEPT ![c] = Tail(up[c])] /\ UNCHANGED down
         \/ down[c] # <<>> /\ down' = [down EXCEPT ![c] = Tail(down[c])] /\ UNCHANGED <<up>>
  BY DEF TunnelReceive, Lose, LoseFrom
<1>2. lost' \in Nat
  BY <1>1 DEF IInv, TypeOK
<1>3. /\ up' \in [Clients -> Seq(Fragments(Messages))]
      /\ \A d \in Clients : up'[d] \in Seq(Fragments(Proven(d)'))
  <2>1. CASE up[c] # <<>> /\ up' = [up EXCEPT ![c] = Tail(up[c])]
    BY <1>1, <2>1, ServerReads, UpChanged
  <2>2. CASE UNCHANGED <<up>>
    BY <1>1, <2>2, UpKept
  <2> QED  BY <1>1, <2>1, <2>2
<1>4. down' \in [Clients -> Seq(Fragments(Messages))]
  <2>1. down \in [Clients -> Seq(Fragments(Messages))]
    BY DEF IInv, TypeOK
  <2>2. down[c] # <<>> => Tail(down[c]) \in Seq(Fragments(Messages))
    BY <2>1, Channel
  <2> QED  BY <1>1, <2>1, <2>2
<1>5. TypeOK'
  BY <1>1, <1>2, <1>3, <1>4 DEF IInv, TypeOK
<1>6. Provenance'
  BY <1>1, <1>3, ClientsKept, ServerKept DEF Provenance
<1> QED  BY <1>1, <1>5, <1>6 DEF IInv, MutuallyVerified

LEMMA PruneIInv == ASSUME IInv, Prune PROVE IInv'
<1>1. PICK old : /\ server.pc = "listen"
                 /\ server' = [server EXCEPT !.partials = Without(server.partials, old)]
                 /\ UNCHANGED <<setting, up, down, client, secret, bucket, made, challenges, lost,
                                errors, verified, accepted>>
  BY DEF Prune
<1>2. server \in ServerStates /\ server.partials \in Partials(Messages)
  BY DEF IInv, TypeOK, ServerStates
<1>3. Without(server.partials, old) \in Partials(Messages)
  <2> DEFINE ps == server.partials
  <2>1. DOMAIN ps \subseteq MsgIds /\ ps \in [DOMAIN ps -> Chunks(Messages)]
    BY <1>2, PartialsElim
  <2>2. Without(ps, old) \in [DOMAIN ps \ old -> Chunks(Messages)]
    BY <2>1 DEF Without
  <2>3. DOMAIN ps \ old \in SUBSET MsgIds
    BY <2>1
  <2> QED  BY <2>2, <2>3, PartialsIntro
<1>4. server' \in ServerStates /\ server'.pc = "listen"
  BY <1>1, <1>2, <1>3 DEF ServerStates
<1>5. TypeOK'
  BY <1>1, <1>4 DEF IInv, TypeOK
<1>6. Provenance'
  BY <1>1, <1>4, UpKept, ClientsKept DEF Provenance
<1> QED  BY <1>1, <1>5, <1>6 DEF IInv, MutuallyVerified

LEMMA WindowIInv == ASSUME IInv, NextWindow PROVE IInv'
<1>1. /\ bucket' = bucket + 1
      /\ UNCHANGED <<setting, up, down, client, server, secret, made, challenges, lost, errors,
                     verified, accepted>>
  BY DEF NextWindow
<1>2. TypeOK'
  BY <1>1 DEF IInv, TypeOK
<1>3. Provenance'
  BY <1>1, UpKept, ClientsKept, ServerKept DEF Provenance
<1> QED  BY <1>1, <1>2, <1>3 DEF IInv, MutuallyVerified

LEMMA StutterIInv == ASSUME IInv, UNCHANGED vars PROVE IInv'
<1>1. UNCHANGED <<setting, up, down, client, server, secret, bucket, made, challenges, lost,
                  errors, verified, accepted>>
  BY DEF vars
<1>2. TypeOK'
  BY <1>1 DEF IInv, TypeOK
<1>3. Provenance'
  BY <1>1, UpKept, ClientsKept, ServerKept DEF Provenance
<1> QED  BY <1>1, <1>2, <1>3 DEF IInv, MutuallyVerified

LEMMA NextIInv == IInv /\ [Next]_vars => IInv'
<1> SUFFICES ASSUME IInv, [Next]_vars PROVE IInv'
  OBVIOUS
<1>1. CASE Next
  BY <1>1, StartIInv, AttemptTimeoutIInv, ClientReceiveIInv, LeaveIInv, ListenReceiveIInv,
     ConfirmReceiveIInv, ConfirmTimeoutIInv, RelistenIInv, DropIInv, PruneIInv, WindowIInv
     DEF Next, ServerStep, ClientStep
<1> QED  BY <1>1, StutterIInv

LEMMA IInvInvariance == Spec => []IInv
<1>1. Init => IInv
  BY InitIInv
<1>2. IInv /\ [Next]_vars => IInv'
  BY NextIInv
<1> QED  BY <1>1, <1>2, PTL DEF Spec

\* Type correctness: fragments, what is made of them, and the two state machines.
THEOREM TypeCorrect == Spec => []TypeOK
<1>1. IInv => TypeOK
  BY DEF IInv
<1> QED  BY <1>1, IInvInvariance, PTL

(***************************************************************************)
(* Whatever arrives, in whatever order and pieced together in whatever     *)
(* way, run_handshake_responder returns a session only when the client it  *)
(* returns it for verified the Response of that very handshake.            *)
(***************************************************************************)
THEOREM AcceptedAreVerified == Spec => []MutuallyVerified
<1>1. IInv => MutuallyVerified
  BY DEF IInv
<1> QED  BY <1>1, IInvInvariance, PTL

-----------------------------------------------------------------------------
(***************************************************************************)
(* Channels: what is left of one, and what build_handshake_datagrams puts  *)
(* at its end.                                                             *)
(***************************************************************************)
Suffix(r, q) == \E k \in 0 .. Len(q) : /\ Len(r) = Len(q) - k
                                       /\ \A i \in 1 .. Len(r) : r[i] = q[i + k]

LEMMA SuffixKept == ASSUME NEW S, NEW q \in Seq(S) PROVE Suffix(q, q) /\ Suffix(<<>>, q)
<1>1. /\ Len(q) \in Nat /\ 0 \in 0 .. Len(q) /\ Len(q) \in 0 .. Len(q)
      /\ Len(q) = Len(q) - 0 /\ Len(<<>>) = Len(q) - Len(q)
  OBVIOUS
<1>2. \A i \in 1 .. Len(q) : i + 0 = i
  BY <1>1
<1>3. 1 .. Len(<<>>) = {}
  OBVIOUS
<1>4. Suffix(q, q)
  <2>1. \A i \in 1 .. Len(q) : q[i] = q[i + 0]
    BY <1>2
  <2> QED  BY <1>1, <2>1 DEF Suffix
<1>5. Suffix(<<>>, q)
  <2>1. \A i \in 1 .. Len(<<>>) : <<>>[i] = q[i + Len(q)]
    BY <1>3
  <2> QED  BY <1>1, <2>1 DEF Suffix
<1> QED  BY <1>4, <1>5

LEMMA TailSuffix ==
    ASSUME NEW S, NEW q \in Seq(S), q # <<>>
    PROVE  /\ Len(Tail(q)) = Len(q) - 1 /\ Len(q) \in Nat /\ Len(q) > 0
           /\ \A i \in 1 .. Len(Tail(q)) : Tail(q)[i] = q[i + 1]
           /\ Head(q) = q[1] /\ 1 \in 1 .. Len(q)
           /\ Tail(q) \in Seq(S)
           /\ Suffix(Tail(q), q)
<1>1. /\ Len(Tail(q)) = Len(q) - 1 /\ Len(q) \in Nat /\ Len(q) > 0
      /\ \A i \in 1 .. Len(Tail(q)) : Tail(q)[i] = q[i + 1]
      /\ Head(q) = q[1] /\ 1 \in 1 .. Len(q)
      /\ Tail(q) \in Seq(S)
  OBVIOUS
<1>2. 1 \in 0 .. Len(q)
  BY <1>1
<1> QED  BY <1>1, <1>2 DEF Suffix

LEMMA SuffixesAre ==
    ASSUME NEW S, NEW q \in Seq(S), NEW r \in Suffixes(q)
    PROVE  Suffix(r, q)
<1>1. PICK k \in 1 .. Len(q) + 1 : r = SubSeq(q, k, Len(q))
  BY DEF Suffixes
<1>2. Len(q) \in Nat /\ k - 1 \in 0 .. Len(q)
  BY <1>1
<1>3. Len(r) = Len(q) - (k - 1) /\ \A i \in 1 .. Len(r) : r[i] = q[i + (k - 1)]
  BY <1>1, <1>2
<1> QED  BY <1>2, <1>3 DEF Suffix

LEMMA SuffixOfTail ==
    ASSUME NEW S, NEW q \in Seq(S), q # <<>>, NEW r, Suffix(r, Tail(q))
    PROVE  Suffix(r, q)
<1>1. PICK k \in 0 .. Len(Tail(q)) : /\ Len(r) = Len(Tail(q)) - k
                                     /\ \A i \in 1 .. Len(r) : r[i] = Tail(q)[i + k]
  BY DEF Suffix
<1>2. /\ Len(Tail(q)) = Len(q) - 1 /\ Len(q) \in Nat /\ Len(q) > 0
      /\ \A i \in 1 .. Len(Tail(q)) : Tail(q)[i] = q[i + 1]
  BY TailSuffix
<1>3. k + 1 \in 0 .. Len(q) /\ Len(r) = Len(q) - (k + 1)
  BY <1>1, <1>2
<1>4. ASSUME NEW i \in 1 .. Len(r) PROVE r[i] = q[i + (k + 1)]
  <2>1. i + k \in 1 .. Len(Tail(q))
    BY <1>1, <1>2
  <2>2. r[i] = q[(i + k) + 1]
    BY <1>1, <1>2, <2>1
  <2> QED  BY <1>1, <1>2, <2>2
<1> QED  BY <1>3, <1>4 DEF Suffix

\* r is q followed by the fragments of m.
IsAppended(r, q, m) ==
    /\ Len(r) = Len(q) + FRAGS /\ Len(q) \in Nat /\ r # <<>>
    /\ \A i \in 1 .. Len(q) : r[i] = q[i]
    /\ \A i \in 1 .. Len(r) : i > Len(q) => r[i] = [id |-> m, part |-> i - Len(q), msg |-> m]
    /\ \A p \in 1 .. FRAGS : r[Len(q) + p] = [id |-> m, part |-> p, msg |-> m]

LEMMA Appended ==
    ASSUME setting.obf, NEW q \in Seq(Fragments(Messages)), NEW m, NEW x
    PROVE  IsAppended(q \o Datagrams(m, x), q, m)
<1> DEFINE d == Datagrams(m, x)
           T == {[id |-> m, part |-> i, msg |-> m] : i \in 1 .. FRAGS}
<1>1. FRAGS = 3
  BY ConstantTypes
<1>2. d = [i \in 1 .. FRAGS |-> [id |-> m, part |-> i, msg |-> m]]
  BY DEF Datagrams
<1>3. d \in Seq(T) /\ Len(d) = FRAGS /\ \A i \in 1 .. FRAGS : d[i] = [id |-> m, part |-> i, msg |-> m]
  BY <1>1, <1>2
<1> HIDE DEF d, T
<1>4. q \in Seq(Fragments(Messages) \cup T) /\ d \in Seq(Fragments(Messages) \cup T)
  BY <1>3
<1> DEFINE r == q \o d
<1>12. r = q \o d
  OBVIOUS
<1> HIDE DEF r
<1>5. Len(r) = Len(q) + FRAGS /\ Len(q) \in Nat
  <2>1. Len(r) = Len(q) + Len(d) /\ Len(q) \in Nat
    BY <1>4, <1>12
  <2> QED  BY <1>3, <2>1
<1>6. \A i \in 1 .. Len(q) : r[i] = q[i]
  BY <1>4, <1>12
<1>7. \A i \in 1 .. Len(r) : i > Len(q) => r[i] = d[i - Len(q)]
  BY <1>1, <1>3, <1>4, <1>5, <1>12
<1>8. \A i \in 1 .. Len(r) : i > Len(q) => i - Len(q) \in 1 .. FRAGS
  BY <1>1, <1>5
<1>9. r # <<>>
  BY <1>1, <1>5
<1>10. \A i \in 1 .. Len(r) : i > Len(q) => r[i] = [id |-> m, part |-> i - Len(q), msg |-> m]
  BY <1>3, <1>7, <1>8
<1>11. \A p \in 1 .. FRAGS : r[Len(q) + p] = [id |-> m, part |-> p, msg |-> m]
  <2> TAKE p \in 1 .. FRAGS
  <2>1. Len(q) + p \in 1 .. Len(r) /\ Len(q) + p > Len(q) /\ (Len(q) + p) - Len(q) = p
    BY <1>1, <1>5
  <2> QED  BY <1>3, <1>7, <2>1
<1> QED  BY <1>5, <1>6, <1>9, <1>10, <1>11 DEF IsAppended, r, d

-----------------------------------------------------------------------------
(***************************************************************************)
(* What push_parts does to the partial messages: the others stay, the one  *)
(* of this part has it besides those it had, and when it has all it is     *)
(* taken out.                                                              *)
(***************************************************************************)
Has(ps, id, p) == id \in DOMAIN ps /\ p \in DOMAIN ps[id]

LEMMA PushEffect ==
    ASSUME NEW M, NEW ps \in Partials(M), NEW id \in MsgIds, NEW part \in 1 .. FRAGS,
           NEW chunk \in M, NEW r, r = push_parts(ps, id, part, chunk)
    PROVE  /\ \A m \in DOMAIN ps : m # id => m \in DOMAIN r.left /\ r.left[m] = ps[m]
           /\ \A m \in DOMAIN r.left : m # id => m \in DOMAIN ps /\ r.left[m] = ps[m]
           /\ \A p : Has(r.left, id, p) => \/ p = part /\ r.left[id][p] = chunk
                                           \/ Has(ps, id, p) /\ r.left[id][p] = ps[id][p]
           /\ \A parts \in r.out : \A p \in 1 .. FRAGS :
                 \/ p = part /\ parts[p] = chunk
                 \/ Has(ps, id, p) /\ parts[p] = ps[id][p]
           /\ r.out = {} /\ (id \in DOMAIN ps \/ ~(Cardinality(DOMAIN ps) >= MAX_PENDING_MSGS)) =>
                 /\ \A p : Has(r.left, id, p) <=> p = part \/ Has(ps, id, p)
                 /\ \E p \in 1 .. FRAGS : ~Has(r.left, id, p)
<1> DEFINE old  == IF id \in DOMAIN ps THEN ps[id] ELSE <<>>
           one  == With(old, part, chunk)
           new  == With(ps, id, one)
<1>1. DOMAIN ps \subseteq MsgIds /\ ps \in [DOMAIN ps -> Chunks(M)]
  BY PartialsElim
<1>2. \A p : (p \in DOMAIN old <=> Has(ps, id, p)) /\ (p \in DOMAIN old => old[p] = ps[id][p])
  <2>1. CASE id \in DOMAIN ps
    BY <2>1 DEF Has
  <2>2. CASE id \notin DOMAIN ps
    <3>1. old = <<>> /\ DOMAIN old = {}
      BY <2>2
    <3> QED  BY <2>2, <3>1 DEF Has
  <2> QED  BY <2>1, <2>2
<1>3. DOMAIN old \subseteq 1 .. FRAGS
  BY <1>1, ChunksElim
<1>4. /\ DOMAIN one = {part} \cup DOMAIN old
      /\ \A p \in DOMAIN one : one[p] = IF p = part THEN chunk ELSE old[p]
  BY DEF With
<1> HIDE DEF old, one
<1>5. /\ DOMAIN new = {id} \cup DOMAIN ps
      /\ \A m \in DOMAIN new : new[m] = IF m = id THEN one ELSE ps[m]
  BY DEF With
<1>6. r = IF id \notin DOMAIN ps /\ Cardinality(DOMAIN ps) >= MAX_PENDING_MSGS
          THEN [left |-> ps, out |-> {}]
          ELSE IF Cardinality(DOMAIN new[id]) = FRAGS
               THEN [left |-> Without(new, {id}), out |-> {new[id]}]
               ELSE [left |-> new, out |-> {}]
  BY DEF push_parts, old, one
<1> HIDE DEF new
<1>7. /\ DOMAIN Without(new, {id}) = DOMAIN ps \ {id}
      /\ \A m \in DOMAIN ps \ {id} : Without(new, {id})[m] = ps[m]
  BY <1>5 DEF Without
<1>8. FRAGS \in Nat /\ IsFiniteSet(1 .. FRAGS) /\ Cardinality(1 .. FRAGS) = FRAGS
  <2>1. FRAGS \in Nat /\ FRAGS > 0
    BY ConstantTypes
  <2> QED  BY <2>1, FS_Interval
<1>9. /\ Cardinality(DOMAIN one) = FRAGS => DOMAIN one = 1 .. FRAGS
      /\ Cardinality(DOMAIN one) # FRAGS => \E p \in 1 .. FRAGS : p \notin DOMAIN one
  <2>1. DOMAIN one \subseteq 1 .. FRAGS
    BY <1>3, <1>4
  <2>2. Cardinality(DOMAIN one) = FRAGS => DOMAIN one = 1 .. FRAGS
    BY <1>8, <2>1, FS_Subset
  <2>3. (\A p \in 1 .. FRAGS : p \in DOMAIN one) => DOMAIN one = 1 .. FRAGS
    BY <2>1
  <2> QED  BY <1>8, <2>2, <2>3
<1>10. CASE id \notin DOMAIN ps /\ Cardinality(DOMAIN ps) >= MAX_PENDING_MSGS
  <2>1. r.left = ps /\ r.out = {}
    BY <1>6, <1>10
  <2> QED  BY <1>10, <2>1 DEF Has
<1>11. CASE ~(id \notin DOMAIN ps /\ Cardinality(DOMAIN ps) >= MAX_PENDING_MSGS)
            /\ Cardinality(DOMAIN one) = FRAGS
  <2>1. r.left = Without(new, {id}) /\ r.out = {one}
    BY <1>5, <1>6, <1>11
  <2>2. \A p \in 1 .. FRAGS : \/ p = part /\ one[p] = chunk
                              \/ Has(ps, id, p) /\ one[p] = ps[id][p]
    BY <1>2, <1>4, <1>9, <1>11
  <2> QED  BY <1>7, <2>1, <2>2 DEF Has
<1>12. CASE ~(id \notin DOMAIN ps /\ Cardinality(DOMAIN ps) >= MAX_PENDING_MSGS)
            /\ Cardinality(DOMAIN one) # FRAGS
  <2>1. r.left = new /\ r.out = {}
    BY <1>5, <1>6, <1>12
  <2>2. \A p : Has(new, id, p) <=> p \in DOMAIN one
    BY <1>5 DEF Has
  <2>3. \A p : Has(new, id, p) <=> p = part \/ Has(ps, id, p)
    BY <1>2, <1>4, <2>2
  <2>4. \A p : Has(new, id, p) => \/ p = part /\ new[id][p] = chunk
                                  \/ Has(ps, id, p) /\ new[id][p] = ps[id][p]
    BY <1>2, <1>4, <1>5, <2>2
  <2>5. \E p \in 1 .. FRAGS : ~Has(new, id, p)
    BY <1>9, <1>12, <2>2
  <2>6. /\ \A m \in DOMAIN ps : m # id => m \in DOMAIN new /\ new[m] = ps[m]
        /\ \A m \in DOMAIN new : m # id => m \in DOMAIN ps /\ new[m] = ps[m]
    BY <1>5
  <2> QED  BY <2>1, <2>3, <2>4, <2>5, <2>6
<1> QED  BY <1>10, <1>11, <1>12

-----------------------------------------------------------------------------
(***************************************************************************)
(* The ways in which a channel q and a Reassembler's partial messages ps   *)
(* fit together when the timers outlast the round trip.                    *)
(***************************************************************************)

\* Under obfuscation a fragment is of the message whose msg_id it has, and so is a part at hand.
Tags(q) == \A i \in 1 .. Len(q) : q[i].id = q[i].msg
Own(ps) == \A m \in DOMAIN ps : \A p \in DOMAIN ps[m] : ps[m][p] = m

\* No first part of c's is on its way or at hand: nothing of c's can become complete.
NoFirst(c, q, ps) ==
    /\ \A i \in 1 .. Len(q) : q[i].part # 1
    /\ \A m \in DOMAIN ps : m.client = c => 1 \notin DOMAIN ps[m]

(***************************************************************************)
(* c asks with B, the latest of its Inits: no older one can be completed,  *)
(* and B only once by what is on the way.                                  *)
(***************************************************************************)
Clean(c, q, ps, B, a) ==
    /\ \A i \in 1 .. Len(q) : q[i].msg.build \in 0 .. a /\ (q[i].msg # B => q[i].part # 1)
    /\ \A i, j \in 1 .. Len(q) : i < j /\ q[i].msg = B => q[j].msg = B /\ q[j].part # 1
    /\ \A m \in DOMAIN ps : m.client = c =>
          m.build \in 0 .. a /\ (m # B => 1 \notin DOMAIN ps[m])

OnlyOf(B, q, ps) == /\ \A i \in 1 .. Len(q) : q[i].msg = B
                    /\ \A m \in DOMAIN ps : m = B

\* For client c there is nothing in ns that is not in ps.
Less(c, ns, ps) ==
    \A m \in DOMAIN ns : m.client = c => m \in DOMAIN ps /\ ns[m] = ps[m]

LEMMA CleanLess ==
    ASSUME NEW c, NEW q, NEW r, NEW ps, NEW ns, NEW B, NEW a,
           Len(q) \in Nat, Len(r) \in Nat, Suffix(r, q), Less(c, ns, ps)
    PROVE  /\ Clean(c, q, ps, B, a) => Clean(c, r, ns, B, a)
           /\ NoFirst(c, q, ps) => NoFirst(c, r, ns)
           /\ Tags(q) => Tags(r)
<1>1. PICK k \in 0 .. Len(q) : Len(r) = Len(q) - k /\ \A i \in 1 .. Len(r) : r[i] = q[i + k]
  BY DEF Suffix
<1>2. \A i \in 1 .. Len(r) : i + k \in 1 .. Len(q) /\ r[i] = q[i + k]
  BY <1>1
<1>3. \A i, j \in 1 .. Len(r) : i < j => i + k < j + k
  BY <1>1
<1>4. ASSUME Clean(c, q, ps, B, a) PROVE Clean(c, r, ns, B, a)
  BY <1>2, <1>3, <1>4 DEF Clean, Less
<1>5. ASSUME NoFirst(c, q, ps) PROVE NoFirst(c, r, ns)
  BY <1>2, <1>5 DEF NoFirst, Less
<1> QED  BY <1>2, <1>4, <1>5 DEF Tags

LEMMA OwnPush ==
    ASSUME NEW q \in Seq(Fragments(Messages)), q # <<>>, Tags(q),
           NEW ps \in Partials(Messages), Own(ps), NEW r,
           r = push_parts(ps, Head(q).id, Head(q).part, Head(q).msg)
    PROVE  Own(r.left)
<1> DEFINE m == Head(q).msg
           p == Head(q).part
<1>1. m \in MsgIds /\ p \in 1 .. FRAGS /\ m \in Messages
  BY FragmentType DEF MsgIds
<1>2. Head(q).id = m
  BY TailSuffix DEF Tags
<1>3. r = push_parts(ps, m, p, m)
  BY <1>2
<1> HIDE DEF m, p
<1>5. /\ \A k \in DOMAIN r.left : k # m => k \in DOMAIN ps /\ r.left[k] = ps[k]
      /\ \A x : Has(r.left, m, x) => \/ x = p /\ r.left[m][x] = m
                                     \/ Has(ps, m, x) /\ r.left[m][x] = ps[m][x]
  BY <1>1, <1>3, PushEffect
<1> SUFFICES ASSUME NEW k \in DOMAIN r.left, NEW x \in DOMAIN r.left[k] PROVE r.left[k][x] = k
  BY DEF Own
<1>6. CASE k # m
  BY <1>5, <1>6 DEF Own
<1>7. CASE k = m
  BY <1>5, <1>7 DEF Own, Has
<1> QED  BY <1>6, <1>7

LEMMA CleanPush ==
    ASSUME NEW c, NEW q \in Seq(Fragments(Messages)), q # <<>>, Tags(q),
           NEW ps \in Partials(Messages), NEW B, NEW a, NEW r,
           r = push_parts(ps, Head(q).id, Head(q).part, Head(q).msg), Head(q).msg.client = c
    PROVE  /\ Clean(c, q, ps, B, a) => Clean(c, Tail(q), r.left, B, a)
           /\ NoFirst(c, q, ps) => NoFirst(c, Tail(q), r.left)
           /\ OnlyOf(B, q, ps) => OnlyOf(B, Tail(q), r.left)
           /\ \A d : d # c => Less(d, r.left, ps)
<1>1. /\ Head(q).id \in MsgIds /\ Head(q).part \in 1 .. FRAGS /\ Head(q).msg \in Messages
  BY FragmentType
<1> DEFINE m == Head(q).msg
           p == Head(q).part
<1>2. /\ Len(Tail(q)) = Len(q) - 1 /\ Len(q) \in Nat /\ Len(q) > 0
      /\ \A i \in 1 .. Len(Tail(q)) : Tail(q)[i] = q[i + 1]
      /\ Head(q) = q[1] /\ 1 \in 1 .. Len(q)
  BY TailSuffix
<1>3. Head(q).id = m /\ q[1].msg = m /\ q[1].part = p /\ m.client = c
  BY <1>2 DEF Tags
<1>4. r = push_parts(ps, m, p, m) /\ m \in MsgIds /\ p \in 1 .. FRAGS /\ m \in Messages
  BY <1>1, <1>3
<1> HIDE DEF m, p
<1>5. /\ \A k \in DOMAIN r.left : k # m => k \in DOMAIN ps /\ r.left[k] = ps[k]
      /\ \A x : Has(r.left, m, x) => \/ x = p /\ r.left[m][x] = m
                                     \/ Has(ps, m, x) /\ r.left[m][x] = ps[m][x]
  BY <1>4, PushEffect
<1>6. \A i \in 1 .. Len(Tail(q)) : i + 1 \in 1 .. Len(q) /\ Tail(q)[i] = q[i + 1]
  BY <1>2
<1>7. \A i, j \in 1 .. Len(Tail(q)) : i < j => i + 1 < j + 1
  BY <1>2
<1>8. ASSUME Clean(c, q, ps, B, a) PROVE Clean(c, Tail(q), r.left, B, a)
  <2>1. /\ \A i \in 1 .. Len(Tail(q)) : Tail(q)[i].msg.build \in 0 .. a
                                        /\ (Tail(q)[i].msg # B => Tail(q)[i].part # 1)
        /\ \A i, j \in 1 .. Len(Tail(q)) : i < j /\ Tail(q)[i].msg = B =>
              Tail(q)[j].msg = B /\ Tail(q)[j].part # 1
    BY <1>6, <1>7, <1>8 DEF Clean
  <2>2. m.build \in 0 .. a /\ (m # B => p # 1)
    BY <1>2, <1>3, <1>8 DEF Clean
  <2>3. ASSUME NEW k \in DOMAIN r.left, k.client = c
        PROVE  k.build \in 0 .. a /\ (k # B => 1 \notin DOMAIN r.left[k])
    <3>1. CASE k # m
      BY <1>5, <1>8, <2>3, <3>1 DEF Clean
    <3>2. CASE k = m
      BY <1>3, <1>5, <1>8, <2>2, <2>3, <3>2 DEF Clean, Has
    <3> QED  BY <3>1, <3>2
  <2> QED  BY <2>1, <2>3 DEF Clean
<1>9. ASSUME NoFirst(c, q, ps) PROVE NoFirst(c, Tail(q), r.left)
  <2>1. \A i \in 1 .. Len(Tail(q)) : Tail(q)[i].part # 1
    BY <1>6, <1>9 DEF NoFirst
  <2>2. p # 1
    BY <1>2, <1>3, <1>9 DEF NoFirst
  <2>3. ASSUME NEW k \in DOMAIN r.left, k.client = c PROVE 1 \notin DOMAIN r.left[k]
    <3>1. CASE k # m
      BY <1>5, <1>9, <2>3, <3>1 DEF NoFirst
    <3>2. CASE k = m
      BY <1>3, <1>5, <1>9, <2>2, <2>3, <3>2 DEF NoFirst, Has
    <3> QED  BY <3>1, <3>2
  <2> QED  BY <2>1, <2>3 DEF NoFirst
<1>10. ASSUME OnlyOf(B, q, ps) PROVE OnlyOf(B, Tail(q), r.left)
  <2>1. m = B
    BY <1>2, <1>3, <1>10 DEF OnlyOf
  <2> QED  BY <1>5, <1>6, <1>10, <2>1 DEF OnlyOf
<1>12. \A d : d # c => Less(d, r.left, ps)
  BY <1>3, <1>5 DEF Less
<1> QED  BY <1>8, <1>9, <1>10, <1>12

(***************************************************************************)
(* A message of c's that becomes complete is B, its parts are all its own, *)
(* and what comes after it completes nothing.                              *)
(***************************************************************************)
LEMMA Completed ==
    ASSUME NEW q \in Seq(Fragments(Messages)), q # <<>>, Tags(q),
           NEW ps \in Partials(Messages), Own(ps), NEW r,
           r = push_parts(ps, Head(q).id, Head(q).part, Head(q).msg), NEW parts \in r.out
    PROVE  /\ \A p \in 1 .. FRAGS : parts[p] = Head(q).msg
           /\ \A p \in 1 .. FRAGS : p = Head(q).part \/ Has(ps, Head(q).msg, p)
           /\ ~NoFirst(Head(q).msg.client, q, ps)
           /\ \A B, a : Clean(Head(q).msg.client, q, ps, B, a) =>
                 Head(q).msg = B /\ NoFirst(Head(q).msg.client, Tail(q), NoPartials)
                                 /\ OnlyOf(B, Tail(q), NoPartials)
<1>1. /\ Head(q).id \in MsgIds /\ Head(q).part \in 1 .. FRAGS /\ Head(q).msg \in Messages
  BY FragmentType
<1> DEFINE m == Head(q).msg
           p == Head(q).part
<1>2. /\ Len(Tail(q)) = Len(q) - 1 /\ Len(q) \in Nat /\ Len(q) > 0
      /\ \A i \in 1 .. Len(Tail(q)) : Tail(q)[i] = q[i + 1]
      /\ Head(q) = q[1] /\ 1 \in 1 .. Len(q)
  BY TailSuffix
<1>3. Head(q).id = m /\ q[1].msg = m /\ q[1].part = p
  BY <1>2 DEF Tags
<1>4. r = push_parts(ps, m, p, m) /\ m \in MsgIds /\ p \in 1 .. FRAGS /\ m \in Messages
  BY <1>1, <1>3
<1> HIDE DEF m, p
<1>5. \A x \in 1 .. FRAGS : \/ x = p /\ parts[x] = m
                            \/ Has(ps, m, x) /\ parts[x] = ps[m][x]
  BY <1>4, PushEffect
<1>6. \A x \in 1 .. FRAGS : parts[x] = m /\ (x = p \/ Has(ps, m, x))
  BY <1>5 DEF Own, Has
<1>7. p = 1 \/ Has(ps, m, 1)
  BY <1>6, ConstantTypes
<1>8. ~NoFirst(m.client, q, ps)
  BY <1>2, <1>3, <1>7 DEF NoFirst, Has
<1>9. ASSUME NEW B, NEW a, Clean(m.client, q, ps, B, a)
      PROVE  m = B /\ NoFirst(m.client, Tail(q), NoPartials) /\ OnlyOf(B, Tail(q), NoPartials)
  <2>1. m = B
    BY <1>2, <1>3, <1>7, <1>9 DEF Clean, Has
  <2>2. \A i \in 1 .. Len(Tail(q)) : i + 1 \in 1 .. Len(q) /\ 1 < i + 1 /\ Tail(q)[i] = q[i + 1]
    BY <1>2
  <2>3. \A i \in 1 .. Len(Tail(q)) : Tail(q)[i].msg = B /\ Tail(q)[i].part # 1
    BY <1>2, <1>3, <1>9, <2>1, <2>2 DEF Clean
  <2>4. DOMAIN NoPartials = {}
    BY DEF NoPartials
  <2> QED  BY <2>1, <2>3, <2>4 DEF NoFirst, OnlyOf
<1> QED  BY <1>6, <1>8, <1>9 DEF m, p

\* A new Init behind what can complete nothing.
LEMMA CleanAppend ==
    ASSUME setting.obf, NEW c, NEW q \in Seq(Fragments(Messages)), NEW ps, NEW N, NEW a \in Nat,
           NEW x, N.build \in 0 .. a,
           \A i \in 1 .. Len(q) : q[i].msg.build \in 0 .. a /\ q[i].msg # N /\ q[i].part # 1,
           \A m \in DOMAIN ps : m.client = c =>
               m.build \in 0 .. a /\ (m # N => 1 \notin DOMAIN ps[m])
    PROVE  /\ Clean(c, q \o Datagrams(N, x), ps, N, a)
           /\ Tags(q) => Tags(q \o Datagrams(N, x))
<1> DEFINE r == q \o Datagrams(N, x)
<1>0. r = q \o Datagrams(N, x)
  OBVIOUS
<1> HIDE DEF r
<1>1. /\ Len(r) = Len(q) + FRAGS /\ Len(q) \in Nat
      /\ \A i \in 1 .. Len(q) : r[i] = q[i]
      /\ \A i \in 1 .. Len(r) : i > Len(q) => r[i] = [id |-> N, part |-> i - Len(q), msg |-> N]
  <2>1. IsAppended(r, q, N)
    BY <1>0, Appended
  <2> QED  BY <2>1 DEF IsAppended
<1>2. \A i \in 1 .. Len(r) : \/ i \in 1 .. Len(q) /\ r[i] = q[i]
                             \/ /\ i > Len(q) /\ r[i].id = N /\ r[i].msg = N
                                /\ r[i].part = i - Len(q)
  BY <1>1
<1>3. \A i \in 1 .. Len(r) : r[i].msg.build \in 0 .. a /\ (r[i].msg # N => r[i].part # 1)
  BY <1>2
<1>4. ASSUME NEW i \in 1 .. Len(r), NEW j \in 1 .. Len(r), i < j, r[i].msg = N
      PROVE  r[j].msg = N /\ r[j].part # 1
  <2>1. i > Len(q)
    BY <1>2, <1>4
  <2>2. j > Len(q) /\ j - Len(q) # 1 /\ ~(j \in 1 .. Len(q))
    BY <1>1, <1>4, <2>1
  <2> QED  BY <1>2, <2>2
<1>5. Clean(c, r, ps, N, a)
  BY <1>3, <1>4 DEF Clean
<1>6. Tags(q) => Tags(r)
  BY <1>2 DEF Tags
<1> QED  BY <1>5, <1>6 DEF r

-----------------------------------------------------------------------------
(***************************************************************************)
(* What is on its way to a waiting client: parts of one answer, none of    *)
(* them twice and none that its Reassembler has; and nothing it has seen   *)
(* is newer than the answers made so far.                                  *)
(***************************************************************************)
Old(m, ch, md) == /\ m.type = "Challenge" => m.build \in 0 .. ch
                  /\ m.type = "Response" => m.sess \in 0 .. md

Answer(q, ps, ch, md) ==
    /\ \A i \in 1 .. Len(q) : /\ Old(q[i].msg, ch, md)
                              /\ q[i].msg \in DOMAIN ps => q[i].part \notin DOMAIN ps[q[i].msg]
    /\ \A m \in DOMAIN ps : Old(m, ch, md)
    /\ \A i, j \in 1 .. Len(q) : q[i].msg = q[j].msg /\ (q[i].part = q[j].part => i = j)

LEMMA AnswerLess ==
    ASSUME NEW q, NEW r, NEW ps, NEW ch \in Nat, NEW md \in Nat, NEW ch2 \in Nat, NEW md2 \in Nat,
           Len(q) \in Nat, Len(r) \in Nat, Suffix(r, q), Answer(q, ps, ch, md), ch2 >= ch, md2 >= md
    PROVE  Answer(r, ps, ch2, md2)
<1>1. PICK k \in 0 .. Len(q) : Len(r) = Len(q) - k /\ \A i \in 1 .. Len(r) : r[i] = q[i + k]
  BY DEF Suffix
<1>2. \A i \in 1 .. Len(r) : i + k \in 1 .. Len(q) /\ r[i] = q[i + k]
  BY <1>1
<1>3. \A i, j \in 1 .. Len(r) : i + k = j + k => i = j
  BY <1>1
<1>4. \A m : Old(m, ch, md) => Old(m, ch2, md2)
  BY DEF Old
<1>5. Answer(r, ps, ch2, md2)
  <2>1. \A i \in 1 .. Len(r) :
           /\ Old(r[i].msg, ch2, md2)
           /\ r[i].msg \in DOMAIN ps => r[i].part \notin DOMAIN ps[r[i].msg]
    BY <1>2, <1>4 DEF Answer
  <2>2. \A m \in DOMAIN ps : Old(m, ch2, md2)
    BY <1>4 DEF Answer
  <2>3. ASSUME NEW i \in 1 .. Len(r), NEW j \in 1 .. Len(r)
        PROVE  r[i].msg = r[j].msg /\ (r[i].part = r[j].part => i = j)
    <3>1. i + k \in 1 .. Len(q) /\ j + k \in 1 .. Len(q) /\ r[i] = q[i + k] /\ r[j] = q[j + k]
      BY <1>2
    <3>2. i + k = j + k => i = j
      BY <1>3
    <3>3. q[i + k].msg = q[j + k].msg /\ (q[i + k].part = q[j + k].part => i + k = j + k)
      BY <3>1 DEF Answer
    <3> QED  BY <3>1, <3>2, <3>3
  <2> QED  BY <2>1, <2>2, <2>3 DEF Answer
<1> QED  BY <1>5

LEMMA AnswerNone == ASSUME NEW ch, NEW md PROVE Answer(<<>>, NoPartials, ch, md)
<1>1. DOMAIN NoPartials = {} /\ 1 .. Len(<<>>) = {}
  BY DEF NoPartials
<1> QED  BY <1>1 DEF Answer

LEMMA AnswerPush ==
    ASSUME NEW q \in Seq(Fragments(Messages)), q # <<>>, Tags(q), NEW ps \in Partials(Messages),
           NEW ch, NEW md, Answer(q, ps, ch, md), Own(ps), NEW r,
           r = push_parts(ps, Head(q).id, Head(q).part, Head(q).msg)
    PROVE  /\ Answer(Tail(q), r.left, ch, md)
           /\ Own(r.left)
           /\ r.out # {} => Tail(q) = <<>>
<1>1. /\ Head(q).id \in MsgIds /\ Head(q).part \in 1 .. FRAGS /\ Head(q).msg \in Messages
      /\ Tail(q) \in Seq(Fragments(Messages))
  BY FragmentType
<1> DEFINE m == Head(q).msg
           p == Head(q).part
<1>2. /\ Len(Tail(q)) = Len(q) - 1 /\ Len(q) \in Nat /\ Len(q) > 0
      /\ \A i \in 1 .. Len(Tail(q)) : Tail(q)[i] = q[i + 1]
      /\ Head(q) = q[1] /\ 1 \in 1 .. Len(q)
  BY TailSuffix
<1>3. Head(q).id = m /\ q[1].msg = m /\ q[1].part = p
  BY <1>2 DEF Tags
<1>4. r = push_parts(ps, m, p, m) /\ m \in MsgIds /\ p \in 1 .. FRAGS /\ m \in Messages
  BY <1>1, <1>3
<1>5. Own(r.left)
  BY OwnPush
<1> HIDE DEF m, p
<1>6. /\ \A k \in DOMAIN r.left : k # m => k \in DOMAIN ps /\ r.left[k] = ps[k]
      /\ \A x : Has(r.left, m, x) => x = p \/ Has(ps, m, x)
      /\ \A parts \in r.out : \A x \in 1 .. FRAGS : x = p \/ Has(ps, m, x)
  BY <1>4, PushEffect
<1>7. \A i \in 1 .. Len(Tail(q)) : i + 1 \in 1 .. Len(q) /\ i + 1 # 1 /\ Tail(q)[i] = q[i + 1]
  BY <1>2
<1>8. \A i \in 1 .. Len(Tail(q)) :
        /\ Tail(q)[i].msg = m /\ Tail(q)[i].part # p /\ ~Has(ps, m, Tail(q)[i].part)
        /\ Old(Tail(q)[i].msg, ch, md)
  BY <1>2, <1>3, <1>7 DEF Answer, Has
<1>9. Old(m, ch, md)
  BY <1>2, <1>3 DEF Answer
<1>10. \A k \in DOMAIN r.left : Old(k, ch, md)
  BY <1>6, <1>9 DEF Answer
<1>11. \A i \in 1 .. Len(Tail(q)) :
         Tail(q)[i].msg \in DOMAIN r.left => Tail(q)[i].part \notin DOMAIN r.left[Tail(q)[i].msg]
  BY <1>6, <1>8 DEF Has
<1>12. \A i, j \in 1 .. Len(Tail(q)) : i + 1 = j + 1 => i = j
  BY <1>2
<1>13. \A i, j \in 1 .. Len(Tail(q)) :
         Tail(q)[i].msg = Tail(q)[j].msg /\ (Tail(q)[i].part = Tail(q)[j].part => i = j)
  BY <1>7, <1>12 DEF Answer
<1>14. Answer(Tail(q), r.left, ch, md)
  BY <1>8, <1>10, <1>11, <1>13 DEF Answer
<1>15. ASSUME r.out # {}, Tail(q) # <<>> PROVE FALSE
  <2>1. 1 \in 1 .. Len(Tail(q)) /\ Tail(q)[1] \in Fragments(Messages)
    BY <1>1, <1>15
  <2>2. Tail(q)[1].part \in 1 .. FRAGS
    BY <2>1 DEF Fragments
  <2> QED  BY <1>6, <1>8, <1>15, <2>1, <2>2
<1> QED  BY <1>5, <1>14, <1>15

\* An answer newer than all that the client has seen, when nothing else is under way.
LEMMA AnswerNew ==
    ASSUME setting.obf, NEW q \in Seq(Fragments(Messages)), q = <<>>, NEW n, NEW x,
           NEW ps, NEW ch \in Nat, NEW md \in Nat, NEW ch2 \in Nat, NEW md2 \in Nat,
           Answer(q, ps, ch, md), ch2 >= ch, md2 >= md, Old(n, ch2, md2), ~Old(n, ch, md)
    PROVE  /\ Answer(q \o Datagrams(n, x), ps, ch2, md2)
           /\ Tags(q \o Datagrams(n, x))
           /\ \A i \in 1 .. Len(q \o Datagrams(n, x)) : (q \o Datagrams(n, x))[i].msg = n
<1> DEFINE r == q \o Datagrams(n, x)
<1>0. r = q \o Datagrams(n, x)
  OBVIOUS
<1> HIDE DEF r
<1>1. /\ Len(r) = Len(q) + FRAGS
      /\ \A i \in 1 .. Len(r) : i > Len(q) => r[i] = [id |-> n, part |-> i - Len(q), msg |-> n]
  <2>1. IsAppended(r, q, n)
    BY <1>0, Appended
  <2> QED  BY <2>1 DEF IsAppended
<1>2. \A i \in 1 .. Len(r) : r[i].id = n /\ r[i].msg = n /\ r[i].part = i
  <2>1. Len(q) = 0 /\ Len(r) = FRAGS /\ FRAGS = 3
    BY <1>1, ConstantTypes
  <2>2. \A i \in 1 .. Len(r) : i > Len(q) /\ i - Len(q) = i
    BY <2>1
  <2> QED  BY <1>1, <2>2
<1>3. n \notin DOMAIN ps
  BY DEF Answer
<1>4. \A m : Old(m, ch, md) => Old(m, ch2, md2)
  BY DEF Old
<1>5. Answer(r, ps, ch2, md2)
  BY <1>2, <1>3, <1>4 DEF Answer
<1> QED  BY <1>2, <1>5 DEF Tags, r

-----------------------------------------------------------------------------
(***************************************************************************)
(* The Confirm K on its way: each of its parts is in the channel or at     *)
(* hand, the last one is yet to come, and of one other message there is    *)
(* too little to become complete, so that it takes one place at most.      *)
(***************************************************************************)
Confirming(K, q, ps) ==
    /\ q # <<>> /\ q[Len(q)].msg = K /\ q[Len(q)].part = FRAGS
    /\ \A p \in 1 .. FRAGS : \/ \E i \in 1 .. Len(q) : q[i].msg = K /\ q[i].part = p
                             \/ K \in DOMAIN ps /\ p \in DOMAIN ps[K]
    /\ \A i \in 1 .. Len(q) : q[i].msg # K => q[i].part # 1
    /\ \A m \in DOMAIN ps : m # K => 1 \notin DOMAIN ps[m]
    /\ \E x : /\ \A i \in 1 .. Len(q) : q[i].msg \in {x, K}
              /\ DOMAIN ps \subseteq {x, K}

LEMMA ConfirmingNew ==
    ASSUME setting.obf, NEW q \in Seq(Fragments(Messages)), NEW ps, NEW B, NEW K, NEW y,
           NoFirst(B.client, q, ps), OnlyOf(B, q, ps)
    PROVE  /\ Confirming(K, q \o Datagrams(K, y), ps)
           /\ Tags(q) => Tags(q \o Datagrams(K, y))
<1> DEFINE r == q \o Datagrams(K, y)
<1>0. r = q \o Datagrams(K, y)
  OBVIOUS
<1> HIDE DEF r
<1>1. /\ Len(r) = Len(q) + FRAGS /\ Len(q) \in Nat /\ r # <<>>
      /\ \A i \in 1 .. Len(q) : r[i] = q[i]
      /\ \A i \in 1 .. Len(r) : i > Len(q) => r[i] = [id |-> K, part |-> i - Len(q), msg |-> K]
      /\ \A p \in 1 .. FRAGS : r[Len(q) + p] = [id |-> K, part |-> p, msg |-> K]
  <2>1. IsAppended(r, q, K)
    BY <1>0, Appended
  <2> QED  BY <2>1 DEF IsAppended
<1>2. \A i \in 1 .. Len(r) : \/ i \in 1 .. Len(q) /\ r[i] = q[i]
                             \/ r[i].id = K /\ r[i].msg = K
  BY <1>1
<1>3. FRAGS = 3 /\ FRAGS \in 1 .. FRAGS
  BY ConstantTypes
<1>4. r[Len(r)].msg = K /\ r[Len(r)].part = FRAGS
  BY <1>1, <1>3
<1>5. \A p \in 1 .. FRAGS : \E i \in 1 .. Len(r) : r[i].msg = K /\ r[i].part = p
  <2> TAKE p \in 1 .. FRAGS
  <2>1. Len(q) + p \in 1 .. Len(r)
    BY <1>1, <1>3
  <2> QED  BY <1>1, <2>1
<1>6. \A i \in 1 .. Len(r) : r[i].msg # K => r[i].part # 1
  BY <1>2 DEF NoFirst
<1>7. \A m \in DOMAIN ps : m # K => 1 \notin DOMAIN ps[m]
  BY DEF NoFirst, OnlyOf
<1>8. (\A i \in 1 .. Len(r) : r[i].msg \in {B, K}) /\ DOMAIN ps \subseteq {B, K}
  BY <1>2 DEF OnlyOf
<1>9. Confirming(K, r, ps)
  BY <1>1, <1>4, <1>5, <1>6, <1>7, <1>8 DEF Confirming
<1>10. Tags(q) => Tags(r)
  BY <1>2 DEF Tags
<1> QED  BY <1>9, <1>10 DEF r

LEMMA ConfirmingPush ==
    ASSUME MAX_PENDING_MSGS > 1,
           NEW q \in Seq(Fragments(Messages)), Tags(q), NEW ps \in Partials(Messages),
           NEW K, Confirming(K, q, ps), Own(ps), NEW r,
           r = push_parts(ps, Head(q).id, Head(q).part, Head(q).msg)
    PROVE  /\ r.out = {} => Confirming(K, Tail(q), r.left)
           /\ r.out # {} => Head(q).msg = K
<1>0. q # <<>>
  BY DEF Confirming
<1>1. /\ Head(q).id \in MsgIds /\ Head(q).part \in 1 .. FRAGS /\ Head(q).msg \in Messages
      /\ Tail(q) \in Seq(Fragments(Messages))
  BY <1>0, FragmentType
<1> DEFINE m == Head(q).msg
           p == Head(q).part
<1>2. /\ Len(Tail(q)) = Len(q) - 1 /\ Len(q) \in Nat /\ Len(q) > 0
      /\ \A i \in 1 .. Len(Tail(q)) : Tail(q)[i] = q[i + 1]
      /\ Head(q) = q[1] /\ 1 \in 1 .. Len(q)
  BY <1>0, TailSuffix
<1>3. Head(q).id = m /\ q[1].msg = m /\ q[1].part = p
  BY <1>2 DEF Tags
<1>4. r = push_parts(ps, m, p, m) /\ m \in MsgIds /\ p \in 1 .. FRAGS /\ m \in Messages
  BY <1>1, <1>3
<1> HIDE DEF m, p
<1>5. PICK x : (\A i \in 1 .. Len(q) : q[i].msg \in {x, K}) /\ DOMAIN ps \subseteq {x, K}
  BY DEF Confirming
<1>6. /\ \A k \in DOMAIN ps : k # m => k \in DOMAIN r.left /\ r.left[k] = ps[k]
      /\ \A k \in DOMAIN r.left : k # m => k \in DOMAIN ps /\ r.left[k] = ps[k]
      /\ \A y : Has(r.left, m, y) => y = p \/ Has(ps, m, y)
      /\ \A parts \in r.out : \A y \in 1 .. FRAGS : y = p \/ Has(ps, m, y)
      /\ r.out = {} /\ (m \in DOMAIN ps \/ ~(Cardinality(DOMAIN ps) >= MAX_PENDING_MSGS)) =>
            /\ \A y : Has(r.left, m, y) <=> y = p \/ Has(ps, m, y)
            /\ \E y \in 1 .. FRAGS : ~Has(r.left, m, y)
  BY <1>4, PushEffect
\* K finds room: what is not K's is of one message.
<1>7. ASSUME m = K, m \notin DOMAIN ps PROVE ~(Cardinality(DOMAIN ps) >= MAX_PENDING_MSGS)
  <2>1. DOMAIN ps \subseteq {x}
    BY <1>5, <1>7
  <2>2. IsFiniteSet({x}) /\ Cardinality({x}) = 1
    BY FS_Singleton
  <2>3. IsFiniteSet(DOMAIN ps) /\ Cardinality(DOMAIN ps) <= 1
    BY <2>1, <2>2, FS_Subset
  <2>4. Cardinality(DOMAIN ps) \in Nat
    BY <2>3, FS_CardinalityType
  <2> QED  BY <2>3, <2>4, ConstantTypes
<1>8. ASSUME r.out = {}, m = K
      PROVE  /\ \A y : Has(r.left, K, y) <=> y = p \/ Has(ps, K, y)
             /\ \E y \in 1 .. FRAGS : ~Has(r.left, K, y)
  BY <1>6, <1>7, <1>8
<1>9. m # K => p # 1
  BY <1>2, <1>3 DEF Confirming
<1>10. ASSUME NEW k \in DOMAIN r.left, k # K PROVE 1 \notin DOMAIN r.left[k] /\ k \in {x, K}
  <2>1. k # m => 1 \notin DOMAIN r.left[k] /\ k \in {x, K}
    BY <1>5, <1>6, <1>10 DEF Confirming
  <2>2. k = m => 1 \notin DOMAIN r.left[k] /\ k \in {x, K}
    BY <1>2, <1>3, <1>5, <1>6, <1>9, <1>10 DEF Confirming, Has
  <2> QED  BY <2>1, <2>2
<1>11. ASSUME r.out = {}, NEW y \in 1 .. FRAGS
       PROVE  \/ \E i \in 1 .. Len(Tail(q)) : Tail(q)[i].msg = K /\ Tail(q)[i].part = y
              \/ K \in DOMAIN r.left /\ y \in DOMAIN r.left[K]
  <2>1. CASE Has(ps, K, y)
    <3>1. m # K => Has(r.left, K, y)
      BY <1>6, <2>1 DEF Has
    <3> QED  BY <1>8, <1>11, <2>1, <3>1 DEF Has
  <2>2. CASE \E i \in 1 .. Len(q) : q[i].msg = K /\ q[i].part = y
    <3>1. PICK i \in 1 .. Len(q) : q[i].msg = K /\ q[i].part = y
      BY <2>2
    <3>2. CASE i = 1
      BY <1>3, <1>8, <1>11, <3>1, <3>2 DEF Has
    <3>3. CASE i # 1
      <4>1. i - 1 \in 1 .. Len(Tail(q)) /\ (i - 1) + 1 = i
        BY <1>2, <3>3
      <4>2. Tail(q)[i - 1] = q[i]
        BY <1>2, <4>1
      <4> QED  BY <3>1, <4>1, <4>2
    <3> QED  BY <3>2, <3>3
  <2> QED  BY <2>1, <2>2 DEF Confirming, Has
\* Its last part has not been read, for with it K would be complete.
<1>12. ASSUME r.out = {} PROVE Tail(q) # <<>>
  <2> SUFFICES ASSUME Tail(q) = <<>> PROVE FALSE
    OBVIOUS
  <2>0. Len(<<>>) = 0
    OBVIOUS
  <2>1. Len(Tail(q)) = 0 /\ Len(q) = 1 /\ 1 .. Len(Tail(q)) = {}
    <3>1. Len(Tail(q)) = 0
      BY <2>0
    <3> QED  BY <1>2, <3>1
  <2>2. m = K
    BY <1>3, <2>1 DEF Confirming
  <2>3. \A y \in 1 .. FRAGS : K \in DOMAIN r.left /\ y \in DOMAIN r.left[K]
    BY <1>11, <1>12, <2>1
  <2> QED  BY <1>8, <1>12, <2>2, <2>3 DEF Has
<1>13. \A i \in 1 .. Len(Tail(q)) : i + 1 \in 1 .. Len(q) /\ Tail(q)[i] = q[i + 1]
  BY <1>2
<1>14. ASSUME r.out = {} PROVE Confirming(K, Tail(q), r.left)
  <2>1. Len(Tail(q)) \in 1 .. Len(Tail(q)) /\ Len(Tail(q)) + 1 = Len(q)
    BY <1>1, <1>2, <1>12, <1>14
  <2>2. Tail(q)[Len(Tail(q))] = q[Len(q)]
    BY <1>13, <2>1
  <2>3. /\ Tail(q) # <<>> /\ Tail(q)[Len(Tail(q))].msg = K
        /\ Tail(q)[Len(Tail(q))].part = FRAGS
    BY <1>12, <1>14, <2>2 DEF Confirming
  <2>4. \A i \in 1 .. Len(Tail(q)) : Tail(q)[i].msg # K => Tail(q)[i].part # 1
    BY <1>13 DEF Confirming
  <2>5. (\A i \in 1 .. Len(Tail(q)) : Tail(q)[i].msg \in {x, K}) /\ DOMAIN r.left \subseteq {x, K}
    BY <1>5, <1>10, <1>13
  <2> QED  BY <1>10, <1>11, <1>14, <2>3, <2>4, <2>5 DEF Confirming
<1>15. ASSUME r.out # {} PROVE m = K
  <2>1. p = 1 \/ Has(ps, m, 1)
    BY <1>6, <1>15, ConstantTypes
  <2> QED  BY <1>9, <2>1 DEF Confirming, Has
<1> QED  BY <1>14, <1>15 DEF m

LEMMA ConfirmingDone ==
    ASSUME MAX_PENDING_MSGS > 1,
           NEW q \in Seq(Fragments(Messages)), Tags(q), NEW ps \in Partials(Messages),
           NEW K, Confirming(K, q, ps), Own(ps), NEW r,
           r = push_parts(ps, Head(q).id, Head(q).part, Head(q).msg)
    PROVE  r.out # {} => Head(q).msg = K
BY ConfirmingPush

\* A fragment of another message is lost.
LEMMA ConfirmingLose ==
    ASSUME NEW q \in Seq(Fragments(Messages)), NEW ps, NEW K, Confirming(K, q, ps),
           Head(q).msg # K
    PROVE  Confirming(K, Tail(q), ps)
<1>1. /\ Len(Tail(q)) = Len(q) - 1 /\ Len(q) \in Nat /\ Len(q) > 0
      /\ \A i \in 1 .. Len(Tail(q)) : Tail(q)[i] = q[i + 1]
      /\ Head(q) = q[1] /\ 1 \in 1 .. Len(q) /\ Tail(q) \in Seq(Fragments(Messages))
  BY TailSuffix DEF Confirming
<1>2. \A i \in 1 .. Len(Tail(q)) : i + 1 \in 1 .. Len(q) /\ Tail(q)[i] = q[i + 1]
  BY <1>1
<1>3. Len(q) # 1
  BY <1>1 DEF Confirming
<1>4. Tail(q) # <<>> /\ Len(Tail(q)) \in 1 .. Len(Tail(q)) /\ Len(Tail(q)) + 1 = Len(q)
  BY <1>1, <1>3
<1>5. Tail(q)[Len(Tail(q))].msg = K /\ Tail(q)[Len(Tail(q))].part = FRAGS
  BY <1>2, <1>4 DEF Confirming
<1>6. ASSUME NEW i \in 1 .. Len(q), q[i].msg = K
      PROVE  i - 1 \in 1 .. Len(Tail(q)) /\ Tail(q)[i - 1] = q[i]
  <2>1. i # 1
    BY <1>1, <1>6
  <2>2. i - 1 \in 1 .. Len(Tail(q)) /\ (i - 1) + 1 = i
    BY <1>1, <2>1
  <2> QED  BY <1>1, <2>2
<1>7. \A p \in 1 .. FRAGS : \/ \E i \in 1 .. Len(Tail(q)) : Tail(q)[i].msg = K /\ Tail(q)[i].part = p
                            \/ K \in DOMAIN ps /\ p \in DOMAIN ps[K]
  BY <1>6 DEF Confirming
<1>8. \A i \in 1 .. Len(Tail(q)) : Tail(q)[i].msg # K => Tail(q)[i].part # 1
  BY <1>2 DEF Confirming
<1>9. PICK x : (\A i \in 1 .. Len(q) : q[i].msg \in {x, K}) /\ DOMAIN ps \subseteq {x, K}
  BY DEF Confirming
<1>10. \A i \in 1 .. Len(Tail(q)) : Tail(q)[i].msg \in {x, K}
  BY <1>2, <1>9
<1> QED  BY <1>4, <1>5, <1>7, <1>8, <1>9, <1>10 DEF Confirming

-----------------------------------------------------------------------------
(***************************************************************************)
(* The invariant behind CalmEstablished.                                   *)
(***************************************************************************)

\* The server has answered c and waits for its Confirm.
Serving(c) == server.pc = "confirm" /\ server.peer = c

(***************************************************************************)
(* While an answer is on its way nothing of c's can become complete, and   *)
(* once c is answered only its latest Init is under way.                   *)
(***************************************************************************)
Asking(c) ==
    /\ client[c].init.build \in 0 .. client[c].attempt
    /\ Clean(c, up[c], server.partials, client[c].init, client[c].attempt)
    /\ down[c] # <<>> => NoFirst(c, up[c], server.partials)
    /\ Serving(c) => OnlyOf(client[c].init, up[c], server.partials)

\* What is on its way to c is the Response of the session that the server waits with, or a cookie.
Answered(c) ==
    /\ Answer(down[c], client[c].partials, challenges, made)
    /\ \A i \in 1 .. Len(down[c]) :
          IF Serving(c) THEN down[c][i].msg.type # "Challenge" /\ down[c][i].msg.sess = server.sess
                        ELSE down[c][i].msg.type = "Challenge"

ConfirmOf(c, s) == Message("Confirm", c, 0, None, NoCookie, s)

\* Until it is accepted, the session of a client that is up has its Confirm on the way.
Unsettled(c) ==
    /\ Serving(c) /\ server.sess = client[c].sess
    /\ Confirming(ConfirmOf(c, client[c].sess), up[c], server.partials)

Local(c) ==
    /\ Tags(up[c]) /\ Tags(down[c]) /\ Own(client[c].partials)
    /\ client[c].pc = "idle" =>
          up[c] = <<>> /\ ~Serving(c) /\ \A m \in DOMAIN server.partials : m.client # c
    /\ client[c].pc = "waiting" => Asking(c) /\ Answered(c)
    /\ client[c].pc # "waiting" => down[c] = <<>>
    /\ client[c].pc = "up" /\ <<c, client[c].sess>> \notin accepted => Unsettled(c)

CInv == Own(server.partials) /\ \A c \in Clients : Local(c)

CalmInv == Calm => CInv

\* A step that leaves client c, its channels and the server's part in it alone.
LEMMA Untouched ==
    ASSUME NEW c \in Clients, Local(c), client'[c] = client[c], up'[c] = up[c], down'[c] = down[c],
           server'.pc = server.pc, server'.peer = server.peer, server'.sess = server.sess,
           server'.partials = server.partials, UNCHANGED <<challenges, made, accepted>>
    PROVE  Local(c)'
<1>1. Serving(c)' = Serving(c)
  BY DEF Serving
<1>2. Asking(c)' = Asking(c)
  BY <1>1 DEF Asking
<1>3. Answered(c)' = Answered(c)
  BY <1>1 DEF Answered
<1>4. Unsettled(c)' = Unsettled(c)
  BY <1>1 DEF Unsettled
<1> QED  BY <1>1, <1>2, <1>3, <1>4 DEF Local

(***************************************************************************)
(* A step of the server that only takes from what it has of c, and neither *)
(* answers c nor leaves it without the answer it waits for.                *)
(***************************************************************************)
LEMMA Elsewhere ==
    ASSUME IInv, IInv', NEW c \in Clients, Local(c), client'[c] = client[c], down'[c] = down[c],
           Suffix(up'[c], up[c]), Less(c, server'.partials, server.partials),
           challenges' >= challenges, made' >= made, accepted \subseteq accepted',
           ~Serving(c)',
           Serving(c) => /\ down[c] = <<>>
                         /\ client[c].pc = "up" => <<c, client[c].sess>> \in accepted'
    PROVE  Local(c)'
<1>1. /\ Len(up[c]) \in Nat /\ Len(up'[c]) \in Nat /\ Len(down[c]) \in Nat
      /\ challenges \in Nat /\ made \in Nat /\ challenges' \in Nat /\ made' \in Nat
      /\ down[c] \in Seq(Fragments(Messages))
  BY DEF IInv, TypeOK
<1>2. Tags(up'[c]) /\ Tags(down'[c]) /\ Own(client'[c].partials)
  BY <1>1, CleanLess DEF Local
<1>3. ASSUME client[c].pc = "idle"
      PROVE  up'[c] = <<>> /\ \A m \in DOMAIN server'.partials : m.client # c
  <2>1. up[c] = <<>> /\ \A m \in DOMAIN server.partials : m.client # c
    BY <1>3 DEF Local
  <2>2. Len(up'[c]) = 0 /\ up'[c] \in Seq(Fragments(Messages))
    BY <1>1, <2>1 DEF Suffix, IInv, TypeOK
  <2> QED  BY <2>1, <2>2 DEF Less
<1>4. ASSUME client[c].pc = "waiting" PROVE Asking(c)' /\ Answered(c)'
  <2>1. Asking(c) /\ Answered(c)
    BY <1>4 DEF Local
  <2>2. /\ Clean(c, up'[c], server'.partials, client[c].init, client[c].attempt)
        /\ down[c] # <<>> => NoFirst(c, up'[c], server'.partials)
    BY <1>1, <2>1, CleanLess DEF Asking
  <2>3. Asking(c)'
    BY <2>1, <2>2 DEF Asking
  <2>4. Answer(down[c], client[c].partials, challenges', made')
    BY <1>1, <2>1, SuffixKept, AnswerLess DEF Answered
  <2>5. \A i \in 1 .. Len(down[c]) : down[c][i].msg.type = "Challenge"
    BY <2>1 DEF Answered
  <2>6. Answered(c)'
    BY <2>4, <2>5 DEF Answered
  <2> QED  BY <2>3, <2>6
<1>5. client[c].pc = "up" => <<c, client[c].sess>> \in accepted'
  BY DEF Local, Unsettled
<1>6. client[c].pc # "waiting" => down[c] = <<>>
  BY DEF Local
<1> QED  BY <1>2, <1>3, <1>4, <1>5, <1>6 DEF Local

\* A client that has ended.
LEMMA Ended ==
    ASSUME NEW c \in Clients, Local(c), client'[c] = [Idle EXCEPT !.pc = "failed"]
                                        \/ client'[c] = [Idle EXCEPT !.pc = "gone"],
           up'[c] = up[c], down'[c] = <<>>
    PROVE  Local(c)'
<1>1. client'[c].pc \in {"failed", "gone"} /\ client'[c].partials = NoPartials
  BY DEF Idle
<1>2. Own(client'[c].partials) /\ Tags(down'[c])
  BY <1>1 DEF Own, NoPartials, Tags
<1> QED  BY <1>1, <1>2 DEF Local

LEMMA InitCInv == Init => CInv
<1> SUFFICES ASSUME Init PROVE CInv
  OBVIOUS
<1>1. server.partials = NoPartials /\ server.pc = "listen"
  BY DEF Init, Listen
<1>2. DOMAIN NoPartials = {} /\ 1 .. Len(<<>>) = {}
  BY DEF NoPartials
<1>3. ASSUME NEW c \in Clients PROVE Local(c)
  <2>1. /\ client[c].pc = "idle" /\ client[c].partials = NoPartials
        /\ up[c] = <<>> /\ down[c] = <<>>
    BY DEF Init, Idle
  <2> QED  BY <1>1, <1>2, <2>1 DEF Local, Tags, Own, Serving
<1> QED  BY <1>1, <1>2, <1>3 DEF CInv, Own

-----------------------------------------------------------------------------
(***************************************************************************)
(* The steps of a client.                                                  *)
(***************************************************************************)

\* Client c changes, and the other clients are none of its business.
ClientBecomes(c, r, q, s) ==
    /\ client' = [client EXCEPT ![c] = r]
    /\ up' = [up EXCEPT ![c] = q]
    /\ down' = [down EXCEPT ![c] = s]

ServerStays ==
    /\ server'.pc = server.pc /\ server'.peer = server.peer
    /\ server'.sess = server.sess /\ server'.partials = server.partials
    /\ UNCHANGED <<challenges, made, accepted>>

LEMMA OneClient ==
    ASSUME IInv, CInv, NEW c \in Clients, NEW r, NEW q, NEW s, ClientBecomes(c, r, q, s), ServerStays
    PROVE  /\ client'[c] = r /\ up'[c] = q /\ down'[c] = s
           /\ Serving(c)' = Serving(c)
           /\ Local(c)' => CInv'
<1>1. /\ client \in [Clients -> ClientStates] /\ DOMAIN up = Clients /\ DOMAIN down = Clients
  BY DEF IInv, TypeOK
<1>2. client'[c] = r /\ up'[c] = q /\ down'[c] = s
  BY <1>1 DEF ClientBecomes
<1>3. ASSUME NEW d \in Clients, d # c PROVE Local(d)'
  <2>1. client'[d] = client[d] /\ up'[d] = up[d] /\ down'[d] = down[d]
    BY <1>1, <1>3 DEF ClientBecomes
  <2>2. Local(d)
    BY DEF CInv
  <2> QED  BY <2>1, <2>2, Untouched DEF ServerStays
<1>4. Own(server'.partials)
  BY DEF CInv, ServerStays
<1>5. Local(c)' => CInv'
  BY <1>3, <1>4 DEF CInv
<1> QED  BY <1>2, <1>5 DEF Serving, ServerStays

LEMMA StartCInv ==
    ASSUME IInv, Calm, CInv, NEW c \in Clients, Start(c)
    PROVE  CInv'
<1> DEFINE m == Message("Init", c, 1, None, NoCookie, None)
           r == [Idle EXCEPT !.pc = "waiting", !.attempt = 1, !.init = m]
           q == Datagrams(m, 1)
<1>1. /\ client[c].pc = "idle"
      /\ client' = [client EXCEPT ![c] = r] /\ up' = [up EXCEPT ![c] = q]
      /\ UNCHANGED <<setting, down, server, secret, bucket, made, challenges, lost, errors,
                     verified, accepted>>
  BY DEF Start
<1>2. Local(c) /\ up[c] \in Seq(Fragments(Messages)) /\ DOMAIN down = Clients
  BY DEF CInv, IInv, TypeOK
<1>3. /\ up[c] = <<>> /\ ~Serving(c) /\ \A k \in DOMAIN server.partials : k.client # c
      /\ down[c] = <<>> /\ Tags(up[c])
  BY <1>1, <1>2 DEF Local
<1>4. r.pc = "waiting" /\ r.attempt = 1 /\ r.init = m /\ r.partials = NoPartials
  BY DEF Idle
<1>5. m.build = 1
  BY DEF Message
<1> HIDE DEF m, r
<1>6. Clean(c, q, server.partials, m, 1) /\ Tags(q)
  <2>1. q \in Seq(Fragments({m}))
    <3>1. m \in Messages
      BY MessageType, NoCookieType, ConstantTypes DEF m
    <3> QED  BY <3>1, DatagramsType
  <2>2. up[c] \o q = q
    BY <1>3, <2>1
  <2>3. \A i \in 1 .. Len(up[c]) : up[c][i].msg.build \in 0 .. 1 /\ up[c][i].msg # m
                                                         /\ up[c][i].part # 1
    BY <1>3
  <2>4. Clean(c, up[c] \o q, server.partials, m, 1) /\ Tags(up[c] \o q)
    <3>1. \A k \in DOMAIN server.partials : k.client = c =>
             k.build \in 0 .. 1 /\ (k # m => 1 \notin DOMAIN server.partials[k])
      BY <1>3
    <3>2. m.build \in 0 .. 1 /\ 1 \in Nat /\ setting.obf
      BY <1>5 DEF Calm
    <3> QED  BY <1>2, <1>3, <2>3, <3>1, <3>2, CleanAppend
  <2> QED  BY <2>2, <2>4
<1> HIDE DEF q
<1>7. ClientBecomes(c, r, q, <<>>) /\ ServerStays
  <2>1. down = [down EXCEPT ![c] = <<>>]
    BY <1>3 DEF IInv, TypeOK
  <2> QED  BY <1>1, <2>1 DEF ClientBecomes, ServerStays
<1>8. /\ client'[c] = r /\ up'[c] = q /\ down'[c] = <<>> /\ ~Serving(c)'
      /\ Local(c)' => CInv'
  BY <1>3, <1>7, OneClient
<1>9. Asking(c)'
  BY <1>1, <1>4, <1>5, <1>6, <1>8 DEF Asking
<1>10. Answered(c)'
  BY <1>4, <1>8, AnswerNone DEF Answered
<1>11. Own(client'[c].partials) /\ Tags(down'[c])
  BY <1>4, <1>8 DEF Own, Tags, NoPartials
<1>12. Local(c)'
  BY <1>4, <1>6, <1>8, <1>9, <1>10, <1>11 DEF Local
<1> QED  BY <1>8, <1>12

\* The next attempt with the Init N, when nothing but N can become complete.
LEMMA NextAttemptCInv ==
    ASSUME IInv, Calm, CInv, NEW c \in Clients, client[c].pc = "waiting", NEW N,
           NEW rest, rest = <<>>, NextAttempt(c, N, rest), N.build \in 0 .. client[c].attempt + 1,
           \A i \in 1 .. Len(up[c]) : /\ up[c][i].msg.build \in 0 .. client[c].attempt
                                      /\ up[c][i].msg # N /\ up[c][i].part # 1,
           \A m \in DOMAIN server.partials : m.client = c =>
               /\ m.build \in 0 .. client[c].attempt
               /\ m # N => 1 \notin DOMAIN server.partials[m],
           Serving(c) => OnlyOf(N, up[c], server.partials),
           ServerStays
    PROVE  CInv'
<1> DEFINE a == client[c].attempt
           r == [client[c] EXCEPT !.attempt = a + 1, !.init = N, !.partials = NoPartials]
           q == up[c] \o Datagrams(N, 1)
<1>1. /\ client[c] \in ClientStates /\ a \in Nat /\ up[c] \in Seq(Fragments(Messages))
      /\ DOMAIN up = Clients
  BY DEF IInv, TypeOK, ClientStates
<1>2. Local(c)
  BY DEF CInv
<1>3. CASE client[c].attempt < setting.attempts
  <2>1. ClientBecomes(c, r, q, <<>>)
    BY <1>1, <1>3 DEF NextAttempt, ClientBecomes
  <2>2. r.pc = "waiting" /\ r.attempt = a + 1 /\ r.init = N /\ r.partials = NoPartials
    BY <1>1 DEF ClientStates
  <2> HIDE DEF r
  <2>3. Clean(c, q, server.partials, N, a + 1) /\ Tags(q)
    <3>1. \A n : n \in 0 .. a => n \in 0 .. (a + 1)
      BY <1>1
    <3>2. \A i \in 1 .. Len(up[c]) : /\ up[c][i].msg.build \in 0 .. (a + 1)
                                     /\ up[c][i].msg # N /\ up[c][i].part # 1
      BY <3>1
    <3>3. \A m \in DOMAIN server.partials : m.client = c =>
             m.build \in 0 .. (a + 1) /\ (m # N => 1 \notin DOMAIN server.partials[m])
      BY <3>1
    <3>4. a + 1 \in Nat /\ N.build \in 0 .. (a + 1) /\ Tags(up[c]) /\ setting.obf
      BY <1>1, <1>2 DEF Local, Calm
    <3> HIDE DEF a
    <3> QED  BY <1>1, <3>2, <3>3, <3>4, CleanAppend
  <2>4. Serving(c) => OnlyOf(N, q, server.partials)
    <3>1. IsAppended(q, up[c], N)
      BY <1>1, Appended DEF Calm
    <3> HIDE DEF q
    <3>2. ASSUME NEW i \in 1 .. Len(q)
          PROVE  (i \in 1 .. Len(up[c]) /\ q[i] = up[c][i]) \/ q[i].msg = N
      <4>1. i \in 1 .. Len(up[c]) \/ i > Len(up[c])
        BY <3>1 DEF IsAppended
      <4>2. i \in 1 .. Len(up[c]) => q[i] = up[c][i]
        BY <3>1 DEF IsAppended
      <4>3. i > Len(up[c]) => q[i] = [id |-> N, part |-> i - Len(up[c]), msg |-> N]
        BY <3>1 DEF IsAppended
      <4> QED  BY <4>1, <4>2, <4>3
    <3> QED  BY <3>2 DEF OnlyOf
  <2> HIDE DEF q
  <2>5. /\ client'[c] = r /\ up'[c] = q /\ down'[c] = <<>> /\ Serving(c)' = Serving(c)
        /\ Local(c)' => CInv'
    BY <2>1, OneClient
  <2>6. Asking(c)'
    <3>1. client'[c].init = N /\ client'[c].attempt = a + 1 /\ N.build \in 0 .. (a + 1)
      BY <2>2, <2>5
    <3>2. server'.partials = server.partials
      BY DEF ServerStays
    <3> HIDE DEF a
    <3> QED  BY <2>3, <2>4, <2>5, <3>1, <3>2 DEF Asking
  <2>7. Answered(c)'
    BY <2>2, <2>5, AnswerNone DEF Answered
  <2>8. Own(client'[c].partials) /\ Tags(down'[c])
    BY <2>2, <2>5 DEF Own, Tags, NoPartials
  <2>9. Local(c)'
    BY <2>2, <2>3, <2>5, <2>6, <2>7, <2>8 DEF Local
  <2> QED  BY <2>5, <2>9
<1>4. CASE ~(client[c].attempt < setting.attempts)
  <2>1. /\ client' = [client EXCEPT ![c] = [Idle EXCEPT !.pc = "failed"]]
        /\ down' = [down EXCEPT ![c] = <<>>] /\ up' = up
    BY <1>4 DEF NextAttempt
  <2>2. ClientBecomes(c, [Idle EXCEPT !.pc = "failed"], up[c], <<>>)
    BY <2>1 DEF IInv, TypeOK, ClientBecomes
  <2>3. /\ client'[c] = [Idle EXCEPT !.pc = "failed"] /\ up'[c] = up[c] /\ down'[c] = <<>>
        /\ Local(c)' => CInv'
    BY <2>2, OneClient
  <2> QED  BY <1>2, <2>3, Ended
<1> QED  BY <1>3, <1>4

LEMMA AttemptTimeoutCInv ==
    ASSUME IInv, Calm, CInv, NEW c \in Clients, AttemptTimeout(c)
    PROVE  CInv'
<1> DEFINE B == client[c].init
<1>1. /\ client[c].pc = "waiting" /\ up[c] = <<>> /\ down[c] = <<>>
      /\ NextAttempt(c, B, down[c])
      /\ server' = IF server.pc = "confirm" THEN [server EXCEPT !.waited = @ + 1] ELSE server
      /\ UNCHANGED <<setting, made, challenges, accepted>>
  BY DEF AttemptTimeout, Calm, Quiet
<1>2. ServerStays
  BY <1>1 DEF IInv, TypeOK, ServerStates, ServerStays
<1>3. Asking(c) /\ client[c].attempt \in Nat
  BY <1>1 DEF CInv, Local, IInv, TypeOK, ClientStates
<1>4. B.build \in 0 .. client[c].attempt + 1
  BY <1>3 DEF Asking
<1>5. \A m \in DOMAIN server.partials : m.client = c =>
         m.build \in 0 .. client[c].attempt /\ (m # B => 1 \notin DOMAIN server.partials[m])
  BY <1>3 DEF Asking, Clean
<1>6. Serving(c) => OnlyOf(B, up[c], server.partials)
  BY <1>3 DEF Asking
<1>7. \A i \in 1 .. Len(up[c]) : /\ up[c][i].msg.build \in 0 .. client[c].attempt
                                 /\ up[c][i].msg # B /\ up[c][i].part # 1
  BY <1>1
<1> HIDE DEF B
<1> QED  BY <1>1, <1>2, <1>4, <1>5, <1>6, <1>7, NextAttemptCInv

LEMMA LeaveCInv ==
    ASSUME IInv, CInv, NEW c \in Clients, Leave(c)
    PROVE  CInv'
<1>1. /\ client' = [client EXCEPT ![c] = [Idle EXCEPT !.pc = "gone"]]
      /\ down' = [down EXCEPT ![c] = <<>>] /\ up' = up
      /\ UNCHANGED <<server, made, challenges, accepted>>
  BY DEF Leave
<1>2. ClientBecomes(c, [Idle EXCEPT !.pc = "gone"], up[c], <<>>) /\ ServerStays
  BY <1>1 DEF IInv, TypeOK, ClientBecomes, ServerStays
<1>3. /\ client'[c] = [Idle EXCEPT !.pc = "gone"] /\ up'[c] = up[c] /\ down'[c] = <<>>
      /\ Local(c)' => CInv'
  BY <1>2, OneClient
<1>4. Local(c)
  BY DEF CInv
<1> QED  BY <1>3, <1>4, Ended

LEMMA ClientReceiveCInv ==
    ASSUME IInv, Calm, CInv, NEW c \in Clients, ClientReceive(c)
    PROVE  CInv'
<1> DEFINE q == down[c]
           f == Head(q)
           rest == Tail(q)
           ps == client[c].partials
           r == push_parts(ps, f.id, f.part, f.msg)
           a == client[c].attempt
           B == client[c].init
           K(parts) == ConfirmOf(c, Decode(parts).sess)
           up1(parts) == [Idle EXCEPT !.pc = "up", !.sess = Decode(parts).sess]
           N(parts) == Message("Init", c, a + 1, None, Decode(parts).cookie, None)
<1>1. /\ client[c].pc = "waiting" /\ q # <<>>
      /\ UNCHANGED <<setting, server, secret, bucket, made, challenges, lost, errors, accepted>>
  BY DEF ClientReceive
<1>2. /\ q \in Seq(Fragments(Messages)) /\ ps \in Partials(Messages) /\ client[c] \in ClientStates
      /\ a \in Nat /\ up[c] \in Seq(Fragments(Messages))
      /\ client \in [Clients -> ClientStates] /\ DOMAIN up = Clients /\ DOMAIN down = Clients
      /\ up \in [Clients -> Seq(Fragments(Messages))]
  BY DEF IInv, TypeOK, ClientStates
<1>3. Local(c) /\ Asking(c) /\ Answered(c) /\ Tags(q) /\ Own(ps)
  BY <1>1 DEF CInv, Local
<1>4. /\ Answer(rest, r.left, challenges, made) /\ Own(r.left)
      /\ r.out # {} => rest = <<>>
  BY <1>1, <1>2, <1>3, AnswerPush DEF Answered
<1>5. NoFirst(c, up[c], server.partials)
  BY <1>1, <1>3 DEF Asking
<1>6. ServerStays
  BY <1>1 DEF ServerStays
<1>7. /\ Len(rest) = Len(q) - 1 /\ Len(q) \in Nat /\ f = q[1] /\ 1 \in 1 .. Len(q)
      /\ \A i \in 1 .. Len(rest) : rest[i] = q[i + 1]
      /\ rest \in Seq(Fragments(Messages)) /\ Suffix(rest, q)
  BY <1>1, <1>2, TailSuffix
<1>8. \A parts \in r.out : /\ Decode(parts).type = f.msg.type /\ Decode(parts).sess = f.msg.sess
                           /\ Decode(parts) \in Messages
  <2> TAKE parts \in r.out
  <2>1. /\ f.id \in MsgIds /\ f.part \in 1 .. FRAGS /\ f.msg \in Messages
    BY <1>1, <1>2, FragmentType
  <2>2. parts \in [1 .. FRAGS -> Messages]
    BY <1>2, <2>1, PushParts
  <2>3. \A p \in 1 .. FRAGS : parts[p] = f.msg
    BY <1>1, <1>2, <1>3, Completed
  <2>4. parts[1] = f.msg
    BY <2>3, ConstantTypes
  <2> QED  BY <2>2, <2>4, DecodeType
<1>9. IF Serving(c) THEN f.msg.type # "Challenge" /\ f.msg.sess = server.sess
                    ELSE f.msg.type = "Challenge"
  BY <1>3, <1>7 DEF Answered
<1>10. \/ /\ r.out = {}
          /\ down' = [down EXCEPT ![c] = rest]
          /\ client' = [client EXCEPT ![c].partials = r.left]
          /\ UNCHANGED <<up, verified>>
       \/ \E parts \in r.out :
             \/ /\ Decode(parts).type = "Challenge"
                /\ NextAttempt(c, N(parts), rest)
             \/ /\ Decode(parts).type # "Challenge"
                /\ client' = [client EXCEPT ![c] = up1(parts)]
                /\ up' = [up EXCEPT ![c] = @ \o Datagrams(K(parts), 1)]
                /\ down' = [down EXCEPT ![c] = <<>>]
             \/ /\ client' = [client EXCEPT ![c] = [Idle EXCEPT !.pc = "failed"]]
                /\ down' = [down EXCEPT ![c] = <<>>]
                /\ UNCHANGED <<up, verified>>
  BY DEF ClientReceive, ConfirmOf
<1> HIDE DEF q, f, rest, r, ps, B, a
<1>11. ASSUME r.out = {}, down' = [down EXCEPT ![c] = rest],
              client' = [client EXCEPT ![c].partials = r.left], UNCHANGED <<up, verified>>
       PROVE  CInv'
  <2> DEFINE s == [client[c] EXCEPT !.partials = r.left]
  <2>1. ClientBecomes(c, s, up[c], rest)
    <3>1. up' = [up EXCEPT ![c] = up[c]]
      BY <1>2, <1>11
    <3>2. client' = [client EXCEPT ![c] = s]
      BY <1>2, <1>11
    <3> QED  BY <1>11, <3>1, <3>2 DEF ClientBecomes
  <2>2. s.pc = "waiting" /\ s.attempt = a /\ s.init = B /\ s.partials = r.left
    BY <1>1, <1>2 DEF ClientStates, a, B
  <2> HIDE DEF s
  <2>3. /\ client'[c] = s /\ up'[c] = up[c] /\ down'[c] = rest /\ Serving(c)' = Serving(c)
        /\ Local(c)' => CInv'
    BY <1>6, <2>1, OneClient
  <2>4. Asking(c)'
    BY <1>3, <1>5, <1>6, <2>2, <2>3 DEF Asking, ServerStays, a, B
  <2>5. Answered(c)'
    <3>1. \A i \in 1 .. Len(rest) : i + 1 \in 1 .. Len(q) /\ rest[i] = q[i + 1]
      BY <1>7
    <3>2. \A i \in 1 .. Len(rest) :
             IF Serving(c) THEN rest[i].msg.type # "Challenge" /\ rest[i].msg.sess = server.sess
                           ELSE rest[i].msg.type = "Challenge"
      BY <1>3, <3>1 DEF Answered, q
    <3> QED  BY <1>4, <1>6, <2>2, <2>3, <3>2 DEF Answered, ServerStays
  <2>6. Tags(rest)
    <3>1. \A i \in 1 .. Len(rest) : i + 1 \in 1 .. Len(q) /\ rest[i] = q[i + 1]
      BY <1>7
    <3> QED  BY <1>3, <3>1 DEF Tags
  <2>7. Local(c)'
    BY <1>3, <1>4, <2>2, <2>3, <2>4, <2>5, <2>6 DEF Local
  <2> QED  BY <2>3, <2>7
<1>12. ASSUME NEW parts \in r.out, Decode(parts).type = "Challenge", NextAttempt(c, N(parts), rest)
       PROVE  CInv'
  <2>1. ~Serving(c) /\ rest = <<>>
    BY <1>4, <1>8, <1>9, <1>12
  <2>2. N(parts).build = a + 1
    BY DEF Message
  <2> DEFINE M == N(parts)
  <2>3. NextAttempt(c, M, rest) /\ M.build = a + 1 /\ M.build \in 0 .. (client[c].attempt + 1)
    BY <1>2, <1>12, <2>2 DEF a
  <2> HIDE DEF M
  <2>4. \A i \in 1 .. Len(up[c]) : /\ up[c][i].msg.build \in 0 .. client[c].attempt
                                   /\ up[c][i].msg # M /\ up[c][i].part # 1
    BY <1>2, <1>3, <1>5, <2>3 DEF Asking, Clean, NoFirst, a
  <2>5. \A m \in DOMAIN server.partials : m.client = c =>
             /\ m.build \in 0 .. client[c].attempt
             /\ m # M => 1 \notin DOMAIN server.partials[m]
    BY <1>3, <1>5 DEF Asking, Clean, NoFirst
  <2> QED  BY <1>1, <1>6, <2>1, <2>3, <2>4, <2>5, NextAttemptCInv
<1>13. ASSUME NEW parts \in r.out, Decode(parts).type # "Challenge",
              client' = [client EXCEPT ![c] = up1(parts)],
              up' = [up EXCEPT ![c] = @ \o Datagrams(K(parts), 1)],
              down' = [down EXCEPT ![c] = <<>>]
       PROVE  CInv'
  <2> DEFINE s == up1(parts)
             k == K(parts)
             u == up[c] \o Datagrams(k, 1)
  <2>1. Serving(c) /\ Decode(parts).sess = server.sess
    BY <1>8, <1>9, <1>13
  <2>2. s.pc = "up" /\ s.sess = server.sess /\ s.partials = NoPartials /\ k = ConfirmOf(c, server.sess)
    BY <2>1 DEF Idle
  <2>3. ClientBecomes(c, s, u, <<>>)
    BY <1>2, <1>13 DEF ClientBecomes
  <2>4. NoFirst(B.client, up[c], server.partials) /\ OnlyOf(B, up[c], server.partials)
    <3>1. B.client = c
      BY <1>1 DEF IInv, Provenance, Proven, B
    <3> QED  BY <1>3, <1>5, <2>1, <3>1 DEF Asking, B
  <2> HIDE DEF s, k
  <2>5. Confirming(k, u, server.partials) /\ Tags(u)
    <3>1. setting.obf /\ Tags(up[c])
      BY <1>3 DEF Calm, Local
    <3> QED  BY <1>2, <2>4, <3>1, ConfirmingNew
  <2> HIDE DEF u
  <2>6. /\ client'[c] = s /\ up'[c] = u /\ down'[c] = <<>> /\ Serving(c)' = Serving(c)
        /\ Local(c)' => CInv'
    BY <1>6, <2>3, OneClient
  <2>7. Unsettled(c)'
    BY <1>6, <2>1, <2>2, <2>5, <2>6 DEF Unsettled, ServerStays
  <2>8. Own(client'[c].partials) /\ Tags(down'[c])
    BY <2>2, <2>6 DEF Own, Tags, NoPartials
  <2>9. Local(c)'
    BY <2>2, <2>5, <2>6, <2>7, <2>8 DEF Local
  <2> QED  BY <2>6, <2>9
<1>14. ASSUME client' = [client EXCEPT ![c] = [Idle EXCEPT !.pc = "failed"]],
              down' = [down EXCEPT ![c] = <<>>], UNCHANGED <<up, verified>>
       PROVE  CInv'
  <2>1. ClientBecomes(c, [Idle EXCEPT !.pc = "failed"], up[c], <<>>)
    BY <1>2, <1>14 DEF ClientBecomes
  <2>2. /\ client'[c] = [Idle EXCEPT !.pc = "failed"] /\ up'[c] = up[c] /\ down'[c] = <<>>
        /\ Local(c)' => CInv'
    BY <1>6, <2>1, OneClient
  <2> QED  BY <1>3, <2>2, Ended
<1> QED  BY <1>10, <1>11, <1>12, <1>13, <1>14

-----------------------------------------------------------------------------
(***************************************************************************)
(* The steps of the server.                                                *)
(***************************************************************************)

\* What the server reads of c.
LEMMA Reads ==
    ASSUME IInv, CInv, NEW c \in Clients, up[c] # <<>>
    PROVE  LET q == up[c]
               r == push_parts(server.partials, Head(q).id, Head(q).part, Head(q).msg)
           IN /\ q \in Seq(Fragments(Messages)) /\ Tail(q) \in Seq(Fragments(Messages))
              /\ server.partials \in Partials(Messages) /\ server \in ServerStates
              /\ Tags(q) /\ Tags(Tail(q)) /\ Own(server.partials) /\ Own(r.left)
              /\ Suffix(Tail(q), q) /\ Head(q).msg.client = c /\ Head(q).msg \in Messages
              /\ \A d \in Clients : d # c => Less(d, r.left, server.partials)
              /\ client[c].pc # "idle" /\ Local(c)
              /\ r.out # {} => down[c] = <<>>
              /\ \A parts \in r.out : \A p \in 1 .. FRAGS : parts[p] = Head(q).msg
              /\ \A parts \in r.out : /\ Decode(parts).type = Head(q).msg.type
                                      /\ Decode(parts).signed = Head(q).msg.signed
<1> DEFINE q == up[c]
           ps == server.partials
           r == push_parts(ps, Head(q).id, Head(q).part, Head(q).msg)
<1>1. /\ q \in Seq(Fragments(Messages)) /\ ps \in Partials(Messages) /\ server \in ServerStates
      /\ q \in Seq(Fragments(Proven(c)))
  BY DEF IInv, TypeOK, ServerStates, Provenance
<1>2. Local(c) /\ Tags(q) /\ Own(ps)
  BY DEF CInv, Local
<1>3. /\ Head(q).id \in MsgIds /\ Head(q).part \in 1 .. FRAGS /\ Head(q).msg \in Messages
      /\ Tail(q) \in Seq(Fragments(Messages)) /\ Head(q).msg \in Proven(c)
  BY <1>1, FragmentType
<1>4. Head(q).msg.client = c
  BY <1>3 DEF Proven
<1>5. Suffix(Tail(q), q) /\ Tags(Tail(q))
  <2>1. Suffix(Tail(q), q) /\ Len(q) \in Nat /\ Len(Tail(q)) \in Nat
        /\ \A i \in 1 .. Len(Tail(q)) : i + 1 \in 1 .. Len(q) /\ Tail(q)[i] = q[i + 1]
    BY <1>1, TailSuffix
  <2> QED  BY <1>2, <2>1 DEF Tags
<1>6. Own(r.left)
  BY <1>1, <1>2, OwnPush
<1>7. \A d \in Clients : d # c => Less(d, r.left, ps)
  BY <1>1, <1>2, <1>4, CleanPush
<1>8. client[c].pc # "idle"
  BY <1>2 DEF Local
<1>9. \A parts \in r.out : /\ \A p \in 1 .. FRAGS : parts[p] = Head(q).msg
                           /\ ~NoFirst(c, q, ps)
  <2> TAKE parts \in r.out
  <2>1. q # <<>>
    OBVIOUS
  <2>2. /\ \A p \in 1 .. FRAGS : parts[p] = Head(q).msg
        /\ ~NoFirst(Head(q).msg.client, q, ps)
    <3> HIDE DEF q, ps
    <3> QED  BY <1>1, <1>2, <2>1, Completed
  <2> QED  BY <1>4, <2>2
<1>10. r.out # {} => down[c] = <<>>
  BY <1>2, <1>9 DEF Local, Asking
<1>11. \A parts \in r.out : /\ Decode(parts).type = Head(q).msg.type
                            /\ Decode(parts).signed = Head(q).msg.signed
  <2> TAKE parts \in r.out
  <2>1. parts \in [1 .. FRAGS -> Messages]
    BY <1>1, <1>3, PushParts
  <2>2. parts[1] = Head(q).msg /\ parts[2] = Head(q).msg
    BY <1>9, ConstantTypes
  <2> QED  BY <2>1, <2>2, DecodeType
<1> HIDE DEF r
<1>12. /\ q \in Seq(Fragments(Messages)) /\ Tail(q) \in Seq(Fragments(Messages))
       /\ ps \in Partials(Messages) /\ server \in ServerStates
       /\ Tags(q) /\ Tags(Tail(q)) /\ Own(ps) /\ Own(r.left)
       /\ Suffix(Tail(q), q) /\ Head(q).msg.client = c /\ Head(q).msg \in Messages
       /\ \A d \in Clients : d # c => Less(d, r.left, ps)
       /\ client[c].pc # "idle" /\ Local(c)
       /\ r.out # {} => down[c] = <<>>
       /\ \A parts \in r.out : \A p \in 1 .. FRAGS : parts[p] = Head(q).msg
       /\ \A parts \in r.out : /\ Decode(parts).type = Head(q).msg.type
                               /\ Decode(parts).signed = Head(q).msg.signed
  BY <1>1, <1>2, <1>3, <1>4, <1>5, <1>6, <1>7, <1>8, <1>9, <1>10, <1>11
<1> QED  BY <1>12 DEF r

\* The server takes a fragment of c's, which completes nothing, to what it has.
LEMMA Kept ==
    ASSUME IInv, CInv, NEW c \in Clients, up[c] # <<>>, client'[c] = client[c],
           down'[c] = down[c], up'[c] = Tail(up[c]),
           server' = [server EXCEPT !.partials =
               push_parts(server.partials, Head(up[c]).id, Head(up[c]).part, Head(up[c]).msg).left],
           UNCHANGED <<challenges, made, accepted>>,
           client[c].pc = "up" /\ <<c, client[c].sess>> \notin accepted => Unsettled(c)'
    PROVE  Local(c)'
<1> DEFINE q == up[c]
           ps == server.partials
           r == push_parts(ps, Head(q).id, Head(q).part, Head(q).msg)
           B == client[c].init
           a == client[c].attempt
<1>1. /\ q \in Seq(Fragments(Messages)) /\ ps \in Partials(Messages) /\ server \in ServerStates
      /\ Tags(q) /\ Tags(Tail(q)) /\ Head(q).msg.client = c /\ client[c].pc # "idle" /\ Local(c)
  BY Reads
<1>2. /\ Clean(c, q, ps, B, a) => Clean(c, Tail(q), r.left, B, a)
      /\ NoFirst(c, q, ps) => NoFirst(c, Tail(q), r.left)
      /\ OnlyOf(B, q, ps) => OnlyOf(B, Tail(q), r.left)
  BY <1>1, CleanPush
<1>3. /\ server'.pc = server.pc /\ server'.peer = server.peer /\ server'.sess = server.sess
      /\ server'.partials = r.left
  BY <1>1 DEF ServerStates
<1> HIDE DEF q, ps, r, B, a
<1>4. Serving(c)' = Serving(c)
  BY <1>3 DEF Serving
<1>5. ASSUME client[c].pc = "waiting" PROVE Asking(c)' /\ Answered(c)'
  <2>1. Asking(c) /\ Answered(c)
    BY <1>1, <1>5 DEF Local
  <2>2. Asking(c)'
    BY <1>2, <1>3, <1>4, <2>1 DEF Asking, q, ps, B, a
  <2>3. Answered(c)'
    BY <1>3, <1>4, <2>1 DEF Answered
  <2> QED  BY <2>2, <2>3
<1> QED  BY <1>1, <1>5 DEF Local, q

\* The server goes on without what it had, and without a peer to hear from.
LEMMA ServerLeaves ==
    ASSUME IInv, IInv', CInv, UNCHANGED <<client, down, challenges, made>>,
           server'.pc # "confirm", server'.partials = NoPartials,
           \A d \in Clients : Suffix(up'[d], up[d]), accepted \subseteq accepted',
           \A d \in Clients : Serving(d) =>
               /\ down[d] = <<>>
               /\ client[d].pc = "up" => <<d, client[d].sess>> \in accepted'
    PROVE  CInv'
<1>1. DOMAIN NoPartials = {}
  BY DEF NoPartials
<1>2. challenges' >= challenges /\ made' >= made
  BY DEF IInv, TypeOK
<1>3. ASSUME NEW d \in Clients PROVE Local(d)'
  <2>1. Local(d) /\ ~Serving(d)' /\ Less(d, server'.partials, server.partials)
    BY <1>1 DEF CInv, Serving, Less
  <2> QED  BY <1>2, <2>1, Elsewhere
<1> QED  BY <1>1, <1>3 DEF CInv, Own

LEMMA ListenReceiveCInv ==
    ASSUME IInv, IInv', Calm, CInv, NEW c \in Clients, ListenReceive(c)
    PROVE  CInv'
<1> DEFINE q == up[c]
           m == Head(q).msg
           r == push_parts(server.partials, Head(q).id, Head(q).part, Head(q).msg)
<1>1. /\ server.pc = "listen" /\ q # <<>> /\ up' = [up EXCEPT ![c] = Tail(q)]
      /\ UNCHANGED <<setting, client, secret, bucket, lost, errors, verified, accepted>>
      /\ \/ /\ r.out = {} /\ server' = [server EXCEPT !.partials = r.left]
            /\ UNCHANGED <<down, made, challenges>>
         \/ \E parts \in r.out :
               Challenge(c, Decode(parts)) \/ Respond(c, Decode(parts)) \/ Ignore(Decode(parts))
  BY DEF ListenReceive
<1>2. /\ q \in Seq(Fragments(Messages)) /\ Tail(q) \in Seq(Fragments(Messages))
      /\ server.partials \in Partials(Messages) /\ server \in ServerStates
      /\ Tags(q) /\ Tags(Tail(q)) /\ Own(server.partials) /\ Own(r.left)
      /\ Suffix(Tail(q), q) /\ m.client = c
      /\ \A d \in Clients : d # c => Less(d, r.left, server.partials)
      /\ client[c].pc # "idle" /\ Local(c)
      /\ r.out # {} => down[c] = <<>>
  BY <1>1, Reads
<1>3. /\ up \in [Clients -> Seq(Fragments(Messages))] /\ down \in [Clients -> Seq(Fragments(Messages))]
      /\ challenges \in Nat /\ made \in Nat /\ challenges' \in Nat /\ made' \in Nat
  BY DEF IInv, TypeOK
<1>4. \A d \in Clients : ~Serving(d)
  BY <1>1 DEF Serving
<1>5. /\ up'[c] = Tail(q)
      /\ \A d \in Clients : d # c => up'[d] = up[d]
  BY <1>1, <1>3
<1>6. \A d \in Clients : Suffix(up'[d], up[d])
  BY <1>2, <1>3, <1>5, SuffixKept
<1>7. client[c].pc = "up" => <<c, client[c].sess>> \in accepted
  BY <1>2, <1>4 DEF Local, Unsettled
\* What completes is the latest Init of c, and what follows it completes nothing.
<1>8. ASSUME r.out # {}, client[c].pc = "waiting"
      PROVE  LET B == client[c].init
                 a == client[c].attempt
             IN /\ B.build \in 0 .. a /\ Clean(c, Tail(q), NoPartials, B, a)
                /\ NoFirst(c, Tail(q), NoPartials) /\ OnlyOf(B, Tail(q), NoPartials)
                /\ Answer(down[c], client[c].partials, challenges, made)
  <2> DEFINE B == client[c].init
             a == client[c].attempt
  <2>1. Asking(c) /\ Answered(c)
    BY <1>2, <1>8 DEF Local
  <2>2. Clean(c, q, server.partials, B, a) /\ B.build \in 0 .. a
    BY <2>1 DEF Asking
  <2>3. PICK parts \in r.out : TRUE
    BY <1>8
  <2> HIDE DEF B, a, q
  <2>4. \A D, b : Clean(m.client, q, server.partials, D, b) =>
                    /\ NoFirst(m.client, Tail(q), NoPartials) /\ OnlyOf(D, Tail(q), NoPartials)
    BY <1>1, <1>2, <2>3, Completed
  <2>5. NoFirst(c, Tail(q), NoPartials) /\ OnlyOf(B, Tail(q), NoPartials)
    BY <1>2, <2>2, <2>4
  <2>6. Less(c, NoPartials, server.partials)
    BY DEF Less, NoPartials
  <2>7. Len(q) \in Nat /\ Len(Tail(q)) \in Nat
    BY <1>2
  <2>8. Clean(c, Tail(q), NoPartials, B, a)
    BY <1>2, <2>2, <2>6, <2>7, CleanLess
  <2> QED  BY <2>1, <2>2, <2>5, <2>8 DEF Answered, B, a
<1> HIDE DEF q, m, r
<1>9. CASE r.out = {} /\ server' = [server EXCEPT !.partials = r.left]
           /\ UNCHANGED <<down, made, challenges>>
  <2>1. server'.partials = r.left /\ server'.pc = server.pc
    BY <1>2, <1>9 DEF ServerStates
  <2>2. ASSUME NEW d \in Clients, d # c PROVE Local(d)'
    <3>1. Local(d) /\ ~Serving(d)' /\ Less(d, server'.partials, server.partials)
      BY <1>1, <1>2, <2>1, <2>2 DEF CInv, Serving
    <3>2. challenges' >= challenges /\ made' >= made
      BY <1>3, <1>9
    <3> QED  BY <1>1, <1>4, <1>6, <1>9, <3>1, <3>2, Elsewhere
  <2>3. Local(c)'
    <3>1. /\ up[c] # <<>> /\ up'[c] = Tail(up[c])
          /\ server' = [server EXCEPT !.partials =
                push_parts(server.partials, Head(up[c]).id, Head(up[c]).part, Head(up[c]).msg).left]
      BY <1>1, <1>5, <1>9 DEF q, r
    <3> QED  BY <1>1, <1>7, <1>9, <3>1, Kept
  <2> QED  BY <1>2, <2>1, <2>2, <2>3 DEF CInv
<1>10. Listen.pc = "listen" /\ Listen.partials = NoPartials
  BY DEF Listen
\* An answer n to c, if it still waits.
<1>11. ASSUME r.out # {}, server'.partials = NoPartials, NEW n, down' = DownWith(c, n),
              challenges' >= challenges, made' >= made,
              Old(n, challenges', made'), ~Old(n, challenges, made),
              \A d \in Clients : d # c => ~Serving(d)',
              IF Serving(c)' THEN n.type # "Challenge" /\ n.sess = server'.sess
                             ELSE n.type = "Challenge"
       PROVE  CInv'
  <2>1. \A d \in Clients : Less(d, server'.partials, server.partials)
    BY <1>11 DEF Less, NoPartials
  <2>2. ASSUME NEW d \in Clients, d # c PROVE Local(d)'
    <3>1. Local(d) /\ ~Serving(d)' /\ Less(d, server'.partials, server.partials)
      BY <1>11, <2>1, <2>2 DEF CInv
    <3>2. down'[d] = down[d]
      BY <1>3, <1>11, <2>2 DEF DownWith
    <3> QED  BY <1>1, <1>4, <1>6, <1>11, <3>1, <3>2, Elsewhere
  <2>3. CASE client[c].pc # "waiting"
    <3>1. down'[c] = down[c] /\ down[c] = <<>>
      BY <1>2, <1>11, <2>3 DEF DownWith, Waiting
    <3>2. Local(c)'
      BY <1>1, <1>2, <1>5, <1>7, <2>3, <3>1 DEF Local
    <3> QED  BY <1>11, <2>2, <3>2 DEF CInv, Own, NoPartials
  <2>4. CASE client[c].pc = "waiting"
    <3> DEFINE e == down[c] \o Datagrams(n, secret)
    <3>1. down'[c] = e
      BY <1>3, <1>11, <2>4 DEF DownWith, Waiting
    <3>2. /\ down[c] = <<>> /\ down[c] \in Seq(Fragments(Messages))
          /\ Answer(down[c], client[c].partials, challenges, made) /\ setting.obf
      BY <1>2, <1>3, <1>8, <1>11, <2>4 DEF Calm
    <3>3. /\ Answer(e, client[c].partials, challenges', made') /\ Tags(e)
          /\ \A i \in 1 .. Len(e) : e[i].msg = n
      BY <1>3, <1>11, <3>2, AnswerNew
    <3> HIDE DEF e
    <3>4. Asking(c)'
      BY <1>1, <1>5, <1>8, <1>11, <2>4 DEF Asking
    <3>5. Answered(c)'
      BY <1>1, <1>11, <3>1, <3>3 DEF Answered
    <3>6. Local(c)'
      BY <1>1, <1>2, <1>5, <2>4, <3>1, <3>3, <3>4, <3>5 DEF Local
    <3> QED  BY <1>11, <2>2, <3>6 DEF CInv, Own, NoPartials
  <2> QED  BY <2>3, <2>4
<1>12. ASSUME NEW parts \in r.out, Challenge(c, Decode(parts)) PROVE CInv'
  <2> DEFINE n == Message("Challenge", c, challenges', None,
                          [src |-> c, secret |-> secret, bucket |-> bucket], None)
  <2>1. challenges' = challenges + 1 /\ down' = DownWith(c, n) /\ server' = Listen /\ made' = made
    BY <1>12 DEF Challenge
  <2>2. n.type = "Challenge" /\ n.build = challenges'
    BY DEF Message
  <2> HIDE DEF n
  <2>3. Old(n, challenges', made') /\ ~Old(n, challenges, made)
    BY <1>3, <2>1, <2>2 DEF Old
  <2>4. challenges' >= challenges /\ made' >= made
    BY <1>3, <2>1
  <2>5. \A d \in Clients : ~Serving(d)'
    BY <1>10, <2>1 DEF Serving
  <2> QED  BY <1>10, <1>11, <1>12, <2>1, <2>2, <2>3, <2>4, <2>5
<1>13. ASSUME NEW parts \in r.out, Respond(c, Decode(parts)) PROVE CInv'
  <2> DEFINE n == Message("Response", Decode(parts).client, 0, made', NoCookie, made')
  <2>1. /\ made' = made + 1 /\ down' = DownWith(c, n) /\ challenges' = challenges
        /\ server' = [Listen EXCEPT !.pc = "confirm", !.peer = c, !.sess = made',
                                    !.since = Waiting]
    BY <1>13 DEF Respond
  <2>2. n.type = "Response" /\ n.sess = made'
    BY DEF Message
  <2> HIDE DEF n
  <2>3. Old(n, challenges', made') /\ ~Old(n, challenges, made)
    BY <1>3, <2>1, <2>2 DEF Old
  <2>4. challenges' >= challenges /\ made' >= made
    BY <1>3, <2>1
  <2>5. server'.partials = NoPartials /\ server'.sess = made' /\ server'.peer = c
        /\ server'.pc = "confirm"
    BY <2>1 DEF Listen
  <2>6. Serving(c)' /\ \A d \in Clients : d # c => ~Serving(d)'
    BY <2>5 DEF Serving
  <2> QED  BY <1>11, <1>13, <2>1, <2>2, <2>3, <2>4, <2>5, <2>6
<1>14. ASSUME NEW parts \in r.out, Ignore(Decode(parts)) PROVE CInv'
  <2>1. server' = Listen /\ UNCHANGED <<down, made, challenges>>
    BY <1>14 DEF Ignore
  <2> QED  BY <1>1, <1>4, <1>6, <1>10, <2>1, ServerLeaves
<1> QED  BY <1>1, <1>9, <1>12, <1>13, <1>14 DEF r, q

LEMMA ConfirmReceiveCInv ==
    ASSUME MAX_PENDING_MSGS > 1, IInv, IInv', Calm, CInv, NEW c \in Clients, ConfirmReceive(c)
    PROVE  CInv'
<1> DEFINE q == up[c]
           m == Head(q).msg
           r == push_parts(server.partials, Head(q).id, Head(q).part, Head(q).msg)
           rest == [up EXCEPT ![c] = Tail(q)]
           K == ConfirmOf(c, client[c].sess)
<1>1. /\ server.pc = "confirm" /\ q # <<>>
      /\ UNCHANGED <<setting, down, client, bucket, made, challenges, lost, errors, verified>>
      /\ \/ /\ c # server.peer
            /\ up' = rest
            /\ UNCHANGED <<server, secret, accepted>>
         \/ /\ c = server.peer /\ r.out = {}
            /\ up' = rest
            /\ server' = [server EXCEPT !.partials = r.left]
            /\ UNCHANGED <<secret, accepted>>
         \/ /\ c = server.peer
            /\ \E parts \in r.out :
                 IF Confirms(Decode(parts), server.sess)
                 THEN /\ accepted' = accepted \cup {<<c, server.sess>>}
                      /\ \/ /\ server' = [Listen EXCEPT !.pc = "up", !.peer = c,
                                                        !.sess = server.sess]
                            /\ up' = rest
                         \/ Relisten(rest)
                 ELSE /\ server' = Listen
                      /\ up' = rest
                      /\ UNCHANGED accepted
  BY DEF ConfirmReceive, FromPeer
<1>2. /\ q \in Seq(Fragments(Messages)) /\ Tail(q) \in Seq(Fragments(Messages))
      /\ server.partials \in Partials(Messages) /\ server \in ServerStates
      /\ Tags(q) /\ Tags(Tail(q)) /\ Own(server.partials) /\ Own(r.left)
      /\ Suffix(Tail(q), q) /\ m.client = c
      /\ \A d \in Clients : d # c => Less(d, r.left, server.partials)
      /\ client[c].pc # "idle" /\ Local(c)
      /\ r.out # {} => down[c] = <<>>
      /\ \A parts \in r.out : Decode(parts).type = m.type /\ Decode(parts).signed = m.signed
  BY <1>1, Reads
<1>3. /\ up \in [Clients -> Seq(Fragments(Messages))]
      /\ challenges' >= challenges /\ made' >= made
  BY <1>1 DEF IInv, TypeOK
<1>4. /\ rest[c] = Tail(q)
      /\ \A d \in Clients : d # c => rest[d] = up[d]
      /\ \A d \in Clients : rest[d] \in Seq(Fragments(Messages))
  BY <1>2, <1>3
<1>5. \A d \in Clients : Suffix(rest[d], up[d])
  BY <1>2, <1>3, <1>4, SuffixKept
\* A Confirm on its way either stays so or is the message that is complete.
<1>6. Unsettled(c) => /\ r.out = {} => Confirming(K, Tail(q), r.left)
                      /\ r.out # {} => m = K
  <2> SUFFICES ASSUME Unsettled(c)
               PROVE  /\ r.out = {} => Confirming(K, Tail(q), r.left)
                      /\ r.out # {} => m = K
    OBVIOUS
  <2>1. Confirming(K, q, server.partials)
    BY DEF Unsettled
  <2>2. r = push_parts(server.partials, Head(q).id, Head(q).part, Head(q).msg)
    OBVIOUS
  <2> HIDE DEF K, q, m, r, rest
  <2>3. /\ q \in Seq(Fragments(Messages)) /\ Tags(q) /\ server.partials \in Partials(Messages)
        /\ Own(server.partials)
    BY <1>2
  <2>4. ASSUME r.out = {} PROVE Confirming(K, Tail(q), r.left)
    BY <2>1, <2>2, <2>3, <2>4, ConfirmingPush
  <2>5. ASSUME r.out # {} PROVE Head(q).msg = K
    BY <2>1, <2>2, <2>3, <2>5, ConfirmingDone
  <2> QED  BY <2>4, <2>5 DEF m
<1> HIDE DEF q, m, r, rest
<1>7. CASE c # server.peer /\ up' = rest /\ UNCHANGED <<server, secret, accepted>>
  <2>1. ASSUME NEW d \in Clients, d # c PROVE Local(d)'
    <3>1. Local(d) /\ up'[d] = up[d]
      BY <1>4, <1>7, <2>1 DEF CInv
    <3> QED  BY <1>1, <1>7, <3>1, Untouched
  <2>2. Local(c)'
    <3>1. Less(c, server'.partials, server.partials) /\ ~Serving(c) /\ ~Serving(c)'
      BY <1>7 DEF Less, Serving
    <3> QED  BY <1>1, <1>2, <1>3, <1>5, <1>7, <3>1, Elsewhere
  <2> QED  BY <1>2, <1>7, <2>1, <2>2 DEF CInv
<1>8. CASE c = server.peer /\ r.out = {} /\ up' = rest /\ UNCHANGED <<secret, accepted>>
           /\ server' = [server EXCEPT !.partials = r.left]
  <2>1. /\ server'.partials = r.left /\ server'.pc = server.pc /\ server'.peer = server.peer
        /\ server'.sess = server.sess
    BY <1>2, <1>8 DEF ServerStates
  <2>2. ASSUME NEW d \in Clients, d # c PROVE Local(d)'
    <3>1. Local(d) /\ ~Serving(d) /\ ~Serving(d)' /\ Less(d, server'.partials, server.partials)
      BY <1>2, <1>8, <2>1, <2>2 DEF CInv, Serving
    <3> QED  BY <1>1, <1>3, <1>5, <1>8, <3>1, Elsewhere
  <2>3. Local(c)'
    <3>1. /\ up[c] # <<>> /\ up'[c] = Tail(up[c])
          /\ server' = [server EXCEPT !.partials =
                push_parts(server.partials, Head(up[c]).id, Head(up[c]).part, Head(up[c]).msg).left]
      BY <1>1, <1>4, <1>8 DEF q, r
    <3>2. ASSUME client[c].pc = "up", <<c, client[c].sess>> \notin accepted PROVE Unsettled(c)'
      <4>1. Unsettled(c)
        BY <1>2, <3>2 DEF Local
      <4>2. Confirming(K, up'[c], server'.partials)
        BY <1>4, <1>6, <1>8, <2>1, <4>1
      <4>3. Serving(c)' /\ server'.sess = client'[c].sess /\ client'[c].sess = client[c].sess
        BY <1>1, <2>1, <4>1 DEF Unsettled, Serving
      <4> QED  BY <4>2, <4>3 DEF Unsettled
    <3> QED  BY <1>1, <1>8, <3>1, <3>2, Kept
  <2> QED  BY <1>2, <2>1, <2>2, <2>3 DEF CInv
<1>9. ASSUME c = server.peer, NEW parts \in r.out,
             IF Confirms(Decode(parts), server.sess)
             THEN /\ accepted' = accepted \cup {<<c, server.sess>>}
                  /\ \/ /\ server' = [Listen EXCEPT !.pc = "up", !.peer = c, !.sess = server.sess]
                        /\ up' = rest
                     \/ Relisten(rest)
             ELSE /\ server' = Listen
                  /\ up' = rest
                  /\ UNCHANGED accepted
      PROVE  CInv'
  <2>1. server'.pc # "confirm" /\ server'.partials = NoPartials /\ accepted \subseteq accepted'
    <3>1. Relisten(rest) => server' = Listen
      BY DEF Relisten
    <3>2. /\ Listen.pc = "listen" /\ Listen.partials = NoPartials
          /\ [Listen EXCEPT !.pc = "up", !.peer = c, !.sess = server.sess].pc = "up"
          /\ [Listen EXCEPT !.pc = "up", !.peer = c, !.sess = server.sess].partials = NoPartials
      BY DEF Listen
    <3>3. \/ server' = Listen
          \/ server' = [Listen EXCEPT !.pc = "up", !.peer = c, !.sess = server.sess]
      BY <1>9, <3>1
    <3>4. accepted \subseteq accepted'
      BY <1>9
    <3> QED  BY <3>2, <3>3, <3>4
  <2>2. \A d \in Clients : Suffix(up'[d], up[d])
    <3>1. CASE up' = rest
      BY <1>5, <3>1
    <3>2. CASE Relisten(rest)
      <4> TAKE d \in Clients
      <4>1. up'[d] \in Suffixes(rest[d])
        BY <3>2 DEF Relisten
      <4>2. Suffix(up'[d], rest[d])
        BY <1>4, <4>1, SuffixesAre
      <4>3. CASE d = c
        BY <1>1, <1>2, <1>4, <4>2, <4>3, SuffixOfTail DEF q
      <4>4. CASE d # c
        BY <1>4, <4>2, <4>4
      <4> QED  BY <4>3, <4>4
    <3> QED  BY <1>9, <3>1, <3>2
  <2>3. ASSUME NEW d \in Clients, Serving(d)
        PROVE  /\ down[d] = <<>>
               /\ client[d].pc = "up" => <<d, client[d].sess>> \in accepted'
    <3>1. d = c /\ down[d] = <<>>
      BY <1>2, <1>9, <2>3 DEF Serving
    <3>2. ASSUME client[c].pc = "up", <<c, client[c].sess>> \notin accepted
          PROVE  <<c, client[c].sess>> \in accepted'
      <4>1. Unsettled(c)
        BY <1>2, <3>2 DEF Local
      <4>2. m = K /\ server.sess = client[c].sess
        BY <1>6, <1>9, <4>1 DEF Unsettled
      <4>3. K.type = "Confirm" /\ K.signed = client[c].sess
        BY DEF ConfirmOf, Message
      <4>4. Confirms(Decode(parts), server.sess)
        BY <1>2, <1>9, <4>2, <4>3 DEF Confirms
      <4> QED  BY <1>9, <4>2, <4>4
    <3> QED  BY <2>1, <3>1, <3>2
  <2> QED  BY <1>1, <2>1, <2>2, <2>3, ServerLeaves
<1> QED  BY <1>1, <1>7, <1>8, <1>9

LEMMA ConfirmTimeoutCInv ==
    ASSUME IInv, IInv', Calm, CInv, ConfirmTimeout
    PROVE  CInv'
<1>1. /\ server' = Listen /\ up[server.peer] = <<>> /\ down[server.peer] = <<>>
      /\ UNCHANGED <<up, down, client, made, challenges, accepted>>
  BY DEF ConfirmTimeout, Calm, Quiet
<1>2. server'.pc # "confirm" /\ server'.partials = NoPartials
  BY <1>1 DEF Listen
<1>3. \A d \in Clients : Suffix(up'[d], up[d])
  <2> TAKE d \in Clients
  <2>1. up[d] \in Seq(Fragments(Messages))
    BY DEF IInv, TypeOK
  <2> QED  BY <1>1, <2>1, SuffixKept
<1>4. ASSUME NEW d \in Clients, Serving(d)
      PROVE  /\ down[d] = <<>>
             /\ client[d].pc = "up" => <<d, client[d].sess>> \in accepted'
  <2>1. Local(d) /\ d = server.peer
    BY <1>4 DEF CInv, Serving
  <2>2. ~Unsettled(d)
    BY <1>1, <2>1 DEF Unsettled, Confirming
  <2> QED  BY <1>1, <2>1, <2>2 DEF Local
<1> QED  BY <1>1, <1>2, <1>3, <1>4, ServerLeaves

LEMMA RelistenCInv ==
    ASSUME IInv, IInv', Calm, CInv, SocketError \/ TunnelEnds
    PROVE  CInv'
<1>1. ~SocketError
  <2>1. errors \in Nat /\ setting.errors = 0
    BY DEF IInv, TypeOK, Calm
  <2> QED  BY <2>1 DEF SocketError
<1>2. /\ server.pc = "up" /\ Relisten(up)
      /\ UNCHANGED <<down, client, made, challenges, accepted>>
  BY <1>1 DEF TunnelEnds
<1>3. server'.pc # "confirm" /\ server'.partials = NoPartials
  BY <1>2 DEF Relisten, Listen
<1>4. \A d \in Clients : Suffix(up'[d], up[d])
  <2> TAKE d \in Clients
  <2>1. up[d] \in Seq(Fragments(Messages)) /\ up'[d] \in Suffixes(up[d])
    BY <1>2 DEF IInv, TypeOK, Relisten
  <2> QED  BY <2>1, SuffixesAre
<1>5. \A d \in Clients : ~Serving(d)
  BY <1>2 DEF Serving
<1> QED  BY <1>2, <1>3, <1>4, <1>5, ServerLeaves

LEMMA TunnelReceiveCInv ==
    ASSUME IInv, IInv', CInv, NEW c \in Clients, TunnelReceive(c)
    PROVE  CInv'
<1>1. /\ server.pc = "up" /\ up[c] # <<>> /\ up' = [up EXCEPT ![c] = Tail(up[c])]
      /\ UNCHANGED <<down, client, server, made, challenges, accepted>>
  BY DEF TunnelReceive
<1>2. challenges' >= challenges /\ made' >= made
  BY <1>1 DEF IInv, TypeOK
<1>3. ASSUME NEW d \in Clients PROVE Local(d)'
  <2>1. up[d] \in Seq(Fragments(Messages)) /\ up'[d] = IF d = c THEN Tail(up[d]) ELSE up[d]
    BY <1>1 DEF IInv, TypeOK
  <2>2. Suffix(up'[d], up[d])
    BY <1>1, <2>1, TailSuffix, SuffixKept
  <2>3. Local(d) /\ ~Serving(d) /\ ~Serving(d)' /\ Less(d, server'.partials, server.partials)
    BY <1>1 DEF CInv, Serving, Less
  <2> QED  BY <1>1, <1>2, <2>2, <2>3, Elsewhere
<1> QED  BY <1>1, <1>3 DEF CInv

LEMMA PruneCInv ==
    ASSUME IInv, IInv', CInv, Prune
    PROVE  CInv'
<1>1. PICK old : /\ server.pc = "listen"
                 /\ server' = [server EXCEPT !.partials = Without(server.partials, old)]
                 /\ UNCHANGED <<up, down, client, made, challenges, accepted>>
  BY DEF Prune
<1>2. /\ server'.pc = "listen"
      /\ DOMAIN server'.partials = DOMAIN server.partials \ old
      /\ \A m \in DOMAIN server'.partials : server'.partials[m] = server.partials[m]
  BY <1>1 DEF IInv, TypeOK, ServerStates, Without
<1>3. challenges' >= challenges /\ made' >= made
  BY <1>1 DEF IInv, TypeOK
<1>4. ASSUME NEW d \in Clients PROVE Local(d)'
  <2>1. up[d] \in Seq(Fragments(Messages))
    BY DEF IInv, TypeOK
  <2>2. Suffix(up'[d], up[d])
    BY <1>1, <2>1, SuffixKept
  <2>3. Local(d) /\ ~Serving(d) /\ ~Serving(d)' /\ Less(d, server'.partials, server.partials)
    BY <1>1, <1>2 DEF CInv, Serving, Less
  <2> QED  BY <1>1, <1>3, <2>2, <2>3, Elsewhere
<1>5. Own(server'.partials)
  BY <1>2 DEF CInv, Own
<1> QED  BY <1>4, <1>5 DEF CInv

\* The network drops a fragment, though never one of a Confirm.
LEMMA LoseCInv ==
    ASSUME IInv, Calm, CInv, NEW c \in Clients, Lose(c)
    PROVE  CInv'
<1>1. /\ UNCHANGED <<client, server, made, challenges, accepted>>
      /\ \/ /\ up[c] # <<>> /\ Head(up[c]).msg.type # "Confirm"
            /\ up' = [up EXCEPT ![c] = Tail(up[c])] /\ UNCHANGED down
         \/ down[c] # <<>> /\ down' = [down EXCEPT ![c] = Tail(down[c])] /\ UNCHANGED up
  BY DEF Lose, LoseFrom, Calm
<1>2. /\ up \in [Clients -> Seq(Fragments(Messages))] /\ down \in [Clients -> Seq(Fragments(Messages))]
      /\ challenges \in Nat /\ made \in Nat
  BY DEF IInv, TypeOK
<1>3. Local(c) /\ Serving(c)' = Serving(c)
  BY <1>1 DEF CInv, Serving
<1>4. ASSUME NEW d \in Clients, d # c PROVE Local(d)'
  <2>1. Local(d) /\ up'[d] = up[d] /\ down'[d] = down[d]
    BY <1>1, <1>2, <1>4 DEF CInv
  <2> QED  BY <1>1, <2>1, Untouched
<1>5. Less(c, server.partials, server.partials)
  BY DEF Less
<1>6. CASE up[c] # <<>> /\ Head(up[c]).msg.type # "Confirm"
           /\ up' = [up EXCEPT ![c] = Tail(up[c])] /\ UNCHANGED down
  <2> DEFINE q == up[c]
  <2>1. up'[c] = Tail(q) /\ q \in Seq(Fragments(Messages)) /\ q # <<>>
    BY <1>2, <1>6
  <2>2. /\ Suffix(Tail(q), q) /\ Len(q) \in Nat /\ Len(Tail(q)) \in Nat
        /\ \A i \in 1 .. Len(Tail(q)) : i + 1 \in 1 .. Len(q) /\ Tail(q)[i] = q[i + 1]
    BY <2>1, TailSuffix
  <2>3. \A B, a : /\ Clean(c, q, server.partials, B, a) => Clean(c, Tail(q), server.partials, B, a)
                  /\ NoFirst(c, q, server.partials) => NoFirst(c, Tail(q), server.partials)
                  /\ Tags(q) => Tags(Tail(q))
                  /\ OnlyOf(B, q, server.partials) => OnlyOf(B, Tail(q), server.partials)
    BY <1>5, <2>2, CleanLess DEF OnlyOf
  <2>4. Unsettled(c) => Unsettled(c)'
    <3>1. \A s : ConfirmOf(c, s).type = "Confirm"
      BY DEF ConfirmOf, Message
    <3>2. \A s : Head(q).msg # ConfirmOf(c, s)
      BY <1>6, <3>1
    <3>3. \A s : Confirming(ConfirmOf(c, s), q, server.partials) =>
                 Confirming(ConfirmOf(c, s), Tail(q), server.partials)
      BY <2>1, <3>2, ConfirmingLose
    <3> HIDE DEF q
    <3> QED  BY <1>1, <1>3, <2>1, <3>3 DEF Unsettled, q
  <2>5. ASSUME client[c].pc = "waiting" PROVE Asking(c)' /\ Answered(c)'
    <3>1. Asking(c) /\ Answered(c)
      BY <1>3, <2>5 DEF Local
    <3>2. Asking(c)'
      BY <1>1, <1>3, <1>6, <2>1, <2>3, <3>1 DEF Asking
    <3>3. Answered(c)'
      BY <1>1, <1>3, <1>6, <3>1 DEF Answered
    <3> QED  BY <3>2, <3>3
  <2>6. client[c].pc # "idle"
    BY <1>3, <2>1 DEF Local
  <2> HIDE DEF q
  <2>7. Local(c)'
    BY <1>1, <1>3, <1>6, <2>1, <2>3, <2>4, <2>5, <2>6 DEF Local, q
  <2> QED  BY <1>1, <1>4, <2>7 DEF CInv
<1>7. CASE down[c] # <<>> /\ down' = [down EXCEPT ![c] = Tail(down[c])] /\ UNCHANGED up
  <2> DEFINE q == down[c]
  <2>1. down'[c] = Tail(q) /\ q \in Seq(Fragments(Messages)) /\ q # <<>>
    BY <1>2, <1>7
  <2>2. /\ Suffix(Tail(q), q) /\ Len(q) \in Nat /\ Len(Tail(q)) \in Nat
        /\ \A i \in 1 .. Len(Tail(q)) : i + 1 \in 1 .. Len(q) /\ Tail(q)[i] = q[i + 1]
    BY <2>1, TailSuffix
  <2>3. client[c].pc = "waiting" /\ Asking(c) /\ Answered(c)
    BY <1>3, <2>1 DEF Local
  <2>4. Answer(Tail(q), client[c].partials, challenges, made) /\ Tags(Tail(q))
    <3>1. Answer(q, client[c].partials, challenges, made) /\ challenges >= challenges /\ made >= made
      BY <1>2, <2>3 DEF Answered
    <3>2. Tags(q)
      BY <1>3 DEF Local
    <3> HIDE DEF q
    <3>3. Answer(Tail(q), client[c].partials, challenges, made)
      BY <1>2, <2>2, <3>1, AnswerLess
    <3> QED  BY <2>2, <3>2, <3>3 DEF Tags
  <2>5. Asking(c)'
    BY <1>1, <1>3, <1>7, <2>1, <2>3 DEF Asking
  <2>6. Answered(c)'
    BY <1>1, <1>3, <2>1, <2>2, <2>3, <2>4 DEF Answered
  <2> HIDE DEF q
  <2>7. Local(c)'
    BY <1>1, <1>3, <1>7, <2>1, <2>3, <2>4, <2>5, <2>6 DEF Local
  <2> QED  BY <1>1, <1>4, <2>7 DEF CInv
<1> QED  BY <1>1, <1>6, <1>7

\* A cookie time window ends, or nothing happens.
LEMMA QuietCInv ==
    ASSUME CInv, UNCHANGED <<up, down, client, server, made, challenges, accepted>>
    PROVE  CInv'
<1>1. ASSUME NEW d \in Clients PROVE Local(d)'
  <2>1. Local(d)
    BY DEF CInv
  <2> QED  BY <2>1, Untouched
<1> QED  BY <1>1 DEF CInv

LEMMA NextCalmInv ==
    ASSUME MAX_PENDING_MSGS > 1, IInv, CalmInv, [Next]_vars
    PROVE  CalmInv'
<1>1. IInv'
  BY NextIInv
<1>2. UNCHANGED setting
  BY DEF vars, Next, ServerStep, ClientStep, Start, AttemptTimeout, ClientReceive, Leave,
         ListenReceive, ConfirmReceive, TunnelReceive, ConfirmTimeout, SocketError, TunnelEnds,
         Prune, NextWindow, Lose
<1>3. Calm' = Calm
  BY <1>2 DEF Calm
<1> SUFFICES ASSUME Calm PROVE CInv'
  BY <1>3 DEF CalmInv
<1>4. CInv
  BY DEF CalmInv
<1>5. CASE \E c \in Clients : Start(c) \/ ClientStep(c) \/ Leave(c) \/ Lose(c)
  BY <1>4, <1>5, StartCInv, ClientReceiveCInv, AttemptTimeoutCInv, LeaveCInv, LoseCInv
     DEF ClientStep
<1>6. CASE ServerStep
  BY <1>1, <1>4, <1>6, ConfirmTimeoutCInv, ListenReceiveCInv, ConfirmReceiveCInv,
     TunnelReceiveCInv DEF ServerStep
<1>7. CASE SocketError \/ TunnelEnds
  BY <1>1, <1>4, <1>7, RelistenCInv
<1>8. CASE Prune
  BY <1>1, <1>4, <1>8, PruneCInv
<1>9. CASE NextWindow \/ UNCHANGED vars
  <2>1. UNCHANGED <<up, down, client, server, made, challenges, accepted>>
    BY <1>9 DEF NextWindow, vars
  <2> QED  BY <1>4, <2>1, QuietCInv
<1> QED  BY <1>5, <1>6, <1>7, <1>8, <1>9 DEF Next

LEMMA CalmInvImplies == IInv /\ CalmInv => CalmEstablished
<1> SUFFICES ASSUME IInv, CalmInv, Calm, NEW c \in Clients, client[c].pc = "up", Quiet(c),
                    <<c, client[c].sess>> \notin accepted
             PROVE  FALSE
  BY DEF CalmEstablished, EstablishedAtBoth
<1>1. Unsettled(c)
  BY DEF CalmInv, CInv, Local
<1> QED  BY <1>1 DEF Unsettled, Confirming, Quiet

(***************************************************************************)
(* The initiator's Ok is kept (run_handshake_initiator,                    *)
(* run_handshake_responder): as long as the timers outlast the round trip  *)
(* and no Confirm is lost, whatever else is lost, resent, left over from   *)
(* an earlier attempt or sent by another client, the responder accepts the *)
(* session of every initiator that is up.  One place for another partial   *)
(* message besides the Confirm's is needed: MAX_PENDING_MSGS is 64.        *)
(***************************************************************************)
THEOREM EstablishedWhenCalm ==
    ASSUME MAX_PENDING_MSGS > 1
    PROVE  Spec => []CalmEstablished
<1>1. Init => CalmInv
  BY InitCInv DEF CalmInv
<1>2. IInv /\ CalmInv /\ [Next]_vars => CalmInv'
  BY NextCalmInv
<1>3. IInv /\ CalmInv => CalmEstablished
  BY CalmInvImplies
<1> QED  BY <1>1, <1>2, <1>3, IInvInvariance, PTL DEF Spec

-----------------------------------------------------------------------------
(***************************************************************************)
(* The invariant behind GetsIn: what a waiting client has left of its      *)
(* attempts pays for all that can still stand in its way.                  *)
(***************************************************************************)

(***************************************************************************)
(* The settings' numbers: a place for two messages of each client, two     *)
(* attempts for the cookie round trip, four for each other client, two for *)
(* each fragment that may be lost, one for every second time window.       *)
(***************************************************************************)
Enough ==
    /\ IsFiniteSet(Clients)
    /\ MAX_PENDING_MSGS > 1 /\ MAX_PENDING_MSGS >= 2 * Cardinality(Clients)
    /\ \A s \in Settings :
          s.obf /\ ~s.slow /\ "Confirm" \notin s.loss /\ s.errors = 0 =>
             s.attempts >= 2 + 4 * (Cardinality(Clients) - 1) + 2 * s.losses + (s.windows \div 2)

\* What is on the way from c and what the server has of it is of the messages in S.
Few(c, q, ps, S) == /\ \A i \in 1 .. Len(q) : q[i].msg \in S
                    /\ \A m \in DOMAIN ps : m.client = c => m \in S

(***************************************************************************)
(* m will be complete when the channel q is read: each of its parts is on  *)
(* the way or at hand, and one of them is the last to come.                *)
(***************************************************************************)
Coming(m, q, ps) ==
    /\ q # <<>> /\ q[Len(q)].msg = m
    /\ \A p \in 1 .. FRAGS : \/ \E i \in 1 .. Len(q) : q[i].msg = m /\ q[i].part = p
                             \/ Has(ps, m, p)

\* Of c there are at most two messages, and one of them at most will be complete, once.
Sparse(c) == /\ \E x, y : Few(c, up[c], server.partials, {x, y})
             /\ \E B, a : Clean(c, up[c], server.partials, B, a)

\* What the server answers c with.
Reply(c, n) == \/ n.type = "Challenge"
               \/ n.type = "Response" /\ n.client = c /\ n.signed = n.sess

(***************************************************************************)
(* c is being answered with one message at a time, and while it has parts  *)
(* of that one nothing of its own will be complete.                        *)
(***************************************************************************)
Hearing(c) ==
    /\ client[c].init.type = "Init"
    /\ \E x : Few(c, up[c], server.partials, {x, client[c].init})
    /\ down[c] # <<>> => Few(c, up[c], server.partials, {client[c].init})
    /\ \E n : /\ \A i \in 1 .. Len(down[c]) : down[c][i].msg = n /\ Reply(c, n)
              /\ DOMAIN client[c].partials \subseteq {n}
    /\ DOMAIN client[c].partials # {} => NoFirst(c, up[c], server.partials)

\* How often a cookie can yet run out once it is one of the time window b.
Left(b) == (setting.windows + 1 - b) \div 2

\* The attempts that c's asking with the cookie ck may lose to time windows.
Cost(c, ck) == IF ValidCookie(c, ck) THEN Left(ck.bucket) ELSE 1 + Left(bucket)

\* The others of which the server can yet make something, besides the one it serves.
Ahead(c) == {d \in Clients \ {c} : ~Serving(d) /\ ~NoFirst(d, up[d], server.partials)}

\* The attempts that end while the server waits for the Confirm of another.
HalfOpen(c) == IF server.pc = "confirm" /\ server.peer # c THEN 3 - server.waited ELSE 0

Rest(c) == setting.attempts - client[c].attempt
              - 4 * Cardinality(Ahead(c)) - 2 * (setting.losses - lost) - HalfOpen(c)

Asked(c) == Coming(client[c].init, up[c], server.partials)

\* The timers that end before c is read again, when no answer is on its way.
Again(c) == IF Serving(c) THEN IF Asked(c) THEN 1 ELSE 2
            ELSE IF server.pc = "listen" /\ Asked(c) THEN 0 ELSE 1

Answering(c, m) == Coming(m, down[c], client[c].partials)

\* The attempt that a Challenge leads to, and another when the server does not listen.
Turn == IF server.pc = "listen" THEN 1 ELSE 2

Pays(c) ==
    /\ \A m : Answering(c, m) =>
          IF m.type = "Challenge" THEN Rest(c) >= Turn + Cost(c, m.cookie)
                                  ELSE Rest(c) >= Cost(c, client[c].init.cookie)
    /\ (\A m : ~Answering(c, m)) => Rest(c) >= Again(c) + Cost(c, client[c].init.cookie)

\* The clients take turns, and those that have verified a Response are past their handshake.
Turns ==
    /\ \A c, d \in Clients :
          /\ d < c /\ client[c].pc # "idle" => client[d].pc # "idle"
          /\ client[c].pc = "waiting" /\ client[d].pc # "idle" => d <= c
    /\ \A v \in verified : v[1] \in Clients /\ client[v[1]].pc \notin {"idle", "waiting"}

Bounds ==
    /\ server.pc # "up" /\ server.waited <= 3
    /\ lost <= setting.losses /\ bucket >= 1 /\ bucket <= setting.windows + 1
    /\ \A m \in DOMAIN server.partials : m.client \in Clients
    /\ server.pc = "confirm" => server.peer \in Clients

Budget == /\ Bounds
          /\ \A c \in Clients : Sparse(c)
          /\ \A c \in Clients : client[c].pc = "waiting" => Hearing(c) /\ Pays(c)

CalmBudget == Calm => Turns /\ (accepted = {} => Budget)

-----------------------------------------------------------------------------
(***************************************************************************)
(* The same for a channel that is read, cut short or added to.             *)
(***************************************************************************)
LEMMA FewLess ==
    ASSUME NEW c, NEW q, NEW r, NEW ps, NEW ns, NEW S,
           Len(q) \in Nat, Len(r) \in Nat, Suffix(r, q), Less(c, ns, ps), Few(c, q, ps, S)
    PROVE  Few(c, r, ns, S)
<1>1. PICK k \in 0 .. Len(q) : Len(r) = Len(q) - k /\ \A i \in 1 .. Len(r) : r[i] = q[i + k]
  BY DEF Suffix
<1>2. \A i \in 1 .. Len(r) : i + k \in 1 .. Len(q) /\ r[i] = q[i + k]
  BY <1>1
<1> QED  BY <1>2 DEF Few, Less

LEMMA FewAppend ==
    ASSUME setting.obf, NEW c, NEW q \in Seq(Fragments(Messages)), NEW ps, NEW S, NEW n, NEW x,
           Few(c, q, ps, S)
    PROVE  Few(c, q \o Datagrams(n, x), ps, S \cup {n})
<1> DEFINE r == q \o Datagrams(n, x)
<1>1. IsAppended(r, q, n)
  BY Appended
<1> HIDE DEF r
<1>2. \A i \in 1 .. Len(r) : (i \in 1 .. Len(q) /\ r[i] = q[i]) \/ r[i].msg = n
  <2> TAKE i \in 1 .. Len(r)
  <2>1. i \in 1 .. Len(q) \/ i > Len(q)
    BY <1>1 DEF IsAppended
  <2>2. i > Len(q) => r[i] = [id |-> n, part |-> i - Len(q), msg |-> n]
    BY <1>1 DEF IsAppended
  <2>3. i \in 1 .. Len(q) => r[i] = q[i]
    BY <1>1 DEF IsAppended
  <2> QED  BY <2>1, <2>2, <2>3
<1>3. Few(c, r, ps, S \cup {n})
  BY <1>2 DEF Few
<1> QED  BY <1>3 DEF r

\* The next fragment is taken to what is at hand.
LEMMA FewPush ==
    ASSUME NEW q \in Seq(Fragments(Messages)), q # <<>>, Tags(q), NEW ps \in Partials(Messages),
           NEW c, NEW S, Few(c, q, ps, S), NEW r,
           r = push_parts(ps, Head(q).id, Head(q).part, Head(q).msg)
    PROVE  Few(c, Tail(q), r.left, S)
<1> DEFINE m == Head(q).msg
           p == Head(q).part
<1>1. m \in MsgIds /\ p \in 1 .. FRAGS /\ m \in Messages
  BY FragmentType DEF MsgIds
<1>2. /\ \A i \in 1 .. Len(Tail(q)) : i + 1 \in 1 .. Len(q) /\ Tail(q)[i] = q[i + 1]
      /\ Head(q) = q[1] /\ 1 \in 1 .. Len(q)
  BY TailSuffix
<1>3. Head(q).id = m
  BY <1>2 DEF Tags
<1>4. r = push_parts(ps, m, p, m)
  BY <1>3
<1>5. m \in S
  BY <1>2 DEF Few
<1> HIDE DEF m, p
<1>6. \A k \in DOMAIN r.left : k # m => k \in DOMAIN ps
  BY <1>1, <1>4, PushEffect
<1> QED  BY <1>2, <1>5, <1>6 DEF Few

\* If there is room for it, then the same will be complete.
LEMMA ComingPush ==
    ASSUME NEW q \in Seq(Fragments(Messages)), q # <<>>, Tags(q), NEW ps \in Partials(Messages),
           NEW r, r = push_parts(ps, Head(q).id, Head(q).part, Head(q).msg), r.out = {},
           Head(q).msg \in DOMAIN ps \/ ~(Cardinality(DOMAIN ps) >= MAX_PENDING_MSGS), NEW m
    PROVE  Coming(m, Tail(q), r.left) <=> Coming(m, q, ps)
<1> DEFINE n == Head(q).msg
           p == Head(q).part
<1>1. n \in MsgIds /\ p \in 1 .. FRAGS /\ n \in Messages
  BY FragmentType DEF MsgIds
<1>2. /\ Len(Tail(q)) = Len(q) - 1 /\ Len(q) \in Nat /\ Len(q) > 0
      /\ \A i \in 1 .. Len(Tail(q)) : i + 1 \in 1 .. Len(q) /\ Tail(q)[i] = q[i + 1]
      /\ Head(q) = q[1] /\ 1 \in 1 .. Len(q) /\ Tail(q) \in Seq(Fragments(Messages))
  BY TailSuffix
<1>3. Head(q).id = n /\ q[1].msg = n /\ q[1].part = p
  BY <1>2 DEF Tags
<1>4. r = push_parts(ps, n, p, n)
  BY <1>3
<1>5. n \in DOMAIN ps \/ ~(Cardinality(DOMAIN ps) >= MAX_PENDING_MSGS)
  OBVIOUS
<1> HIDE DEF n, p
<1>6. /\ \A k \in DOMAIN ps : k # n => k \in DOMAIN r.left /\ r.left[k] = ps[k]
      /\ \A k \in DOMAIN r.left : k # n => k \in DOMAIN ps /\ r.left[k] = ps[k]
      /\ \A y : Has(r.left, n, y) <=> y = p \/ Has(ps, n, y)
      /\ \E y \in 1 .. FRAGS : ~Has(r.left, n, y)
  BY <1>1, <1>4, <1>5, PushEffect
<1>7. \A y : Has(r.left, m, y) <=> (m = n /\ y = p) \/ Has(ps, m, y)
  BY <1>6 DEF Has
<1>8. \A i \in 1 .. Len(q) : i = 1 \/ (i - 1 \in 1 .. Len(Tail(q)) /\ q[i] = Tail(q)[i - 1])
  <2> TAKE i \in 1 .. Len(q)
  <2>1. i # 1 => i - 1 \in 1 .. Len(Tail(q)) /\ (i - 1) + 1 = i
    BY <1>2
  <2> QED  BY <1>2, <2>1
<1>9. ASSUME Tail(q) # <<>> PROVE q[Len(q)] = Tail(q)[Len(Tail(q))]
  <2>1. Len(Tail(q)) \in 1 .. Len(Tail(q)) /\ Len(Tail(q)) + 1 = Len(q)
    BY <1>2, <1>9
  <2> QED  BY <1>2, <2>1
<1>10. ASSUME Coming(m, Tail(q), r.left) PROVE Coming(m, q, ps)
  <2>1. q[Len(q)].msg = m
    BY <1>9, <1>10 DEF Coming
  <2>2. ASSUME NEW y \in 1 .. FRAGS
        PROVE  (\E i \in 1 .. Len(q) : q[i].msg = m /\ q[i].part = y) \/ Has(ps, m, y)
    <3>1. CASE \E i \in 1 .. Len(Tail(q)) : Tail(q)[i].msg = m /\ Tail(q)[i].part = y
      BY <1>2, <3>1
    <3>2. CASE Has(r.left, m, y)
      BY <1>2, <1>3, <1>7, <3>2
    <3> QED  BY <1>10, <3>1, <3>2 DEF Coming
  <2> QED  BY <2>1, <2>2 DEF Coming
<1>11. ASSUME Coming(m, q, ps) PROVE Coming(m, Tail(q), r.left)
  <2>1. ASSUME NEW y \in 1 .. FRAGS
        PROVE  \/ \E i \in 1 .. Len(Tail(q)) : Tail(q)[i].msg = m /\ Tail(q)[i].part = y
               \/ Has(r.left, m, y)
    <3>1. CASE Has(ps, m, y)
      BY <1>7, <3>1
    <3>2. CASE \E i \in 1 .. Len(q) : q[i].msg = m /\ q[i].part = y
      <4>1. PICK i \in 1 .. Len(q) : q[i].msg = m /\ q[i].part = y
        BY <3>2
      <4>2. i = 1 => Has(r.left, m, y)
        BY <1>3, <1>7, <4>1
      <4> QED  BY <1>8, <4>1, <4>2
    <3> QED  BY <1>11, <3>1, <3>2 DEF Coming
  <2>2. Tail(q) # <<>>
    <3> SUFFICES ASSUME Tail(q) = <<>> PROVE FALSE
      OBVIOUS
    <3>1. Len(Tail(q)) = 0 /\ Len(q) = 1 /\ 1 .. Len(Tail(q)) = {}
      <4>1. Len(<<>>) = 0
        OBVIOUS
      <4>2. Len(Tail(q)) = 0
        BY <4>1
      <4>3. Len(q) = 1
        BY <1>2, <4>2
      <4>4. \A k : k = 0 => 1 .. k = {}
        OBVIOUS
      <4> QED  BY <4>2, <4>3, <4>4
    <3>2. m = n
      BY <1>3, <1>11, <3>1 DEF Coming
    <3> QED  BY <1>6, <2>1, <3>1, <3>2
  <2> QED  BY <1>9, <1>11, <2>1, <2>2 DEF Coming
<1> QED  BY <1>10, <1>11

\* What will be complete without the next fragment will be with it.
LEMMA ComingLess ==
    ASSUME NEW q \in Seq(Fragments(Messages)), q # <<>>, NEW ps, NEW m, Coming(m, Tail(q), ps)
    PROVE  Coming(m, q, ps)
<1>1. /\ Len(Tail(q)) = Len(q) - 1 /\ Len(q) \in Nat /\ Len(q) > 0
      /\ \A i \in 1 .. Len(Tail(q)) : i + 1 \in 1 .. Len(q) /\ Tail(q)[i] = q[i + 1]
      /\ Tail(q) \in Seq(Fragments(Messages))
  BY TailSuffix
<1>2. Len(Tail(q)) \in 1 .. Len(Tail(q)) /\ Len(Tail(q)) + 1 = Len(q)
  BY <1>1 DEF Coming
<1>3. q[Len(q)] = Tail(q)[Len(Tail(q))]
  BY <1>1, <1>2
<1> QED  BY <1>1, <1>3 DEF Coming

\* A message that is sent will be complete.
LEMMA ComingNew ==
    ASSUME setting.obf, NEW q \in Seq(Fragments(Messages)), NEW n, NEW x, NEW ps
    PROVE  Coming(n, q \o Datagrams(n, x), ps)
<1> DEFINE r == q \o Datagrams(n, x)
<1>1. IsAppended(r, q, n) /\ FRAGS = 3
  BY Appended, ConstantTypes
<1> HIDE DEF r
<1>2. Len(r) = Len(q) + FRAGS /\ Len(q) \in Nat /\ r # <<>>
  BY <1>1 DEF IsAppended
<1>3. \A p \in 1 .. FRAGS : /\ Len(q) + p \in 1 .. Len(r)
                          /\ r[Len(q) + p] = [id |-> n, part |-> p, msg |-> n]
  BY <1>1, <1>2 DEF IsAppended
<1>4. r[Len(r)].msg = n
  BY <1>1, <1>2, <1>3
<1>5. \A p \in 1 .. FRAGS : \E i \in 1 .. Len(r) : r[i].msg = n /\ r[i].part = p
  <2> TAKE p \in 1 .. FRAGS
  <2>1. Len(q) + p \in 1 .. Len(r)
    BY <1>3
  <2>2. r[Len(q) + p] = [id |-> n, part |-> p, msg |-> n]
    BY <1>3
  <2> QED  BY <2>1, <2>2
<1>6. Coming(n, r, ps)
  BY <1>2, <1>4, <1>5 DEF Coming
<1> QED  BY <1>6 DEF r

-----------------------------------------------------------------------------
(***************************************************************************)
(* Counting.                                                               *)
(***************************************************************************)
LEMMA ImageOf ==
    ASSUME NEW S, IsFiniteSet(S), NEW f
    PROVE  /\ IsFiniteSet({f[x] : x \in S})
           /\ Cardinality({f[x] : x \in S}) <= Cardinality(S)
<1> DEFINE T == {f[x] : x \in S}
           g == [x \in S |-> f[x]]
<1>1. g \in Surjection(S, T)
  BY DEF Surjection
<1> QED  BY <1>1, FS_Surjection

LEMMA Fewer ==
    ASSUME NEW S, IsFiniteSet(S), NEW T, T \subseteq S
    PROVE  /\ Cardinality(S) \in Nat /\ Cardinality(T) \in Nat
           /\ Cardinality(T) <= Cardinality(S)
           /\ \A x \in S : x \notin T => Cardinality(T) <= Cardinality(S) - 1
<1>1. IsFiniteSet(T) /\ Cardinality(T) <= Cardinality(S)
  BY FS_Subset
<1>2. Cardinality(S) \in Nat /\ Cardinality(T) \in Nat
  BY <1>1, FS_CardinalityType
<1>3. ASSUME NEW x \in S, x \notin T PROVE Cardinality(T) <= Cardinality(S) - 1
  <2>1. IsFiniteSet(S \ {x}) /\ Cardinality(S \ {x}) = Cardinality(S) - 1
    BY FS_RemoveElement
  <2>2. T \subseteq S \ {x}
    BY <1>3
  <2> QED  BY <2>1, <2>2, FS_Subset
<1> QED  BY <1>1, <1>2, <1>3

\* With two messages of each client at most, the next fragment finds room.
LEMMA Room ==
    ASSUME Enough, NEW ps, \A m \in DOMAIN ps : m.client \in Clients,
           \A d \in Clients : \E x, y : Few(d, up[d], ps, {x, y}),
           NEW c \in Clients, NEW i \in 1 .. Len(up[c])
    PROVE  up[c][i].msg \in DOMAIN ps \/ ~(Cardinality(DOMAIN ps) >= MAX_PENDING_MSGS)
<1> DEFINE m == up[c][i].msg
           f == [d \in Clients |-> CHOOSE x : \E y : Few(d, up[d], ps, {x, y})]
           g == [d \in Clients |-> CHOOSE y : Few(d, up[d], ps, {f[d], y})]
           T == {f[d] : d \in Clients}
           U == {g[d] : d \in Clients}
<1>1. \A d \in Clients : \E y : Few(d, up[d], ps, {f[d], y})
  OBVIOUS
<1> HIDE DEF f
<1>2. \A d \in Clients : Few(d, up[d], ps, {f[d], g[d]})
  BY <1>1
<1> HIDE DEF g
<1>3. DOMAIN ps \cup {m} \subseteq T \cup U
  BY <1>2 DEF Few
<1>4. /\ IsFiniteSet(T) /\ Cardinality(T) <= Cardinality(Clients)
      /\ IsFiniteSet(U) /\ Cardinality(U) <= Cardinality(Clients)
  BY ImageOf DEF Enough
<1>5. IsFiniteSet(T \cup U) /\ Cardinality(T \cup U) <= 2 * Cardinality(Clients)
  <2>1. /\ IsFiniteSet(T \cup U) /\ IsFiniteSet(T \cap U)
        /\ Cardinality(T \cup U) = Cardinality(T) + Cardinality(U) - Cardinality(T \cap U)
    BY <1>4, FS_Union, FS_Subset
  <2>2. /\ Cardinality(T) \in Nat /\ Cardinality(U) \in Nat /\ Cardinality(T \cap U) \in Nat
        /\ Cardinality(Clients) \in Nat
    BY <1>4, <2>1, FS_CardinalityType DEF Enough
  <2> QED  BY <1>4, <2>1, <2>2
<1> HIDE DEF T, U, m
<1>6. IsFiniteSet(DOMAIN ps \cup {m}) /\ Cardinality(DOMAIN ps \cup {m}) <= 2 * Cardinality(Clients)
  <2>1. IsFiniteSet(DOMAIN ps \cup {m}) /\ Cardinality(DOMAIN ps \cup {m}) <= Cardinality(T \cup U)
    BY <1>3, <1>5, FS_Subset
  <2>2. /\ Cardinality(DOMAIN ps \cup {m}) \in Nat /\ Cardinality(T \cup U) \in Nat
        /\ Cardinality(Clients) \in Nat
    BY <1>5, <2>1, FS_CardinalityType DEF Enough
  <2> QED  BY <1>5, <2>1, <2>2
<1>7. m \notin DOMAIN ps => Cardinality(DOMAIN ps) <= Cardinality(DOMAIN ps \cup {m}) - 1
  BY <1>6, Fewer
<1>8. Cardinality(DOMAIN ps) \in Nat /\ Cardinality(DOMAIN ps \cup {m}) \in Nat
      /\ Cardinality(Clients) \in Nat
  BY <1>6, Fewer, FS_CardinalityType DEF Enough
<1>9. MAX_PENDING_MSGS >= 2 * Cardinality(Clients) /\ MAX_PENDING_MSGS \in Nat
  BY ConstantTypes DEF Enough
<1>10. m \notin DOMAIN ps => ~(Cardinality(DOMAIN ps) >= MAX_PENDING_MSGS)
  BY <1>6, <1>7, <1>8, <1>9
<1> QED  BY <1>10 DEF m

\* How many are ahead, and what a step takes from them.
LEMMA AheadCount ==
    ASSUME Enough, NEW c \in Clients
    PROVE  /\ IsFiniteSet(Ahead(c)) /\ Cardinality(Ahead(c)) \in Nat /\ Cardinality(Clients) \in Nat
           /\ Cardinality(Ahead(c)) <= Cardinality(Clients) - 1
           /\ \A p \in Clients : p # c /\ p \notin Ahead(c) =>
                 Cardinality(Ahead(c)) <= Cardinality(Clients) - 2
<1>1. IsFiniteSet(Clients) /\ IsFiniteSet(Clients \ {c})
  BY FS_RemoveElement DEF Enough
<1>2. Ahead(c) \subseteq Clients \ {c}
  BY DEF Ahead
<1>3. /\ Cardinality(Clients) \in Nat /\ Cardinality(Clients \ {c}) \in Nat
      /\ Cardinality(Clients \ {c}) = Cardinality(Clients) - 1
  BY <1>1, FS_RemoveElement, FS_CardinalityType
<1>4. /\ Cardinality(Ahead(c)) \in Nat
      /\ Cardinality(Ahead(c)) <= Cardinality(Clients \ {c})
      /\ \A p \in Clients \ {c} : p \notin Ahead(c) =>
            Cardinality(Ahead(c)) <= Cardinality(Clients \ {c}) - 1
  BY <1>1, <1>2, Fewer
<1>5. IsFiniteSet(Ahead(c))
  BY <1>1, <1>2, FS_Subset
<1> HIDE DEF Ahead
<1>6. ASSUME NEW p \in Clients, p # c, p \notin Ahead(c)
      PROVE  Cardinality(Ahead(c)) <= Cardinality(Clients) - 2
  <2>1. Cardinality(Ahead(c)) <= Cardinality(Clients \ {c}) - 1
    BY <1>4, <1>6
  <2> QED  BY <1>3, <1>4, <2>1
<1> QED  BY <1>3, <1>4, <1>5, <1>6

LEMMA AheadLess ==
    ASSUME Enough, NEW c \in Clients,
           \A d \in Clients : d # c /\ d \in Ahead(c)' => d \in Ahead(c)
    PROVE  /\ Cardinality(Ahead(c)') \in Nat /\ Cardinality(Ahead(c)) \in Nat
           /\ Cardinality(Ahead(c)') <= Cardinality(Ahead(c))
           /\ \A d \in Ahead(c) : d \notin Ahead(c)' =>
                 Cardinality(Ahead(c)') <= Cardinality(Ahead(c)) - 1
<1>1. Ahead(c)' \subseteq Ahead(c)
  BY DEF Ahead
<1>2. IsFiniteSet(Ahead(c))
  BY AheadCount
<1> QED  BY <1>1, <1>2, Fewer

\* What a cookie costs, and that the end of a time window only makes it cheaper.
LEMMA LeftType ==
    ASSUME setting.windows \in Nat, NEW b \in Nat
    PROVE  /\ Left(b) \in Int /\ Left(b + 1) \in Int
           /\ Left(b + 1) <= Left(b) /\ Left(b) <= Left(b + 1) + 1
           /\ Left(b) = Left(b + 2) + 1
           /\ b <= setting.windows + 1 => Left(b) >= 0
           /\ b >= 1 => Left(b) <= setting.windows \div 2
BY DEF Left

LEMMA CostBounds ==
    ASSUME IInv, NEW c, NEW ck \in Cookies
    PROVE  /\ Left(bucket) \in Int /\ Cost(c, ck) \in Int
           /\ Left(bucket) <= Cost(c, ck) /\ Cost(c, ck) <= Left(bucket) + 1
<1>1. setting.windows \in Nat /\ bucket \in Nat
  BY HandshakeAssumption DEF IInv, TypeOK
<1>2. ck.bucket \in Nat
  BY DEF Cookies
<1>3. Left(bucket) \in Int
  BY <1>1, LeftType
<1>4. CASE ~ValidCookie(c, ck)
  BY <1>3, <1>4 DEF Cost
<1>5. CASE ValidCookie(c, ck)
  <2>1. ck.bucket = bucket \/ ck.bucket = bucket - 1
    BY <1>5 DEF ValidCookie
  <2>2. Cost(c, ck) = Left(ck.bucket)
    BY <1>5 DEF Cost
  <2>3. ck.bucket = bucket - 1 => bucket = ck.bucket + 1
    BY <1>1, <1>2
  <2>4. /\ Left(ck.bucket) \in Int /\ Left(ck.bucket + 1) \in Int
        /\ Left(ck.bucket + 1) <= Left(ck.bucket) /\ Left(ck.bucket) <= Left(ck.bucket + 1) + 1
    BY <1>1, <1>2, LeftType
  <2> QED  BY <1>3, <2>1, <2>2, <2>3, <2>4
<1> QED  BY <1>3, <1>4, <1>5

LEMMA CostWindow ==
    ASSUME IInv, UNCHANGED <<setting, secret>>, bucket' = bucket + 1, NEW c, NEW ck \in Cookies
    PROVE  /\ Cost(c, ck)' \in Int /\ Cost(c, ck) \in Int
           /\ Cost(c, ck)' <= Cost(c, ck)
<1>1. setting.windows \in Nat /\ bucket \in Nat /\ bucket + 1 \in Nat /\ bucket' \in Nat
  BY HandshakeAssumption DEF IInv, TypeOK
<1>2. ck.bucket \in Nat
  BY DEF Cookies
<1>3. \A b : Left(b)' = Left(b)
  BY DEF Left
<1>4. Left(bucket)' = Left(bucket + 1)
  BY DEF Left
<1>5. /\ Left(bucket) \in Int /\ Left(bucket + 1) \in Int /\ Left(bucket + 1) <= Left(bucket)
      /\ Left(bucket) <= Left(bucket + 1) + 1
      /\ Left(ck.bucket) \in Int
      /\ Left(ck.bucket) = Left(ck.bucket + 2) + 1
      /\ Left(ck.bucket + 1) <= Left(ck.bucket)
      /\ Left(ck.bucket + 1) \in Int
  BY <1>1, <1>2, LeftType
<1>6. /\ ValidCookie(c, ck) => ck.bucket = bucket \/ ck.bucket = bucket - 1
      /\ ValidCookie(c, ck)' => ck.bucket = bucket + 1 \/ ck.bucket = bucket
      /\ ValidCookie(c, ck) /\ ck.bucket = bucket => ValidCookie(c, ck)'
  BY <1>1, <1>2 DEF ValidCookie
<1>7. Cost(c, ck)' = IF ValidCookie(c, ck)' THEN Left(ck.bucket) ELSE 1 + Left(bucket + 1)
  BY <1>4 DEF Cost, Left
<1>8. CASE ValidCookie(c, ck)
  <2>1. CASE ck.bucket = bucket
    BY <1>5, <1>6, <1>7, <1>8, <2>1 DEF Cost
  <2>2. CASE ck.bucket = bucket - 1 /\ ck.bucket # bucket
    <3>1. ~ValidCookie(c, ck)' /\ bucket + 1 = ck.bucket + 2
      BY <1>1, <1>2, <1>6, <2>2
    <3> QED  BY <1>5, <1>7, <1>8, <3>1 DEF Cost
  <2> QED  BY <1>6, <1>8, <2>1, <2>2
<1>9. CASE ~ValidCookie(c, ck)
  <2>1. CASE ValidCookie(c, ck)'
    <3>1. ck.bucket = bucket + 1 \/ ck.bucket = bucket
      BY <1>6, <2>1
    <3> QED  BY <1>5, <1>7, <1>9, <2>1, <3>1 DEF Cost
  <2>2. CASE ~ValidCookie(c, ck)'
    BY <1>5, <1>7, <1>9, <2>2 DEF Cost
  <2> QED  BY <2>1, <2>2
<1> QED  BY <1>8, <1>9

\* What the numbers are.
Numbers(c) ==
    /\ Rest(c) \in Int /\ HalfOpen(c) \in 0 .. 3 /\ Again(c) \in 0 .. 2 /\ Turn \in 1 .. 2
    /\ setting.attempts \in Nat /\ setting.losses \in Nat /\ setting.windows \in Nat
    /\ client[c].attempt \in Nat /\ lost \in Nat /\ server.waited \in Nat
    /\ Cardinality(Ahead(c)) \in Nat

LEMMA NumbersAre == Enough /\ IInv /\ Bounds => \A c \in Clients : Numbers(c)
<1> SUFFICES ASSUME Enough, IInv, Bounds, NEW c \in Clients PROVE Numbers(c)
  OBVIOUS
<1>1. /\ setting.attempts \in Nat /\ setting.losses \in Nat /\ setting.windows \in Nat
      /\ client[c].attempt \in Nat /\ lost \in Nat /\ server.waited \in Nat
  BY HandshakeAssumption DEF IInv, TypeOK, ClientStates, ServerStates
<1>2. Cardinality(Ahead(c)) \in Nat
  BY AheadCount
<1>3. HalfOpen(c) \in 0 .. 3
  BY <1>1 DEF HalfOpen, Bounds
<1>4. Again(c) \in 0 .. 2 /\ Turn \in 1 .. 2
  BY DEF Again, Turn
<1>5. Rest(c) \in Int
  BY <1>1, <1>2, <1>3 DEF Rest
<1> QED  BY <1>1, <1>2, <1>3, <1>4, <1>5 DEF Numbers

LEMMA NumbersPrimed == (Enough /\ IInv /\ Bounds => \A c \in Clients : Numbers(c))'
BY NumbersAre, PTL

LEMMA NumbersNext ==
    ASSUME Enough, IInv', Bounds', NEW c \in Clients
    PROVE  Numbers(c)'
<1>1. Enough'
  BY DEF Enough
<1> QED  BY <1>1, NumbersPrimed

\* c's own part in it does not change, and the k attempts that it now needs are freed.
LEMMA PaysKept ==
    ASSUME Enough, IInv, IInv', Bounds, Bounds', NEW c \in Clients, Pays(c),
           client'[c] = client[c], down'[c] = down[c], UNCHANGED <<setting, secret, bucket>>,
           client[c].pc = "waiting",
           NEW k \in Nat, Rest(c)' >= Rest(c) + k, Again(c)' <= Again(c) + k, Turn' <= Turn + k
    PROVE  Pays(c)'
<1>1. \A m : Answering(c, m)' <=> Answering(c, m)
  BY DEF Answering
<1>2. \A ck : Cost(c, ck)' = Cost(c, ck)
  BY DEF Cost, ValidCookie, Left
<1>3. Rest(c) \in Int /\ Again(c) \in Int /\ Turn \in Int
  BY NumbersAre DEF Numbers
<1>4. Rest(c)' \in Int /\ Again(c)' \in Int /\ Turn' \in Int
  BY NumbersNext DEF Numbers
<1>5. client[c].init \in Messages /\ client[c].init.cookie \in Cookies
  BY DEF IInv, TypeOK, ClientStates, Messages
<1>6. Cost(c, client[c].init.cookie) \in Int
  BY <1>5, CostBounds
<1>7. ASSUME NEW m, Answering(c, m)
      PROVE  Cost(c, m.cookie) \in Int
  <2>1. down[c] \in Seq(Fragments(Messages)) /\ down[c] # <<>> /\ m = down[c][Len(down[c])].msg
    BY <1>7 DEF IInv, TypeOK, Answering, Coming
  <2>2. Len(down[c]) \in 1 .. Len(down[c])
    BY <2>1
  <2>3. down[c][Len(down[c])] \in Fragments(Messages)
    BY <2>1, <2>2
  <2>4. m.cookie \in Cookies
    BY <2>1, <2>3 DEF Fragments, Messages
  <2> QED  BY <2>4, CostBounds
<1>8. ASSUME NEW m, Answering(c, m)
      PROVE  IF m.type = "Challenge" THEN Rest(c)' >= Turn' + Cost(c, m.cookie)
                                     ELSE Rest(c)' >= Cost(c, client[c].init.cookie)
  <2>1. IF m.type = "Challenge" THEN Rest(c) >= Turn + Cost(c, m.cookie)
                                ELSE Rest(c) >= Cost(c, client[c].init.cookie)
    BY <1>8 DEF Pays
  <2> QED  BY <1>3, <1>4, <1>6, <1>7, <1>8, <2>1
<1>9. ASSUME \A m : ~Answering(c, m)
      PROVE  Rest(c)' >= Again(c)' + Cost(c, client[c].init.cookie)
  <2>1. Rest(c) >= Again(c) + Cost(c, client[c].init.cookie)
    BY <1>9 DEF Pays
  <2> QED  BY <1>3, <1>4, <1>6, <2>1
<1> QED  BY <1>1, <1>2, <1>8, <1>9 DEF Pays

\* What a step adds to the rest of c, when it puts no other ahead of it.
LEMMA RestChange ==
    ASSUME Enough, IInv, IInv', Bounds, Bounds', NEW c \in Clients, UNCHANGED setting,
           \A d \in Clients : d # c /\ d \in Ahead(c)' => d \in Ahead(c)
    PROVE  LET more == (client[c].attempt - client'[c].attempt) + 2 * (lost' - lost)
                          + (HalfOpen(c) - HalfOpen(c)')
           IN /\ Rest(c)' >= Rest(c) + more
              /\ \A d \in Ahead(c) : d \notin Ahead(c)' => Rest(c)' >= Rest(c) + more + 4
<1>1. Numbers(c) /\ Numbers(c)'
  BY NumbersAre, NumbersNext
<1>2. /\ Cardinality(Ahead(c)') \in Nat /\ Cardinality(Ahead(c)) \in Nat
      /\ Cardinality(Ahead(c)') <= Cardinality(Ahead(c))
      /\ \A d \in Ahead(c) : d \notin Ahead(c)' =>
            Cardinality(Ahead(c)') <= Cardinality(Ahead(c)) - 1
  BY AheadLess
<1>3. /\ HalfOpen(c) \in Int /\ HalfOpen(c)' \in Int
      /\ setting.attempts \in Nat /\ setting.losses \in Nat
      /\ client[c].attempt \in Nat /\ lost \in Nat /\ client'[c].attempt \in Nat /\ lost' \in Nat
  BY <1>1 DEF Numbers
<1>4. /\ Rest(c) = setting.attempts - client[c].attempt
              - 4 * Cardinality(Ahead(c)) - 2 * (setting.losses - lost) - HalfOpen(c)
      /\ Rest(c)' = setting.attempts - client'[c].attempt
              - 4 * Cardinality(Ahead(c)') - 2 * (setting.losses - lost') - HalfOpen(c)'
  BY DEF Rest
<1> DEFINE more == (client[c].attempt - client'[c].attempt) + 2 * (lost' - lost)
                      + (HalfOpen(c) - HalfOpen(c)')
<1>5. Rest(c)' >= Rest(c) + more
  BY <1>2, <1>3, <1>4
<1>6. ASSUME NEW d \in Ahead(c), d \notin Ahead(c)' PROVE Rest(c)' >= Rest(c) + more + 4
  <2>1. Cardinality(Ahead(c)') <= Cardinality(Ahead(c)) - 1
    BY <1>2, <1>6
  <2> QED  BY <1>2, <1>3, <1>4, <2>1
<1> QED  BY <1>5, <1>6

-----------------------------------------------------------------------------
(***************************************************************************)
(* Turns, and that a client that fails later than another got in is behind *)
(* it.                                                                     *)
(***************************************************************************)
LEMMA Alone ==
    ASSUME Turns, NEW c \in Clients, NEW d \in Clients,
           client[c].pc = "waiting", client[d].pc = "waiting"
    PROVE  c = d
<1>1. c \in Nat /\ d \in Nat /\ d <= c /\ c <= d
  BY ConstantTypes DEF Turns
<1> QED  BY <1>1

LEMMA TurnsClient ==
    ASSUME IInv, Turns, NEW c \in Clients, NEW r, client' = [client EXCEPT ![c] = r],
           client[c].pc # "idle", r.pc # "idle", r.pc = "waiting" => client[c].pc = "waiting",
           NEW s, \/ verified' = verified
                  \/ verified' = verified \cup {<<c, s>>} /\ r.pc # "waiting"
    PROVE  Turns'
<1>1. \A d \in Clients : client'[d] = IF d = c THEN r ELSE client[d]
  BY DEF IInv, TypeOK
<1>2. \A d \in Clients : /\ client'[d].pc = "idle" <=> client[d].pc = "idle"
                         /\ client'[d].pc = "waiting" => client[d].pc = "waiting"
  BY <1>1
<1>3. \A d, e \in Clients :
         /\ e < d /\ client'[d].pc # "idle" => client'[e].pc # "idle"
         /\ client'[d].pc = "waiting" /\ client'[e].pc # "idle" => e <= d
  BY <1>2 DEF Turns
<1>4. ASSUME NEW v \in verified' PROVE v[1] \in Clients /\ client'[v[1]].pc \notin {"idle", "waiting"}
  <2>1. CASE v \in verified
    <3>1. v[1] \in Clients /\ client[v[1]].pc \notin {"idle", "waiting"}
      BY <2>1 DEF Turns
    <3> QED  BY <1>2, <3>1
  <2>2. CASE v \notin verified
    <3>1. v = <<c, s>> /\ r.pc # "waiting"
      BY <1>4, <2>2
    <3> QED  BY <1>1, <3>1
  <2> QED  BY <2>1, <2>2
<1> QED  BY <1>3, <1>4 DEF Turns

LEMMA TurnsStart ==
    ASSUME IInv, Turns, NEW c \in Clients, Start(c)
    PROVE  Turns'
<1> DEFINE m == Message("Init", c, 1, None, NoCookie, None)
           r == [Idle EXCEPT !.pc = "waiting", !.attempt = 1, !.init = m]
<1>1. /\ client[c].pc = "idle" /\ Waiting = {}
      /\ \A d \in Clients : d < c => client[d].pc # "idle"
      /\ client' = [client EXCEPT ![c] = r] /\ verified' = verified
  BY DEF Start
<1>2. r.pc = "waiting"
  BY DEF Idle
<1> HIDE DEF r
<1>3. \A d \in Clients : client'[d] = IF d = c THEN r ELSE client[d]
  BY <1>1 DEF IInv, TypeOK
<1>4. \A d \in Clients : d \in Nat
  BY ConstantTypes
<1>5. ASSUME NEW d \in Clients, NEW e \in Clients, e < d, client'[d].pc # "idle"
      PROVE  client'[e].pc # "idle"
  BY <1>1, <1>2, <1>3, <1>4, <1>5 DEF Turns
<1>6. ASSUME NEW d \in Clients, NEW e \in Clients, client'[d].pc = "waiting", client'[e].pc # "idle"
      PROVE  e <= d
  <2>1. d = c
    BY <1>1, <1>3, <1>6 DEF Waiting
  <2>2. CASE e = c
    BY <1>4, <2>1, <2>2
  <2>3. CASE e # c
    <3>1. client[e].pc # "idle"
      BY <1>3, <1>6, <2>3
    <3>2. ~(c < e)
      BY <1>1, <3>1 DEF Turns
    <3> QED  BY <1>4, <2>1, <3>2
  <2> QED  BY <2>2, <2>3
<1>7. \A v \in verified' : v[1] \in Clients /\ client'[v[1]].pc \notin {"idle", "waiting"}
  BY <1>1, <1>3 DEF Turns
<1> QED  BY <1>5, <1>6, <1>7 DEF Turns

LEMMA TurnsNext ==
    ASSUME IInv, Turns, [Next]_vars
    PROVE  Turns'
<1>1. ASSUME NEW c \in Clients, client[c].pc = "waiting", NEW m, NEW rest, NextAttempt(c, m, rest),
             verified' = verified
      PROVE  Turns'
  <2> DEFINE r == [client[c] EXCEPT !.attempt = @ + 1, !.init = m, !.partials = NoPartials]
  <2>1. CASE client' = [client EXCEPT ![c] = r]
    <3>1. r.pc = "waiting"
      BY <1>1 DEF IInv, TypeOK, ClientStates
    <3> HIDE DEF r
    <3> QED  BY <1>1, <2>1, <3>1, TurnsClient
  <2>2. CASE client' = [client EXCEPT ![c] = [Idle EXCEPT !.pc = "failed"]]
    <3>1. [Idle EXCEPT !.pc = "failed"].pc = "failed"
      BY DEF Idle
    <3> QED  BY <1>1, <2>2, <3>1, TurnsClient
  <2> QED  BY <1>1, <2>1, <2>2 DEF NextAttempt
<1>2. ASSUME NEW c \in Clients, ClientReceive(c) PROVE Turns'
  <2> DEFINE ps == client[c].partials
             r == push_parts(ps, Head(down[c]).id, Head(down[c]).part, Head(down[c]).msg)
  <2>1. /\ client[c].pc = "waiting"
        /\ \/ client' = [client EXCEPT ![c].partials = r.left] /\ verified' = verified
           \/ \E m, rest : NextAttempt(c, m, rest) /\ verified' = verified
           \/ \E m : /\ client' = [client EXCEPT ![c] = [Idle EXCEPT !.pc = "up", !.sess = m.sess]]
                     /\ verified' = verified \cup {<<c, m.sess>>}
           \/ /\ client' = [client EXCEPT ![c] = [Idle EXCEPT !.pc = "failed"]]
              /\ verified' = verified
    BY <1>2 DEF ClientReceive
  <2> HIDE DEF r
  <2>2. CASE client' = [client EXCEPT ![c].partials = r.left] /\ verified' = verified
    <3> DEFINE s == [client[c] EXCEPT !.partials = r.left]
    <3>1. client' = [client EXCEPT ![c] = s]
      BY <2>2 DEF IInv, TypeOK
    <3>2. s.pc = "waiting"
      BY <2>1 DEF IInv, TypeOK, ClientStates
    <3> HIDE DEF s
    <3> QED  BY <2>1, <2>2, <3>1, <3>2, TurnsClient
  <2>3. CASE \E m : /\ client' = [client EXCEPT ![c] = [Idle EXCEPT !.pc = "up", !.sess = m.sess]]
                    /\ verified' = verified \cup {<<c, m.sess>>}
    <3>1. PICK m : /\ client' = [client EXCEPT ![c] = [Idle EXCEPT !.pc = "up", !.sess = m.sess]]
                   /\ verified' = verified \cup {<<c, m.sess>>}
      BY <2>3
    <3> DEFINE s == [Idle EXCEPT !.pc = "up", !.sess = m.sess]
    <3>2. s.pc = "up"
      BY DEF Idle
    <3> HIDE DEF s
    <3>3. client' = [client EXCEPT ![c] = s]
      BY <3>1 DEF s
    <3> QED  BY <2>1, <3>1, <3>2, <3>3, TurnsClient
  <2>4. CASE client' = [client EXCEPT ![c] = [Idle EXCEPT !.pc = "failed"]] /\ verified' = verified
    <3>1. [Idle EXCEPT !.pc = "failed"].pc = "failed"
      BY DEF Idle
    <3> QED  BY <2>1, <2>4, <3>1, TurnsClient
  <2> QED  BY <1>1, <2>1, <2>2, <2>3, <2>4
<1>3. ASSUME NEW c \in Clients, AttemptTimeout(c) PROVE Turns'
  BY <1>1, <1>3 DEF AttemptTimeout
<1>4. ASSUME NEW c \in Clients, Leave(c) PROVE Turns'
  <2>1. [Idle EXCEPT !.pc = "gone"].pc = "gone"
    BY DEF Idle
  <2> QED  BY <1>4, <2>1, TurnsClient DEF Leave
<1>5. CASE UNCHANGED <<client, verified>>
  BY <1>5 DEF Turns
<1>6. ASSUME NEW c \in Clients, Lose(c) PROVE UNCHANGED <<client, verified>>
  BY <1>6 DEF Lose
<1>7. ASSUME ServerStep PROVE UNCHANGED <<client, verified>>
  BY <1>7 DEF ServerStep, ListenReceive, ConfirmReceive, TunnelReceive, ConfirmTimeout
<1>8. ASSUME SocketError \/ TunnelEnds \/ Prune \/ NextWindow \/ UNCHANGED vars
      PROVE  UNCHANGED <<client, verified>>
  BY <1>8 DEF SocketError, TunnelEnds, Prune, NextWindow, vars
<1> QED  BY <1>2, <1>3, <1>4, <1>5, <1>6, <1>7, <1>8, TurnsStart DEF Next, ClientStep

LEMMA LateFailure ==
    ASSUME IInv, Turns, accepted # {}, NEW c \in Clients, client[c].pc = "waiting"
    PROVE  \E a \in accepted : a[1] < c
<1>1. PICK a \in accepted : a \in verified
  BY DEF IInv, MutuallyVerified
<1>2. a[1] \in Clients /\ client[a[1]].pc \notin {"idle", "waiting"}
  BY <1>1 DEF Turns
<1>3. a[1] <= c /\ a[1] # c /\ a[1] \in Nat /\ c \in Nat
  BY <1>2, ConstantTypes DEF Turns
<1> QED  BY <1>3

-----------------------------------------------------------------------------
(***************************************************************************)
(* Steps that only take from what is on the way from the clients, and from *)
(* what the server has of them.                                            *)
(***************************************************************************)
Thins(d) ==
    /\ \A S : Few(d, up[d], server.partials, S) => Few(d, up'[d], server'.partials, S)
    /\ \A B, a : Clean(d, up[d], server.partials, B, a) => Clean(d, up'[d], server'.partials, B, a)
    /\ NoFirst(d, up[d], server.partials) => NoFirst(d, up'[d], server'.partials)

LEMMA ThinsLess ==
    ASSUME IInv, IInv', NEW d \in Clients, Suffix(up'[d], up[d]),
           Less(d, server'.partials, server.partials)
    PROVE  Thins(d)
<1>1. Len(up[d]) \in Nat /\ Len(up'[d]) \in Nat
  BY DEF IInv, TypeOK
<1> QED  BY <1>1, FewLess, CleanLess DEF Thins

\* The server reads a fragment of c's, and keeps what that makes of the parts it has, or nothing.
LEMMA ThinsReads ==
    ASSUME IInv, IInv', CInv, NEW c \in Clients, up[c] # <<>>,
           up' = [up EXCEPT ![c] = Tail(up[c])],
           server'.partials \in
               {push_parts(server.partials, Head(up[c]).id, Head(up[c]).part, Head(up[c]).msg).left,
                server.partials, NoPartials}
    PROVE  \A d \in Clients : Thins(d)
<1> DEFINE q == up[c]
           r == push_parts(server.partials, Head(q).id, Head(q).part, Head(q).msg)
<1>1. /\ q \in Seq(Fragments(Messages)) /\ server.partials \in Partials(Messages)
      /\ Tags(q) /\ Suffix(Tail(q), q) /\ Head(q).msg.client = c
      /\ \A d \in Clients : d # c => Less(d, r.left, server.partials)
  BY Reads
<1>2. \A d \in Clients : up'[d] = IF d = c THEN Tail(q) ELSE up[d]
  BY DEF IInv, TypeOK
<1>3. \A d \in Clients : Suffix(up'[d], up[d])
  <2> TAKE d \in Clients
  <2>1. up[d] \in Seq(Fragments(Messages))
    BY DEF IInv, TypeOK
  <2> QED  BY <1>1, <1>2, <2>1, SuffixKept
<1>4. server'.partials \in {r.left, server.partials, NoPartials}
  OBVIOUS
<1>5. r = push_parts(server.partials, Head(q).id, Head(q).part, Head(q).msg) /\ q # <<>>
  OBVIOUS
<1> HIDE DEF q, r
<1>6. \A d \in Clients : /\ Less(d, server.partials, server.partials)
                        /\ Less(d, NoPartials, server.partials)
  BY DEF Less, NoPartials
<1>7. ASSUME server'.partials = r.left PROVE Thins(c)
  <2>1. \A B, a : /\ Clean(c, q, server.partials, B, a) => Clean(c, Tail(q), r.left, B, a)
                  /\ NoFirst(c, q, server.partials) => NoFirst(c, Tail(q), r.left)
    BY <1>1, <1>5, CleanPush
  <2>2. \A S : Few(c, q, server.partials, S) => Few(c, Tail(q), r.left, S)
    BY <1>1, <1>5, FewPush
  <2> QED  BY <1>2, <1>7, <2>1, <2>2 DEF Thins, q
<1> TAKE d \in Clients
<1>8. CASE Less(d, server'.partials, server.partials)
  BY <1>3, <1>8, ThinsLess
<1>9. Less(d, server'.partials, server.partials) \/ (d = c /\ server'.partials = r.left)
  BY <1>1, <1>4, <1>6
<1> QED  BY <1>7, <1>8, <1>9

\* The next fragment of c's finds room.
LEMMA RoomFor ==
    ASSUME Enough, IInv, Budget, NEW c \in Clients, up[c] # <<>>
    PROVE  \/ Head(up[c]).msg \in DOMAIN server.partials
           \/ ~(Cardinality(DOMAIN server.partials) >= MAX_PENDING_MSGS)
<1>1. Head(up[c]) = up[c][1] /\ 1 \in 1 .. Len(up[c])
  BY TailSuffix DEF IInv, TypeOK
<1>2. /\ \A m \in DOMAIN server.partials : m.client \in Clients
      /\ \A d \in Clients : \E x, y : Few(d, up[d], server.partials, {x, y})
  BY DEF Budget, Bounds, Sparse
<1> QED  BY <1>1, <1>2, Room

\* What becomes complete, and that nothing of its client's does after it.
LEMMA Completes ==
    ASSUME IInv, CInv, Budget, NEW c \in Clients, up[c] # <<>>,
           up' = [up EXCEPT ![c] = Tail(up[c])],
           push_parts(server.partials, Head(up[c]).id, Head(up[c]).part, Head(up[c]).msg).out # {}
    PROVE  /\ ~NoFirst(c, up[c], server.partials)
           /\ NoFirst(c, up'[c], NoPartials)
           /\ client[c].pc = "waiting" =>
                 /\ Head(up[c]).msg = client[c].init
                 /\ Few(c, up'[c], NoPartials, {client[c].init})
                 /\ DOMAIN client[c].partials = {} /\ down[c] = <<>>
<1> DEFINE q == up[c]
           r == push_parts(server.partials, Head(q).id, Head(q).part, Head(q).msg)
<1>1. /\ q \in Seq(Fragments(Messages)) /\ server.partials \in Partials(Messages)
      /\ Tags(q) /\ Own(server.partials) /\ Head(q).msg.client = c /\ Local(c)
      /\ r.out # {} => down[c] = <<>>
  BY Reads
<1>2. up'[c] = Tail(q)
  BY DEF IInv, TypeOK
<1>3. PICK parts \in r.out : TRUE
  OBVIOUS
<1>4. r = push_parts(server.partials, Head(q).id, Head(q).part, Head(q).msg) /\ q # <<>>
  OBVIOUS
<1> HIDE DEF q, r
<1>5. /\ ~NoFirst(c, q, server.partials)
      /\ \A B, a : Clean(c, q, server.partials, B, a) =>
            Head(q).msg = B /\ NoFirst(c, Tail(q), NoPartials) /\ OnlyOf(B, Tail(q), NoPartials)
  BY <1>1, <1>3, <1>4, Completed
<1>6. \E B, a : Clean(c, q, server.partials, B, a)
  BY DEF Budget, Sparse, q
<1>7. ASSUME client[c].pc = "waiting"
      PROVE  /\ Head(q).msg = client[c].init
             /\ Few(c, Tail(q), NoPartials, {client[c].init})
             /\ DOMAIN client[c].partials = {} /\ down[c] = <<>>
  <2>1. Clean(c, q, server.partials, client[c].init, client[c].attempt)
    BY <1>1, <1>7 DEF Local, Asking, q
  <2>2. Head(q).msg = client[c].init /\ OnlyOf(client[c].init, Tail(q), NoPartials)
    BY <1>5, <2>1
  <2>3. Few(c, Tail(q), NoPartials, {client[c].init})
    BY <2>2 DEF Few, OnlyOf, NoPartials
  <2>4. DOMAIN client[c].partials = {}
    BY <1>5, <1>7 DEF Budget, Hearing, q
  <2> QED  BY <1>1, <1>3, <2>2, <2>3, <2>4
<1> QED  BY <1>2, <1>5, <1>6, <1>7 DEF q

(***************************************************************************)
(* A step of the server or the network: whoever waits gets a reply, or     *)
(* nothing, and has paid for it.                                           *)
(***************************************************************************)
LEMMA ServerBudget ==
    ASSUME Budget, Bounds', UNCHANGED client, \A d \in Clients : Thins(d),
           \A c \in Clients : client[c].pc = "waiting" =>
              /\ Pays(c)'
              /\ \/ /\ \A i \in 1 .. Len(down'[c]) :
                          \E j \in 1 .. Len(down[c]) : down'[c][i] = down[c][j]
                    /\ down'[c] # <<>> => down[c] # <<>>
                 \/ /\ Few(c, up'[c], server'.partials, {client[c].init})
                    /\ DOMAIN client[c].partials = {}
                    /\ \E n : \A i \in 1 .. Len(down'[c]) : down'[c][i].msg = n /\ Reply(c, n)
    PROVE  Budget'
<1>1. ASSUME NEW d \in Clients PROVE Sparse(d)'
  BY DEF Budget, Sparse, Thins
<1>2. ASSUME NEW c \in Clients, client'[c].pc = "waiting" PROVE Hearing(c)'
  <2>1. Hearing(c) /\ Thins(c) /\ client[c].pc = "waiting"
    BY <1>2 DEF Budget
  <2>2. /\ \E x : Few(c, up'[c], server'.partials, {x, client[c].init})
        /\ DOMAIN client[c].partials # {} => NoFirst(c, up'[c], server'.partials)
    BY <2>1 DEF Hearing, Thins
  <2>3. CASE /\ \A i \in 1 .. Len(down'[c]) : \E j \in 1 .. Len(down[c]) : down'[c][i] = down[c][j]
             /\ down'[c] # <<>> => down[c] # <<>>
    <3>1. down'[c] # <<>> => Few(c, up'[c], server'.partials, {client[c].init})
      BY <2>1, <2>3 DEF Hearing, Thins
    <3>2. \E n : /\ \A i \in 1 .. Len(down'[c]) : down'[c][i].msg = n /\ Reply(c, n)
                 /\ DOMAIN client[c].partials \subseteq {n}
      <4>1. PICK n : /\ \A i \in 1 .. Len(down[c]) : down[c][i].msg = n /\ Reply(c, n)
                     /\ DOMAIN client[c].partials \subseteq {n}
        BY <2>1 DEF Hearing
      <4>2. \A i \in 1 .. Len(down'[c]) : down'[c][i].msg = n /\ Reply(c, n)
        BY <2>3, <4>1
      <4> QED  BY <4>1, <4>2
    <3> QED  BY <2>1, <2>2, <3>1, <3>2 DEF Hearing, Reply
  <2>4. CASE /\ Few(c, up'[c], server'.partials, {client[c].init})
             /\ DOMAIN client[c].partials = {}
             /\ \E n : \A i \in 1 .. Len(down'[c]) : down'[c][i].msg = n /\ Reply(c, n)
    BY <2>1, <2>2, <2>4 DEF Hearing, Reply
  <2> QED  BY <2>1, <2>3, <2>4
<1> QED  BY <1>1, <1>2 DEF Budget

-----------------------------------------------------------------------------
(***************************************************************************)
(* The steps of the server.                                                *)
(***************************************************************************)

\* The parts at hand stay those of clients.
LEMMA OwnersKept ==
    ASSUME IInv, CInv, NEW c \in Clients, up[c] # <<>>,
           \A m \in DOMAIN server.partials : m.client \in Clients
    PROVE  LET r == push_parts(server.partials, Head(up[c]).id, Head(up[c]).part, Head(up[c]).msg)
           IN \A m \in DOMAIN r.left : m.client \in Clients
<1> DEFINE q == up[c]
           m == Head(q).msg
           r == push_parts(server.partials, Head(q).id, Head(q).part, Head(q).msg)
<1>1. /\ q \in Seq(Fragments(Messages)) /\ server.partials \in Partials(Messages)
      /\ Tags(q) /\ m.client = c
  BY Reads
<1>2. m \in MsgIds /\ Head(q).part \in 1 .. FRAGS /\ m \in Messages /\ Head(q).id = m
  BY <1>1, FragmentType, TailSuffix DEF MsgIds, Tags
<1>3. \A k \in DOMAIN r.left : k # m => k \in DOMAIN server.partials
  BY <1>1, <1>2, PushEffect
<1> QED  BY <1>1, <1>3

\* A fragment that completes nothing: what is asked for stays so.
LEMMA AskedReads ==
    ASSUME Enough, IInv, CInv, Budget, NEW e \in Clients, up[e] # <<>>,
           up' = [up EXCEPT ![e] = Tail(up[e])],
           push_parts(server.partials, Head(up[e]).id, Head(up[e]).part, Head(up[e]).msg).out = {},
           server'.partials =
               push_parts(server.partials, Head(up[e]).id, Head(up[e]).part, Head(up[e]).msg).left,
           UNCHANGED client, NEW c \in Clients, client[c].pc = "waiting", Asked(c)
    PROVE  Asked(c)'
<1> DEFINE q == up[e]
           m == Head(q).msg
           r == push_parts(server.partials, Head(q).id, Head(q).part, Head(q).msg)
           B == client[c].init
<1>1. /\ q \in Seq(Fragments(Messages)) /\ server.partials \in Partials(Messages)
      /\ Tags(q) /\ m.client = e
  BY Reads
<1>2. m \in MsgIds /\ Head(q).part \in 1 .. FRAGS /\ m \in Messages /\ Head(q).id = m
  BY <1>1, FragmentType, TailSuffix DEF MsgIds, Tags
<1>3. \A d \in Clients : up'[d] = IF d = e THEN Tail(q) ELSE up[d]
  BY DEF IInv, TypeOK
<1>4. B.client = c
  BY DEF IInv, Provenance, Proven
<1>5. m \in DOMAIN server.partials \/ ~(Cardinality(DOMAIN server.partials) >= MAX_PENDING_MSGS)
  BY RoomFor
<1>6. CASE c = e
  <2>1. Coming(B, q, server.partials)
    BY <1>6 DEF Asked
  <2>2. r.out = {} /\ q # <<>>
    OBVIOUS
  <2> HIDE DEF B, q
  <2>3. Coming(B, Tail(q), r.left)
    BY <1>1, <1>5, <2>1, <2>2, ComingPush
  <2> QED  BY <1>3, <1>6, <2>3 DEF Asked, B, q
<1>7. CASE c # e
  <2>1. \A k \in DOMAIN server.partials :
           k # m => k \in DOMAIN r.left /\ r.left[k] = server.partials[k]
    BY <1>1, <1>2, PushEffect
  <2>2. B # m
    BY <1>1, <1>4, <1>7
  <2>3. \A p : Has(server.partials, B, p) => Has(r.left, B, p)
    BY <2>1, <2>2 DEF Has
  <2>4. Coming(B, up[c], server.partials)
    BY DEF Asked
  <2> HIDE DEF B, r
  <2>5. Coming(B, up[c], r.left)
    BY <2>3, <2>4 DEF Coming
  <2> QED  BY <1>3, <1>7, <2>5 DEF Asked, B, r
<1> QED  BY <1>6, <1>7

\* Others get ahead of c only by something of theirs that was not there.
LEMMA NoneAhead ==
    ASSUME NEW c, \A d \in Clients : Thins(d),
           \A d \in Clients : d # c /\ Serving(d) => Serving(d)' \/ NoFirst(d, up'[d], server'.partials)
    PROVE  \A d \in Clients : d # c /\ d \in Ahead(c)' => d \in Ahead(c)
BY DEF Ahead, Thins

\* A reply to c, which hears of nothing else.
LEMMA ReplyPays ==
    ASSUME IInv, setting.obf, UNCHANGED client, NEW c \in Clients, down[c] = <<>>, NEW n, NEW x,
           down'[c] = down[c] \o Datagrams(n, x),
           IF n.type = "Challenge" THEN Rest(c)' >= Turn' + Cost(c, n.cookie)'
                                   ELSE Rest(c)' >= Cost(c, client[c].init.cookie)'
    PROVE  Pays(c)' /\ \A i \in 1 .. Len(down'[c]) : down'[c][i].msg = n
<1>1. down[c] \in Seq(Fragments(Messages))
  BY DEF IInv, TypeOK
<1>2. IsAppended(down'[c], down[c], n) /\ Coming(n, down'[c], client[c].partials)
  BY <1>1, Appended, ComingNew
<1>3. Len(down[c]) = 0
  OBVIOUS
<1>4. \A i \in 1 .. Len(down'[c]) : i > 0
  OBVIOUS
<1>5. \A i \in 1 .. Len(down'[c]) : down'[c][i] = [id |-> n, part |-> i - Len(down[c]), msg |-> n]
  BY <1>2, <1>3, <1>4 DEF IsAppended
<1>6. \A i \in 1 .. Len(down'[c]) : down'[c][i].msg = n
  <2> TAKE i \in 1 .. Len(down'[c])
  <2> DEFINE p == i - Len(down[c])
  <2>1. down'[c][i] = [id |-> n, part |-> p, msg |-> n]
    BY <1>5
  <2> HIDE DEF p
  <2> QED  BY <2>1
<1>7. Answering(c, n)'
  BY <1>2 DEF Answering
<1>8. ASSUME NEW m, Answering(c, m)' PROVE m = n
  BY <1>2, <1>8 DEF Answering, Coming
<1> QED  BY <1>6, <1>7, <1>8 DEF Pays

LEMMA DecodesTo ==
    ASSUME NEW parts
    PROVE  /\ parts[2] \in Messages /\ parts[1] \in Messages =>
                 Decode(parts).cookie = parts[2].cookie /\ Decode(parts).client = parts[1].client
           /\ parts[1] \in Messages /\ parts[2] = parts[1] => Decode(parts) = parts[1]
BY DEF Decode, Messages

LEMMA ListenReceiveBudget ==
    ASSUME Enough, IInv, IInv', Calm, CInv, CInv', Turns, Budget, NEW e \in Clients,
           ListenReceive(e)
    PROVE  Budget'
<1> DEFINE q == up[e]
           r == push_parts(server.partials, Head(q).id, Head(q).part, Head(q).msg)
<1>1. /\ server.pc = "listen" /\ q # <<>> /\ up' = [up EXCEPT ![e] = Tail(q)]
      /\ UNCHANGED <<setting, client, secret, bucket, lost, errors, verified, accepted>>
      /\ \/ /\ r.out = {} /\ server' = [server EXCEPT !.partials = r.left]
            /\ UNCHANGED <<down, made, challenges>>
         \/ \E parts \in r.out :
               Challenge(e, Decode(parts)) \/ Respond(e, Decode(parts)) \/ Ignore(Decode(parts))
  BY DEF ListenReceive
<1>2. /\ server \in ServerStates /\ Bounds
      /\ \A parts \in r.out : \A p \in 1 .. FRAGS : parts[p] = Head(q).msg
      /\ Head(q).msg \in Messages
  BY <1>1, Reads DEF Budget
<1>3. \A m \in DOMAIN r.left : m.client \in Clients
  BY <1>1, <1>2, OwnersKept DEF Bounds
<1>4. \A c \in Clients : ~Serving(c) /\ HalfOpen(c) = 0
  BY <1>1 DEF Serving, HalfOpen
<1>5. Listen.pc = "listen" /\ Listen.partials = NoPartials /\ Listen.waited = 0
  BY DEF Listen
<1>6. ASSUME NEW c \in Clients, client[c].pc = "waiting"
      PROVE  /\ Numbers(c) /\ Pays(c) /\ client[c].init.type = "Init"
             /\ client[c].init.cookie \in Cookies
  <2>1. client[c].init.cookie \in Cookies
    BY DEF IInv, TypeOK, ClientStates, Messages
  <2> QED  BY <1>2, <1>6, <2>1, NumbersAre DEF Budget, Hearing
<1>14. \A parts \in r.out : Decode(parts) = Head(q).msg
  <2> TAKE parts \in r.out
  <2>1. parts[1] = Head(q).msg /\ parts[2] = Head(q).msg
    BY <1>2, ConstantTypes
  <2> QED  BY <1>2, <2>1, DecodesTo
<1>7. CASE r.out = {} /\ server' = [server EXCEPT !.partials = r.left]
           /\ UNCHANGED <<down, made, challenges>>
  <2>1. /\ server'.partials = r.left /\ server'.pc = server.pc /\ server'.peer = server.peer
        /\ server'.waited = server.waited
    BY <1>2, <1>7 DEF ServerStates
  <2>2. Bounds'
    BY <1>1, <1>2, <1>3, <2>1 DEF Bounds
  <2>3. \A d \in Clients : Thins(d)
    BY <1>1, <2>1, ThinsReads
  <2>4. \A c, d \in Clients : d # c /\ d \in Ahead(c)' => d \in Ahead(c)
    BY <1>4, <2>3, NoneAhead
  <2>5. ASSUME NEW c \in Clients, client[c].pc = "waiting" PROVE Pays(c)'
    <3>1. Numbers(c) /\ Numbers(c)' /\ Pays(c)
      BY <1>6, <2>2, <2>5, NumbersNext
    <3>2. HalfOpen(c)' = 0
      BY <1>1, <2>1 DEF HalfOpen
    <3>3. Rest(c)' >= Rest(c) + 0
      <4>1. Rest(c)' >= Rest(c) + ((client[c].attempt - client'[c].attempt) + 2 * (lost' - lost)
                                     + (HalfOpen(c) - HalfOpen(c)'))
        BY <1>1, <1>2, <2>2, <2>4, RestChange
      <4> QED  BY <1>1, <1>4, <3>1, <3>2, <4>1 DEF Numbers
    <3>4. Asked(c) => Asked(c)'
      BY <1>1, <1>7, <2>1, <2>5, AskedReads
    <3>5. Again(c)' <= Again(c) + 0 /\ Turn' <= Turn + 0
      BY <1>1, <1>4, <2>1, <3>4 DEF Again, Turn, Serving
    <3> QED  BY <1>1, <1>2, <1>7, <2>2, <2>5, <3>1, <3>3, <3>5, PaysKept
  <2> QED  BY <1>1, <1>7, <2>2, <2>3, <2>5, ServerBudget
\* What e completes is no longer ahead of another, which pays for its being answered.
<1>8. ASSUME r.out # {}, server'.partials = NoPartials, server'.waited = 0,
             server'.pc = "listen" \/ (server'.pc = "confirm" /\ server'.peer = e)
      PROVE  /\ Bounds' /\ \A d \in Clients : Thins(d)
             /\ \A c \in Clients : client[c].pc = "waiting" => Rest(c)' >= Rest(c) - HalfOpen(c)'
             /\ \A c \in Clients : client[c].pc = "waiting" /\ c # e /\ down'[c] = down[c] => Pays(c)'
  <2>1. Bounds'
    BY <1>1, <1>2, <1>8 DEF Bounds, NoPartials
  <2>2. \A d \in Clients : Thins(d)
    BY <1>1, <1>8, ThinsReads
  <2>3. \A c, d \in Clients : d # c /\ d \in Ahead(c)' => d \in Ahead(c)
    BY <1>4, <2>2, NoneAhead
  <2>4. ~NoFirst(e, up[e], server.partials) /\ NoFirst(e, up'[e], server'.partials)
    BY <1>1, <1>8, Completes
  <2>5. ASSUME NEW c \in Clients, client[c].pc = "waiting"
        PROVE  /\ Rest(c)' >= Rest(c) - HalfOpen(c)'
               /\ c # e /\ down'[c] = down[c] => Pays(c)'
    <3>1. Numbers(c) /\ Numbers(c)' /\ Pays(c)
      BY <1>6, <2>1, <2>5, NumbersNext
    <3> DEFINE more == (client[c].attempt - client'[c].attempt) + 2 * (lost' - lost)
                                     + (HalfOpen(c) - HalfOpen(c)')
    <3>2. /\ Rest(c)' >= Rest(c) + more
          /\ \A d \in Ahead(c) : d \notin Ahead(c)' => Rest(c)' >= Rest(c) + more + 4
      BY <1>1, <1>2, <2>1, <2>3, RestChange
    <3>3. more = 0 - HalfOpen(c)'
      BY <1>1, <1>4, <3>1 DEF Numbers
    <3> HIDE DEF more
    <3>4. ASSUME c # e, down'[c] = down[c] PROVE Pays(c)'
      <4>1. e \in Ahead(c) /\ e \notin Ahead(c)'
        BY <1>4, <2>4, <3>4 DEF Ahead
      <4>2. Rest(c)' >= Rest(c) + more + 4
        BY <3>2, <4>1
      <4>3. Rest(c)' >= Rest(c) + 1
        BY <3>1, <3>3, <4>2 DEF Numbers
      <4>4. ~Serving(c)'
        BY <1>8, <3>4 DEF Serving
      <4>5. Again(c)' <= 1 /\ Again(c) >= 0 /\ Turn' <= 2 /\ Turn >= 1
        BY <4>4 DEF Again, Turn
      <4>6. Again(c)' <= Again(c) + 1 /\ Turn' <= Turn + 1
        BY <3>1, <4>5 DEF Numbers
      <4> QED  BY <1>1, <1>2, <2>1, <2>5, <3>1, <3>4, <4>3, <4>6, PaysKept
    <3>5. Rest(c)' >= Rest(c) - HalfOpen(c)'
      BY <3>1, <3>2, <3>3 DEF Numbers
    <3> QED  BY <3>4, <3>5
  <2> QED  BY <2>1, <2>2, <2>5
<1>9. ASSUME r.out # {}, client[e].pc = "waiting"
      PROVE  /\ Head(q).msg = client[e].init /\ Few(e, up'[e], NoPartials, {client[e].init})
             /\ DOMAIN client[e].partials = {} /\ down[e] = <<>>
             /\ Rest(e) >= Again(e) + Cost(e, client[e].init.cookie)
  <2>1. /\ Head(q).msg = client[e].init /\ Few(e, up'[e], NoPartials, {client[e].init})
        /\ DOMAIN client[e].partials = {} /\ down[e] = <<>>
    BY <1>1, <1>9, Completes
  <2>2. \A m : ~Answering(e, m)
    BY <2>1 DEF Answering, Coming
  <2> QED  BY <1>6, <1>9, <2>1, <2>2 DEF Pays
\* A reply n to e, which waits for it or does not.
<1>10. ASSUME r.out # {}, server'.partials = NoPartials, server'.waited = 0,
              server'.pc = "listen" \/ (server'.pc = "confirm" /\ server'.peer = e),
              NEW n, down' = DownWith(e, n),
              client[e].pc = "waiting" =>
                  /\ Reply(e, n)
                  /\ IF n.type = "Challenge" THEN Rest(e)' >= Turn' + Cost(e, n.cookie)'
                                             ELSE Rest(e)' >= Cost(e, client[e].init.cookie)'
       PROVE  Budget'
  <2>1. Bounds' /\ \A d \in Clients : Thins(d)
    BY <1>8, <1>10
  <2>2. \A c \in Clients : c # e => down'[c] = down[c]
    BY <1>10 DEF DownWith, IInv, TypeOK
  <2>3. ASSUME NEW c \in Clients, client[c].pc = "waiting", c # e
        PROVE  Pays(c)' /\ down'[c] = down[c]
    BY <1>8, <1>10, <2>2, <2>3
  <2>4. ASSUME client[e].pc = "waiting"
        PROVE  /\ Pays(e)'
               /\ Few(e, up'[e], server'.partials, {client[e].init})
               /\ DOMAIN client[e].partials = {}
               /\ \A i \in 1 .. Len(down'[e]) : down'[e][i].msg = n /\ Reply(e, n)
    <3>1. down'[e] = down[e] \o Datagrams(n, secret)
      BY <1>10, <2>4 DEF DownWith, Waiting, IInv, TypeOK
    <3>2. /\ Few(e, up'[e], NoPartials, {client[e].init})
          /\ DOMAIN client[e].partials = {} /\ down[e] = <<>>
      BY <1>9, <1>10, <2>4
    <3>3. Pays(e)' /\ \A i \in 1 .. Len(down'[e]) : down'[e][i].msg = n
      <4>1. setting.obf /\ client' = client
        BY <1>1 DEF Calm
      <4>2. IF n.type = "Challenge" THEN Rest(e)' >= Turn' + Cost(e, n.cookie)'
                                    ELSE Rest(e)' >= Cost(e, client[e].init.cookie)'
        BY <1>10, <2>4
      <4> QED  BY <3>1, <3>2, <4>1, <4>2, ReplyPays
    <3> QED  BY <1>10, <2>4, <3>2, <3>3
  <2>5. ASSUME NEW c \in Clients, client[c].pc = "waiting"
        PROVE  /\ Pays(c)'
               /\ \/ /\ \A i \in 1 .. Len(down'[c]) :
                           \E j \in 1 .. Len(down[c]) : down'[c][i] = down[c][j]
                     /\ down'[c] # <<>> => down[c] # <<>>
                  \/ /\ Few(c, up'[c], server'.partials, {client[c].init})
                     /\ DOMAIN client[c].partials = {}
                     /\ \E k : \A i \in 1 .. Len(down'[c]) : down'[c][i].msg = k /\ Reply(c, k)
    <3>1. CASE c # e
      BY <2>3, <2>5, <3>1
    <3>2. CASE c = e
      BY <2>4, <2>5, <3>2
    <3> QED  BY <3>1, <3>2
  <2> QED  BY <1>1, <2>1, <2>5, ServerBudget
<1>11. ASSUME NEW parts \in r.out, Challenge(e, Decode(parts)) PROVE Budget'
  <2> DEFINE ck == [src |-> e, secret |-> secret, bucket |-> bucket]
  <2>6. PICK n : n = Message("Challenge", e, challenges', None, ck, None)
    OBVIOUS
  <2>1. /\ down' = DownWith(e, n) /\ server' = Listen
        /\ ~ValidCookie(e, Decode(parts).cookie)
    BY <1>11, <2>6 DEF Challenge
  <2>2. n.type = "Challenge" /\ n.cookie = ck
    BY <2>6 DEF Message
  <2>3. r.out # {} /\ server'.partials = NoPartials /\ server'.waited = 0 /\ server'.pc = "listen"
    BY <1>5, <1>11, <2>1
  <2>4. ASSUME client[e].pc = "waiting" PROVE Rest(e)' >= Turn' + Cost(e, n.cookie)'
    <3>1. /\ Rest(e) >= Again(e) + Cost(e, client[e].init.cookie)
          /\ Head(q).msg = client[e].init
      BY <1>9, <2>3, <2>4
    <3>2. Decode(parts).cookie = client[e].init.cookie
      BY <1>11, <1>14, <3>1
    <3>3. Cost(e, client[e].init.cookie) = 1 + Left(bucket)
      BY <2>1, <3>2 DEF Cost
    <3>4. Cost(e, n.cookie)' = Left(bucket)
      <4>1. ValidCookie(e, n.cookie)'
        BY <1>1, <2>2 DEF ValidCookie
      <4>2. n.cookie.bucket = bucket
        BY <2>2
      <4>3. Left(n.cookie.bucket)' = Left(bucket)
        BY <1>1, <4>2 DEF Left
      <4> QED  BY <4>1, <4>3 DEF Cost
    <3>5. Turn' = 1 /\ HalfOpen(e)' = 0
      BY <2>3 DEF Turn, HalfOpen
    <3>6. Rest(e)' >= Rest(e) - HalfOpen(e)'
      BY <1>8, <2>3, <2>4
    <3>7. Left(bucket) \in Int /\ Bounds'
      BY <1>6, <1>8, <2>3, <2>4, CostBounds
    <3>8. Numbers(e) /\ Numbers(e)'
      BY <1>6, <2>4, <3>7, NumbersNext
    <3> QED  BY <3>1, <3>3, <3>4, <3>5, <3>6, <3>7, <3>8 DEF Numbers
  <2>5. Reply(e, n)
    BY <2>2 DEF Reply
  <2> HIDE DEF ck
  <2> QED  BY <1>10, <2>1, <2>2, <2>3, <2>4, <2>5
<1>12. ASSUME NEW parts \in r.out, Respond(e, Decode(parts)) PROVE Budget'
  <2>6. PICK n : n = Message("Response", Decode(parts).client, 0, made', NoCookie, made')
    OBVIOUS
  <2>1. /\ down' = DownWith(e, n)
        /\ server' = [Listen EXCEPT !.pc = "confirm", !.peer = e, !.sess = made',
                                    !.since = Waiting]
    BY <1>12, <2>6 DEF Respond
  <2>2. n.type = "Response" /\ n.client = Decode(parts).client /\ n.signed = n.sess
    BY <2>6 DEF Message
  <2>3. /\ r.out # {} /\ server'.partials = NoPartials /\ server'.waited = 0
        /\ server'.pc = "confirm" /\ server'.peer = e
    BY <1>12, <2>1 DEF Listen
  <2>4. ASSUME client[e].pc = "waiting"
        PROVE  n.client = e /\ Rest(e)' >= Cost(e, client[e].init.cookie)'
    <3>1. /\ Rest(e) >= Again(e) + Cost(e, client[e].init.cookie)
          /\ Head(q).msg = client[e].init
      BY <1>9, <2>3, <2>4
    <3>2. n.client = e
      <4>1. client[e].init.client = e
        BY <2>4 DEF IInv, Provenance, Proven
      <4> QED  BY <1>12, <1>14, <2>2, <3>1, <4>1
    <3>3. Cost(e, client[e].init.cookie)' = Cost(e, client[e].init.cookie)
      BY <1>1 DEF Cost, ValidCookie, Left
    <3>4. HalfOpen(e)' = 0
      BY <2>3 DEF HalfOpen
    <3>5. Rest(e)' >= Rest(e) - HalfOpen(e)'
      BY <1>8, <2>3, <2>4
    <3>6. Cost(e, client[e].init.cookie) \in Int /\ Bounds'
      BY <1>6, <1>8, <2>3, <2>4, CostBounds
    <3>7. Numbers(e) /\ Numbers(e)'
      BY <1>6, <2>4, <3>6, NumbersNext
    <3> QED  BY <3>1, <3>2, <3>3, <3>4, <3>5, <3>6, <3>7 DEF Numbers
  <2>5. n.type # "Challenge"
    BY <2>2
  <2> QED  BY <1>10, <2>1, <2>2, <2>3, <2>4, <2>5 DEF Reply
<1>13. ASSUME NEW parts \in r.out, Ignore(Decode(parts)) PROVE Budget'
  <2>1. Decode(parts).type # "Init" /\ server' = Listen /\ UNCHANGED down
    BY <1>13 DEF Ignore
  <2>2. r.out # {} /\ server'.partials = NoPartials /\ server'.waited = 0 /\ server'.pc = "listen"
    BY <1>5, <1>13, <2>1
  <2>3. client[e].pc # "waiting"
    BY <1>6, <1>9, <1>13, <1>14, <2>1, <2>2
  <2>4. Bounds' /\ \A d \in Clients : Thins(d)
    BY <1>8, <2>2
  <2>5. \A c \in Clients : client[c].pc = "waiting" => Pays(c)'
    BY <1>8, <2>1, <2>2, <2>3
  <2> QED  BY <1>1, <2>1, <2>4, <2>5, ServerBudget
<1> QED  BY <1>1, <1>7, <1>11, <1>12, <1>13

\* The server leaves its peer and listens: whoever waited for that need wait no longer.
LEMMA LeavesPeer ==
    ASSUME Enough, IInv, IInv', CInv, Turns, Budget, server.pc = "confirm", server' = Listen,
           UNCHANGED <<setting, client, down, secret, bucket, lost>>,
           \A d \in Clients : Thins(d), NoFirst(server.peer, up'[server.peer], NoPartials)
    PROVE  Budget'
<1>1. Listen.pc = "listen" /\ Listen.partials = NoPartials /\ Listen.waited = 0
  BY DEF Listen
<1>2. Bounds /\ Bounds'
  BY <1>1 DEF Budget, Bounds, NoPartials
<1>3. \A c, d \in Clients : d # c /\ d \in Ahead(c)' => d \in Ahead(c)
  <2>1. \A d \in Clients : Serving(d) => NoFirst(d, up'[d], server'.partials)
    BY <1>1 DEF Serving
  <2> QED  BY <2>1, NoneAhead
<1>4. ASSUME NEW c \in Clients, client[c].pc = "waiting" PROVE Pays(c)'
  <2>1. Numbers(c) /\ Numbers(c)' /\ Pays(c)
    BY <1>2, <1>4, NumbersAre, NumbersNext DEF Budget
  <2>2. HalfOpen(c)' = 0
    BY <1>1 DEF HalfOpen
  <2>3. Rest(c)' >= Rest(c) + ((client[c].attempt - client'[c].attempt) + 2 * (lost' - lost)
                                 + (HalfOpen(c) - HalfOpen(c)'))
    BY <1>2, <1>3, RestChange
  <2>4. Rest(c)' >= Rest(c) + 0
    BY <2>1, <2>2, <2>3 DEF Numbers
  <2>5. Again(c) >= 1 /\ Again(c)' <= 1 /\ Turn = 2 /\ Turn' = 1
    BY <1>1 DEF Again, Turn, Serving
  <2>6. Again(c)' <= Again(c) + 0 /\ Turn' <= Turn + 0
    BY <2>1, <2>5 DEF Numbers
  <2> QED  BY <1>2, <1>4, <2>1, <2>4, <2>6, PaysKept
<1> QED  BY <1>2, <1>4, ServerBudget

\* A step that takes something, while the server stays with its peer, or listening.
LEMMA StaysPeer ==
    ASSUME Enough, IInv, IInv', CInv, Turns, Budget, Bounds', server'.pc = server.pc,
           server'.peer = server.peer, server'.waited = server.waited,
           UNCHANGED <<setting, client, down, secret, bucket, lost>>, \A d \in Clients : Thins(d),
           \A c \in Clients : client[c].pc = "waiting" /\ (Serving(c) \/ server.pc = "listen")
                                 /\ Asked(c) => Asked(c)'
    PROVE  Budget'
<1>1. Bounds
  BY DEF Budget
<1>2. \A c, d \in Clients : d # c /\ d \in Ahead(c)' => d \in Ahead(c)
  <2>1. \A d \in Clients : Serving(d) => Serving(d)'
    BY DEF Serving
  <2> QED  BY <2>1, NoneAhead
<1>3. ASSUME NEW c \in Clients, client[c].pc = "waiting" PROVE Pays(c)'
  <2>1. Numbers(c) /\ Numbers(c)' /\ Pays(c)
    BY <1>1, <1>3, NumbersAre, NumbersNext DEF Budget
  <2>2. HalfOpen(c)' = HalfOpen(c)
    BY DEF HalfOpen
  <2>3. Rest(c)' >= Rest(c) + ((client[c].attempt - client'[c].attempt) + 2 * (lost' - lost)
                                 + (HalfOpen(c) - HalfOpen(c)'))
    BY <1>1, <1>2, RestChange
  <2>4. Rest(c)' >= Rest(c) + 0
    BY <2>1, <2>2, <2>3 DEF Numbers
  <2>5. Again(c)' <= Again(c) + 0 /\ Turn' <= Turn + 0
    BY <1>3 DEF Again, Turn, Serving
  <2> QED  BY <1>1, <1>3, <2>1, <2>4, <2>5, PaysKept
<1> QED  BY <1>3, ServerBudget

LEMMA ConfirmReceiveBudget ==
    ASSUME Enough, IInv, IInv', CInv, Turns, Budget, NEW e \in Clients, ConfirmReceive(e),
           accepted' = {}
    PROVE  Budget'
<1> DEFINE q == up[e]
           r == push_parts(server.partials, Head(q).id, Head(q).part, Head(q).msg)
           rest == [up EXCEPT ![e] = Tail(q)]
<1>1. /\ server.pc = "confirm" /\ q # <<>> /\ up' = rest
      /\ UNCHANGED <<setting, down, client, secret, bucket, lost>>
      /\ \/ e # server.peer /\ UNCHANGED server
         \/ e = server.peer /\ r.out = {} /\ server' = [server EXCEPT !.partials = r.left]
         \/ e = server.peer /\ r.out # {} /\ server' = Listen
  <2>1. \A parts \in r.out :
           ~(accepted' = accepted \cup {<<e, server.sess>>})
    OBVIOUS
  <2> QED  BY <2>1 DEF ConfirmReceive, FromPeer
<1>2. server \in ServerStates /\ Bounds
  BY <1>1, Reads DEF Budget
<1>3. CASE e # server.peer /\ UNCHANGED server
  <2>1. Bounds'
    BY <1>1, <1>2, <1>3 DEF Bounds
  <2>2. \A d \in Clients : Thins(d)
    BY <1>1, <1>3, ThinsReads
  <2>3. ASSUME NEW c \in Clients, Serving(c), Asked(c) PROVE Asked(c)'
    <3>1. up'[c] = up[c]
      BY <1>1, <1>3, <2>3 DEF Serving, IInv, TypeOK
    <3> QED  BY <1>1, <1>3, <2>3, <3>1 DEF Asked
  <2> QED  BY <1>1, <1>3, <2>1, <2>2, <2>3, StaysPeer
<1>4. CASE e = server.peer /\ r.out = {} /\ server' = [server EXCEPT !.partials = r.left]
  <2>1. /\ server'.partials = r.left /\ server'.pc = server.pc /\ server'.peer = server.peer
        /\ server'.waited = server.waited
    BY <1>2, <1>4 DEF ServerStates
  <2>2. \A m \in DOMAIN r.left : m.client \in Clients
    BY <1>1, <1>2, OwnersKept DEF Bounds
  <2>3. Bounds'
    BY <1>1, <1>2, <2>1, <2>2 DEF Bounds
  <2>4. \A d \in Clients : Thins(d)
    BY <1>1, <2>1, ThinsReads
  <2>5. \A c \in Clients : client[c].pc = "waiting" /\ Asked(c) => Asked(c)'
    BY <1>1, <1>4, <2>1, AskedReads
  <2> QED  BY <1>1, <2>1, <2>3, <2>4, <2>5, StaysPeer
<1>5. CASE e = server.peer /\ r.out # {} /\ server' = Listen
  <2>1. server'.partials = NoPartials
    BY <1>5 DEF Listen
  <2>2. \A d \in Clients : Thins(d)
    BY <1>1, <2>1, ThinsReads
  <2>3. NoFirst(e, up'[e], NoPartials)
    BY <1>1, <1>5, Completes
  <2> QED  BY <1>1, <1>5, <2>2, <2>3, LeavesPeer
<1> QED  BY <1>1, <1>3, <1>4, <1>5

LEMMA ConfirmTimeoutBudget ==
    ASSUME Enough, IInv, IInv', Calm, CInv, Turns, Budget, ConfirmTimeout
    PROVE  Budget'
<1>1. /\ server.pc = "confirm" /\ server' = Listen /\ up[server.peer] = <<>>
      /\ UNCHANGED <<setting, up, down, client, secret, bucket, lost>>
  BY DEF ConfirmTimeout, Calm, Quiet
<1>2. \A d \in Clients : Thins(d)
  <2> TAKE d \in Clients
  <2>1. up[d] \in Seq(Fragments(Messages))
    BY DEF IInv, TypeOK
  <2>2. Suffix(up'[d], up[d]) /\ Less(d, server'.partials, server.partials)
    BY <1>1, <2>1, SuffixKept DEF Less, Listen, NoPartials
  <2> QED  BY <2>2, ThinsLess
<1>3. NoFirst(server.peer, up'[server.peer], NoPartials)
  BY <1>1 DEF NoFirst, NoPartials
<1> QED  BY <1>1, <1>2, <1>3, LeavesPeer

LEMMA PruneBudget ==
    ASSUME Enough, IInv, IInv', CInv, Turns, Budget, Prune
    PROVE  Budget'
<1> DEFINE old == {i \in DOMAIN server.partials :
                     \A p \in DOMAIN server.partials[i] :
                        server.partials[i][p].client \notin Waiting}
<1>1. /\ server.pc = "listen" /\ server' = [server EXCEPT !.partials = Without(server.partials, old)]
      /\ UNCHANGED <<setting, up, down, client, secret, bucket, lost>>
  BY DEF Prune
<1>2. \A m \in DOMAIN server.partials : \A p \in DOMAIN server.partials[m] :
         m.client \in Waiting => m \notin old
  BY DEF CInv, Own
<1> HIDE DEF old
<1>3. /\ server'.pc = server.pc /\ server'.peer = server.peer /\ server'.waited = server.waited
      /\ DOMAIN server'.partials = DOMAIN server.partials \ old
      /\ \A m \in DOMAIN server'.partials : server'.partials[m] = server.partials[m]
  BY <1>1 DEF IInv, TypeOK, ServerStates, Without
<1>4. Bounds'
  BY <1>1, <1>3 DEF Budget, Bounds
<1>5. \A d \in Clients : Thins(d)
  <2> TAKE d \in Clients
  <2>1. up[d] \in Seq(Fragments(Messages))
    BY DEF IInv, TypeOK
  <2>2. Suffix(up'[d], up[d]) /\ Less(d, server'.partials, server.partials)
    BY <1>1, <1>3, <2>1, SuffixKept DEF Less
  <2> QED  BY <2>2, ThinsLess
<1>6. ASSUME NEW c \in Clients, client[c].pc = "waiting", Asked(c) PROVE Asked(c)'
  <2>1. client[c].init.client = c /\ c \in Waiting
    BY <1>6 DEF IInv, Provenance, Proven, Waiting
  <2>2. \A p : Has(server.partials, client[c].init, p) => Has(server'.partials, client[c].init, p)
    BY <1>2, <1>3, <2>1 DEF Has
  <2> QED  BY <1>1, <1>6, <2>2 DEF Asked, Coming
<1> QED  BY <1>1, <1>3, <1>4, <1>5, <1>6, StaysPeer

\* What c will hear is a message.
LEMMA AnsweringType ==
    ASSUME IInv, NEW c \in Clients, NEW m, Answering(c, m)
    PROVE  m \in Messages /\ m.cookie \in Cookies /\ \E i \in 1 .. Len(down[c]) : down[c][i].msg = m
<1>1. down[c] \in Seq(Fragments(Messages)) /\ down[c] # <<>> /\ m = down[c][Len(down[c])].msg
  BY DEF IInv, TypeOK, Answering, Coming
<1>2. Len(down[c]) \in 1 .. Len(down[c])
  BY <1>1
<1>3. down[c][Len(down[c])] \in Fragments(Messages)
  BY <1>1, <1>2
<1> QED  BY <1>1, <1>2, <1>3 DEF Fragments, Messages

LEMMA WindowBudget ==
    ASSUME Enough, IInv, IInv', Budget, NextWindow
    PROVE  Budget'
<1>1. /\ bucket' = bucket + 1 /\ bucket <= setting.windows
      /\ UNCHANGED <<setting, up, down, client, server, secret, lost>>
  BY DEF NextWindow
<1>2. Bounds /\ Bounds'
  <2>1. bucket \in Nat /\ setting.windows \in Nat
    BY HandshakeAssumption DEF IInv, TypeOK
  <2> QED  BY <1>1, <2>1 DEF Budget, Bounds
<1>3. \A d \in Clients : Thins(d)
  BY <1>1 DEF Thins
<1>4. ASSUME NEW c \in Clients, client[c].pc = "waiting" PROVE Pays(c)'
  <2>1. Numbers(c) /\ Pays(c) /\ client[c].init.cookie \in Cookies
    BY <1>2, <1>4, NumbersAre DEF Budget, IInv, TypeOK, ClientStates, Messages
  <2>2. \A ck \in Cookies : /\ Cost(c, ck)' \in Int /\ Cost(c, ck) \in Int
                            /\ Cost(c, ck)' <= Cost(c, ck)
    BY <1>1, CostWindow
  <2>3. /\ Serving(c)' = Serving(c) /\ Asked(c)' = Asked(c)
        /\ \A d : NoFirst(d, up'[d], server'.partials) = NoFirst(d, up[d], server.partials)
    BY <1>1 DEF Serving, Asked
  <2>4. Ahead(c)' = Ahead(c) /\ HalfOpen(c)' = HalfOpen(c)
    BY <1>1 DEF Ahead, Serving, HalfOpen
  <2>5. Rest(c)' = Rest(c) /\ Again(c)' = Again(c) /\ Turn' = Turn
    BY <1>1, <2>3, <2>4 DEF Rest, Again, Turn
  <2>6. \A m : Answering(c, m)' <=> Answering(c, m)
    BY <1>1 DEF Answering
  <2>7. ASSUME NEW m, Answering(c, m)
        PROVE  IF m.type = "Challenge" THEN Rest(c) >= Turn + Cost(c, m.cookie)'
                                       ELSE Rest(c) >= Cost(c, client[c].init.cookie)'
    <3>1. IF m.type = "Challenge" THEN Rest(c) >= Turn + Cost(c, m.cookie)
                                  ELSE Rest(c) >= Cost(c, client[c].init.cookie)
      BY <2>1, <2>7 DEF Pays
    <3>2. m.cookie \in Cookies
      BY <2>7, AnsweringType
    <3>3. /\ Cost(c, m.cookie)' \in Int /\ Cost(c, m.cookie) \in Int
          /\ Cost(c, m.cookie)' <= Cost(c, m.cookie)
          /\ Cost(c, client[c].init.cookie)' \in Int /\ Cost(c, client[c].init.cookie) \in Int
          /\ Cost(c, client[c].init.cookie)' <= Cost(c, client[c].init.cookie)
      BY <1>1, <2>1, <3>2, CostWindow
    <3> QED  BY <2>1, <3>1, <3>3 DEF Numbers
  <2>8. ASSUME \A m : ~Answering(c, m) PROVE Rest(c) >= Again(c) + Cost(c, client[c].init.cookie)'
    <3>1. Rest(c) >= Again(c) + Cost(c, client[c].init.cookie)
      BY <2>1, <2>8 DEF Pays
    <3>2. /\ Cost(c, client[c].init.cookie)' \in Int /\ Cost(c, client[c].init.cookie) \in Int
          /\ Cost(c, client[c].init.cookie)' <= Cost(c, client[c].init.cookie)
      BY <1>1, <2>1, CostWindow
    <3> QED  BY <2>1, <3>1, <3>2 DEF Numbers
  <2> QED  BY <1>1, <2>5, <2>6, <2>7, <2>8 DEF Pays
<1> QED  BY <1>1, <1>2, <1>3, <1>4, ServerBudget

-----------------------------------------------------------------------------
(***************************************************************************)
(* The steps of a client.                                                  *)
(***************************************************************************)
LEMMA CostNat ==
    ASSUME IInv, Bounds, NEW c, NEW ck \in Cookies
    PROVE  Cost(c, ck) \in Nat /\ Cost(c, ck) <= 1 + setting.windows \div 2
<1>1. setting.windows \in Nat /\ bucket \in Nat /\ bucket >= 1 /\ bucket <= setting.windows + 1
  BY HandshakeAssumption DEF IInv, TypeOK, Bounds
<1>2. Left(bucket) \in Int /\ Left(bucket) >= 0 /\ Left(bucket) <= setting.windows \div 2
  BY <1>1, LeftType
<1>3. /\ Cost(c, ck) \in Int /\ Left(bucket) <= Cost(c, ck) /\ Cost(c, ck) <= Left(bucket) + 1
  BY CostBounds
<1>4. setting.windows \div 2 \in Int
  BY <1>1
<1> QED  BY <1>2, <1>3, <1>4

\* The next attempt, when there is one to pay with.
LEMMA AttemptLeft ==
    ASSUME Enough, IInv, Bounds, NEW c \in Clients, Rest(c) >= 1, NEW m, NEW rest,
           NextAttempt(c, m, rest)
    PROVE  /\ client'[c].attempt = client[c].attempt + 1 /\ client'[c].init = m
           /\ client'[c].partials = NoPartials /\ client'[c].pc = client[c].pc
           /\ up'[c] = up[c] \o Datagrams(m, 1) /\ down'[c] = rest
           /\ \A d \in Clients : d # c => up'[d] = up[d] /\ client'[d] = client[d]
<1>1. Numbers(c)
  BY NumbersAre
<1>2. lost <= setting.losses
  BY DEF Bounds
<1>3. client[c].attempt < setting.attempts
  BY <1>1, <1>2 DEF Numbers, Rest
<1>4. /\ client \in [Clients -> ClientStates] /\ client[c] \in ClientStates
      /\ DOMAIN up = Clients /\ DOMAIN down = Clients
  BY DEF IInv, TypeOK
<1>5. /\ down' = [down EXCEPT ![c] = rest]
      /\ up' = [up EXCEPT ![c] = up[c] \o Datagrams(m, 1)]
      /\ client' = [client EXCEPT ![c] = [client[c] EXCEPT !.attempt = @ + 1, !.init = m,
                                                          !.partials = NoPartials]]
  BY <1>3 DEF NextAttempt
<1>6. /\ client'[c].attempt = client[c].attempt + 1 /\ client'[c].init = m
      /\ client'[c].partials = NoPartials /\ client'[c].pc = client[c].pc
      /\ \A d \in Clients : d # c => client'[d] = client[d]
  BY <1>4, <1>5 DEF ClientStates
<1>7. /\ up'[c] = up[c] \o Datagrams(m, 1) /\ down'[c] = rest
      /\ \A d \in Clients : d # c => up'[d] = up[d]
  BY <1>4, <1>5
<1> QED  BY <1>6, <1>7

LEMMA RestNext ==
    ASSUME Enough, IInv, IInv', Bounds, Bounds', NEW c \in Clients, UNCHANGED <<setting, lost>>,
           Ahead(c)' = Ahead(c), client'[c].attempt = client[c].attempt + 1
    PROVE  Rest(c)' = Rest(c) - 1 + (HalfOpen(c) - HalfOpen(c)')
<1>1. Numbers(c) /\ Numbers(c)'
  BY NumbersAre, NumbersNext
<1>2. /\ HalfOpen(c) \in Int /\ HalfOpen(c)' \in Int
      /\ setting.attempts \in Nat /\ setting.losses \in Nat
      /\ Rest(c) \in Int /\ Rest(c)' \in Int
      /\ client[c].attempt \in Nat /\ lost \in Nat /\ Cardinality(Ahead(c)) \in Nat
  BY <1>1 DEF Numbers
<1>3. /\ Rest(c) = setting.attempts - client[c].attempt
              - 4 * Cardinality(Ahead(c)) - 2 * (setting.losses - lost) - HalfOpen(c)
      /\ Rest(c)' = setting.attempts - (client[c].attempt + 1)
              - 4 * Cardinality(Ahead(c)) - 2 * (setting.losses - lost) - HalfOpen(c)'
  BY DEF Rest
<1> QED  BY <1>2, <1>3

\* Only c can wait, and the server has what it had.
LEMMA OneAsks ==
    ASSUME Budget, Bounds', NEW c \in Clients, server'.partials = server.partials,
           \A d \in Clients : d # c => up'[d] = up[d] /\ client'[d].pc # "waiting",
           Sparse(c)', client'[c].pc = "waiting" => Hearing(c)' /\ Pays(c)'
    PROVE  Budget'
<1>1. ASSUME NEW d \in Clients PROVE Sparse(d)'
  <2>1. CASE d = c
    BY <2>1
  <2>2. CASE d # c
    <3>1. up'[d] = up[d] /\ Sparse(d)
      BY <2>2 DEF Budget
    <3> QED  BY <3>1 DEF Sparse
  <2> QED  BY <2>1, <2>2
<1>2. ASSUME NEW d \in Clients, client'[d].pc = "waiting" PROVE Hearing(d)' /\ Pays(d)'
  <2>1. d = c
    BY <1>2
  <2> QED  BY <1>2, <2>1
<1> QED  BY <1>1, <1>2 DEF Budget

\* Nothing of the others changes, nor whom the server serves.
LEMMA SameAhead ==
    ASSUME NEW c \in Clients, server'.partials = server.partials, server'.pc = server.pc,
           server'.peer = server.peer, \A d \in Clients : d # c => up'[d] = up[d]
    PROVE  Ahead(c)' = Ahead(c)
<1>1. \A d : Serving(d)' <=> Serving(d)
  BY DEF Serving
<1>2. \A d \in Clients : d # c =>
         (NoFirst(d, up'[d], server'.partials) <=> NoFirst(d, up[d], server.partials))
  OBVIOUS
<1> QED  BY <1>1, <1>2 DEF Ahead

LEMMA LeaveBudget ==
    ASSUME Enough, IInv, IInv', Budget, NEW c \in Clients, Leave(c)
    PROVE  Budget'
<1>1. /\ client' = [client EXCEPT ![c] = [Idle EXCEPT !.pc = "gone"]]
      /\ down' = [down EXCEPT ![c] = <<>>]
      /\ UNCHANGED <<setting, up, server, secret, bucket, lost>>
  BY DEF Leave
<1>2. [Idle EXCEPT !.pc = "gone"].pc = "gone"
  BY DEF Idle
<1>3. \A d \in Clients : /\ d # c => client'[d] = client[d] /\ down'[d] = down[d]
                         /\ d = c => client'[d].pc = "gone"
  BY <1>1, <1>2 DEF IInv, TypeOK
<1>4. Bounds /\ Bounds'
  BY <1>1 DEF Budget, Bounds
<1>5. ASSUME NEW d \in Clients PROVE Sparse(d)'
  BY <1>1 DEF Budget, Sparse
<1>6. ASSUME NEW d \in Clients, client'[d].pc = "waiting" PROVE Hearing(d)' /\ Pays(d)'
  <2>1. client'[d] = client[d] /\ down'[d] = down[d] /\ client[d].pc = "waiting"
    BY <1>3, <1>6
  <2>2. Hearing(d) /\ Pays(d) /\ Numbers(d)
    BY <1>4, <2>1, NumbersAre DEF Budget
  <2>3. Hearing(d)'
    BY <1>1, <2>1, <2>2 DEF Hearing, Reply
  <2>4. Serving(d)' = Serving(d) /\ Asked(d)' = Asked(d) /\ Ahead(d)' = Ahead(d)
        /\ HalfOpen(d)' = HalfOpen(d)
    BY <1>1, <2>1, SameAhead DEF Serving, Asked, HalfOpen
  <2>5. Rest(d)' = Rest(d) /\ Again(d)' = Again(d) /\ Turn' = Turn
    BY <1>1, <2>1, <2>4 DEF Rest, Again, Turn
  <2>6. Rest(d)' >= Rest(d) + 0 /\ Again(d)' <= Again(d) + 0 /\ Turn' <= Turn + 0
    BY <2>2, <2>5 DEF Numbers
  <2> QED  BY <1>1, <1>4, <2>1, <2>2, <2>3, <2>6, PaysKept
<1> QED  BY <1>4, <1>5, <1>6 DEF Budget

\* What client c reads.
LEMMA ClientReads ==
    ASSUME Enough, IInv, CInv, Budget, NEW c \in Clients, client[c].pc = "waiting", down[c] # <<>>
    PROVE  LET q == down[c]
               m == Head(q).msg
               r == push_parts(client[c].partials, Head(q).id, Head(q).part, Head(q).msg)
           IN /\ q \in Seq(Fragments(Messages)) /\ client[c].partials \in Partials(Messages)
              /\ Tags(q) /\ m \in Messages /\ m.cookie \in Cookies
              /\ Reply(c, m) /\ \A i \in 1 .. Len(q) : q[i].msg = m
              /\ DOMAIN client[c].partials \subseteq {m} /\ DOMAIN r.left \subseteq {m}
              /\ NoFirst(c, up[c], server.partials)
              /\ Few(c, up[c], server.partials, {client[c].init})
              /\ Clean(c, up[c], server.partials, client[c].init, client[c].attempt)
              /\ m \in DOMAIN client[c].partials
                    \/ ~(Cardinality(DOMAIN client[c].partials) >= MAX_PENDING_MSGS)
              /\ r.out # {} => /\ Tail(q) = <<>> /\ Answering(c, m)
                               /\ \A parts \in r.out : Decode(parts) = m
<1> DEFINE q == down[c]
           m == Head(q).msg
           ps == client[c].partials
           r == push_parts(ps, Head(q).id, Head(q).part, Head(q).msg)
<1>1. q \in Seq(Fragments(Messages)) /\ ps \in Partials(Messages)
  BY DEF IInv, TypeOK, ClientStates
<1>2. /\ Head(q).id \in MsgIds /\ Head(q).part \in 1 .. FRAGS /\ m \in Messages
      /\ Head(q) = q[1] /\ 1 \in 1 .. Len(q) /\ Len(Tail(q)) = Len(q) - 1 /\ Len(q) \in Nat
  BY <1>1, FragmentType, TailSuffix
<1>3. /\ Tags(q) /\ Own(ps) /\ Answer(q, ps, challenges, made)
      /\ NoFirst(c, up[c], server.partials)
      /\ Clean(c, up[c], server.partials, client[c].init, client[c].attempt)
  BY DEF CInv, Local, Asking, Answered
<1>4. PICK n : /\ \A i \in 1 .. Len(q) : q[i].msg = n /\ Reply(c, n)
               /\ DOMAIN ps \subseteq {n}
  BY DEF Budget, Hearing
<1>5. n = m
  BY <1>2, <1>4
<1>6. Head(q).id = m
  BY <1>2, <1>3 DEF Tags
<1>7. /\ Reply(c, m) /\ \A i \in 1 .. Len(q) : q[i].msg = m
      /\ DOMAIN ps \subseteq {m}
  BY <1>2, <1>4, <1>5
<1>8. DOMAIN r.left \subseteq {m}
  <2>1. \A k \in DOMAIN r.left : k # m => k \in DOMAIN ps
    BY <1>1, <1>2, <1>6, PushEffect
  <2> QED  BY <1>7, <2>1
<1>9. m \in DOMAIN ps \/ ~(Cardinality(DOMAIN ps) >= MAX_PENDING_MSGS)
  <2>1. m \notin DOMAIN ps => DOMAIN ps = {}
    BY <1>7
  <2>2. Cardinality({}) = 0 /\ MAX_PENDING_MSGS \in Nat /\ MAX_PENDING_MSGS > 1
    BY FS_EmptySet, ConstantTypes DEF Enough
  <2>3. ~(0 >= MAX_PENDING_MSGS)
    BY <2>2
  <2> QED  BY <2>1, <2>2, <2>3
<1>10. Few(c, up[c], server.partials, {client[c].init})
  BY DEF Budget, Hearing
<1>11. m.cookie \in Cookies
  BY <1>2 DEF Messages
<1>12. ASSUME r.out # {}
       PROVE  /\ Tail(q) = <<>> /\ Answering(c, m)
              /\ \A parts \in r.out : Decode(parts) = m
  <2>1. r = push_parts(ps, Head(q).id, Head(q).part, Head(q).msg) /\ q # <<>>
    OBVIOUS
  <2>2. PICK some \in r.out : TRUE
    BY <1>12
  <2> HIDE DEF q, ps, r
  <2>3. Tail(q) = <<>>
    BY <1>1, <1>3, <1>12, <2>1, AnswerPush
  <2>4. \A parts \in r.out : /\ \A p \in 1 .. FRAGS : parts[p] = Head(q).msg
                             /\ \A p \in 1 .. FRAGS : p = Head(q).part \/ Has(ps, Head(q).msg, p)
    BY <1>1, <1>3, <2>1, Completed
  <2>5. Len(q) = 1
    <3>1. Len(<<>>) = 0
      OBVIOUS
    <3>2. Len(Tail(q)) = 0
      BY <2>3, <3>1
    <3> QED  BY <1>2, <3>2
  <2>6. q[Len(q)].msg = m
    BY <1>2, <2>5 DEF m
  <2>7. \A p \in 1 .. FRAGS : \/ \E i \in 1 .. Len(q) : q[i].msg = m /\ q[i].part = p
                              \/ Has(ps, m, p)
    BY <1>2, <2>2, <2>4 DEF m
  <2>8. Coming(m, q, ps)
    BY <2>1, <2>6, <2>7 DEF Coming
  <2>9. \A parts \in r.out : Decode(parts) = m
    <3> TAKE parts \in r.out
    <3>1. parts[1] = m /\ parts[2] = m
      BY <2>4, ConstantTypes DEF m
    <3> QED  BY <1>2, <3>1, DecodesTo
  <2> QED  BY <2>3, <2>8, <2>9 DEF Answering, q, ps
<1> QED  BY <1>1, <1>2, <1>3, <1>7, <1>8, <1>9, <1>10, <1>11, <1>12

\* A fragment that completes nothing.
LEMMA HearsBudget ==
    ASSUME Enough, IInv, IInv', CInv, Turns, Budget, NEW c \in Clients,
           client[c].pc = "waiting", down[c] # <<>>,
           NEW r, r = push_parts(client[c].partials, Head(down[c]).id, Head(down[c]).part,
                                 Head(down[c]).msg),
           r.out = {}, down' = [down EXCEPT ![c] = Tail(down[c])],
           client' = [client EXCEPT ![c].partials = r.left],
           UNCHANGED <<setting, up, server, secret, bucket, lost>>
    PROVE  Budget'
<1> DEFINE q == down[c]
           m == Head(q).msg
<1>1. /\ q \in Seq(Fragments(Messages)) /\ client[c].partials \in Partials(Messages) /\ Tags(q)
      /\ Reply(c, m) /\ \A i \in 1 .. Len(q) : q[i].msg = m
      /\ DOMAIN r.left \subseteq {m} /\ NoFirst(c, up[c], server.partials)
      /\ Few(c, up[c], server.partials, {client[c].init})
      /\ m \in DOMAIN client[c].partials
            \/ ~(Cardinality(DOMAIN client[c].partials) >= MAX_PENDING_MSGS)
  BY ClientReads
<1>2. /\ \A i \in 1 .. Len(Tail(q)) : i + 1 \in 1 .. Len(q) /\ Tail(q)[i] = q[i + 1]
  BY <1>1, TailSuffix
<1>3. /\ client'[c].pc = "waiting" /\ client'[c].attempt = client[c].attempt
      /\ client'[c].init = client[c].init /\ client'[c].partials = r.left
      /\ down'[c] = Tail(q) /\ \A d \in Clients : d # c => client'[d] = client[d]
  BY DEF IInv, TypeOK, ClientStates
<1>4. Bounds /\ Bounds'
  BY DEF Budget, Bounds
<1>5. \A d \in Clients : d # c => up'[d] = up[d] /\ client'[d].pc # "waiting"
  BY <1>3, Alone
<1>6. Sparse(c)'
  BY DEF Budget, Sparse
<1>7. Hearing(c) /\ Pays(c) /\ Numbers(c)
  BY <1>4, NumbersAre DEF Budget
<1>8. Hearing(c)'
  <2>1. \A i \in 1 .. Len(Tail(q)) : Tail(q)[i].msg = m
    BY <1>1, <1>2
  <2>3. Reply(c, m) /\ DOMAIN r.left \subseteq {m}
    BY <1>1
  <2>4. down'[c] = Tail(q) /\ client'[c].partials = r.left
    BY <1>3
  <2> HIDE DEF q, m
  <2>2. \E n : /\ \A i \in 1 .. Len(down'[c]) : down'[c][i].msg = n /\ Reply(c, n)
               /\ DOMAIN client'[c].partials \subseteq {n}
    BY <2>1, <2>3, <2>4
  <2> QED  BY <1>1, <1>3, <1>7, <2>2 DEF Hearing, Reply
<1>9. \A k : Answering(c, k)' <=> Answering(c, k)
  <2> TAKE k
  <2>1. r = push_parts(client[c].partials, Head(q).id, Head(q).part, Head(q).msg) /\ q # <<>>
    OBVIOUS
  <2> HIDE DEF q
  <2>2. Coming(k, Tail(q), r.left) <=> Coming(k, q, client[c].partials)
    BY <1>1, <2>1, ComingPush DEF m
  <2> QED  BY <1>3, <2>2 DEF Answering, q
<1>10. Pays(c)'
  <2>1. /\ Ahead(c)' = Ahead(c) /\ Serving(c)' = Serving(c) /\ Asked(c)' = Asked(c)
        /\ HalfOpen(c)' = HalfOpen(c)
    BY <1>3, <1>5, SameAhead DEF Serving, Asked, HalfOpen
  <2>2. Rest(c)' = Rest(c) /\ Again(c)' = Again(c) /\ Turn' = Turn
    BY <1>3, <2>1 DEF Rest, Again, Turn
  <2>3. \A ck : Cost(c, ck)' = Cost(c, ck)
    BY DEF Cost, ValidCookie, Left
  <2> QED  BY <1>3, <1>7, <1>9, <2>2, <2>3 DEF Pays
<1> QED  BY <1>4, <1>5, <1>6, <1>8, <1>10, OneAsks

\* A complete cookie: the next attempt asks with it.
LEMMA CookieBudget ==
    ASSUME Enough, IInv, IInv', Calm, CInv, Turns, Budget, NEW c \in Clients,
           client[c].pc = "waiting", down[c] # <<>>, NEW m, m = Head(down[c]).msg,
           m.type = "Challenge", Answering(c, m), NEW N,
           N.type = "Init", N.build = client[c].attempt + 1, N.cookie = m.cookie,
           NextAttempt(c, N, <<>>),
           UNCHANGED <<setting, server, secret, bucket, lost>>
    PROVE  Budget' /\ client'[c].pc = "waiting"
<1>1. /\ m.cookie \in Cookies /\ NoFirst(c, up[c], server.partials)
      /\ Few(c, up[c], server.partials, {client[c].init})
      /\ Clean(c, up[c], server.partials, client[c].init, client[c].attempt)
  BY ClientReads
<1>2. /\ N.type = "Init" /\ N.build = client[c].attempt + 1 /\ N.cookie = m.cookie
  OBVIOUS
<1>3. Bounds /\ Numbers(c) /\ Pays(c) /\ Hearing(c)
  BY NumbersAre DEF Budget
<1>4. Rest(c) >= Turn + Cost(c, m.cookie) /\ Cost(c, m.cookie) \in Nat
  BY <1>1, <1>3, CostNat DEF Pays
<1>5. Rest(c) >= 1
  BY <1>3, <1>4 DEF Numbers
<1>6. /\ client'[c].attempt = client[c].attempt + 1 /\ client'[c].init = N
      /\ client'[c].partials = NoPartials /\ client'[c].pc = "waiting"
      /\ up'[c] = up[c] \o Datagrams(N, 1) /\ down'[c] = <<>>
      /\ \A d \in Clients : d # c => up'[d] = up[d] /\ client'[d] = client[d]
  <2>1. NextAttempt(c, N, <<>>)
    OBVIOUS
  <2>2. /\ client'[c].attempt = client[c].attempt + 1 /\ client'[c].init = N
        /\ client'[c].partials = NoPartials /\ client'[c].pc = client[c].pc
        /\ up'[c] = up[c] \o Datagrams(N, 1) /\ down'[c] = <<>>
        /\ \A d \in Clients : d # c => up'[d] = up[d] /\ client'[d] = client[d]
    BY <1>3, <1>5, <2>1, AttemptLeft
  <2> QED  BY <2>2
<1>7. Bounds'
  BY <1>3 DEF Bounds
<1>8. \A d \in Clients : d # c => up'[d] = up[d] /\ client'[d].pc # "waiting"
  BY <1>6, Alone
<1>9. up[c] \in Seq(Fragments(Messages)) /\ setting.obf /\ client[c].attempt \in Nat
  BY <1>3 DEF IInv, TypeOK, Calm, Numbers
<1>10. Few(c, up'[c], server.partials, {client[c].init, N})
  <2>1. Few(c, up[c] \o Datagrams(N, 1), server.partials, {client[c].init} \cup {N})
    BY <1>1, <1>9, FewAppend
  <2>2. {client[c].init} \cup {N} = {client[c].init, N}
    OBVIOUS
  <2> QED  BY <1>6, <2>1, <2>2
<1>11. Clean(c, up'[c], server.partials, N, client[c].attempt + 1)
  <2> DEFINE a == client[c].attempt
  <2>1. \A k : k \in 0 .. a => k \in 0 .. (a + 1) /\ k # a + 1
    BY <1>9
  <2>2. \A i \in 1 .. Len(up[c]) : /\ up[c][i].msg.build \in 0 .. (a + 1)
                                   /\ up[c][i].msg # N /\ up[c][i].part # 1
    BY <1>1, <1>2, <2>1 DEF Clean, NoFirst
  <2>3. \A k \in DOMAIN server.partials : k.client = c =>
           k.build \in 0 .. (a + 1) /\ (k # N => 1 \notin DOMAIN server.partials[k])
    BY <1>1, <2>1 DEF Clean, NoFirst
  <2>4. a + 1 \in Nat /\ N.build \in 0 .. (a + 1)
    BY <1>2, <1>9
  <2> HIDE DEF a
  <2>5. Clean(c, up[c] \o Datagrams(N, 1), server.partials, N, a + 1)
    BY <1>9, <2>2, <2>3, <2>4, CleanAppend
  <2> QED  BY <1>6, <2>5 DEF a
<1>12. Sparse(c)'
  BY <1>10, <1>11 DEF Sparse
<1>13. Hearing(c)'
  <2>1. 1 .. Len(<<>>) = {} /\ DOMAIN NoPartials = {}
    BY DEF NoPartials
  <2> QED  BY <1>2, <1>6, <1>10, <2>1 DEF Hearing
<1>14. Pays(c)'
  <2>1. /\ Ahead(c)' = Ahead(c) /\ HalfOpen(c)' = HalfOpen(c)
    BY <1>8, SameAhead DEF HalfOpen
  <2>2. Rest(c)' = Rest(c) - 1
    <3>1. Rest(c)' = Rest(c) - 1 + (HalfOpen(c) - HalfOpen(c)')
      BY <1>3, <1>6, <1>7, <2>1, RestNext
    <3>2. Rest(c) \in Int /\ HalfOpen(c) \in Int
      BY <1>3 DEF Numbers
    <3> QED  BY <2>1, <3>1, <3>2
  <2>3. Cost(c, m.cookie)' = Cost(c, m.cookie)
    BY DEF Cost, ValidCookie, Left
  <2>4. Asked(c)'
    <3>1. Coming(N, up[c] \o Datagrams(N, 1), server'.partials)
      BY <1>9, ComingNew
    <3> QED  BY <1>6, <3>1 DEF Asked
  <2>5. Again(c)' + 1 <= Turn
    BY <2>4 DEF Again, Turn, Serving
  <2>6. \A k : ~Answering(c, k)'
    BY <1>6 DEF Answering, Coming
  <2>7. Again(c)' \in 0 .. 2
    BY <1>7, NumbersNext DEF Numbers
  <2>8. Rest(c)' >= Again(c)' + Cost(c, m.cookie)
    BY <1>3, <1>4, <2>2, <2>5, <2>7 DEF Numbers
  <2>9. client'[c].init.cookie = m.cookie
    BY <1>2, <1>6
  <2> QED  BY <2>3, <2>6, <2>8, <2>9 DEF Pays
<1> QED  BY <1>6, <1>7, <1>8, <1>12, <1>13, <1>14, OneAsks

\* A complete Response is the one that c asked for, and c is up with its Confirm on the way.
LEMMA ResponseBudget ==
    ASSUME Enough, IInv, IInv', Calm, CInv, Turns, Budget, NEW c \in Clients,
           client[c].pc = "waiting", down[c] # <<>>, NEW K, K.type = "Confirm", K.build = 0,
           NEW r, r.pc = "up", client' = [client EXCEPT ![c] = r],
           up' = [up EXCEPT ![c] = up[c] \o Datagrams(K, 1)],
           UNCHANGED <<setting, server, secret, bucket, lost>>
    PROVE  Budget' /\ client'[c].pc # "failed"
<1>1. /\ NoFirst(c, up[c], server.partials)
      /\ Few(c, up[c], server.partials, {client[c].init})
      /\ Clean(c, up[c], server.partials, client[c].init, client[c].attempt)
  BY ClientReads
<1>2. /\ client'[c].pc = "up" /\ up'[c] = up[c] \o Datagrams(K, 1)
      /\ \A d \in Clients : d # c => up'[d] = up[d] /\ client'[d] = client[d]
  BY DEF IInv, TypeOK
<1>3. Bounds /\ Bounds'
  BY DEF Budget, Bounds
<1>4. \A d \in Clients : d # c => up'[d] = up[d] /\ client'[d].pc # "waiting"
  BY <1>2, Alone
<1>5. /\ up[c] \in Seq(Fragments(Messages)) /\ setting.obf /\ client[c].attempt \in Nat
      /\ client[c].init.type = "Init"
  BY DEF IInv, TypeOK, Calm, ClientStates, Budget, Hearing
<1>6. Few(c, up'[c], server.partials, {client[c].init, K})
  <2>1. Few(c, up[c] \o Datagrams(K, 1), server.partials, {client[c].init} \cup {K})
    BY <1>1, <1>5, FewAppend
  <2>2. {client[c].init} \cup {K} = {client[c].init, K}
    OBVIOUS
  <2> QED  BY <1>2, <2>1, <2>2
<1>7. Clean(c, up'[c], server.partials, K, client[c].attempt)
  <2> DEFINE a == client[c].attempt
  <2>1. \A i \in 1 .. Len(up[c]) : /\ up[c][i].msg.build \in 0 .. a
                                   /\ up[c][i].msg # K /\ up[c][i].part # 1
    BY <1>1, <1>5 DEF Clean, NoFirst, Few
  <2>2. \A k \in DOMAIN server.partials : k.client = c =>
           k.build \in 0 .. a /\ (k # K => 1 \notin DOMAIN server.partials[k])
    BY <1>1 DEF Clean, NoFirst
  <2>3. a \in Nat /\ K.build \in 0 .. a
    BY <1>5
  <2> HIDE DEF a
  <2>4. Clean(c, up[c] \o Datagrams(K, 1), server.partials, K, a)
    BY <1>5, <2>1, <2>2, <2>3, CleanAppend
  <2> QED  BY <1>2, <2>4 DEF a
<1>8. Sparse(c)'
  BY <1>6, <1>7 DEF Sparse
<1> QED  BY <1>2, <1>3, <1>4, <1>8, OneAsks

LEMMA ClientReceiveBudget ==
    ASSUME Enough, IInv, IInv', Calm, CInv, Turns, Budget, NEW c \in Clients, ClientReceive(c)
    PROVE  Budget' /\ client'[c].pc # "failed"
<1> DEFINE q == down[c]
           m == Head(q).msg
           r == push_parts(client[c].partials, Head(q).id, Head(q).part, Head(q).msg)
           N == Message("Init", c, client[c].attempt + 1, None, m.cookie, None)
           K == Message("Confirm", c, 0, None, NoCookie, m.sess)
           s == [Idle EXCEPT !.pc = "up", !.sess = m.sess]
<1>1. client[c].pc = "waiting" /\ q # <<>>
      /\ UNCHANGED <<setting, server, secret, bucket, lost>>
  BY DEF ClientReceive
<1>2. /\ Reply(c, m)
      /\ r.out # {} => /\ Tail(q) = <<>> /\ Answering(c, m)
                       /\ \A parts \in r.out : Decode(parts) = m
  BY <1>1, ClientReads
<1>3. \/ /\ r.out = {}
         /\ down' = [down EXCEPT ![c] = Tail(q)]
         /\ client' = [client EXCEPT ![c].partials = r.left]
         /\ UNCHANGED up
      \/ \E parts \in r.out :
            \/ /\ Decode(parts).type = "Challenge"
               /\ NextAttempt(c, Message("Init", c, client[c].attempt + 1, None,
                                         Decode(parts).cookie, None), Tail(q))
            \/ /\ Decode(parts).type # "Challenge"
               /\ client' = [client EXCEPT ![c] = [Idle EXCEPT !.pc = "up",
                                                               !.sess = Decode(parts).sess]]
               /\ up' = [up EXCEPT ![c] = up[c] \o
                            Datagrams(Message("Confirm", c, 0, None, NoCookie,
                                              Decode(parts).sess), 1)]
            \/ Decode(parts).type # "Challenge" /\ ~Finalizes(c, Decode(parts))
  BY DEF ClientReceive
<1>4. ~(m.type # "Challenge" /\ ~Finalizes(c, m))
  BY <1>2 DEF Reply, Finalizes
<1>5. \/ /\ r.out = {}
         /\ down' = [down EXCEPT ![c] = Tail(q)]
         /\ client' = [client EXCEPT ![c].partials = r.left]
         /\ UNCHANGED up
      \/ m.type = "Challenge" /\ Answering(c, m) /\ NextAttempt(c, N, <<>>)
      \/ client' = [client EXCEPT ![c] = s] /\ up' = [up EXCEPT ![c] = up[c] \o Datagrams(K, 1)]
  <2>1. CASE r.out = {}
    BY <1>3, <2>1
  <2>2. ASSUME NEW parts \in r.out
        PROVE  Tail(q) = <<>> /\ Answering(c, m) /\ Decode(parts) = m
    BY <1>2, <2>2
  <2> HIDE DEF q, r
  <2> QED  BY <1>3, <1>4, <2>1, <2>2
<1>6. CASE /\ r.out = {}
           /\ down' = [down EXCEPT ![c] = Tail(q)]
           /\ client' = [client EXCEPT ![c].partials = r.left]
           /\ UNCHANGED up
  <2>1. client'[c].pc = "waiting"
    BY <1>1, <1>6 DEF IInv, TypeOK, ClientStates
  <2>2. Budget'
    BY <1>1, <1>6, HearsBudget
  <2> QED  BY <2>1, <2>2
<1>7. CASE m.type = "Challenge" /\ Answering(c, m) /\ NextAttempt(c, N, <<>>)
  <2>1. N.type = "Init" /\ N.build = client[c].attempt + 1 /\ N.cookie = m.cookie
    BY DEF Message
  <2>2. m = Head(down[c]).msg
    OBVIOUS
  <2> HIDE DEF N, m
  <2> QED  BY <1>1, <1>7, <2>1, <2>2, CookieBudget
<1>8. CASE client' = [client EXCEPT ![c] = s] /\ up' = [up EXCEPT ![c] = up[c] \o Datagrams(K, 1)]
  <2>1. K.type = "Confirm" /\ K.build = 0 /\ s.pc = "up"
    BY DEF Message, Idle
  <2> HIDE DEF K, s
  <2> QED  BY <1>1, <1>8, <2>1, ResponseBudget
<1> QED  BY <1>5, <1>6, <1>7, <1>8

LEMMA AttemptTimeoutBudget ==
    ASSUME Enough, IInv, IInv', Calm, CInv, CInv', Turns, Budget, NEW c \in Clients,
           AttemptTimeout(c)
    PROVE  Budget' /\ client'[c].pc # "failed"
<1> DEFINE B == client[c].init
<1>1. /\ client[c].pc = "waiting" /\ up[c] = <<>> /\ down[c] = <<>>
      /\ server.pc = "confirm" => server.waited < 3
      /\ NextAttempt(c, B, <<>>)
      /\ server' = IF server.pc = "confirm" THEN [server EXCEPT !.waited = server.waited + 1]
                                            ELSE server
      /\ UNCHANGED <<setting, secret, bucket, lost>>
  BY DEF AttemptTimeout, Calm, Quiet
<1>2. /\ server'.pc = server.pc /\ server'.peer = server.peer
      /\ server'.partials = server.partials
      /\ server.pc = "confirm" => server'.waited = server.waited + 1
      /\ server.pc # "confirm" => server'.waited = server.waited
  BY <1>1 DEF IInv, TypeOK, ServerStates
<1>3. Bounds /\ Numbers(c) /\ Pays(c) /\ Hearing(c)
  BY <1>1, NumbersAre DEF Budget
<1>4. B \in Messages /\ B.cookie \in Cookies /\ up[c] \in Seq(Fragments(Messages)) /\ setting.obf
  BY DEF IInv, TypeOK, ClientStates, Messages, Calm
<1>5. Cost(c, B.cookie) \in Nat
  BY <1>3, <1>4, CostNat
<1>6. ~Asked(c) /\ \A m : ~Answering(c, m)
  BY <1>1 DEF Asked, Answering, Coming
<1>7. Rest(c) >= Again(c) + Cost(c, B.cookie) /\ Again(c) \in 1 .. 2
  <2>1. Again(c) = IF Serving(c) THEN 2 ELSE 1
    BY <1>6 DEF Again
  <2>2. Again(c) \in 1 .. 2
    BY <2>1
  <2> QED  BY <1>3, <1>6, <2>2 DEF Pays
<1>8. Rest(c) >= 1
  <2>1. Rest(c) \in Int
    BY <1>3 DEF Numbers
  <2> HIDE DEF B
  <2> QED  BY <1>5, <1>7, <2>1
<1>9. /\ client'[c].attempt = client[c].attempt + 1 /\ client'[c].init = B
      /\ client'[c].partials = NoPartials /\ client'[c].pc = "waiting"
      /\ up'[c] = up[c] \o Datagrams(B, 1) /\ down'[c] = <<>>
      /\ \A d \in Clients : d # c => up'[d] = up[d] /\ client'[d] = client[d]
  <2> HIDE DEF B
  <2>1. /\ client'[c].attempt = client[c].attempt + 1 /\ client'[c].init = B
        /\ client'[c].partials = NoPartials /\ client'[c].pc = client[c].pc
        /\ up'[c] = up[c] \o Datagrams(B, 1) /\ down'[c] = <<>>
        /\ \A d \in Clients : d # c => up'[d] = up[d] /\ client'[d] = client[d]
    BY <1>1, <1>3, <1>8, AttemptLeft
  <2> QED  BY <1>1, <2>1
<1>10. Bounds'
  <2>1. server'.waited <= 3
    BY <1>1, <1>2, <1>3 DEF Bounds, Numbers
  <2> QED  BY <1>1, <1>2, <1>3, <2>1 DEF Bounds
<1>11. \A d \in Clients : d # c => up'[d] = up[d] /\ client'[d].pc # "waiting"
  BY <1>1, <1>9, Alone
<1>12. \E x : Few(c, up'[c], server.partials, {x, B})
  <2>1. PICK x : Few(c, up[c], server.partials, {x, B})
    BY <1>3 DEF Hearing
  <2>2. {x, B} \cup {B} = {x, B}
    OBVIOUS
  <2> DEFINE S == {x, B}
  <2>3. Few(c, up[c], server.partials, S)
    BY <2>1
  <2> HIDE DEF S
  <2>4. Few(c, up[c] \o Datagrams(B, 1), server.partials, S \cup {B})
    BY <1>4, <2>3, FewAppend
  <2>5. Few(c, up[c] \o Datagrams(B, 1), server.partials, {x, B})
    BY <2>2, <2>4 DEF S
  <2> QED  BY <1>9, <2>5
<1>13. Sparse(c)'
  <2>1. Clean(c, up'[c], server'.partials, client'[c].init, client'[c].attempt)
    BY <1>9 DEF CInv, Local, Asking
  <2> QED  BY <1>2, <1>12, <2>1 DEF Sparse
<1>14. Hearing(c)'
  <2>1. 1 .. Len(<<>>) = {} /\ DOMAIN NoPartials = {}
    BY DEF NoPartials
  <2> QED  BY <1>2, <1>3, <1>9, <1>12, <2>1 DEF Hearing
<1>15. Pays(c)'
  <2>1. Ahead(c)' = Ahead(c) /\ Serving(c)' = Serving(c)
    BY <1>2, <1>11, SameAhead DEF Serving
  <2>2. Rest(c)' = Rest(c) - 1 + (HalfOpen(c) - HalfOpen(c)')
    BY <1>1, <1>3, <1>9, <1>10, <2>1, RestNext
  <2>3. Asked(c)'
    <3>1. Coming(B, up[c] \o Datagrams(B, 1), server'.partials)
      BY <1>4, ComingNew
    <3> QED  BY <1>9, <3>1 DEF Asked
  <2>4. \A m : ~Answering(c, m)'
    BY <1>9 DEF Answering, Coming
  <2>5. \A ck : Cost(c, ck)' = Cost(c, ck)
    BY <1>1 DEF Cost, ValidCookie, Left
  <2>6. Numbers(c)'
    BY <1>10, NumbersNext
  <2>7. Again(c)' + 1 <= Again(c) + (HalfOpen(c) - HalfOpen(c)')
    <3>1. CASE Serving(c)
      <4>1. Again(c) = 2 /\ Again(c)' = 1
        BY <1>6, <2>1, <2>3, <3>1 DEF Again
      <4>2. HalfOpen(c) = 0 /\ HalfOpen(c)' = 0
        BY <1>2, <3>1 DEF HalfOpen, Serving
      <4> QED  BY <4>1, <4>2
    <3>2. CASE server.pc = "listen"
      <4>1. ~Serving(c)
        BY <3>2 DEF Serving
      <4>2. Again(c) = 1 /\ Again(c)' = 0
        BY <1>2, <1>6, <2>1, <2>3, <3>2, <4>1 DEF Again
      <4>3. HalfOpen(c) = 0 /\ HalfOpen(c)' = 0
        BY <1>2, <3>2 DEF HalfOpen
      <4> QED  BY <4>2, <4>3
    <3>3. CASE server.pc = "confirm" /\ ~Serving(c)
      <4>1. Again(c) = 1 /\ Again(c)' = 1
        BY <1>2, <2>1, <3>3 DEF Again
      <4>2. HalfOpen(c) = 3 - server.waited /\ HalfOpen(c)' = 3 - (server.waited + 1)
        BY <1>2, <3>3 DEF HalfOpen, Serving
      <4>3. server.waited \in Nat
        BY <1>3 DEF Numbers
      <4> QED  BY <4>1, <4>2, <4>3
    <3>4. server.pc \in {"listen", "confirm"}
      BY <1>3 DEF Bounds, IInv, TypeOK, ServerStates
    <3> QED  BY <3>1, <3>2, <3>3, <3>4
  <2>8. Rest(c)' >= Again(c)' + Cost(c, B.cookie)
    <3>1. /\ Rest(c) \in Int /\ Rest(c)' \in Int /\ Again(c) \in Int /\ Again(c)' \in Int
          /\ HalfOpen(c) \in Int /\ HalfOpen(c)' \in Int
      BY <1>3, <2>6 DEF Numbers
    <3> HIDE DEF B
    <3> QED  BY <1>5, <1>7, <2>2, <2>7, <3>1
  <2> QED  BY <1>9, <2>4, <2>5, <2>8 DEF Pays
<1> QED  BY <1>2, <1>9, <1>10, <1>11, <1>13, <1>14, <1>15, OneAsks

LEMMA StartBudget ==
    ASSUME Enough, IInv, IInv', Calm, CInv, CInv', Budget, NEW c \in Clients, Start(c)
    PROVE  Budget'
<1> DEFINE m == Message("Init", c, 1, None, NoCookie, None)
           r == [Idle EXCEPT !.pc = "waiting", !.attempt = 1, !.init = m]
           q == Datagrams(m, 1)
           most == 2 + 4 * (Cardinality(Clients) - 1) + 2 * setting.losses + (setting.windows \div 2)
<1>1. /\ client[c].pc = "idle" /\ Waiting = {}
      /\ client' = [client EXCEPT ![c] = r] /\ up' = [up EXCEPT ![c] = q]
      /\ UNCHANGED <<setting, down, server, secret, bucket, lost>>
  BY DEF Start
<1>2. /\ up[c] = <<>> /\ ~Serving(c) /\ \A k \in DOMAIN server.partials : k.client # c
      /\ down[c] = <<>>
  BY <1>1 DEF CInv, Local
<1>3. r.pc = "waiting" /\ r.attempt = 1 /\ r.init = m /\ r.partials = NoPartials
  BY DEF Idle
<1>4. m.type = "Init" /\ m \in Messages /\ m.cookie \in Cookies
  BY MessageType, NoCookieType, ConstantTypes DEF Message
<1>5. q = up[c] \o Datagrams(m, 1) /\ up[c] \in Seq(Fragments(Messages)) /\ setting.obf
  <2>1. q \in Seq(Fragments({m}))
    BY <1>4, DatagramsType
  <2>2. up[c] \o q = q
    BY <1>2, <2>1
  <2> QED  BY <2>2 DEF IInv, TypeOK, Calm
<1> HIDE DEF m, r, q
<1>6. /\ client'[c].pc = "waiting" /\ client'[c].attempt = 1 /\ client'[c].init = m
      /\ client'[c].partials = NoPartials /\ up'[c] = q /\ down'[c] = <<>>
      /\ \A d \in Clients : d # c => up'[d] = up[d] /\ client'[d] = client[d]
  BY <1>1, <1>2, <1>3 DEF IInv, TypeOK
<1>7. \A d \in Clients : d # c => up'[d] = up[d] /\ client'[d].pc # "waiting"
  BY <1>1, <1>6 DEF Waiting
<1>8. Bounds /\ Bounds'
  BY <1>1 DEF Budget, Bounds
<1>9. Few(c, up'[c], server.partials, {m, m})
  <2>1. Few(c, up[c], server.partials, {})
    BY <1>2 DEF Few
  <2>2. Few(c, up[c] \o Datagrams(m, 1), server.partials, {} \cup {m})
    BY <1>5, <2>1, FewAppend
  <2>3. {} \cup {m} = {m, m}
    OBVIOUS
  <2> QED  BY <1>5, <1>6, <2>2, <2>3
<1>10. Sparse(c)'
  <2>1. Clean(c, up'[c], server'.partials, client'[c].init, client'[c].attempt)
    BY <1>6 DEF CInv, Local, Asking
  <2> QED  BY <1>1, <1>9, <2>1 DEF Sparse
<1>11. Hearing(c)'
  <2>1. 1 .. Len(<<>>) = {} /\ DOMAIN NoPartials = {}
    BY DEF NoPartials
  <2> QED  BY <1>1, <1>4, <1>6, <1>9, <2>1 DEF Hearing
<1>12. Pays(c)'
  <2>1. Ahead(c)' = Ahead(c)
    BY <1>1, <1>7, SameAhead
  <2>2. Asked(c)'
    <3>1. Coming(m, up[c] \o Datagrams(m, 1), server'.partials)
      BY <1>5, ComingNew
    <3> QED  BY <1>5, <1>6, <3>1 DEF Asked
  <2>3. \A k : ~Answering(c, k)'
    BY <1>6 DEF Answering, Coming
  <2>4. /\ Cost(c, m.cookie)' = Cost(c, m.cookie)
    <3>1. \A ck : Cost(c, ck)' = Cost(c, ck)
      BY <1>1 DEF Cost, ValidCookie, Left
    <3>2. m' = m
      BY DEF m, Message, None, NoCookie
    <3> QED  BY <3>1, <3>2
  <2>5. Cost(c, m.cookie) \in Nat /\ Cost(c, m.cookie) <= 1 + setting.windows \div 2
    BY <1>4, <1>8, CostNat
  <2>6. setting.attempts >= most
    <3>1. setting \in Settings
      BY DEF IInv, TypeOK
    <3> QED  BY <3>1 DEF Enough, Calm
  <2>7. Again(c)' + HalfOpen(c)' + 4 * Cardinality(Ahead(c)) <= 4 * (Cardinality(Clients) - 1)
    <3>1. /\ Cardinality(Ahead(c)) \in Nat /\ Cardinality(Clients) \in Nat
          /\ Cardinality(Ahead(c)) <= Cardinality(Clients) - 1
          /\ \A p \in Clients : p # c /\ p \notin Ahead(c) =>
                Cardinality(Ahead(c)) <= Cardinality(Clients) - 2
      BY AheadCount
    <3>2. ~Serving(c)'
      BY <1>1, <1>2 DEF Serving
    <3>3. CASE server.pc = "listen"
      <4>1. Again(c)' = 0 /\ HalfOpen(c)' = 0
        BY <1>1, <2>2, <3>2, <3>3 DEF Again, HalfOpen
      <4> QED  BY <3>1, <4>1
    <3>4. CASE server.pc = "confirm"
      <4>1. server.peer \in Clients /\ server.peer # c /\ server.peer \notin Ahead(c)
        BY <1>2, <1>8, <3>4 DEF Bounds, Serving, Ahead
      <4>2. Cardinality(Ahead(c)) <= Cardinality(Clients) - 2
        BY <3>1, <4>1
      <4>3. Again(c)' = 1
        BY <1>1, <3>2, <3>4 DEF Again
      <4>4. HalfOpen(c)' \in 0 .. 3
        BY <1>8, NumbersNext DEF Numbers
      <4> QED  BY <3>1, <4>2, <4>3, <4>4
    <3>5. server.pc \in {"listen", "confirm"}
      BY <1>8 DEF Bounds, IInv, TypeOK, ServerStates
    <3> QED  BY <3>3, <3>4, <3>5
  <2>8. Rest(c)' >= Again(c)' + Cost(c, m.cookie)
    <3>1. Rest(c)' = setting.attempts - 1 - 4 * Cardinality(Ahead(c))
                        - 2 * (setting.losses - lost) - HalfOpen(c)'
      BY <1>1, <1>6, <2>1 DEF Rest
    <3>2. Numbers(c) /\ Numbers(c)'
      BY <1>8, NumbersAre, NumbersNext
    <3>3. /\ Rest(c)' \in Int /\ Again(c)' \in Int /\ HalfOpen(c)' \in Int
          /\ setting.attempts \in Nat /\ setting.losses \in Nat /\ setting.windows \in Nat
          /\ setting.windows \div 2 \in Int
          /\ lost \in Nat /\ Cardinality(Ahead(c)) \in Nat
      BY <3>2 DEF Numbers
    <3>4. Cardinality(Clients) \in Nat
      BY AheadCount
    <3> QED  BY <2>5, <2>6, <2>7, <3>1, <3>3, <3>4
  <2> QED  BY <1>6, <2>3, <2>4, <2>8 DEF Pays
<1> QED  BY <1>1, <1>6, <1>7, <1>8, <1>10, <1>11, <1>12, OneAsks

-----------------------------------------------------------------------------
(***************************************************************************)
(* A lost fragment, which two of the attempts are kept for.                *)
(***************************************************************************)
LEMMA LoseUpBudget ==
    ASSUME Enough, IInv, IInv', Budget, NEW e \in Clients, up[e] # <<>>,
           up' = [up EXCEPT ![e] = Tail(up[e])], lost < setting.losses, lost' = lost + 1,
           UNCHANGED <<setting, client, server, down, secret, bucket>>
    PROVE  Budget'
<1>1. Bounds
  BY DEF Budget
<1>2. lost \in Nat /\ setting.losses \in Nat
  BY HandshakeAssumption DEF IInv, TypeOK
<1>3. Bounds'
  BY <1>1, <1>2 DEF Bounds
<1>4. \A d \in Clients : Thins(d)
  <2> TAKE d \in Clients
  <2>1. up[d] \in Seq(Fragments(Messages)) /\ up[e] \in Seq(Fragments(Messages))
        /\ up'[d] = IF d = e THEN Tail(up[e]) ELSE up[d]
    BY DEF IInv, TypeOK
  <2>2. Suffix(Tail(up[e]), up[e]) /\ Suffix(up[d], up[d])
    BY <2>1, TailSuffix, SuffixKept
  <2>3. Suffix(up'[d], up[d])
    BY <2>1, <2>2
  <2>4. Less(d, server'.partials, server.partials)
    BY DEF Less
  <2> QED  BY <2>3, <2>4, ThinsLess
<1>5. ASSUME NEW c \in Clients, client[c].pc = "waiting" PROVE Pays(c)'
  <2>1. Numbers(c) /\ Numbers(c)' /\ Pays(c)
    BY <1>1, <1>3, <1>5, NumbersAre, NumbersNext DEF Budget
  <2>2. Serving(c)' = Serving(c) /\ HalfOpen(c)' = HalfOpen(c)
    BY DEF Serving, HalfOpen
  <2>3. \A d \in Clients : d # c /\ d \in Ahead(c)' => d \in Ahead(c)
    <3>1. \A d \in Clients : Serving(d) => Serving(d)'
      BY DEF Serving
    <3> QED  BY <1>4, <3>1, NoneAhead
  <2>4. Rest(c)' >= Rest(c) + ((client[c].attempt - client'[c].attempt) + 2 * (lost' - lost)
                                 + (HalfOpen(c) - HalfOpen(c)'))
    BY <1>1, <1>3, <2>3, RestChange
  <2>5. Rest(c)' >= Rest(c) + 1
    <3>1. client'[c].attempt = client[c].attempt /\ client[c].attempt \in Nat /\ HalfOpen(c) \in Int
          /\ Rest(c) \in Int /\ Rest(c)' \in Int
      BY <2>1 DEF Numbers
    <3> QED  BY <1>2, <2>2, <2>4, <3>1
  <2>6. Again(c)' <= Again(c) + 1 /\ Turn' <= Turn + 1
    BY <2>2 DEF Again, Turn
  <2> QED  BY <1>1, <1>3, <1>5, <2>1, <2>5, <2>6, PaysKept
<1> QED  BY <1>3, <1>4, <1>5, ServerBudget

LEMMA LoseDownBudget ==
    ASSUME Enough, IInv, IInv', CInv, Turns, Budget, NEW c \in Clients, down[c] # <<>>,
           down' = [down EXCEPT ![c] = Tail(down[c])], lost < setting.losses, lost' = lost + 1,
           UNCHANGED <<setting, client, server, up, secret, bucket>>
    PROVE  Budget'
<1>1. Bounds
  BY DEF Budget
<1>2. lost \in Nat /\ setting.losses \in Nat
  BY HandshakeAssumption DEF IInv, TypeOK
<1>3. Bounds'
  BY <1>1, <1>2 DEF Bounds
<1>4. \A d \in Clients : Thins(d)
  BY DEF Thins
<1>5. client[c].pc = "waiting" /\ Answered(c)
  BY DEF CInv, Local
<1>6. /\ down[c] \in Seq(Fragments(Messages)) /\ down'[c] = Tail(down[c])
      /\ \A i \in 1 .. Len(Tail(down[c])) : i + 1 \in 1 .. Len(down[c])
                                            /\ Tail(down[c])[i] = down[c][i + 1]
  <2>1. down[c] \in Seq(Fragments(Messages)) /\ down'[c] = Tail(down[c])
    BY DEF IInv, TypeOK
  <2> QED  BY <2>1, TailSuffix
<1>7. Numbers(c) /\ Numbers(c)' /\ Pays(c)
  BY <1>1, <1>3, <1>5, NumbersAre, NumbersNext DEF Budget
<1>8. Rest(c)' >= Rest(c) + 2 /\ Rest(c) \in Int /\ Rest(c)' \in Int
  <2>1. Ahead(c)' = Ahead(c)
    BY SameAhead
  <2>2. HalfOpen(c)' = HalfOpen(c)
    BY DEF HalfOpen
  <2>3. Rest(c)' >= Rest(c) + ((client[c].attempt - client'[c].attempt) + 2 * (lost' - lost)
                                 + (HalfOpen(c) - HalfOpen(c)'))
    BY <1>1, <1>3, <2>1, RestChange
  <2>4. client'[c].attempt = client[c].attempt /\ client[c].attempt \in Nat /\ HalfOpen(c) \in Int
        /\ Rest(c) \in Int /\ Rest(c)' \in Int
    BY <1>7 DEF Numbers
  <2> QED  BY <1>2, <2>2, <2>3, <2>4
<1>9. /\ Again(c)' = Again(c) /\ Turn' = Turn
      /\ Again(c) \in 0 .. 2 /\ Turn \in 1 .. 2
      /\ ~Serving(c) => Again(c) <= 1
  <2>1. Serving(c)' = Serving(c) /\ Asked(c)' = Asked(c)
    BY DEF Serving, Asked
  <2> QED  BY <1>7, <2>1 DEF Again, Turn, Numbers
<1>10. \A ck : Cost(c, ck)' = Cost(c, ck)
  BY DEF Cost, ValidCookie, Left
<1>11. /\ Cost(c, client[c].init.cookie) \in Int /\ Left(bucket) \in Int
       /\ Cost(c, client[c].init.cookie) <= Left(bucket) + 1
  <2>1. client[c].init.cookie \in Cookies
    BY DEF IInv, TypeOK, ClientStates, Messages
  <2> QED  BY <2>1, CostBounds
<1>12. \A m : Answering(c, m) => Cost(c, m.cookie) \in Int /\ Left(bucket) <= Cost(c, m.cookie)
  BY AnsweringType, CostBounds
<1>13. \A m : Answering(c, m)' => Answering(c, m)
  BY <1>6, ComingLess DEF Answering
<1>14. ASSUME NEW m, Answering(c, m)'
       PROVE  IF m.type = "Challenge" THEN Rest(c)' >= Turn' + Cost(c, m.cookie)
                                      ELSE Rest(c)' >= Cost(c, client[c].init.cookie)
  <2>1. IF m.type = "Challenge" THEN Rest(c) >= Turn + Cost(c, m.cookie)
                                ELSE Rest(c) >= Cost(c, client[c].init.cookie)
    BY <1>7, <1>13, <1>14 DEF Pays
  <2>2. Cost(c, m.cookie) \in Int
    BY <1>12, <1>13, <1>14
  <2> QED  BY <1>8, <1>9, <1>11, <2>1, <2>2
<1>15. Rest(c)' >= Again(c)' + Cost(c, client[c].init.cookie)
  <2>1. CASE \A m : ~Answering(c, m)
    <3>1. Rest(c) >= Again(c) + Cost(c, client[c].init.cookie)
      BY <1>7, <2>1 DEF Pays
    <3> QED  BY <1>8, <1>9, <1>11, <3>1
  <2>2. ASSUME NEW m, Answering(c, m), m.type = "Challenge"
        PROVE  Rest(c)' >= Again(c)' + Cost(c, client[c].init.cookie)
    <3>1. Rest(c) >= Turn + Cost(c, m.cookie)
      BY <1>7, <2>2 DEF Pays
    <3>2. ~Serving(c)
      BY <1>5, <2>2, AnsweringType DEF Answered
    <3>3. Cost(c, m.cookie) \in Int /\ Left(bucket) <= Cost(c, m.cookie)
      BY <1>12, <2>2
    <3> QED  BY <1>8, <1>9, <1>11, <3>1, <3>2, <3>3
  <2>3. ASSUME NEW m, Answering(c, m), m.type # "Challenge"
        PROVE  Rest(c)' >= Again(c)' + Cost(c, client[c].init.cookie)
    <3>1. Rest(c) >= Cost(c, client[c].init.cookie)
      BY <1>7, <2>3 DEF Pays
    <3> QED  BY <1>8, <1>9, <1>11, <3>1
  <2> QED  BY <2>1, <2>2, <2>3
<1>16. Pays(c)'
  BY <1>10, <1>14, <1>15 DEF Pays
<1>17. \A d \in Clients : client[d].pc = "waiting" =>
          /\ Pays(d)'
          /\ \A i \in 1 .. Len(down'[d]) : \E j \in 1 .. Len(down[d]) : down'[d][i] = down[d][j]
          /\ down'[d] # <<>> => down[d] # <<>>
  <2>1. \A d \in Clients : client[d].pc = "waiting" => d = c
    BY <1>5, Alone
  <2>2. \A i \in 1 .. Len(down'[c]) : \E j \in 1 .. Len(down[c]) : down'[c][i] = down[c][j]
    BY <1>6
  <2> QED  BY <1>16, <2>1, <2>2
<1> QED  BY <1>3, <1>4, <1>17, ServerBudget

LEMMA LoseBudget ==
    ASSUME Enough, IInv, IInv', CInv, Turns, Budget, NEW c \in Clients, Lose(c)
    PROVE  Budget'
<1>1. /\ UNCHANGED <<setting, client, server, secret, bucket>>
      /\ lost < setting.losses /\ lost' = lost + 1
      /\ \/ up[c] # <<>> /\ up' = [up EXCEPT ![c] = Tail(up[c])] /\ UNCHANGED down
         \/ down[c] # <<>> /\ down' = [down EXCEPT ![c] = Tail(down[c])] /\ UNCHANGED up
  BY DEF Lose, LoseFrom
<1>2. CASE up[c] # <<>> /\ up' = [up EXCEPT ![c] = Tail(up[c])] /\ UNCHANGED down
  BY <1>1, <1>2, LoseUpBudget
<1>3. CASE down[c] # <<>> /\ down' = [down EXCEPT ![c] = Tail(down[c])] /\ UNCHANGED up
  BY <1>1, <1>3, LoseDownBudget
<1> QED  BY <1>1, <1>2, <1>3

-----------------------------------------------------------------------------
(***************************************************************************)
(* The invariant as a whole.                                               *)
(***************************************************************************)
LEMMA AcceptedGrows == [Next]_vars => accepted \subseteq accepted'
BY DEF Next, vars, ServerStep, ClientStep, Start, AttemptTimeout, ClientReceive, Leave,
       ListenReceive, ConfirmReceive, TunnelReceive, ConfirmTimeout, SocketError, TunnelEnds,
       Prune, NextWindow, Lose

LEMMA InitBudget == Init => CalmBudget
<1> SUFFICES ASSUME Init PROVE Turns /\ Budget
  BY DEF CalmBudget
<1>1. /\ \A c \in Clients : client[c].pc = "idle" /\ up[c] = <<>> /\ down[c] = <<>>
      /\ server = Listen /\ bucket = 1 /\ lost = 0 /\ setting \in Settings /\ verified = {}
      /\ server.pc = "listen" /\ server.waited = 0 /\ server.partials = NoPartials
  BY DEF Init, Idle, Listen
<1>2. Turns
  BY <1>1 DEF Turns
<1>3. DOMAIN NoPartials = {} /\ 1 .. Len(<<>>) = {}
  BY DEF NoPartials
<1>4. Bounds
  <2>1. setting.losses \in Nat /\ setting.windows \in Nat
    BY <1>1, HandshakeAssumption
  <2> QED  BY <1>1, <1>3, <2>1 DEF Bounds
<1>5. ASSUME NEW c \in Clients PROVE Sparse(c)
  <2>1. \A S : Few(c, up[c], server.partials, S)
    BY <1>1, <1>3 DEF Few
  <2>2. \A B, a : Clean(c, up[c], server.partials, B, a)
    BY <1>1, <1>3 DEF Clean
  <2> QED  BY <2>1, <2>2 DEF Sparse
<1> QED  BY <1>1, <1>2, <1>4, <1>5 DEF Budget

\* As long as no client got in, a step keeps the budget, and no client runs out of attempts.
LEMMA NextBudget ==
    ASSUME Enough, IInv, IInv', Calm, CInv, CInv', Turns, Budget, [Next]_vars, accepted' = {}
    PROVE  /\ Budget'
           /\ \A c \in Clients : client'[c].pc = "failed" => client[c].pc = "failed"
<1>1. ASSUME NEW c \in Clients, ClientReceive(c) \/ AttemptTimeout(c)
      PROVE  /\ Budget'
             /\ \A d \in Clients : client'[d].pc = "failed" => client[d].pc = "failed"
  <2>1. Budget' /\ client'[c].pc # "failed"
    BY <1>1, ClientReceiveBudget, AttemptTimeoutBudget
  <2>2. \A d \in Clients : d # c => client'[d] = client[d]
    BY <1>1 DEF ClientReceive, AttemptTimeout, NextAttempt, IInv, TypeOK
  <2> QED  BY <2>1, <2>2
<1>2. ASSUME NEW c \in Clients, Start(c) \/ Leave(c)
      PROVE  /\ Budget'
             /\ \A d \in Clients : client'[d].pc = "failed" => client[d].pc = "failed"
  <2>1. Budget'
    BY <1>2, StartBudget, LeaveBudget
  <2>2. \A d \in Clients : d # c => client'[d] = client[d]
    BY <1>2 DEF Start, Leave, IInv, TypeOK
  <2>3. client'[c].pc # "failed"
    BY <1>2 DEF Start, Leave, IInv, TypeOK, Idle
  <2> QED  BY <2>1, <2>2, <2>3
<1>3. CASE UNCHANGED client /\ Budget'
  BY <1>3
<1>4. ASSUME NEW c \in Clients, Lose(c) PROVE UNCHANGED client /\ Budget'
  BY <1>4, LoseBudget DEF Lose
<1>5. ASSUME ServerStep PROVE UNCHANGED client /\ Budget'
  <2>1. UNCHANGED client
    BY <1>5 DEF ServerStep, ListenReceive, ConfirmReceive, TunnelReceive, ConfirmTimeout
  <2>2. \A c \in Clients : ~TunnelReceive(c)
    BY DEF Budget, Bounds, TunnelReceive
  <2>3. Budget'
    BY <1>5, <2>2, ListenReceiveBudget, ConfirmReceiveBudget, ConfirmTimeoutBudget DEF ServerStep
  <2> QED  BY <2>1, <2>3
<1>6. ~SocketError /\ ~TunnelEnds
  <2>1. errors \in Nat /\ setting.errors = 0
    BY DEF IInv, TypeOK, Calm
  <2> QED  BY <2>1 DEF SocketError, TunnelEnds, Budget, Bounds
<1>7. ASSUME Prune \/ NextWindow PROVE UNCHANGED client /\ Budget'
  BY <1>7, PruneBudget, WindowBudget DEF Prune, NextWindow
<1>8. ASSUME UNCHANGED vars PROVE UNCHANGED client /\ Budget'
  <2>1. UNCHANGED <<setting, up, down, client, server, secret, bucket, lost>>
    BY <1>8 DEF vars
  <2>2. Bounds'
    BY <2>1 DEF Budget, Bounds
  <2>3. \A d \in Clients : Thins(d)
    BY <2>1 DEF Thins
  <2>4. ASSUME NEW c \in Clients, client[c].pc = "waiting" PROVE Pays(c)'
    <3>1. Serving(c)' = Serving(c) /\ Asked(c)' = Asked(c) /\ HalfOpen(c)' = HalfOpen(c)
      BY <2>1 DEF Serving, Asked, HalfOpen
    <3>2. Ahead(c)' = Ahead(c)
      BY <2>1, SameAhead
    <3>3. Rest(c)' = Rest(c) /\ Again(c)' = Again(c) /\ Turn' = Turn
      BY <2>1, <3>1, <3>2 DEF Rest, Again, Turn
    <3>4. \A k : Answering(c, k)' <=> Answering(c, k)
      BY <2>1 DEF Answering
    <3>5. \A ck : Cost(c, ck)' = Cost(c, ck)
      BY <2>1 DEF Cost, ValidCookie, Left
    <3>6. Pays(c)
      BY <2>4 DEF Budget
    <3> QED  BY <2>1, <3>3, <3>4, <3>5, <3>6 DEF Pays
  <2> QED  BY <2>1, <2>2, <2>3, <2>4, ServerBudget
<1> QED  BY <1>1, <1>2, <1>3, <1>4, <1>5, <1>6, <1>7, <1>8 DEF Next, ClientStep

\* Only a client that waits can run out of attempts, and then nobody gets in.
LEMMA NewFailure ==
    ASSUME IInv, [Next]_vars, NEW c \in Clients, client'[c].pc = "failed", client[c].pc # "failed"
    PROVE  client[c].pc = "waiting" /\ accepted' = accepted
<1>1. ASSUME NEW d \in Clients, ClientReceive(d) \/ AttemptTimeout(d)
      PROVE  client[c].pc = "waiting" /\ accepted' = accepted
  <2>1. client[d].pc = "waiting" /\ accepted' = accepted
    BY <1>1 DEF ClientReceive, AttemptTimeout
  <2>2. d # c => client'[c] = client[c]
    BY <1>1 DEF ClientReceive, AttemptTimeout, NextAttempt, IInv, TypeOK
  <2> QED  BY <2>1, <2>2
<1>2. ASSUME NEW d \in Clients, Start(d) \/ Leave(d) PROVE FALSE
  <2>1. d # c => client'[c] = client[c]
    BY <1>2 DEF Start, Leave, IInv, TypeOK
  <2>2. client'[d].pc # "failed"
    BY <1>2 DEF Start, Leave, IInv, TypeOK, Idle
  <2> QED  BY <2>1, <2>2
<1>3. client' # client
  OBVIOUS
<1> QED  BY <1>1, <1>2, <1>3 DEF Next, vars, ServerStep, ClientStep, ListenReceive, ConfirmReceive,
            TunnelReceive, ConfirmTimeout, SocketError, TunnelEnds, Prune, NextWindow, Lose

LEMMA NextCalmBudget ==
    Enough /\ IInv /\ CalmInv /\ CalmBudget /\ GetsIn /\ [Next]_vars => CalmBudget' /\ GetsIn'
<1> SUFFICES ASSUME Enough, IInv, CalmInv, CalmBudget, GetsIn, [Next]_vars
             PROVE  CalmBudget' /\ GetsIn'
  OBVIOUS
<1>1. IInv' /\ CalmInv'
  BY NextIInv, NextCalmInv DEF Enough
<1>2. UNCHANGED setting
  BY DEF vars, Next, ServerStep, ClientStep, Start, AttemptTimeout, ClientReceive, Leave,
         ListenReceive, ConfirmReceive, TunnelReceive, ConfirmTimeout, SocketError, TunnelEnds,
         Prune, NextWindow, Lose
<1>3. Calm' = Calm
  BY <1>2 DEF Calm
<1>4. CASE ~Calm
  BY <1>3, <1>4 DEF CalmBudget, GetsIn
<1>5. CASE Calm
  <2>1. CInv /\ CInv' /\ Turns /\ (accepted = {} => Budget)
    BY <1>1, <1>3, <1>5 DEF CalmInv, CalmBudget
  <2>2. Turns' /\ accepted \subseteq accepted'
    BY <2>1, TurnsNext, AcceptedGrows
  <2>3. ASSUME accepted' = {}
        PROVE  /\ Budget'
               /\ \A c \in Clients : client'[c].pc = "failed" => client[c].pc = "failed"
    <3>1. Budget
      BY <2>1, <2>2, <2>3
    <3> QED  BY <1>1, <1>5, <2>1, <2>3, <3>1, NextBudget
  <2>4. ASSUME NEW c \in Clients, client'[c].pc = "failed"
        PROVE  \E a \in accepted' : a[1] < c
    <3>1. CASE client[c].pc = "failed"
      BY <1>5, <2>2, <3>1 DEF GetsIn
    <3>2. CASE client[c].pc # "failed"
      <4>1. client[c].pc = "waiting" /\ accepted' = accepted
        BY <2>4, <3>2, NewFailure
      <4>2. accepted # {}
        BY <2>3, <2>4, <3>2, <4>1
      <4> QED  BY <2>1, <4>1, <4>2, LateFailure
    <3> QED  BY <3>1, <3>2
  <2> QED  BY <2>2, <2>3, <2>4 DEF CalmBudget, GetsIn
<1> QED  BY <1>4, <1>5

(***************************************************************************)
(* HS_MAX_ATTEMPTS is enough (run_handshake_initiator, against the loop of *)
(* run_handshake_responder): while the timers outlast the round trip and   *)
(* no Confirm is lost, no client runs out of attempts before another got   *)
(* in, if it has two for the cookie round trip, four for each other client *)
(* that may be in its way, two for each fragment that may be lost and one  *)
(* for every second time window of the cookie.  The 8 attempts of net.rs   *)
(* make that two clients with a lost fragment and a time window, which is  *)
(* the setting of the run.  A place for two messages of each client is     *)
(* needed: MAX_PENDING_MSGS is 64.                                         *)
(***************************************************************************)
THEOREM EveryClientGetsIn ==
    ASSUME Enough
    PROVE  Spec => []GetsIn
<1>1. Init => CalmInv /\ CalmBudget /\ GetsIn
  <2>1. Init => GetsIn
    BY DEF Init, GetsIn, Idle
  <2> QED  BY <2>1, InitCInv, InitBudget DEF CalmInv
<1>2. IInv /\ CalmInv /\ [Next]_vars => CalmInv'
  BY NextCalmInv DEF Enough
<1>3. IInv /\ CalmInv /\ CalmBudget /\ GetsIn /\ [Next]_vars => CalmBudget' /\ GetsIn'
  BY NextCalmBudget
<1> QED  BY <1>1, <1>2, <1>3, IInvInvariance, PTL DEF Spec
=============================================================================
