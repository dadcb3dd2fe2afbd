------------------------------- MODULE Upstream -------------------------------
(***************************************************************************)
(* src/protocol/upstream-transport.ts: connectPostgresUpstream(), which    *)
(* owns TCP, the SSLRequest and TLS until a verified handoff, and          *)
(* DeferredUpstream, the socket the proxy uses before there is one.        *)
(***************************************************************************)
EXTENDS Naturals, Sequences

CONSTANT Tls  \* the transport requires verified TLS

ASSUME TlsAssumption == Tls \in BOOLEAN

VARIABLES
  phase,      \* see Phases
  pending,    \* #pending: writes before there is a socket
  ending,     \* #end: end() was called before there is a socket
  destroyed,  \* #destroyed
  dead,       \* the handed socket was reset or destroyed
  toServer,   \* what the socket was given and PostgreSQL has not read
  ended,      \* the socket was ended
  errors,     \* 'error' events emitted
  closes      \* 'close' events emitted

upstream == <<phase, pending, ending, destroyed, dead, toServer, ended, errors, closes>>

(* fail() has settled the connection and waits for its handles to close;   *)
(* handoff() has settled it and the promise's consumer has not run yet.    *)
Connecting == {"tcp", "negotiation", "handshake"}

Phases == Connecting \union {"failing", "rejected", "handoff", "attached"}

UpstreamInit ==
  /\ phase = "tcp" /\ pending = <<>> /\ ending = FALSE /\ destroyed = FALSE /\ dead = FALSE
  /\ toServer = <<>> /\ ended = FALSE /\ errors = 0 /\ closes = 0

-----------------------------------------------------------------------------
(***************************************************************************)
(* Calls of the proxy.                                                     *)
(***************************************************************************)
Write(bytes) ==
  IF phase = "attached"
  THEN /\ toServer' = IF ended \/ dead THEN toServer ELSE toServer \o bytes
       /\ UNCHANGED pending
  ELSE /\ pending' = IF destroyed \/ ending THEN pending ELSE pending \o bytes
       /\ UNCHANGED toServer

Written == UNCHANGED <<phase, ending, destroyed, dead, ended, errors, closes>>

(* end(): no more writes; the first one counts. *)
End ==
  /\ ending' = (ending \/ phase # "attached") /\ ended' = (ended \/ phase = "attached")
  /\ UNCHANGED <<phase, pending, destroyed, dead, toServer, errors, closes>>

(* An abort reaches a connection that has not settled at once, and no      *)
(* other: the listener is gone.                                            *)
Destroy ==
  /\ destroyed' = TRUE /\ pending' = IF destroyed THEN pending ELSE <<>>
  /\ phase' = IF ~destroyed /\ phase \in Connecting THEN "failing" ELSE phase
  /\ dead' = (dead \/ phase = "attached")
  /\ UNCHANGED <<ending, toServer, ended, errors, closes>>

-----------------------------------------------------------------------------
(***************************************************************************)
(* The connection.                                                         *)
(***************************************************************************)
Kept == UNCHANGED <<pending, ending, destroyed, toServer, ended>>

Connected ==
  /\ phase = "tcp"
  /\ phase' = IF Tls THEN "negotiation" ELSE "handoff"
  /\ UNCHANGED <<dead, errors, closes>> /\ Kept

(* One byte, S; anything else, and anything beside it, fails. *)
Reply ==
  /\ phase = "negotiation" /\ phase' \in {"handshake", "failing"}
  /\ UNCHANGED <<dead, errors, closes>> /\ Kept

(* The certificate is trusted and carries the name, or is refused. *)
Secured ==
  /\ phase = "handshake" /\ phase' \in {"handoff", "failing"}
  /\ UNCHANGED <<dead, errors, closes>> /\ Kept

(* An error, an end, a close or the deadline of the connection. *)
ConnectionFails ==
  /\ phase \in Connecting /\ phase' = "failing"
  /\ UNCHANGED <<dead, errors, closes>> /\ Kept

(* Both handles have closed: #fail(). *)
Rejects ==
  /\ phase = "failing" /\ phase' = "rejected"
  /\ errors' = IF destroyed THEN errors ELSE errors + 1
  /\ closes' = closes + 1
  /\ UNCHANGED <<dead, ending, destroyed, toServer, ended>> /\ pending' = <<>>

(* The socket is reset; before #attach() nobody listens. *)
Reset ==
  /\ phase \in {"handoff", "attached"} /\ ~dead /\ dead' = TRUE
  /\ errors' = IF phase = "attached" THEN errors + 1 ELSE errors
  /\ UNCHANGED <<phase, closes>> /\ Kept

(* Mutation: a destroy between handoff and attachment is overlooked. *)
AttachAnyhow ==
  /\ phase = "handoff" /\ phase' = "attached"
  /\ IF dead THEN errors' = errors + 1 /\ UNCHANGED <<dead, pending, toServer, ended>>
     ELSE /\ toServer' = toServer \o pending /\ pending' = <<>> /\ ended' = ending
          /\ UNCHANGED <<dead, errors>>
  /\ UNCHANGED <<ending, destroyed, closes>>

(* #attach(): what was asked for before, in order, or nothing at all. *)
Attach ==
  /\ phase = "handoff" /\ phase' = "attached"
  /\ IF destroyed \/ dead
     THEN /\ dead' = TRUE
          /\ errors' = IF destroyed THEN errors ELSE errors + 1
          /\ UNCHANGED <<pending, toServer, ended>>
     ELSE /\ toServer' = toServer \o pending /\ pending' = <<>> /\ ended' = ending
          /\ UNCHANGED <<dead, errors>>
  /\ UNCHANGED <<ending, destroyed, closes>>

SocketCloses ==
  /\ phase = "attached" /\ dead /\ closes = 0 /\ closes' = 1
  /\ UNCHANGED <<phase, dead, errors>> /\ Kept

Connects == Connected \/ Reply \/ Secured \/ Rejects \/ Attach \/ SocketCloses

Breaks == ConnectionFails \/ Reset
================================================================================
