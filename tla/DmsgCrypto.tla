----------------------------- MODULE DmsgCrypto -----------------------------
(***************************************************************************)
(* The handshake at the start of a libdmsg connection                      *)
(* (dmsg_crypto_negotiate, crypto.c): each end picks by the files it has   *)
(* for the peer whether the link is encrypted, writes a handshake of       *)
(* several blocks and reads the peer's, piece by piece, on a blocking      *)
(* socket.                                                                 *)
(*                                                                         *)
(* A handshake is HandBlocks blocks of BlockUnits pieces.  A piece names   *)
(* the key pair it was encrypted with and carries its sender's session     *)
(* key; pieces of ordinary messages carry neither.                         *)
(***************************************************************************)
EXTENDS Integers, Sequences

CONSTANTS HandBlocks, BlockUnits,
          MaxPlain    \* bound: pieces of ordinary messages an end sends

ASSUME CryptoAssumption == {HandBlocks, BlockUnits} \subseteq Nat \ {0} /\ MaxPlain \in Nat

Ends == {"a", "b"}
OtherEnd(s) == IF s = "a" THEN "b" ELSE "a"

VARIABLES hcCfg,   \* what an end has on disk for the peer and for itself
          hcPc, hcWire, hcGot, hcRx, hcTx

hcVars == <<hcCfg, hcPc, hcWire, hcGot, hcRx, hcTx>>

\* "pub" a public key, "oldpub" one the peer has since replaced, "none" a
\* .none file, "broken" no or unusable keys or random numbers, "silent" a
\* peer that connects and does not write.
Configs == {"pub", "oldpub", "none", "broken", "silent"}

HandshakeInit(cfg) ==
  /\ hcCfg = cfg
  /\ hcPc = [s \in Ends |-> "start"]
  /\ hcWire = [s \in Ends |-> <<>>]       \* pieces on their way to s
  /\ hcGot = [s \in Ends |-> <<>>]
  /\ hcRx = [s \in Ends |-> "none"] /\ hcTx = [s \in Ends |-> "none"]

HandUnits == HandBlocks * BlockUnits

Piece(s) == [key |-> IF hcCfg[s] = "pub" THEN "good" ELSE "bad", sess |-> s]
Junk == [key |-> "bad", sess |-> "none"]

\* The files decide.
Choose(s) ==
  /\ hcPc[s] = "start"
  /\ hcPc' = [hcPc EXCEPT ![s] =
       CASE hcCfg[s] = "none" -> "plain" [] hcCfg[s] = "broken" -> "failed"
         [] hcCfg[s] = "silent" -> "idle" [] OTHER -> "write"]
  /\ UNCHANGED <<hcCfg, hcWire, hcGot, hcRx, hcTx>>

\* Mutant: the last block is left out.
HandPiecesShort(s) == [i \in 1 .. HandUnits - 1 |-> Piece(s)]

HandPieces(s) == [i \in 1 .. HandUnits |-> Piece(s)]

\* The blocks of the handshake; the socket's buffer takes them.
WriteHandshake(s) ==
  /\ hcPc[s] = "write"
  /\ hcWire' = [hcWire EXCEPT ![OtherEnd(s)] = @ \o HandPieces(s)]
  /\ hcPc' = [hcPc EXCEPT ![s] = "read"]
  /\ UNCHANGED <<hcCfg, hcGot, hcRx, hcTx>>

\* read returns what is there, at most to the end of the block.
ReadHandshake(s, n) ==
  /\ hcPc[s] = "read" /\ Len(hcGot[s]) < HandUnits
  /\ n \in 1 .. Len(hcWire[s]) /\ n <= BlockUnits - (Len(hcGot[s]) % BlockUnits)
  /\ hcGot' = [hcGot EXCEPT ![s] = @ \o SubSeq(hcWire[s], 1, n)]
  /\ hcWire' = [hcWire EXCEPT ![s] = SubSeq(@, n + 1, Len(@))]
  /\ UNCHANGED <<hcCfg, hcPc, hcRx, hcTx>>

\* The two encryptions are undone with the right keys, and verf matches.
Verified(s) == \A i \in 1 .. HandUnits :
                 hcGot[s][i].key = "good" /\ hcCfg[s] = "pub" /\ hcGot[s][i].sess # "none"

\* Mutant: the peer's session key is used in both directions.
SessionPeer(s) == hcGot[s][1].sess

Session(s) == s

Validate(s) ==
  /\ hcPc[s] = "read" /\ Len(hcGot[s]) = HandUnits
  /\ IF Verified(s)
     THEN /\ hcRx' = [hcRx EXCEPT ![s] = hcGot[s][1].sess]
          /\ hcTx' = [hcTx EXCEPT ![s] = Session(s)]
          /\ hcPc' = [hcPc EXCEPT ![s] = "crypted"]
     ELSE hcPc' = [hcPc EXCEPT ![s] = "failed"] /\ UNCHANGED <<hcRx, hcTx>>
  /\ UNCHANGED <<hcCfg, hcWire, hcGot>>

\* The peer has closed the socket and all it wrote is read.
ReadEof(s) ==
  /\ hcPc[s] = "read" /\ Len(hcGot[s]) < HandUnits
  /\ hcPc[OtherEnd(s)] = "failed" /\ hcWire[s] = <<>>
  /\ hcPc' = [hcPc EXCEPT ![s] = "failed"]
  /\ UNCHANGED <<hcCfg, hcWire, hcGot, hcRx, hcTx>>

\* An end without encryption goes on to its ordinary messages.
SendPlain(s) ==
  /\ hcPc[s] = "plain" /\ Len(hcWire[OtherEnd(s)]) + Len(hcGot[OtherEnd(s)]) < MaxPlain
  /\ hcWire' = [hcWire EXCEPT ![OtherEnd(s)] = Append(@, Junk)]
  /\ UNCHANGED <<hcCfg, hcPc, hcGot, hcRx, hcTx>>

HandshakeNext ==
  \/ \E s \in Ends : \/ Choose(s) \/ WriteHandshake(s) \/ Validate(s) \/ ReadEof(s)
                     \/ SendPlain(s) \/ \E n \in 1 .. BlockUnits : ReadHandshake(s, n)

HandshakeEnd(s) ==
  Choose(s) \/ WriteHandshake(s) \/ Validate(s) \/ ReadEof(s)
  \/ \E n \in 1 .. BlockUnits : ReadHandshake(s, n)

\* Each end's thread runs on as long as it can.
HandshakeFair == \A s \in Ends : WF_hcVars(HandshakeEnd(s))

HandshakeSpec == /\ \E cfg \in [Ends -> Configs] : HandshakeInit(cfg)
                 /\ [][HandshakeNext]_hcVars /\ HandshakeFair

-----------------------------------------------------------------------------
(* Properties.                                                             *)

\* Two ends that have both come through the handshake use matching session
\* keys: each decrypts with the key the other encrypts with, and the two
\* directions have different keys.
SessionsPair ==
  (\A s \in Ends : hcPc[s] = "crypted") =>
    /\ \A s \in Ends : hcRx[s] = hcTx[OtherEnd(s)]
    /\ hcTx["a"] # hcTx["b"]

\* An end never encrypts towards an end that does not: the files of both
\* ends must match.
ModesAgree == ~(\E s \in Ends : hcPc[s] = "crypted" /\ hcPc[OtherEnd(s)] = "plain")

\* Two ends that hold each other's current keys get through, however the
\* reads cut up the blocks.
HandshakeDone ==
  []<>((\A s \in Ends : hcCfg[s] = "pub") => \A s \in Ends : hcPc[s] = "crypted")

\* crypto.c: "Synchronously negotiate crypto for a new session.  This must
\* occur within 10 seconds or the connection is error'd out."  The negotiation
\* of an end is over at some time, whatever the peer does.
HandshakeEnds == \A s \in Ends : (hcPc[s] = "read") ~> (hcPc[s] \in {"crypted", "failed"})

\* dmsg_crypto_negotiate lets two ends through only with matching session keys
\* and never one that encrypts towards one that does not.
HandshakeSafe == SessionsPair /\ ModesAgree
=============================================================================
