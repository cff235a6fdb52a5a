------------------------------ MODULE Handshake ------------------------------
(***************************************************************************)
(* The handshake of VNCConnection with a server: version, security type,   *)
(* authentication, ClientInit and ServerInit, over a stream that delivers  *)
(* what the server wrote in pieces.  The client takes a field either       *)
(* exactly, in one read(length:), or buffered, in as many reads as it      *)
(* needs; what a read does with fewer bytes than it asked for, or at the   *)
(* end of the stream, is up to the backend.                                *)
(*                                                                         *)
(* The stream consists of units that remember which field they are part    *)
(* of, which the client cannot see: a field of one byte is one unit, any   *)
(* longer one is two, so that it can arrive in pieces.  What the client    *)
(* writes arrives whole.  The server is external: it follows the RFB       *)
(* protocol, in the version the client asked for.                          *)
(***************************************************************************)
EXTENDS Naturals, Sequences, SequencesExt, FiniteSetsExt

CONSTANTS
    Backends,     \* a subset of {"nw", "socket"}
    Versions,     \* versions the server may announce
    Offers,       \* sets of security types the server may offer
    Lengths       \* possible lengths of the desktop's name, a reason and a key, in units

Types == {"none", "vnc", "diffieHellman", "ultraVNCMSLogonII", "tight", "other"}

ASSUME HandshakeAssumption ==
    /\ Backends \subseteq {"nw", "socket"}
    /\ Versions \subseteq [major : Nat, minor : Nat]
    /\ Offers \subseteq SUBSET (Types \ {"tight"})    \* chosen, but not implemented
    /\ Lengths \subseteq {0, 2}

VARIABLES
    backend,     \* how NetworkConnection is implemented
    client,      \* the handshake Task
    server,
    toServer,    \* messages of the client
    wire,        \* units the server has written and that are not delivered
    arrived      \* units delivered and not read

vars == <<backend, client, server, toServer, wire, arrived>>

NoVersion == [major |-> 0, minor |-> 0]

(* What performVNCAuthentication, performARDAuthentication and
   performUltraVNCMSLogonIIAuthentication read before they ask for a credential. *)
Challenge(type) ==
    CASE type = "vnc"               -> <<"challenge">>
      [] type = "diffieHellman"     -> <<"generator", "keySize", "prime", "peerKey">>
      [] type = "ultraVNCMSLogonII" -> <<"gen", "modulus", "resp">>
      [] OTHER                      -> <<>>

ChallengeFields == {"challenge", "generator", "keySize", "prime", "peerKey",
                    "gen", "modulus", "resp"}
Fields == {"version", "count", "types", "reasonLength", "reason", "result",
           "size", "nameLength", "name"} \cup ChallengeFields
Writes == {"sendVersion", "sendType", "sendResponse", "sendInit", "sendFormat", "sendEncodings"}
Errors == {"none", "closed", "invalid", "undecided", "noTypes", "rejected", "denied", "setup"}

Clients ==
    [at : Fields \cup Writes \cup {"credential", "connected", "failed"},
     got : Nat, number : Nat, seen : SUBSET Types,
     version : {v \in Versions : v.major <= 3 /\ v.minor <= 8}
               \cup {NoVersion, [major |-> 3, minor |-> 8]},
     type : Types \cup {"invalid"}, error : Errors]
Servers ==
    [at : {"greets", "version", "type", "response", "init", "session", "closed"},
     version : Versions, offer : Offers, agreed : [major : Nat, minor : Nat],
     type : Types \cup {"invalid"}, accepts : BOOLEAN, gaveUp : BOOLEAN]

TypeOK ==
    /\ backend \in Backends
    /\ client \in Clients
    /\ server \in Servers
    /\ \A i \in DOMAIN wire : wire[i].of \in Fields
    /\ \A i \in DOMAIN arrived : arrived[i].of \in Fields

Init ==
    /\ backend \in Backends
    /\ client = [at |-> "version", got |-> 0, number |-> 0, seen |-> {},
                 version |-> NoVersion, type |-> "invalid", error |-> "none"]
    /\ \E version \in Versions, offer \in Offers, accepts \in BOOLEAN :
        server = [at |-> "greets", version |-> version, offer |-> offer, agreed |-> NoVersion,
                  type |-> "invalid", accepts |-> accepts, gaveUp |-> FALSE]
    /\ toServer = <<>> /\ wire = <<>> /\ arrived = <<>>

-----------------------------------------------------------------------------
(***************************************************************************)
(* The client's decisions.                                                 *)
(***************************************************************************)
Is3Point8OrHigherMutant(version) == version.major >= 3 /\ version.minor > 8
Is3Point8OrHigher(version) == version.major >= 3 /\ version.minor >= 8

(* sendProtocolVersion. *)
AgreedMutant(version) == version
Agreed(version) ==
    IF version.major <= 3 /\ version.minor <= 8 THEN version ELSE [major |-> 3, minor |-> 8]

(* decideSecurityType. *)
Preference == <<"none", "diffieHellman", "ultraVNCMSLogonII", "vnc", "tight">>
Decided(offered) ==
    IF offered \cap ToSet(Preference) = {} THEN "invalid"
    ELSE Preference[Min({i \in DOMAIN Preference : Preference[i] \in offered})]

(* shouldRequestSecurityTypeResult in sendAuthenticationData. *)
ResultExpectedMutant(type, version) == type # "none" \/ version.minor >= 7
ResultExpected(type, version) == type # "none" \/ Is3Point8OrHigher(version)

LengthMutant(c) ==
    CASE c.at = "count" -> 1
      [] c.at \in {"types", "reason", "prime", "peerKey"} -> c.number
      [] c.at = "name" -> c.number - 1
      [] OTHER -> 2
Length(c) ==
    CASE c.at = "count" -> 1
      [] c.at \in {"types", "reason", "name", "prime", "peerKey"} -> c.number
      [] OTHER -> 2

(* read(length:) or readUInt16 and the like, against readBuffered(length:). *)
Exact(field) ==
    field \in {"count", "reasonLength", "result", "keySize", "size", "nameLength"}

Fails(c, error) ==
    [c EXCEPT !.at = "failed", !.got = 0, !.error = IF @ = "none" THEN error ELSE @]

Goes(c, to) == [c EXCEPT !.at = to, !.got = 0]

AfterAuthentication(c) ==
    Goes(c, IF ResultExpected(c.type, c.version) THEN "result" ELSE "sendInit")

AfterChallenge(c) ==
    LET fields == Challenge(c.type)
        i == CHOOSE n \in DOMAIN fields : fields[n] = c.at
    IN  IF i = Len(fields) THEN Goes(c, "credential") ELSE Goes(c, fields[i + 1])

AfterResultMutant(c, ok) ==
    IF ok THEN Goes(c, "sendInit")
    ELSE IF Is3Point8OrHigher(c.version) THEN Goes(c, "reasonLength") ELSE Fails(c, "rejected")

(* A reason is read with try?: whatever happens to it, the error is the one before. *)
AfterResult(c, ok) ==
    IF ok THEN Goes(c, "sendInit")
    ELSE LET rejected == [c EXCEPT !.error = "rejected"]
         IN  IF Is3Point8OrHigher(c.version)
             THEN Goes(rejected, "reasonLength") ELSE Fails(rejected, "rejected")

AfterTypes(c) ==
    IF Decided(c.seen) = "invalid" THEN Fails(c, "undecided")
    ELSE Goes([c EXCEPT !.type = Decided(c.seen)], "sendType")

(* Where the client goes on with value as the value of the field it has read. *)
After(c, value) ==
    CASE c.at = "version" -> Goes([c EXCEPT !.version = Agreed(value)], "sendVersion")
      [] c.at = "count" ->
            IF value > 0 THEN Goes([c EXCEPT !.number = value], "types")
            ELSE Goes([c EXCEPT !.error = "noTypes"], "reasonLength")
      [] c.at = "types" -> AfterTypes(c)
      [] c.at = "reasonLength" ->
            IF value > 0 THEN Goes([c EXCEPT !.number = value], "reason")
            ELSE Fails(c, "closed")
      [] c.at = "reason" -> Fails(c, "closed")
      [] c.at = "keySize" -> AfterChallenge([c EXCEPT !.number = value])
      [] c.at \in ChallengeFields \ {"keySize"} -> AfterChallenge(c)
      [] c.at = "result" -> AfterResult(c, value)
      [] c.at = "size" -> Goes(c, "nameLength")
      [] c.at = "nameLength" ->
            IF value > 0 THEN Goes([c EXCEPT !.number = value], "name")
            ELSE Goes(c, "sendFormat")
      [] c.at = "name" -> Goes(c, "sendFormat")

-----------------------------------------------------------------------------
(***************************************************************************)
(* The client reads.                                                       *)
(***************************************************************************)
Reading   == client.at \in Fields
Remaining == Length(client) - client.got
AtEnd     == server.at = "closed" /\ wire = <<>>

Consume(n) ==
    LET value == arrived[n].value
        more  == [client EXCEPT !.got = @ + n,
                                !.seen = IF client.at = "types"
                                         THEN @ \cup {arrived[i].value : i \in 1..n} ELSE @]
    IN  /\ arrived' = SubSeq(arrived, n + 1, Len(arrived))
        /\ client' = IF n = Remaining THEN After(more, value) ELSE more

(* A read returns what there is, up to the length it asked for.  read(length:) asks
   for the whole field: NWConnection waits for it, a socket does not.               *)
Read ==
    /\ Reading /\ arrived # <<>>
    /\ LET n == Min({Len(arrived), Remaining})
       IN  /\ Exact(client.at) => n = Remaining
           /\ Consume(n)
    /\ UNCHANGED <<backend, server, toServer, wire>>

(* The socket's read throws when it gets less than the minimum length. *)
ShortRead ==
    /\ backend = "socket" /\ Reading /\ arrived # <<>>
    /\ Exact(client.at) /\ Len(arrived) < Remaining
    /\ arrived' = <<>>
    /\ client' = Fails(client, "invalid")
    /\ UNCHANGED <<backend, server, toServer, wire>>

(* At the end of the stream NWConnection reports isComplete, if it likes together with
   the last content, and read throws that content away.  A socket returns 0 after it.  *)
ReadAtEnd ==
    /\ Reading /\ AtEnd
    /\ backend = "nw" => Len(arrived) <= Remaining
    /\ backend = "socket" => arrived = <<>>
    /\ arrived' = <<>>
    /\ client' = Fails(client, "closed")
    /\ UNCHANGED <<backend, server, toServer, wire>>

-----------------------------------------------------------------------------
(***************************************************************************)
(* The client writes.                                                      *)
(***************************************************************************)
Writing(step, message, next) ==
    /\ client.at = step
    /\ toServer' = Append(toServer, message)
    /\ client' = next
    /\ UNCHANGED <<backend, server, wire, arrived>>

SendVersion ==
    Writing("sendVersion", [kind |-> "version", value |-> client.version], Goes(client, "count"))

(* sendAuthenticationData up to the first read. *)
SendType ==
    Writing("sendType", [kind |-> "type", value |-> client.type],
            IF Challenge(client.type) = <<>> THEN AfterAuthentication(client)
            ELSE Goes(client, Head(Challenge(client.type))))

SendResponse ==
    Writing("sendResponse", [kind |-> "response"], AfterAuthentication(client))
SendInit ==
    Writing("sendInit", [kind |-> "init"], Goes(client, "size"))
SendSetPixelFormat ==
    Writing("sendFormat", [kind |-> "session"], Goes(client, "sendEncodings"))
(* The framebuffer is made when SetEncodings is written, which may fail. *)
SendSetEncodings ==
    \E next \in {Goes(client, "connected"), Fails(client, "setup")} :
        Writing("sendEncodings", [kind |-> "session"], next)

(* What is computed before a write may fail as well: the response to the challenge, and
   the list of encodings when SetPixelFormat is already written.                        *)
SetupThrows ==
    /\ client.at \in {"sendResponse", "sendEncodings"}
    /\ client' = Fails(client, "setup")
    /\ UNCHANGED <<backend, server, toServer, wire, arrived>>

WriteThrows ==
    /\ client.at \in Writes /\ server.at = "closed"
    /\ client' = Fails(client, "closed")
    /\ UNCHANGED <<backend, server, toServer, wire, arrived>>

(* askDelegateForCredential. *)
CredentialAnswered ==
    /\ client.at = "credential"
    /\ \/ client' = Goes(client, "sendResponse")
       \/ client' = Fails(client, "denied")
    /\ UNCHANGED <<backend, server, toServer, wire, arrived>>

Client ==
    \/ Read \/ ShortRead \/ ReadAtEnd
    \/ SendVersion \/ SendType \/ SendResponse \/ SendInit
    \/ SendSetPixelFormat \/ SendSetEncodings \/ SetupThrows \/ WriteThrows
    \/ CredentialAnswered

-----------------------------------------------------------------------------
(***************************************************************************)
(* The server, after the RFB protocol.  Before 3.7 it decides on the       *)
(* security type itself, and only from 3.8 on it reports the result of no  *)
(* authentication and the reason of a failure.                             *)
(***************************************************************************)
Units(field, value, length) == [i \in 1..length |-> [of |-> field, value |-> value]]
Sized(lengthField, field, length) ==
    Units(lengthField, length, 2) \o Units(field, length, length)

Offering(offer) ==
    Units("count", Cardinality(offer), 1)
    \o SetToSeq({[of |-> "types", value |-> type] : type \in offer})

(* Before 3.7: no authentication, in four bytes. *)
DecidedByServer == Units("types", 0, 1) \o Units("types", 1, 1)

Challenging(type, length) ==
    CASE type = "vnc"           -> Units("challenge", 0, 2)
      [] type = "diffieHellman" -> Units("generator", 0, 2) \o Units("keySize", length, 2)
                                   \o Units("prime", 0, length) \o Units("peerKey", 0, length)
      [] type = "ultraVNCMSLogonII" ->
            Units("gen", 0, 2) \o Units("modulus", 0, 2) \o Units("resp", 0, 2)
      [] OTHER -> <<>>

Responds(next, units) ==
    /\ server' = next
    /\ wire' = wire \o units
    /\ UNCHANGED <<backend, client, arrived>>

Greet ==
    /\ server.at = "greets"
    /\ Responds([server EXCEPT !.at = "version"], Units("version", server.version, 2))
    /\ UNCHANGED toServer

Hears(kind) ==
    /\ server.at = kind
    /\ toServer # <<>> /\ Head(toServer).kind = kind
    /\ toServer' = Tail(toServer)

(* The end of the server's side of the authentication. *)
Result(next, length) ==
    IF next.accepts
    THEN [to |-> "init", units |-> Units("result", TRUE, 2)]
    ELSE [to |-> "closed", units |-> Units("result", FALSE, 2) \o
              (IF next.agreed.minor >= 8 THEN Sized("reasonLength", "reason", length) ELSE <<>>)]

HearVersion ==
    /\ Hears("version")
    /\ \E length \in Lengths :
        LET next == [server EXCEPT !.agreed = Head(toServer).value]
        IN  IF next.agreed.minor < 7
            THEN Responds([next EXCEPT !.type = "none", !.at = "init"], DecidedByServer)
            ELSE IF server.offer = {}
            THEN Responds([next EXCEPT !.at = "closed"],
                          Offering({}) \o Sized("reasonLength", "reason", length))
            ELSE Responds([next EXCEPT !.at = "type"], Offering(server.offer))

HearType ==
    /\ Hears("type")
    /\ \E length \in Lengths :
        LET next == [server EXCEPT !.type = Head(toServer).value]
            done == Result(next, length)
        IN  CASE next.type # "none" ->
                    Responds([next EXCEPT !.at = "response"], Challenging(next.type, 2))
              [] next.type = "none" /\ next.agreed.minor >= 8 ->
                    Responds([next EXCEPT !.at = done.to], done.units)
              [] OTHER -> Responds([next EXCEPT !.at = "init"], <<>>)

HearResponse ==
    /\ Hears("response")
    /\ \E length \in Lengths :
        LET done == Result(server, length)
        IN  Responds([server EXCEPT !.at = done.to], done.units)

HearInit ==
    /\ Hears("init")
    /\ \E length \in Lengths :
        Responds([server EXCEPT !.at = "session"],
                 Units("size", 0, 2) \o Sized("nameLength", "name", length))

HearSession == Hears("session") /\ Responds(server, <<>>)

(* The server may go away at any time; what was on the way may be lost. *)
GiveUp ==
    /\ server.at # "closed"
    /\ server' = [server EXCEPT !.at = "closed", !.gaveUp = TRUE]
    /\ \E n \in 0..Len(wire) : wire' = SubSeq(wire, 1, n)
    /\ UNCHANGED <<backend, client, toServer, arrived>>

Server == Greet \/ HearVersion \/ HearType \/ HearResponse \/ HearInit \/ HearSession

(* The network delivers a piece of what was written. *)
Deliver ==
    /\ wire # <<>>
    /\ \E n \in 1..Len(wire) :
        /\ arrived' = arrived \o SubSeq(wire, 1, n)
        /\ wire' = SubSeq(wire, n + 1, Len(wire))
    /\ UNCHANGED <<backend, client, server, toServer>>

-----------------------------------------------------------------------------
Next == Client \/ Server \/ GiveUp \/ Deliver

(* The network delivers, a read returns what has arrived, the owner answers the
   request for a credential and the server follows the protocol.               *)
Fairness == WF_vars(Client) /\ WF_vars(Server) /\ WF_vars(Deliver)

Spec == Init /\ [][Next]_vars /\ Fairness
-----------------------------------------------------------------------------
(***************************************************************************)
(* Properties.                                                             *)
(***************************************************************************)

(* Neither side loses the thread: what the client reads next was written as the field
   it waits for, and what the server hears next is what it waits for, in every
   version and whatever the security type adds or leaves out in between.           *)
InStep ==
    /\ Reading /\ arrived \o wire # <<>> => Head(arrived \o wire).of = client.at
    /\ toServer # <<>> /\ server.at # "closed" => Head(toServer).kind = server.at

(* The error the owner gets is the true one: an authentication error only when the
   server refused or nothing it offers is implemented, a closed connection only when
   the server gave up, and one of the client's own making only when the two sides still
   agree.  Two exceptions are the backends' doing: a socket may throw .invalidData for
   a field that arrives in pieces, and NWConnection may report the end together with
   the verdict, which is then lost.                                                 *)
FailsForAReason ==
    client.at = "failed" =>
        CASE client.error = "closed"    -> server.gaveUp \/ (backend = "nw" /\ server.at = "closed")
          [] client.error = "noTypes"   -> server.offer = {}
          [] client.error = "undecided" -> server.offer \cap ToSet(Preference) = {}
          [] client.error = "rejected"  -> ~server.accepts
          [] client.error = "denied"    -> client.type # "none"
          [] client.error = "setup"     ->
                server.agreed = client.version /\ server.type = client.type
          [] client.error = "invalid"   -> backend = "socket"
          [] OTHER -> FALSE

(* When the client considers itself connected, so does the server: it accepted it, in
   the same version and with the same security type, and waits for what the client
   sends next; the stream is empty, so that the first byte of the first update will be
   read as such.                                                                     *)
ConnectedTogether ==
    client.at = "connected" =>
        /\ server.at \in {"session", "closed"}
        /\ server.agreed = client.version /\ server.type = client.type
        /\ ResultExpected(server.type, server.agreed) => server.accepts
        /\ arrived = <<>> /\ wire = <<>>

(* The handshake has no timeout, so it must not depend on one: it never ends with both
   sides waiting for the other.                                                       *)
HandshakeEnds == <>(client.at \in {"connected", "failed"})
=============================================================================
